--------------------------- MODULE SamplesProofs ---------------------------
(***************************************************************************)
(* The programs of module MCSamples, for any values of their constants:    *)
(* the spin lock, the counter under a shared mutex, the joining thread,    *)
(* the robot servers, the Mandelbrot program, the frequency lock and the   *)
(* download.  The default objects are in OpenCLProofs.                     *)
(***************************************************************************)
EXTENDS MCSamples, SequenceTheorems, FiniteSetTheorems, WellFoundedInduction, TLAPS

-----------------------------------------------------------------------------
(***************************************************************************)
(* The spin lock, for any number of threads and rounds.                    *)
(*                                                                         *)
(* A thread holds the lock until its unlock is visible, which is later     *)
(* than its call of unlock(); the flag is set exactly while somebody holds *)
(* the lock in this sense.  Because the unlock is the last store to become *)
(* visible, a thread that no longer holds the lock has nothing pending.    *)
(***************************************************************************)

SpinTypes == /\ locked \in BOOLEAN
         /\ count \in [Threads -> Nat]
         /\ pending \in [Threads -> Stores]
         /\ pc \in [Threads -> {"spin", "locked", "counted"}]
         /\ unlocks \in [Threads -> 0 .. Rounds]

Holds(t) == pc[t] # "spin" \/ pending[t] \in {<<"unlock">>, <<"count", "unlock">>}

FlagIsHeld == locked <=> \E t \in Threads : Holds(t)

OneHolder == \A t, u \in Threads : Holds(t) /\ Holds(u) => t = u

\* What a thread may have stored, and how far its counter is.
ThreadOK(t) ==
  \/ pc[t] = "spin"    /\ pending[t] = <<>>                   /\ count[t] = unlocks[t]
  \/ pc[t] = "spin"    /\ pending[t] = <<"unlock">>           /\ count[t] = unlocks[t]
  \/ pc[t] = "spin"    /\ pending[t] = <<"count", "unlock">>  /\ count[t] + 1 = unlocks[t]
  \/ pc[t] = "locked"  /\ pending[t] = <<>>        /\ unlocks[t] < Rounds /\ count[t] = unlocks[t]
  \/ pc[t] = "counted" /\ pending[t] = <<"count">> /\ unlocks[t] < Rounds /\ count[t] = unlocks[t]
  \/ pc[t] = "counted" /\ pending[t] = <<>>        /\ unlocks[t] < Rounds /\ count[t] = unlocks[t] + 1

ThreadsOK == \A t \in Threads : ThreadOK(t)

SpinInv == SpinTypes /\ FlagIsHeld /\ OneHolder /\ ThreadsOK

-----------------------------------------------------------------------------
(* A store is queued behind the only one that is waiting.                  *)
LEMMA AppendToOne ==
  ASSUME NEW S, NEW s \in Seq(S), Len(s) = 1, NEW e \in S
  PROVE  /\ Append(s, e) \in Seq(S) /\ Len(Append(s, e)) = 2
         /\ Append(s, e)[1] = s[1] /\ Append(s, e)[2] = e
<1>1. Append(s, e) \in Seq(S)
  OBVIOUS
<1>2. Len(Append(s, e)) = 2
  OBVIOUS
<1>3. Append(s, e)[1] = s[1]
  BY 1 \in 1 .. Len(s)
<1>4. Append(s, e)[Len(s) + 1] = e
  BY AppendProperties
<1> QED
  BY <1>1, <1>2, <1>3, <1>4

LEMMA AppendOne ==
  ASSUME NEW a, NEW b
  PROVE  Append(<<a>>, b) = <<a, b>>
<1>1. <<a>> \in Seq({a, b}) /\ <<a, b>> \in Seq({a, b})
  OBVIOUS
<1>2. Len(<<a>>) = 1 /\ <<a>>[1] = a
  OBVIOUS
<1>3. Len(<<a, b>>) = 2 /\ <<a, b>>[1] = a /\ <<a, b>>[2] = b
  OBVIOUS
<1> DEFINE longer == Append(<<a>>, b)
           both == <<a, b>>
           one == <<a>>
<1> HIDE DEF both, one
<1>4. longer \in Seq({a, b}) /\ Len(longer) = 2 /\ longer[1] = a /\ longer[2] = b
  <2>1. one \in Seq({a, b}) /\ Len(one) = 1 /\ one[1] = a
    BY <1>1, <1>2 DEF one
  <2>2. Append(one, b) \in Seq({a, b}) /\ Len(Append(one, b)) = 2 /\ Append(one, b)[1] = a /\ Append(one, b)[2] = b
    BY <2>1, AppendToOne, b \in {a, b}
  <2> QED
    BY <2>2 DEF one
<1> HIDE DEF longer
<1>5. both \in Seq({a, b}) /\ Len(both) = 2 /\ both[1] = a /\ both[2] = b
  BY <1>1, <1>3 DEF both
<1>6. \A i \in 1 .. Len(longer) : longer[i] = both[i]
  BY <1>4, <1>5
<1>7. longer = both
  BY <1>4, <1>5, <1>6, SeqEqual
<1> QED
  BY <1>7 DEF longer, both

(* The queues of stores, and what is left of them.                         *)
LEMMA StoreFacts ==
  /\ Append(<<>>, "unlock") = <<"unlock">>
  /\ Append(<<"count">>, "unlock") = <<"count", "unlock">>
  /\ Head(<<"count">>) = "count" /\ Tail(<<"count">>) = <<>>
  /\ Head(<<"unlock">>) = "unlock" /\ Tail(<<"unlock">>) = <<>>
  /\ Head(<<"count", "unlock">>) = "count"
  /\ Tail(<<"count", "unlock">>) = <<"unlock">>
  /\ <<"count">> # <<>> /\ <<"unlock">> # <<>> /\ <<"count", "unlock">> # <<>>
  /\ <<"count">> # <<"unlock">> /\ <<"count">> # <<"count", "unlock">>
  /\ <<"unlock">> # <<"count", "unlock">>
<1>1. Append(<<>>, "unlock") = <<"unlock">>
  OBVIOUS
<1>2. Append(<<"count">>, "unlock") = <<"count", "unlock">>
  BY AppendOne
<1>3. Head(<<"count">>) = "count" /\ Head(<<"unlock">>) = "unlock" /\ Head(<<"count", "unlock">>) = "count"
  OBVIOUS
<1>4. Tail(<<"count">>) = <<>> /\ Tail(<<"unlock">>) = <<>>
  OBVIOUS
<1>5. Tail(<<"count", "unlock">>) = <<"unlock">>
  OBVIOUS
<1>6. <<"count">> # <<>> /\ <<"unlock">> # <<>> /\ <<"count", "unlock">> # <<>>
  OBVIOUS
<1>7. <<"count">> # <<"unlock">>
  OBVIOUS
<1>8. <<"count">> # <<"count", "unlock">> /\ <<"unlock">> # <<"count", "unlock">>
  OBVIOUS
<1> QED
  BY <1>1, <1>2, <1>3, <1>4, <1>5, <1>6, <1>7, <1>8

LEMMA SpinStarts == Init => SpinInv
<1> SUFFICES ASSUME Init PROVE SpinInv
  OBVIOUS
<1>1. SpinTypes
  <2>1. unlocks \in [Threads -> 0 .. Rounds]
    BY RoundsAssumption DEF Init
  <2>2. pending \in [Threads -> Stores]
    BY <<>> \in Stores DEF Init, Stores
  <2> QED
    BY <2>1, <2>2 DEF Init, SpinTypes
<1>2. \A t \in Threads : ~Holds(t) /\ ThreadOK(t)
  BY StoreFacts DEF Init, Holds, ThreadOK
<1> QED
  BY <1>1, <1>2 DEF Init, SpinInv, FlagIsHeld, OneHolder, ThreadsOK

LEMMA SpinLockStep ==
  ASSUME SpinInv, NEW t \in Threads, Lock(t)
  PROVE  SpinInv'
<1>1. /\ \A u \in Threads : ~Holds(u)
      /\ ThreadOK(t) /\ pc[t] = "spin" /\ pending[t] = <<>>
  BY DEF Lock, SpinInv, FlagIsHeld, ThreadsOK
<1>2. /\ locked' = TRUE /\ pc' = [pc EXCEPT ![t] = "locked"]
      /\ UNCHANGED <<count, pending, unlocks>> /\ unlocks[t] < Rounds
  BY DEF Lock
<1>3. SpinTypes'
  BY <1>2 DEF SpinInv, SpinTypes
<1>4. \A u \in Threads : Holds(u)' <=> u = t
  BY <1>1, <1>2 DEF SpinInv, SpinTypes, Holds
<1>5. FlagIsHeld' /\ OneHolder'
  BY <1>2, <1>4 DEF FlagIsHeld, OneHolder
<1>6. ThreadsOK'
  BY <1>1, <1>2, StoreFacts DEF SpinInv, SpinTypes, ThreadsOK, ThreadOK
<1> QED
  BY <1>3, <1>5, <1>6 DEF SpinInv

LEMMA SpinIncrementStep ==
  ASSUME SpinInv, NEW t \in Threads, Increment(t)
  PROVE  SpinInv'
<1>1. /\ pc[t] = "locked" /\ pending' = [pending EXCEPT ![t] = <<"count">>]
      /\ pc' = [pc EXCEPT ![t] = "counted"] /\ UNCHANGED <<locked, count, unlocks>>
  BY DEF Increment
<1>2. SpinTypes'
  BY <1>1 DEF SpinInv, SpinTypes, Stores
<1>3. \A u \in Threads : Holds(u)' = Holds(u)
  BY <1>1, StoreFacts DEF SpinInv, SpinTypes, Holds
<1>4. FlagIsHeld' /\ OneHolder'
  BY <1>1, <1>3 DEF SpinInv, FlagIsHeld, OneHolder
<1>5. ThreadsOK'
  BY <1>1, StoreFacts DEF SpinInv, SpinTypes, ThreadsOK, ThreadOK
<1> QED
  BY <1>2, <1>4, <1>5 DEF SpinInv

LEMMA SpinUnlockStep ==
  ASSUME SpinInv, NEW t \in Threads, Unlock(t)
  PROVE  SpinInv'
<1>1. /\ pc[t] = "counted" /\ pc' = [pc EXCEPT ![t] = "spin"]
      /\ pending' = [pending EXCEPT ![t] = Append(pending[t], "unlock")]
      /\ unlocks' = [unlocks EXCEPT ![t] = unlocks[t] + 1]
      /\ UNCHANGED <<locked, count>>
  BY DEF Unlock
<1>2. /\ ThreadOK(t) /\ unlocks[t] < Rounds
      /\ \/ pending[t] = <<"count">> /\ pending'[t] = <<"count", "unlock">>
         \/ pending[t] = <<>> /\ pending'[t] = <<"unlock">>
  BY <1>1, StoreFacts DEF SpinInv, SpinTypes, ThreadsOK, ThreadOK
<1>3. \A u \in Threads \ {t} : pending'[u] = pending[u] /\ pc'[u] = pc[u] /\ unlocks'[u] = unlocks[u]
  BY <1>1 DEF SpinInv, SpinTypes
<1>4. SpinTypes'
  <2>1. pending'[t] \in Stores
    BY <1>2 DEF Stores
  <2>2. pending' \in [Threads -> Stores]
    BY <1>1, <1>3, <2>1 DEF SpinInv, SpinTypes
  <2>3. unlocks' \in [Threads -> 0 .. Rounds]
    BY <1>1, <1>2, RoundsAssumption DEF SpinInv, SpinTypes
  <2> QED
    BY <1>1, <2>2, <2>3 DEF SpinInv, SpinTypes
<1>5. \A u \in Threads : Holds(u)' = Holds(u)
  BY <1>1, <1>2, <1>3 DEF SpinInv, SpinTypes, Holds
<1>6. FlagIsHeld' /\ OneHolder'
  BY <1>1, <1>5 DEF SpinInv, FlagIsHeld, OneHolder
<1>7. ThreadOK(t)'
  BY <1>1, <1>2, StoreFacts DEF SpinInv, SpinTypes, ThreadOK
<1>8. ThreadsOK'
  BY <1>1, <1>3, <1>7 DEF SpinInv, ThreadsOK, ThreadOK
<1> QED
  BY <1>4, <1>6, <1>8 DEF SpinInv

(* A store becomes visible; the unlock is the last one of its thread.      *)
LEMMA SpinPublishStep ==
  ASSUME SpinInv, NEW t \in Threads, Publish(t)
  PROVE  SpinInv'
<1>1. /\ pending' = [pending EXCEPT ![t] = Tail(pending[t])] /\ UNCHANGED <<pc, unlocks>>
      /\ pending[t] # <<>> /\ ThreadOK(t)
  BY DEF Publish, SpinInv, ThreadsOK
<1>2. \A u \in Threads \ {t} : pending'[u] = pending[u]
  BY <1>1 DEF SpinInv, SpinTypes
<1>3. CASE pending[t] = <<"unlock">>
  <2>1. pc[t] = "spin" /\ pending'[t] = <<>> /\ locked' = FALSE /\ count' = count
    BY <1>1, <1>3, StoreFacts DEF Publish, ThreadOK, SpinInv, SpinTypes
  <2>2. SpinTypes'
    BY <1>1, <1>2, <2>1 DEF SpinInv, SpinTypes, Stores
  <2>3. Holds(t) /\ ~Holds(t)' /\ \A u \in Threads \ {t} : ~Holds(u)'
    BY <1>1, <1>2, <1>3, <2>1, StoreFacts DEF SpinInv, OneHolder, Holds
  <2>4. FlagIsHeld' /\ OneHolder'
    BY <2>1, <2>3 DEF FlagIsHeld, OneHolder
  <2>5. ThreadsOK'
    BY <1>1, <1>2, <1>3, <2>1, StoreFacts DEF SpinInv, ThreadsOK, ThreadOK
  <2> QED
    BY <2>2, <2>4, <2>5 DEF SpinInv
<1>4. CASE pending[t] \in {<<"count">>, <<"count", "unlock">>}
  <2>1. /\ locked' = locked /\ count' = [count EXCEPT ![t] = count[t] + 1]
        /\ \/ pending[t] = <<"count">> /\ pending'[t] = <<>> /\ pc[t] = "counted"
           \/ pending[t] = <<"count", "unlock">> /\ pending'[t] = <<"unlock">> /\ pc[t] = "spin"
    BY <1>1, <1>4, StoreFacts DEF Publish, ThreadOK, SpinInv, SpinTypes
  <2>2. SpinTypes'
    <3>1. pending'[t] \in Stores
      BY <2>1 DEF Stores
    <3> QED
      BY <1>1, <1>2, <2>1, <3>1 DEF SpinInv, SpinTypes
  <2>3. \A u \in Threads : Holds(u)' = Holds(u)
    BY <1>1, <1>2, <2>1, StoreFacts DEF Holds
  <2>4. FlagIsHeld' /\ OneHolder'
    BY <2>1, <2>3 DEF SpinInv, FlagIsHeld, OneHolder
  <2>5. ThreadOK(t)'
    BY <1>1, <2>1, StoreFacts DEF SpinInv, SpinTypes, ThreadOK
  <2>6. ThreadsOK'
    BY <1>1, <1>2, <2>1, <2>5 DEF SpinInv, SpinTypes, ThreadsOK, ThreadOK
  <2> QED
    BY <2>2, <2>4, <2>6 DEF SpinInv
<1> QED
  BY <1>1, <1>3, <1>4 DEF ThreadOK

LEMMA SpinNext == SpinInv /\ [Next]_vars => SpinInv'
<1> SUFFICES ASSUME SpinInv, [Next]_vars PROVE SpinInv'
  OBVIOUS
<1>1. ASSUME NEW t \in Threads, Step(t) \/ Publish(t) PROVE SpinInv'
  BY <1>1, SpinLockStep, SpinIncrementStep, SpinUnlockStep, SpinPublishStep DEF Step
<1>2. ASSUME Return \/ UNCHANGED vars PROVE SpinInv'
  <2>1. UNCHANGED <<locked, count, pending, pc, unlocks>>
    BY <1>2 DEF Return, vars
  <2> QED
    BY <2>1 DEF SpinInv, SpinTypes, FlagIsHeld, OneHolder, Holds, ThreadsOK, ThreadOK
<1> QED
  BY <1>1, <1>2 DEF Next, Finished

(* When all threads have returned every counter is at the number of rounds. *)
LEMMA TotalNext == SpinInv /\ ResultIsTotal /\ [Next]_vars => ResultIsTotal'
<1> SUFFICES ASSUME SpinInv, ResultIsTotal, [Next]_vars PROVE ResultIsTotal'
  OBVIOUS
<1> DEFINE all == [t \in Threads |-> Rounds]
<1>1. CASE Return
  <2>1. \A t \in Threads : count[t] = Rounds
    <3> TAKE t \in Threads
    <3>1. ThreadOK(t) /\ pc[t] = "spin" /\ pending[t] = <<>> /\ unlocks[t] = Rounds
      BY <1>1 DEF Return, Joined, SpinInv, ThreadsOK
    <3> QED
      BY <3>1, StoreFacts DEF ThreadOK
  <2>2. count = all
    BY <2>1 DEF SpinInv, SpinTypes
  <2> QED
    BY <1>1, <2>2 DEF Return, ResultIsTotal
<1>2. CASE result' = result
  BY <1>2 DEF ResultIsTotal
<1>3. Return \/ result' = result
  BY DEF Next, Step, Lock, Increment, Unlock, Publish, Finished, vars
<1> QED
  BY <1>1, <1>2, <1>3

LEMMA SpinInvHolds == Spec => []SpinInv
BY SpinStarts, SpinNext, PTL DEF Spec

(* lock() and unlock() exclude each other's callers.                       *)
THEOREM MutualExclusionHolds == Spec => []MutualExclusion
<1>1. SpinInv => MutualExclusion
  BY DEF SpinInv, OneHolder, Holds, MutualExclusion
<1> QED
  BY <1>1, SpinInvHolds, PTL

(* The release order of clear() is enough: the holder of the lock sees all *)
(* that was done under it.                                                 *)
THEOREM HolderSeesAllHolds == Spec => []HolderSeesAll
<1>1. SpinInv => HolderSeesAll
  <2> SUFFICES ASSUME SpinInv, NEW t \in Threads, NEW u \in Threads, pc[t] # "spin", u # t
               PROVE  pending[u] = <<>> /\ count[u] = unlocks[u]
    BY DEF HolderSeesAll
  <2>1. ~Holds(u) /\ ThreadOK(u)
    BY DEF SpinInv, OneHolder, ThreadsOK, Holds
  <2> QED
    BY <2>1 DEF Holds, ThreadOK
<1> QED
  BY <1>1, SpinInvHolds, PTL

-----------------------------------------------------------------------------
(***************************************************************************)
(* The counter under a shared mutex, for any threads that increment, read  *)
(* and reset it.  Between the load and the store of value_++ its thread    *)
(* holds the lock alone, so that the value is still what was loaded.       *)
(***************************************************************************)

CounterLabels == {"increment", "load", "store", "get", "read", "reset", "clear", "end"}
CounterTypes == /\ where \in [Counter!All -> CounterLabels]
                /\ register \in [Counter!All -> Nat] /\ value \in Nat
                /\ writer \subseteq Counter!All /\ readers \subseteq Counter!All

\* The lock is held alone by who increments or resets, and shared by who reads.
Locking == /\ \A t \in Counter!All : /\ t \in writer <=> where[t] \in {"load", "store", "clear"}
                                     /\ t \in readers <=> where[t] = "read"
           /\ writer = {} \/ readers = {}
           /\ \A t, u \in writer : t = u

\* Between the load and the store of value_++ the value does not change.
Loaded == \A t \in Counter!All : where[t] = "store" => register[t] = value

CounterInv == CounterTypes /\ Locking /\ Loaded /\ value = added

LEMMA CounterStarts == Counter!Init => CounterInv
BY DEF Counter!Init, Counter!All, CounterInv, CounterTypes, CounterLabels, Locking, Loaded

LEMMA CounterStep ==
  ASSUME CounterInv, NEW t \in Counter!All, Counter!Step(t)
  PROVE  CounterInv'
<1> USE DEF CounterInv
<1>1. CASE Counter!LockAlone(t)
  BY <1>1 DEF Counter!LockAlone, Counter!Goto, CounterTypes, CounterLabels, Locking, Loaded
<1>2. CASE Counter!Load(t)
  BY <1>2 DEF Counter!Load, Counter!Goto, CounterTypes, CounterLabels, Locking, Loaded
<1>3. CASE Counter!Store(t)
  BY <1>3 DEF Counter!Store, Counter!Goto, CounterTypes, CounterLabels, Locking, Loaded
<1>4. CASE Counter!Reset(t)
  BY <1>4 DEF Counter!Reset, Counter!Goto, CounterTypes, CounterLabels, Locking, Loaded
<1>5. CASE Counter!LockRead(t)
  BY <1>5 DEF Counter!LockRead, Counter!Goto, CounterTypes, CounterLabels, Locking, Loaded
<1>6. CASE Counter!Read(t)
  BY <1>6 DEF Counter!Read, Counter!Goto, CounterTypes, CounterLabels, Locking, Loaded
<1> QED
  BY <1>1, <1>2, <1>3, <1>4, <1>5, <1>6 DEF Counter!Step

LEMMA CounterNext == CounterInv /\ [Counter!Next]_counterVars => CounterInv'
<1>1. CASE UNCHANGED counterVars
  BY <1>1 DEF counterVars, CounterInv, CounterTypes, Locking, Loaded
<1> QED
  BY <1>1, CounterStep DEF Counter!Next

-----------------------------------------------------------------------------
(***************************************************************************)
(* The joining thread, for any owners and threads.  A thread that was      *)
(* started has one owner until it was detached or has ended; a thread that *)
(* was not started has none.                                               *)
(***************************************************************************)

JoinerTypes == /\ owned \in [Owners -> Threads \cup {None}]
               /\ state \in [Threads -> {"new", "running", "ended"}]
               /\ joining \in [owner : Owners \cup {None}, gets : Owners \cup {None}]
               /\ joining = Joiner!Nobody \/ joining.owner \in Owners

Owned == \A t \in Threads :
           /\ \A v, w \in Owners : owned[v] = t /\ owned[w] = t => v = w
           /\ state[t] = "new" => \A w \in Owners : owned[w] # t
           /\ state[t] = "running" => t \in detached \/ \E w \in Owners : owned[w] = t

JoinerInv == JoinerTypes /\ Owned

LEMMA JoinerStarts == Joiner!Init => JoinerInv
BY OwnersAssumption DEF Joiner!Init, Joiner!Nobody, JoinerInv, JoinerTypes, Owned

(* A thread that somebody owned is owned by one again, when the owners' threads are exchanged or moved. *)
LEMMA OwnersMove ==
  ASSUME JoinerInv, NEW v \in Owners, NEW w \in Owners,
         \/ owned' = [owned EXCEPT ![v] = owned[w], ![w] = owned[v]]
         \/ /\ v # w /\ owned' = [owned EXCEPT ![v] = owned[w], ![w] = None]
            /\ owned[v] = None \/ state[owned[v]] = "ended"
         \/ /\ owned' = [owned EXCEPT ![v] = None]
            /\ owned[v] = None \/ state[owned[v]] = "ended" \/ owned[v] \in detached',
         state' = state, detached \subseteq detached'
  PROVE  owned' \in [Owners -> Threads \cup {None}] /\ Owned'
<1>1. owned' \in [Owners -> Threads \cup {None}]
  BY DEF JoinerInv, JoinerTypes
<1>2. ASSUME owned' = [owned EXCEPT ![v] = owned[w], ![w] = owned[v]]
      PROVE  Owned'
  <2>1. \A x \in Owners : owned'[x] = IF x = w THEN owned[v] ELSE IF x = v THEN owned[w] ELSE owned[x]
    BY <1>2 DEF JoinerInv, JoinerTypes
  <2> QED
    BY <2>1 DEF JoinerInv, Owned
<1>3. ASSUME v # w, owned' = [owned EXCEPT ![v] = owned[w], ![w] = None],
             owned[v] = None \/ state[owned[v]] = "ended"
      PROVE  Owned'
  <2>1. \A x \in Owners : owned'[x] = IF x = w THEN None ELSE IF x = v THEN owned[w] ELSE owned[x]
    BY <1>3 DEF JoinerInv, JoinerTypes
  <2> QED
    BY <1>3, <2>1, OwnersAssumption DEF JoinerInv, JoinerTypes, Owned
<1>4. ASSUME owned' = [owned EXCEPT ![v] = None],
             owned[v] = None \/ state[owned[v]] = "ended" \/ owned[v] \in detached'
      PROVE  Owned'
  <2>1. \A x \in Owners : owned'[x] = IF x = v THEN None ELSE owned[x]
    BY <1>4 DEF JoinerInv, JoinerTypes
  <2> QED
    BY <1>4, <2>1, OwnersAssumption DEF JoinerInv, JoinerTypes, Owned
<1> QED
  BY <1>1, <1>2, <1>3, <1>4

LEMMA JoinerNext == JoinerInv /\ [Joiner!Next]_joiningVars => JoinerInv'
<1> SUFFICES ASSUME JoinerInv, [Joiner!Next]_joiningVars PROVE JoinerInv'
  OBVIOUS
<1> USE DEF Joiner!Free, Joiner!Joinable
<1>1. ASSUME NEW w \in Owners, NEW t \in Threads, Joiner!Construct(w, t) PROVE JoinerInv'
  BY <1>1, OwnersAssumption DEF Joiner!Construct, JoinerInv, JoinerTypes, Owned
<1>2. ASSUME NEW w \in Owners, NEW other \in Owners, Joiner!MoveConstruct(w, other) PROVE JoinerInv'
  BY <1>2, OwnersMove DEF Joiner!MoveConstruct, JoinerInv, JoinerTypes
<1>3. ASSUME NEW w \in Owners, NEW other \in Owners, Joiner!Assign(w, other) PROVE JoinerInv'
  BY <1>3 DEF Joiner!Assign, JoinerInv, JoinerTypes, Owned
<1>4. ASSUME NEW w \in Owners, NEW other \in Owners, Joiner!swap(w, other) PROVE JoinerInv'
  BY <1>4, OwnersMove DEF Joiner!swap, JoinerInv, JoinerTypes
<1>5. ASSUME NEW w \in Owners, Joiner!Destroy(w) PROVE JoinerInv'
  BY <1>5 DEF Joiner!Destroy, JoinerInv, JoinerTypes, Owned
<1>6. ASSUME NEW w \in Owners, Joiner!Detach(w) PROVE JoinerInv'
  BY <1>6, OwnersMove DEF Joiner!Detach, JoinerInv, JoinerTypes
<1>7. ASSUME Joiner!Joined PROVE JoinerInv'
  <2> DEFINE w == joining.owner
             other == joining.gets
  <2>1. w \in Owners /\ other \in Owners \cup {None} /\ state' = state /\ detached' = detached
        /\ joining' = Joiner!Nobody
    BY <1>7 DEF Joiner!Joined, Joiner!Nobody, JoinerInv, JoinerTypes
  <2>2. owned[w] = None \/ state[owned[w]] = "ended"
    BY <1>7 DEF Joiner!Joined
  <2>3. \/ owned' = [owned EXCEPT ![w] = None]
        \/ other \in Owners /\ w # other /\ owned' = [owned EXCEPT ![w] = owned[other], ![other] = None]
    BY <1>7, <2>1 DEF Joiner!Joined
  <2>4. owned' \in [Owners -> Threads \cup {None}] /\ Owned'
    <3> HIDE DEF w, other
    <3> QED
      BY <2>1, <2>2, <2>3, OwnersMove
  <2> QED
    BY <2>1, <2>4 DEF Joiner!Nobody, JoinerInv, JoinerTypes
<1>8. ASSUME NEW t \in Threads, Joiner!End(t) PROVE JoinerInv'
  BY <1>8 DEF Joiner!End, JoinerInv, JoinerTypes, Owned
<1>9. CASE UNCHANGED joiningVars
  BY <1>9 DEF joiningVars, JoinerInv, JoinerTypes, Owned
<1> QED
  BY <1>1, <1>2, <1>3, <1>4, <1>5, <1>6, <1>7, <1>8, <1>9 DEF Joiner!Next

LEMMA NoneRunsUnowned == JoinerInv => Joiner!NoneRunsUnowned
BY DEF JoinerInv, Owned, Joiner!NoneRunsUnowned

-----------------------------------------------------------------------------
(***************************************************************************)
(* The robot servers, for any configuration and any number of clients.     *)
(* main starts the servers in order, so that the one it is at has no thread *)
(* yet; a server that listens again after a late connection has looked at  *)
(* the flag in between.                                                    *)
(***************************************************************************)

ServerLabels == {"none", "starting", "checking", "accepting", "ended"}
ServerTypes == /\ thread \in [Server!Servers -> ServerLabels]
               /\ stop \in [Server!Servers -> BOOLEAN]
               /\ joined \in [Server!Servers -> BOOLEAN]
               /\ late \in [Server!Servers -> Nat]

\* main starts the servers in their order: what it has not reached has no thread.
InOrder == /\ \A i \in DOMAIN Robots : thread[<<i, 1>>] # "none" => thread[<<i, 0>>] # "none"
           /\ main \in Server!Servers =>
                /\ thread[main] = "none"
                /\ main[2] = 1 => thread[<<main[1], 0>>] # "none"
                /\ \A s \in Server!Servers : s[1] > main[1] => thread[s] = "none"
                /\ main[2] = 0 => thread[<<main[1], 1>>] = "none"

Opened(s) == thread[s] \in {"checking", "accepting"}
OneListens == \A s, o \in Server!Servers : Server!Port(o) = Server!Port(s) /\ Opened(o) /\ Opened(s) => o = s

\* The one late connection is what the flag is looked at after.
LateOnce == \A s \in Server!Servers :
              /\ late[s] = 0 \/ (late[s] = 1 /\ stop[s] /\ thread[s] \in {"checking", "ended"})
              /\ joined[s] => thread[s] = "ended"

ServerInv == ServerTypes /\ InOrder /\ OneListens /\ LateOnce

LEMMA ServerFacts ==
  /\ Len(Robots) \in Nat /\ DOMAIN Robots = 1 .. Len(Robots)
  /\ \A i \in DOMAIN Robots : <<i, 0>> \in Server!Servers /\ <<i, 1>> \in Server!Servers
  /\ \A s \in Server!Servers : /\ s[1] \in DOMAIN Robots /\ s[2] \in {0, 1} /\ s = <<s[1], s[2]>>
  /\ <<"waiting">> \notin Server!Servers /\ <<"returned">> \notin Server!Servers
  /\ <<"terminated">> \notin Server!Servers
<1>1. Len(Robots) \in Nat /\ DOMAIN Robots = 1 .. Len(Robots)
  BY RobotsAssumption
<1>2. \A i \in DOMAIN Robots : <<i, 0>> \in Server!Servers /\ <<i, 1>> \in Server!Servers
  BY DEF Server!Servers
<1>3. \A s \in Server!Servers : s[1] \in DOMAIN Robots /\ s[2] \in {0, 1} /\ s = <<s[1], s[2]>>
  BY DEF Server!Servers
<1>4. \A a, b, c : <<a>> # <<b, c>>
  OBVIOUS
<1> QED
  BY <1>1, <1>2, <1>3, <1>4

LEMMA ServerStarts == Server!Init => ServerInv
<1> SUFFICES ASSUME Server!Init PROVE ServerInv
  OBVIOUS
<1>1. main = <<"waiting">> \/ main = <<1, 0>>
  BY DEF Server!Init
<1> QED
  BY <1>1, ServerFacts DEF Server!Init, ServerInv, ServerTypes, ServerLabels, InOrder, OneListens, Opened, LateOnce

LEMMA StartStep == ServerInv /\ Server!Start => ServerInv'
<1> SUFFICES ASSUME ServerInv, Server!Start PROVE ServerInv'
  OBVIOUS
<1>1. main \in Server!Servers /\ UNCHANGED <<stop, joined, late>>
  BY DEF Server!Start
<1>2. CASE main' = <<"returned">> /\ UNCHANGED thread
  BY <1>1, <1>2, ServerFacts DEF ServerInv, ServerTypes, InOrder, OneListens, Opened, LateOnce
<1>3. CASE /\ thread' = [thread EXCEPT ![main] = "starting"]
           /\ main' = IF main[2] = 0 THEN <<main[1], 1>> ELSE Server!NextRobot(main[1])
  <2>1. thread[main] = "none"
    BY <1>1 DEF ServerInv, InOrder
  <2>2. thread'[main] = "starting" /\ \A s \in Server!Servers \ {main} : thread'[s] = thread[s]
    BY <1>1, <1>3 DEF ServerInv, ServerTypes
  <2>3. ServerTypes' /\ OneListens' /\ LateOnce'
    BY <1>1, <1>3, <2>1, <2>2 DEF ServerInv, ServerTypes, ServerLabels, OneListens, Opened, LateOnce
  <2>4. \A i \in DOMAIN Robots : thread'[<<i, 1>>] # "none" => thread'[<<i, 0>>] # "none"
    BY <1>1, <2>1, <2>2, ServerFacts DEF ServerInv, InOrder
  <2>5. CASE main[2] = 0
    <3>1. main' = <<main[1], 1>> /\ main'[1] = main[1] /\ main'[2] = 1 /\ main = <<main[1], 0>>
      BY <1>1, <1>3, <2>5, ServerFacts
    <3>2. main' # main /\ main' \in Server!Servers
      BY <1>1, <2>5, <3>1, ServerFacts
    <3>3. thread'[main'] = "none" /\ thread'[<<main'[1], 0>>] = "starting"
      BY <1>1, <2>2, <2>5, <3>1, <3>2 DEF ServerInv, InOrder
    <3>4. ASSUME NEW s \in Server!Servers, s[1] > main'[1] PROVE thread'[s] = "none"
      <4>1. s[1] > main[1] /\ main[1] \in Nat
        BY <1>1, <3>1, <3>4, ServerFacts
      <4>2. s # main
        BY <4>1
      <4> QED
        BY <1>1, <2>2, <4>1, <4>2 DEF ServerInv, InOrder
    <3> QED
      BY <2>3, <2>4, <3>1, <3>3, <3>4 DEF ServerInv, InOrder
  <2>6. CASE main[2] = 1
    <3>1. main' = IF main[1] = Len(Robots) THEN <<"waiting">> ELSE <<main[1] + 1, 0>>
      BY <1>1, <1>3, <2>6, ServerFacts DEF Server!NextRobot
    <3>2. CASE main' = <<"waiting">>
      BY <2>3, <2>4, <3>2, ServerFacts DEF ServerInv, InOrder
    <3>3. CASE main' = <<main[1] + 1, 0>>
      <4>1. main'[1] = main[1] + 1 /\ main'[2] = 0
        BY <3>3
      <4>2. \A s \in Server!Servers : s[1] > main[1] => thread'[s] = "none"
        BY <1>1, <2>2, ServerFacts DEF ServerInv, InOrder
      <4>3. main' \in Server!Servers =>
              /\ thread'[main'] = "none" /\ thread'[<<main'[1], 1>>] = "none"
              /\ \A s \in Server!Servers : s[1] > main'[1] => thread'[s] = "none"
        <5> SUFFICES ASSUME main' \in Server!Servers
                     PROVE  /\ thread'[main'] = "none" /\ thread'[<<main'[1], 1>>] = "none"
                            /\ \A s \in Server!Servers : s[1] > main'[1] => thread'[s] = "none"
          OBVIOUS
        <5>1. main[1] \in Nat /\ <<main'[1], 1>> \in Server!Servers /\ <<main'[1], 1>>[1] = main'[1]
          BY <1>1, ServerFacts
        <5> QED
          BY <4>1, <4>2, <5>1, ServerFacts
      <4> QED
        BY <2>3, <2>4, <4>1, <4>3 DEF ServerInv, InOrder
    <3> QED
      BY <3>1, <3>2, <3>3
  <2> QED
    BY <1>1, <2>5, <2>6, ServerFacts
<1> QED
  BY <1>2, <1>3 DEF Server!Start

LEMMA ServerStep ==
  ASSUME ServerInv, NEW s \in Server!Servers, Server!Step(s) \/ Server!SetStop(s)
  PROVE  ServerInv'
<1>1. CASE Server!Open(s)
  <2>1. thread[s] = "starting" /\ UNCHANGED <<stop, joined, late>>
    BY <1>1 DEF Server!Open
  <2>2. CASE main' = <<"terminated">> /\ UNCHANGED thread
    BY <2>1, <2>2, ServerFacts DEF ServerInv, ServerTypes, InOrder, OneListens, Opened, LateOnce
  <2>3. CASE main' = main /\ thread' = [thread EXCEPT ![s] = "checking"]
    <3>1. ServerTypes' /\ LateOnce'
      BY <2>1, <2>3 DEF ServerInv, ServerTypes, ServerLabels, LateOnce
    <3>2. \A o \in Server!Servers : thread'[o] = "none" <=> thread[o] = "none"
      BY <2>1, <2>3 DEF ServerInv, ServerTypes
    <3>3. InOrder'
      BY <2>3, <3>2, ServerFacts DEF ServerInv, InOrder
    <3>4. OneListens'
      BY <1>1, <2>1, <2>3 DEF Server!Open, ServerInv, ServerTypes, OneListens, Opened
    <3> QED
      BY <3>1, <3>3, <3>4 DEF ServerInv
  <2> QED
    BY <1>1, <2>2, <2>3 DEF Server!Open
<1>2. CASE Server!Check(s)
  BY <1>2, ServerFacts DEF Server!Check, ServerInv, ServerTypes, ServerLabels, InOrder, OneListens, Opened, LateOnce
<1>3. CASE Server!Accept(s)
  BY <1>3, ServerFacts DEF Server!Accept, ServerInv, ServerTypes, ServerLabels, InOrder, OneListens, Opened, LateOnce
<1>4. CASE Server!Join(s) \/ Server!SetStop(s)
  <2>1. UNCHANGED <<main, thread, late>>
    BY <1>4 DEF Server!Join, Server!SetStop
  <2>2. InOrder' /\ OneListens'
    BY <2>1 DEF ServerInv, InOrder, OneListens, Opened
  <2>3. ServerTypes' /\ LateOnce'
    BY <1>4, <2>1 DEF Server!Join, Server!SetStop, ServerInv, ServerTypes, LateOnce
  <2> QED
    BY <2>2, <2>3 DEF ServerInv
<1> QED
  BY <1>1, <1>2, <1>3, <1>4 DEF Server!Step

LEMMA ServerNext == ServerInv /\ [Server!Next]_serverVars => ServerInv'
<1> SUFFICES ASSUME ServerInv, [Server!Next]_serverVars PROVE ServerInv'
  OBVIOUS
<1>1. CASE Server!SkipRobot
  BY <1>1, ServerFacts DEF Server!SkipRobot, Server!NextRobot, ServerInv, ServerTypes, ServerLabels, InOrder, OneListens, Opened, LateOnce
<1>2. CASE Server!Shutdown
  BY <1>2, ServerFacts DEF Server!Shutdown, ServerInv, ServerTypes, ServerLabels, InOrder, OneListens, Opened, LateOnce
<1>3. ASSUME NEW p \in Server!Ports, Server!Connect(p) PROVE ServerInv'
  BY <1>3, ServerFacts DEF Server!Connect, ServerInv, ServerTypes, ServerLabels, InOrder, OneListens, Opened, LateOnce
<1>4. CASE UNCHANGED serverVars
  BY <1>4 DEF serverVars, ServerInv, ServerTypes, ServerLabels, InOrder, OneListens, Opened, LateOnce
<1> QED
  BY <1>1, <1>2, <1>3, <1>4, StartStep, ServerStep DEF Server!Next

LEMMA ServerInvStops == ServerInv => Server!StoppedServersStop
BY ServerFacts DEF ServerInv, ServerTypes, InOrder, OneListens, Opened, LateOnce, Server!StoppedServersStop

-----------------------------------------------------------------------------
(***************************************************************************)
(* The Mandelbrot program, for any size of the picture.  The kernel paints *)
(* every pixel at an address of its own; while main is blocked the commands *)
(* on the queue tell what is on the device and on the host.                *)
(***************************************************************************)

PixelAt(p) == Picture!Index(p[1], p[2])
Painted(picture) == \A p \in Picture!Pixels : picture[PixelAt(p)] = p

\* Where main is until it has ended in one way or another.
Steps == {"start", "platforms", "devices", "context", "queue", "source", "build", "buffer", "kernel",
          "launch", "read", "blocked", "finish", "stop", "save", "end"}

Launched == at \in {"read", "blocked", "finish", "stop", "save", "end"}

\* What is on the queue and on the host while main is at each of its calls.
PictureFlow ==
  /\ at \in {"start", "platforms", "devices", "context", "queue", "source", "build", "buffer", "kernel", "launch"}
       => queue = <<>> /\ host = Picture!Blank
  /\ at = "read" => /\ host = Picture!Blank
                    /\ \/ queue = <<>> /\ (ignored = {} => todo = {})
                       \/ queue = <<"julia">> /\ ignored = {}
  /\ at = "blocked" => /\ ignored = {}
                       /\ \/ queue = <<"julia", "read">>
                          \/ queue = <<"read">> /\ todo = {}
                          \/ queue = <<>> /\ Painted(host)
  /\ at = "finish" => \/ queue = <<>> /\ Painted(host)
                      \/ ignored # {} /\ host = Picture!Blank /\ queue \in {<<>>, <<"julia">>}
  /\ at \in {"stop", "save"} => queue = <<>> /\ (Painted(host) \/ (ignored # {} /\ host = Picture!Blank))
  /\ at = "end" => /\ queue = <<>>
                   /\ \/ \A p \in Picture!Pixels : file[p] = p
                      \/ ignored # {} /\ \A p \in Picture!Pixels : file[p] = <<>>

\* The work items that have run have painted their pixels.
PaintedSoFar == Launched /\ ignored = {} => \A p \in Picture!Pixels \ todo : out[PixelAt(p)] = p

Indented == /\ at \in {"start", "save", "end"} => indent = 0
            /\ at \in {"platforms", "context", "queue", "source", "build", "buffer", "kernel",
                       "launch", "read", "blocked", "finish", "stop"} => indent = 1
            /\ at = "devices" => indent = 2

PictureInv == DOMAIN out = Picture!Addresses /\ PictureFlow /\ PaintedSoFar /\ Indented

(* Every pixel has an address of its own.                                  *)
LEMMA Products ==
  ASSUME NEW w \in Nat, NEW j \in Nat, NEW k \in Nat, j < k
  PROVE  j * w + w <= k * w
<1>1. PICK d \in Nat : k = j + 1 + d
  BY k - j - 1 \in Nat
<1>2. k * w = (j + 1 + d) * w
  BY <1>1
<1>3. (j + 1 + d) * w = j * w + w + d * w
  OBVIOUS
<1>4. d * w \in Nat /\ j * w \in Nat
  OBVIOUS
<1> QED
  BY <1>2, <1>3, <1>4

LEMMA PixelAddresses ==
  /\ \A p \in Picture!Pixels : PixelAt(p) \in Picture!Addresses
  /\ \A p, q \in Picture!Pixels : PixelAt(p) = PixelAt(q) => p = q
<1>1. \A p \in Picture!Pixels : /\ p = <<p[1], p[2]>> /\ p[1] \in 0 .. Width - 1 /\ p[2] \in 0 .. Height - 1
                                /\ PixelAt(p) = p[1] + p[2] * Width
  BY DEF Picture!Pixels, PixelAt, Picture!Index
<1>2. ASSUME NEW p \in Picture!Pixels PROVE PixelAt(p) \in Picture!Addresses
  <2>1. p[1] \in Nat /\ p[2] \in Nat /\ p[1] < Width /\ p[2] < Height
    BY <1>1, PictureAssumption
  <2>2. p[2] * Width + Width <= Height * Width
    BY <2>1, Products, PictureAssumption
  <2>3. Height * Width = Width * Height /\ p[2] * Width \in Nat /\ Width * Height \in Nat
    BY <2>1, PictureAssumption
  <2>4. PixelAt(p) \in Nat /\ PixelAt(p) < Width * Height
    BY <1>1, <2>1, <2>2, <2>3, PictureAssumption
  <2> QED
    BY <2>3, <2>4 DEF Picture!Addresses
<1>3. ASSUME NEW p \in Picture!Pixels, NEW q \in Picture!Pixels, p[2] < q[2] PROVE PixelAt(p) < PixelAt(q)
  <2>1. /\ p[1] \in Nat /\ p[2] \in Nat /\ p[1] < Width
        /\ q[1] \in Nat /\ q[2] \in Nat
    BY <1>1, PictureAssumption
  <2>2. p[2] * Width + Width <= q[2] * Width
    BY <1>3, <2>1, Products, PictureAssumption
  <2>3. p[2] * Width \in Nat /\ q[2] * Width \in Nat
    BY <2>1, PictureAssumption
  <2> QED
    BY <1>1, <2>1, <2>2, <2>3, PictureAssumption
<1>4. ASSUME NEW p \in Picture!Pixels, NEW q \in Picture!Pixels, PixelAt(p) = PixelAt(q) PROVE p = q
  <2>1. PixelAt(p) \in Int /\ PixelAt(q) \in Int /\ p[2] \in Int /\ q[2] \in Int
    BY <1>1, <1>2, PictureAssumption DEF Picture!Addresses
  <2>2. p[2] = q[2]
    BY <1>3, <1>4, <2>1
  <2>3. p[1] = q[1]
    <3>1. p[1] \in Int /\ q[1] \in Int /\ p[2] * Width \in Int
      BY <1>1, PictureAssumption
    <3> QED
      BY <1>1, <1>4, <2>2, <3>1
  <2> QED
    BY <1>1, <2>2, <2>3
<1> QED
  BY <1>2, <1>4

LEMMA PictureStarts == Picture!Init => PictureInv
BY DEF Picture!Init, Picture!Blank, PictureInv, PictureFlow, PaintedSoFar, Launched, Indented

(* The queues of commands.                                                 *)
LEMMA QueueFacts ==
  /\ Append(<<>>, "read") = <<"read">> /\ Append(<<"julia">>, "read") = <<"julia", "read">>
  /\ Head(<<"julia">>) = "julia" /\ Tail(<<"julia">>) = <<>>
  /\ Head(<<"read">>) = "read" /\ Tail(<<"read">>) = <<>>
  /\ Head(<<"julia", "read">>) = "julia" /\ Tail(<<"julia", "read">>) = <<"read">>
  /\ <<"julia">> # <<>> /\ <<"read">> # <<>> /\ <<"julia", "read">> # <<>>
<1>1. Append(<<>>, "read") = <<"read">>
  OBVIOUS
<1>2. Append(<<"julia">>, "read") = <<"julia", "read">>
  BY AppendOne
<1>3. Head(<<"julia">>) = "julia" /\ Head(<<"read">>) = "read" /\ Head(<<"julia", "read">>) = "julia"
  OBVIOUS
<1>4. Tail(<<"julia">>) = <<>> /\ Tail(<<"read">>) = <<>>
  OBVIOUS
<1>5. Tail(<<"julia", "read">>) = <<"read">>
  OBVIOUS
<1>6. <<"julia">> # <<>> /\ <<"read">> # <<>> /\ <<"julia", "read">> # <<>>
  OBVIOUS
<1> QED
  BY <1>1, <1>2, <1>3, <1>4, <1>5, <1>6

LEMMA PaintStep ==
  ASSUME PictureInv, NEW p \in Picture!Pixels, Picture!WorkItem(p)
  PROVE  PictureInv'
<1>1. /\ queue # <<>> /\ Head(queue) = "julia" /\ p \in todo /\ todo' = todo \ {p}
      /\ out' = [out EXCEPT ![PixelAt(p)] = p]
      /\ queue' = IF todo' = {} THEN Tail(queue) ELSE queue
      /\ UNCHANGED <<at, ignored, indent, host, file>>
  BY DEF Picture!WorkItem, PixelAt, Picture!Index
<1>2. DOMAIN out' = Picture!Addresses /\ Indented'
  BY <1>1 DEF PictureInv, Indented
<1>3. \A q \in Picture!Pixels : out'[PixelAt(q)] = IF q = p THEN p ELSE out[PixelAt(q)]
  BY <1>1, PixelAddresses DEF PictureInv
<1>4. PaintedSoFar'
  BY <1>1, <1>3 DEF PictureInv, PaintedSoFar, Launched
<1>5. PictureFlow'
  <2>1. \/ queue = <<"julia">> /\ at = "read" /\ ignored = {}
        \/ queue = <<"julia", "read">> /\ at = "blocked"
        \/ queue = <<"julia">> /\ at = "finish" /\ ignored # {} /\ host = Picture!Blank
        \/ at \notin Steps
    BY <1>1, QueueFacts DEF PictureInv, PictureFlow, Steps
  <2>2. queue' = queue \/ (todo' = {} /\ queue' = Tail(queue))
    BY <1>1
  <2>3. CASE queue = <<"julia">>
    BY <1>1, <2>1, <2>2, <2>3, QueueFacts DEF PictureInv, PictureFlow, Painted
  <2>4. CASE queue = <<"julia", "read">>
    BY <1>1, <2>1, <2>2, <2>4, QueueFacts DEF PictureInv, PictureFlow, Painted
  <2>5. CASE at \notin Steps
    BY <1>1, <2>5 DEF PictureFlow, Steps
  <2> QED
    BY <2>1, <2>3, <2>4, <2>5 DEF Steps
<1> QED
  BY <1>2, <1>4, <1>5 DEF PictureInv

LEMMA TransferStep == PictureInv /\ Picture!Transfer => PictureInv'
<1> SUFFICES ASSUME PictureInv, Picture!Transfer PROVE PictureInv'
  OBVIOUS
<1>1. queue # <<>> /\ Head(queue) = "read" /\ host' = out /\ queue' = Tail(queue)
      /\ UNCHANGED <<at, ignored, indent, todo, out, file>>
  BY DEF Picture!Transfer
<1>2. (DOMAIN out = Picture!Addresses)' /\ Indented' /\ PaintedSoFar'
  BY <1>1 DEF PictureInv, Indented, PaintedSoFar, Launched
<1>3. PictureFlow'
  <2>1. \/ queue = <<"read">> /\ at = "blocked" /\ ignored = {} /\ todo = {}
        \/ at \notin Steps
    BY <1>1, QueueFacts DEF PictureInv, PictureFlow, Steps
  <2>2. CASE queue = <<"read">> /\ at = "blocked" /\ ignored = {} /\ todo = {}
    BY <1>1, <2>2, QueueFacts DEF PictureInv, PictureFlow, PaintedSoFar, Launched, Painted
  <2>3. CASE at \notin Steps
    BY <1>1, <2>3 DEF PictureFlow, Steps
  <2> QED
    BY <2>1, <2>2, <2>3
<1> QED
  BY <1>2, <1>3 DEF PictureInv

LEMMA MainStep == PictureInv /\ Picture!Main => PictureInv'
<1> SUFFICES ASSUME PictureInv, Picture!Main PROVE PictureInv'
  OBVIOUS
<1> USE DEF Picture!At, Picture!checkErr, Picture!Device, PictureInv, PictureFlow, PaintedSoFar, Launched, Indented, Painted
<1>1. CASE Picture!StartTimer \/ Picture!ChoosePlatform \/ Picture!ChooseDevice
  BY <1>1 DEF Picture!StartTimer, Picture!ChoosePlatform, Picture!ChooseDevice
<1>2. CASE Picture!MakeContext \/ Picture!MakeQueue \/ Picture!MakeBuffer
  BY <1>2 DEF Picture!MakeContext, Picture!MakeQueue, Picture!MakeBuffer
<1>3. CASE Picture!LoadSource \/ Picture!Build \/ Picture!MakeKernel
  BY <1>3 DEF Picture!LoadSource, Picture!Build, Picture!MakeKernel
<1>4. CASE Picture!Launch
  BY <1>4 DEF Picture!Launch, Picture!Unnoticed
<1>5. CASE Picture!ReadBack
  BY <1>5, QueueFacts DEF Picture!ReadBack, Picture!Unnoticed
<1>6. CASE Picture!Unblock \/ Picture!Finish \/ Picture!StopTimer
  BY <1>6 DEF Picture!Unblock, Picture!Finish, Picture!StopTimer
<1>7. CASE Picture!SavePng
  BY <1>7, PixelAddresses DEF Picture!SavePng, Picture!Blank, PixelAt
<1> QED
  BY <1>1, <1>2, <1>3, <1>4, <1>5, <1>6, <1>7 DEF Picture!Main

LEMMA PictureNext == PictureInv /\ [Picture!Next]_pictureVars => PictureInv'
<1>1. CASE UNCHANGED pictureVars
  BY <1>1 DEF pictureVars, PictureInv, PictureFlow, PaintedSoFar, Launched, Indented, Painted
<1> QED
  BY <1>1, PaintStep, TransferStep, MainStep DEF Picture!Next

LEMMA PictureEnds == PictureInv => Picture!PictureWholeOrBlank
BY DEF PictureInv, PictureFlow, Indented, Picture!PictureWholeOrBlank

-----------------------------------------------------------------------------
(***************************************************************************)
(* The limits of the frequency lock do not cross when the frequency could  *)
(* be read, for any set of frequencies.                                    *)
(***************************************************************************)

Numbers == cur_freq \in Nat /\ min_freq \in Nat /\ max_freq \in Nat /\ freq \in Nat /\ curGpuFreq \in Nat

\* Before the first write the frequency that was read lies between limits
\* that have not moved; what is left to write tells what has been written.  A
\* frequency that was not read is below all arguments but 0.
Reading == /\ misread => curGpuFreq = 1 /\ step # "read"
           /\ step \in {"read", "open"} => limits = <<>> /\ status = TRUE
           /\ ~misread /\ step = "read" => min_freq <= cur_freq /\ cur_freq <= max_freq
           /\ ~misread /\ step = "open" => min_freq <= curGpuFreq /\ curGpuFreq <= max_freq

Writing ==
  step = "write" =>
    \/ limits = Limits!WriteOrder /\ status = TRUE
         /\ (~misread => min_freq <= curGpuFreq /\ curGpuFreq <= max_freq)
    \/ limits = <<"max">> /\ status = TRUE /\ min_freq = freq /\ (~misread => freq <= max_freq)
    \/ limits = <<"min">> /\ status = TRUE /\ max_freq = freq /\ (~misread => min_freq <= freq)
    \/ limits = <<>> /\ (status => min_freq = freq /\ max_freq = freq)

LockInv == Numbers /\ Reading /\ Writing /\ Limits!RangeStands

-----------------------------------------------------------------------------
(* The invariant holds at first: the frequency lies between the limits.    *)
LEMMA LockStarts == Limits!Init => LockInv
  BY FrequenciesAssumption DEF Limits!Init, LockInv, Numbers, Reading, Writing, Limits!RangeStands

(* The governor moves the frequency between the limits, and no part of the *)
(* invariant looks at it after it has been read.                           *)
LEMMA GovernorStep == ASSUME LockInv, Limits!Governor PROVE LockInv'
<1>1. Numbers' /\ Reading'
  BY FrequenciesAssumption DEF Limits!Governor, LockInv, Numbers, Reading
<1>2. Writing' /\ Limits!RangeStands'
  BY DEF Limits!Governor, LockInv, Writing, Limits!WriteOrder, Limits!RangeStands
<1>3. QED
  BY <1>1, <1>2 DEF LockInv

(* A write moves the limit that is safe to move: the upper one up, or the  *)
(* lower one down; only a frequency that was not read sends the upper one  *)
(* down.                                                                   *)
LEMMA WriteStep == ASSUME LockInv, Limits!Write PROVE LockInv'
<1>1. Numbers' /\ Reading'
  BY DEF Limits!Write, LockInv, Numbers, Reading
<1>2. CASE limits = Limits!WriteOrder /\ freq < curGpuFreq
  <2>1. /\ limits' = <<"max">> /\ min_freq' = freq /\ max_freq' = max_freq
        /\ ~misread => freq <= max_freq
    BY <1>2 DEF Limits!Write, Limits!WriteOrder, LockInv, Numbers, Writing
  <2>2. QED
    BY <1>1, <2>1, <1>2 DEF Limits!Write, Limits!WriteOrder, LockInv, Numbers, Reading, Writing, Limits!RangeStands
<1>3. CASE limits = Limits!WriteOrder /\ ~(freq < curGpuFreq)
  <2>1. /\ limits' = <<"min">> /\ max_freq' = freq /\ min_freq' = min_freq
        /\ ~misread => min_freq <= freq
    BY <1>3 DEF Limits!Write, Limits!WriteOrder, LockInv, Numbers, Writing
  <2>2. QED
    BY <1>1, <2>1, <1>3 DEF Limits!Write, Limits!WriteOrder, LockInv, Numbers, Writing, Limits!RangeStands
<1>4. CASE limits = <<"max">> \/ limits = <<"min">>
  <2>1. limits # Limits!WriteOrder /\ limits # <<>>
    BY <1>4 DEF Limits!WriteOrder
  <2>2. \/ limits = <<"max">> /\ min_freq = freq
        \/ limits = <<"min">> /\ max_freq = freq
    BY <1>4, <2>1 DEF Limits!Write, LockInv, Writing
  <2>3. Head(<<"max">>) = "max" /\ Head(<<"min">>) = "min" /\ Tail(<<"max">>) = <<>> /\ Tail(<<"min">>) = <<>>
    OBVIOUS
  <2>4. limits' = <<>> /\ min_freq' = freq /\ max_freq' = freq
    BY <2>2, <2>3 DEF Limits!Write
  <2>5. QED
    BY <1>1, <2>4 DEF Limits!Write, LockInv, Numbers, Writing, Limits!RangeStands
<1>5. limits = Limits!WriteOrder \/ limits = <<"max">> \/ limits = <<"min">>
  BY DEF Limits!Write, LockInv, Writing
<1>6. QED
  BY <1>2, <1>3, <1>4, <1>5

(* Every step keeps the invariant.                                         *)
LEMMA LockNext == LockInv /\ [Limits!Next]_lockVars => LockInv'
<1> SUFFICES ASSUME LockInv, [Limits!Next]_lockVars PROVE LockInv'
  OBVIOUS
<1>1. CASE Limits!Read
  <2>1. step' = "open" /\ (misread' => curGpuFreq' = 1)
    BY <1>1 DEF Limits!Read, LockInv, Reading
  <2>2. misread => misread'
    BY <1>1 DEF Limits!Read
  <2>3. Numbers' /\ Reading'
    BY <1>1, <2>1 DEF Limits!Read, Limits!files, LockInv, Numbers, Reading
  <2>4. Writing' /\ Limits!RangeStands'
    BY <1>1, <2>2 DEF Limits!Read, Limits!files, LockInv, Numbers, Writing, Limits!RangeStands
  <2> QED
    BY <2>3, <2>4 DEF LockInv
<1>2. CASE Limits!Open
  BY <1>2 DEF Limits!Open, Limits!files, LockInv, Numbers, Reading, Writing, Limits!WriteOrder, Limits!RangeStands
<1>3. CASE Limits!Throw
  BY <1>3 DEF Limits!Throw, Limits!files, LockInv, Numbers, Reading, Writing, Limits!RangeStands
<1>4. CASE Limits!WriteFails
  BY <1>4 DEF Limits!WriteFails, Limits!files, LockInv, Numbers, Reading, Writing, Limits!RangeStands
<1>5. CASE Limits!Return
  BY <1>5 DEF Limits!Return, Limits!files, LockInv, Numbers, Reading, Writing, Limits!WriteOrder, Limits!RangeStands
<1>6. CASE UNCHANGED lockVars
  BY <1>6 DEF lockVars, LockInv, Numbers, Reading, Writing, Limits!WriteOrder, Limits!RangeStands
<1>7. QED
  BY GovernorStep, WriteStep, <1>1, <1>2, <1>3, <1>4, <1>5, <1>6 DEF Limits!Next, Limits!Ended, Limits!vars, Limits!files, lockVars

-----------------------------------------------------------------------------
(***************************************************************************)
(* The download, for every set of sites, with any number of pages and any  *)
(* links between them.                                                     *)
(*                                                                         *)
(* The queue always holds what is left of one level, and what is known so  *)
(* far of the next; so the list holds the files of a level before those of *)
(* the levels below it, and, when the queue is empty, those of all levels. *)
(* That the levels counted by the property are all of them follows from    *)
(* the number of directories: levels that add none end the traversal.      *)
(***************************************************************************)

(* Induction on the numbers, for a property that is given as a set: the    *)
(* well-founded relation of the library, read as the order.                *)
LEMMA BelowIsLess == \A x, y \in Nat : (<<x, y>> \in OpToRel(<, Nat)) <=> x < y
BY DEF OpToRel

LEMMA LeastNumber ==
  ASSUME NEW T, T \subseteq Nat, T # {}
  PROVE  \E x \in T : \A y \in T : ~ (y < x)
<1>1. IsWellFoundedOn(OpToRel(<, Nat), Nat)
  BY NatLessThanWellFounded
<1>2. \E x \in T : \A y \in T : ~ (<<y, x>> \in OpToRel(<, Nat))
  BY <1>1, WFMin
<1> QED
  BY <1>2, BelowIsLess

LEMMA Induction ==
  ASSUME NEW S, 0 \in S, \A n \in Nat : n \in S => n + 1 \in S
  PROVE  Nat \subseteq S
<1> DEFINE T == Nat \ S
<1> SUFFICES ASSUME T # {} PROVE FALSE
  OBVIOUS
<1>1. PICK x \in T : \A y \in T : ~ (y < x)
  BY LeastNumber
<1>2. x # 0 /\ x - 1 \in Nat /\ x - 1 < x
  BY <1>1
<1>3. x - 1 \in S
  BY <1>1, <1>2
<1> QED
  BY <1>1, <1>2, <1>3

Elements(s) == {s[i] : i \in 1 .. Len(s)}

LEMMA RangeIsElements == ASSUME NEW S, NEW s \in Seq(S) PROVE Download!Range(s) = Elements(s)
BY DEF Download!Range, Elements

LEMMA ElementsAppend ==
  ASSUME NEW S, NEW s \in Seq(S), NEW e \in S
  PROVE  Append(s, e) \in Seq(S) /\ Elements(Append(s, e)) = Elements(s) \cup {e}
<1>1. /\ Append(s, e) \in Seq(S) /\ Len(Append(s, e)) = Len(s) + 1 /\ Len(s) \in Nat
      /\ Append(s, e)[Len(s) + 1] = e
      /\ \A i \in 1 .. Len(s) : Append(s, e)[i] = s[i]
  BY AppendProperties, LenProperties
<1> DEFINE t == Append(s, e)
<1> HIDE DEF t
<1>2. ASSUME NEW x \in Elements(t) PROVE x \in Elements(s) \cup {e}
  <2>1. PICK i \in 1 .. Len(s) + 1 : x = t[i]
    BY <1>1 DEF Elements, t
  <2>2. i = Len(s) + 1 \/ i \in 1 .. Len(s)
    BY <1>1
  <2> QED
    BY <1>1, <2>1, <2>2 DEF Elements, t
<1>3. ASSUME NEW x \in Elements(s) \cup {e} PROVE x \in Elements(t)
  <2>1. CASE x = e
    BY <1>1, <2>1 DEF Elements, t
  <2>2. CASE x \in Elements(s)
    <3>1. PICK i \in 1 .. Len(s) : x = s[i]
      BY <2>2 DEF Elements
    <3>2. i \in 1 .. Len(t) /\ t[i] = s[i]
      BY <1>1 DEF t
    <3> QED
      BY <3>1, <3>2 DEF Elements
  <2> QED
    BY <2>1, <2>2
<1> QED
  BY <1>1, <1>2, <1>3 DEF t

LEMMA ElementsConcat ==
  ASSUME NEW S, NEW s \in Seq(S), NEW t \in Seq(S)
  PROVE  s \o t \in Seq(S) /\ Elements(s \o t) = Elements(s) \cup Elements(t)
<1> DEFINE u == s \o t
<1>1. /\ u \in Seq(S) /\ Len(u) = Len(s) + Len(t) /\ Len(s) \in Nat /\ Len(t) \in Nat
      /\ \A i \in 1 .. Len(s) : u[i] = s[i]
      /\ \A i \in 1 .. Len(t) : u[Len(s) + i] = t[i]
  BY ConcatProperties, LenProperties
<1> HIDE DEF u
<1>2. ASSUME NEW x \in Elements(u) PROVE x \in Elements(s) \cup Elements(t)
  <2>1. PICK i \in 1 .. Len(s) + Len(t) : x = u[i]
    BY <1>1 DEF Elements
  <2>2. CASE i \in 1 .. Len(s)
    BY <1>1, <2>1, <2>2 DEF Elements
  <2>3. CASE i \notin 1 .. Len(s)
    <3>1. i - Len(s) \in 1 .. Len(t) /\ Len(s) + (i - Len(s)) = i
      BY <1>1, <2>3
    <3>2. x = t[i - Len(s)]
      BY <1>1, <2>1, <3>1
    <3> QED
      BY <3>1, <3>2 DEF Elements
  <2> QED
    BY <2>2, <2>3
<1>3. ASSUME NEW x \in Elements(s) PROVE x \in Elements(u)
  <2>1. PICK i \in 1 .. Len(s) : x = s[i]
    BY DEF Elements
  <2>2. i \in 1 .. Len(u) /\ x = u[i]
    BY <1>1, <2>1
  <2> QED
    BY <2>2 DEF Elements
<1>4. ASSUME NEW x \in Elements(t) PROVE x \in Elements(u)
  <2>1. PICK i \in 1 .. Len(t) : x = t[i]
    BY DEF Elements
  <2>2. Len(s) + i \in 1 .. Len(u) /\ x = u[Len(s) + i]
    BY <1>1, <2>1
  <2> QED
    BY <2>2 DEF Elements
<1> QED
  BY <1>1, <1>2, <1>3, <1>4 DEF u

\* The links that are kept of the first n.
Keeping(h, n, links, keep) ==
  h = [k \in 0 .. n |->
        IF k = 0 THEN <<>> ELSE IF links[k] \in keep THEN Append(h[k - 1], links[k]) ELSE h[k - 1]]

LEMMA KeepingExists ==
  ASSUME NEW links \in Seq(STRING), NEW keep
  PROVE  \E h : Keeping(h, Len(links), links, keep)
<1> DEFINE S == {n \in Nat : \E h : Keeping(h, n, links, keep)}
<1>1. 0 \in S
  <2>1. Keeping([k \in 0 .. 0 |-> <<>>], 0, links, keep)
    BY DEF Keeping
  <2> QED
    BY <2>1
<1>2. ASSUME NEW n \in Nat, n \in S PROVE n + 1 \in S
  <2>1. PICK h : Keeping(h, n, links, keep)
    BY <1>2
  <2> DEFINE last == IF links[n + 1] \in keep THEN Append(h[n], links[n + 1]) ELSE h[n]
             g    == [k \in 0 .. n + 1 |-> IF k = n + 1 THEN last ELSE h[k]]
             entry(f, k) == IF k = 0 THEN <<>> ELSE IF links[k] \in keep THEN Append(f[k - 1], links[k]) ELSE f[k - 1]
  <2>2. ASSUME NEW k \in 0 .. n + 1 PROVE g[k] = entry(g, k)
    <3>1. CASE k = n + 1
      <4>1. k # 0 /\ k - 1 = n /\ n \in 0 .. n + 1 /\ n # n + 1
        BY <3>1
      <4>2. g[k - 1] = h[n] /\ g[k] = last
        BY <4>1, <3>1
      <4> QED
        BY <4>1, <4>2, <3>1
    <3>2. CASE k \in 0 .. n
      <4>1. g[k] = h[k]
        BY <3>2
      <4>2. h[k] = entry(h, k)
        BY <2>1, <3>2 DEF Keeping
      <4>3. k # 0 => g[k - 1] = h[k - 1]
        BY <3>2
      <4> QED
        BY <4>1, <4>2, <4>3
    <3> QED
      BY <3>1, <3>2
  <2>3. Keeping(g, n + 1, links, keep)
    <3>1. g = [k \in 0 .. n + 1 |-> g[k]]
      OBVIOUS
    <3> HIDE DEF g
    <3> QED
      BY <3>1, <2>2 DEF Keeping
  <2> QED
    BY <2>3
<1>3. Nat \subseteq S
  <2> HIDE DEF S
  <2> QED
    BY <1>1, <1>2, Induction
<1> QED
  BY <1>3, LenProperties

(* What is kept of some links are the ones that are meant to be.           *)
LEMMA KeptElements ==
  ASSUME NEW links \in Seq(STRING), NEW keep
  PROVE  /\ Download!Kept(links, keep) \in Seq(STRING)
         /\ Elements(Download!Kept(links, keep)) = Elements(links) \cap keep
<1> DEFINE l == Len(links)
           h == CHOOSE f : f = [k \in 0 .. Len(links) |->
                  IF k = 0 THEN <<>> ELSE IF links[k] \in keep THEN Append(f[k - 1], links[k]) ELSE f[k - 1]]
           First(n) == {links[i] : i \in 1 .. n}
           S == {n \in Nat : n <= l => h[n] \in Seq(STRING) /\ Elements(h[n]) = First(n) \cap keep}
<1>0. l \in Nat /\ \A i \in 1 .. l : links[i] \in STRING
  BY LenProperties, ElementOfSeq
<1>1. Keeping(h, l, links, keep)
  <2>1. \E f : f = [k \in 0 .. Len(links) |->
                    IF k = 0 THEN <<>> ELSE IF links[k] \in keep THEN Append(f[k - 1], links[k]) ELSE f[k - 1]]
    BY KeepingExists DEF Keeping
  <2>2. h = [k \in 0 .. Len(links) |->
              IF k = 0 THEN <<>> ELSE IF links[k] \in keep THEN Append(h[k - 1], links[k]) ELSE h[k - 1]]
    BY <2>1, Zenon
  <2> QED
    BY <2>2 DEF Keeping
<1>2. Download!Kept(links, keep) = h[l]
  BY DEF Download!Kept
<1> HIDE DEF h, l
<1>3. 0 \in S
  <2>1. h[0] = <<>>
    BY <1>0, <1>1 DEF Keeping
  <2>2. <<>> \in Seq(STRING) /\ Elements(<<>>) = {} /\ First(0) = {}
    BY DEF Elements
  <2> QED
    BY <2>1, <2>2
<1>4. ASSUME NEW n \in Nat, n \in S PROVE n + 1 \in S
  <2> SUFFICES ASSUME n + 1 <= l
               PROVE  h[n + 1] \in Seq(STRING) /\ Elements(h[n + 1]) = First(n + 1) \cap keep
    OBVIOUS
  <2>1. h[n] \in Seq(STRING) /\ Elements(h[n]) = First(n) \cap keep
    BY <1>0, <1>4
  <2>2. h[n + 1] = IF links[n + 1] \in keep THEN Append(h[n], links[n + 1]) ELSE h[n]
    <3>1. n + 1 \in 0 .. l /\ n + 1 # 0 /\ (n + 1) - 1 = n
      BY <1>0
    <3> QED
      BY <1>1, <3>1 DEF Keeping
  <2>3. First(n + 1) = First(n) \cup {links[n + 1]}
    OBVIOUS
  <2>4. links[n + 1] \in STRING
    BY <1>0
  <2> DEFINE e == links[n + 1]
  <2>5. Append(h[n], e) \in Seq(STRING) /\ Elements(Append(h[n], e)) = Elements(h[n]) \cup {e}
    <3> HIDE DEF e
    <3> QED
      BY <2>1, <2>4, ElementsAppend DEF e
  <2> HIDE DEF First
  <2>6. CASE e \in keep
    BY <2>1, <2>2, <2>3, <2>5, <2>6
  <2>7. CASE e \notin keep
    BY <2>1, <2>2, <2>3, <2>7
  <2> QED
    BY <2>6, <2>7
<1>5. Nat \subseteq S
  <2> HIDE DEF S
  <2> QED
    BY <1>3, <1>4, Induction
<1>6. h[l] \in Seq(STRING) /\ Elements(h[l]) = First(l) \cap keep
  <2>1. l \in S
    BY <1>0, <1>5
  <2> HIDE DEF First
  <2> QED
    BY <1>0, <2>1
<1> QED
  BY <1>2, <1>6 DEF Elements, l

\* The links below some directories.
Below(S)  == UNION {Download!Range(Download!Links(dir)) : dir \in S}
Deeper(S) == {link \in Below(S) : Download!isDirectory(link)}
FilesIn(S) == {link \in Below(S) : ~Download!isDirectory(link)}

\* The directories that n others were passed on the way to.
Descent(h, n) == h = [k \in 0 .. n |-> IF k = 0 THEN {site.root} ELSE Deeper(h[k - 1])]

LEMMA DescentExists == ASSUME NEW n \in Nat PROVE \E h : Descent(h, n)
<1> DEFINE S == {m \in Nat : \E h : Descent(h, m)}
<1>1. 0 \in S
  <2>1. Descent([k \in 0 .. 0 |-> {site.root}], 0)
    BY DEF Descent
  <2> QED
    BY <2>1
<1>2. ASSUME NEW m \in Nat, m \in S PROVE m + 1 \in S
  <2>1. PICK h : Descent(h, m)
    BY <1>2
  <2> DEFINE g == [k \in 0 .. m + 1 |-> IF k = m + 1 THEN Deeper(h[m]) ELSE h[k]]
  <2>2. ASSUME NEW k \in 0 .. m + 1 PROVE g[k] = IF k = 0 THEN {site.root} ELSE Deeper(g[k - 1])
    <3>1. CASE k = m + 1
      <4>1. k # 0 /\ k - 1 = m /\ m \in 0 .. m + 1 /\ m # m + 1
        BY <3>1
      <4>2. g[k - 1] = h[m] /\ g[k] = Deeper(h[m])
        BY <4>1, <3>1
      <4> QED
        BY <4>1, <4>2
    <3>2. CASE k \in 0 .. m
      <4>1. g[k] = h[k]
        BY <3>2
      <4>2. h[k] = IF k = 0 THEN {site.root} ELSE Deeper(h[k - 1])
        BY <2>1, <3>2 DEF Descent
      <4>3. k # 0 => g[k - 1] = h[k - 1]
        BY <3>2
      <4> QED
        BY <4>1, <4>2, <4>3
    <3> QED
      BY <3>1, <3>2
  <2>3. Descent(g, m + 1)
    <3>1. g = [k \in 0 .. m + 1 |-> g[k]]
      OBVIOUS
    <3> HIDE DEF g
    <3> QED
      BY <3>1, <2>2 DEF Descent
  <2> QED
    BY <2>3
<1>3. Nat \subseteq S
  <2> HIDE DEF S
  <2> QED
    BY <1>1, <1>2, Induction
<1> QED
  BY <1>3

LEMMA DescentsAgree ==
  ASSUME NEW m \in Nat, NEW n \in Nat, NEW g, NEW h, Descent(g, m), Descent(h, n), NEW k \in Nat, k <= m, k <= n
  PROVE  g[k] = h[k]
<1> DEFINE S == {i \in Nat : i <= m /\ i <= n => g[i] = h[i]}
<1>1. 0 \in S
  BY DEF Descent
<1>2. ASSUME NEW i \in Nat, i \in S PROVE i + 1 \in S
  <2> SUFFICES ASSUME i + 1 <= m, i + 1 <= n PROVE g[i + 1] = h[i + 1]
    OBVIOUS
  <2>1. g[i] = h[i]
    BY <1>2
  <2>2. i + 1 # 0 /\ (i + 1) - 1 = i /\ i + 1 \in 0 .. m /\ i + 1 \in 0 .. n
    OBVIOUS
  <2>3. g[i + 1] = Deeper(g[i]) /\ h[i + 1] = Deeper(h[i])
    BY <2>2 DEF Descent
  <2> QED
    BY <2>1, <2>3
<1>3. Nat \subseteq S
  <2> HIDE DEF S
  <2> QED
    BY <1>1, <1>2, Induction
<1> QED
  BY <1>3

(* A level lies below the one before it.                                   *)
LEMMA WithinLevels ==
  /\ Download!Within(0) = {site.root}
  /\ \A n \in Nat : Download!Within(n + 1) = Deeper(Download!Within(n))
<1>1. ASSUME NEW n \in Nat PROVE \E h : Descent(h, n) /\ Download!Within(n) = h[n]
  <2> DEFINE h == CHOOSE f : f = [k \in 0 .. n |->
                    IF k = 0 THEN {site.root}
                    ELSE {link \in UNION {Download!Range(Download!Links(dir)) : dir \in f[k - 1]} : Download!isDirectory(link)}]
  <2>1. Descent(h, n)
    BY DescentExists DEF Descent, Deeper, Below
  <2>2. Download!Within(n) = h[n]
    BY DEF Download!Within
  <2> QED
    BY <2>1, <2>2
<1>2. Download!Within(0) = {site.root}
  <2>1. PICK h : Descent(h, 0) /\ Download!Within(0) = h[0]
    BY <1>1
  <2> QED
    BY <2>1 DEF Descent
<1>3. ASSUME NEW n \in Nat PROVE Download!Within(n + 1) = Deeper(Download!Within(n))
  <2>1. PICK g : Descent(g, n) /\ Download!Within(n) = g[n]
    BY <1>1
  <2>2. PICK h : Descent(h, n + 1) /\ Download!Within(n + 1) = h[n + 1]
    BY <1>1
  <2>3. g[n] = h[n]
    BY <2>1, <2>2, DescentsAgree
  <2>4. h[n + 1] = Deeper(h[n])
    <3>1. n + 1 # 0 /\ (n + 1) - 1 = n /\ n + 1 \in 0 .. n + 1
      OBVIOUS
    <3> QED
      BY <2>2, <3>1 DEF Descent
  <2> QED
    BY <2>1, <2>2, <2>3, <2>4
<1> QED
  BY <1>2, <1>3

LEMMA FilesAtLevel == \A n : Download!FilesAt(n) = FilesIn(Download!Within(n))
BY DEF Download!FilesAt, FilesIn, Below

(* The module's instance counts as the library does.                       *)
LEMMA SameFinite == \A S : /\ Download!IsFiniteSet(S) <=> IsFiniteSet(S)
                           /\ Download!Cardinality(S) = Cardinality(S)
<1>1. \A S : Download!IsFiniteSet(S) <=> IsFiniteSet(S)
  BY DEF Download!IsFiniteSet, IsFiniteSet
<1>2. \A S : Download!Cardinality(S) = Cardinality(S)
  BY DEF Download!Cardinality, Cardinality
<1> QED
  BY <1>1, <1>2

(* The directories of a site are finitely many, so those further down than *)
(* there are directories have been passed before.                          *)
LEMMA ShallowSuffices ==
  ASSUME Download!SiteOK(site), NEW n \in Nat, NEW dir \in Download!Within(n)
  PROVE  \E k \in Download!Depths : dir \in Download!Within(k)
<1> DEFINE D    == DOMAIN site.pages
           W(k) == Download!Within(k)
           L(k) == UNION {W(i) : i \in 0 .. k}
           c    == Cardinality(D)
<1>1. IsFiniteSet(D) /\ c \in Nat /\ site.root \in D
  BY SameFinite, FS_CardinalityType DEF Download!SiteOK
<1>2. \A k \in Nat : W(k) \subseteq D
  <2> DEFINE S == {k \in Nat : W(k) \subseteq D}
  <2>1. 0 \in S
    BY <1>1, WithinLevels
  <2>2. ASSUME NEW k \in Nat, k \in S PROVE k + 1 \in S
    <3>1. W(k + 1) = Deeper(W(k))
      BY WithinLevels
    <3>2. Deeper(W(k)) \subseteq D
      BY DEF Deeper, Download!isDirectory
    <3> QED
      BY <3>1, <3>2
  <2>3. Nat \subseteq S
    <3> HIDE DEF S
    <3> QED
      BY <2>1, <2>2, Induction
  <2> QED
    BY <2>3
<1>3. \A k \in Nat : L(k + 1) = L(k) \cup W(k + 1)
  <2> TAKE k \in Nat
  <2>1. 0 .. k + 1 = (0 .. k) \cup {k + 1}
    OBVIOUS
  <2> QED
    BY <2>1
<1>4. \A k \in Nat : L(k) \subseteq D /\ IsFiniteSet(L(k)) /\ Cardinality(L(k)) \in Nat /\ Cardinality(L(k)) <= c
  <2> TAKE k \in Nat
  <2>1. L(k) \subseteq D
    BY <1>2
  <2> QED
    BY <1>1, <2>1, FS_Subset, FS_CardinalityType
<1> DEFINE Settles(k) == L(k + 1) = L(k)
<1>5. \E j \in 0 .. c : Settles(j)
  <2> DEFINE S == {k \in Nat : (\E j \in 0 .. k : Settles(j)) \/ Cardinality(L(k)) >= k + 1}
  <2>1. 0 \in S
    <3>1. L(0) = {site.root}
      <4>1. 0 .. 0 = {0}
        OBVIOUS
      <4> QED
        BY <4>1, WithinLevels
    <3>2. Cardinality({site.root}) = 1
      BY FS_Singleton
    <3> HIDE DEF L
    <3> QED
      BY <3>1, <3>2
  <2>2. ASSUME NEW k \in Nat, k \in S PROVE k + 1 \in S
    <3>1. CASE \E j \in 0 .. k : Settles(j)
      <4>1. \E j \in 0 .. k + 1 : Settles(j)
        BY <3>1
      <4> QED
        BY <4>1
    <3>2. CASE L(k + 1) # L(k) /\ Cardinality(L(k)) >= k + 1
      <4> HIDE DEF L
      <4>1. L(k) \subseteq L(k + 1) /\ IsFiniteSet(L(k + 1)) /\ IsFiniteSet(L(k))
        BY <1>3, <1>4
      <4>2. Cardinality(L(k)) <= Cardinality(L(k + 1)) /\ Cardinality(L(k)) # Cardinality(L(k + 1))
        BY <3>2, <4>1, FS_Subset
      <4>3. Cardinality(L(k + 1)) \in Nat /\ Cardinality(L(k)) \in Nat
        BY <1>4
      <4>4. Cardinality(L(k + 1)) >= (k + 1) + 1
        BY <3>2, <4>2, <4>3
      <4> QED
        BY <4>4
    <3>3. CASE L(k + 1) = L(k)
      <4>1. k \in 0 .. k + 1 /\ Settles(k)
        BY <3>3
      <4> HIDE DEF Settles
      <4> QED
        BY <4>1
    <3> QED
      BY <2>2, <3>1, <3>2, <3>3
  <2>3. c \in S
    <3>1. Nat \subseteq S
      <4> HIDE DEF S
      <4> QED
        BY <2>1, <2>2, Induction
    <3> HIDE DEF S, c
    <3> QED
      BY <3>1, <1>1
  <2>4. Cardinality(L(c)) <= c /\ Cardinality(L(c)) \in Nat
    BY <1>1, <1>4
  <2> HIDE DEF L, Settles, c
  <2> QED
    BY <2>3, <2>4, <1>1
<1>6. PICK j \in 0 .. c : L(j + 1) = L(j)
  BY <1>5
<1>7. \A k \in Nat : W(k) \subseteq L(j)
  <2> DEFINE S == {k \in Nat : W(k) \subseteq L(j)}
  <2>0. j \in Nat
    BY <1>1, <1>6
  <2>1. 0 \in S
    BY <2>0
  <2>2. ASSUME NEW k \in Nat, k \in S PROVE k + 1 \in S
    <3> SUFFICES ASSUME NEW d \in W(k + 1) PROVE d \in L(j)
      OBVIOUS
    <3>1. PICK e \in W(k) : d \in Download!Range(Download!Links(e)) /\ Download!isDirectory(d)
      BY WithinLevels DEF Deeper, Below
    <3>2. PICK i \in 0 .. j : e \in W(i)
      BY <2>2, <3>1
    <3>3. i \in Nat /\ d \in W(i + 1)
      BY <3>1, <3>2, WithinLevels DEF Deeper, Below
    <3>4. i + 1 \in 0 .. j + 1
      BY <2>0, <3>2
    <3>5. d \in L(j + 1)
      BY <3>3, <3>4
    <3> QED
      BY <3>5, <1>6
  <2>3. Nat \subseteq S
    <3> HIDE DEF S
    <3> QED
      BY <2>1, <2>2, Induction
  <2> QED
    BY <2>3
<1>8. PICK i \in 0 .. j : dir \in W(i)
  BY <1>7
<1>9. i \in 0 .. c
  BY <1>1, <1>6, <1>8
<1> QED
  BY <1>8, <1>9, SameFinite DEF Download!Depths

\* The files of each level come after those of all levels above.
Sorted(files) ==
  \A i \in 1 .. Len(files) : \E k \in Nat :
    /\ files[i] \in Download!FilesAt(k)
    /\ \A m \in 0 .. k - 1 : Download!FilesAt(m) \subseteq {files[j] : j \in 1 .. i - 1}

Above(d) == \A m \in 0 .. d - 1 : Download!FilesAt(m) \subseteq Elements(listed)

\* Level d is being listed, and of level d + 1 is known what lies below the
\* part of level d that has been.
Sweep(d, now, next) ==
  /\ Elements(now) \subseteq Download!Within(d) /\ Elements(next) \subseteq Download!Within(d + 1)
  /\ Above(d)
  /\ \A dir \in Download!Within(d) :
       dir \in Elements(now) \/ (FilesIn({dir}) \subseteq Elements(listed) /\ Deeper({dir}) \subseteq Elements(next))

Sweeping == \E d \in Nat, now, next \in Seq(DOMAIN site.pages) :
              /\ directories = now \o next /\ (now = <<>> => next = <<>>)
              /\ Sweep(d, now, next)

Complete == \A n \in Nat : Download!FilesAt(n) \subseteq Elements(listed)

Found == attrs # <<>> /\
         (~failed /\ attrs # <<"empty">> =>
            \E i \in 1 .. Len(listed) : /\ attrs[1] = listed[i] /\ Download!isManifest(listed[i])
                                        /\ \A j \in 1 .. i - 1 : ~Download!isManifest(listed[j]))

DownloadTypes == /\ Download!SiteOK(site) /\ failed \in BOOLEAN
                 /\ directories \in Seq(DOMAIN site.pages) /\ listed \in Seq(STRING)

DownloadFlow ==
  /\ lister \in {"locking", "traversing", "searching", "ready", "notified", "returned"}
  /\ lister = "locking" => directories = <<>> /\ listed = <<>> /\ ~failed
  /\ lister \in {"ready", "notified", "returned"} => Found
  /\ is_ready => lister \in {"notified", "returned"}
  /\ printer \in {"joining", "printed"} => is_ready

DownloadInv ==
  /\ DownloadTypes /\ DownloadFlow
  /\ ~failed => /\ Sorted(listed)
                /\ lister = "traversing" => Sweeping
                /\ lister \notin {"locking", "traversing"} => Complete

\* What is proved of the levels holds of them after a step as well.
Levels == /\ Download!Within(0) = {site.root}
          /\ \A n \in Nat : /\ Download!Within(n + 1) = Deeper(Download!Within(n))
                           /\ Download!FilesAt(n) = FilesIn(Download!Within(n))

LEMMA LevelsNow == Levels
BY WithinLevels, FilesAtLevel DEF Levels

LEMMA LevelsThen == Levels'
BY LevelsNow, PTL

LEMMA SameSite ==
  ASSUME UNCHANGED site
  PROVE  /\ \A n \in Nat : Download!Within(n)' = Download!Within(n) /\ Download!FilesAt(n)' = Download!FilesAt(n)
         /\ \A S : FilesIn(S)' = FilesIn(S) /\ Deeper(S)' = Deeper(S)
         /\ \A s : Sorted(s)' = Sorted(s)
<1>1. \A dir : Download!Links(dir)' = Download!Links(dir)
  BY DEF Download!Links, Download!isSpecialDir
<1>2. \A S : FilesIn(S)' = FilesIn(S) /\ Deeper(S)' = Deeper(S)
  BY <1>1 DEF FilesIn, Deeper, Below, Download!isDirectory
<1>3. \A n \in Nat : Download!Within(n)' = Download!Within(n)
  <2> DEFINE S == {n \in Nat : Download!Within(n)' = Download!Within(n)}
  <2>1. 0 \in S
    BY LevelsNow, LevelsThen DEF Levels
  <2>2. ASSUME NEW n \in Nat, n \in S PROVE n + 1 \in S
    <3>1. Download!Within(n)' = Download!Within(n)
      BY <2>2
    <3>2. Download!Within(n + 1)' = Deeper(Download!Within(n))
      BY <1>1, <3>1, LevelsThen DEF Levels, Deeper, Below, Download!isDirectory
    <3> QED
      BY <3>2, LevelsNow DEF Levels
  <2>3. Nat \subseteq S
    <3> HIDE DEF S
    <3> QED
      BY <2>1, <2>2, Induction
  <2> QED
    BY <2>3
<1>4. \A n \in Nat : Download!FilesAt(n)' = Download!FilesAt(n)
  <2> TAKE n \in Nat
  <2>1. Download!FilesAt(n)' = FilesIn(Download!Within(n))
    BY <1>1, <1>3, LevelsThen DEF Levels, FilesIn, Below, Download!isDirectory
  <2> QED
    BY <2>1, LevelsNow DEF Levels
<1>5. \A s : Sorted(s)' = Sorted(s)
  BY <1>4 DEF Sorted
<1> QED
  BY <1>2, <1>3, <1>4, <1>5

(* What lies below a set of directories is what lies below each of them.   *)
LEMMA OneByOne ==
  ASSUME NEW S
  PROVE  /\ \A x : x \in Deeper(S) <=> \E dir \in S : x \in Deeper({dir})
         /\ \A x : x \in FilesIn(S) <=> \E dir \in S : x \in FilesIn({dir})
BY DEF Deeper, FilesIn, Below

(* A sequence is one of whatever its elements are.                         *)
LEMMA SequenceOf ==
  ASSUME NEW S, NEW D, NEW s \in Seq(S), \A i \in 1 .. Len(s) : s[i] \in D
  PROVE  s \in Seq(D)
<1>1. Len(s) \in Nat /\ s = [i \in 1 .. Len(s) |-> s[i]]
  BY LenProperties
<1> QED
  BY <1>1

(* The links of a page are told apart.                                     *)
LEMMA PageParts ==
  ASSUME Download!SiteOK(site), NEW dir \in DOMAIN site.pages
  PROVE  LET page == Download!Links(dir)
         IN  /\ Download!Directories(page) \in Seq(DOMAIN site.pages)
             /\ Elements(Download!Directories(page)) = Deeper({dir})
             /\ Download!Files(page) \in Seq(STRING)
             /\ Elements(Download!Files(page)) = FilesIn({dir})
<1> DEFINE page == Download!Links(dir)
           dirs == {link \in Download!Range(page) : Download!isDirectory(link)}
           files == {link \in Download!Range(page) : ~Download!isDirectory(link)}
<1>1. page \in Seq(STRING)
  BY KeptElements DEF Download!Links, Download!SiteOK
<1> HIDE DEF page
<1>2. Download!Range(page) = Elements(page)
  BY <1>1, RangeIsElements
<1>3. /\ Download!Directories(page) \in Seq(STRING) /\ Elements(Download!Directories(page)) = Elements(page) \cap dirs
      /\ Download!Files(page) \in Seq(STRING) /\ Elements(Download!Files(page)) = Elements(page) \cap files
  BY <1>1, KeptElements DEF Download!Directories, Download!Files
<1>4. Deeper({dir}) = dirs /\ FilesIn({dir}) = files
  BY DEF Deeper, FilesIn, Below, page
<1>5. /\ Elements(Download!Directories(page)) = Deeper({dir})
      /\ Elements(Download!Files(page)) = FilesIn({dir})
  BY <1>2, <1>3, <1>4
<1>6. Download!Directories(page) \in Seq(DOMAIN site.pages)
  <2>1. Deeper({dir}) \subseteq DOMAIN site.pages
    BY DEF Deeper, Download!isDirectory
  <2>2. \A i \in 1 .. Len(Download!Directories(page)) : Download!Directories(page)[i] \in DOMAIN site.pages
    BY <1>5, <2>1 DEF Elements
  <2> QED
    BY <1>3, <2>2, SequenceOf
<1> QED
  BY <1>3, <1>5, <1>6 DEF page

(* Files of a level may follow when those above are all there.             *)
LEMMA SortedGrows ==
  ASSUME NEW d \in Nat, listed \in Seq(STRING), Sorted(listed), Above(d),
         NEW more \in Seq(STRING), Elements(more) \subseteq Download!FilesAt(d)
  PROVE  Sorted(listed \o more)
<1> DEFINE l == Len(listed)
           all == listed \o more
<1>1. /\ all \in Seq(STRING) /\ Len(all) = l + Len(more) /\ l \in Nat /\ Len(more) \in Nat
      /\ \A i \in 1 .. l : all[i] = listed[i]
      /\ \A i \in 1 .. Len(more) : all[l + i] = more[i]
  BY ConcatProperties, LenProperties
<1> HIDE DEF all, l
<1> SUFFICES ASSUME NEW i \in 1 .. Len(all)
             PROVE  \E k \in Nat : /\ all[i] \in Download!FilesAt(k)
                                   /\ \A m \in 0 .. k - 1 : Download!FilesAt(m) \subseteq {all[j] : j \in 1 .. i - 1}
  BY DEF Sorted, all
<1>2. CASE i \in 1 .. l
  <2>1. PICK k \in Nat : /\ listed[i] \in Download!FilesAt(k)
                         /\ \A m \in 0 .. k - 1 : Download!FilesAt(m) \subseteq {listed[j] : j \in 1 .. i - 1}
    BY <1>2 DEF Sorted, l
  <2>2. {listed[j] : j \in 1 .. i - 1} = {all[j] : j \in 1 .. i - 1}
    <3>1. \A j \in 1 .. i - 1 : all[j] = listed[j]
      BY <1>1, <1>2
    <3> QED
      BY <3>1
  <2> QED
    BY <1>1, <1>2, <2>1, <2>2
<1>3. CASE i \notin 1 .. l
  <2>1. i - l \in 1 .. Len(more) /\ l + (i - l) = i
    BY <1>1, <1>3
  <2>2. all[i] \in Download!FilesAt(d)
    BY <1>1, <2>1 DEF Elements
  <2>3. Elements(listed) \subseteq {all[j] : j \in 1 .. i - 1}
    <3>1. \A j \in 1 .. l : j \in 1 .. i - 1
      <4>1. l < i /\ i \in Nat
        BY <1>1, <1>3
      <4> QED
        BY <1>1, <4>1
    <3>2. \A j \in 1 .. l : listed[j] = all[j]
      BY <1>1
    <3> QED
      BY <3>1, <3>2 DEF Elements, l
  <2> QED
    BY <2>2, <2>3 DEF Above
<1> QED
  BY <1>2, <1>3

(* A queue that is swept is taken from where the level is.                 *)
LEMMA TakeFirst ==
  ASSUME NEW S, NEW now \in Seq(S), NEW next \in Seq(S), NEW more \in Seq(S), now # <<>>
  PROVE  /\ Head(now \o next) = Head(now) /\ Head(now) \in S /\ Tail(now) \in Seq(S)
         /\ Tail(now \o next) \o more = Tail(now) \o (next \o more)
         /\ next \o more \in Seq(S)
         /\ Elements(now) = {Head(now)} \cup Elements(Tail(now))
<1>1. Head(now \o next) = Head(now) /\ Head(now) \in S /\ Tail(now) \in Seq(S) /\ next \o more \in Seq(S)
  OBVIOUS
<1>2. Tail(now \o next) = Tail(now) \o next
  OBVIOUS
<1>3. (Tail(now) \o next) \o more = Tail(now) \o (next \o more)
  BY <1>1, ConcatAssociative
<1>4. Elements(now) = {Head(now)} \cup Elements(Tail(now))
  <2>1. /\ Len(Tail(now)) = Len(now) - 1 /\ Head(now) = now[1] /\ Len(now) \in Nat /\ Len(now) # 0
        /\ \A i \in 1 .. Len(Tail(now)) : Tail(now)[i] = now[i + 1]
    BY HeadTailProperties, LenProperties, EmptySeq
  <2>2. ASSUME NEW x \in Elements(now) PROVE x \in {Head(now)} \cup Elements(Tail(now))
    <3>1. PICK i \in 1 .. Len(now) : x = now[i]
      BY DEF Elements
    <3>2. CASE i = 1
      BY <2>1, <3>1, <3>2
    <3>3. CASE i # 1
      <4>1. i - 1 \in 1 .. Len(Tail(now)) /\ (i - 1) + 1 = i
        BY <2>1, <3>3
      <4> QED
        BY <2>1, <3>1, <4>1 DEF Elements
    <3> QED
      BY <3>2, <3>3
  <2>3. ASSUME NEW x \in Elements(Tail(now)) PROVE x \in Elements(now)
    <3>1. PICK i \in 1 .. Len(Tail(now)) : x = Tail(now)[i]
      BY DEF Elements
    <3>2. i + 1 \in 1 .. Len(now) /\ x = now[i + 1]
      BY <2>1, <3>1
    <3> QED
      BY <3>2 DEF Elements
  <2>4. Head(now) \in Elements(now)
    BY <2>1 DEF Elements
  <2> QED
    BY <2>2, <2>3, <2>4
<1> QED
  BY <1>1, <1>2, <1>3, <1>4

LEMMA DownloadStarts == Download!Init => DownloadInv
<1> SUFFICES ASSUME Download!Init PROVE DownloadInv
  OBVIOUS
<1>1. Download!SiteOK(site)
  BY SitesAssumption DEF Download!Init
<1>2. Sorted(<<>>)
  BY DEF Sorted
<1>3. DownloadTypes /\ DownloadFlow
  <2>1. <<>> \in Seq(DOMAIN site.pages) /\ <<>> \in Seq(STRING)
    OBVIOUS
  <2> QED
    BY <1>1, <2>1 DEF Download!Init, DownloadTypes, DownloadFlow
<1> QED
  BY <1>2, <1>3 DEF Download!Init, DownloadInv

(* The traversal starts with the root.                                     *)
LEMMA FirstStep == DownloadInv /\ Download!Lock => DownloadInv'
<1> SUFFICES ASSUME DownloadInv, Download!Lock PROVE DownloadInv'
  OBVIOUS
<1> USE DEF Download!Lock, Download!Worker
<1>1. UNCHANGED <<site, listed, attrs, failed, is_ready, printer>> /\ lister = "locking" /\ lister' = "traversing"
      /\ directories' = <<site.root>> /\ listed = <<>> /\ site.root \in DOMAIN site.pages
  BY DEF DownloadInv, DownloadFlow, DownloadTypes, Download!SiteOK
<1>2. directories' \in Seq(DOMAIN site.pages)
  <2>1. \A D : \A dir \in D : <<dir>> \in Seq(D)
    OBVIOUS
  <2> QED
    BY <1>1, <2>1
<1>3. DownloadTypes'
  BY <1>1, <1>2 DEF DownloadInv, DownloadTypes, Download!SiteOK
<1>4. DownloadFlow'
  BY <1>1 DEF DownloadInv, DownloadFlow
<1>5. Sweeping'
  <2>1. Download!Within(0)' = {site.root}
    BY <1>1, LevelsThen DEF Levels
  <2>2. Elements(<<site.root>>) = {site.root} /\ Elements(<<>>) = {}
    BY DEF Elements
  <2>3. Above(0)'
    BY DEF Above
  <2>4. Sweep(0, <<site.root>>, <<>>)'
    BY <2>1, <2>2, <2>3 DEF Sweep
  <2>5. directories' = <<site.root>> \o <<>> /\ <<site.root>> # <<>> /\ <<site.root>> \in Seq(DOMAIN site.pages)'
        /\ <<>> \in Seq(DOMAIN site.pages)'
    BY <1>1
  <2> QED
    BY <2>4, <2>5 DEF Sweeping
<1>6. Sorted(listed)'
  BY <1>1 DEF Sorted
<1> QED
  BY <1>1, <1>3, <1>4, <1>5, <1>6 DEF DownloadInv

(* One directory of the level is listed; with the last, the next level     *)
(* begins.                                                                 *)
LEMMA SweepOn ==
  ASSUME DownloadTypes, NEW d \in Nat, NEW now \in Seq(DOMAIN site.pages), NEW next \in Seq(DOMAIN site.pages),
         now # <<>>, Sweep(d, now, next), UNCHANGED site,
         NEW more, more = Download!Directories(Download!Links(Head(now))),
         listed' = listed \o Download!Files(Download!Links(Head(now)))
  PROVE  /\ Sweep(d, Tail(now), next \o more)'
         /\ Tail(now) = <<>> => Sweep(d + 1, next \o more, <<>>)'
<1> DEFINE files == Download!Files(Download!Links(Head(now)))
<1>1. Head(now) \in DOMAIN site.pages /\ listed \in Seq(STRING)
  BY TakeFirst DEF DownloadTypes
<1>2. /\ more \in Seq(DOMAIN site.pages) /\ Elements(more) = Deeper({Head(now)})
      /\ files \in Seq(STRING) /\ Elements(files) = FilesIn({Head(now)})
  BY <1>1, PageParts DEF DownloadTypes
<1> HIDE DEF files
<1>3. /\ Elements(now) = {Head(now)} \cup Elements(Tail(now))
      /\ Tail(now) \in Seq(DOMAIN site.pages) /\ next \o more \in Seq(DOMAIN site.pages)
  BY <1>2, TakeFirst
<1>4. Elements(next \o more) = Elements(next) \cup Elements(more)
  BY <1>2, ElementsConcat
<1>5. Elements(listed)' = Elements(listed) \cup FilesIn({Head(now)})
  <2>1. listed' = listed \o files
    BY DEF files
  <2>2. Elements(listed)' = Elements(listed \o files)
    BY <2>1 DEF Elements
  <2> QED
    BY <1>1, <1>2, <2>2, ElementsConcat
<1>6. Head(now) \in Download!Within(d)
  BY <1>3 DEF Sweep
<1>7. Download!Within(d + 1) = Deeper(Download!Within(d)) /\ Download!FilesAt(d) = FilesIn(Download!Within(d))
  BY LevelsNow DEF Levels
<1>8. /\ Download!Within(d)' = Download!Within(d) /\ Download!Within(d + 1)' = Download!Within(d + 1)
      /\ \A n \in Nat : Download!FilesAt(n)' = Download!FilesAt(n)
      /\ \A S : FilesIn(S)' = FilesIn(S) /\ Deeper(S)' = Deeper(S)
  BY SameSite
<1>9. Elements(next \o more) \subseteq Download!Within(d + 1)
  <2>1. Deeper({Head(now)}) \subseteq Deeper(Download!Within(d))
    BY <1>6, OneByOne
  <2> QED
    BY <1>2, <1>4, <1>7, <2>1 DEF Sweep
<1>10. Above(d)'
  <2>1. \A m \in 0 .. d - 1 : m \in Nat
    OBVIOUS
  <2> QED
    BY <1>5, <1>8, <2>1 DEF Sweep, Above
<1>11. \A dir \in Download!Within(d) :
         \/ dir \in Elements(Tail(now))
         \/ FilesIn({dir}) \subseteq Elements(listed)' /\ Deeper({dir}) \subseteq Elements(next \o more)
  <2> TAKE dir \in Download!Within(d)
  <2>1. CASE dir = Head(now)
    BY <1>2, <1>4, <1>5, <2>1
  <2>2. CASE dir # Head(now)
    BY <1>3, <1>4, <1>5, <2>2 DEF Sweep
  <2> QED
    BY <2>1, <2>2
<1>12. Sweep(d, Tail(now), next \o more)'
  <2>1. Elements(Tail(now)) \subseteq Download!Within(d)
    BY <1>3 DEF Sweep
  <2> QED
    BY <1>8, <1>9, <1>10, <1>11, <2>1 DEF Sweep
<1>13. ASSUME Tail(now) = <<>> PROVE Sweep(d + 1, next \o more, <<>>)'
  <2>1. Elements(<<>>) = {}
    BY DEF Elements
  <2>2. \A dir \in Download!Within(d) : FilesIn({dir}) \subseteq Elements(listed)' /\ Deeper({dir}) \subseteq Elements(next \o more)
    BY <1>11, <1>13, <2>1
  <2>3. Download!FilesAt(d) \subseteq Elements(listed)'
    <3>1. \A x \in FilesIn(Download!Within(d)) : \E dir \in Download!Within(d) : x \in FilesIn({dir})
      BY OneByOne
    <3> QED
      BY <1>7, <2>2, <3>1
  <2>4. Download!Within(d + 1) \subseteq Elements(next \o more)
    <3>1. \A x \in Deeper(Download!Within(d)) : \E dir \in Download!Within(d) : x \in Deeper({dir})
      BY OneByOne
    <3> QED
      BY <1>7, <2>2, <3>1
  <2>5. Above(d + 1)'
    <3>1. \A m \in 0 .. (d + 1) - 1 : m = d \/ m \in 0 .. d - 1
      OBVIOUS
    <3> QED
      BY <1>8, <1>10, <2>3, <3>1 DEF Above
  <2> QED
    BY <1>8, <1>9, <2>1, <2>4, <2>5 DEF Sweep
<1> QED
  BY <1>12, <1>13

(* Whatever page a directory has, its links are of the right kinds.        *)
LEMMA PageTypes ==
  ASSUME NEW page \in Seq(STRING)
  PROVE  Download!Directories(page) \in Seq(DOMAIN site.pages) /\ Download!Files(page) \in Seq(STRING)
<1> DEFINE dirs == {link \in Download!Range(page) : Download!isDirectory(link)}
<1>1. /\ Download!Directories(page) \in Seq(STRING) /\ Elements(Download!Directories(page)) = Elements(page) \cap dirs
      /\ Download!Files(page) \in Seq(STRING)
  BY KeptElements DEF Download!Directories, Download!Files
<1>2. \A i \in 1 .. Len(Download!Directories(page)) : Download!Directories(page)[i] \in DOMAIN site.pages
  BY <1>1 DEF Elements, Download!isDirectory
<1> QED
  BY <1>1, <1>2, SequenceOf

(* A directory is taken from the queue; unless its page could not be       *)
(* fetched the level goes on, or the next begins.                          *)
LEMMA VisitStep == DownloadInv /\ Download!Visit => DownloadInv'
<1> SUFFICES ASSUME DownloadInv, Download!Visit PROVE DownloadInv'
  OBVIOUS
<1>1. /\ lister = "traversing" /\ directories # <<>> /\ lister' = lister
      /\ UNCHANGED <<site, attrs, is_ready, printer>>
  BY DEF Download!Visit, Download!Worker
<1>2. PICK page \in {Download!Links(Head(directories)), <<>>} :
        /\ failed' = (failed \/ page # Download!Links(Head(directories)))
        /\ directories' = Tail(directories) \o Download!Directories(page)
        /\ listed' = listed \o Download!Files(page)
  BY DEF Download!Visit
<1>3. DownloadTypes
  BY DEF DownloadInv
<1>4. Head(directories) \in DOMAIN site.pages /\ Tail(directories) \in Seq(DOMAIN site.pages)
  BY <1>1, <1>3, HeadTailProperties DEF DownloadTypes
<1>5. page \in Seq(STRING)
  <2>1. Download!Links(Head(directories)) \in Seq(STRING)
    BY <1>3, <1>4, KeptElements DEF DownloadTypes, Download!SiteOK, Download!Links
  <2>2. <<>> \in Seq(STRING)
    OBVIOUS
  <2> QED
    BY <2>1, <2>2
<1>6. DownloadTypes'
  <2>1. directories' \in Seq(DOMAIN site.pages)
    BY <1>2, <1>4, <1>5, PageTypes, ConcatProperties
  <2>2. listed' \in Seq(STRING)
    BY <1>2, <1>3, <1>5, PageTypes, ConcatProperties DEF DownloadTypes
  <2>3. failed' \in BOOLEAN
    BY <1>2
  <2> QED
    BY <1>1, <1>3, <2>1, <2>2, <2>3 DEF DownloadTypes, Download!SiteOK
<1>7. DownloadFlow'
  BY <1>1 DEF DownloadInv, DownloadFlow
<1>8. ASSUME ~failed' PROVE Sorted(listed)' /\ Sweeping'
  <2>1. ~failed /\ page = Download!Links(Head(directories))
    BY <1>2, <1>8
  <2>2. Sorted(listed) /\ Sweeping
    BY <1>1, <2>1 DEF DownloadInv
  <2>3. PICK d \in Nat, now \in Seq(DOMAIN site.pages), next \in Seq(DOMAIN site.pages) :
          directories = now \o next /\ (now = <<>> => next = <<>>) /\ Sweep(d, now, next)
    BY <2>2 DEF Sweeping
  <2>4. now # <<>>
    <3>1. <<>> \o <<>> = <<>>
      OBVIOUS
    <3> QED
      BY <1>1, <2>3, <3>1
  <2> DEFINE files == Download!Files(page)
  <2>0. files \in Seq(STRING)
    BY <1>5, PageTypes
  <2>5. PICK more \in Seq(DOMAIN site.pages) : more = Download!Directories(page)
    BY <1>5, PageTypes
  <2>6. /\ Head(directories) = Head(now) /\ Tail(directories) \o more = Tail(now) \o (next \o more)
        /\ Tail(now) \in Seq(DOMAIN site.pages) /\ next \o more \in Seq(DOMAIN site.pages)
        /\ Elements(now) = {Head(now)} \cup Elements(Tail(now))
    BY <2>3, <2>4, <2>5, TakeFirst
  <2>7. Sorted(listed \o files)
    <3>1. Head(now) \in Download!Within(d) /\ Above(d)
      BY <2>3, <2>6 DEF Sweep
    <3>2. Elements(files) = FilesIn({Head(now)})
      BY <1>3, <1>4, <2>1, <2>6, PageParts DEF DownloadTypes
    <3>3. FilesIn({Head(now)}) \subseteq Download!FilesAt(d)
      <4>1. FilesIn({Head(now)}) \subseteq FilesIn(Download!Within(d))
        BY <3>1, OneByOne
      <4> QED
        BY <4>1, LevelsNow DEF Levels
    <3> HIDE DEF files
    <3> QED
      BY <1>3, <2>0, <2>2, <3>1, <3>2, <3>3, SortedGrows DEF DownloadTypes
  <2>8. Sorted(listed)'
    <3>1. Sorted(listed')
      BY <1>2, <2>7
    <3> QED
      BY <1>1, <3>1, SameSite
  <2>9. /\ Sweep(d, Tail(now), next \o more)'
        /\ Tail(now) = <<>> => Sweep(d + 1, next \o more, <<>>)'
    <3>1. more = Download!Directories(Download!Links(Head(now)))
          /\ listed' = listed \o Download!Files(Download!Links(Head(now)))
      BY <1>2, <2>1, <2>5, <2>6
    <3> QED
      BY <1>1, <1>3, <2>3, <2>4, <3>1, SweepOn
  <2>10. directories' = Tail(now) \o (next \o more) /\ UNCHANGED site
    BY <1>1, <1>2, <2>5, <2>6
  <2>11. CASE Tail(now) # <<>>
    <3>1. (Tail(now) = <<>> => next \o more = <<>>) /\ Sweep(d, Tail(now), next \o more)'
      BY <2>9, <2>11
    <3> QED
      BY <2>6, <2>8, <2>10, <3>1 DEF Sweeping
  <2>12. CASE Tail(now) = <<>>
    <3>1. Tail(now) \o (next \o more) = (next \o more) \o <<>> /\ <<>> \in Seq(DOMAIN site.pages)
      <4>1. \A D : \A q \in Seq(D) : <<>> \o q = q \o <<>> /\ <<>> \in Seq(D)
        BY ConcatEmptySeq, EmptySeq
      <4> QED
        BY <2>6, <2>12, <4>1
    <3>2. Sweep(d + 1, next \o more, <<>>)' /\ d + 1 \in Nat
      BY <2>9, <2>12
    <3> QED
      BY <2>6, <2>8, <2>10, <3>1, <3>2 DEF Sweeping
  <2> QED
    BY <2>11, <2>12
<1> QED
  BY <1>1, <1>6, <1>7, <1>8 DEF DownloadInv

(* What is known of the lists stays while nothing is read.                 *)
LEMMA SameLists ==
  ASSUME UNCHANGED <<site, directories, listed>>
  PROVE  /\ Sorted(listed)' <=> Sorted(listed)
         /\ Sweeping => Sweeping'
         /\ Complete => Complete'
<1>1. UNCHANGED site /\ directories' = directories /\ listed' = listed
  OBVIOUS
<1>2. Sorted(listed)' <=> Sorted(listed)
  <2>1. Sorted(listed)' <=> Sorted(listed')
    BY <1>1, SameSite DEF Sorted
  <2> QED
    BY <1>1, <2>1
<1>3. /\ \A n \in Nat : Download!Within(n)' = Download!Within(n) /\ Download!FilesAt(n)' = Download!FilesAt(n)
      /\ \A S : FilesIn(S)' = FilesIn(S) /\ Deeper(S)' = Deeper(S)
  BY <1>1, SameSite
<1>4. Elements(listed)' = Elements(listed)
  BY <1>1 DEF Elements
<1>5. ASSUME Sweeping PROVE Sweeping'
  <2>1. PICK d \in Nat, now \in Seq(DOMAIN site.pages), next \in Seq(DOMAIN site.pages) :
          directories = now \o next /\ (now = <<>> => next = <<>>) /\ Sweep(d, now, next)
    BY <1>5 DEF Sweeping
  <2>2. Above(d)'
    <3>1. \A m \in 0 .. d - 1 : m \in Nat
      OBVIOUS
    <3> QED
      BY <1>3, <1>4, <2>1, <3>1 DEF Above, Sweep
  <2>3. Sweep(d, now, next)'
    <3>1. Download!Within(d)' = Download!Within(d) /\ Download!Within(d + 1)' = Download!Within(d + 1)
      BY <1>3
    <3> QED
      BY <1>3, <1>4, <2>1, <2>2, <3>1 DEF Sweep
  <2> QED
    BY <1>1, <2>1, <2>3 DEF Sweeping
<1>6. ASSUME Complete PROVE Complete'
  BY <1>3, <1>4, <1>6 DEF Complete
<1> QED
  BY <1>2, <1>5, <1>6

(* An empty queue means that no level is left.                             *)
LEMMA AllLevelsListed ==
  ASSUME DownloadTypes, Sweeping, directories = <<>>
  PROVE  Complete
<1>1. PICK d \in Nat, now \in Seq(DOMAIN site.pages), next \in Seq(DOMAIN site.pages) :
        directories = now \o next /\ (now = <<>> => next = <<>>) /\ Sweep(d, now, next)
  BY DEF Sweeping
<1>2. Elements(now) = {} /\ Elements(next) = {}
  <2>1. Len(now) + Len(next) = 0 /\ Len(now) \in Nat /\ Len(next) \in Nat
    BY <1>1, ConcatProperties, LenProperties, EmptySeq
  <2>2. Len(now) = 0 /\ Len(next) = 0
    BY <2>1
  <2> QED
    BY <2>2 DEF Elements
<1>3. \A dir \in Download!Within(d) : FilesIn({dir}) \subseteq Elements(listed) /\ Deeper({dir}) = {}
  BY <1>1, <1>2 DEF Sweep
<1>4. Download!FilesAt(d) \subseteq Elements(listed)
  <2>1. \A x \in FilesIn(Download!Within(d)) : \E dir \in Download!Within(d) : x \in FilesIn({dir})
    BY OneByOne
  <2> QED
    BY <1>3, <2>1, LevelsNow DEF Levels
<1> DEFINE S == {k \in Nat : Download!Within(d + 1 + k) = {}}
<1>5. 0 \in S
  <2>1. \A x \in Deeper(Download!Within(d)) : \E dir \in Download!Within(d) : x \in Deeper({dir})
    BY OneByOne
  <2>2. Download!Within(d + 1) = Deeper(Download!Within(d)) /\ d + 1 + 0 = d + 1
    BY LevelsNow DEF Levels
  <2> QED
    BY <1>3, <2>1, <2>2
<1>6. ASSUME NEW k \in Nat, k \in S PROVE k + 1 \in S
  <2>1. d + 1 + k \in Nat /\ (d + 1 + k) + 1 = d + 1 + (k + 1)
    OBVIOUS
  <2>2. Download!Within(d + 1 + (k + 1)) = Deeper(Download!Within(d + 1 + k))
    BY <2>1, LevelsNow DEF Levels
  <2>3. Deeper({}) = {}
    BY DEF Deeper, Below
  <2>4. Download!Within(d + 1 + k) = {}
    BY <1>6
  <2>5. Download!Within(d + 1 + (k + 1)) = {}
    BY <2>2, <2>3, <2>4
  <2>6. k + 1 \in Nat
    OBVIOUS
  <2> QED
    BY <2>5, <2>6
<1>7. Nat \subseteq S
  <2> HIDE DEF S
  <2> QED
    BY <1>5, <1>6, Induction
<1>8. ASSUME NEW n \in Nat PROVE Download!FilesAt(n) \subseteq Elements(listed)
  <2>1. CASE n < d
    <3>1. n \in 0 .. d - 1
      BY <2>1
    <3> QED
      BY <1>1, <3>1 DEF Sweep, Above
  <2>2. CASE n = d
    BY <1>4, <2>2
  <2>3. CASE n > d
    <3>1. n - d - 1 \in Nat /\ d + 1 + (n - d - 1) = n
      BY <2>3
    <3>2. Download!Within(n) = {}
      BY <1>7, <3>1
    <3>3. FilesIn({}) = {}
      BY DEF FilesIn, Below
    <3> QED
      BY <3>2, <3>3, LevelsNow DEF Levels
  <2> QED
    BY <2>1, <2>2, <2>3
<1> QED
  BY <1>8 DEF Complete

(* The steps that read nothing more.                                       *)
LEMMA OtherSteps ==
  ASSUME DownloadInv, UNCHANGED <<site, directories, listed, failed>>,
         DownloadFlow',
         lister' = "traversing" => lister = "traversing",
         lister' # lister => lister # "locking" /\ (lister = "traversing" => directories = <<>>)
  PROVE  DownloadInv'
<1>1. DownloadTypes /\ DownloadTypes'
  BY DEF DownloadInv, DownloadTypes, Download!SiteOK
<1>2. ASSUME ~failed' PROVE /\ Sorted(listed)'
                            /\ lister' = "traversing" => Sweeping'
                            /\ lister' \notin {"locking", "traversing"} => Complete'
  <2>1. ~failed /\ Sorted(listed)'
    BY <1>2, SameLists DEF DownloadInv
  <2>2. ASSUME lister' = "traversing" PROVE Sweeping'
    BY <2>1, <2>2, SameLists DEF DownloadInv
  <2>3. ASSUME lister' \notin {"locking", "traversing"} PROVE Complete'
    <3>1. CASE lister = "traversing"
      BY <1>1, <2>1, <2>3, <3>1, AllLevelsListed, SameLists DEF DownloadInv
    <3>2. CASE lister # "traversing"
      BY <2>1, <2>3, <3>2, SameLists DEF DownloadInv
    <3> QED
      BY <3>1, <3>2
  <2> QED
    BY <2>1, <2>2, <2>3
<1> QED
  BY <1>1, <1>2 DEF DownloadInv

(* Every step keeps the invariant.                                         *)
LEMMA DownloadNext == DownloadInv /\ [Download!Next]_downloadVars => DownloadInv'
<1> SUFFICES ASSUME DownloadInv, [Download!Next]_downloadVars PROVE DownloadInv'
  OBVIOUS
<1>1. CASE Download!CleaningThrows
  <2>1. DownloadFlow'
    BY <1>1 DEF Download!CleaningThrows, Download!Worker, DownloadInv, DownloadFlow, Found, Download!isManifest
  <2> QED
    BY <1>1, <2>1, OtherSteps DEF Download!CleaningThrows
<1>2. CASE Download!EndTraversal
  <2>1. DownloadFlow'
    BY <1>2 DEF Download!EndTraversal, Download!GoAstray, Download!Worker, DownloadInv, DownloadFlow, Found
  <2> QED
    BY <1>2, <2>1, OtherSteps DEF Download!EndTraversal, Download!GoAstray, Download!Worker
<1>3. CASE Download!Search
  <2>1. CASE Download!GoAstray
    <3>1. DownloadFlow'
      BY <1>3, <2>1 DEF Download!GoAstray, Download!Search, Download!Worker, DownloadInv, DownloadFlow, Found
    <3> QED
      BY <2>1, <3>1, OtherSteps DEF Download!GoAstray
  <2>2. CASE ~Download!GoAstray
    <3>1. PICK i \in DOMAIN listed :
            /\ Download!isManifest(listed[i]) /\ \A j \in 1 .. i - 1 : ~Download!isManifest(listed[j])
            /\ attrs' \in {<<listed[i]>>, <<"empty">>} /\ lister = "searching" /\ lister' = "ready"
            /\ UNCHANGED <<site, directories, listed, failed, mutex, is_ready, printer>>
      BY <1>3, <2>2 DEF Download!Search, Download!Worker
    <3>2. i \in 1 .. Len(listed)
      BY <3>1 DEF DownloadInv, DownloadTypes
    <3>3. Found'
      <4>1. attrs' # <<>>
        BY <3>1
      <4>2. attrs' # <<"empty">> => attrs'[1] = listed[i]
        BY <3>1
      <4> QED
        BY <3>1, <3>2, <4>1, <4>2 DEF Found, Download!isManifest
    <3>4. DownloadFlow'
      BY <3>1, <3>3 DEF DownloadInv, DownloadFlow
    <3> QED
      BY <3>1, <3>4, OtherSteps
  <2> QED
    BY <2>1, <2>2
<1>4. CASE Download!Notify
  <2>1. UNCHANGED <<site, directories, listed, attrs, failed>> /\ lister = "ready" /\ lister' = "notified" /\ is_ready'
    BY <1>4 DEF Download!Notify, Download!Worker
  <2>2. Found'
    BY <2>1 DEF DownloadInv, DownloadFlow, Found, Download!isManifest
  <2>3. DownloadFlow'
    BY <2>1, <2>2 DEF DownloadFlow
  <2> QED
    BY <2>1, <2>3, OtherSteps
<1>5. CASE Download!Finish
  <2>1. UNCHANGED <<site, directories, listed, attrs, failed, is_ready>> /\ lister = "notified"
        /\ lister' \in {"notified", "returned"} /\ (printer' = printer \/ printer' = "astray")
    BY <1>5 DEF Download!Finish, Download!GoAstray, Download!Worker
  <2>2. Found'
    BY <2>1 DEF DownloadInv, DownloadFlow, Found, Download!isManifest
  <2>3. DownloadFlow'
    BY <2>1, <2>2 DEF DownloadInv, DownloadFlow
  <2> QED
    BY <2>1, <2>3, OtherSteps
<1>6. CASE Download!Main \/ Download!Spurious \/ UNCHANGED downloadVars
  <2>1. UNCHANGED <<site, directories, listed, attrs, failed, is_ready, lister>>
        /\ (printer' = printer \/ printer' \notin {"joining", "printed"} \/ (printer' = "joining" /\ is_ready)
              \/ (printer' = "printed" /\ printer = "joining"))
    BY <1>6 DEF Download!Main, Download!MainLock, Download!MainJoin, Download!Spurious, downloadVars
  <2>2. Found' <=> Found
    BY <2>1 DEF Found, Download!isManifest
  <2>3. DownloadFlow'
    BY <2>1, <2>2 DEF DownloadInv, DownloadFlow
  <2> QED
    BY <2>1, <2>3, OtherSteps
<1> QED
  BY FirstStep, VisitStep, <1>1, <1>2, <1>3, <1>4, <1>5, <1>6 DEF Download!Next, Download!Work

(* What is printed comes from the nearest manifest of all that is there.   *)
LEMMA DownloadEnds == DownloadInv => Download!PrintedIsFound
<1> SUFFICES ASSUME DownloadInv, printer \in {"joining", "printed"}
             PROVE  /\ attrs # <<>> /\ is_ready
                    /\ ~failed =>
                         /\ Download!Range(listed) = UNION {Download!FilesAt(n) : n \in Download!Depths}
                         /\ attrs # <<"empty">> =>
                              \E n \in Download!Depths :
                                 /\ attrs[1] \in Download!FilesAt(n) /\ Download!isManifest(attrs[1])
                                 /\ \A k \in 0 .. n - 1 : \A link \in Download!FilesAt(k) : ~Download!isManifest(link)
  BY DEF Download!PrintedIsFound
<1>1. is_ready /\ lister \in {"notified", "returned"} /\ Found /\ attrs # <<>>
  BY DEF DownloadInv, DownloadFlow, Found
<1> SUFFICES ASSUME ~failed
             PROVE  /\ Download!Range(listed) = UNION {Download!FilesAt(n) : n \in Download!Depths}
                    /\ attrs # <<"empty">> =>
                         \E n \in Download!Depths :
                            /\ attrs[1] \in Download!FilesAt(n) /\ Download!isManifest(attrs[1])
                            /\ \A k \in 0 .. n - 1 : \A link \in Download!FilesAt(k) : ~Download!isManifest(link)
  BY <1>1
<1>2. DownloadTypes /\ Sorted(listed) /\ Complete
  BY <1>1 DEF DownloadInv
<1> DEFINE c == Download!Cardinality(DOMAIN site.pages)
<1>3. c \in Nat /\ Download!Depths = 0 .. c
  BY <1>2, SameFinite, FS_CardinalityType DEF DownloadTypes, Download!SiteOK, Download!Depths
<1> HIDE DEF c
<1>4. ASSUME NEW k \in Nat, NEW link \in Download!FilesAt(k)
      PROVE  \E n \in Download!Depths : link \in Download!FilesAt(n)
  <2>1. link \in FilesIn(Download!Within(k))
    BY <1>4, LevelsNow DEF Levels
  <2>2. PICK dir \in Download!Within(k) : link \in FilesIn({dir})
    BY <2>1, OneByOne
  <2>3. PICK n \in Download!Depths : dir \in Download!Within(n)
    BY <1>2, ShallowSuffices DEF DownloadTypes
  <2>4. n \in Nat
    BY <1>3, <2>3
  <2>5. link \in FilesIn(Download!Within(n))
    BY <2>2, <2>3, OneByOne
  <2>6. link \in Download!FilesAt(n)
    BY <2>4, <2>5, LevelsNow DEF Levels
  <2> QED
    BY <2>3, <2>6
<1>5. Download!Range(listed) = Elements(listed)
  BY <1>2, RangeIsElements DEF DownloadTypes
<1>6. Elements(listed) = UNION {Download!FilesAt(n) : n \in Download!Depths}
  <2>1. ASSUME NEW link \in Elements(listed) PROVE \E n \in Download!Depths : link \in Download!FilesAt(n)
    <3>1. PICK i \in 1 .. Len(listed) : link = listed[i]
      BY DEF Elements
    <3>2. \E k \in Nat : link \in Download!FilesAt(k)
      BY <1>2, <3>1 DEF Sorted
    <3> QED
      BY <1>4, <3>2
  <2>2. \A n \in Download!Depths : Download!FilesAt(n) \subseteq Elements(listed)
    BY <1>2, <1>3 DEF Complete
  <2> QED
    BY <2>1, <2>2
<1>7. ASSUME attrs # <<"empty">>
      PROVE  \E n \in Download!Depths :
                /\ attrs[1] \in Download!FilesAt(n) /\ Download!isManifest(attrs[1])
                /\ \A k \in 0 .. n - 1 : \A link \in Download!FilesAt(k) : ~Download!isManifest(link)
  <2>1. PICK i \in 1 .. Len(listed) : /\ attrs[1] = listed[i] /\ Download!isManifest(listed[i])
                                      /\ \A j \in 1 .. i - 1 : ~Download!isManifest(listed[j])
    BY <1>1, <1>7 DEF Found
  <2>2. PICK k \in Nat : /\ listed[i] \in Download!FilesAt(k)
                         /\ \A m \in 0 .. k - 1 : Download!FilesAt(m) \subseteq {listed[j] : j \in 1 .. i - 1}
    BY <1>2 DEF Sorted
  <2>3. \A m \in 0 .. k - 1 : \A link \in Download!FilesAt(m) : ~Download!isManifest(link)
    BY <2>1, <2>2
  <2>4. k \in Download!Depths
    <3>1. PICK n \in Download!Depths : listed[i] \in Download!FilesAt(n)
      BY <1>4, <2>2
    <3>2. n \notin 0 .. k - 1
      BY <2>1, <2>3, <3>1
    <3> QED
      BY <1>3, <3>1, <3>2
  <2> QED
    BY <2>1, <2>2, <2>3, <2>4
<1> QED
  BY <1>5, <1>6, <1>7

-----------------------------------------------------------------------------
(***************************************************************************)
(* All programs together.                                                  *)
(***************************************************************************)

SamplesInv == /\ SpinInv /\ ResultIsTotal
              /\ CounterInv /\ JoinerInv /\ ServerInv /\ PictureInv /\ LockInv /\ DownloadInv

(* A step of one program is none of the others.                            *)
LEMMA OneProgramSteps ==
  [SamplesNext]_samplesVars => /\ [Next]_vars /\ [Server!Next]_serverVars /\ [Picture!Next]_pictureVars
                               /\ [Counter!Next]_counterVars /\ [Joiner!Next]_joiningVars
                               /\ [Limits!Next]_lockVars /\ [Download!Next]_downloadVars
BY DEF SamplesNext, Only, samplesVars

LEMMA SamplesStart == SamplesInit => SamplesInv
<1>1. Init => ResultIsTotal
  BY DEF Init, ResultIsTotal
<1> QED
  BY <1>1, SpinStarts, CounterStarts, JoinerStarts, ServerStarts, PictureStarts, LockStarts, DownloadStarts
  DEF SamplesInit, SamplesInv

LEMMA SamplesInvNext == SamplesInv /\ [SamplesNext]_samplesVars => SamplesInv'
BY OneProgramSteps, SpinNext, TotalNext, CounterNext, JoinerNext, ServerNext, PictureNext, LockNext, DownloadNext
DEF SamplesInv

LEMMA SamplesInvHolds == SamplesSpec => []SamplesInv
BY SamplesStart, SamplesInvNext, PTL DEF SamplesSpec

(* A server that is told to stop accepts one more connection at most, and  *)
(* no port is open twice.                                                  *)
THEOREM StoppedServersStopHolds == SamplesSpec => []StoppedServersStop
<1>1. SamplesInv => StoppedServersStop
  BY ServerInvStops DEF SamplesInv, StoppedServersStop
<1> QED
  BY <1>1, SamplesInvHolds, PTL

(* No increment is lost, what main returns is the number of lock/unlock    *)
(* pairs, and no thread runs without an owner.                             *)
THEOREM ThreadsKeptHolds == SamplesSpec => []ThreadsKept
<1>1. CounterInv => Counter!NoneLost
  BY DEF CounterInv, Locking, Counter!NoneLost
<1>2. SamplesInv => ThreadsKept
  BY <1>1, NoneRunsUnowned DEF SamplesInv, ThreadsKept
<1> QED
  BY <1>2, SamplesInvHolds, PTL

(* The picture is whole, or blank after a failure that nobody noticed, and *)
(* the attributes that are printed are those of the nearest manifest, and  *)
(* all files are listed, unless a page could not be fetched.               *)
THEOREM OutputWholeHolds == SamplesSpec => []OutputWhole
<1>1. SamplesInv => OutputWhole
  BY PictureEnds, DownloadEnds DEF SamplesInv, OutputWhole
<1> QED
  BY <1>1, SamplesInvHolds, PTL

(* The limits of lockGpuFrequency() cross only when the frequency could not*)
(* be read, and then because the upper one was lowered first; success means*)
(* that both are set.  This is so for every set of frequencies, wherever   *)
(* the governor moves and whichever write fails.                           *)
THEOREM RangeStandsHolds == SamplesSpec => []RangeStands
<1>1. SamplesInv => RangeStands
  BY DEF SamplesInv, LockInv, RangeStands
<1> QED
  BY <1>1, SamplesInvHolds, PTL
=============================================================================
