---------------------------- MODULE AtomicBuffer ----------------------------
(***************************************************************************)
(* What class Buffer promises its callers: a bounded container whose add   *)
(* and remove take effect at one instant.  Module Buffer, which has the    *)
(* mutex and the condition variable, is shown to implement it, and the     *)
(* robot simulator of module RobotService is built on it.                  *)
(***************************************************************************)
EXTENDS BufferDeque

CONSTANTS Producers,  \* threads that call add()
          Consumers,  \* threads that call remove()
          Quota       \* the number of calls each thread makes

VARIABLES queue,      \* buffer_
          calls,      \* calls of each thread that have taken effect
          added,      \* every item, in the order it was pushed
          removed     \* every item, in the order it was popped

avars == <<queue, calls, added, removed>>

\* The n-th item of producer p.
Item(p, n) == <<p, n>>

-----------------------------------------------------------------------------
AInit == /\ queue = <<>>
         /\ calls = [t \in Producers \cup Consumers |-> 0]
         /\ added = <<>>
         /\ removed = <<>>

Add(p) == /\ calls[p] < Quota[p]
          /\ HasRoom(queue)
          /\ queue' = Append(queue, Item(p, calls[p] + 1))
          /\ added' = Append(added, Item(p, calls[p] + 1))
          /\ calls' = [calls EXCEPT ![p] = @ + 1]
          /\ UNCHANGED removed

Remove(c) == /\ calls[c] < Quota[c]
             /\ HasItem(queue)
             /\ removed' = Append(removed, Taken(queue))
             /\ queue' = Rest(queue)
             /\ calls' = [calls EXCEPT ![c] = @ + 1]
             /\ UNCHANGED added

ANext == \/ \E p \in Producers : Add(p)
         \/ \E c \in Consumers : Remove(c)

ASafeSpec == AInit /\ [][ANext]_avars

(* Whenever the container has room and a call to add() is outstanding some *)
(* call takes effect, and the same for remove().                           *)
ASpec == /\ ASafeSpec
         /\ WF_avars(\E p \in Producers : Add(p))
         /\ WF_avars(\E c \in Consumers : Remove(c))
=============================================================================
