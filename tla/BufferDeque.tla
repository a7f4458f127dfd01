---------------------------- MODULE BufferDeque -----------------------------
(* The deque inside class Buffer: its limit, and which end remove() takes. *)
EXTENDS Naturals, Sequences

CONSTANTS Capacity,   \* size_, 128 in the code
          TakesLast   \* TRUE: remove() takes back() (rtp); FALSE: front()

\* The wait predicates of add() and remove().
HasRoom(q) == Len(q) < Capacity
HasItem(q) == q # <<>>

\* The item remove() takes, and what it leaves behind.
Taken(q) == IF TakesLast THEN q[Len(q)] ELSE Head(q)
Rest(q)  == IF TakesLast THEN SubSeq(q, 1, Len(q) - 1) ELSE Tail(q)
=============================================================================
