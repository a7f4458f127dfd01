--------------------------- MODULE LockFreeStack ---------------------------
(***************************************************************************)
(* stack_lock_free<T> of parallel_ds_and_algos/parallel_ds: a linked list  *)
(* whose head is an atomic pointer, changed by compare_exchange_weak only. *)
(* pop() deletes the node it took, and `new' may return the address of a   *)
(* deleted node again.                                                     *)
(*                                                                         *)
(* A call is cut at each access to memory that other threads also access:  *)
(* the load of head, the read of candidate->next, which C++ evaluates      *)
(* before the exchange it is an argument of, the exchange, and the read    *)
(* and delete of the node.  A node read after it was deleted can hold any  *)
(* next pointer.                                                           *)
(***************************************************************************)
EXTENDS Naturals, Sequences, FiniteSets

CONSTANTS Pushers,  \* threads that call push()
          Poppers,  \* threads that call pop()
          Quota,    \* the number of calls each thread makes
          Cells,    \* the addresses `new Node' can return
          Null,     \* nullptr
          Stalled,  \* threads that may stop for good, wherever they are
          MaxThrows,   \* bound on the exceptions that callers of pop() catch
          MaxSpurious  \* bound on the exchanges that fail for no reason

Threads == Pushers \cup Poppers
Pointers == Cells \cup {Null}

ASSUME ThreadsAssumption ==
  /\ Pushers \cap Poppers = {}
  /\ Quota \in [Threads -> Nat]
  /\ Null \notin Cells /\ IsFiniteSet(Cells)
  /\ Stalled \subseteq Threads
  /\ MaxThrows \in Nat /\ MaxSpurious \in Nat

VARIABLES head,       \* the atomic pointer
          next, item, \* the nodes, at each address
          allocated,  \* the addresses of nodes that are not deleted
          pc,         \* where each thread is in its call
          node,       \* newNode of a pusher, candidate of a popper
          link,       \* the value of candidate->next that a popper read
          calls,      \* history: calls of each thread that have taken effect
          contents,   \* history: the addresses on the stack, the top last
          added,      \* history: every item in the order it was pushed
          removed,    \* history: every item in the order it was popped
          throws,     \* pops that threw "empty stack"
          spurious    \* exchanges that failed although head was as expected

heap == <<next, item, allocated>>
history == <<calls, contents, added, removed>>
vars == <<head, heap, pc, node, link, history, throws, spurious>>

\* The n-th node from the top, as the next pointers lead to it.
nodes[n \in 0 .. Cardinality(Cells)] ==
  IF n = 0 THEN head ELSE IF nodes[n - 1] = Null THEN Null ELSE next[nodes[n - 1]]

\* The items on the stack, the top last: what the atomic container holds.
items == LET depth == Cardinality({n \in DOMAIN nodes : nodes[n] # Null})
         IN  [i \in 1 .. depth |-> item[nodes[depth - i]]]

Atomic == INSTANCE AtomicBuffer
  WITH queue <- items, Producers <- Pushers, Consumers <- Poppers,
       Capacity <- Cardinality(Cells), TakesLast <- TRUE

Item(p, n) == <<p, n>>

Goto(t, label) == pc' = [pc EXCEPT ![t] = label]

-----------------------------------------------------------------------------
Init == /\ head = Null
        /\ next = [a \in Cells |-> Null]
        /\ item = [a \in Cells |-> <<>>]
        /\ allocated = {}
        /\ pc = [t \in Threads |-> "idle"]
        /\ node = [t \in Threads |-> Null]
        /\ link = [t \in Threads |-> Null]
        /\ calls = [t \in Threads |-> 0]
        /\ contents = <<>> /\ added = <<>> /\ removed = <<>>
        /\ throws = 0 /\ spurious = 0

\* push(): a node is made and linked to the head that was loaded.
PushLoad(p, a) == /\ pc[p] = "idle" /\ calls[p] < Quota[p]
                  /\ a \notin allocated
                  /\ allocated' = allocated \cup {a}
                  /\ item' = [item EXCEPT ![a] = Item(p, calls[p] + 1)]
                  /\ next' = [next EXCEPT ![a] = head]
                  /\ node' = [node EXCEPT ![p] = a]
                  /\ Goto(p, "push")
                  /\ UNCHANGED <<head, link, history, throws, spurious>>

\* The node is on the stack.
Pushed(p) == /\ contents' = Append(contents, node[p])
             /\ added' = Append(added, item[node[p]])
             /\ calls' = [calls EXCEPT ![p] = @ + 1]
             /\ Goto(p, "idle")
             /\ UNCHANGED <<heap, node, link, removed, throws, spurious>>

\* Mutation of PushSwap: a store instead of a compare and exchange.
PushStore(p) == /\ pc[p] = "push"
                /\ head' = node[p]
                /\ Pushed(p)

\* compare_exchange_weak(newNode->next, newNode) succeeds.
PushSwap(p) == /\ pc[p] = "push"
               /\ head = next[node[p]]
               /\ head' = node[p]
               /\ Pushed(p)

\* It fails, and newNode->next is overwritten by the current head.
PushRetry(p) == /\ pc[p] = "push"
                /\ head # next[node[p]]
                /\ next' = [next EXCEPT ![node[p]] = head]
                /\ UNCHANGED <<head, item, allocated, pc, node, link, history, throws, spurious>>

\* A candidate was loaded; pop() gives up when it is null.
Candidate(c) == /\ node' = [node EXCEPT ![c] = head]
                /\ IF head = Null
                   THEN /\ throws < MaxThrows
                        /\ throws' = throws + 1
                        /\ Goto(c, "idle")
                   ELSE /\ Goto(c, "next")
                        /\ UNCHANGED throws
                /\ UNCHANGED <<head, heap, link, history, spurious>>

PopLoad(c) == /\ pc[c] = "idle" /\ calls[c] < Quota[c]
              /\ Candidate(c)

\* Mutation of PopNext: the node is deleted before the exchange.
PopNextDeletes(c) == /\ pc[c] = "next"
                     /\ link' = [link EXCEPT ![c] = next[node[c]]]
                     /\ allocated' = allocated \ {node[c]}
                     /\ Goto(c, "pop")
                     /\ UNCHANGED <<head, next, item, node, history, throws, spurious>>

\* candidate->next
PopNext(c) == /\ pc[c] = "next"
              /\ \E a \in Pointers : /\ node[c] \in allocated => a = next[node[c]]
                                     /\ link' = [link EXCEPT ![c] = a]
              /\ Goto(c, "pop")
              /\ UNCHANGED <<head, heap, node, history, throws, spurious>>

\* The top is off the stack.
Popped(c) == /\ removed' = Append(removed, item[node[c]])
             /\ contents' = SubSeq(contents, 1, Len(contents) - 1)
             /\ calls' = [calls EXCEPT ![c] = @ + 1]
             /\ Goto(c, "data")
             /\ UNCHANGED <<heap, node, link, added, throws, spurious>>

\* Mutation of PopSwap: a store instead of a compare and exchange.
PopStore(c) == /\ pc[c] = "pop"
               /\ head' = link[c]
               /\ Popped(c)

\* Mutation of PopSwap: the node is deleted before its data is read.
PopSwapDeletes(c) == /\ pc[c] = "pop"
                     /\ head = node[c]
                     /\ head' = link[c]
                     /\ allocated' = allocated \ {node[c]}
                     /\ removed' = Append(removed, item[node[c]])
                     /\ contents' = SubSeq(contents, 1, Len(contents) - 1)
                     /\ calls' = [calls EXCEPT ![c] = @ + 1]
                     /\ Goto(c, "data")
                     /\ UNCHANGED <<next, item, node, link, added, throws, spurious>>

\* compare_exchange_weak(candidate, candidate->next) succeeds.
PopSwap(c) == /\ pc[c] = "pop"
              /\ head = node[c]
              /\ head' = link[c]
              /\ Popped(c)

\* Mutation of PopRetry: candidate is not replaced by the current head.
PopRetryStale(c) == /\ pc[c] = "pop"
                    /\ head # node[c]
                    /\ Goto(c, "next")
                    /\ UNCHANGED <<head, heap, node, link, history, throws, spurious>>

\* It fails, and candidate becomes the current head.
PopRetry(c) == /\ pc[c] = "pop"
               /\ head # node[c]
               /\ Candidate(c)

\* It fails although head is the candidate, as a weak exchange may.
PopSpurious(c) == /\ pc[c] = "pop"
                  /\ head = node[c]
                  /\ spurious < MaxSpurious
                  /\ spurious' = spurious + 1
                  /\ Goto(c, "next")
                  /\ UNCHANGED <<head, heap, node, link, history, throws>>

\* T tmp = candidate->data; delete candidate.
PopData(c) == /\ pc[c] = "data"
              /\ allocated' = allocated \ {node[c]}
              /\ Goto(c, "idle")
              /\ UNCHANGED <<head, next, item, node, link, history, throws, spurious>>

Push(p) == PushSwap(p) \/ PushRetry(p) \/ \E a \in Cells : PushLoad(p, a)
Pop(c)  == PopLoad(c) \/ PopNext(c) \/ PopSwap(c) \/ PopRetry(c) \/ PopData(c)
Step(t) == (t \in Pushers /\ Push(t)) \/ (t \in Poppers /\ Pop(t))

Done(t) == pc[t] = "idle" /\ calls[t] = Quota[t]

Finished == (\A t \in Threads : Done(t)) /\ UNCHANGED vars

Next == \/ \E t \in Threads : Step(t)
        \/ \E c \in Poppers : PopSpurious(c)
        \/ Finished

Spec == Init /\ [][Next]_vars

\* Every thread is scheduled, but for those that stop for good.
FairSpec == Spec /\ \A t \in Threads \ Stalled : WF_vars(Step(t))

-----------------------------------------------------------------------------
Items == Pushers \X Nat

TypeOK == /\ head \in Pointers
          /\ next \in [Cells -> Pointers]
          /\ item \in [Cells -> Items \cup {<<>>}]
          /\ allocated \subseteq Cells
          /\ pc \in [Threads -> {"idle", "push", "next", "pop", "data"}]
          /\ node \in [Threads -> Pointers] /\ link \in [Threads -> Pointers]
          /\ calls \in [Threads -> Nat]
          /\ contents \in Seq(Cells)
          /\ added \in Seq(Items) /\ removed \in Seq(Items)
          /\ throws \in 0 .. MaxThrows /\ spurious \in 0 .. MaxSpurious

Below(i) == IF i = 1 THEN Null ELSE contents[i - 1]
Top == IF contents = <<>> THEN Null ELSE contents[Len(contents)]

\* One thread at most calls pop().
LonePopper == \A c, d \in Poppers : c = d

(* The linked list is the stack: from head on, the next pointers lead      *)
(* through the nodes that were pushed and not popped, newest first, and    *)
(* none of them is deleted.  An exchange whose expected value came back    *)
(* with another meaning (ABA) breaks this.                                 *)
ListIsContents == /\ head = Top
                  /\ \A i \in DOMAIN contents : /\ contents[i] \in allocated
                                                /\ next[contents[i]] = Below(i)

(* A lone popper never reads or deletes a node that is already deleted,    *)
(* whatever the pushers do with head in between.                           *)
NoUseAfterDelete ==
  LonePopper =>
     \A c \in Poppers : pc[c] \in {"next", "data"} => node[c] \in allocated

(* A value that pop() will return is the one that left the stack last, and *)
(* is still in its node although later pushes can have reused others.      *)
PopReturnsTop ==
  LonePopper =>
     \A c \in Poppers : pc[c] = "data" => item[node[c]] = removed[Len(removed)]

(* No thread waits for another: whoever stops, even in the middle of a     *)
(* push, the calls of the others complete.                                 *)
OthersFinish == \A t \in Threads \ Stalled : <>[]Done(t)

\* With one popper the list implements the atomic stack.
ImplementsAtomic == Atomic!ASafeSpec

(* What test_bench.cpp does: every thread with an odd number calls pop()   *)
(* (line 15), so that several do.  None of them may touch a deleted node.  *)
PoppersShareSafely ==
  \A c \in Poppers : pc[c] \in {"next", "data"} => node[c] \in allocated
=============================================================================
