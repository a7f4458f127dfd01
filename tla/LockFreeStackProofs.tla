------------------------ MODULE LockFreeStackProofs ------------------------
(***************************************************************************)
(* The lock-free stack with any number of pushers, any supply of addresses *)
(* and one popper.                                                         *)
(*                                                                         *)
(* What makes the exchange of pop() sound is that only the popper takes    *)
(* nodes away: its candidate stays on the stack while others push above    *)
(* it, so the next pointer it read stays right, and when head is the       *)
(* candidate again nothing is above it.  The invariant therefore follows   *)
(* a node through its life: pending and private, on the stack, and in the  *)
(* hands of the popper.                                                    *)
(***************************************************************************)
EXTENDS LockFreeStack, SequenceTheorems, FiniteSetTheorems, TLAPS

OnStack(a) == \E i \in DOMAIN contents : contents[i] = a

Distinct == \A i, j \in DOMAIN contents : contents[i] = contents[j] => i = j

Roles == /\ \A p \in Pushers : pc[p] \in {"idle", "push"}
         /\ \A c \in Poppers : pc[c] \in {"idle", "next", "pop", "data"}

\* Every node that is not deleted has its item.
ItemsKnown == \A a \in allocated : item[a] \in Items

\* The node of a push in progress is its pusher's alone.
Pending == \A p \in Pushers : pc[p] = "push" =>
             /\ node[p] \in allocated /\ ~OnStack(node[p])
             /\ \A q \in Pushers : pc[q] = "push" /\ node[q] = node[p] => p = q

\* A candidate stays on the stack until its popper takes it.
CandidateOf(c) == /\ pc[c] \in {"next", "pop"} => OnStack(node[c])
                  /\ pc[c] = "pop" => link[c] = next[node[c]]

\* The node that was taken belongs to the popper.
HandOf(c) == pc[c] = "data" =>
               /\ node[c] \in allocated /\ ~OnStack(node[c])
               /\ \A p \in Pushers : pc[p] = "push" => node[p] # node[c]
               /\ removed # <<>> /\ item[node[c]] = removed[Len(removed)]

Candidates == \A c \in Poppers : CandidateOf(c)
InHand == \A c \in Poppers : HandOf(c)

IInv == /\ TypeOK /\ Roles /\ Distinct /\ ListIsContents /\ ItemsKnown
        /\ Pending /\ Candidates /\ InHand

-----------------------------------------------------------------------------
LEMMA InitIInv == Init => IInv
<1> SUFFICES ASSUME Init PROVE IInv
  OBVIOUS
<1> USE DEF Init
<1>1. TypeOK
  BY ThreadsAssumption, EmptySeq DEF TypeOK, Pointers, Threads
<1>2. DOMAIN contents = {}
  BY EmptySeq
<1>3. Roles /\ ItemsKnown /\ Pending /\ Candidates /\ InHand
  BY DEF Roles, ItemsKnown, Pending, Candidates, CandidateOf, InHand, HandOf, Threads
<1>4. Distinct /\ ListIsContents
  BY <1>2 DEF Distinct, ListIsContents, Top
<1> QED
  BY <1>1, <1>3, <1>4 DEF IInv

(* What is on the stack, and what its top is.                              *)
LEMMA StackFacts ==
  ASSUME IInv
  PROVE  /\ Len(contents) \in Nat /\ DOMAIN contents = 1 .. Len(contents)
         /\ \A a : OnStack(a) => a \in allocated /\ a \in Cells /\ a # Null
         /\ head # Null => OnStack(head) /\ Len(contents) # 0 /\ head = contents[Len(contents)]
<1>1. contents \in Seq(Cells)
  BY DEF IInv, TypeOK
<1>2. Len(contents) \in Nat /\ DOMAIN contents = 1 .. Len(contents)
  BY <1>1, LenProperties
<1>3. \A a : OnStack(a) => a \in allocated /\ a \in Cells /\ a # Null
  BY ThreadsAssumption DEF OnStack, IInv, ListIsContents, TypeOK
<1>4. contents # <<>> => Len(contents) # 0
  BY <1>1, EmptySeq
<1>5. head # Null => OnStack(head) /\ Len(contents) # 0 /\ head = contents[Len(contents)]
  BY <1>2, <1>4 DEF IInv, ListIsContents, Top, OnStack
<1> QED
  BY <1>2, <1>3, <1>5

(* Making a node: its address was nobody's.                                *)
LEMMA PushLoadStep ==
  ASSUME IInv, NEW p \in Pushers, NEW a \in Cells, PushLoad(p, a)
  PROVE  IInv'
<1> USE DEF PushLoad, Goto, history
<1>1. UNCHANGED <<contents, head, calls, added, removed, throws, spurious, link>> /\ a \notin allocated
  OBVIOUS
<1>2. /\ next' = [next EXCEPT ![a] = head] /\ item' = [item EXCEPT ![a] = Item(p, calls[p] + 1)]
      /\ node' = [node EXCEPT ![p] = a] /\ pc' = [pc EXCEPT ![p] = "push"]
      /\ allocated' = allocated \cup {a}
  OBVIOUS
<1> HIDE DEF PushLoad, Goto, history
<1>3. p \in Threads /\ Item(p, calls[p] + 1) \in Items
  BY DEF IInv, TypeOK, Threads, Item, Items
<1>4. \A x : OnStack(x)' = OnStack(x)
  BY <1>1 DEF OnStack
<1>5. ~OnStack(a)
  BY <1>1, StackFacts
<1>6. TypeOK'
  BY <1>1, <1>2, <1>3 DEF IInv, TypeOK, Pointers
<1>7. Roles' /\ Distinct'
  BY <1>1, <1>2, ThreadsAssumption DEF IInv, TypeOK, Threads, Roles, Distinct
<1>8. ListIsContents'
  <2>1. Top' = Top /\ \A i : Below(i)' = Below(i)
    BY <1>1 DEF Top, Below
  <2>2. \A i \in DOMAIN contents : contents[i] # a /\ contents[i] \in Cells
    BY <1>5, StackFacts DEF OnStack
  <2> QED
    BY <1>1, <1>2, <2>1, <2>2 DEF IInv, ListIsContents, TypeOK
<1>9. ItemsKnown'
  BY <1>2, <1>3 DEF IInv, TypeOK, ItemsKnown
<1>10. Pending'
  BY <1>1, <1>2, <1>3, <1>4, <1>5 DEF IInv, TypeOK, Pending, Threads
<1>11. Candidates'
  <2> SUFFICES ASSUME NEW c \in Poppers
               PROVE  CandidateOf(c)'
    BY DEF Candidates
  <2>1. pc'[c] = pc[c] /\ node'[c] = node[c] /\ link'[c] = link[c]
    BY <1>1, <1>2, ThreadsAssumption DEF IInv, TypeOK, Threads
  <2>2. OnStack(node[c]) => next'[node[c]] = next[node[c]]
    BY <1>2, <1>5, StackFacts DEF IInv, TypeOK
  <2>3. CandidateOf(c)
    BY DEF IInv, Candidates
  <2> QED
    BY <1>1, <2>1, <2>2, <2>3 DEF CandidateOf, OnStack
<1>12. InHand'
  <2> SUFFICES ASSUME NEW c \in Poppers, pc'[c] = "data"
               PROVE  HandOf(c)'
    BY DEF InHand, HandOf
  <2>1. pc[c] = "data" /\ node'[c] = node[c] /\ HandOf(c)
    BY <1>2, ThreadsAssumption DEF IInv, TypeOK, Threads, InHand
  <2>2. node[c] # a /\ node[c] \in Cells
    BY <1>1, <2>1 DEF IInv, HandOf, TypeOK
  <2>3. \A q \in Pushers : pc'[q] = "push" => node'[q] # node[c]
    BY <1>2, <2>1, <2>2 DEF IInv, HandOf, TypeOK, Threads
  <2>4. item'[node[c]] = item[node[c]]
    BY <1>2, <2>2 DEF IInv, TypeOK
  <2> QED
    BY <1>1, <1>2, <2>1, <2>3, <2>4 DEF HandOf, OnStack
<1> QED
  BY <1>6, <1>7, <1>8, <1>9, <1>10, <1>11, <1>12 DEF IInv

(* The exchange of push() succeeds: the pending node becomes the top.      *)
LEMMA PushSwapStep ==
  ASSUME IInv, NEW p \in Pushers, PushSwap(p)
  PROVE  IInv'
<1> DEFINE n == node[p]
<1>1. /\ pc[p] = "push" /\ head = next[n] /\ head' = n
      /\ contents' = Append(contents, n) /\ added' = Append(added, item[n])
      /\ calls' = [calls EXCEPT ![p] = @ + 1] /\ pc' = [pc EXCEPT ![p] = "idle"]
      /\ UNCHANGED <<next, item, allocated, node, link, removed, throws, spurious>>
  BY DEF PushSwap, Pushed, Goto, heap
<1>2. /\ p \in Threads /\ n \in allocated /\ n \in Cells /\ ~OnStack(n) /\ item[n] \in Items
      /\ \A q \in Pushers : pc[q] = "push" /\ node[q] = n => p = q
  BY <1>1 DEF IInv, Pending, ItemsKnown, TypeOK, Threads
<1> HIDE DEF n
<1>3. /\ contents \in Seq(Cells) /\ Len(contents) \in Nat
      /\ DOMAIN contents = 1 .. Len(contents)
  BY StackFacts DEF IInv, TypeOK
<1>4. /\ contents' \in Seq(Cells) /\ Len(contents') = Len(contents) + 1
      /\ DOMAIN contents' = 1 .. Len(contents) + 1
      /\ contents'[Len(contents) + 1] = n
      /\ \A i \in 1 .. Len(contents) : contents'[i] = contents[i]
  BY <1>1, <1>2, <1>3, AppendProperties
<1>5. \A x : (\E i \in DOMAIN contents' : contents'[i] = x) <=> OnStack(x) \/ x = n
  <2>1. Len(contents) + 1 \in DOMAIN contents'
    BY <1>3, <1>4
  <2>2. \A i \in DOMAIN contents' : i \in DOMAIN contents \/ i = Len(contents) + 1
    BY <1>3, <1>4
  <2>3. DOMAIN contents \subseteq DOMAIN contents'
    BY <1>3, <1>4
  <2> QED
    BY <1>3, <1>4, <2>1, <2>2, <2>3 DEF OnStack
<1>6. TypeOK'
  <2>1. added' \in Seq(Items)
    BY <1>1, <1>2, AppendProperties DEF IInv, TypeOK
  <2> QED
    BY <1>1, <1>2, <1>4, <2>1 DEF IInv, TypeOK, Pointers
<1>7. Roles' /\ ItemsKnown'
  BY <1>1, <1>2, ThreadsAssumption DEF IInv, TypeOK, Threads, Roles, ItemsKnown
<1>8. Distinct'
  <2> SUFFICES ASSUME NEW i \in DOMAIN contents', NEW j \in DOMAIN contents',
                      contents'[i] = contents'[j]
               PROVE  i = j
    BY DEF Distinct
  <2>1. \A k \in 1 .. Len(contents) : contents'[k] # n
    BY <1>2, <1>3, <1>4 DEF OnStack
  <2>2. CASE i = Len(contents) + 1 \/ j = Len(contents) + 1
    BY <1>3, <1>4, <2>1, <2>2
  <2>3. CASE i # Len(contents) + 1 /\ j # Len(contents) + 1
    BY <1>3, <1>4, <2>3 DEF IInv, Distinct
  <2> QED
    BY <2>2, <2>3
<1>9. ListIsContents'
  <2>1. head' = Top'
    <3>1. contents' # <<>>
      BY <1>3, <1>4, EmptySeq
    <3> QED
      BY <1>1, <1>4, <3>1 DEF Top
  <2>2. ASSUME NEW i \in DOMAIN contents'
        PROVE  contents'[i] \in allocated' /\ next'[contents'[i]] = Below(i)'
    <3>1. CASE i = Len(contents) + 1
      <4>1. Below(i)' = Top
        BY <1>3, <1>4, <3>1, EmptySeq DEF Below, Top
      <4> QED
        BY <1>1, <1>2, <1>4, <3>1, <4>1 DEF IInv, ListIsContents
    <3>2. CASE i \in 1 .. Len(contents)
      <4>1. Below(i)' = Below(i)
        BY <1>3, <1>4, <3>2 DEF Below
      <4> QED
        BY <1>1, <1>3, <1>4, <3>2, <4>1 DEF IInv, ListIsContents
    <3> QED
      BY <1>3, <1>4, <3>1, <3>2
  <2> QED
    BY <2>1, <2>2 DEF ListIsContents
<1>10. Pending'
  BY <1>1, <1>2, <1>5 DEF IInv, TypeOK, Pending, Threads, OnStack
<1>11. Candidates'
  <2> SUFFICES ASSUME NEW c \in Poppers PROVE CandidateOf(c)'
    BY DEF Candidates
  <2>1. pc'[c] = pc[c] /\ CandidateOf(c)
    BY <1>1, ThreadsAssumption DEF IInv, TypeOK, Threads, Candidates
  <2> QED
    BY <1>1, <1>5, <2>1 DEF CandidateOf, OnStack
<1>12. InHand'
  <2> SUFFICES ASSUME NEW c \in Poppers, pc'[c] = "data" PROVE HandOf(c)'
    BY DEF InHand, HandOf
  <2>1. pc[c] = "data" /\ HandOf(c)
    BY <1>1, ThreadsAssumption DEF IInv, TypeOK, Threads, InHand
  <2>2. node[c] # n
    BY <1>1, <2>1 DEF HandOf, n
  <2>3. \A q \in Pushers : pc'[q] = "push" => pc[q] = "push"
    BY <1>1 DEF IInv, TypeOK, Threads
  <2> QED
    BY <1>1, <1>5, <2>1, <2>2, <2>3 DEF HandOf, OnStack
<1> QED
  BY <1>6, <1>7, <1>8, <1>9, <1>10, <1>11, <1>12 DEF IInv

(* It fails: the pending node, which nobody else sees, is linked anew.     *)
LEMMA PushRetryStep ==
  ASSUME IInv, NEW p \in Pushers, PushRetry(p)
  PROVE  IInv'
<1>1. /\ pc[p] = "push" /\ next' = [next EXCEPT ![node[p]] = head]
      /\ UNCHANGED <<head, item, allocated, pc, node, link, calls, contents, added, removed, throws, spurious>>
  BY DEF PushRetry, history
<1>2. ~OnStack(node[p]) /\ node[p] \in Cells
  BY <1>1 DEF IInv, Pending, TypeOK
<1>3. \A a \in Cells : OnStack(a) => next'[a] = next[a]
  BY <1>1, <1>2 DEF IInv, TypeOK
<1>4. TypeOK' /\ Roles' /\ Distinct' /\ ItemsKnown'
  BY <1>1 DEF IInv, TypeOK, Roles, Distinct, ItemsKnown
<1>5. Pending' /\ InHand'
  BY <1>1 DEF IInv, Pending, InHand, HandOf, OnStack
<1>6. ListIsContents'
  <2>1. \A i \in DOMAIN contents : OnStack(contents[i]) /\ contents[i] \in Cells
    BY StackFacts DEF OnStack
  <2> QED
    BY <1>1, <1>3, <2>1 DEF IInv, ListIsContents, Top, Below
<1>7. Candidates'
  <2>1. \A a : OnStack(a)' = OnStack(a)
    BY <1>1 DEF OnStack
  <2>2. \A c \in Poppers : OnStack(node[c]) => next'[node[c]] = next[node[c]]
    BY <1>3, StackFacts
  <2> QED
    BY <1>1, <2>1, <2>2 DEF IInv, Candidates, CandidateOf, OnStack
<1> QED
  BY <1>4, <1>5, <1>6, <1>7 DEF IInv

(* The steps of pop() that only look: a new candidate, its next pointer,   *)
(* an exchange that fails for no reason.                                   *)
LEMMA PopLookStep ==
  ASSUME IInv, NEW c \in Poppers,
         PopLoad(c) \/ PopNext(c) \/ PopRetry(c) \/ PopSpurious(c)
  PROVE  IInv'
<1>1. /\ UNCHANGED <<head, next, item, allocated, calls, contents, added, removed>>
      /\ pc' \in [Threads -> {"idle", "push", "next", "pop", "data"}]
      /\ node' \in [Threads -> Pointers] /\ link' \in [Threads -> Pointers]
      /\ \A t \in Threads \ {c} : pc'[t] = pc[t] /\ node'[t] = node[t] /\ link'[t] = link[t]
      /\ throws' \in 0 .. MaxThrows /\ spurious' \in 0 .. MaxSpurious
  <2> USE DEF Goto, heap, history, IInv, TypeOK, Threads
  <2>1. CASE PopLoad(c) \/ PopRetry(c)
    <3>1. throws' \in 0 .. MaxThrows /\ spurious' \in 0 .. MaxSpurious
      BY <2>1, ThreadsAssumption DEF PopLoad, PopRetry, Candidate
    <3> QED
      BY <2>1, <3>1 DEF PopLoad, PopRetry, Candidate, Pointers
  <2>2. CASE PopNext(c)
    BY <2>2 DEF PopNext
  <2>3. CASE PopSpurious(c)
    BY <2>3, ThreadsAssumption DEF PopSpurious
  <2> QED
    BY <2>1, <2>2, <2>3
<1>2. /\ pc'[c] \in {"idle", "next", "pop"}
      /\ pc'[c] \in {"next", "pop"} => OnStack(node'[c])
      /\ pc'[c] = "pop" => link'[c] = next[node'[c]]
  <2>1. CASE PopLoad(c) \/ PopRetry(c)
    BY <2>1, StackFacts DEF PopLoad, PopRetry, Candidate, Goto, IInv, TypeOK, Threads
  <2>2. CASE PopNext(c)
    <3>1. OnStack(node[c]) /\ node[c] \in allocated
      BY <2>2, StackFacts DEF PopNext, IInv, Candidates, CandidateOf
    <3> QED
      BY <2>2, <3>1 DEF PopNext, Goto, IInv, TypeOK, Threads
  <2>3. CASE PopSpurious(c)
    BY <2>3 DEF PopSpurious, Goto, IInv, TypeOK, Threads, Candidates, CandidateOf
  <2> QED
    BY <2>1, <2>2, <2>3
<1>3. TypeOK' /\ Distinct' /\ ListIsContents' /\ ItemsKnown'
  BY <1>1 DEF IInv, TypeOK, Distinct, ListIsContents, Top, Below, ItemsKnown
<1>4. \A p \in Pushers : pc'[p] = pc[p] /\ node'[p] = node[p]
  BY <1>1, ThreadsAssumption DEF Threads
<1>5. Roles'
  BY <1>1, <1>2, <1>4 DEF IInv, Roles, Threads
<1>6. Pending'
  BY <1>1, <1>4 DEF IInv, Pending, OnStack
<1>7. ASSUME NEW d \in Poppers
      PROVE  CandidateOf(d)' /\ HandOf(d)'
  <2>1. CASE d = c
    BY <1>1, <1>2, <2>1 DEF CandidateOf, HandOf, OnStack
  <2>2. CASE d # c
    <3>1. pc'[d] = pc[d] /\ node'[d] = node[d] /\ link'[d] = link[d]
      BY <1>1, <2>2 DEF Threads
    <3> QED
      BY <1>1, <1>4, <3>1 DEF IInv, Candidates, InHand, CandidateOf, HandOf, OnStack
  <2> QED
    BY <2>1, <2>2
<1> QED
  BY <1>3, <1>5, <1>6, <1>7 DEF IInv, Candidates, InHand

(* The exchange of pop() succeeds: head was the candidate, so the          *)
(* candidate is the top, and the link that was read leads below it.        *)
LEMMA PopSwapStep ==
  ASSUME LonePopper, IInv, NEW c \in Poppers, PopSwap(c)
  PROVE  IInv'
<1> DEFINE n == node[c]
<1>1. /\ pc[c] = "pop" /\ head = n /\ head' = link[c]
      /\ contents' = SubSeq(contents, 1, Len(contents) - 1)
      /\ removed' = Append(removed, item[n])
      /\ calls' = [calls EXCEPT ![c] = @ + 1] /\ pc' = [pc EXCEPT ![c] = "data"]
      /\ UNCHANGED <<next, item, allocated, node, link, added, throws, spurious>>
  BY DEF PopSwap, Popped, Goto, heap
<1>2. c \in Threads /\ OnStack(n) /\ n \in allocated /\ n \in Cells /\ n # Null
  BY <1>1, StackFacts DEF IInv, Candidates, CandidateOf, Threads
<1>3. link[c] = next[n] /\ item[n] \in Items
  BY <1>1, <1>2 DEF IInv, Candidates, CandidateOf, ItemsKnown
<1> HIDE DEF n
<1>4. /\ Len(contents) \in Nat \ {0} /\ n = contents[Len(contents)]
      /\ DOMAIN contents = 1 .. Len(contents) /\ contents \in Seq(Cells) /\ contents # <<>>
  BY <1>1, <1>2, StackFacts, EmptySeq DEF IInv, TypeOK
<1>5. /\ contents' \in Seq(Cells) /\ Len(contents') = Len(contents) - 1
      /\ \A i \in 1 .. Len(contents) - 1 : contents'[i] = contents[i]
  <2>1. \A i \in 1 .. Len(contents) - 1 : contents[i] \in Cells
    BY <1>4, ElementOfSeq
  <2>2. LET r == SubSeq(contents, 1, Len(contents) - 1)
        IN  /\ r \in Seq(Cells) /\ Len(r) = Len(contents) - 1
            /\ \A i \in 1 .. Len(contents) - 1 : r[i] = contents[i]
    BY <1>4, <2>1, SubSeqProperties
  <2> QED
    BY <1>1, <2>1, <2>2
<1>6. DOMAIN contents' = 1 .. Len(contents) - 1
  BY <1>5, LenProperties
<1>7. \A x : (\E i \in DOMAIN contents' : contents'[i] = x) <=> OnStack(x) /\ x # n
  <2>1. \A i \in DOMAIN contents' : i \in DOMAIN contents /\ i # Len(contents)
    BY <1>4, <1>6
  <2>2. \A i \in DOMAIN contents : i # Len(contents) => i \in DOMAIN contents'
    BY <1>4, <1>6
  <2>3. \A i \in DOMAIN contents : contents[i] = n <=> i = Len(contents)
    BY <1>4 DEF IInv, Distinct
  <2>4. \A i \in DOMAIN contents' : contents'[i] = contents[i]
    BY <1>5, <1>6
  <2> QED
    BY <2>1, <2>2, <2>3, <2>4 DEF OnStack
<1>8. /\ removed' \in Seq(Items) /\ removed' # <<>>
      /\ removed'[Len(removed')] = item[n]
  <2>1. removed \in Seq(Items)
    BY DEF IInv, TypeOK
  <2>2. PICK e \in Items : e = item[n]
    BY <1>3
  <2> QED
    BY <1>1, <2>1, <2>2, AppendProperties
<1>9. TypeOK'
  BY <1>1, <1>2, <1>5, <1>8 DEF IInv, TypeOK
<1>10. Roles' /\ ItemsKnown'
  BY <1>1, <1>2, ThreadsAssumption DEF IInv, TypeOK, Threads, Roles, ItemsKnown
<1>11. Distinct'
  BY <1>4, <1>5, <1>6 DEF IInv, Distinct
<1>12. ListIsContents'
  <2>1. next[n] = Below(Len(contents))
    BY <1>4 DEF IInv, ListIsContents
  <2>2. Top' = Below(Len(contents))
    <3>1. CASE Len(contents) = 1
      BY <1>5, <3>1, EmptySeq DEF Top, Below
    <3>2. CASE Len(contents) # 1
      <4>1. contents' # <<>> /\ contents'[Len(contents')] = contents[Len(contents) - 1]
        BY <1>4, <1>5, <3>2, EmptySeq
      <4> QED
        BY <1>4, <3>2, <4>1 DEF Top, Below
    <3> QED
      BY <3>1, <3>2
  <2>3. ASSUME NEW i \in DOMAIN contents'
        PROVE  contents'[i] \in allocated' /\ next'[contents'[i]] = Below(i)'
    <3>1. i \in DOMAIN contents /\ contents'[i] = contents[i] /\ Below(i)' = Below(i)
      BY <1>4, <1>5, <1>6 DEF Below
    <3> QED
      BY <1>1, <3>1 DEF IInv, ListIsContents
  <2> QED
    BY <1>1, <1>3, <2>1, <2>2, <2>3 DEF ListIsContents
<1>13. \A p \in Pushers : pc'[p] = pc[p]
  BY <1>1, ThreadsAssumption DEF IInv, TypeOK, Threads
<1>14. Pending'
  BY <1>1, <1>7, <1>13 DEF IInv, Pending, OnStack
<1>15. pc'[c] = "data" /\ \A d \in Poppers : d = c
  BY <1>1, <1>2 DEF IInv, TypeOK, LonePopper
<1>16. Candidates'
  BY <1>15 DEF Candidates, CandidateOf
<1>17. InHand'
  <2>1. \A p \in Pushers : pc'[p] = "push" => node[p] # n
    BY <1>2, <1>13 DEF IInv, Pending
  <2> QED
    BY <1>1, <1>2, <1>7, <1>8, <1>15, <2>1 DEF InHand, HandOf, OnStack, n
<1> QED
  BY <1>9, <1>10, <1>11, <1>12, <1>14, <1>16, <1>17 DEF IInv

(* The node is deleted: it is neither on the stack nor pending.            *)
LEMMA PopDataStep ==
  ASSUME LonePopper, IInv, NEW c \in Poppers, PopData(c)
  PROVE  IInv'
<1>1. /\ pc[c] = "data" /\ allocated' = allocated \ {node[c]} /\ pc' = [pc EXCEPT ![c] = "idle"]
      /\ UNCHANGED <<head, next, item, node, link, calls, contents, added, removed, throws, spurious>>
  BY DEF PopData, Goto, history
<1>2. HandOf(c) /\ c \in Threads /\ \A d \in Poppers : d = c
  BY DEF IInv, InHand, Threads, LonePopper
<1>3. pc'[c] = "idle" /\ \A p \in Pushers : pc'[p] = pc[p]
  BY <1>1, <1>2, ThreadsAssumption DEF IInv, TypeOK, Threads
<1>4. TypeOK' /\ Roles' /\ Distinct' /\ ItemsKnown'
  BY <1>1, <1>2, <1>3 DEF IInv, TypeOK, Roles, Distinct, ItemsKnown
<1>5. ListIsContents'
  BY <1>1, <1>2 DEF IInv, ListIsContents, Top, Below, HandOf, OnStack
<1>6. Pending'
  BY <1>1, <1>2, <1>3 DEF IInv, Pending, HandOf, OnStack
<1>7. Candidates' /\ InHand'
  BY <1>2, <1>3 DEF Candidates, CandidateOf, InHand, HandOf
<1> QED
  BY <1>4, <1>5, <1>6, <1>7 DEF IInv

LEMMA NextIInv == LonePopper /\ IInv /\ [Next]_vars => IInv'
<1> SUFFICES ASSUME LonePopper, IInv, [Next]_vars PROVE IInv'
  OBVIOUS
<1>1. CASE UNCHANGED vars
  BY <1>1 DEF vars, heap, history, IInv, TypeOK, Roles, Distinct, ListIsContents, Top, Below,
     ItemsKnown, Pending, Candidates, CandidateOf, InHand, HandOf, OnStack
<1>2. ASSUME NEW p \in Pushers, Push(p) PROVE IInv'
  BY <1>2, PushLoadStep, PushSwapStep, PushRetryStep DEF Push
<1>3. ASSUME NEW c \in Poppers, Pop(c) \/ PopSpurious(c) PROVE IInv'
  BY <1>3, PopLookStep, PopSwapStep, PopDataStep DEF Pop
<1> QED
  BY <1>1, <1>2, <1>3 DEF Next, Step, Finished

-----------------------------------------------------------------------------
(* The life of the nodes under a lone popper.                              *)
THEOREM InductiveInvariant ==
  ASSUME LonePopper
  PROVE  Spec => []IInv
<1>1. IInv /\ [Next]_vars => IInv'
  BY NextIInv
<1> QED
  BY <1>1, InitIInv, PTL DEF Spec

(* The linked list of the code is the stack: no exchange succeeds on a     *)
(* head that came back with another meaning.                               *)
THEOREM ListIsContentsHolds ==
  ASSUME LonePopper
  PROVE  Spec => []ListIsContents
<1>1. IInv => ListIsContents
  BY DEF IInv
<1> QED
  BY <1>1, InductiveInvariant, PTL

(* A lone popper touches only nodes that are not deleted.                  *)
THEOREM NoUseAfterDeleteHolds ==
  ASSUME LonePopper
  PROVE  Spec => []NoUseAfterDelete
<1>1. IInv => NoUseAfterDelete
  BY StackFacts DEF IInv, Candidates, CandidateOf, InHand, HandOf, NoUseAfterDelete
<1> QED
  BY <1>1, InductiveInvariant, PTL

(* It returns the item that it took off the stack.                         *)
THEOREM PopReturnsTopHolds ==
  ASSUME LonePopper
  PROVE  Spec => []PopReturnsTop
<1>1. IInv => PopReturnsTop
  BY DEF IInv, InHand, HandOf, PopReturnsTop
<1> QED
  BY <1>1, InductiveInvariant, PTL
-----------------------------------------------------------------------------
(* The refinement.  Its mapping follows the next pointers from head, so    *)
(* the list has to be shown to spell out the contents first.               *)

\* The items on the stack, by way of the history.
Listed == [i \in 1 .. Len(contents) |-> item[contents[i]]]

\* The walk along the next pointers, by way of the history.
Downwards == [n \in 0 .. Cardinality(Cells) |->
                IF n < Len(contents) THEN contents[Len(contents) - n] ELSE Null]

(* A set with 0 and the successor of each of its numbers has them all.     *)
LEMMA Induction ==
  ASSUME NEW S, 0 \in S, \A n \in Nat : n \in S => n + 1 \in S
  PROVE  Nat \subseteq S
<1> DEFINE T == Nat \ S
<1> SUFFICES ASSUME T # {} PROVE FALSE
  OBVIOUS
<1>1. IsWellFoundedOn(OpToRel(<, Nat), Nat)
  BY NatLessThanWellFounded
<1>2. PICK x \in T : \A y \in T : ~ (<<y, x>> \in OpToRel(<, Nat))
  BY <1>1, WFMin
<1>3. x \in Nat /\ x \notin S /\ \A y \in T : ~ (y < x)
  BY <1>2 DEF OpToRel
<1> HIDE DEF T
<1>4. x # 0 /\ x - 1 \in Nat /\ x - 1 < x
  BY <1>3
<1>5. x - 1 \in S
  BY <1>3, <1>4 DEF T
<1> QED
  BY <1>3, <1>4, <1>5

(* Distinct cells: the stack is no higher than there are addresses, and    *)
(* lower when one of them is not on it.                                    *)
LEMMA StackFits ==
  ASSUME IInv
  PROVE  /\ Cardinality(Cells) \in Nat
         /\ Len(contents) <= Cardinality(Cells)
         /\ \A a \in Cells : ~OnStack(a) => Len(contents) < Cardinality(Cells)
<1>1. IsFiniteSet(Cells) /\ Cardinality(Cells) \in Nat
  BY ThreadsAssumption, FS_CardinalityType
<1>2. contents \in Seq(Cells) /\ Len(contents) \in Nat /\ DOMAIN contents = 1 .. Len(contents)
  BY StackFacts DEF IInv, TypeOK
<1>3. Cardinality(1 .. Len(contents)) = Len(contents)
  BY <1>2, FS_Interval
<1>4. ASSUME NEW S \in SUBSET Cells, \A i \in DOMAIN contents : contents[i] \in S
      PROVE  Len(contents) <= Cardinality(S)
  <2>1. contents \in [1 .. Len(contents) -> S]
    BY <1>2, <1>4
  <2>2. contents \in Injection(1 .. Len(contents), S)
    BY <1>2, <2>1 DEF Injection, IsInjective, IInv, Distinct
  <2>3. IsFiniteSet(S)
    BY <1>1, FS_Subset
  <2> QED
    BY <1>3, <2>2, <2>3, FS_Injection
<1>5. Len(contents) <= Cardinality(Cells)
  BY <1>2, <1>4, ElementOfSeq
<1>6. ASSUME NEW a \in Cells, ~OnStack(a)
      PROVE  Len(contents) < Cardinality(Cells)
  <2>1. \A i \in DOMAIN contents : contents[i] \in Cells \ {a}
    BY <1>2, <1>6, ElementOfSeq DEF OnStack
  <2>2. Len(contents) <= Cardinality(Cells \ {a})
    BY <1>4, <2>1
  <2>3. Cardinality(Cells \ {a}) = Cardinality(Cells) - 1
    BY <1>1, FS_RemoveElement
  <2> QED
    BY <1>1, <1>2, <2>2, <2>3
<1> QED
  BY <1>1, <1>5, <1>6

(* What the code reaches by following the next pointers.                   *)
LEMMA NodesAreContents == IInv => nodes = Downwards
<1> SUFFICES ASSUME IInv PROVE nodes = Downwards
  OBVIOUS
<1> DEFINE N == Cardinality(Cells)
           l == Len(contents)
           Walk(f) == [n \in 0 .. N |->
              IF n = 0 THEN head ELSE IF f[n - 1] = Null THEN Null ELSE next[f[n - 1]]]
<1>1. N \in Nat /\ l \in Nat /\ l <= N
  BY StackFits, StackFacts
<1>2. /\ contents \in Seq(Cells) /\ DOMAIN contents = 1 .. l /\ head = Top
      /\ \A i \in 1 .. l : contents[i] # Null /\ next[contents[i]] = Below(i)
  BY StackFacts DEF IInv, ListIsContents, TypeOK, OnStack
<1>3. Top = IF l = 0 THEN Null ELSE contents[l]
  BY <1>1, <1>2, EmptySeq DEF Top
<1> HIDE DEF N, l
<1>4. \A n \in 0 .. N : Downwards[n] = IF n < l THEN contents[l - n] ELSE Null
  BY DEF Downwards, N, l
<1>5. Downwards = Walk(Downwards)
  <2>1. ASSUME NEW n \in 0 .. N
        PROVE  Downwards[n] = Walk(Downwards)[n]
    <3>1. CASE n = 0
      BY <1>1, <1>2, <1>3, <1>4, <3>1
    <3>2. CASE n # 0 /\ n - 1 >= l
      <4>1. n - 1 \in 0 .. N /\ Downwards[n - 1] = Null /\ Downwards[n] = Null
        BY <1>1, <1>4, <3>2
      <4> QED
        BY <3>2, <4>1
    <3>3. CASE n # 0 /\ n - 1 < l
      <4>1. /\ n - 1 \in 0 .. N /\ l - (n - 1) \in 1 .. l
            /\ Downwards[n - 1] = contents[l - (n - 1)]
        BY <1>1, <1>4, <3>3
      <4>2. Walk(Downwards)[n] = Below(l - (n - 1))
        BY <1>2, <3>3, <4>1
      <4>3. Below(l - (n - 1)) = IF n = l THEN Null ELSE contents[l - n]
        BY <1>1, <3>3 DEF Below
      <4>4. Downwards[n] = IF n = l THEN Null ELSE contents[l - n]
        BY <1>1, <1>4, <3>3
      <4> QED
        BY <4>2, <4>3, <4>4
    <3> QED
      BY <1>1, <3>1, <3>2, <3>3
  <2>2. Downwards = [n \in 0 .. N |-> Downwards[n]]
    BY DEF Downwards, N
  <2> QED
    BY <2>1, <2>2
<1>6. nodes = CHOOSE f : f = Walk(f)
  BY DEF nodes, N
<1>7. nodes = Walk(nodes)
  <2> HIDE DEF Walk
  <2> QED
    BY <1>5, <1>6
<1>8. \A n \in Nat : n \in 0 .. N => nodes[n] = Downwards[n]
  <2> DEFINE S == {n \in Nat : n \in 0 .. N => nodes[n] = Downwards[n]}
  <2>1. 0 \in S
    BY <1>1, <1>5, <1>7
  <2>2. ASSUME NEW n \in Nat, n \in S PROVE n + 1 \in S
    <3> SUFFICES ASSUME n + 1 \in 0 .. N PROVE nodes[n + 1] = Downwards[n + 1]
      OBVIOUS
    <3>1. n \in 0 .. N /\ nodes[n] = Downwards[n] /\ n + 1 # 0 /\ (n + 1) - 1 = n
      BY <1>1, <2>2
    <3>2. nodes[n + 1] = Walk(nodes)[n + 1] /\ Downwards[n + 1] = Walk(Downwards)[n + 1]
      BY <1>5, <1>7
    <3> QED
      BY <3>1, <3>2
  <2> HIDE DEF S
  <2>3. Nat \subseteq S
    BY <2>1, <2>2, Induction
  <2> QED
    BY <2>3 DEF S
<1>9. nodes = [n \in 0 .. N |-> nodes[n]] /\ Downwards = [n \in 0 .. N |-> Downwards[n]]
  <2>1. DOMAIN nodes = 0 .. N
    BY <1>7
  <2>2. nodes = [n \in DOMAIN nodes |-> nodes[n]]
    BY <1>7
  <2> QED
    BY <2>1, <2>2 DEF Downwards, N
<1> QED
  BY <1>1, <1>8, <1>9

(* What the atomic container holds, in every state and after every step.   *)
LEMMA ItemsAreListed == IInv => items = Listed
<1> SUFFICES ASSUME IInv PROVE items = Listed
  OBVIOUS
<1> DEFINE N == Cardinality(Cells)
           l == Len(contents)
           full == {n \in DOMAIN nodes : nodes[n] # Null}
<1>1. nodes = Downwards
  BY NodesAreContents
<1>2. /\ N \in Nat /\ l \in Nat /\ l <= N
      /\ \A i \in 1 .. l : contents[i] # Null
  BY StackFits, StackFacts DEF OnStack
<1>3. \A n \in 0 .. N : nodes[n] = IF n < l THEN contents[l - n] ELSE Null
  BY <1>1 DEF Downwards
<1>4. full = 0 .. l - 1
  BY <1>1, <1>2, <1>3 DEF Downwards
<1>5. Cardinality(full) = l
  <2>1. 0 \in Int /\ l - 1 \in Int
    BY <1>2
  <2>2. Cardinality(0 .. l - 1) = IF 0 > l - 1 THEN 0 ELSE l - 1 - 0 + 1
    BY <2>1, FS_Interval
  <2> HIDE DEF full, l
  <2> QED
    BY <1>2, <1>4, <2>2
<1>6. items = [i \in 1 .. l |-> item[nodes[l - i]]]
  BY <1>5 DEF items
<1>7. \A i \in 1 .. l : nodes[l - i] = contents[i]
  BY <1>2, <1>3
<1> QED
  BY <1>6, <1>7 DEF Listed

LEMMA ItemsAreListedAfter == IInv' => items' = Listed'
<1>1. (IInv => items = Listed)'
  BY ItemsAreListed, PTL
<1> QED
  BY <1>1

-----------------------------------------------------------------------------
(* Calls that are under way count among the quota, and a pending node has  *)
(* the item of the call that is under way.                                 *)
Outstanding ==
  /\ \A p \in Pushers : pc[p] = "push" =>
       calls[p] < Quota[p] /\ item[node[p]] = Item(p, calls[p] + 1)
  /\ \A c \in Poppers : pc[c] \in {"next", "pop"} => calls[c] < Quota[c]

LEMMA InitOutstanding == Init => Outstanding
BY DEF Init, Outstanding, Threads

\* What each action changes of the threads and the items.
LEMMA NextOutstanding ==
  ASSUME IInv, Outstanding, [Next]_vars
  PROVE  Outstanding'
<1> USE DEF IInv, TypeOK, Threads
<1>1. CASE UNCHANGED vars
  BY <1>1 DEF vars, heap, history, Outstanding
<1>2. ASSUME NEW p \in Pushers, NEW a \in Cells, PushLoad(p, a) PROVE Outstanding'
  <2>1. /\ \A t \in Threads \ {p} : pc'[t] = pc[t] /\ node'[t] = node[t]
        /\ calls' = calls /\ calls[p] < Quota[p] /\ a \notin allocated
        /\ node'[p] = a /\ item'[a] = Item(p, calls[p] + 1)
        /\ \A b \in Cells \ {a} : item'[b] = item[b]
    BY <1>2 DEF PushLoad, Goto, history
  <2>2. \A q \in Pushers : pc[q] = "push" => node[q] # a /\ node[q] \in Cells
    BY <2>1 DEF Pending
  <2>3. ASSUME NEW q \in Pushers, pc'[q] = "push"
        PROVE  calls'[q] < Quota[q] /\ item'[node'[q]] = Item(q, calls'[q] + 1)
    <3>1. CASE q = p
      BY <2>1, <3>1
    <3>2. CASE q # p
      BY <2>1, <2>2, <2>3, <3>2 DEF Outstanding
    <3> QED
      BY <3>1, <3>2
  <2>4. \A c \in Poppers : pc'[c] = pc[c] /\ calls'[c] = calls[c]
    BY <2>1, ThreadsAssumption
  <2> QED
    BY <2>3, <2>4 DEF Outstanding
<1>3. ASSUME NEW p \in Pushers, PushSwap(p) PROVE Outstanding'
  BY <1>3, ThreadsAssumption DEF PushSwap, Pushed, Goto, heap, Outstanding
<1>4. ASSUME NEW p \in Pushers, PushRetry(p) PROVE Outstanding'
  BY <1>4 DEF PushRetry, history, Outstanding
<1>5. ASSUME NEW c \in Poppers, Pop(c) \/ PopSpurious(c) PROVE Outstanding'
  <2>1. item' = item /\ \A p \in Pushers : pc'[p] = pc[p] /\ node'[p] = node[p] /\ calls'[p] = calls[p]
    BY <1>5, ThreadsAssumption
       DEF Pop, PopLoad, PopNext, PopSwap, PopRetry, PopData, PopSpurious, Popped, Candidate,
           Goto, heap, history
  <2>2. ASSUME NEW d \in Poppers, pc'[d] \in {"next", "pop"} PROVE calls'[d] < Quota[d]
    <3>1. CASE PopLoad(c)
      BY <2>2, <3>1 DEF PopLoad, Candidate, Goto, history, Outstanding
    <3>2. CASE PopNext(c) \/ PopRetry(c) \/ PopSpurious(c)
      BY <2>2, <3>2 DEF PopNext, PopRetry, PopSpurious, Candidate, Goto, history, Outstanding
    <3>3. CASE PopSwap(c) \/ PopData(c)
      BY <2>2, <3>3 DEF PopSwap, PopData, Popped, Goto, history, Outstanding
    <3> QED
      BY <1>5, <3>1, <3>2, <3>3 DEF Pop
  <2> QED
    BY <2>1, <2>2 DEF Outstanding
<1> QED
  BY <1>1, <1>2, <1>3, <1>4, <1>5 DEF Next, Step, Finished, Push

(* The exchange of push() is the atomic Add.                               *)
LEMMA PushSwapAdds ==
  ASSUME IInv, IInv', Outstanding, NEW p \in Pushers, PushSwap(p)
  PROVE  Atomic!Add(p)
<1> DEFINE n == node[p]
<1>1. /\ pc[p] = "push"
      /\ contents' = Append(contents, n) /\ added' = Append(added, item[n])
      /\ calls' = [calls EXCEPT ![p] = @ + 1] /\ UNCHANGED <<item, removed>>
  BY DEF PushSwap, Pushed, heap
<1>2. calls[p] < Quota[p] /\ item[n] = Item(p, calls[p] + 1)
  BY <1>1 DEF Outstanding
<1>3. n \in Cells /\ ~OnStack(n)
  BY <1>1 DEF IInv, Pending, TypeOK
<1>4. contents \in Seq(Cells) /\ Len(contents) \in Nat /\ DOMAIN contents = 1 .. Len(contents)
  BY StackFacts DEF IInv, TypeOK
<1>5. items = Listed /\ items' = Listed'
  BY ItemsAreListed, ItemsAreListedAfter
<1>6. Listed \in Seq({item[a] : a \in Cells}) /\ Len(Listed) = Len(contents)
  BY <1>4, ElementOfSeq, IsASeq DEF Listed
<1>7. Atomic!HasRoom(items)
  BY <1>3, <1>5, <1>6, StackFits DEF Atomic!HasRoom
<1>8. Listed' = Append(Listed, item[n])
  BY <1>1, <1>3, <1>4, <1>6, AppendProperties DEF Listed
<1> QED
  BY <1>1, <1>2, <1>5, <1>7, <1>8 DEF Atomic!Add, Atomic!Item, Item

(* The exchange of pop() is the atomic Remove.                             *)
LEMMA PopSwapRemoves ==
  ASSUME IInv, IInv', Outstanding, NEW c \in Poppers, PopSwap(c)
  PROVE  Atomic!Remove(c)
<1> DEFINE n == node[c]
           l == Len(contents)
<1>1. /\ pc[c] = "pop" /\ head = n
      /\ contents' = SubSeq(contents, 1, l - 1) /\ removed' = Append(removed, item[n])
      /\ calls' = [calls EXCEPT ![c] = @ + 1] /\ UNCHANGED <<item, added>>
  BY DEF PopSwap, Popped, heap
<1>2. calls[c] < Quota[c]
  BY <1>1 DEF Outstanding
<1>3. OnStack(n) /\ n # Null
  BY <1>1, StackFacts DEF IInv, Candidates, CandidateOf
<1>4. contents \in Seq(Cells) /\ l \in Nat \ {0} /\ DOMAIN contents = 1 .. l /\ contents[l] = n
  BY <1>1, <1>3, StackFacts DEF IInv, TypeOK
<1>5. items = Listed /\ items' = Listed'
  BY ItemsAreListed, ItemsAreListedAfter
<1> HIDE DEF n
<1>6. /\ Listed \in Seq({item[a] : a \in Cells}) /\ Len(Listed) = l
      /\ \A i \in 1 .. l : Listed[i] = item[contents[i]]
  BY <1>4, ElementOfSeq, IsASeq DEF Listed
<1> HIDE DEF l
<1>7. items # <<>> /\ items[Len(items)] = item[n]
  BY <1>4, <1>5, <1>6, EmptySeq
<1>8. items' = SubSeq(items, 1, Len(items) - 1)
  <2>1. Len(contents') = l - 1 /\ \A i \in 1 .. l - 1 : contents'[i] = contents[i]
    BY <1>1, <1>4, ElementOfSeq, SubSeqProperties
  <2>2. Listed' = [i \in 1 .. l - 1 |-> item[contents[i]]]
    BY <1>1, <2>1 DEF Listed
  <2>3. SubSeq(Listed, 1, l - 1) = [i \in 1 .. l - 1 |-> Listed[i]]
    BY <1>4
  <2>4. \A i \in 1 .. l - 1 : Listed[i] = item[contents[i]]
    BY <1>4, <1>6
  <2> QED
    BY <1>5, <1>6, <2>2, <2>3, <2>4
<1> QED
  BY <1>1, <1>2, <1>5, <1>7, <1>8
     DEF Atomic!Remove, Atomic!HasItem, Atomic!Taken, Atomic!Rest

(* Every other step leaves the items on the stack as they are.             *)
LEMMA OtherStepsStutter ==
  ASSUME IInv, IInv', [Next]_vars,
         ~ \E p \in Pushers : PushSwap(p),
         ~ \E c \in Poppers : PopSwap(c)
  PROVE  UNCHANGED Atomic!avars
<1>1. UNCHANGED <<contents, calls, added, removed>>
  BY DEF Next, Step, Finished, Push, Pop, PushLoad, PushRetry, PopLoad, PopNext, PopRetry,
         PopData, PopSpurious, Candidate, history, vars
<1>2. \A i \in DOMAIN contents : item'[contents[i]] = item[contents[i]]
  <2>1. item' = item \/ \E p \in Pushers, a \in Cells : PushLoad(p, a)
    BY DEF Next, Step, Finished, Push, Pop, PushRetry, PopLoad, PopNext, PopRetry,
           PopData, PopSpurious, Candidate, heap, vars
  <2>2. ASSUME NEW p \in Pushers, NEW a \in Cells, PushLoad(p, a)
        PROVE  \A i \in DOMAIN contents : item'[contents[i]] = item[contents[i]]
    <3>1. a \notin allocated /\ item' = [item EXCEPT ![a] = Item(p, calls[p] + 1)]
      BY <2>2 DEF PushLoad
    <3>2. \A i \in DOMAIN contents : contents[i] \in allocated /\ contents[i] \in Cells
      BY StackFacts DEF OnStack
    <3> QED
      BY <3>1, <3>2 DEF IInv, TypeOK
  <2> QED
    BY <2>1, <2>2
<1>3. DOMAIN contents = 1 .. Len(contents)
  BY StackFacts
<1>4. Listed' = Listed
  BY <1>1, <1>2, <1>3 DEF Listed
<1> QED
  BY <1>1, <1>4, ItemsAreListed, ItemsAreListedAfter DEF Atomic!avars

(* The stack implements the atomic container that takes the last item:     *)
(* every call takes effect at its successful exchange, on the item at the  *)
(* top, and nothing that a thread does before or after it can be told from *)
(* outside.                                                                *)
THEOREM ImplementsAtomicHolds ==
  ASSUME LonePopper
  PROVE  Spec => ImplementsAtomic
<1>1. Init => Atomic!AInit
  <2> SUFFICES ASSUME Init PROVE Atomic!AInit
    OBVIOUS
  <2>1. items = Listed
    BY InitIInv, ItemsAreListed
  <2>2. Listed = <<>>
    BY EmptySeq DEF Init, Listed
  <2> QED
    BY <2>1, <2>2 DEF Init, Atomic!AInit, Threads
<1>2. Outstanding /\ IInv /\ [Next]_vars => Outstanding'
  BY NextOutstanding
<1>3. IInv /\ IInv' /\ Outstanding /\ [Next]_vars => [Atomic!ANext]_(Atomic!avars)
  <2> SUFFICES ASSUME IInv, IInv', Outstanding, [Next]_vars
               PROVE  [Atomic!ANext]_(Atomic!avars)
    OBVIOUS
  <2>1. CASE \E p \in Pushers : PushSwap(p)
    BY <2>1, PushSwapAdds DEF Atomic!ANext
  <2>2. CASE \E c \in Poppers : PopSwap(c)
    BY <2>2, PopSwapRemoves DEF Atomic!ANext
  <2> QED
    BY <2>1, <2>2, OtherStepsStutter
<1> QED
  BY <1>1, <1>2, <1>3, InitOutstanding, InductiveInvariant, PTL
     DEF Spec, ImplementsAtomic, Atomic!ASafeSpec
=============================================================================
