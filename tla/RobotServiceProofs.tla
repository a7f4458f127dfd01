------------------------- MODULE RobotServiceProofs -------------------------
(***************************************************************************)
(* Theorems about the connections of the robot simulator, for any number   *)
(* of connections, any scripts, any capacity, wherever receive() cuts the  *)
(* byte stream and whoever disconnects.                                    *)
(*                                                                         *)
(* A streaming thread carries at most one command, from Receive to         *)
(* Enqueue; a state thread carries one only between Dequeue and            *)
(* WriteResult, so that remove() never overwrites a command that was not   *)
(* reported.  The first gives RepliesCountCommands.  That the fragments on *)
(* the wire alternate is what lets a whole-packet receive always begin     *)
(* with a header.                                                          *)
(*                                                                         *)
(* Flow relates the wire, the command in hand and the record of commands   *)
(* to the script the client sends, and gives CommandsFollowScript; with    *)
(* Waiting, which relates the queue to that record, PointsQueuedInOrder.   *)
(* Tally counts the points of a task, queued, waiting, removed, in hand    *)
(* and reported, and gives NoPointVanishes and ReportedOnce.               *)
(***************************************************************************)
EXTENDS RobotService, SequenceTheorems, FiniteSetTheorems, TLAPS

Fragments == [pkt : Packets, part : {"header", "body"}]

\* A state thread holds a command only while it has to report it, a point.
Hands == \A c \in StateConns :
           /\ pc[c] # "result" => cmd[c] = <<>>
           /\ pc[c] = "result" => \E k \in Commands : cmd[c] = <<k>> /\ IsPoint(k)

\* A streaming thread in add() holds one command, and it is its own.
OneInHand == \A c \in StreamConns :
               pc[c] = "add" => \E k \in Commands : cmd[c] = <<k>> /\ k.from = c

\* Fragments alternate, and come from the script.
Alternating == \A c \in StreamConns : Commanding(c) =>
                 \A i \in DOMAIN wire[c] : /\ i % 2 = 1 => wire[c][i].part = "header"
                                           /\ wire[c][i].pkt.kind # "OTHER"
EvenWire == \A c \in StreamConns : Commanding(c) => Len(wire[c]) % 2 = 0

\* Commands of c so far, against the replies: one ahead while replying.
Balanced(c) ==
  /\ Cardinality(AddedAt(c)) <= replies[c] + (IF pc[c] \in {"reply", "deleted"} THEN 1 ELSE 0)
  /\ Commanding(c) => replies[c] + (IF pc[c] = "reply" THEN 1 ELSE 0) <= Cardinality(AddedAt(c))

Counts == \A c \in StreamConns : Balanced(c)

IInv == TypeOK /\ Hands /\ OneInHand /\ Alternating /\ EvenWire /\ Counts

-----------------------------------------------------------------------------
(* What a packet becomes: at most one command, of the connection it came   *)
(* from.                                                                   *)
LEMMA CommandsForOne ==
  ASSUME NEW c \in StreamConns, NEW p \in Packets, NEW task \in Ids
  PROVE  /\ p.kind = "OTHER" => CommandsFor(c, p, task) = <<>>
         /\ p.kind # "OTHER" =>
              \E k \in Commands : CommandsFor(c, p, task) = <<k>> /\ k.from = c
<1>1. p.kind \in Kinds /\ p.id \in Ids
  BY DEF Packets
<1>2. CASE p.kind = "OTHER"
  BY <1>2 DEF CommandsFor
<1>3. CASE p.kind = "TASK"
  <2>1. CommandsFor(c, p, task) = <<Command(c, p.id, -1, 0)>>
    BY <1>3 DEF CommandsFor
  <2>2. Command(c, p.id, -1, 0) \in Commands /\ Command(c, p.id, -1, 0).from = c
    BY <1>1 DEF Command, Commands
  <2> QED
    BY <1>3, <2>1, <2>2
<1>4. CASE p.kind = "JOINT_TRAJ_PT"
  <2>1. CommandsFor(c, p, task) = <<Command(c, task, p.id, 1)>>
    BY <1>4 DEF CommandsFor
  <2>2. Command(c, task, p.id, 1) \in Commands /\ Command(c, task, p.id, 1).from = c
    BY <1>1 DEF Command, Commands
  <2> QED
    BY <1>4, <2>1, <2>2
<1> QED
  BY <1>1, <1>2, <1>3, <1>4 DEF Kinds

(* What remove() takes, and what it leaves.                                *)
LEMMA QueueProperties ==
  ASSUME NEW q \in Seq(Commands), Deque!HasItem(q)
  PROVE  /\ Deque!Taken(q) \in Commands
         /\ Deque!Rest(q) \in Seq(Commands)
         /\ Len(q) \in Nat \ {0} /\ Len(Deque!Rest(q)) = Len(q) - 1
         /\ Deque!Taken(q) = q[Len(q)]
         /\ \A i \in 1 .. Len(q) - 1 : Deque!Rest(q)[i] = q[i]
<1>1. Len(q) \in Nat \ {0}
  BY EmptySeq DEF Deque!HasItem
<1>2. PICK m \in Nat : m = Len(q) - 1
  BY <1>1
<1>3. \A i \in 1 .. Len(q) : q[i] \in Commands
  BY <1>1, ElementOfSeq
<1>4. /\ SubSeq(q, 1, m) \in Seq(Commands) /\ Len(SubSeq(q, 1, m)) = m
      /\ \A i \in 1 .. m : SubSeq(q, 1, m)[i] = q[i]
  BY <1>1, <1>2, <1>3, SubSeqProperties
<1> QED
  BY <1>1, <1>2, <1>3, <1>4 DEF Deque!Taken, Deque!Rest

(* A sequence with one and with two elements more.                         *)
LEMMA OneMore ==
  ASSUME NEW S, NEW s \in Seq(S), NEW x \in S, NEW w, w = s \o <<x>>
  PROVE  /\ w \in Seq(S) /\ Len(s) \in Nat /\ Len(w) = Len(s) + 1
         /\ DOMAIN s = 1 .. Len(s) /\ DOMAIN w = 1 .. Len(s) + 1
         /\ \A i \in DOMAIN s : w[i] = s[i]
         /\ w[Len(s) + 1] = x
<1>1. w = Append(s, x)
  BY AppendIsConcat
<1> QED
  BY <1>1, AppendProperties, LenProperties

LEMMA TwoMore ==
  ASSUME NEW S, NEW s \in Seq(S), NEW x \in S, NEW y \in S, NEW w, w = s \o <<x, y>>
  PROVE  /\ w \in Seq(S) /\ Len(s) \in Nat /\ Len(w) = Len(s) + 2
         /\ DOMAIN s = 1 .. Len(s) /\ DOMAIN w = 1 .. Len(s) + 2
         /\ \A i \in DOMAIN s : w[i] = s[i]
         /\ w[Len(s) + 1] = x /\ w[Len(s) + 2] = y
<1>1. PICK t : t = <<x, y>>
  OBVIOUS
<1>2. t \in Seq(S) /\ Len(t) = 2 /\ t[1] = x /\ t[2] = y
  BY <1>1
<1>3. Len(s) \in Nat /\ DOMAIN s = 1 .. Len(s)
  BY LenProperties
<1>4. /\ w \in Seq(S) /\ Len(w) = Len(s) + 2
      /\ \A i \in 1 .. Len(s) + 2 : w[i] = IF i <= Len(s) THEN s[i] ELSE t[i - Len(s)]
  BY <1>1, <1>2, ConcatProperties
<1>5. DOMAIN w = 1 .. Len(s) + 2
  BY <1>4, LenProperties
<1>6. w[Len(s) + 1] = x /\ w[Len(s) + 2] = y
  <2>1. w[Len(s) + 1] = t[(Len(s) + 1) - Len(s)] /\ w[Len(s) + 2] = t[(Len(s) + 2) - Len(s)]
    BY <1>3, <1>4
  <2>2. (Len(s) + 1) - Len(s) = 1 /\ (Len(s) + 2) - Len(s) = 2
    BY <1>3
  <2> QED
    BY <1>2, <2>1, <2>2
<1> QED
  BY <1>3, <1>4, <1>5, <1>6

(* What is left of a sequence when its first n elements are gone.          *)
LEMMA Dropped ==
  ASSUME NEW S, NEW s \in Seq(S), NEW n \in Nat \ {0}, n <= Len(s),
         NEW w, w = SubSeq(s, n + 1, Len(s)), NEW got, got = SubSeq(s, 1, n)
  PROVE  /\ w \in Seq(S) /\ Len(s) \in Nat /\ Len(w) = Len(s) - n
         /\ DOMAIN s = 1 .. Len(s)
         /\ \A i \in DOMAIN w : i \in Nat /\ n + i \in DOMAIN s /\ w[i] = s[n + i]
         /\ 1 \in DOMAIN s /\ got[1] = s[1]
<1>1. Len(s) \in Nat /\ DOMAIN s = 1 .. Len(s)
  BY LenProperties
<1>2. PICK m \in Nat : m = Len(s)
  BY <1>1
<1>3. \A i \in 1 .. m : s[i] \in S
  BY <1>2, ElementOfSeq
<1>4. n + 1 \in Int /\ \A i \in n + 1 .. m : s[i] \in S
  BY <1>2, <1>3
<1>5. /\ w \in Seq(S) /\ Len(w) = IF n + 1 <= m THEN m - (n + 1) + 1 ELSE 0
      /\ \A i \in 1 .. m - (n + 1) + 1 : w[i] = s[(n + 1) + i - 1]
  BY <1>2, <1>4, SubSeqProperties
<1>6. Len(w) = m - n
  BY <1>2, <1>5
<1>7. ASSUME NEW i \in DOMAIN w PROVE i \in Nat /\ n + i \in DOMAIN s /\ w[i] = s[n + i]
  <2>1. i \in 1 .. m - n
    BY <1>5, <1>6, LenProperties
  <2>2. i \in Nat /\ n + i \in 1 .. m /\ (n + 1) + i - 1 = n + i /\ i \in 1 .. m - (n + 1) + 1
    BY <1>2, <2>1
  <2> QED
    BY <1>1, <1>2, <1>5, <2>2
<1>8. got[1] = s[1]
  <2>1. \A i \in 1 .. n : s[i] \in S
    BY <1>2, <1>3
  <2>2. \A i \in 1 .. n - 1 + 1 : got[i] = s[1 + i - 1]
    BY <2>1, SubSeqProperties
  <2> QED
    BY <2>2
<1>9. 1 \in DOMAIN s
  BY <1>1
<1> QED
  BY <1>1, <1>2, <1>5, <1>6, <1>7, <1>8, <1>9

LEMMA EvenDifference ==
  ASSUME NEW m \in Nat, NEW n \in Nat, n <= m, m % 2 = 0, n % 2 = 0
  PROVE  (m - n) % 2 = 0
  OBVIOUS

(* The commands of a connection can be counted.                            *)
LEMMA AddedFinite ==
  ASSUME TypeOK, NEW c
  PROVE  IsFiniteSet(AddedAt(c)) /\ Cardinality(AddedAt(c)) \in Nat
<1>1. Len(queued) \in Nat /\ AddedAt(c) \subseteq 1 .. Len(queued)
  BY LenProperties DEF TypeOK, AddedAt
<1>2. IsFiniteSet(1 .. Len(queued))
  BY <1>1, FS_Interval
<1> QED
  BY <1>1, <1>2, FS_Subset, FS_CardinalityType

-----------------------------------------------------------------------------
LEMMA InitIInv == Init => IInv
<1> SUFFICES ASSUME Init PROVE IInv
  OBVIOUS
<1> USE DEF Init
<1>1. TypeOK
  BY EmptySeq, SizesAssumption, ConnsAssumption DEF TypeOK, Labels, Conns
<1>2. Hands /\ OneInHand
  BY ConnsAssumption DEF Hands, OneInHand, Conns
<1>3. Alternating /\ EvenWire
  BY EmptySeq DEF Alternating, EvenWire
<1>4. Counts
  <2>1. \A c : AddedAt(c) = {}
    BY DEF AddedAt
  <2>2. \A c : Cardinality(AddedAt(c)) = 0
    BY <2>1, FS_EmptySet
  <2>3. \A c \in StreamConns : replies[c] = 0 /\ pc[c] = "receive"
    BY DEF Conns
  <2> QED
    BY <2>2, <2>3 DEF Counts, Balanced
<1> QED
  BY <1>1, <1>2, <1>3, <1>4 DEF IInv

-----------------------------------------------------------------------------
LEMMA SendStep == ASSUME IInv, NEW c \in StreamConns, Send(c) PROVE IInv'
<1> DEFINE p == Script[c][sent[c] + 1]
           h == [pkt |-> p, part |-> "header"]
           b == [pkt |-> p, part |-> "body"]
           s == wire[c]
<1>1. /\ sent' = [sent EXCEPT ![c] = @ + 1] /\ wire' = [wire EXCEPT ![c] = s \o <<h, b>>]
      /\ UNCHANGED <<commandQueue, pc, current_task_id_, cmd, open, replies, queued, taken, results>>
  BY DEF Send
<1>2. sent[c] \in Nat /\ sent[c] + 1 \in DOMAIN Script[c] /\ p \in Packets
  <2>1. Script[c] \in Seq(Packets) /\ sent[c] \in Nat /\ sent[c] < Len(Script[c])
    BY ConnsAssumption DEF Send, IInv, TypeOK
  <2>2. sent[c] + 1 \in 1 .. Len(Script[c])
    BY <2>1, LenProperties
  <2> QED
    BY <2>1, <2>2, LenProperties, ElementOfSeq
<1>3. wire \in [StreamConns -> Seq(Fragments)] /\ s \in Seq(Fragments)
  BY DEF IInv, TypeOK, Fragments
<1>4. h \in Fragments /\ b \in Fragments /\ h.pkt = p /\ b.pkt = p /\ h.part = "header"
  BY <1>2 DEF Fragments
<1>5. PICK w : w = s \o <<h, b>>
  OBVIOUS
<1>6. Commanding(c) => p.kind # "OTHER"
  BY <1>2 DEF Commanding
<1>7. Commanding(c) => /\ Len(s) % 2 = 0
                       /\ \A i \in DOMAIN s : /\ i % 2 = 1 => s[i].part = "header"
                                              /\ s[i].pkt.kind # "OTHER"
  BY DEF IInv, EvenWire, Alternating
<1>8. wire' = [wire EXCEPT ![c] = w]
  BY <1>1, <1>5
<1> HIDE DEF p, h, b, s
<1>9. /\ w \in Seq(Fragments) /\ Len(s) \in Nat /\ Len(w) = Len(s) + 2
      /\ DOMAIN s = 1 .. Len(s) /\ DOMAIN w = 1 .. Len(s) + 2
      /\ \A i \in DOMAIN s : w[i] = s[i]
      /\ w[Len(s) + 1] = h /\ w[Len(s) + 2] = b
  BY <1>3, <1>4, <1>5, TwoMore
<1>10. wire' \in [StreamConns -> Seq(Fragments)] /\ wire'[c] = w
       /\ \A d \in StreamConns \ {c} : wire'[d] = wire[d]
  BY <1>3, <1>8, <1>9
<1>11. TypeOK'
  <2>1. sent' \in [StreamConns -> Nat]
    BY <1>1, <1>2 DEF IInv, TypeOK
  <2> QED
    BY <1>1, <1>10, <2>1 DEF IInv, TypeOK, Fragments
<1>12. Hands' /\ OneInHand'
  BY <1>1 DEF IInv, Hands, OneInHand
<1>13. Counts'
  BY <1>1 DEF IInv, Counts, Balanced, AddedAt
<1>14. Commanding(c) => Len(w) % 2 = 0
  BY <1>7, <1>9
<1>15. EvenWire'
  BY <1>10, <1>14 DEF IInv, EvenWire
<1>16. ASSUME Commanding(c), NEW i \in DOMAIN w
       PROVE  (i % 2 = 1 => w[i].part = "header") /\ w[i].pkt.kind # "OTHER"
  <2>1. CASE i \in DOMAIN s
    BY <1>7, <1>9, <1>16, <2>1
  <2>2. CASE i = Len(s) + 1
    BY <1>4, <1>6, <1>9, <1>16, <2>2
  <2>3. CASE i = Len(s) + 2
    <3>1. i % 2 = 0
      BY <1>7, <1>9, <1>16, <2>3
    <3> QED
      BY <1>4, <1>6, <1>9, <1>16, <2>3, <3>1
  <2> QED
    BY <1>9, <2>1, <2>2, <2>3
<1>17. Alternating'
  BY <1>10, <1>16 DEF IInv, Alternating
<1> QED
  BY <1>11, <1>12, <1>13, <1>15, <1>17 DEF IInv

LEMMA ReceiveStep == ASSUME IInv, NEW c \in StreamConns, Receive(c) PROVE IInv'
<1> DEFINE s == wire[c]
<1>1. PICK n \in 1 .. MaxReceive :
        /\ n <= Len(s) /\ (c \in Fragmented \/ n % 2 = 0)
        /\ wire' = [wire EXCEPT ![c] = SubSeq(s, n + 1, Len(s))]
        /\ \E p \in Readings(SubSeq(s, 1, n)) :
             /\ current_task_id_' = IF p.kind = "TASK"
                                    THEN [current_task_id_ EXCEPT ![c] = p.id]
                                    ELSE current_task_id_
             /\ cmd' = [cmd EXCEPT ![c] = CommandsFor(c, p, current_task_id_[c])]
             /\ Goto(c, IF p.kind = "OTHER" THEN "reply" ELSE "add")
  BY DEF Receive
<1>2. /\ pc[c] = "receive"
      /\ UNCHANGED <<commandQueue, open, sent, replies, queued, taken, results>>
  BY DEF Receive
<1>3. PICK got : got = SubSeq(s, 1, n)
  OBVIOUS
<1>4. PICK w : w = SubSeq(s, n + 1, Len(s))
  OBVIOUS
<1>5. PICK p \in Readings(got) :
        /\ current_task_id_' = IF p.kind = "TASK"
                               THEN [current_task_id_ EXCEPT ![c] = p.id]
                               ELSE current_task_id_
        /\ cmd' = [cmd EXCEPT ![c] = CommandsFor(c, p, current_task_id_[c])]
        /\ Goto(c, IF p.kind = "OTHER" THEN "reply" ELSE "add")
  BY <1>1, <1>3
<1>6. p \in Packets /\ p.kind \in Kinds /\ p.id \in Ids
  BY <1>5 DEF Readings, Packets
<1>7. wire \in [StreamConns -> Seq(Fragments)] /\ s \in Seq(Fragments) /\ wire' = [wire EXCEPT ![c] = w]
  BY <1>1, <1>4 DEF IInv, TypeOK, Fragments
<1>8. Commanding(c) => /\ Len(s) % 2 = 0
                       /\ \A i \in DOMAIN s : /\ i % 2 = 1 => s[i].part = "header"
                                              /\ s[i].pkt.kind # "OTHER"
  BY DEF IInv, EvenWire, Alternating
<1>9. Commanding(c) => n % 2 = 0
  BY <1>1 DEF Commanding
<1>10. n \in Nat \ {0} /\ n <= Len(s)
  BY <1>1, SizesAssumption
<1> HIDE DEF s
<1>11. /\ w \in Seq(Fragments) /\ Len(s) \in Nat /\ Len(w) = Len(s) - n
       /\ DOMAIN s = 1 .. Len(s)
       /\ \A i \in DOMAIN w : i \in Nat /\ n + i \in DOMAIN s /\ w[i] = s[n + i]
       /\ 1 \in DOMAIN s /\ got[1] = s[1]
  BY <1>3, <1>4, <1>7, <1>10, Dropped
<1>12. wire' \in [StreamConns -> Seq(Fragments)] /\ wire'[c] = w
       /\ \A d \in StreamConns \ {c} : wire'[d] = wire[d]
  BY <1>7, <1>11
<1>13. /\ c \in Conns /\ current_task_id_[c] \in Ids
       /\ pc \in [Conns -> Labels] /\ cmd \in [Conns -> {<<>>} \cup {<<k>> : k \in Commands}]
  BY DEF IInv, TypeOK, Conns
<1>14. pc' = [pc EXCEPT ![c] = IF p.kind = "OTHER" THEN "reply" ELSE "add"]
  BY <1>5 DEF Goto
<1>15. PICK a : /\ a = CommandsFor(c, p, current_task_id_[c])
                /\ a \in {<<>>} \cup {<<k>> : k \in Commands}
                /\ p.kind # "OTHER" => \E k \in Commands : a = <<k>> /\ k.from = c
  BY <1>6, <1>13, CommandsForOne
<1>16. cmd' = [cmd EXCEPT ![c] = a]
  BY <1>5, <1>15
<1>17. TypeOK'
  <2>1. current_task_id_' \in [StreamConns -> Ids]
    BY <1>5, <1>6 DEF IInv, TypeOK
  <2>2. pc' \in [Conns -> Labels]
    BY <1>13, <1>14 DEF Labels
  <2>3. cmd' \in [Conns -> {<<>>} \cup {<<k>> : k \in Commands}]
    BY <1>13, <1>15, <1>16
  <2> QED
    BY <1>2, <1>12, <2>1, <2>2, <2>3 DEF IInv, TypeOK, Fragments
<1>18. Hands'
  BY <1>13, <1>14, <1>16, ConnsAssumption DEF IInv, Hands
<1>19. OneInHand'
  BY <1>13, <1>14, <1>15, <1>16 DEF IInv, OneInHand, Conns
<1>20. EvenWire'
  <2>1. Commanding(c) => Len(w) % 2 = 0
    BY <1>8, <1>9, <1>10, <1>11, EvenDifference
  <2> QED
    BY <1>12, <2>1 DEF IInv, EvenWire
<1>21. Alternating'
  <2>1. ASSUME Commanding(c), NEW i \in DOMAIN w
        PROVE  (i % 2 = 1 => w[i].part = "header") /\ w[i].pkt.kind # "OTHER"
    <3>1. i \in Nat /\ n + i \in DOMAIN s /\ w[i] = s[n + i]
      BY <1>11, <2>1
    <3>2. (n + i) % 2 = i % 2
      BY <1>9, <1>10, <2>1, <3>1
    <3> QED
      BY <1>8, <2>1, <3>1, <3>2
  <2> QED
    BY <1>12, <2>1 DEF IInv, Alternating
<1>22. Commanding(c) => p.kind # "OTHER"
  <2>1. Commanding(c) => s[1].part = "header" /\ s[1].pkt.kind # "OTHER"
    BY <1>8, <1>11
  <2> QED
    BY <1>5, <1>11, <2>1 DEF Readings
<1>23. Counts'
  <2> SUFFICES ASSUME NEW d \in StreamConns PROVE Balanced(d)'
    BY DEF Counts
  <2>1. /\ AddedAt(d)' = AddedAt(d) /\ replies'[d] = replies[d] /\ Balanced(d)
    BY <1>2 DEF IInv, Counts, AddedAt
  <2>2. replies[d] \in Nat /\ Cardinality(AddedAt(d)) \in Nat
    BY AddedFinite DEF IInv, TypeOK
  <2>3. CASE d # c
    BY <1>13, <1>14, <2>1, <2>3 DEF Balanced, Conns
  <2>4. CASE d = c
    <3>1. /\ Cardinality(AddedAt(c)) <= replies[c] + 0
          /\ Commanding(c) => replies[c] + 0 <= Cardinality(AddedAt(c))
      BY <1>2, <2>1, <2>4 DEF Balanced
    <3>2. CASE p.kind = "OTHER"
      BY <1>13, <1>14, <1>22, <2>1, <2>2, <2>4, <3>1, <3>2 DEF Balanced
    <3>3. CASE p.kind # "OTHER"
      BY <1>13, <1>14, <2>1, <2>2, <2>4, <3>1, <3>3 DEF Balanced
    <3> QED
      BY <3>2, <3>3
  <2> QED
    BY <2>3, <2>4
<1> QED
  BY <1>17, <1>18, <1>19, <1>20, <1>21, <1>23 DEF IInv

(* Steps that leave the queue, the wire and the current tasks alone: it is *)
(* enough to look at where the thread goes and what it holds.              *)
LEMMA QuietStep ==
  ASSUME IInv, NEW c \in Conns, NEW l \in Labels, NEW a \in {<<>>} \cup {<<k>> : k \in Commands},
         pc' = [pc EXCEPT ![c] = l], cmd' = [cmd EXCEPT ![c] = a],
         l \notin {"add", "result"}, c \in StateConns => a = <<>>,
         UNCHANGED <<commandQueue, wire, current_task_id_, open, sent, queued>>,
         taken' \in [StateConns -> Seq(Commands)], results' \in [StateConns -> Seq(Results)],
         replies' \in [StreamConns -> Nat],
         \A d \in StreamConns \ {c} : replies'[d] = replies[d],
         c \in StreamConns => Balanced(c)'
  PROVE  IInv'
<1>1. /\ pc \in [Conns -> Labels] /\ cmd \in [Conns -> {<<>>} \cup {<<k>> : k \in Commands}]
  BY DEF IInv, TypeOK
<1>2. TypeOK'
  BY <1>1 DEF IInv, TypeOK
<1>3. Hands' /\ OneInHand'
  BY <1>1, ConnsAssumption DEF IInv, Hands, OneInHand, Conns
<1>4. Alternating' /\ EvenWire'
  BY DEF IInv, Alternating, EvenWire
<1>5. Counts'
  <2> SUFFICES ASSUME NEW d \in StreamConns, d # c PROVE Balanced(d)'
    BY DEF Counts
  <2>1. pc'[d] = pc[d] /\ replies'[d] = replies[d] /\ AddedAt(d)' = AddedAt(d) /\ Balanced(d)
    BY <1>1 DEF IInv, Counts, AddedAt, Conns
  <2> QED
    BY <2>1 DEF Balanced
<1> QED
  BY <1>2, <1>3, <1>4, <1>5 DEF IInv

\* The place of a streaming thread and its replies, for Balanced.
LEMMA Numbers ==
  ASSUME IInv, NEW c \in StreamConns
  PROVE  /\ replies[c] \in Nat /\ Cardinality(AddedAt(c)) \in Nat
         /\ Balanced(c) /\ c \in Conns
  BY AddedFinite DEF IInv, TypeOK, Counts, Conns

LEMMA ReplyStep == ASSUME IInv, NEW c \in StreamConns, Reply(c) PROVE IInv'
<1>1. /\ pc[c] = "reply" /\ replies' = [replies EXCEPT ![c] = @ + 1]
      /\ pc' = [pc EXCEPT ![c] = "receive"]
      /\ UNCHANGED <<commandQueue, wire, current_task_id_, cmd, open, sent, queued, taken, results>>
  BY DEF Reply, Goto
<1>2. pc \in [Conns -> Labels] /\ replies \in [StreamConns -> Nat]
  BY DEF IInv, TypeOK
<1>3. replies' \in [StreamConns -> Nat] /\ replies'[c] = replies[c] + 1
      /\ \A d \in StreamConns \ {c} : replies'[d] = replies[d]
  BY <1>1, <1>2
<1>4. pc'[c] = "receive" /\ AddedAt(c)' = AddedAt(c)
  BY <1>1, <1>2 DEF AddedAt, Conns
<1>5. Balanced(c)'
  BY <1>1, <1>3, <1>4, Numbers DEF Balanced
<1>6. TypeOK'
  BY <1>1, <1>2, <1>3 DEF IInv, TypeOK, Labels
<1>7. Hands' /\ OneInHand'
  BY <1>1, <1>2, ConnsAssumption DEF IInv, Hands, OneInHand, Conns
<1>8. Alternating' /\ EvenWire'
  BY <1>1 DEF IInv, Alternating, EvenWire
<1>9. Counts'
  <2> SUFFICES ASSUME NEW d \in StreamConns, d # c PROVE Balanced(d)'
    BY <1>5 DEF Counts
  <2>1. pc'[d] = pc[d] /\ replies'[d] = replies[d] /\ AddedAt(d)' = AddedAt(d) /\ Balanced(d)
    BY <1>1, <1>2, <1>3 DEF IInv, Counts, AddedAt, Conns
  <2> QED
    BY <2>1 DEF Balanced
<1> QED
  BY <1>6, <1>7, <1>8, <1>9 DEF IInv

LEMMA EnqueueStep == ASSUME IInv, NEW c \in StreamConns, Enqueue(c) PROVE IInv'
<1>1. /\ pc[c] = "add" /\ Deque!HasRoom(commandQueue)
      /\ commandQueue' = commandQueue \o cmd[c] /\ queued' = queued \o cmd[c]
      /\ cmd' = [cmd EXCEPT ![c] = <<>>] /\ pc' = [pc EXCEPT ![c] = "reply"]
      /\ UNCHANGED <<wire, current_task_id_, open, sent, replies, taken, results>>
  BY DEF Enqueue, Goto
<1>2. PICK k \in Commands : cmd[c] = <<k>> /\ k.from = c
  BY <1>1 DEF IInv, OneInHand
<1>3. /\ pc \in [Conns -> Labels] /\ cmd \in [Conns -> {<<>>} \cup {<<x>> : x \in Commands}]
      /\ commandQueue \in Seq(Commands) /\ queued \in Seq(Commands)
  BY DEF IInv, TypeOK
<1>4. PICK more : more = queued'
  OBVIOUS
<1>5. PICK longer : longer = commandQueue'
  OBVIOUS
<1>6. more = queued \o <<k>> /\ longer = commandQueue \o <<k>>
  BY <1>1, <1>2, <1>4, <1>5
<1>7. /\ more \in Seq(Commands) /\ Len(queued) \in Nat
      /\ DOMAIN queued = 1 .. Len(queued) /\ DOMAIN more = 1 .. Len(queued) + 1
      /\ \A i \in DOMAIN queued : more[i] = queued[i]
      /\ more[Len(queued) + 1] = k
  BY <1>3, <1>6, OneMore
<1>8. longer \in Seq(Commands) /\ Len(commandQueue) \in Nat /\ Len(longer) = Len(commandQueue) + 1
  BY <1>3, <1>6, OneMore
<1>9. Len(longer) <= Capacity
  BY <1>1, <1>8, SizesAssumption DEF Deque!HasRoom
<1>10. c \in Conns
  BY DEF Conns
<1>11. TypeOK'
  BY <1>1, <1>3, <1>4, <1>5, <1>7, <1>8, <1>9 DEF IInv, TypeOK, Labels
<1>12. Hands' /\ OneInHand'
  BY <1>1, <1>3, <1>10, ConnsAssumption DEF IInv, Hands, OneInHand, Conns
<1>13. Alternating' /\ EvenWire'
  BY <1>1 DEF IInv, Alternating, EvenWire
<1>14. Counts'
  <2> SUFFICES ASSUME NEW d \in StreamConns PROVE Balanced(d)'
    BY DEF Counts
  <2>1. AddedAt(d)' = {i \in DOMAIN more : more[i].from = d}
    BY <1>4 DEF AddedAt
  <2>2. replies'[d] = replies[d] /\ replies[d] \in Nat /\ Cardinality(AddedAt(d)) \in Nat /\ Balanced(d)
    BY <1>1, Numbers
  <2>3. CASE d # c
    <3>1. AddedAt(d)' = AddedAt(d)
      BY <1>2, <1>7, <2>1, <2>3 DEF AddedAt
    <3>2. pc'[d] = pc[d]
      BY <1>1, <1>3, <2>3
    <3> QED
      BY <2>2, <3>1, <3>2 DEF Balanced
  <2>4. CASE d = c
    <3>1. AddedAt(d)' = AddedAt(d) \cup {Len(queued) + 1}
      BY <1>2, <1>7, <2>1, <2>4 DEF AddedAt
    <3>2. Len(queued) + 1 \notin AddedAt(d)
      BY <1>7 DEF AddedAt
    <3>3. Cardinality(AddedAt(d))' = Cardinality(AddedAt(d)) + 1
      BY <3>1, <3>2, AddedFinite, FS_AddElement DEF IInv
    <3>4. pc'[d] = "reply"
      BY <1>1, <1>3, <1>10, <2>4
    <3> QED
      BY <1>1, <2>2, <2>4, <3>3, <3>4 DEF Balanced
  <2> QED
    BY <2>3, <2>4
<1> QED
  BY <1>11, <1>12, <1>13, <1>14 DEF IInv

LEMMA EndOfStreamStep == ASSUME IInv, NEW c \in StreamConns, EndOfStream(c) PROVE IInv'
<1>1. /\ pc[c] = "receive" /\ pc' = [pc EXCEPT ![c] = "deleted"]
      /\ UNCHANGED <<commandQueue, wire, current_task_id_, cmd, open, sent, replies, queued, taken, results>>
  BY DEF EndOfStream, Goto
<1>2. /\ c \in Conns /\ c \notin StateConns /\ "deleted" \in Labels /\ pc \in [Conns -> Labels]
      /\ cmd \in [Conns -> {<<>>} \cup {<<k>> : k \in Commands}]
      /\ taken \in [StateConns -> Seq(Commands)] /\ results \in [StateConns -> Seq(Results)]
      /\ replies \in [StreamConns -> Nat]
  BY ConnsAssumption DEF IInv, TypeOK, Conns, Labels
<1>3. cmd' = [cmd EXCEPT ![c] = cmd[c]] /\ cmd[c] \in {<<>>} \cup {<<k>> : k \in Commands}
  BY <1>1, <1>2
<1>4. pc'[c] = "deleted" /\ AddedAt(c)' = AddedAt(c)
  BY <1>1, <1>2 DEF AddedAt
<1>5. Balanced(c)'
  BY <1>1, <1>4, Numbers DEF Balanced
<1> QED
  BY <1>1, <1>2, <1>3, <1>5, QuietStep

LEMMA StatusStep ==
  ASSUME IInv, NEW c \in StateConns, WriteStatus(c) \/ Poll(c)
  PROVE  IInv'
<1>1. /\ pc[c] \in {"status", "poll"}
      /\ pc' = [pc EXCEPT ![c] = "poll"] \/ pc' = [pc EXCEPT ![c] = "status"]
           \/ pc' = [pc EXCEPT ![c] = "remove"]
      /\ UNCHANGED <<commandQueue, wire, current_task_id_, cmd, open, sent, replies, queued, taken, results>>
  BY DEF WriteStatus, Poll, Goto
<1>2. PICK l \in {"poll", "status", "remove"} : pc' = [pc EXCEPT ![c] = l]
  BY <1>1
<1>3. /\ c \in Conns /\ c \notin StreamConns /\ pc \in [Conns -> Labels]
      /\ cmd \in [Conns -> {<<>>} \cup {<<k>> : k \in Commands}]
      /\ taken \in [StateConns -> Seq(Commands)] /\ results \in [StateConns -> Seq(Results)]
      /\ replies \in [StreamConns -> Nat] /\ l \in Labels
  BY ConnsAssumption DEF IInv, TypeOK, Conns, Labels
<1>4. cmd[c] = <<>>
  BY <1>1 DEF IInv, Hands
<1>5. cmd' = [cmd EXCEPT ![c] = <<>>]
  BY <1>1, <1>3, <1>4
<1> QED
  BY <1>1, <1>2, <1>3, <1>5, QuietStep

LEMMA WriteResultStep == ASSUME IInv, NEW c \in StateConns, WriteResult(c) PROVE IInv'
<1>1. /\ pc[c] = "result"
      /\ results' = IF open[c] THEN [results EXCEPT ![c] = Append(@, TaskResult(cmd[c][1]))]
                               ELSE results
      /\ cmd' = [cmd EXCEPT ![c] = <<>>] /\ pc' = [pc EXCEPT ![c] = "status"]
      /\ UNCHANGED <<commandQueue, wire, current_task_id_, open, sent, replies, queued, taken>>
  BY DEF WriteResult, Goto
<1>2. /\ c \in Conns /\ c \notin StreamConns /\ "status" \in Labels
      /\ taken \in [StateConns -> Seq(Commands)] /\ results \in [StateConns -> Seq(Results)]
      /\ replies \in [StreamConns -> Nat]
  BY ConnsAssumption DEF IInv, TypeOK, Conns, Labels
<1>3. TaskResult(cmd[c][1]) \in Results
  <2>1. PICK k \in Commands : cmd[c] = <<k>>
    BY <1>1 DEF IInv, Hands
  <2> QED
    BY <2>1 DEF Commands, TaskResult, Results
<1>4. results' \in [StateConns -> Seq(Results)]
  <2>1. Append(results[c], TaskResult(cmd[c][1])) \in Seq(Results)
    BY <1>2, <1>3, AppendProperties
  <2> QED
    BY <1>1, <1>2, <2>1
<1> QED
  BY <1>1, <1>2, <1>4, QuietStep

LEMMA WriteFailsStep == ASSUME IInv, NEW c \in Conns, WriteFails(c) PROVE IInv'
<1>1. /\ pc[c] \in {"reply", "status", "result"}
      /\ cmd' = [cmd EXCEPT ![c] = <<>>] /\ pc' = [pc EXCEPT ![c] = "deleted"]
      /\ UNCHANGED <<commandQueue, wire, current_task_id_, open, sent, replies, queued, taken, results>>
  BY DEF WriteFails, Goto
<1>2. /\ "deleted" \in Labels /\ pc \in [Conns -> Labels]
      /\ taken \in [StateConns -> Seq(Commands)] /\ results \in [StateConns -> Seq(Results)]
      /\ replies \in [StreamConns -> Nat]
  BY DEF IInv, TypeOK, Labels
<1>3. ASSUME c \in StreamConns PROVE Balanced(c)'
  <2>1. pc'[c] = "deleted" /\ AddedAt(c)' = AddedAt(c) /\ replies'[c] = replies[c]
    BY <1>1, <1>2 DEF AddedAt
  <2> QED
    BY <1>1, <1>3, <2>1, Numbers DEF Balanced
<1> QED
  BY <1>1, <1>2, <1>3, QuietStep

LEMMA DequeueStep == ASSUME IInv, NEW c \in StateConns, Dequeue(c) PROVE IInv'
<1> DEFINE k == Deque!Taken(commandQueue)
<1>1. /\ Deque!HasItem(commandQueue)
      /\ taken' = [taken EXCEPT ![c] = Append(@, k)]
      /\ cmd' = [cmd EXCEPT ![c] = IF k.command_type # 0 THEN <<k>> ELSE <<>>]
      /\ pc' = [pc EXCEPT ![c] = IF k.command_type # 0 THEN "result" ELSE "status"]
      /\ commandQueue' = Deque!Rest(commandQueue)
      /\ UNCHANGED <<wire, current_task_id_, open, sent, replies, queued, results>>
  BY DEF Dequeue, Goto
<1>2. /\ commandQueue \in Seq(Commands) /\ Len(commandQueue) <= Capacity
      /\ pc \in [Conns -> Labels] /\ cmd \in [Conns -> {<<>>} \cup {<<x>> : x \in Commands}]
      /\ taken \in [StateConns -> Seq(Commands)] /\ c \in Conns /\ c \notin StreamConns
  BY ConnsAssumption DEF IInv, TypeOK, Conns
<1>3. /\ k \in Commands /\ Deque!Rest(commandQueue) \in Seq(Commands)
      /\ Len(commandQueue) \in Nat \ {0}
      /\ Len(Deque!Rest(commandQueue)) = Len(commandQueue) - 1
  BY <1>1, <1>2, QueueProperties
<1> HIDE DEF k
<1>4. PICK rest : rest = Deque!Rest(commandQueue)
  OBVIOUS
<1>5. rest \in Seq(Commands) /\ Len(rest) <= Capacity
  BY <1>2, <1>3, <1>4, SizesAssumption
<1>6. taken' \in [StateConns -> Seq(Commands)]
  BY <1>1, <1>2, <1>3, AppendProperties
<1>7. /\ pc' \in [Conns -> Labels] /\ cmd' \in [Conns -> {<<>>} \cup {<<x>> : x \in Commands}]
  BY <1>1, <1>2, <1>3 DEF Labels
<1>8. TypeOK'
  BY <1>1, <1>4, <1>5, <1>6, <1>7 DEF IInv, TypeOK
<1>9. Hands'
  <2>1. k.command_type # 0 => IsPoint(k)
    BY <1>3 DEF Commands, IsPoint
  <2>2. \A d \in StateConns \ {c} : pc'[d] = pc[d] /\ cmd'[d] = cmd[d]
    BY <1>1, <1>2 DEF Conns
  <2> QED
    BY <1>1, <1>2, <1>3, <2>1, <2>2 DEF IInv, Hands, IsPoint
<1>10. \A d \in StreamConns : pc'[d] = pc[d] /\ cmd'[d] = cmd[d]
  BY <1>1, <1>2 DEF Conns
<1>11. OneInHand'
  BY <1>10 DEF IInv, OneInHand
<1>12. Alternating' /\ EvenWire'
  BY <1>1 DEF IInv, Alternating, EvenWire
<1>13. Counts'
  BY <1>1, <1>10 DEF IInv, Counts, Balanced, AddedAt
<1> QED
  BY <1>8, <1>9, <1>11, <1>12, <1>13 DEF IInv

LEMMA CloseStep == ASSUME IInv, NEW c \in Conns, Close(c) PROVE IInv'
<1>1. /\ open' = [open EXCEPT ![c] = FALSE]
      /\ UNCHANGED <<commandQueue, pc, wire, current_task_id_, cmd, sent, replies, queued, taken, results>>
  BY DEF Close
<1>2. TypeOK'
  BY <1>1 DEF IInv, TypeOK
<1>3. Counts'
  BY <1>1 DEF IInv, Counts, Balanced, AddedAt
<1> QED
  BY <1>1, <1>2, <1>3 DEF IInv, Hands, OneInHand, Alternating, EvenWire

LEMMA NextIInv == IInv /\ [Next]_vars => IInv'
<1> SUFFICES ASSUME IInv, [Next]_vars PROVE IInv'
  OBVIOUS
<1>1. CASE UNCHANGED vars
  BY <1>1 DEF vars, IInv, TypeOK, Hands, OneInHand, Alternating, EvenWire, Counts, Balanced, AddedAt
<1>2. ASSUME NEW c \in StreamConns, Send(c) \/ StreamStep(c) PROVE IInv'
  BY <1>2, SendStep, ReceiveStep, EnqueueStep, ReplyStep, EndOfStreamStep DEF StreamStep
<1>3. ASSUME NEW c \in StateConns, StateStep(c) PROVE IInv'
  BY <1>3, StatusStep, DequeueStep, WriteResultStep DEF StateStep
<1>4. ASSUME NEW c \in Conns, Close(c) \/ WriteFails(c) PROVE IInv'
  BY <1>4, CloseStep, WriteFailsStep
<1> QED
  BY <1>1, <1>2, <1>3, <1>4 DEF Next

-----------------------------------------------------------------------------
THEOREM InductiveInvariant == Spec => []IInv
  BY InitIInv, NextIInv, PTL DEF Spec

(* Every variable keeps its type, whatever garbage half a packet is read   *)
(* as; in particular commandQueue never holds more than size_ commands.    *)
THEOREM TypeCorrect == Spec => []TypeOK
<1>1. IInv => TypeOK
  BY DEF IInv
<1> QED
  BY <1>1, InductiveInvariant, PTL

(* A reply is written only after the packet's command is queued, and one   *)
(* receive() adds one command at most.                                     *)
THEOREM RepliesCountCommandsHolds == Spec => []RepliesCountCommands
<1>1. IInv => RepliesCountCommands
  <2> SUFFICES ASSUME IInv, NEW c \in StreamConns
               PROVE  /\ Commanding(c) => replies[c] <= Cardinality(AddedAt(c))
                      /\ Cardinality(AddedAt(c)) <= replies[c] + 1
    BY DEF RepliesCountCommands
  <2> QED
    BY Numbers DEF Balanced
<1> QED
  BY <1>1, InductiveInvariant, PTL

-----------------------------------------------------------------------------
(* Whole packets: what was sent and not received is a stretch of the       *)
(* script.  So the packet a receive() begins with is the next one of the   *)
(* script, even when others are lost behind it.                            *)

\* Packets of c that are no longer on the wire.
Read(c) == sent[c] - Len(wire[c]) \div 2

\* What is on the wire of a connection whose packets stay whole.
InFlight(c) ==
  /\ Read(c) \in 0 .. sent[c] /\ sent[c] <= Len(Script[c])
  /\ Len(wire[c]) = 2 * (sent[c] - Read(c))
  /\ \A m \in 1 .. sent[c] - Read(c) :
       /\ wire[c][2 * m - 1] = [pkt |-> Script[c][Read(c) + m], part |-> "header"]
       /\ wire[c][2 * m] = [pkt |-> Script[c][Read(c) + m], part |-> "body"]

\* The points of c that are not yet read have greater ids than n.
Ahead(c, n) ==
  \A m \in DOMAIN Script[c] :
     m > Read(c) /\ Script[c][m].kind = "JOINT_TRAJ_PT" => n < Script[c][m].id

\* Points queued, the point in hand and the points to be read are in order.
Ordered(c) ==
  /\ \A i \in AddedAt(c) : IsPoint(queued[i]) => Ahead(c, queued[i].sequence_id)
  /\ \A i, j \in AddedAt(c) :
        i < j /\ IsPoint(queued[i]) /\ IsPoint(queued[j])
          => queued[i].sequence_id < queued[j].sequence_id
  /\ pc[c] = "add" /\ IsPoint(cmd[c][1]) =>
       /\ Ahead(c, cmd[c][1].sequence_id)
       /\ \A i \in AddedAt(c) : IsPoint(queued[i]) => queued[i].sequence_id < cmd[c][1].sequence_id

\* A client that awaits its replies is at most one packet ahead.
InStep(c) ==
  /\ sent[c] <= replies[c] + 1
  /\ pc[c] # "deleted" =>
       /\ Read(c) = replies[c] + (IF pc[c] \in {"add", "reply"} THEN 1 ELSE 0)
       /\ Cardinality(AddedAt(c)) = replies[c] + (IF pc[c] = "reply" THEN 1 ELSE 0)
  /\ Read(c) >= 1 => current_task_id_[c] = Script[c][LastTask(c, Read(c))].id
  /\ pc[c] = "add" => cmd[c] = <<Asked(c, Read(c))>>
  /\ \A i \in AddedAt(c) : Rank(c, i) \in 1 .. Read(c) /\ queued[i] = Asked(c, Rank(c, i))

FlowOf(c) == InFlight(c) /\ (Numbered(c) => Ordered(c)) /\ (Awaits(c) => InStep(c))
Flow == \A c \in StreamConns \ Fragmented : FlowOf(c)

LEMMA Halved ==
  ASSUME NEW x \in Int, NEW k \in Int, NEW y, y = 2 * (x - k)
  PROVE  x - y \div 2 = k
<1>1. y \div 2 = x - k
  OBVIOUS
<1> QED
  BY <1>1

LEMMA FlowInit == Init => Flow
<1> SUFFICES ASSUME Init, NEW c \in StreamConns \ Fragmented PROVE FlowOf(c)
  BY DEF Flow
<1>1. /\ wire[c] = <<>> /\ sent[c] = 0 /\ replies[c] = 0 /\ pc[c] = "receive" /\ AddedAt(c) = {}
  BY DEF Init, AddedAt, Conns
<1>2. Len(wire[c]) = 0 /\ 0 = 2 * (0 - 0)
  BY <1>1
<1>3. Read(c) = 0
  BY <1>1, <1>2, Halved DEF Read
<1>4. Len(Script[c]) \in Nat
  BY ConnsAssumption, LenProperties
<1>5. Cardinality(AddedAt(c)) = 0
  BY <1>1, FS_EmptySet
<1> QED
  BY <1>1, <1>2, <1>3, <1>4, <1>5 DEF FlowOf, InFlight, Ordered, InStep

\* What happens to other connections does not matter to c.
LEMMA FlowFrame ==
  ASSUME NEW c, FlowOf(c), wire'[c] = wire[c], sent'[c] = sent[c], pc'[c] = pc[c], cmd'[c] = cmd[c],
         current_task_id_'[c] = current_task_id_[c], replies'[c] = replies[c], AddedAt(c)' = AddedAt(c),
         \A i \in AddedAt(c) : queued'[i] = queued[i]
  PROVE  FlowOf(c)'
<1>1. Read(c)' = Read(c)
  BY DEF Read
<1>2. \A n : Ahead(c, n)' <=> Ahead(c, n)
  BY <1>1 DEF Ahead
<1>3. \A i : Rank(c, i)' = Rank(c, i)
  BY DEF Rank
<1>4. InFlight(c)'
  BY <1>1 DEF FlowOf, InFlight
<1>5. Ordered(c) => Ordered(c)'
  BY <1>2 DEF Ordered, IsPoint
<1>6. InStep(c) => InStep(c)'
  BY <1>1, <1>3 DEF InStep
<1> QED
  BY <1>4, <1>5, <1>6 DEF FlowOf

LEMMA FlowSend == ASSUME IInv, Flow, NEW c \in StreamConns, Send(c) PROVE Flow'
<1> SUFFICES ASSUME NEW d \in StreamConns \ Fragmented PROVE FlowOf(d)'
  BY DEF Flow
<1> DEFINE p == Script[c][sent[c] + 1]
           h == [pkt |-> p, part |-> "header"]
           b == [pkt |-> p, part |-> "body"]
           s == wire[c]
<1>1. /\ sent' = [sent EXCEPT ![c] = @ + 1] /\ wire' = [wire EXCEPT ![c] = s \o <<h, b>>]
      /\ UNCHANGED <<pc, current_task_id_, cmd, replies, queued>>
      /\ sent[c] < Len(Script[c]) /\ sent[c] - replies[c] < Window
  BY DEF Send
<1>2. /\ sent \in [StreamConns -> Nat] /\ replies \in [StreamConns -> Nat]
      /\ wire \in [StreamConns -> Seq(Fragments)] /\ FlowOf(d)
      /\ Script[c] \in Seq(Packets) /\ Len(Script[c]) \in Nat
  BY ConnsAssumption, LenProperties DEF IInv, TypeOK, Fragments, Flow
<1>3. AddedAt(d)' = AddedAt(d)
  BY <1>1 DEF AddedAt
<1>4. CASE d # c
  BY <1>1, <1>2, <1>3, <1>4, FlowFrame
<1>5. CASE d = c
  <2>1. s \in Seq(Fragments) /\ h \in Fragments /\ b \in Fragments
    <3>1. sent[c] + 1 \in 1 .. Len(Script[c])
      BY <1>1, <1>2
    <3>2. p \in Packets
      BY <1>2, <3>1, ElementOfSeq
    <3> QED
      BY <1>2, <3>2 DEF Fragments
  <2>2. PICK w : w = s \o <<h, b>>
    OBVIOUS
  <2>3. wire'[c] = w /\ sent'[c] = sent[c] + 1
    BY <1>1, <1>2, <2>2
  <2> HIDE DEF p, h, b, s
  <2>4. /\ Len(s) \in Nat /\ Len(w) = Len(s) + 2 /\ DOMAIN s = 1 .. Len(s)
        /\ \A i \in DOMAIN s : w[i] = s[i]
        /\ w[Len(s) + 1] = h /\ w[Len(s) + 2] = b
    BY <2>1, <2>2, TwoMore
  <2>5. PICK k \in 0 .. sent[c] : k = Read(c)
    BY <1>2, <1>5 DEF FlowOf, InFlight
  <2>6. /\ Len(s) = 2 * (sent[c] - k)
        /\ \A m \in 1 .. sent[c] - k :
             /\ s[2 * m - 1] = [pkt |-> Script[c][k + m], part |-> "header"]
             /\ s[2 * m] = [pkt |-> Script[c][k + m], part |-> "body"]
    BY <1>2, <1>5, <2>5 DEF FlowOf, InFlight, s
  <2>7. sent[c] \in Nat /\ k \in Nat /\ Len(w) = 2 * ((sent[c] + 1) - k)
    BY <1>2, <2>4, <2>5, <2>6
  <2>8. Read(c)' = k
    <3>1. Len(wire'[c]) = 2 * (sent'[c] - k) /\ sent'[c] \in Int /\ k \in Int
      BY <2>3, <2>7
    <3> QED
      BY <3>1, Halved DEF Read
  <2>9. ASSUME NEW m \in 1 .. (sent[c] + 1) - k
        PROVE  /\ w[2 * m - 1] = [pkt |-> Script[c][k + m], part |-> "header"]
               /\ w[2 * m] = [pkt |-> Script[c][k + m], part |-> "body"]
    <3>1. CASE m \in 1 .. sent[c] - k
      <4>1. 2 * m - 1 \in 1 .. Len(s) /\ 2 * m \in 1 .. Len(s)
        <5>1. Len(s) = 2 * (sent[c] - k) /\ sent[c] \in Nat /\ k \in Nat
          BY <2>6, <2>7
        <5> QED
          BY <3>1, <5>1
      <4>2. w[2 * m - 1] = s[2 * m - 1] /\ w[2 * m] = s[2 * m]
        BY <2>4, <4>1
      <4> QED
        BY <2>6, <3>1, <4>2
    <3>2. CASE m = (sent[c] + 1) - k
      <4>1. 2 * m - 1 = Len(s) + 1 /\ 2 * m = Len(s) + 2 /\ k + m = sent[c] + 1
        BY <2>6, <2>7, <3>2
      <4>2. w[2 * m - 1] = h /\ w[2 * m] = b
        BY <2>4, <4>1
      <4> QED
        BY <4>1, <4>2 DEF h, b, p
    <3> QED
      BY <2>7, <3>1, <3>2
  <2>10. InFlight(c)'
    <3>1. k \in 0 .. sent[c] + 1 /\ sent[c] + 1 <= Len(Script[c])
      <4>1. sent[c] < Len(Script[c]) /\ Len(Script[c]) \in Nat /\ sent[c] \in Nat
        BY <1>1, <1>2
      <4> QED
        BY <2>5, <4>1
    <3> QED
      BY <2>3, <2>7, <2>8, <2>9, <3>1 DEF InFlight
  <2>11. Ordered(c) => Ordered(c)'
    <3>1. \A n : Ahead(c, n)' <=> Ahead(c, n)
      BY <2>5, <2>8 DEF Ahead
    <3> QED
      BY <1>1, <1>3, <1>5, <3>1 DEF Ordered, IsPoint
  <2>12. Awaits(c) /\ InStep(c) => InStep(c)'
    <3>1. \A i : Rank(c, i)' = Rank(c, i)
      BY <1>3, <1>5 DEF Rank
    <3>2. Awaits(c) => sent'[c] <= replies'[c] + 1
      BY <1>1, <1>2, <2>3 DEF Awaits
    <3> QED
      BY <1>1, <1>3, <1>5, <2>5, <2>8, <3>1, <3>2 DEF InStep
  <2> QED
    BY <1>2, <1>5, <2>10, <2>11, <2>12 DEF FlowOf
<1> QED
  BY <1>4, <1>5

LEMMA LastTaskStep ==
  ASSUME NEW c, NEW k \in Nat
  PROVE  /\ Script[c][k + 1].kind = "TASK" => LastTask(c, k + 1) = k + 1
         /\ Script[c][k + 1].kind # "TASK" => LastTask(c, k + 1) = LastTask(c, k)
<1> DEFINE T(i) == {j \in 1 .. i : Script[c][j].kind = "TASK"}
<1>1. CASE Script[c][k + 1].kind = "TASK"
  <2>1. k + 1 \in T(k + 1) /\ \A j \in T(k + 1) : k + 1 >= j
    BY <1>1
  <2>2. \A i \in T(k + 1) : (\A j \in T(k + 1) : i >= j) => i = k + 1
    BY <2>1
  <2> QED
    BY <1>1, <2>1, <2>2 DEF LastTask, Max
<1>2. CASE Script[c][k + 1].kind # "TASK"
  <2>1. T(k + 1) = T(k)
    BY <1>2
  <2> QED
    BY <1>2, <2>1 DEF LastTask
<1> QED
  BY <1>1, <1>2

LEMMA EvenIsDouble ==
  ASSUME NEW n \in Nat \ {0}, n % 2 = 0
  PROVE  \E h \in Nat \ {0} : n = 2 * h
<1>1. n \div 2 \in Nat \ {0} /\ n = 2 * (n \div 2)
  OBVIOUS
<1> QED
  BY <1>1

LEMMA FlowReceive == ASSUME IInv, Flow, NEW c \in StreamConns, Receive(c) PROVE Flow'
<1> SUFFICES ASSUME NEW d \in StreamConns \ Fragmented PROVE FlowOf(d)'
  BY DEF Flow
<1> DEFINE s == wire[c]
<1>1. PICK n \in 1 .. MaxReceive :
        /\ n <= Len(s) /\ (c \in Fragmented \/ n % 2 = 0)
        /\ wire' = [wire EXCEPT ![c] = SubSeq(s, n + 1, Len(s))]
        /\ \E p \in Readings(SubSeq(s, 1, n)) :
             /\ current_task_id_' = IF p.kind = "TASK"
                                    THEN [current_task_id_ EXCEPT ![c] = p.id]
                                    ELSE current_task_id_
             /\ cmd' = [cmd EXCEPT ![c] = CommandsFor(c, p, current_task_id_[c])]
             /\ Goto(c, IF p.kind = "OTHER" THEN "reply" ELSE "add")
  BY DEF Receive
<1>2. pc[c] = "receive" /\ UNCHANGED <<sent, replies, queued>>
  BY DEF Receive
<1>3. PICK got : got = SubSeq(s, 1, n)
  OBVIOUS
<1>4. PICK w : w = SubSeq(s, n + 1, Len(s))
  OBVIOUS
<1>5. PICK p \in Readings(got) :
        /\ current_task_id_' = IF p.kind = "TASK"
                               THEN [current_task_id_ EXCEPT ![c] = p.id]
                               ELSE current_task_id_
        /\ cmd' = [cmd EXCEPT ![c] = CommandsFor(c, p, current_task_id_[c])]
        /\ Goto(c, IF p.kind = "OTHER" THEN "reply" ELSE "add")
  BY <1>1, <1>3
<1>6. /\ wire \in [StreamConns -> Seq(Fragments)] /\ wire' = [wire EXCEPT ![c] = w]
      /\ current_task_id_ \in [StreamConns -> Ids] /\ sent \in [StreamConns -> Nat] /\ replies \in [StreamConns -> Nat]
      /\ pc \in [Conns -> Labels] /\ cmd \in [Conns -> {<<>>} \cup {<<x>> : x \in Commands}]
      /\ c \in Conns /\ d \in Conns /\ FlowOf(d)
  BY <1>1, <1>4 DEF IInv, TypeOK, Fragments, Conns, Flow
<1>7. AddedAt(d)' = AddedAt(d)
  BY <1>2 DEF AddedAt
<1>8. pc' = [pc EXCEPT ![c] = IF p.kind = "OTHER" THEN "reply" ELSE "add"]
  BY <1>5 DEF Goto
<1>9. CASE d # c
  <2>1. /\ wire'[d] = wire[d] /\ pc'[d] = pc[d] /\ cmd'[d] = cmd[d]
        /\ current_task_id_'[d] = current_task_id_[d]
    BY <1>5, <1>6, <1>8, <1>9
  <2> QED
    BY <1>2, <1>6, <1>7, <2>1, FlowFrame
<1>10. CASE d = c
  <2>1. n \in Nat \ {0} /\ n % 2 = 0 /\ n <= Len(s)
    BY <1>1, <1>10, SizesAssumption
  <2>2. PICK h \in Nat \ {0} : n = 2 * h
    BY <2>1, EvenIsDouble
  <2>3. s \in Seq(Fragments) /\ c \notin Fragmented
    BY <1>6, <1>10
  <2> HIDE DEF s
  <2>4. /\ Len(s) \in Nat /\ Len(w) = Len(s) - n
        /\ \A i \in DOMAIN w : i \in Nat /\ n + i \in DOMAIN s /\ w[i] = s[n + i]
        /\ 1 \in DOMAIN s /\ got[1] = s[1] /\ w \in Seq(Fragments) /\ DOMAIN s = 1 .. Len(s)
    BY <1>3, <1>4, <2>1, <2>3, Dropped
  <2>5. Len(got) = n
    <3>1. \A i \in 1 .. n : s[i] \in Fragments
      BY <2>1, <2>3, <2>4, ElementOfSeq
    <3>2. Len(got) = IF 1 <= n THEN n - 1 + 1 ELSE 0
      BY <1>3, <2>1, <3>1, SubSeqProperties
    <3> QED
      BY <2>1, <3>2
  <2>6. sent[c] \in Nat /\ replies[c] \in Nat /\ sent'[c] = sent[c] /\ replies'[c] = replies[c]
    BY <1>2, <1>6
  <2>7. PICK k \in Nat : k = Read(c) /\ k <= sent[c]
    BY <1>6, <1>10, <2>6 DEF FlowOf, InFlight
  <2>8. Len(s) = 2 * (sent[c] - k) /\ sent[c] <= Len(Script[c])
    BY <1>6, <1>10, <2>7 DEF FlowOf, InFlight, s
  <2>9. \A m \in 1 .. sent[c] - k :
          /\ s[2 * m - 1] = [pkt |-> Script[c][k + m], part |-> "header"]
          /\ s[2 * m] = [pkt |-> Script[c][k + m], part |-> "body"]
    BY <1>6, <1>10, <2>7 DEF FlowOf, InFlight, s
  <2>10. h <= sent[c] - k /\ Len(w) = 2 * (sent[c] - (k + h))
    BY <2>1, <2>2, <2>4, <2>6, <2>8
  <2>11. wire'[c] = w
    BY <1>6
  <2>12. Read(c)' = k + h
    <3>1. Len(wire'[c]) = 2 * (sent'[c] - (k + h)) /\ sent'[c] \in Int /\ k + h \in Int
      BY <2>6, <2>10, <2>11
    <3> QED
      BY <3>1, Halved DEF Read
  <2>13. InFlight(c)'
    <3>1. k + h \in 0 .. sent[c]
      BY <2>6, <2>10
    <3>2. ASSUME NEW m \in 1 .. sent[c] - (k + h)
          PROVE  /\ w[2 * m - 1] = [pkt |-> Script[c][(k + h) + m], part |-> "header"]
                 /\ w[2 * m] = [pkt |-> Script[c][(k + h) + m], part |-> "body"]
      <4>1. 2 * m - 1 \in 1 .. Len(w) /\ 2 * m \in 1 .. Len(w)
        <5>1. Len(w) = 2 * (sent[c] - (k + h)) /\ sent[c] \in Nat
          BY <2>6, <2>10
        <5> QED
          BY <5>1
      <4>2. DOMAIN w = 1 .. Len(w)
        BY <2>4, LenProperties
      <4>3. w[2 * m - 1] = s[n + (2 * m - 1)] /\ w[2 * m] = s[n + 2 * m]
        BY <2>4, <4>1, <4>2
      <4>4. n + (2 * m - 1) = 2 * (h + m) - 1 /\ n + 2 * m = 2 * (h + m) /\ (k + h) + m = k + (h + m)
        BY <2>2
      <4>5. h + m \in 1 .. sent[c] - k
        BY <2>6
      <4> QED
        BY <2>9, <4>3, <4>4, <4>5
    <3> QED
      BY <2>6, <2>8, <2>10, <2>11, <2>12, <3>1, <3>2 DEF InFlight
  <2>14. /\ p.kind = Script[c][k + 1].kind /\ p.id = Script[c][k + 1].id
         /\ k + 1 \in DOMAIN Script[c] /\ k + 1 <= k + h
    <3>1. 1 \in 1 .. sent[c] - k /\ 2 * 1 - 1 = 1
      BY <2>6, <2>10
    <3>2. s[1] = [pkt |-> Script[c][k + 1], part |-> "header"]
      BY <2>9, <3>1
    <3>3. Len(got) > 1
      BY <2>2, <2>5
    <3>4. p.kind = Script[c][k + 1].kind /\ p.id = Script[c][k + 1].id
      BY <1>5, <2>4, <3>2, <3>3 DEF Readings
    <3>5. k + 1 \in 1 .. Len(Script[c])
      <4>1. Len(Script[c]) \in Nat
        BY ConnsAssumption, LenProperties
      <4>2. sent[c] <= Len(Script[c]) /\ h <= sent[c] - k /\ sent[c] \in Nat
        BY <2>6, <2>8, <2>10
      <4> QED
        BY <4>1, <4>2
    <3>6. DOMAIN Script[c] = 1 .. Len(Script[c])
      BY ConnsAssumption, LenProperties
    <3> QED
      BY <3>4, <3>5, <3>6
  <2>15. pc'[c] = (IF p.kind = "OTHER" THEN "reply" ELSE "add") /\ cmd'[c] = CommandsFor(c, p, current_task_id_[c])
    BY <1>5, <1>6, <1>8
  <2>16. ASSUME Numbered(c), Ordered(c) PROVE Ordered(c)'
    <3>1. \A x : Ahead(c, x) => Ahead(c, x)'
      <4>1. \A m \in DOMAIN Script[c] : m > k + h => m > k
        <5>1. \A m \in DOMAIN Script[c] : m \in Nat
          BY ConnsAssumption, LenProperties
        <5> QED
          BY <5>1
      <4> QED
        BY <2>7, <2>12, <4>1 DEF Ahead
    <3>2. CASE p.kind = "JOINT_TRAJ_PT"
      <4>1. cmd'[c] = <<Command(c, current_task_id_[c], p.id, 1)>>
        BY <2>15, <3>2 DEF CommandsFor
      <4>2. cmd'[c][1].sequence_id = p.id
        BY <4>1 DEF Command
      <4>3. \A x : Ahead(c, x) => x < p.id
        <5>1. k + 1 > Read(c) /\ Script[c][k + 1].kind = "JOINT_TRAJ_PT" /\ k + 1 \in DOMAIN Script[c]
          BY <2>7, <2>14, <3>2
        <5> QED
          BY <2>14, <5>1 DEF Ahead
      <4>4. ASSUME NEW m \in DOMAIN Script[c], m > k + h, Script[c][m].kind = "JOINT_TRAJ_PT"
            PROVE  p.id < Script[c][m].id
        <5>1. m \in Nat
          BY ConnsAssumption, LenProperties
        <5>2. k + 1 < m
          BY <2>14, <4>4, <5>1
        <5> QED
          BY <2>14, <2>16, <3>2, <4>4, <5>2 DEF Numbered
      <4>5. Ahead(c, p.id)'
        BY <2>12, <4>4 DEF Ahead
      <4>6. \A i \in AddedAt(c) : IsPoint(queued[i]) => queued[i].sequence_id < p.id
        BY <2>16, <4>3 DEF Ordered
      <4> QED
        BY <1>2, <1>7, <1>10, <2>16, <3>1, <4>2, <4>5, <4>6 DEF Ordered, IsPoint
    <3>3. CASE p.kind = "TASK"
      <4>1. cmd'[c] = <<Command(c, p.id, -1, 0)>>
        BY <2>15, <3>3 DEF CommandsFor
      <4>2. ~IsPoint(cmd'[c][1])
        BY <4>1 DEF Command, IsPoint
      <4> QED
        BY <1>2, <1>7, <1>10, <2>16, <3>1, <4>2 DEF Ordered, IsPoint
    <3>4. CASE p.kind = "OTHER"
      BY <1>2, <1>7, <1>10, <2>15, <2>16, <3>1, <3>4 DEF Ordered, IsPoint
    <3> QED
      BY <1>5, <3>2, <3>3, <3>4 DEF Readings, Packets, Kinds
  <2>17. ASSUME Awaits(c), InStep(c) PROVE InStep(c)'
    <3>1. k = replies[c] /\ sent[c] <= replies[c] + 1 /\ Cardinality(AddedAt(c)) = replies[c]
      BY <1>2, <2>6, <2>7, <2>17 DEF InStep
    <3>2. h = 1 /\ Read(c)' = k + 1 /\ k + 1 = replies[c] + 1
      BY <2>6, <2>10, <2>12, <3>1
    <3>3. p.kind # "OTHER" /\ p.kind \in Kinds
      BY <1>5, <2>14, <2>17 DEF Awaits, Commanding, Readings, Packets
    <3>4. pc'[c] = "add"
      BY <2>15, <3>3
    <3>5. /\ current_task_id_'[c] = Script[c][LastTask(c, k + 1)].id
          /\ p.kind # "TASK" => current_task_id_[c] = Script[c][LastTask(c, k + 1)].id
      <4>1. CASE p.kind = "TASK"
        <5>1. LastTask(c, k + 1) = k + 1
          BY <2>14, <4>1, LastTaskStep
        <5> QED
          BY <1>5, <1>6, <2>14, <4>1, <5>1
      <4>2. CASE p.kind # "TASK"
        <5>1. LastTask(c, k + 1) = LastTask(c, k)
          BY <2>14, <4>2, LastTaskStep
        <5>2. k # 0
          <6>1. Script[c] # <<>>
            BY <2>14
          <6> QED
            BY <2>14, <2>17, <4>2, <6>1 DEF Awaits
        <5>3. current_task_id_[c] = Script[c][LastTask(c, k)].id
          BY <2>7, <2>17, <5>2 DEF InStep
        <5> QED
          BY <1>5, <4>2, <5>1, <5>3
      <4> QED
        BY <4>1, <4>2
    <3>6. cmd'[c] = <<Asked(c, k + 1)>>
      <4>1. CASE p.kind = "TASK"
        BY <2>14, <2>15, <4>1 DEF CommandsFor, Asked
      <4>2. CASE p.kind = "JOINT_TRAJ_PT"
        BY <2>14, <2>15, <3>5, <4>2 DEF CommandsFor, Asked
      <4> QED
        BY <3>3, <4>1, <4>2 DEF Kinds
    <3>7. \A i \in AddedAt(c) : Rank(c, i)' = Rank(c, i)
      BY <1>7, <1>10 DEF Rank
    <3>8. \A i \in AddedAt(c) : Rank(c, i) \in 1 .. k + 1 /\ queued[i] = Asked(c, Rank(c, i))
      BY <2>7, <2>17 DEF InStep
    <3> QED
      BY <1>2, <1>7, <1>10, <2>6, <3>1, <3>2, <3>4, <3>5, <3>6, <3>7, <3>8 DEF InStep
  <2> QED
    BY <1>6, <1>10, <2>13, <2>16, <2>17 DEF FlowOf
<1> QED
  BY <1>9, <1>10

\* Command k comes after the n that were queued so far and the q that still are.
AsEnqueued(c, k, n, q) ==
  /\ cmd[c] = <<k>> /\ k.from = c
  /\ DOMAIN queued = 1 .. n /\ DOMAIN queued' = 1 .. n + 1
  /\ \A i \in DOMAIN queued : queued'[i] = queued[i]
  /\ queued'[n + 1] = k
  /\ DOMAIN commandQueue = 1 .. q /\ DOMAIN commandQueue' = 1 .. q + 1
  /\ \A i \in DOMAIN commandQueue : commandQueue'[i] = commandQueue[i]
  /\ commandQueue'[q + 1] = k
  /\ n + 1 \notin AddedAt(c) /\ AddedAt(c)' = AddedAt(c) \cup {n + 1}
  /\ \A d \in StreamConns \ {c} : AddedAt(d)' = AddedAt(d)

(* What Enqueue does to the queue and to the record of what was queued.    *)
LEMMA Enqueued ==
  ASSUME IInv, NEW c \in StreamConns, Enqueue(c)
  PROVE  \E k \in Commands, n \in Nat, q \in Nat : AsEnqueued(c, k, n, q)
<1>1. /\ pc[c] = "add" /\ commandQueue' = commandQueue \o cmd[c] /\ queued' = queued \o cmd[c]
  BY DEF Enqueue
<1>2. PICK k \in Commands : cmd[c] = <<k>> /\ k.from = c
  BY <1>1 DEF IInv, OneInHand
<1>3. commandQueue \in Seq(Commands) /\ queued \in Seq(Commands)
  BY DEF IInv, TypeOK
<1>4. PICK more : more = queued'
  OBVIOUS
<1>5. PICK longer : longer = commandQueue'
  OBVIOUS
<1>6. more = queued \o <<k>> /\ longer = commandQueue \o <<k>>
  BY <1>1, <1>2, <1>4, <1>5
<1>7. PICK n \in Nat : n = Len(queued)
  BY <1>3, LenProperties
<1>8. PICK q \in Nat : q = Len(commandQueue)
  BY <1>3, LenProperties
<1>9. /\ DOMAIN queued = 1 .. n /\ DOMAIN more = 1 .. n + 1
      /\ \A i \in DOMAIN queued : more[i] = queued[i]
      /\ more[n + 1] = k
  BY <1>3, <1>6, <1>7, OneMore
<1>10. /\ DOMAIN commandQueue = 1 .. q /\ DOMAIN longer = 1 .. q + 1
       /\ \A i \in DOMAIN commandQueue : longer[i] = commandQueue[i]
       /\ longer[q + 1] = k
  BY <1>3, <1>6, <1>8, OneMore
<1>11. \A d : AddedAt(d)' = {i \in DOMAIN more : more[i].from = d}
  BY <1>4 DEF AddedAt
<1>12. n + 1 \notin AddedAt(c) /\ AddedAt(c)' = AddedAt(c) \cup {n + 1}
  BY <1>2, <1>9, <1>11 DEF AddedAt
<1>13. \A d \in StreamConns \ {c} : AddedAt(d)' = AddedAt(d)
  BY <1>2, <1>9, <1>11 DEF AddedAt
<1>14. AsEnqueued(c, k, n, q)
  BY <1>2, <1>4, <1>5, <1>9, <1>10, <1>12, <1>13 DEF AsEnqueued
<1> QED
  BY <1>14

LEMMA FlowEnqueue == ASSUME IInv, Flow, NEW c \in StreamConns, Enqueue(c) PROVE Flow'
<1> SUFFICES ASSUME NEW d \in StreamConns \ Fragmented PROVE FlowOf(d)'
  BY DEF Flow
<1>1. /\ pc[c] = "add" /\ cmd' = [cmd EXCEPT ![c] = <<>>] /\ pc' = [pc EXCEPT ![c] = "reply"]
      /\ UNCHANGED <<wire, current_task_id_, sent, replies>>
  BY DEF Enqueue, Goto
<1>0. PICK k \in Commands, n \in Nat, q \in Nat : AsEnqueued(c, k, n, q)
  BY Enqueued
<1>2. /\ cmd[c] = <<k>> /\ k.from = c
      /\ DOMAIN queued = 1 .. n /\ DOMAIN queued' = 1 .. n + 1
      /\ \A i \in DOMAIN queued : queued'[i] = queued[i]
      /\ queued'[n + 1] = k
      /\ n + 1 \notin AddedAt(c) /\ AddedAt(c)' = AddedAt(c) \cup {n + 1}
      /\ \A e \in StreamConns \ {c} : AddedAt(e)' = AddedAt(e)
  BY <1>0 DEF AsEnqueued
<1>3. /\ pc \in [Conns -> Labels] /\ cmd \in [Conns -> {<<>>} \cup {<<x>> : x \in Commands}]
      /\ replies \in [StreamConns -> Nat] /\ c \in Conns /\ FlowOf(d)
  BY DEF IInv, TypeOK, Conns, Flow
<1>4. \A e : AddedAt(e) \subseteq 1 .. n
  BY <1>2 DEF AddedAt
<1>5. CASE d # c
  <2>1. pc'[d] = pc[d] /\ cmd'[d] = cmd[d] /\ AddedAt(d)' = AddedAt(d)
    BY <1>1, <1>2, <1>3, <1>5
  <2>2. \A i \in AddedAt(d) : queued'[i] = queued[i]
    BY <1>2, <1>4
  <2> QED
    BY <1>1, <1>3, <2>1, <2>2, FlowFrame
<1>6. CASE d = c
  <2>1. Read(c)' = Read(c) /\ \A x : Ahead(c, x)' <=> Ahead(c, x)
    BY <1>1 DEF Read, Ahead
  <2>2. InFlight(c)'
    BY <1>1, <1>3, <1>6, <2>1 DEF FlowOf, InFlight
  <2>3. pc'[c] = "reply" /\ cmd[c][1] = k
    BY <1>1, <1>2, <1>3
  <2>4. \A i \in AddedAt(c) : i \in 1 .. n /\ queued'[i] = queued[i]
    BY <1>2, <1>4
  <2>5. ASSUME Ordered(c) PROVE Ordered(c)'
    <3>1. ASSUME NEW i \in AddedAt(c)', NEW x, x = queued'[i], IsPoint(x) PROVE Ahead(c, x.sequence_id)
      BY <1>1, <1>2, <2>3, <2>4, <2>5, <3>1 DEF Ordered
    <3>2. ASSUME NEW i \in AddedAt(c)', NEW j \in AddedAt(c)', i < j, IsPoint(queued'[i]), IsPoint(queued'[j])
          PROVE  queued'[i].sequence_id < queued'[j].sequence_id
      <4>1. i \in AddedAt(c)
        BY <1>2, <1>4, <2>4, <3>2
      <4>2. CASE j \in AddedAt(c)
        BY <2>4, <2>5, <3>2, <4>1, <4>2 DEF Ordered
      <4>3. CASE j = n + 1
        BY <1>1, <1>2, <2>3, <2>4, <2>5, <3>2, <4>1, <4>3 DEF Ordered
      <4> QED
        BY <1>2, <4>2, <4>3
    <3>3. \A i \in AddedAt(c)' : queued'[i].command_type = 1 => Ahead(c, queued'[i].sequence_id)
      BY <3>1 DEF IsPoint
    <3>4. \A i \in AddedAt(c)' : queued'[i].command_type = 1 => Ahead(c, queued[i].sequence_id)'
      BY <2>1, <3>3
    <3> QED
      BY <2>3, <3>2, <3>4 DEF Ordered, IsPoint
  <2>6. ASSUME Awaits(c), InStep(c) PROVE InStep(c)'
    <3>1. /\ sent[c] <= replies[c] + 1 /\ Read(c) = replies[c] + 1 /\ Cardinality(AddedAt(c)) = replies[c]
          /\ cmd[c] = <<Asked(c, Read(c))>> /\ Read(c) >= 1
          /\ current_task_id_[c] = Script[c][LastTask(c, Read(c))].id
      BY <1>1, <1>3, <2>6 DEF InStep
    <3>2. IsFiniteSet(AddedAt(c))
      BY AddedFinite DEF IInv
    <3>3. Cardinality(AddedAt(c))' = replies[c] + 1
      <4>1. Cardinality(AddedAt(c) \cup {n + 1}) = Cardinality(AddedAt(c)) + 1
        BY <1>2, <3>2, FS_AddElement
      <4> QED
        BY <1>2, <3>1, <4>1
    <3>4. k = Asked(c, Read(c))
      BY <1>2, <2>3, <3>1
    <3>5. ASSUME NEW i \in AddedAt(c)
          PROVE  Rank(c, i)' \in 1 .. Read(c) /\ queued'[i] = Asked(c, Rank(c, i)')
      <4>1. {j \in AddedAt(c)' : j <= i} = {j \in AddedAt(c) : j <= i}
        BY <1>2, <2>4
      <4>2. Rank(c, i)' = Rank(c, i)
        BY <4>1 DEF Rank
      <4> QED
        BY <2>4, <2>6, <4>2 DEF InStep
    <3>6. Rank(c, n + 1)' = Read(c)
      <4>1. {j \in AddedAt(c)' : j <= n + 1} = AddedAt(c)'
        BY <1>2, <2>4
      <4> QED
        BY <3>1, <3>3, <4>1 DEF Rank
    <3>7. Read(c) \in 1 .. Read(c)
      BY <1>3, <3>1
    <3>8. \A i \in AddedAt(c)' : Rank(c, i)' \in 1 .. Read(c) /\ queued'[i] = Asked(c, Rank(c, i)')
      BY <1>2, <3>4, <3>5, <3>6, <3>7
    <3> QED
      BY <1>1, <2>1, <2>3, <3>1, <3>3, <3>8 DEF InStep
  <2> QED
    BY <1>3, <1>6, <2>2, <2>5, <2>6 DEF FlowOf
<1> QED
  BY <1>5, <1>6

(* Steps that only move a thread on, to another place than add().          *)
LEMMA FlowMoves ==
  ASSUME IInv, Flow, NEW c \in Conns, NEW l \in Labels \ {"add"},
         pc' = [pc EXCEPT ![c] = l],
         UNCHANGED <<wire, current_task_id_, sent, queued>>,
         \A d \in Conns \ {c} : cmd'[d] = cmd[d],
         \A d \in StreamConns \ {c} : replies'[d] = replies[d],
         c \in StreamConns =>
           \/ l = "deleted" /\ replies'[c] = replies[c]
           \/ pc[c] = "reply" /\ l = "receive" /\ replies'[c] = replies[c] + 1
  PROVE  Flow'
<1> SUFFICES ASSUME NEW d \in StreamConns \ Fragmented PROVE FlowOf(d)'
  BY DEF Flow
<1>1. /\ pc \in [Conns -> Labels] /\ d \in Conns /\ FlowOf(d) /\ replies[d] \in Nat /\ sent[d] \in Nat
  BY DEF IInv, TypeOK, Conns, Flow
<1>2. AddedAt(d)' = AddedAt(d)
  BY DEF AddedAt
<1>3. CASE d # c
  <2>1. pc'[d] = pc[d] /\ cmd'[d] = cmd[d] /\ replies'[d] = replies[d]
    BY <1>1, <1>3
  <2> QED
    BY <1>1, <1>2, <2>1, FlowFrame
<1>4. CASE d = c
  <2>1. /\ Read(c)' = Read(c) /\ \A x : Ahead(c, x)' <=> Ahead(c, x)
        /\ \A i : Rank(c, i)' = Rank(c, i)
    BY <1>2, <1>4 DEF Read, Ahead, Rank
  <2>2. InFlight(c)'
    BY <1>1, <1>4, <2>1 DEF FlowOf, InFlight
  <2>3. pc'[c] = l /\ l # "add"
    BY <1>1, <1>4
  <2>4. Ordered(c) => Ordered(c)'
    BY <1>2, <1>4, <2>1, <2>3 DEF Ordered, IsPoint
  <2>5. ASSUME InStep(c) PROVE InStep(c)'
    <3>1. CASE l = "deleted" /\ replies'[c] = replies[c]
      BY <1>2, <1>4, <2>1, <2>3, <2>5, <3>1 DEF InStep
    <3>2. CASE pc[c] = "reply" /\ l = "receive" /\ replies'[c] = replies[c] + 1
      <4>1. Read(c) = replies[c] + 1 /\ Cardinality(AddedAt(c)) = replies[c] + 1 /\ sent[c] <= replies[c] + 1
        BY <2>5, <3>2 DEF InStep
      <4>2. sent'[c] <= replies'[c] + 1 /\ Read(c) = replies'[c] + 0 /\ Cardinality(AddedAt(c)) = replies'[c] + 0
        BY <1>1, <1>4, <3>2, <4>1
      <4> QED
        BY <1>2, <1>4, <2>1, <2>3, <2>5, <3>2, <4>2 DEF InStep
    <3> QED
      BY <1>4, <3>1, <3>2
  <2> QED
    BY <1>1, <1>4, <2>2, <2>4, <2>5 DEF FlowOf
<1> QED
  BY <1>3, <1>4

LEMMA FlowNext == IInv /\ Flow /\ [Next]_vars => Flow'
<1> SUFFICES ASSUME IInv, Flow, [Next]_vars PROVE Flow'
  OBVIOUS
<1>1. /\ pc \in [Conns -> Labels] /\ cmd \in [Conns -> {<<>>} \cup {<<k>> : k \in Commands}]
      /\ replies \in [StreamConns -> Nat] /\ StreamConns \cap StateConns = {}
      /\ Conns = StreamConns \cup StateConns
  BY ConnsAssumption DEF IInv, TypeOK, Conns
<1>2. ASSUME UNCHANGED <<pc, wire, current_task_id_, cmd, sent, replies, queued>> PROVE Flow'
  BY <1>2, FlowFrame DEF Flow, AddedAt
<1>3. CASE UNCHANGED vars
  BY <1>2, <1>3 DEF vars
<1>4. ASSUME NEW c \in StreamConns, Reply(c) \/ EndOfStream(c) PROVE Flow'
  <2>1. CASE Reply(c)
    <3>1. /\ pc[c] = "reply" /\ pc' = [pc EXCEPT ![c] = "receive"] /\ replies' = [replies EXCEPT ![c] = @ + 1]
          /\ UNCHANGED <<wire, current_task_id_, sent, queued, cmd>>
      BY <2>1 DEF Reply, Goto
    <3>2. "receive" \in Labels \ {"add"}
      BY DEF Labels
    <3> QED
      BY <1>1, <3>1, <3>2, FlowMoves
  <2>2. CASE EndOfStream(c)
    <3>1. /\ pc' = [pc EXCEPT ![c] = "deleted"] /\ UNCHANGED <<wire, current_task_id_, sent, queued, cmd, replies>>
      BY <2>2 DEF EndOfStream, Goto
    <3>2. "deleted" \in Labels \ {"add"}
      BY DEF Labels
    <3> QED
      BY <1>1, <3>1, <3>2, FlowMoves
  <2> QED
    BY <1>4, <2>1, <2>2
<1>5. ASSUME NEW c \in StateConns, StateStep(c) PROVE Flow'
  <2>1. PICK l \in Labels \ {"add"} : pc' = [pc EXCEPT ![c] = l]
    <3>1. {"status", "poll", "remove", "result"} \subseteq Labels \ {"add"}
      BY DEF Labels
    <3>2. \E l \in {"status", "poll", "remove", "result"} : pc' = [pc EXCEPT ![c] = l]
      BY <1>5 DEF StateStep, WriteStatus, Poll, Dequeue, WriteResult, Goto
    <3> QED
      BY <3>1, <3>2
  <2>2. UNCHANGED <<wire, current_task_id_, sent, queued, replies>>
    BY <1>5 DEF StateStep, WriteStatus, Poll, Dequeue, WriteResult
  <2>3. \A d \in Conns \ {c} : cmd'[d] = cmd[d]
    BY <1>1, <1>5 DEF StateStep, WriteStatus, Poll, Dequeue, WriteResult
  <2> QED
    BY <1>1, <2>1, <2>2, <2>3, FlowMoves
<1>6. ASSUME NEW c \in Conns, Close(c) PROVE Flow'
  BY <1>2, <1>6 DEF Close
<1>7. ASSUME NEW c \in Conns, WriteFails(c) PROVE Flow'
  <2>1. /\ pc' = [pc EXCEPT ![c] = "deleted"] /\ cmd' = [cmd EXCEPT ![c] = <<>>]
        /\ UNCHANGED <<wire, current_task_id_, sent, queued, replies>>
    BY <1>7 DEF WriteFails, Goto
  <2>2. "deleted" \in Labels \ {"add"}
    BY DEF Labels
  <2> QED
    BY <1>1, <2>1, <2>2, FlowMoves
<1> QED
  BY <1>3, <1>4, <1>5, <1>6, <1>7, FlowSend, FlowReceive, FlowEnqueue DEF Next, StreamStep

THEOREM FlowHolds == Spec => []Flow
  BY FlowInit, FlowNext, InductiveInvariant, PTL DEF Spec

(* A client that awaits each reply gets exactly the commands it asked for, *)
(* in its order and each under its own task.                               *)
THEOREM CommandsFollowScriptHolds == Spec => []CommandsFollowScript
<1>1. IInv /\ Flow => CommandsFollowScript
  <2> SUFFICES ASSUME IInv, Flow, NEW c \in StreamConns, Awaits(c), NEW i \in AddedAt(c)
               PROVE  Rank(c, i) \in DOMAIN Script[c] /\ queued[i] = Asked(c, Rank(c, i))
    BY DEF CommandsFollowScript
  <2>1. InFlight(c) /\ InStep(c)
    BY DEF Flow, FlowOf, Awaits, Commanding
  <2>2. Rank(c, i) \in 1 .. Read(c) /\ queued[i] = Asked(c, Rank(c, i))
    BY <2>1 DEF InStep
  <2>3. DOMAIN Script[c] = 1 .. Len(Script[c]) /\ Len(Script[c]) \in Nat
    BY ConnsAssumption, LenProperties
  <2>4. Read(c) \in 0 .. sent[c] /\ sent[c] \in Nat /\ sent[c] <= Len(Script[c])
    BY <2>1 DEF InFlight, IInv, TypeOK
  <2>5. Rank(c, i) \in 1 .. Len(Script[c])
    BY <2>2, <2>3, <2>4
  <2> QED
    BY <2>2, <2>3, <2>5
<1> QED
  BY <1>1, InductiveInvariant, FlowHolds, PTL

-----------------------------------------------------------------------------
(* What waits on the queue is on record, and in the order it was added.    *)
OnRecord == \A j \in DOMAIN commandQueue : \E i \in DOMAIN queued : queued[i] = commandQueue[j]
QueueOrdered ==
  \A c \in StreamConns \ Fragmented : Numbered(c) =>
     \A i, j \in DOMAIN commandQueue :
        i < j /\ WaitingPoint(c, i) /\ WaitingPoint(c, j)
          => commandQueue[i].sequence_id < commandQueue[j].sequence_id

Waiting == OnRecord /\ QueueOrdered

LEMMA WaitingEnqueue == ASSUME IInv, Flow, Waiting, NEW c \in StreamConns, Enqueue(c) PROVE Waiting'
<1>1. PICK k \in Commands, n \in Nat, q \in Nat : AsEnqueued(c, k, n, q)
  BY Enqueued
<1>2. /\ cmd[c] = <<k>> /\ k.from = c /\ pc[c] = "add"
      /\ DOMAIN queued = 1 .. n /\ DOMAIN queued' = 1 .. n + 1
      /\ \A i \in DOMAIN queued : queued'[i] = queued[i]
      /\ queued'[n + 1] = k
      /\ DOMAIN commandQueue = 1 .. q /\ DOMAIN commandQueue' = 1 .. q + 1
      /\ \A i \in DOMAIN commandQueue : commandQueue'[i] = commandQueue[i]
      /\ commandQueue'[q + 1] = k
  BY <1>1 DEF AsEnqueued, Enqueue
<1>3. OnRecord'
  <2> SUFFICES ASSUME NEW j \in DOMAIN commandQueue' PROVE \E i \in DOMAIN queued' : queued'[i] = commandQueue'[j]
    BY DEF OnRecord
  <2>1. CASE j \in DOMAIN commandQueue
    <3>1. PICK i \in DOMAIN queued : queued[i] = commandQueue[j]
      BY <2>1 DEF Waiting, OnRecord
    <3>2. i \in DOMAIN queued'
      BY <1>2
    <3> QED
      BY <1>2, <2>1, <3>1, <3>2
  <2>2. CASE j = q + 1
    BY <1>2, <2>2
  <2> QED
    BY <1>2, <2>1, <2>2
<1>4. QueueOrdered'
  <2> SUFFICES ASSUME NEW d \in StreamConns \ Fragmented, Numbered(d),
                      NEW i \in DOMAIN commandQueue', NEW j \in DOMAIN commandQueue', i < j,
                      commandQueue'[i].from = d, IsPoint(commandQueue'[i]),
                      commandQueue'[j].from = d, IsPoint(commandQueue'[j])
               PROVE  commandQueue'[i].sequence_id < commandQueue'[j].sequence_id
    BY DEF QueueOrdered, WaitingPoint, IsPoint
  <2>1. i \in DOMAIN commandQueue /\ commandQueue'[i] = commandQueue[i]
    BY <1>2
  <2>2. CASE j \in DOMAIN commandQueue
    <3>1. commandQueue'[j] = commandQueue[j]
      BY <1>2, <2>2
    <3> QED
      BY <2>1, <2>2, <3>1 DEF Waiting, QueueOrdered, WaitingPoint
  <2>3. CASE j = q + 1
    <3>1. d = c /\ commandQueue'[j] = k /\ cmd[c][1] = k
      BY <1>2, <2>3
    <3>2. Ordered(c)
      BY <3>1 DEF Flow, FlowOf
    <3>3. PICK m \in DOMAIN queued : queued[m] = commandQueue[i]
      BY <2>1 DEF Waiting, OnRecord
    <3>4. m \in AddedAt(c)
      BY <2>1, <3>1, <3>3 DEF AddedAt
    <3> QED
      BY <1>2, <2>1, <3>1, <3>2, <3>3, <3>4 DEF Ordered
  <2> QED
    BY <1>2, <2>2, <2>3
<1> QED
  BY <1>3, <1>4 DEF Waiting

LEMMA WaitingNext == IInv /\ Flow /\ Waiting /\ [Next]_vars => Waiting'
<1> SUFFICES ASSUME IInv, Flow, Waiting, [Next]_vars PROVE Waiting'
  OBVIOUS
<1>1. ASSUME UNCHANGED <<commandQueue, queued>> PROVE Waiting'
  BY <1>1 DEF Waiting, OnRecord, QueueOrdered, WaitingPoint, IsPoint
<1>2. ASSUME NEW c \in StateConns, Dequeue(c) PROVE Waiting'
  <2>1. /\ commandQueue \in Seq(Commands) /\ Deque!HasItem(commandQueue) /\ UNCHANGED queued
        /\ commandQueue' = Deque!Rest(commandQueue)
    BY <1>2 DEF IInv, TypeOK, Dequeue
  <2>2. PICK q \in Nat \ {0} : q = Len(commandQueue)
    BY <2>1, QueueProperties
  <2>3. /\ commandQueue' \in Seq(Commands) /\ Len(commandQueue') = q - 1
        /\ \A i \in 1 .. q - 1 : commandQueue'[i] = commandQueue[i]
    BY <2>1, <2>2, QueueProperties
  <2>4. DOMAIN commandQueue = 1 .. q /\ DOMAIN commandQueue' = 1 .. q - 1
    BY <2>1, <2>2, <2>3, LenProperties
  <2>5. \A i \in DOMAIN commandQueue' : i \in DOMAIN commandQueue /\ commandQueue'[i] = commandQueue[i]
    BY <2>2, <2>3, <2>4
  <2>6. OnRecord'
    BY <2>1, <2>5 DEF Waiting, OnRecord
  <2>7. QueueOrdered'
    BY <2>5 DEF Waiting, QueueOrdered, WaitingPoint, IsPoint
  <2> QED
    BY <2>6, <2>7 DEF Waiting
<1>3. CASE UNCHANGED vars
  BY <1>1, <1>3 DEF vars
<1>4. ASSUME NEW c \in StreamConns, Send(c) \/ Receive(c) \/ Reply(c) \/ EndOfStream(c) PROVE Waiting'
  BY <1>1, <1>4 DEF Send, Receive, Reply, EndOfStream
<1>5. ASSUME NEW c \in StateConns, WriteStatus(c) \/ Poll(c) \/ WriteResult(c) PROVE Waiting'
  BY <1>1, <1>5 DEF WriteStatus, Poll, WriteResult
<1>6. ASSUME NEW c \in Conns, Close(c) \/ WriteFails(c) PROVE Waiting'
  BY <1>1, <1>6 DEF Close, WriteFails
<1> QED
  BY <1>2, <1>3, <1>4, <1>5, <1>6, WaitingEnqueue DEF Next, StreamStep, StateStep

(* The points of a client that are queued come onto the queue in the order *)
(* of its script, none twice, and wait there in that order.                *)
THEOREM PointsQueuedInOrderHolds == Spec => []PointsQueuedInOrder
<1>1. Init => Waiting
  BY DEF Init, Waiting, OnRecord, QueueOrdered
<1>2. Flow /\ Waiting => PointsQueuedInOrder
  BY DEF Flow, FlowOf, Ordered, Waiting, QueueOrdered, PointsQueuedInOrder
<1> QED
  BY <1>1, <1>2, WaitingNext, FlowHolds, InductiveInvariant, PTL DEF Spec

-----------------------------------------------------------------------------
(* Counting.  A report names a task only, so that nothing but numbers can  *)
(* say that no point vanished and none was reported twice.  Tally is what  *)
(* stays true of them: what was queued waits or was removed, and the       *)
(* reports together with the points in hand do not outnumber the removed.  *)
TallyOf(t) ==
  /\ IsFiniteSet(TakenOf(t)) /\ IsFiniteSet(ReportsOf(t)) /\ IsFiniteSet(HoldersOf(t))
  /\ Cardinality(PointsOf(queued, t)) =
       Cardinality(PointsOf(commandQueue, t)) + Cardinality(TakenOf(t))
  /\ Cardinality(ReportsOf(t)) + Cardinality(HoldersOf(t)) <= Cardinality(TakenOf(t))
  /\ \A c \in StateConns : open[c] =>
       Cardinality(PointsOf(taken[c], t)) =
         Cardinality(ResultsOf(c, t)) + (IF c \in HoldersOf(t) THEN 1 ELSE 0)

Tally == \A t \in Ids : TallyOf(t)

(* A command at the end of a sequence counts once, if it is such a point.  *)
LEMMA OnePointMore ==
  ASSUME NEW s, NEW w, NEW k, NEW t, NEW n \in Nat,
         DOMAIN s = 1 .. n, DOMAIN w = 1 .. n + 1,
         \A i \in 1 .. n : w[i] = s[i], w[n + 1] = k
  PROVE  /\ Cardinality(PointsOf(s, t)) \in Nat
         /\ Cardinality(PointsOf(w, t)) =
              Cardinality(PointsOf(s, t)) + (IF IsPoint(k) /\ k.task_id = t THEN 1 ELSE 0)
         /\ n + 1 \notin PointsOf(s, t)
         /\ PointsOf(w, t) = IF IsPoint(k) /\ k.task_id = t THEN PointsOf(s, t) \cup {n + 1}
                                                           ELSE PointsOf(s, t)
<1>1. PointsOf(s, t) \subseteq 1 .. n
  BY DEF PointsOf
<1>2. IsFiniteSet(PointsOf(s, t)) /\ Cardinality(PointsOf(s, t)) \in Nat
  <2>1. IsFiniteSet(1 .. n)
    BY FS_Interval
  <2> QED
    BY <1>1, <2>1, FS_Subset, FS_CardinalityType
<1>3. n + 1 \notin PointsOf(s, t)
  BY <1>1
<1>4. CASE IsPoint(k) /\ k.task_id = t
  <2>1. PointsOf(w, t) = PointsOf(s, t) \cup {n + 1}
    BY <1>4 DEF PointsOf
  <2>2. Cardinality(PointsOf(s, t) \cup {n + 1}) = Cardinality(PointsOf(s, t)) + 1
    BY <1>2, <1>3, FS_AddElement
  <2> QED
    BY <1>2, <1>3, <1>4, <2>1, <2>2
<1>5. CASE ~(IsPoint(k) /\ k.task_id = t)
  <2>1. PointsOf(w, t) = PointsOf(s, t)
    BY <1>5 DEF PointsOf
  <2> QED
    BY <1>2, <1>3, <1>5, <2>1
<1> QED
  BY <1>4, <1>5

(* One entry more at one index of a family of sets.                        *)
LEMMA OnePairMore ==
  ASSUME NEW S, NEW f, NEW g, NEW c \in S, NEW n,
         n \notin f[c], g[c] = f[c] \cup {n}, \A d \in S \ {c} : g[d] = f[d],
         IsFiniteSet(UNION {{d} \X f[d] : d \in S})
  PROVE  /\ IsFiniteSet(UNION {{d} \X g[d] : d \in S})
         /\ Cardinality(UNION {{d} \X g[d] : d \in S}) = Cardinality(UNION {{d} \X f[d] : d \in S}) + 1
<1> DEFINE A == UNION {{d} \X f[d] : d \in S}
           B == UNION {{d} \X g[d] : d \in S}
<1>1. B = A \cup {<<c, n>>}
  <2>1. ASSUME NEW x \in B PROVE x \in A \cup {<<c, n>>}
    <3>1. PICK d \in S : x \in {d} \X g[d]
      BY <2>1
    <3>2. PICK i \in g[d] : x = <<d, i>>
      BY <3>1
    <3>3. CASE i \in f[d]
      <4>1. x \in {d} \X f[d]
        BY <3>2, <3>3
      <4> QED
        BY <4>1
    <3>4. CASE d = c /\ i = n
      BY <3>2, <3>4
    <3> QED
      BY <3>2, <3>3, <3>4
  <2>2. ASSUME NEW x \in A PROVE x \in B
    <3>1. PICK d \in S : x \in {d} \X f[d]
      BY <2>2
    <3>2. x \in {d} \X g[d]
      BY <3>1
    <3> QED
      BY <3>2
  <2>3. <<c, n>> \in B
    <3>1. <<c, n>> \in {c} \X g[c]
      OBVIOUS
    <3> QED
      BY <3>1
  <2> QED
    BY <2>1, <2>2, <2>3
<1>2. <<c, n>> \notin A
  <2>1. ASSUME NEW d \in S, <<c, n>> \in {d} \X f[d] PROVE FALSE
    BY <2>1
  <2> QED
    BY <2>1
<1>3. IsFiniteSet(A)
  OBVIOUS
<1> HIDE DEF A, B
<1>4. IsFiniteSet(A \cup {<<c, n>>}) /\ Cardinality(A \cup {<<c, n>>}) = Cardinality(A) + 1
  BY <1>2, <1>3, FS_AddElement
<1>5. IsFiniteSet(B) /\ Cardinality(B) = Cardinality(A) + 1
  BY <1>1, <1>4
<1> QED
  BY <1>5 DEF A, B

\* The points removed, and the reports, as families over the connections.
TakenBy(t) == [c \in StateConns |-> PointsOf(taken[c], t)]
ToldTo(t)  == [c \in StateConns |-> ResultsOf(c, t)]

LEMMA Families ==
  ASSUME NEW t
  PROVE  /\ TakenOf(t) = UNION {{c} \X TakenBy(t)[c] : c \in StateConns}
         /\ ReportsOf(t) = UNION {{c} \X ToldTo(t)[c] : c \in StateConns}
  BY DEF TakenOf, ReportsOf, TakenBy, ToldTo

(* Steps after which no point was queued, removed or reported, and no      *)
(* thread that still has a client let go of one.                           *)
LEMMA TallyFrame ==
  ASSUME Tally, UNCHANGED <<commandQueue, queued, taken, results>>,
         \A t \in Ids : HoldersOf(t)' \subseteq HoldersOf(t),
         \A c \in StateConns : open'[c] =>
            open[c] /\ \A t \in Ids : c \in HoldersOf(t) => c \in HoldersOf(t)'
  PROVE  Tally'
<1> SUFFICES ASSUME NEW t \in Ids PROVE TallyOf(t)'
  BY DEF Tally
<1>1. TallyOf(t)
  BY DEF Tally
<1>2. /\ PointsOf(queued, t)' = PointsOf(queued, t) /\ PointsOf(commandQueue, t)' = PointsOf(commandQueue, t)
      /\ TakenOf(t)' = TakenOf(t) /\ ReportsOf(t)' = ReportsOf(t)
      /\ \A c \in StateConns : /\ PointsOf(taken[c], t)' = PointsOf(taken[c], t)
                               /\ ResultsOf(c, t)' = ResultsOf(c, t)
  BY DEF PointsOf, TakenOf, ReportsOf, ResultsOf, IsPoint
<1>3. IsFiniteSet(HoldersOf(t)') /\ Cardinality(HoldersOf(t)') <= Cardinality(HoldersOf(t))
  BY <1>1, FS_Subset DEF TallyOf
<1>4. /\ Cardinality(HoldersOf(t)) \in Nat /\ Cardinality(HoldersOf(t)') \in Nat
      /\ Cardinality(ReportsOf(t)) \in Nat /\ Cardinality(TakenOf(t)) \in Nat
  BY <1>1, <1>3, FS_CardinalityType DEF TallyOf
<1>5. Cardinality(ReportsOf(t))' + Cardinality(HoldersOf(t))' <= Cardinality(TakenOf(t))'
  BY <1>1, <1>2, <1>3, <1>4 DEF TallyOf
<1>6. \A c \in StateConns : open'[c] => open[c] /\ (c \in HoldersOf(t)' <=> c \in HoldersOf(t))
  OBVIOUS
<1> QED
  BY <1>1, <1>2, <1>3, <1>5, <1>6 DEF TallyOf

LEMMA TallyEnqueue == ASSUME IInv, Tally, NEW c \in StreamConns, Enqueue(c) PROVE Tally'
<1> SUFFICES ASSUME NEW t \in Ids PROVE TallyOf(t)'
  BY DEF Tally
<1>1. PICK k \in Commands, n \in Nat, q \in Nat : AsEnqueued(c, k, n, q)
  BY Enqueued
<1>2. /\ pc' = [pc EXCEPT ![c] = "reply"] /\ cmd' = [cmd EXCEPT ![c] = <<>>]
      /\ UNCHANGED <<open, taken, results>> /\ TallyOf(t)
  BY DEF Enqueue, Goto, Tally
<1>3. \A d \in StateConns : pc'[d] = pc[d] /\ cmd'[d] = cmd[d]
  BY <1>2, ConnsAssumption DEF IInv, TypeOK, Conns
<1>4. HoldersOf(t)' = HoldersOf(t)
  BY <1>3 DEF HoldersOf
<1>5. /\ TakenOf(t)' = TakenOf(t) /\ ReportsOf(t)' = ReportsOf(t)
      /\ \A d \in StateConns : /\ PointsOf(taken[d], t)' = PointsOf(taken[d], t)
                               /\ ResultsOf(d, t)' = ResultsOf(d, t)
  BY <1>2 DEF PointsOf, TakenOf, ReportsOf, ResultsOf, IsPoint
<1>6. PICK one : one = IF IsPoint(k) /\ k.task_id = t THEN 1 ELSE 0
  OBVIOUS
<1>7. PICK more : more = queued'
  OBVIOUS
<1>8. PICK longer : longer = commandQueue'
  OBVIOUS
<1>9. /\ DOMAIN queued = 1 .. n /\ DOMAIN more = 1 .. n + 1
      /\ \A i \in 1 .. n : more[i] = queued[i]
      /\ more[n + 1] = k
      /\ DOMAIN commandQueue = 1 .. q /\ DOMAIN longer = 1 .. q + 1
      /\ \A i \in 1 .. q : longer[i] = commandQueue[i]
      /\ longer[q + 1] = k
  BY <1>1, <1>7, <1>8 DEF AsEnqueued
<1>10. Cardinality(PointsOf(more, t)) = Cardinality(PointsOf(queued, t)) + one
  BY <1>6, <1>9, OnePointMore
<1>11. /\ Cardinality(PointsOf(longer, t)) = Cardinality(PointsOf(commandQueue, t)) + one
       /\ Cardinality(PointsOf(commandQueue, t)) \in Nat
  BY <1>6, <1>9, OnePointMore
<1>12. PointsOf(queued, t)' = PointsOf(more, t) /\ PointsOf(commandQueue, t)' = PointsOf(longer, t)
  BY <1>7, <1>8 DEF PointsOf, IsPoint
<1>13. Cardinality(TakenOf(t)) \in Nat /\ one \in Nat
  BY <1>2, <1>6, FS_CardinalityType DEF TallyOf
<1>14. Cardinality(PointsOf(queued, t))' = Cardinality(PointsOf(commandQueue, t))' + Cardinality(TakenOf(t))'
  BY <1>2, <1>5, <1>10, <1>11, <1>12, <1>13 DEF TallyOf
<1> QED
  BY <1>2, <1>4, <1>5, <1>14 DEF TallyOf

\* Only connection c takes or lets go of a command.
LEMMA HoldersMove ==
  ASSUME NEW c \in StateConns, NEW t, \A d \in StateConns \ {c} : pc'[d] = pc[d] /\ cmd'[d] = cmd[d]
  PROVE  HoldersOf(t)' = IF pc'[c] = "result" /\ cmd'[c][1].task_id = t
                         THEN HoldersOf(t) \cup {c} ELSE HoldersOf(t) \ {c}
  BY DEF HoldersOf

LEMMA ResultsCounted ==
  ASSUME TypeOK, NEW c \in StateConns, NEW t
  PROVE  /\ Len(results[c]) \in Nat /\ DOMAIN results[c] = 1 .. Len(results[c])
         /\ IsFiniteSet(ResultsOf(c, t)) /\ Cardinality(ResultsOf(c, t)) \in Nat
<1>1. Len(results[c]) \in Nat /\ DOMAIN results[c] = 1 .. Len(results[c])
  BY LenProperties DEF TypeOK
<1>2. ResultsOf(c, t) \subseteq 1 .. Len(results[c]) /\ IsFiniteSet(1 .. Len(results[c]))
  <2>1. \A n \in Nat : IsFiniteSet(1 .. n)
    BY FS_Interval
  <2> QED
    BY <1>1, <2>1 DEF ResultsOf
<1> QED
  BY <1>1, <1>2, FS_Subset, FS_CardinalityType

LEMMA TallyDequeue == ASSUME IInv, Tally, NEW c \in StateConns, Dequeue(c) PROVE Tally'
<1> SUFFICES ASSUME NEW t \in Ids PROVE TallyOf(t)'
  BY DEF Tally
<1>1. PICK k : k = Deque!Taken(commandQueue)
  OBVIOUS
<1>2. /\ pc[c] = "remove" /\ Deque!HasItem(commandQueue)
      /\ taken' = [taken EXCEPT ![c] = Append(@, k)]
      /\ cmd' = [cmd EXCEPT ![c] = IF k.command_type # 0 THEN <<k>> ELSE <<>>]
      /\ pc' = [pc EXCEPT ![c] = IF k.command_type # 0 THEN "result" ELSE "status"]
      /\ commandQueue' = Deque!Rest(commandQueue)
      /\ UNCHANGED <<open, queued, results>> /\ TallyOf(t)
  BY <1>1 DEF Dequeue, Goto, Tally
<1>3. /\ commandQueue \in Seq(Commands) /\ taken \in [StateConns -> Seq(Commands)] /\ c \in Conns
      /\ pc \in [Conns -> Labels] /\ cmd \in [Conns -> {<<>>} \cup {<<x>> : x \in Commands}]
  BY DEF IInv, TypeOK, Conns
<1>4. PICK rest : rest = Deque!Rest(commandQueue)
  OBVIOUS
<1>5. PICK q \in Nat : Len(commandQueue) = q + 1
  <2>1. Len(commandQueue) \in Nat \ {0}
    BY <1>2, <1>3, QueueProperties
  <2>2. PICK q : q = Len(commandQueue) - 1
    OBVIOUS
  <2>3. q \in Nat /\ Len(commandQueue) = q + 1
    BY <2>1, <2>2
  <2> QED
    BY <2>3
<1>6. /\ k \in Commands /\ rest \in Seq(Commands) /\ Len(rest) = q
      /\ commandQueue[q + 1] = k /\ \A i \in 1 .. q : rest[i] = commandQueue[i]
  <2>1. /\ k \in Commands /\ rest \in Seq(Commands) /\ Len(rest) = (q + 1) - 1
        /\ commandQueue[q + 1] = k /\ \A i \in 1 .. (q + 1) - 1 : rest[i] = commandQueue[i]
    BY <1>1, <1>2, <1>3, <1>4, <1>5, QueueProperties
  <2>2. (q + 1) - 1 = q
    OBVIOUS
  <2> QED
    BY <2>1, <2>2
<1>7. DOMAIN commandQueue = 1 .. q + 1 /\ DOMAIN rest = 1 .. q
  BY <1>3, <1>5, <1>6, LenProperties
<1>8. PICK match \in BOOLEAN : match <=> IsPoint(k) /\ k.task_id = t
  OBVIOUS
<1>9. /\ Cardinality(PointsOf(rest, t)) \in Nat
      /\ Cardinality(PointsOf(commandQueue, t)) = Cardinality(PointsOf(rest, t)) + (IF match THEN 1 ELSE 0)
  <2>1. /\ Cardinality(PointsOf(rest, t)) \in Nat
        /\ Cardinality(PointsOf(commandQueue, t)) =
             Cardinality(PointsOf(rest, t)) + (IF IsPoint(k) /\ k.task_id = t THEN 1 ELSE 0)
    BY <1>6, <1>7, OnePointMore
  <2> QED
    BY <1>8, <2>1
<1>10. PICK n \in Nat : n = Len(taken[c])
  BY <1>3, LenProperties
<1>11. PICK more : more = Append(taken[c], k)
  OBVIOUS
<1>12. /\ DOMAIN taken[c] = 1 .. n /\ DOMAIN more = 1 .. n + 1
       /\ \A i \in 1 .. n : more[i] = taken[c][i]
       /\ more[n + 1] = k
  BY <1>3, <1>6, <1>10, <1>11, AppendProperties, LenProperties
<1>13. /\ Cardinality(PointsOf(taken[c], t)) \in Nat /\ n + 1 \notin PointsOf(taken[c], t)
       /\ Cardinality(PointsOf(more, t)) = Cardinality(PointsOf(taken[c], t)) + (IF match THEN 1 ELSE 0)
       /\ PointsOf(more, t) = IF match THEN PointsOf(taken[c], t) \cup {n + 1} ELSE PointsOf(taken[c], t)
  <2>1. /\ Cardinality(PointsOf(taken[c], t)) \in Nat /\ n + 1 \notin PointsOf(taken[c], t)
        /\ Cardinality(PointsOf(more, t)) =
             Cardinality(PointsOf(taken[c], t)) + (IF IsPoint(k) /\ k.task_id = t THEN 1 ELSE 0)
        /\ PointsOf(more, t) = IF IsPoint(k) /\ k.task_id = t
                               THEN PointsOf(taken[c], t) \cup {n + 1} ELSE PointsOf(taken[c], t)
    <3>1. PICK s : s = taken[c]
      OBVIOUS
    <3>2. /\ DOMAIN s = 1 .. n /\ DOMAIN more = 1 .. n + 1
          /\ \A i \in 1 .. n : more[i] = s[i]
          /\ more[n + 1] = k
      BY <1>12, <3>1
    <3>3. /\ Cardinality(PointsOf(s, t)) \in Nat /\ n + 1 \notin PointsOf(s, t)
          /\ Cardinality(PointsOf(more, t)) =
               Cardinality(PointsOf(s, t)) + (IF IsPoint(k) /\ k.task_id = t THEN 1 ELSE 0)
          /\ PointsOf(more, t) = IF IsPoint(k) /\ k.task_id = t
                                 THEN PointsOf(s, t) \cup {n + 1} ELSE PointsOf(s, t)
      BY <3>2, OnePointMore
    <3> QED
      BY <3>1, <3>3
  <2> QED
    BY <1>8, <2>1
<1>14. taken'[c] = more /\ \A d \in StateConns \ {c} : taken'[d] = taken[d]
  BY <1>2, <1>3, <1>11
<1>15. /\ TakenBy(t)'[c] = PointsOf(more, t) /\ TakenBy(t)[c] = PointsOf(taken[c], t)
       /\ \A d \in StateConns \ {c} : TakenBy(t)'[d] = TakenBy(t)[d]
       /\ DOMAIN TakenBy(t) = StateConns /\ DOMAIN TakenBy(t)' = StateConns
  BY <1>14 DEF TakenBy, PointsOf, IsPoint
<1>16. /\ PointsOf(queued, t)' = PointsOf(queued, t) /\ PointsOf(commandQueue, t)' = PointsOf(rest, t)
       /\ ReportsOf(t)' = ReportsOf(t) /\ \A d \in StateConns : ResultsOf(d, t)' = ResultsOf(d, t)
  BY <1>2, <1>4 DEF PointsOf, ReportsOf, ResultsOf, IsPoint
<1>17. /\ \A d \in StateConns \ {c} : pc'[d] = pc[d] /\ cmd'[d] = cmd[d]
       /\ pc'[c] = (IF k.command_type # 0 THEN "result" ELSE "status")
       /\ cmd'[c] = (IF k.command_type # 0 THEN <<k>> ELSE <<>>)
  BY <1>2, <1>3 DEF Conns
<1>18. c \notin HoldersOf(t)
  BY <1>2 DEF HoldersOf
<1>19. IsPoint(k) <=> k.command_type # 0
  BY <1>6 DEF Commands, IsPoint
<1>20. HoldersOf(t)' = IF match THEN HoldersOf(t) \cup {c} ELSE HoldersOf(t)
  <2>1. (pc'[c] = "result" /\ cmd'[c][1].task_id = t) <=> match
    BY <1>8, <1>17, <1>19
  <2> QED
    BY <1>17, <1>18, <2>1, HoldersMove
<1>21. /\ IsFiniteSet(HoldersOf(t)')
       /\ Cardinality(HoldersOf(t)') = Cardinality(HoldersOf(t)) + (IF match THEN 1 ELSE 0)
       /\ Cardinality(HoldersOf(t)) \in Nat
  <2>1. IsFiniteSet(HoldersOf(t))
    BY <1>2 DEF TallyOf
  <2>2. CASE match
    BY <1>18, <1>20, <2>1, <2>2, FS_AddElement, FS_CardinalityType
  <2>3. CASE ~match
    BY <1>20, <2>1, <2>3, FS_CardinalityType
  <2> QED
    BY <2>2, <2>3
<1>22. /\ IsFiniteSet(TakenOf(t)')
       /\ Cardinality(TakenOf(t)') = Cardinality(TakenOf(t)) + (IF match THEN 1 ELSE 0)
       /\ Cardinality(TakenOf(t)) \in Nat
  <2>1. IsFiniteSet(TakenOf(t)) /\ Cardinality(TakenOf(t)) \in Nat
    BY <1>2, FS_CardinalityType DEF TallyOf
  <2>2. CASE match
    <3>1. /\ IsFiniteSet(UNION {{d} \X TakenBy(t)'[d] : d \in StateConns})
          /\ Cardinality(UNION {{d} \X TakenBy(t)'[d] : d \in StateConns}) =
               Cardinality(UNION {{d} \X TakenBy(t)[d] : d \in StateConns}) + 1
      <4>1. TakenBy(t)'[c] = TakenBy(t)[c] \cup {n + 1} /\ n + 1 \notin TakenBy(t)[c]
        BY <1>13, <1>15, <2>2
      <4>2. IsFiniteSet(UNION {{d} \X TakenBy(t)[d] : d \in StateConns})
        BY <2>1, Families
      <4>3. PICK f : f = TakenBy(t)
        OBVIOUS
      <4>4. PICK g : g = TakenBy(t)'
        OBVIOUS
      <4>5. /\ IsFiniteSet(UNION {{d} \X g[d] : d \in StateConns})
            /\ Cardinality(UNION {{d} \X g[d] : d \in StateConns}) =
                 Cardinality(UNION {{d} \X f[d] : d \in StateConns}) + 1
        BY <1>15, <4>1, <4>2, <4>3, <4>4, OnePairMore
      <4> QED
        BY <4>3, <4>4, <4>5
    <3>2. TakenOf(t)' = UNION {{d} \X TakenBy(t)'[d] : d \in StateConns}
      BY DEF TakenOf, TakenBy
    <3>3. TakenOf(t) = UNION {{d} \X TakenBy(t)[d] : d \in StateConns}
      BY Families
    <3> QED
      BY <2>1, <2>2, <3>1, <3>2, <3>3
  <2>3. CASE ~match
    <3>1. \A d \in StateConns : PointsOf(taken'[d], t) = PointsOf(taken[d], t)
      BY <1>13, <1>14, <2>3
    <3>2. TakenOf(t)' = UNION {{d} \X PointsOf(taken'[d], t) : d \in StateConns}
      BY DEF TakenOf, PointsOf, IsPoint
    <3>3. TakenOf(t)' = TakenOf(t)
      BY <3>1, <3>2 DEF TakenOf
    <3> QED
      BY <2>1, <2>3, <3>3
  <2> QED
    BY <2>2, <2>3
<1>23. ASSUME NEW d \in StateConns, open'[d]
       PROVE  Cardinality(PointsOf(taken'[d], t)) =
                Cardinality(ResultsOf(d, t)) + (IF d \in HoldersOf(t)' THEN 1 ELSE 0)
  <2>1. Cardinality(PointsOf(taken[d], t)) = Cardinality(ResultsOf(d, t)) + (IF d \in HoldersOf(t) THEN 1 ELSE 0)
    BY <1>2, <1>23 DEF TallyOf
  <2>2. CASE d # c
    <3>1. taken'[d] = taken[d] /\ (d \in HoldersOf(t)' <=> d \in HoldersOf(t))
      BY <1>14, <1>20, <2>2
    <3> QED
      BY <2>1, <3>1
  <2>3. CASE d = c
    <3>1. Cardinality(PointsOf(taken[c], t)) = Cardinality(ResultsOf(c, t)) + 0
      BY <1>18, <2>1, <2>3
    <3>2. Cardinality(ResultsOf(c, t)) \in Nat
      BY <3>1, <1>13, ResultsCounted DEF IInv
    <3>3. c \in HoldersOf(t)' <=> match
      BY <1>18, <1>20
    <3> QED
      BY <1>13, <1>14, <2>3, <3>1, <3>2, <3>3
  <2> QED
    BY <2>2, <2>3
<1>24. \A d \in StateConns : PointsOf(taken[d], t)' = PointsOf(taken'[d], t)
  BY DEF PointsOf, IsPoint
<1>25. /\ Cardinality(PointsOf(queued, t)) = Cardinality(PointsOf(commandQueue, t)) + Cardinality(TakenOf(t))
       /\ Cardinality(ReportsOf(t)) + Cardinality(HoldersOf(t)) <= Cardinality(TakenOf(t))
       /\ Cardinality(ReportsOf(t)) \in Nat /\ IsFiniteSet(ReportsOf(t))
  BY <1>2, FS_CardinalityType DEF TallyOf
<1>26. Cardinality(PointsOf(queued, t))' = Cardinality(PointsOf(commandQueue, t))' + Cardinality(TakenOf(t))'
  BY <1>9, <1>16, <1>22, <1>25
<1>27. Cardinality(ReportsOf(t))' + Cardinality(HoldersOf(t))' <= Cardinality(TakenOf(t))'
  BY <1>16, <1>21, <1>22, <1>25
<1> QED
  BY <1>2, <1>16, <1>21, <1>22, <1>23, <1>24, <1>25, <1>26, <1>27 DEF TallyOf

LEMMA TallyWriteResult == ASSUME IInv, Tally, NEW c \in StateConns, WriteResult(c) PROVE Tally'
<1>1. /\ pc[c] = "result"
      /\ results' = IF open[c] THEN [results EXCEPT ![c] = Append(@, TaskResult(cmd[c][1]))]
                               ELSE results
      /\ cmd' = [cmd EXCEPT ![c] = <<>>] /\ pc' = [pc EXCEPT ![c] = "status"]
      /\ UNCHANGED <<commandQueue, open, queued, taken>>
  BY DEF WriteResult, Goto
<1>2. PICK k \in Commands : cmd[c] = <<k>>
  BY <1>1 DEF IInv, Hands
<1>3. /\ \A d \in StateConns \ {c} : pc'[d] = pc[d] /\ cmd'[d] = cmd[d]
      /\ pc'[c] = "status" /\ results \in [StateConns -> Seq(Results)]
  BY <1>1 DEF IInv, TypeOK, Conns
<1>4. \A t \in Ids : HoldersOf(t)' = HoldersOf(t) \ {c}
  BY <1>3, HoldersMove
<1>5. CASE ~open[c]
  <2>1. \A d \in StateConns : open'[d] => open[d] /\ \A t \in Ids : d \in HoldersOf(t) => d \in HoldersOf(t)'
    BY <1>1, <1>4, <1>5
  <2> QED
    BY <1>1, <1>4, <1>5, <2>1, TallyFrame
<1>6. CASE open[c]
  <2> SUFFICES ASSUME NEW t \in Ids PROVE TallyOf(t)'
    BY DEF Tally
  <2>1. /\ TallyOf(t) /\ HoldersOf(t)' = HoldersOf(t) \ {c}
        /\ c \in HoldersOf(t) <=> k.task_id = t
    BY <1>1, <1>2, <1>4 DEF Tally, HoldersOf
  <2>2. PICK n \in Nat : n = Len(results[c]) /\ DOMAIN results[c] = 1 .. n
    BY ResultsCounted DEF IInv
  <2>3. /\ TaskResult(k) \in Results /\ TaskResult(k).task_id = k.task_id
    BY DEF TaskResult, Results, Commands
  <2>4. PICK more : more = Append(results[c], TaskResult(k))
    OBVIOUS
  <2>5. /\ DOMAIN more = 1 .. n + 1 /\ \A i \in 1 .. n : more[i] = results[c][i]
        /\ more[n + 1] = TaskResult(k)
    BY <1>3, <2>2, <2>3, <2>4, AppendProperties, LenProperties
  <2>6. results'[c] = more /\ \A d \in StateConns \ {c} : results'[d] = results[d]
    BY <1>1, <1>2, <1>3, <1>6, <2>4
  <2>7. /\ n + 1 \notin ResultsOf(c, t)
        /\ ResultsOf(c, t)' = IF k.task_id = t THEN ResultsOf(c, t) \cup {n + 1} ELSE ResultsOf(c, t)
        /\ \A d \in StateConns \ {c} : ResultsOf(d, t)' = ResultsOf(d, t)
    BY <2>2, <2>3, <2>5, <2>6 DEF ResultsOf
  <2>8. /\ PointsOf(queued, t)' = PointsOf(queued, t) /\ PointsOf(commandQueue, t)' = PointsOf(commandQueue, t)
        /\ TakenOf(t)' = TakenOf(t) /\ \A d \in StateConns : PointsOf(taken[d], t)' = PointsOf(taken[d], t)
    BY <1>1 DEF PointsOf, TakenOf, IsPoint
  <2>9. /\ IsFiniteSet(HoldersOf(t)) /\ IsFiniteSet(ReportsOf(t)) /\ IsFiniteSet(TakenOf(t))
        /\ Cardinality(HoldersOf(t)) \in Nat /\ Cardinality(ReportsOf(t)) \in Nat
        /\ Cardinality(TakenOf(t)) \in Nat
        /\ Cardinality(ReportsOf(t)) + Cardinality(HoldersOf(t)) <= Cardinality(TakenOf(t))
    BY <2>1, FS_CardinalityType DEF TallyOf
  <2>10. CASE k.task_id # t
    <3>1. HoldersOf(t)' = HoldersOf(t)
      BY <2>1, <2>10
    <3>2. \A d \in StateConns : ResultsOf(d, t)' = ResultsOf(d, t)
      BY <2>7, <2>10
    <3>3. ReportsOf(t)' = ReportsOf(t)
      BY <3>2 DEF ReportsOf
    <3>4. ASSUME NEW d \in StateConns, open'[d]
          PROVE  Cardinality(PointsOf(taken[d], t))' =
                   Cardinality(ResultsOf(d, t))' + (IF d \in HoldersOf(t)' THEN 1 ELSE 0)
      BY <1>1, <2>1, <2>8, <3>1, <3>2, <3>4 DEF TallyOf
    <3> QED
      BY <2>1, <2>8, <3>1, <3>3, <3>4 DEF TallyOf
  <2>11. CASE k.task_id = t
    <3>1. IsFiniteSet(HoldersOf(t)') /\ Cardinality(HoldersOf(t)') = Cardinality(HoldersOf(t)) - 1
      BY <2>1, <2>9, <2>11, FS_RemoveElement
    <3>2. IsFiniteSet(ReportsOf(t)') /\ Cardinality(ReportsOf(t)') = Cardinality(ReportsOf(t)) + 1
      <4>1. PICK f : f = ToldTo(t)
        OBVIOUS
      <4>2. PICK g : g = ToldTo(t)'
        OBVIOUS
      <4>3. /\ g[c] = f[c] \cup {n + 1} /\ n + 1 \notin f[c]
            /\ \A d \in StateConns \ {c} : g[d] = f[d]
        BY <2>7, <2>11, <4>1, <4>2 DEF ToldTo
      <4>4. IsFiniteSet(UNION {{d} \X f[d] : d \in StateConns})
        BY <2>9, <4>1, Families
      <4>5. /\ IsFiniteSet(UNION {{d} \X g[d] : d \in StateConns})
            /\ Cardinality(UNION {{d} \X g[d] : d \in StateConns}) =
                 Cardinality(UNION {{d} \X f[d] : d \in StateConns}) + 1
        BY <4>3, <4>4, OnePairMore
      <4>6. ReportsOf(t)' = UNION {{d} \X g[d] : d \in StateConns}
        BY <4>2 DEF ReportsOf, ToldTo
      <4>7. ReportsOf(t) = UNION {{d} \X f[d] : d \in StateConns}
        BY <4>1, Families
      <4> QED
        BY <4>5, <4>6, <4>7
    <3>3. ASSUME NEW d \in StateConns, open'[d]
          PROVE  Cardinality(PointsOf(taken[d], t))' =
                   Cardinality(ResultsOf(d, t))' + (IF d \in HoldersOf(t)' THEN 1 ELSE 0)
      <4>1. Cardinality(PointsOf(taken[d], t)) = Cardinality(ResultsOf(d, t)) + (IF d \in HoldersOf(t) THEN 1 ELSE 0)
        BY <1>1, <2>1, <3>3 DEF TallyOf
      <4>2. CASE d # c
        <5>1. d \in HoldersOf(t)' <=> d \in HoldersOf(t)
          BY <2>1, <4>2
        <5> QED
          BY <2>7, <2>8, <4>1, <4>2, <5>1
      <4>3. CASE d = c
        <5>1. Cardinality(PointsOf(taken[c], t)) = Cardinality(ResultsOf(c, t)) + 1
          BY <2>1, <2>11, <4>1, <4>3
        <5>2. IsFiniteSet(ResultsOf(c, t)) /\ Cardinality(ResultsOf(c, t)) \in Nat
          BY ResultsCounted DEF IInv
        <5>3. Cardinality(ResultsOf(c, t))' = Cardinality(ResultsOf(c, t)) + 1
          BY <2>7, <2>11, <5>2, FS_AddElement
        <5>4. d \notin HoldersOf(t)'
          BY <2>1, <4>3
        <5> QED
          BY <2>8, <4>3, <5>1, <5>2, <5>3, <5>4
      <4> QED
        BY <4>2, <4>3
    <3>4. Cardinality(ReportsOf(t))' + Cardinality(HoldersOf(t))' <= Cardinality(TakenOf(t))'
      BY <2>8, <2>9, <3>1, <3>2
    <3> QED
      BY <2>1, <2>8, <2>9, <3>1, <3>2, <3>3, <3>4 DEF TallyOf
  <2> QED
    BY <2>10, <2>11
<1> QED
  BY <1>5, <1>6

LEMMA TallyNext == IInv /\ Tally /\ [Next]_vars => Tally'
<1> SUFFICES ASSUME IInv, Tally, [Next]_vars PROVE Tally'
  OBVIOUS
<1>1. /\ pc \in [Conns -> Labels] /\ cmd \in [Conns -> {<<>>} \cup {<<k>> : k \in Commands}]
      /\ open \in [Conns -> BOOLEAN] /\ StreamConns \cap StateConns = {}
      /\ Conns = StreamConns \cup StateConns
  BY ConnsAssumption DEF IInv, TypeOK, Conns
<1>2. ASSUME UNCHANGED <<commandQueue, queued, taken, results>>,
             \A d \in StateConns : open'[d] => open[d],
             \A d \in StateConns : (pc'[d] # pc[d] \/ cmd'[d] # cmd[d]) =>
                pc'[d] # "result" /\ (open[d] => pc[d] # "result")
      PROVE  Tally'
  <2>1. \A t \in Ids : HoldersOf(t)' \subseteq HoldersOf(t)
    BY <1>2 DEF HoldersOf
  <2>2. \A d \in StateConns : open'[d] => open[d] /\ \A t \in Ids : d \in HoldersOf(t) => d \in HoldersOf(t)'
    BY <1>2 DEF HoldersOf
  <2> QED
    BY <1>2, <2>1, <2>2, TallyFrame
<1>3. CASE UNCHANGED vars
  BY <1>2, <1>3 DEF vars
<1>4. ASSUME NEW c \in StreamConns, Send(c) \/ Receive(c) \/ Reply(c) \/ EndOfStream(c) PROVE Tally'
  <2>1. UNCHANGED <<commandQueue, queued, taken, results, open>>
    BY <1>4 DEF Send, Receive, Reply, EndOfStream
  <2>2. \A d \in StateConns : pc'[d] = pc[d] /\ cmd'[d] = cmd[d]
    BY <1>1, <1>4 DEF Send, Receive, Reply, EndOfStream, Goto
  <2> QED
    BY <1>2, <2>1, <2>2
<1>5. ASSUME NEW c \in StateConns, WriteStatus(c) \/ Poll(c) PROVE Tally'
  <2>1. UNCHANGED <<commandQueue, queued, taken, results, open, cmd>> /\ pc[c] \in {"status", "poll"}
    BY <1>5 DEF WriteStatus, Poll
  <2>2. pc'[c] \in {"poll", "status", "remove"} /\ \A d \in StateConns \ {c} : pc'[d] = pc[d]
    BY <1>1, <1>5 DEF WriteStatus, Poll, Goto
  <2> QED
    BY <1>2, <2>1, <2>2
<1>6. ASSUME NEW c \in Conns, Close(c) PROVE Tally'
  <2>1. UNCHANGED <<commandQueue, queued, taken, results, pc, cmd>> /\ open' = [open EXCEPT ![c] = FALSE]
    BY <1>6 DEF Close
  <2>2. \A d \in StateConns : open'[d] => open[d]
    BY <1>1, <2>1
  <2> QED
    BY <1>2, <2>1, <2>2
<1>7. ASSUME NEW c \in Conns, WriteFails(c) PROVE Tally'
  <2>1. /\ UNCHANGED <<commandQueue, queued, taken, results, open>> /\ ~open[c]
        /\ cmd' = [cmd EXCEPT ![c] = <<>>] /\ pc' = [pc EXCEPT ![c] = "deleted"]
    BY <1>7 DEF WriteFails, Goto
  <2>2. pc'[c] = "deleted" /\ \A d \in Conns \ {c} : pc'[d] = pc[d] /\ cmd'[d] = cmd[d]
    BY <1>1, <2>1
  <2> QED
    BY <1>1, <1>2, <2>1, <2>2
<1> QED
  BY <1>3, <1>4, <1>5, <1>6, <1>7, TallyEnqueue, TallyDequeue, TallyWriteResult
  DEF Next, StreamStep, StateStep

LEMMA TallyInit == Init => Tally
<1> SUFFICES ASSUME Init, NEW t \in Ids PROVE TallyOf(t)
  BY DEF Tally
<1>1. \A s : s = <<>> => PointsOf(s, t) = {}
  BY DEF PointsOf
<1>2. /\ PointsOf(queued, t) = {} /\ PointsOf(commandQueue, t) = {}
      /\ \A c \in StateConns : PointsOf(taken[c], t) = {} /\ ResultsOf(c, t) = {}
  BY <1>1 DEF Init, ResultsOf
<1>3. HoldersOf(t) = {}
  BY ConnsAssumption DEF Init, HoldersOf, Conns
<1>4. TakenOf(t) = {} /\ ReportsOf(t) = {}
  BY <1>2 DEF TakenOf, ReportsOf
<1> QED
  BY <1>2, <1>3, <1>4, FS_EmptySet DEF TallyOf

THEOREM TallyHolds == Spec => []Tally
  BY TallyInit, TallyNext, InductiveInvariant, PTL DEF Spec

(* No point vanishes while its state client listens, whoever else leaves   *)
(* and whatever write fails.                                               *)
THEOREM NoPointVanishesHolds == Spec => []NoPointVanishes
<1>1. Tally => NoPointVanishes
  BY DEF Tally, TallyOf, NoPointVanishes
<1> QED
  BY <1>1, TallyHolds, PTL

(* No point is reported twice: the results of a task, over all the state   *)
(* clients, never outrun the points queued for it.                         *)
THEOREM ReportedOnceHolds == Spec => []ReportedOnce
<1>1. IInv /\ Tally => ReportedOnce
  <2> SUFFICES ASSUME IInv, Tally, NEW t \in Ids
               PROVE  Cardinality(ReportsOf(t)) <= Cardinality(PointsOf(queued, t))
    BY DEF ReportedOnce
  <2>1. /\ Cardinality(ReportsOf(t)) \in Nat /\ Cardinality(HoldersOf(t)) \in Nat
        /\ Cardinality(TakenOf(t)) \in Nat
    BY FS_CardinalityType DEF Tally, TallyOf
  <2>2. Cardinality(PointsOf(commandQueue, t)) \in Nat
    <3>1. PICK n \in Nat : n = Len(commandQueue)
      BY LenProperties DEF IInv, TypeOK
    <3>2. PointsOf(commandQueue, t) \subseteq 1 .. n
      BY <3>1, LenProperties DEF PointsOf, IInv, TypeOK
    <3>3. IsFiniteSet(1 .. n)
      BY FS_Interval
    <3> QED
      BY <3>2, <3>3, FS_Subset, FS_CardinalityType
  <2>3. /\ Cardinality(PointsOf(queued, t)) = Cardinality(PointsOf(commandQueue, t)) + Cardinality(TakenOf(t))
        /\ Cardinality(ReportsOf(t)) + Cardinality(HoldersOf(t)) <= Cardinality(TakenOf(t))
    BY DEF Tally, TallyOf
  <2> QED
    BY <2>1, <2>2, <2>3
<1> QED
  BY <1>1, InductiveInvariant, TallyHolds, PTL
=============================================================================
