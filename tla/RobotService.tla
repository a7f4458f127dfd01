---------------------------- MODULE RobotService ----------------------------
(***************************************************************************)
(* The connections of the robot simulator, rtp/rtp_server.cpp.  Every      *)
(* accepted connection has a RobotService object and a detached thread in  *)
(* HandleClient(): a streaming connection turns packets into commands on   *)
(* the one global commandQueue and answers each packet; a state connection *)
(* writes status messages, takes commands off commandQueue and reports     *)
(* trajectory points as done.  A report names the task of the point, never *)
(* its number, so that the points of a task can be counted, not told apart.*)
(*                                                                         *)
(* The steps of commandQueue.add() and remove() are those of AtomicBuffer, *)
(* which module Buffer implements; remove() takes the newest command.      *)
(* A packet travels as two fragments, its header and its body.             *)
(***************************************************************************)
EXTENDS Integers, Sequences, FiniteSets, SequencesExt

CONSTANTS StreamConns,  \* connections to the joints port of some robot
          StateConns,   \* connections to the state port of some robot
          Script,       \* the packets each streaming client sends, in order
          Ids,          \* task and sequence ids; any of them can be garbage
          Window,       \* packets a client sends before awaiting a reply
          Fragmented,   \* where receive() may end in the middle of a packet
          MaxReceive,   \* fragments in the 512 bytes of one receive()
          Capacity,     \* size_ of commandQueue
          MayClose      \* connections whose client may disconnect

Conns == StreamConns \cup StateConns
Kinds == {"TASK", "JOINT_TRAJ_PT", "OTHER"}
Packets == [kind : Kinds, id : Ids]

ASSUME ConnsAssumption ==
  /\ StreamConns \cap StateConns = {}
  /\ MayClose \subseteq Conns /\ Fragmented \subseteq StreamConns
  /\ Script \in [StreamConns -> Seq(Packets)]

ASSUME SizesAssumption ==
  /\ Ids # {} /\ Ids \subseteq Nat
  /\ Window \in Nat \ {0} /\ MaxReceive \in Nat \ {0, 1} /\ Capacity \in Nat \ {0}

VARIABLES commandQueue,      \* the global queue
          pc,                \* where each connection's thread is
          wire,              \* fragments sent and not yet received
          current_task_id_,  \* of each streaming service
          cmd,               \* the command a thread is adding or reporting
          open,              \* has the client not disconnected?
          sent,              \* packets the client has sent
          replies,           \* replies it has been sent
          queued,            \* history: every command added
          taken,             \* history: what each state thread removed
          results            \* the task results each state client was sent

vars == <<commandQueue, pc, wire, current_task_id_, cmd, open, sent, replies,
          queued, taken, results>>

Deque == INSTANCE BufferDeque WITH TakesLast <- TRUE

\* A RobotCommand; `from' is no field of it but kept for the properties.
Command(c, task, seq, type) ==
  [from |-> c, task_id |-> task, sequence_id |-> seq, command_type |-> type]

\* The TaskResult a state thread writes for a point: its number is left out.
TaskResult(k) == [task_id |-> k.task_id, sequence_id |-> 0, error_code |-> 0]

Goto(c, label) == pc' = [pc EXCEPT ![c] = label]

-----------------------------------------------------------------------------
(* current_task_id_ has no initialiser.                                    *)
Init == /\ commandQueue = <<>>
        /\ pc = [c \in Conns |-> IF c \in StreamConns THEN "receive" ELSE "status"]
        /\ wire = [c \in StreamConns |-> <<>>]
        /\ current_task_id_ \in [StreamConns -> Ids]
        /\ cmd = [c \in Conns |-> <<>>]
        /\ open = [c \in Conns |-> TRUE]
        /\ sent = [c \in StreamConns |-> 0]
        /\ replies = [c \in StreamConns |-> 0]
        /\ queued = <<>>
        /\ taken = [c \in StateConns |-> <<>>]
        /\ results = [c \in StateConns |-> <<>>]

-----------------------------------------------------------------------------
(* The clients, which are not part of the repository.                      *)

Send(c) ==
  /\ open[c]
  /\ sent[c] < Len(Script[c])
  /\ sent[c] - replies[c] < Window
  /\ sent' = [sent EXCEPT ![c] = @ + 1]
  /\ LET p == Script[c][sent[c] + 1]
     IN  wire' = [wire EXCEPT ![c] = @ \o <<[pkt |-> p, part |-> "header"],
                                            [pkt |-> p, part |-> "body"]>>]
  /\ UNCHANGED <<commandQueue, pc, current_task_id_, cmd, open, replies, queued, taken, results>>

Close(c) ==
  /\ open[c] /\ c \in MayClose
  /\ open' = [open EXCEPT ![c] = FALSE]
  /\ UNCHANGED <<commandQueue, pc, wire, current_task_id_, cmd, sent, replies, queued, taken, results>>

-----------------------------------------------------------------------------
(* HandleClient() of a streaming connection.                               *)

\* What readHeader() and readBody() can make of the received fragments.  A
\* body that did not arrive leaves the message's fields uninitialised, and
\* bytes that are no header are still read as one.
Readings(got) ==
  {p \in Packets : got[1].part = "header" =>
                     /\ p.kind = got[1].pkt.kind
                     /\ Len(got) > 1 => p.id = got[1].pkt.id}

\* Mutation of CommandsFor: the point's ids are swapped.
CommandsSwapped(c, p, task) ==
  CASE p.kind = "TASK"          -> <<Command(c, p.id, -1, 0)>>
    [] p.kind = "JOINT_TRAJ_PT" -> <<Command(c, p.id, task, 1)>>
    [] OTHER                    -> <<>>

\* The commands readBody() adds for a packet read while `task' is current.
CommandsFor(c, p, task) ==
  CASE p.kind = "TASK"          -> <<Command(c, p.id, -1, 0)>>
    [] p.kind = "JOINT_TRAJ_PT" -> <<Command(c, task, p.id, 1)>>
    [] OTHER                    -> <<>>

\* Mutation of Receive: the packet that arrived last is read first.
ReceiveNewest(c) ==
  /\ pc[c] = "receive"
  /\ wire[c] # <<>>
  /\ wire' = [wire EXCEPT ![c] = SubSeq(@, 1, Len(@) - 2)]
  /\ LET p == wire[c][Len(wire[c])].pkt
     IN  /\ current_task_id_' = IF p.kind = "TASK"
                                THEN [current_task_id_ EXCEPT ![c] = p.id]
                                ELSE current_task_id_
         /\ cmd' = [cmd EXCEPT ![c] = CommandsFor(c, p, current_task_id_[c])]
         /\ Goto(c, IF p.kind = "OTHER" THEN "reply" ELSE "add")
  /\ UNCHANGED <<commandQueue, open, sent, replies, queued, taken, results>>

\* readPacket(): one receive() into a fresh streambuf, of which the first
\* packet is read; whatever else was received goes away with the streambuf.
Receive(c) ==
  /\ pc[c] = "receive"
  /\ \E n \in 1 .. MaxReceive :
       /\ n <= Len(wire[c])
       /\ c \in Fragmented \/ n % 2 = 0
       /\ wire' = [wire EXCEPT ![c] = SubSeq(@, n + 1, Len(@))]
       /\ \E p \in Readings(SubSeq(wire[c], 1, n)) :
            /\ current_task_id_' = IF p.kind = "TASK"
                                   THEN [current_task_id_ EXCEPT ![c] = p.id]
                                   ELSE current_task_id_
            /\ cmd' = [cmd EXCEPT ![c] = CommandsFor(c, p, current_task_id_[c])]
            /\ Goto(c, IF p.kind = "OTHER" THEN "reply" ELSE "add")
  /\ UNCHANGED <<commandQueue, open, sent, replies, queued, taken, results>>

\* Mutation of Enqueue: it does not wait for room.
EnqueueUnbounded(c) ==
  /\ pc[c] = "add"
  /\ commandQueue' = commandQueue \o cmd[c]
  /\ queued' = queued \o cmd[c]
  /\ cmd' = [cmd EXCEPT ![c] = <<>>]
  /\ Goto(c, "reply")
  /\ UNCHANGED <<wire, current_task_id_, open, sent, replies, taken, results>>

\* Mutation of Enqueue: a command that finds no room is dropped.
EnqueueOrDrop(c) ==
  /\ pc[c] = "add"
  /\ LET kept == IF Deque!HasRoom(commandQueue) THEN cmd[c] ELSE <<>>
     IN  /\ commandQueue' = commandQueue \o kept
         /\ queued' = queued \o kept
  /\ cmd' = [cmd EXCEPT ![c] = <<>>]
  /\ Goto(c, "reply")
  /\ UNCHANGED <<wire, current_task_id_, open, sent, replies, taken, results>>

\* Mutation of Enqueue: the next packet is read before the reply is written.
EnqueueNoReply(c) ==
  /\ pc[c] = "add"
  /\ Deque!HasRoom(commandQueue)
  /\ commandQueue' = commandQueue \o cmd[c]
  /\ queued' = queued \o cmd[c]
  /\ cmd' = [cmd EXCEPT ![c] = <<>>]
  /\ Goto(c, "receive")
  /\ UNCHANGED <<wire, current_task_id_, open, sent, replies, taken, results>>

\* commandQueue.add(), which waits for room.
Enqueue(c) ==
  /\ pc[c] = "add"
  /\ Deque!HasRoom(commandQueue)
  /\ commandQueue' = commandQueue \o cmd[c]
  /\ queued' = queued \o cmd[c]
  /\ cmd' = [cmd EXCEPT ![c] = <<>>]
  /\ Goto(c, "reply")
  /\ UNCHANGED <<wire, current_task_id_, open, sent, replies, taken, results>>

\* Mutation of Reply: the service handles one packet only.
ReplyStops(c) ==
  /\ pc[c] = "reply"
  /\ replies' = [replies EXCEPT ![c] = @ + 1]
  /\ Goto(c, "deleted")
  /\ UNCHANGED <<commandQueue, wire, current_task_id_, cmd, open, sent, queued, taken, results>>

\* The reply's header and body.
Reply(c) ==
  /\ pc[c] = "reply"
  /\ replies' = [replies EXCEPT ![c] = @ + 1]
  /\ Goto(c, "receive")
  /\ UNCHANGED <<commandQueue, wire, current_task_id_, cmd, open, sent, queued, taken, results>>

\* receive() throws at the end of the stream: onFinish() deletes the service.
EndOfStream(c) ==
  /\ pc[c] = "receive"
  /\ ~open[c] /\ wire[c] = <<>>
  /\ Goto(c, "deleted")
  /\ UNCHANGED <<commandQueue, wire, current_task_id_, cmd, open, sent, replies, queued, taken, results>>

-----------------------------------------------------------------------------
(* HandleClient() of a state connection.                                   *)

\* The ten status messages of one round.
WriteStatus(c) ==
  /\ pc[c] = "status"
  /\ Goto(c, "poll")
  /\ UNCHANGED <<commandQueue, wire, current_task_id_, cmd, open, sent, replies, queued, taken, results>>

\* Mutation of Poll: remove() is called without looking at empty().
PollBlindly(c) ==
  /\ pc[c] = "poll"
  /\ Goto(c, "remove")
  /\ UNCHANGED <<commandQueue, wire, current_task_id_, cmd, open, sent, replies, queued, taken, results>>

\* if (!commandQueue.empty())
Poll(c) ==
  /\ pc[c] = "poll"
  /\ Goto(c, IF commandQueue = <<>> THEN "status" ELSE "remove")
  /\ UNCHANGED <<commandQueue, wire, current_task_id_, cmd, open, sent, replies, queued, taken, results>>

\* Mutation of Dequeue: the command type is tested the wrong way round.
DequeueReportsTasks(c) ==
  /\ pc[c] = "remove"
  /\ Deque!HasItem(commandQueue)
  /\ LET k == Deque!Taken(commandQueue)
     IN  /\ taken' = [taken EXCEPT ![c] = Append(@, k)]
         /\ cmd' = [cmd EXCEPT ![c] = IF k.command_type = 0 THEN <<k>> ELSE <<>>]
         /\ Goto(c, IF k.command_type = 0 THEN "result" ELSE "status")
  /\ commandQueue' = Deque!Rest(commandQueue)
  /\ UNCHANGED <<wire, current_task_id_, open, sent, replies, queued, results>>

\* Mutation of Dequeue: the command stays on the queue.
DequeuePeeks(c) ==
  /\ pc[c] = "remove"
  /\ Deque!HasItem(commandQueue)
  /\ LET k == Deque!Taken(commandQueue)
     IN  /\ taken' = [taken EXCEPT ![c] = Append(@, k)]
         /\ cmd' = [cmd EXCEPT ![c] = IF k.command_type # 0 THEN <<k>> ELSE <<>>]
         /\ Goto(c, IF k.command_type # 0 THEN "result" ELSE "status")
  /\ UNCHANGED <<commandQueue, wire, current_task_id_, open, sent, replies, queued, results>>

\* commandQueue.remove(), which waits for an item.
Dequeue(c) ==
  /\ pc[c] = "remove"
  /\ Deque!HasItem(commandQueue)
  /\ LET k == Deque!Taken(commandQueue)
     IN  /\ taken' = [taken EXCEPT ![c] = Append(@, k)]
         /\ cmd' = [cmd EXCEPT ![c] = IF k.command_type # 0 THEN <<k>> ELSE <<>>]
         /\ Goto(c, IF k.command_type # 0 THEN "result" ELSE "status")
  /\ commandQueue' = Deque!Rest(commandQueue)
  /\ UNCHANGED <<wire, current_task_id_, open, sent, replies, queued, results>>

\* The task result; a client that has gone never reads it.
WriteResult(c) ==
  /\ pc[c] = "result"
  /\ results' = IF open[c] THEN [results EXCEPT ![c] = Append(@, TaskResult(cmd[c][1]))]
                           ELSE results
  /\ cmd' = [cmd EXCEPT ![c] = <<>>]
  /\ Goto(c, "status")
  /\ UNCHANGED <<commandQueue, wire, current_task_id_, open, sent, replies, queued, taken>>

\* Any write to a client that has gone may throw.
WriteFails(c) ==
  /\ pc[c] \in {"reply", "status", "result"}
  /\ ~open[c]
  /\ cmd' = [cmd EXCEPT ![c] = <<>>]
  /\ Goto(c, "deleted")
  /\ UNCHANGED <<commandQueue, wire, current_task_id_, open, sent, replies, queued, taken, results>>

-----------------------------------------------------------------------------
StreamStep(c) == Receive(c) \/ Enqueue(c) \/ Reply(c) \/ EndOfStream(c)
StateStep(c)  == WriteStatus(c) \/ Poll(c) \/ Dequeue(c) \/ WriteResult(c)

Next == \/ \E c \in StreamConns : Send(c) \/ StreamStep(c)
        \/ \E c \in StateConns : StateStep(c)
        \/ \E c \in Conns : Close(c) \/ WriteFails(c)

Spec == Init /\ [][Next]_vars

(* Threads that can run are scheduled, TCP delivers, a client that may     *)
(* send does.                                                              *)
FairSpec == /\ Spec
            /\ \A c \in StreamConns : WF_vars(StreamStep(c)) /\ WF_vars(Send(c))
            /\ \A c \in StateConns : WF_vars(StateStep(c))

-----------------------------------------------------------------------------
Labels == {"receive", "add", "reply", "status", "poll", "remove", "result", "deleted"}
Commands == [from : StreamConns, task_id : Ids, sequence_id : Ids \cup {-1}, command_type : {0, 1}]
Results == [task_id : Ids, sequence_id : {0}, error_code : {0}]

TypeOK == /\ commandQueue \in Seq(Commands) /\ Len(commandQueue) <= Capacity
          /\ pc \in [Conns -> Labels]
          /\ wire \in [StreamConns -> Seq([pkt : Packets, part : {"header", "body"}])]
          /\ current_task_id_ \in [StreamConns -> Ids]
          /\ cmd \in [Conns -> {<<>>} \cup {<<k>> : k \in Commands}]
          /\ open \in [Conns -> BOOLEAN]
          /\ sent \in [StreamConns -> Nat] /\ replies \in [StreamConns -> Nat]
          /\ queued \in Seq(Commands) /\ taken \in [StateConns -> Seq(Commands)]
          /\ results \in [StateConns -> Seq(Results)]

IsPoint(k) == k.command_type = 1

\* Where on `queued' the commands of connection c are, and which of them the
\* one at i is.
AddedAt(c) == {i \in DOMAIN queued : queued[i].from = c}
Rank(c, i) == Cardinality({j \in AddedAt(c) : j <= i})

\* The command the i-th packet of a script asks for: a trajectory point
\* belongs to the last task sent before it on the same connection.
LastTask(c, i) == Max({j \in 1 .. i : Script[c][j].kind = "TASK"})
Asked(c, i) ==
  LET p == Script[c][i]
  IN  IF p.kind = "TASK" THEN Command(c, p.id, -1, 0)
                         ELSE Command(c, Script[c][LastTask(c, i)].id, p.id, 1)

\* Every packet of the client asks for a command, and arrives in one piece.
Commanding(c) ==
  c \notin Fragmented /\ \A i \in DOMAIN Script[c] : Script[c][i].kind # "OTHER"

\* The client awaits each reply, and names a task before it sends points.
Awaits(c) ==
  Window = 1 /\ Commanding(c) /\ (Script[c] # <<>> => Script[c][1].kind = "TASK")

\* The client numbers its points upwards.
Numbered(c) ==
  \A i, j \in DOMAIN Script[c] :
     i < j /\ Script[c][i].kind = "JOINT_TRAJ_PT" /\ Script[c][j].kind = "JOINT_TRAJ_PT"
       => Script[c][i].id < Script[c][j].id

(* A client that awaits each reply gets exactly the commands it asked for, *)
(* in its order and each under its own task, whatever other connections do.*)
CommandsFollowScript ==
  \A c \in StreamConns : Awaits(c) =>
     \A i \in AddedAt(c) :
        Rank(c, i) \in DOMAIN Script[c] /\ queued[i] = Asked(c, Rank(c, i))

(* A reply is written only after the packet's command is on commandQueue:  *)
(* a client with n replies has n commands queued, also when it pipelines;  *)
(* and one receive adds at most one command, even when it returned half a  *)
(* packet or parsed bytes that were no header.                             *)
RepliesCountCommands ==
  \A c \in StreamConns :
     /\ Commanding(c) => replies[c] <= Cardinality(AddedAt(c))
     /\ Cardinality(AddedAt(c)) <= replies[c] + 1

\* A point of connection c is at place i of the queue.
WaitingPoint(c, i) == commandQueue[i].from = c /\ IsPoint(commandQueue[i])

(* A client that pipelines can lose points that arrive together, but those *)
(* that are queued come onto the queue in the order of its script, none    *)
(* twice, and the queue keeps that order.  remove() takes the newest of    *)
(* them, so that points which wait together are reported last to first.    *)
PointsQueuedInOrder ==
  \A c \in StreamConns \ Fragmented : Numbered(c) =>
     /\ \A i, j \in AddedAt(c) :
          i < j /\ IsPoint(queued[i]) /\ IsPoint(queued[j])
            => queued[i].sequence_id < queued[j].sequence_id
     /\ \A i, j \in DOMAIN commandQueue :
          i < j /\ WaitingPoint(c, i) /\ WaitingPoint(c, j)
            => commandQueue[i].sequence_id < commandQueue[j].sequence_id

\* The points of task t among the commands s, and among those the state
\* threads removed; the reports of task t, over all state clients.
PointsOf(s, t) == {i \in DOMAIN s : IsPoint(s[i]) /\ s[i].task_id = t}
TakenOf(t)     == UNION {{c} \X PointsOf(taken[c], t) : c \in StateConns}
ResultsOf(c, t) == {i \in DOMAIN results[c] : results[c][i].task_id = t}
ReportsOf(t)   == UNION {{c} \X ResultsOf(c, t) : c \in StateConns}

\* The state threads that have a point of task t to report.
HoldersOf(t) == {c \in StateConns : pc[c] = "result" /\ cmd[c][1].task_id = t}

(* No point vanishes while its state client listens: as many points of a   *)
(* task were queued as wait on the queue or were removed, and a state      *)
(* client that has not left is told of every one its own thread removed,   *)
(* whoever else leaves and whatever write fails.                           *)
NoPointVanishes ==
  \A t \in Ids :
     /\ Cardinality(PointsOf(queued, t)) =
          Cardinality(PointsOf(commandQueue, t)) + Cardinality(TakenOf(t))
     /\ \A c \in StateConns : open[c] =>
          Cardinality(PointsOf(taken[c], t)) =
            Cardinality(ResultsOf(c, t)) + (IF c \in HoldersOf(t) THEN 1 ELSE 0)

(* No point is reported twice, to one state client or to two of them: the  *)
(* results a task gets, from all the state threads together, never outrun  *)
(* the points that were queued for it.                                     *)
ReportedOnce ==
  \A t \in Ids : Cardinality(ReportsOf(t)) <= Cardinality(PointsOf(queued, t))

(* Every packet of a client that awaits its replies is answered, although  *)
(* add() waits for room in a queue that other connections fill and drain.  *)
EveryPacketAnswered == \A c \in StreamConns : <>[](replies[c] = Len(Script[c]))

\* The points of task t in the scripts of all clients.
AskedOf(t) ==
  UNION {{c} \X {i \in DOMAIN Script[c] : IsPoint(Asked(c, i)) /\ Asked(c, i).task_id = t} :
           c \in StreamConns}

(* In the end each task has had exactly as many results as points were     *)
(* asked for under its id, by however many clients, although the newest    *)
(* command is always taken first.                                          *)
EveryPointReported ==
  \A t \in Ids : <>[](Cardinality(ReportsOf(t)) = Cardinality(AskedOf(t)))

(* A lone state client that stays keeps receiving status messages: its     *)
(* thread never falls asleep in remove() after it saw the queue non-empty. *)
StatusKeepsFlowing ==
  \A c \in StateConns : StateConns = {c} => []<>(pc[c] = "status")
=============================================================================
