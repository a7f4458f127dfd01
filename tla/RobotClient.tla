---------------------------- MODULE RobotClient ----------------------------
(***************************************************************************)
(* The test client of the robot simulator, rtp/rtp_client.cpp: the entries *)
(* under "commands" of the configuration become tasks and error handlers,  *)
(* and only when all of them are built are the tasks executed.  ROS, the   *)
(* JSON parser and rwc are libraries; start() and execute() only print.    *)
(*                                                                         *)
(* An operation is [type, arm, values]; an entry has operations besides.   *)
(* Each result is <<>>, <<value>>, Thrown for an exception that nothing     *)
(* catches, or Astray when the code's behaviour is undefined: values read  *)
(* behind the end of a vector, or a function that does not return the      *)
(* value it owes.                                                          *)
(***************************************************************************)
EXTENDS Naturals, Sequences, SequencesExt

\* RobotCommand's operations, by the configuration's names for them.
Operations == [joints |-> "JOINTS", linear |-> "LINEAR", weld |-> "WELD_LINEAR",
               attach |-> "ATTACH", detach |-> "DETACH"]

Thrown == <<"thrown", "no result">>
Astray == <<"astray", "no result">>
Failure(r) == Len(r) = 2

toRobotCommand(o) ==
  CASE o.type \notin DOMAIN Operations -> Thrown
    [] o.type \in {"linear", "weld"} /\ Len(o.values) < 6 -> Astray
    [] OTHER ->
         << [operation |-> Operations[o.type], robot_name |-> o.arm,
             joint_trajectory |-> IF o.type = "joints" THEN o.values ELSE <<>>,
             linear_poses |-> IF o.type \in {"linear", "weld"} THEN <<SubSeq(o.values, 1, 6)>> ELSE <<>>] >>

\* The commands of an entry; the first failure ends it.
Commands(operations) ==
  LET commands == [k \in DOMAIN operations |-> toRobotCommand(operations[k])]
      failed   == SelectSeq(commands, Failure)
  IN  IF failed # <<>> THEN failed[1] ELSE <<FlattenSeq(commands)>>

\* Mutation of Ids: an error handler has a task's ids.
IdsAlike(entry) == IF entry.type \in {"task", "error_handler"} THEN 2 ELSE 0

\* How many of the entry's values are ids.
Ids(entry) == CASE entry.type = "task" -> 2 [] entry.type = "error_handler" -> 1 [] OTHER -> 0

\* What an entry becomes: nothing, if its type is another one.
Built(entry) ==
  CASE Ids(entry) = 0                 -> <<>>
    [] Ids(entry) > Len(entry.values) -> Astray
    [] OTHER -> IF Failure(Commands(entry.operations)) THEN Commands(entry.operations)
                ELSE << [type |-> entry.type, ids |-> SubSeq(entry.values, 1, Ids(entry)),
                         robot_name |-> entry.arm, commands |-> Commands(entry.operations)[1]] >>

\* executeTask() for each task.  It and what it calls end without the Responce
\* they are to return: a build may lose only that value, which nobody uses,
\* or go astray with the first task.
executeTasks(done) == {<<done>>} \cup {Astray : t \in ToSet(done.tasks)}

\* main: the error handlers, and the tasks as executeTask gets them.
main(entries) ==
  LET built  == [k \in DOMAIN entries |-> Built(entries[k])]
      failed == SelectSeq(built, Failure)
      Of(type) == SelectSeq(FlattenSeq(built), LAMBDA b : b.type = type)
  IN  IF failed # <<>> THEN {failed[1]}
      ELSE executeTasks([error_handlers |-> Of("error_handler"), tasks |-> Of("task")])

-----------------------------------------------------------------------------
(* What the client promises.                                               *)

Legal(o) == /\ o.type \in {"joints", "linear", "weld", "attach", "detach"}
            /\ o.type \in {"linear", "weld"} => Len(o.values) >= 6

\* A command carries the values of its operation where its kind has them.
Carries(command, o) ==
  /\ command.robot_name = o.arm
  /\ command.joint_trajectory # <<>> => command.joint_trajectory = o.values /\ command.operation = "JOINTS"
  /\ o.type = "joints" => command.joint_trajectory = o.values
  /\ Len(command.linear_poses) = IF o.type \in {"linear", "weld"} THEN 1 ELSE 0

Faithful(item, entry) ==
  /\ item.robot_name = entry.arm
  /\ item.ids = SubSeq(entry.values, 1, IF entry.type = "task" THEN 2 ELSE 1)
  /\ Len(item.commands) = Len(entry.operations)
  /\ \A k \in DOMAIN item.commands : Carries(item.commands[k], entry.operations[k])

\* Every task is executed, in order and as configured, or none is: one bad
\* entry anywhere keeps all the others from being executed.  With good ones
\* the client goes astray at most when it executes a task.
AllOrNothing(entries, r) ==
  LET Of(type)   == SelectSeq(entries, LAMBDA e : e.type = type)
      Good(e)    == e.type \in {"task", "error_handler"} =>
                      /\ Len(e.values) >= IF e.type = "task" THEN 2 ELSE 1
                      /\ \A k \in DOMAIN e.operations : Legal(e.operations[k])
      Match(items, type) == /\ Len(items) = Len(Of(type))
                            /\ \A k \in DOMAIN items : Faithful(items[k], Of(type)[k])
      AllGood    == \A k \in DOMAIN entries : Good(entries[k])
  IN  /\ ~AllGood => Failure(r)
      /\ AllGood /\ Failure(r) => r = Astray /\ Of("task") # <<>>
      /\ ~Failure(r) => Match(r[1].tasks, "task") /\ Match(r[1].error_handlers, "error_handler")
=============================================================================
