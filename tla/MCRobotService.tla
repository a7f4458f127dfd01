--------------------------- MODULE MCRobotService ---------------------------
(* Small instances of RobotService: clients that send a task and a few of  *)
(* its points.                                                             *)
EXTENDS RobotService, TLC

CONSTANTS s1, s2, d1, d2

task(n)  == [kind |-> "TASK", id |-> n]
point(n) == [kind |-> "JOINT_TRAJ_PT", id |-> n]
other    == [kind |-> "OTHER", id |-> 1]

\* Two clients that work under the same task at first.
ShortScripts == s1 :> <<task(1), point(1), task(0), point(0)>> @@ s2 :> <<task(1), point(2)>>

\* A client that asks for two points at once, and one whose packet is split.
PipelinedAndSplit == s1 :> <<task(1), point(1), point(2)>> @@ s2 :> <<other>>
=============================================================================
