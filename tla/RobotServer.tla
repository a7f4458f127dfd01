---------------------------- MODULE RobotServer ----------------------------
(***************************************************************************)
(* The servers of the robot simulator, rtp/rtp_server.cpp: main starts two *)
(* RobotSimulatorServer objects for every robot that is to be connected,   *)
(* each with a thread that opens an acceptor on its port and accepts one   *)
(* connection after the other.  What a connection does then is module      *)
(* RobotService.  Stop() is not called by main; here it may be called by   *)
(* whoever holds a server.                                                 *)
(*                                                                         *)
(* The clients and the ports of the machine are external.                  *)
(***************************************************************************)
EXTENDS Naturals, Sequences

CONSTANTS Robots,      \* the parsed configuration: connect, joints_port, state_port
          MaxClients   \* bound: connections that clients open to one port

Ports == {Robots[i].joints_port : i \in DOMAIN Robots}
           \cup {Robots[i].state_port : i \in DOMAIN Robots}
Servers == {<<i, n>> : i \in DOMAIN Robots, n \in {0, 1}}    \* srv[n] of a robot
Port(s) == IF s[2] = 0 THEN Robots[s[1]].joints_port ELSE Robots[s[1]].state_port

VARIABLES main,     \* the robot main is at, or <<"waiting">>, <<"returned">>, <<"terminated">>
          thread,   \* of each server: "none", "starting", "checking", "accepting", "ended"
          stop,     \* stop_ of each server
          joined,   \* Stop() has returned
          clients,  \* connections opened to each port, in all
          backlog,  \* those not yet accepted
          late      \* history: connections a server accepted after its stop_ was set

vars == <<main, thread, stop, joined, clients, backlog, late>>

Init == /\ main = IF Len(Robots) = 0 THEN <<"waiting">> ELSE <<1, 0>>
        /\ thread = [s \in Servers |-> "none"]
        /\ stop = [s \in Servers |-> FALSE]
        /\ joined = [s \in Servers |-> FALSE]
        /\ clients = [p \in Ports |-> 0]
        /\ backlog = [p \in Ports |-> 0]
        /\ late = [s \in Servers |-> 0]

Running == main \notin {<<"returned">>, <<"terminated">>}

\* The next robot of the configuration, or waitForShutdown.
NextRobot(i) == IF i = Len(Robots) THEN <<"waiting">> ELSE <<i + 1, 0>>

SkipRobot == /\ main \in Servers /\ ~Robots[main[1]].connect
             /\ main' = NextRobot(main[1])
             /\ UNCHANGED <<thread, stop, joined, clients, backlog, late>>

\* srv[n].Start().  When there is no thread to be had, the exception is caught
\* as if the configuration had been wrong, and main returns.
Start == /\ main \in Servers /\ Robots[main[1]].connect
         /\ \/ /\ thread' = [thread EXCEPT ![main] = "starting"]
               /\ main' = IF main[2] = 0 THEN <<main[1], 1>> ELSE NextRobot(main[1])
            \/ main' = <<"returned">> /\ UNCHANGED thread
         /\ UNCHANGED <<stop, joined, clients, backlog, late>>

\* waitForShutdown returns; the process ends with all its threads.
Shutdown == /\ main = <<"waiting">> /\ main' = <<"returned">>
            /\ UNCHANGED <<thread, stop, joined, clients, backlog, late>>

\* The acceptor is constructed.  It throws in the thread of the server when
\* the port is taken, by another server or by another program, and nothing
\* catches that.
Open(s) == /\ Running /\ thread[s] = "starting"
           /\ \/ main' = <<"terminated">> /\ UNCHANGED thread
              \/ /\ \A o \in Servers : Port(o) = Port(s) => thread[o] \notin {"checking", "accepting"}
                 /\ thread' = [thread EXCEPT ![s] = "checking"] /\ UNCHANGED main
           /\ UNCHANGED <<stop, joined, clients, backlog, late>>

\* Mutation of Check: the flag is looked at before the first connection only.
CheckOnce(s) == /\ Running /\ thread[s] = "checking"
                /\ thread' = [thread EXCEPT ![s] = IF stop[s] /\ clients[Port(s)] = backlog[Port(s)]
                                                   THEN "ended" ELSE "accepting"]
                /\ UNCHANGED <<main, stop, joined, clients, backlog, late>>

\* while (!stop_.load())
Check(s) == /\ Running /\ thread[s] = "checking"
            /\ thread' = [thread EXCEPT ![s] = IF stop[s] THEN "ended" ELSE "accepting"]
            /\ UNCHANGED <<main, stop, joined, clients, backlog, late>>

\* accept() returns, and the connection gets a RobotService of its own.
Accept(s) == /\ Running /\ thread[s] = "accepting" /\ backlog[Port(s)] > 0
             /\ thread' = [thread EXCEPT ![s] = "checking"]
             /\ backlog' = [backlog EXCEPT ![Port(s)] = @ - 1]
             /\ late' = [late EXCEPT ![s] = IF stop[s] THEN @ + 1 ELSE @]
             /\ UNCHANGED <<main, stop, joined, clients>>

\* Stop(): the flag, and then join().
SetStop(s) == /\ Running /\ thread[s] # "none" /\ ~stop[s]
              /\ stop' = [stop EXCEPT ![s] = TRUE]
              /\ UNCHANGED <<main, thread, joined, clients, backlog, late>>
Join(s) == /\ Running /\ stop[s] /\ ~joined[s] /\ thread[s] = "ended"
           /\ joined' = [joined EXCEPT ![s] = TRUE]
           /\ UNCHANGED <<main, thread, stop, clients, backlog, late>>

\* A client connects to a port that is open.
Connect(p) == /\ Running /\ clients[p] < MaxClients
              /\ \E s \in Servers : Port(s) = p /\ thread[s] \in {"checking", "accepting"}
              /\ clients' = [clients EXCEPT ![p] = @ + 1]
              /\ backlog' = [backlog EXCEPT ![p] = @ + 1]
              /\ UNCHANGED <<main, thread, stop, joined, late>>

Step(s) == Open(s) \/ Check(s) \/ Accept(s) \/ Join(s)

Next == \/ SkipRobot \/ Start \/ Shutdown
        \/ \E s \in Servers : Step(s) \/ SetStop(s)
        \/ \E p \in Ports : Connect(p)

\* Threads are scheduled.  A stopped server is freed only by a client.
Fairness == \A s \in Servers : WF_vars(Step(s)) /\ WF_vars(Connect(Port(s)))

-----------------------------------------------------------------------------
TypeOK == /\ main \in Servers \cup {<<"waiting">>, <<"returned">>, <<"terminated">>}
          /\ thread \in [Servers -> {"none", "starting", "checking", "accepting", "ended"}]
          /\ backlog \in [Ports -> 0 .. MaxClients]

(* A server that is told to stop accepts at most the one connection it was *)
(* already waiting for, and none after Stop() has returned.  No port is    *)
(* open twice, and a robot has no state server without a joints server.    *)
StoppedServersStop ==
  \A s \in Servers :
    /\ late[s] <= 1
    /\ joined[s] => thread[s] = "ended"
    /\ \A o \in Servers : Port(o) = Port(s) /\ thread[o] = "accepting" /\ thread[s] = "accepting" => o = s
    /\ thread[<<s[1], 1>>] # "none" => thread[<<s[1], 0>>] # "none"

(* Stop() returns if there are clients enough to free the server from      *)
(* accept(), unless the process ends.                                      *)
StopReturns ==
  \A s \in Servers : stop[s] ~> \/ joined[s] \/ ~Running
                                \/ clients[Port(s)] = MaxClients
=============================================================================
