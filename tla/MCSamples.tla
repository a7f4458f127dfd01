----------------------------- MODULE MCSamples -----------------------------
(***************************************************************************)
(* Small instances of the repository's concurrent programs and components  *)
(* that are too small for a run of their own.  A behaviour runs one of     *)
(* them, named by `program'; the variables of the others keep their first  *)
(* values.                                                                 *)
(***************************************************************************)
EXTENDS SpinLock, CLDefaults, TLC

CONSTANTS t1, t2, t3,
          Width, Height, MaxFound,   \* Mandelbrot
          Robots, MaxClients,        \* RobotServer
          Resetters,                 \* SharedCounter
          Owners, None,              \* JoiningThread
          Frequencies,               \* FrequencyLock
          Sites                      \* Traversal

ASSUME PictureAssumption == Width \in Nat /\ Height \in Nat
ASSUME RobotsAssumption == Robots \in Seq([connect : BOOLEAN, joints_port : Nat, state_port : Nat])
ASSUME OwnersAssumption == None \notin Owners \cup Threads
ASSUME FrequenciesAssumption == 1 \in Frequencies /\ Frequencies \subseteq Nat

VARIABLES
  program,
  main, thread, stop, joined, clients, backlog, late,           \* RobotServer
  at, found, ignored, indent, queue, todo, out, host, file,     \* Mandelbrot
  value, writer, readers, where, round, register, added,        \* SharedCounter
  owned, state, detached, joining,                              \* JoiningThread
  site, directories, listed, attrs, failed, mutex, is_ready, lister, printer,   \* Traversal
  cur_freq, min_freq, max_freq, freq, curGpuFreq, limits, status, step, misread     \* FrequencyLock

serverVars  == <<main, thread, stop, joined, clients, backlog, late>>
pictureVars == <<at, found, ignored, indent, queue, todo, out, host, file>>
counterVars == <<value, writer, readers, where, round, register, added>>
joiningVars == <<owned, state, detached, joining>>
downloadVars == <<site, directories, listed, attrs, failed, mutex, is_ready, lister, printer>>
lockVars     == <<cur_freq, min_freq, max_freq, freq, curGpuFreq, limits, status, step, misread>>

Server  == INSTANCE RobotServer
Picture == INSTANCE Mandelbrot WITH pc <- at
Counter == INSTANCE SharedCounter WITH pc <- where, Threads <- Callers
Joiner  == INSTANCE JoiningThread
Limits  == INSTANCE FrequencyLock WITH todo <- limits, pc <- step

\* A tree with two ways to one directory and manifests at two depths, one
\* without a manifest, and one whose page leads back to itself.
Site(root, pages) == [root |-> root, pages |-> pages, special |-> {".."}, manifests |-> {"m1", "m2"}]
MCSites == {Site("r/", "r/" :> <<"..", "a/", "b/", "f1">> @@ "a/" :> <<"c/", "m1">> @@ "b/" :> <<"c/", "f2", "..">>
                         @@ "c/" :> <<"m2", "f3">>),
            Site("r/", "r/" :> <<"f1">>), Site("r/", "r/" :> <<"r/">>)}

Download == INSTANCE Traversal WITH thread <- lister, main <- printer

ASSUME SitesAssumption == \A s \in Sites : Download!SiteOK(s)

\* Two threads use the default context and queue.
MCAsked == t1 :> {"Context"} @@ t2 :> {"Queue"}

MCRobots == << [connect |-> FALSE, joints_port |-> 1, state_port |-> 2],
               [connect |-> TRUE, joints_port |-> 1, state_port |-> 2] >>

-----------------------------------------------------------------------------
Programs == {"spin", "defaults", "server", "picture", "counter", "joiner", "download", "freqlock"}

SamplesInit ==
  /\ program \in Programs
  /\ Limits!Init /\ (program # "freqlock" => {cur_freq, min_freq, max_freq, freq} = {1})
  /\ Picture!Init /\ (program # "picture" => found = [platforms |-> 0, devices |-> 0])
  /\ Download!Init /\ (program # "download" => site = CHOOSE s \in Sites : TRUE)
  /\ Init /\ DefaultsInit /\ Server!Init /\ Counter!Init /\ Joiner!Init

Only(name) ==
  /\ program = name /\ UNCHANGED program
  /\ name # "spin"     => UNCHANGED vars
  /\ name # "defaults" => UNCHANGED defaultVars
  /\ name # "server"   => UNCHANGED serverVars
  /\ name # "picture"  => UNCHANGED pictureVars
  /\ name # "counter"  => UNCHANGED counterVars
  /\ name # "joiner"   => UNCHANGED joiningVars
  /\ name # "download" => UNCHANGED downloadVars
  /\ name # "freqlock" => UNCHANGED lockVars

samplesVars == <<program, vars, defaultVars, serverVars, pictureVars, counterVars, joiningVars, downloadVars, lockVars>>

SamplesNext ==
  \/ Only("spin") /\ Next
  \/ Only("defaults") /\ DefaultsNext
  \/ Only("server") /\ (Server!Next \/ (~Server!Running /\ UNCHANGED serverVars))
  \/ Only("picture") /\ (Picture!Next \/ (Picture!Ended /\ UNCHANGED pictureVars))
  \/ Only("counter") /\ (Counter!Next \/ (Counter!Ended /\ UNCHANGED counterVars))
  \/ Only("joiner") /\ Joiner!Next
  \/ Only("download") /\ (Download!Next \/ (~Download!Running /\ UNCHANGED downloadVars))
  \/ Only("freqlock") /\ Limits!Next

\* What each program assumes of its scheduler, see the modules.
SpinFairness == /\ \A t \in Threads : /\ WF_samplesVars(Only("spin") /\ Step(t))
                                      /\ WF_samplesVars(Only("spin") /\ Publish(t))
                /\ WF_samplesVars(Only("spin") /\ Return)
DefaultsFairness == \A t \in Callers : WF_samplesVars(Only("defaults") /\ Work(t))
ServerFairness == \A s \in Server!Servers :
                    /\ WF_samplesVars(Only("server") /\ Server!Step(s))
                    /\ WF_samplesVars(Only("server") /\ Server!Connect(Server!Port(s)))
JoinerFairness == /\ WF_samplesVars(Only("joiner") /\ Joiner!Joined)
                  /\ \A t \in Threads : WF_samplesVars(Only("joiner") /\ Joiner!End(t))

DownloadFairness == /\ WF_samplesVars(Only("download") /\ Download!Work)
                    /\ WF_samplesVars(Only("download") /\ Download!Main)

SamplesSpec == /\ SamplesInit /\ [][SamplesNext]_samplesVars
               /\ SpinFairness /\ DefaultsFairness /\ ServerFairness /\ JoinerFairness /\ DownloadFairness

-----------------------------------------------------------------------------
(* Robot server: a server that is told to stop does; see module RobotServer. *)
StoppedServersStop == Server!StoppedServersStop

(* What a program leaves behind is whole: the picture or a blank one, and  *)
(* the attributes of the nearest manifest of all that was to be found; see *)
(* modules Mandelbrot and Traversal.                                       *)
OutputWhole == Picture!PictureWholeOrBlank /\ Download!PrintedIsFound

(* The counters that threads share lose no increment, and no thread runs   *)
(* unowned; see modules SpinLock, SharedCounter and JoiningThread.         *)
ThreadsKept == ResultIsTotal /\ Counter!NoneLost /\ Joiner!NoneRunsUnowned

(* Frequency lock: the limits cross only after a failed read; see module   *)
(* FrequencyLock.                                                          *)
RangeStands == Limits!RangeStands

(* Whoever waits comes back: main for its spinning threads, a caller for a *)
(* default, Stop() for its server, an owner for the thread it joins, and   *)
(* main for the thread that downloads.                                     *)
EveryoneReturns == /\ (program = "spin") ~> (result # NoResult)
                   /\ CallsReturn
                   /\ Server!StopReturns
                   /\ Joiner!JoinsReturn
                   /\ (program = "download" /\ Download!Acyclic) ~> ~Download!Running
=============================================================================
