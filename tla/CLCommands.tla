---------------------------- MODULE CLCommands ----------------------------
(***************************************************************************)
(* One host thread gives commands to an in-order command queue through     *)
(* cl2.hpp, with its exceptions off: member and free enqueue functions,    *)
(* the blocking copy(), a Buffer made from a range, and a KernelFunctor.   *)
(* Every call of the runtime may fail; what it accepts is executed later.  *)
(*                                                                         *)
(* The contents of a memory object, of an array of the host and of the     *)
(* mapped region are one value each, and a kernel copies its first         *)
(* argument to its second.  A command moves src to dst; one that touches   *)
(* no data moves Nowhere to Nowhere.                                       *)
(***************************************************************************)
EXTENDS Naturals, Sequences

CONSTANTS Buffers, ImageObjects, Arrays,
          MaxCalls   \* the calls in a behaviour

MemoryObjects == Buffers \cup ImageObjects
Region  == "region"     \* what a map makes visible to the host
Pattern == "pattern"    \* what a fill writes
Nowhere == "nowhere"
Shared  == "shared"     \* shared virtual memory as the device has it
View    == "view"       \* and as the host sees it while it is mapped

Places == MemoryObjects \cup Arrays \cup {Region, Pattern, Nowhere, Shared, View}

ASSUME PlacesAssumption ==
  /\ Buffers \cap Arrays = {} /\ ImageObjects \cap Arrays = {} /\ Buffers \cap ImageObjects = {}
  /\ (MemoryObjects \cup Arrays) \cap {Region, Pattern, Nowhere, Shared, View} = {}

VARIABLES
  memory,    \* the contents of everything
  pending,   \* commands that wait for the device
  issued,    \* the number of commands so far, and the name of the last one's event
  event,     \* the command that the caller's Event refers to, or 0
  args,      \* the kernel's arguments
  call,      \* [f, src, dst, blocking, asks, free]: asks for the event, on the default queue
  at,        \* where the call is, or "idle"
  null,      \* a handle that the call needs is NULL
  error,     \* the call's result: TRUE for an error
  ignored,   \* an error has been ignored during the call
  promised,  \* what the destination is to hold
  calls

commandVars == <<memory, pending, issued, event, args, call, at, null, error, ignored, promised, calls>>

\* The contents when a command has been executed, and when all of a queue have.
Moved(m, c) == [m EXCEPT ![c.dst] = m[c.src]]

After(m, queue) == LET after[k \in 0 .. Len(queue)] == IF k = 0 THEN m ELSE Moved(after[k - 1], queue[k])
                   IN  after[Len(queue)]

\* The contents once all pending commands are executed.
Projected == After(memory, pending)

-----------------------------------------------------------------------------
(* What can be called.                                                     *)

Command(f, src, dst, blocking) ==
  [f |-> f, src |-> src, dst |-> dst, blocking |-> blocking, asks |-> FALSE, free |-> FALSE]

\* A call with an Event to fill, through the free function.
Asking(c, asks, free) == [c EXCEPT !.asks = asks, !.free = free]

Within(places) == {p \in places \X places : p[1] # p[2] /\ ~(p[1] \in Arrays /\ p[2] \in Arrays)}

\* enqueueRead-, Write- and CopyBuffer; a copy does not block.
Moves(places) == {c \in {Command("enqueue", p[1], p[2], b) : p \in Within(places), b \in BOOLEAN} :
                    c.blocking => c.src \in Arrays \/ c.dst \in Arrays}
BufferCalls == Moves(Buffers \cup Arrays)

\* Rectangles: of a buffer whose contents are one value, all of them.
RectCalls == Moves(Buffers \cup Arrays)

\* The same of images, and between images and buffers.
ImageCalls       == Moves(ImageObjects \cup Arrays)
ImageBufferCalls == {Command("enqueue", p[1], p[2], FALSE) : p \in (ImageObjects \X Buffers) \cup (Buffers \X ImageObjects)}

FillBufferCalls == {Command("enqueue", Pattern, b, FALSE) : b \in Buffers}
FillImageCalls  == {Command("enqueue", Pattern, i, FALSE) : i \in ImageObjects}

\* enqueueMapBuffer, enqueueMapImage: the caller sees the region.
MapCalls == {Command("enqueue", o, Region, b) : o \in MemoryObjects, b \in BOOLEAN}

\* Shared virtual memory, of OpenCL 2.0: what is mapped the host sees, and what
\* is unmapped the device.  The free function that maps a vector takes it by
\* value, and maps the memory of a copy that is gone when it returns.
MapSVMCalls   == {Command("enqueue", Shared, View, b) : b \in BOOLEAN}
UnmapSVMCalls == {Command("enqueue", View, Shared, FALSE)}
MapSVMCopies  == [f : {"enqueue"}, src : {Nowhere}, dst : {Nowhere}, blocking : BOOLEAN, asks : BOOLEAN, free : {TRUE}]

\* Markers, barriers and migrations; flush, finish; objects shared with OpenGL.
SyncCalls    == {Command("enqueue", Nowhere, Nowhere, FALSE), Command("finish", Nowhere, Nowhere, TRUE)}
InteropCalls == {Command("enqueue", Nowhere, Nowhere, FALSE)}

CopyCalls    == {Command("copy", a, b, TRUE) : a \in Arrays, b \in Buffers} \cup
                {Command("copy", b, a, TRUE) : a \in Arrays, b \in Buffers}
BufferMakers == {Command("Buffer", a, b, TRUE) : a \in Arrays, b \in Buffers}
KernelCalls  == {Command("functor", p[1], p[2], FALSE) : p \in Within(Buffers)}

AllCalls ==
  {Asking(c, a, d) :
     c \in BufferCalls \cup RectCalls \cup ImageCalls \cup ImageBufferCalls \cup FillBufferCalls \cup FillImageCalls
           \cup MapCalls \cup MapSVMCalls \cup UnmapSVMCalls \cup SyncCalls \cup InteropCalls \cup KernelCalls
           \cup CopyCalls \cup BufferMakers,
     a \in BOOLEAN, d \in BOOLEAN}
  \cup MapSVMCopies

\* copy() and the Buffer constructors have an event of their own, a functor
\* always returns one, and there are free functions for some commands only.
Sensible(c) == /\ c.f \in {"finish", "copy", "Buffer"} => ~c.asks
               /\ c.f = "functor" => c.asks
               /\ c.free => c.src # Pattern /\ ~(c.src \in ImageObjects /\ c.dst = Region)

Begin(c) == CASE c.f = "enqueue" -> "enqueue" [] c.f = "finish" -> "finish" [] c.f = "copy" -> "map"
              [] c.f = "Buffer" -> "create" [] c.f = "functor" -> "arg1"

CommandsInit ==
  /\ memory = [o \in Places |-> o]
  /\ pending = <<>> /\ issued = 0 /\ event = 0 /\ args = <<Nowhere, Nowhere>>
  /\ call = Command("finish", Nowhere, Nowhere, TRUE) /\ at = "idle" /\ calls = 0
  /\ null = FALSE /\ error = FALSE /\ ignored = FALSE /\ promised = Nowhere

Invoke ==
  /\ at = "idle" /\ calls < MaxCalls
  /\ \E c \in {d \in AllCalls : Sensible(d)} :
       /\ call' = c
       /\ at' = IF c.free THEN "default" ELSE Begin(c)
       /\ promised' = Projected[c.src]
  /\ calls' = calls + 1
  /\ null' = FALSE /\ error' = FALSE /\ ignored' = FALSE
  /\ UNCHANGED <<memory, pending, issued, event, args>>

-----------------------------------------------------------------------------
(* The steps of a call.                                                    *)

Proceed(label) == at' = label

Return(failed) == at' = "idle" /\ error' = failed

\* One call of the runtime, and what follows if it succeeds or not.
Refused == Return(TRUE) /\ UNCHANGED <<memory, pending, issued, event, args, call, null, ignored, promised, calls>>

Queue(src, dst) == /\ ~null
                   /\ pending' = Append(pending, [src |-> src, dst |-> dst])
                   /\ issued' = issued + 1

\* CommandQueue::getDefault(&error), and no command if it fails.  A map goes
\* on without a queue, which the runtime then refuses.
GetDefault == /\ at = "default"
              /\ \/ call.dst # Region /\ Refused
                 \/ /\ Proceed(Begin(call))
                    /\ null' \in IF call.dst = Region THEN BOOLEAN ELSE {FALSE}
                    /\ UNCHANGED <<memory, pending, issued, event, args, call, error, ignored, promised, calls>>

\* Mutation of Notify: the event goes into a temporary that is dropped.
NotifyNot == event' = event

\* if (event != NULL && err == CL_SUCCESS) *event = tmp.
Notify == event' = IF call.asks THEN issued' ELSE event

Enqueue == /\ at = "enqueue"
           /\ \/ Refused
              \/ /\ Queue(call.src, call.dst) /\ Notify
                 /\ IF call.blocking THEN Proceed("block") /\ UNCHANGED error ELSE Return(FALSE)
                 /\ UNCHANGED <<memory, args, call, null, ignored, promised, calls>>

\* The runtime returns from a blocking command, or from clFinish.
Block == /\ at \in {"block", "finish"} /\ pending = <<>>
         /\ Return(FALSE)
         /\ UNCHANGED <<memory, pending, issued, event, args, call, null, ignored, promised, calls>>

FinishFails == at = "finish" /\ Refused

\* copy(): a blocking map, std::copy, an unmap and a wait for its event.
MapBuffer == /\ at = "map"
             /\ \/ Refused
                \/ /\ Queue(IF call.dst \in Arrays THEN call.src ELSE call.dst, Region)
                   /\ Proceed("mapped")
                   /\ UNCHANGED <<memory, event, args, call, null, error, ignored, promised, calls>>

StdCopy == /\ at = "mapped" /\ pending = <<>>
           /\ memory' = IF call.dst \in Arrays THEN [memory EXCEPT ![call.dst] = memory[Region]]
                        ELSE [memory EXCEPT ![Region] = memory[call.src]]
           /\ Proceed("unmap")
           /\ UNCHANGED <<pending, issued, event, args, call, null, error, ignored, promised, calls>>

\* What has been written to the region reaches the buffer when it is unmapped.
UnmapMemObject ==
  /\ at = "unmap"
  /\ \/ Refused
     \/ /\ IF call.dst \in Arrays THEN Queue(Nowhere, Nowhere) ELSE Queue(Region, call.dst)
        /\ Proceed("wait")
        /\ UNCHANGED <<memory, event, args, call, null, error, ignored, promised, calls>>

\* Mutation of Wait: the copy returns at once.
WaitNot == /\ at = "wait"
           /\ Return(FALSE)
           /\ UNCHANGED <<memory, pending, issued, event, args, call, null, ignored, promised, calls>>

\* endEvent.wait(), whose result is dropped.
Wait == /\ at = "wait"
        /\ Return(FALSE)
        /\ \/ pending = <<>> /\ UNCHANGED ignored
           \/ ignored' = TRUE
        /\ UNCHANGED <<memory, pending, issued, event, args, call, null, promised, calls>>

\* Buffer(begin, end): clCreateBuffer and a queue of its own.  Each error
\* overwrites the one before, and the copy fails without either handle.
Create == /\ at \in {"create", "newqueue"}
          /\ Proceed(IF at = "create" THEN "newqueue" ELSE "map")
          /\ null' \in {null, TRUE}
          /\ UNCHANGED <<memory, pending, issued, event, args, call, error, ignored, promised, calls>>

\* KernelFunctor: setArgs ignores what setArg returns.
SetArg(k) == /\ at = <<"arg1", "arg2">>[k]
             /\ Proceed(<<"arg2", "launch">>[k])
             /\ \/ args' = [args EXCEPT ![k] = <<call.src, call.dst>>[k]] /\ UNCHANGED ignored
                \/ ignored' = TRUE /\ UNCHANGED args
             /\ UNCHANGED <<memory, pending, issued, event, call, null, error, promised, calls>>

\* The runtime refuses a kernel with an argument that was never set.
Launch == /\ at = "launch"
          /\ \/ Refused
             \/ /\ \A k \in {1, 2} : args[k] # Nowhere
                /\ Queue(args[1], args[2]) /\ Notify
                /\ Return(FALSE)
                /\ UNCHANGED <<memory, args, call, null, ignored, promised, calls>>

\* The device executes the next command.
Execute == /\ pending # <<>>
           /\ memory' = Moved(memory, pending[1])
           /\ pending' = Tail(pending)
           /\ UNCHANGED <<issued, event, args, call, at, null, error, ignored, promised, calls>>

Over == at = "idle" /\ calls = MaxCalls /\ pending = <<>> /\ UNCHANGED commandVars

CommandsNext ==
  \/ Invoke \/ GetDefault
  \/ Enqueue \/ Block \/ FinishFails
  \/ MapBuffer \/ StdCopy \/ UnmapMemObject \/ Wait
  \/ Create
  \/ \E k \in {1, 2} : SetArg(k)
  \/ Launch
  \/ Execute \/ Over

CommandsSpec == CommandsInit /\ [][CommandsNext]_commandVars

-----------------------------------------------------------------------------
CommandsTypeOK == /\ issued \in Nat /\ event \in 0 .. issued
                  /\ args \in (Buffers \cup {Nowhere}) \X (Buffers \cup {Nowhere})
                  /\ Len(pending) <= issued

(* A call that reports success has done its work, whatever was under way   *)
(* before and whatever went wrong in calls before: its destination holds,  *)
(* or will hold once the device is that far, what its source was to hold,  *)
(* a blocking one holds it already, and the caller's Event stands for it.  *)
(* Only an error that the library drops may break this: that of an         *)
(* argument, so that a functor launches with an earlier one, and that of   *)
(* the wait at the end of a copy.                                          *)
SuccessMeansDone ==
  at = "idle" /\ calls > 0 /\ ~error /\ ~ignored =>
    /\ Projected[call.dst] = promised
    /\ call.blocking => memory[call.dst] = promised
    /\ call.asks => event = issued
=============================================================================
