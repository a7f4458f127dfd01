----------------------------- MODULE Mandelbrot -----------------------------
(***************************************************************************)
(* OpenCL-examples: main of the Mandelbrot program, the OpenCL class and   *)
(* the utilities it uses, the kernel `julia' and save_png.                 *)
(*                                                                         *)
(* The runtime is external: any call may fail, a launched kernel runs its  *)
(* work items in any order, and the commands of a queue are executed one   *)
(* after the other.  The colour of a pixel is the point it stands for; the *)
(* iteration that gives it a number is left out.                           *)
(***************************************************************************)
EXTENDS Naturals, Sequences

CONSTANTS Width, Height,
          MaxFound      \* at most so many platforms, and devices of one

Pixels == (0 .. Width - 1) \X (0 .. Height - 1)
Addresses == 0 .. Width * Height - 1
Blank == [a \in Addresses |-> <<>>]
NoFile == [p \in Pixels |-> <<"none">>]

VARIABLES pc,       \* the next call of main, or how main ended
          found,    \* how many platforms there are, and devices of the third
          ignored,  \* calls that failed, and nobody looked at the error
          indent,   \* the length of Log::m_indent
          queue,    \* the commands that are not finished
          todo,     \* work items of the kernel that have not run
          out,      \* mandel_d, the buffer on the device
          host,     \* mandel_h
          file      \* the picture that save_png wrote

vars == <<pc, found, ignored, indent, queue, todo, out, host, file>>

Init == /\ pc = "start"
        /\ found \in [platforms : 0 .. MaxFound, devices : 0 .. MaxFound]
        /\ ignored = {} /\ indent = 0
        /\ queue = <<>> /\ todo = {} /\ out = Blank /\ host = Blank
        /\ file = NoFile

Device == <<queue, todo, out>>
At(here, there) == pc = here /\ pc' = there

\* An error that nobody looks at: the program goes on.
Unnoticed(call) == ignored' = ignored \/ ignored' = ignored \cup {call}

\* checkErr: an exception that nothing catches, or the next call.
checkErr(ok, there) == pc' = IF ok THEN there ELSE "thrown"

\* Indexing a vector past its end.
Indexed(i, n) == i < n

\* Timer::start: a message, and what follows is indented.
StartTimer == /\ At("start", "platforms")
              /\ indent' = indent + 1
              /\ UNCHANGED <<found, ignored, Device, host, file>>

\* get_default_gpu_context up to the choice of platform_list[2].
ChoosePlatform == /\ pc = "platforms"
                  /\ indent' = indent + 1
                  /\ IF found.platforms = 0 THEN pc' = "thrown"
                     ELSE IF Indexed(2, found.platforms) THEN pc' = "devices"
                     ELSE pc' = "undefined"
                  /\ UNCHANGED <<found, ignored, Device, host, file>>

\* Mutation of ChooseDevice: the indentation of the initialisation stays.
ChooseDeviceIndented ==
  /\ pc = "devices" /\ checkErr(found.devices # 0, "context")
  /\ UNCHANGED <<found, ignored, indent, Device, host, file>>

\* device_list[0], and the end of the log's block.
ChooseDevice == /\ pc = "devices" /\ checkErr(found.devices # 0, "context")
                /\ indent' = IF found.devices # 0 THEN indent - 1 ELSE indent
                /\ UNCHANGED <<found, ignored, Device, host, file>>

MakeContext == /\ At("context", "queue") /\ Unnoticed("context")
               /\ UNCHANGED <<found, indent, Device, host, file>>
MakeQueue == /\ At("queue", "source") /\ Unnoticed("queue")
             /\ UNCHANGED <<found, indent, Device, host, file>>

\* load_source: is_open() is checked.
LoadSource == /\ pc = "source"
              /\ \E ok \in BOOLEAN : checkErr(ok, "build")
              /\ UNCHANGED <<found, ignored, indent, Device, host, file>>

\* build_program_from_sources.  The log of devices[2] is asked for before
\* checkErr is called, that is even when the build succeeds.
Build == /\ pc = "build"
         /\ IF Indexed(2, found.devices)
            THEN \E ok \in BOOLEAN : checkErr(ok /\ "context" \notin ignored, "buffer")
            ELSE pc' = "undefined"
         /\ UNCHANGED <<found, ignored, indent, Device, host, file>>

MakeBuffer == /\ At("buffer", "kernel") /\ Unnoticed("buffer")
              /\ UNCHANGED <<found, indent, Device, host, file>>

\* OpenCL::kernel.
MakeKernel == /\ pc = "kernel"
              /\ \E ok \in BOOLEAN : checkErr(ok, "launch")
              /\ UNCHANGED <<found, ignored, indent, Device, host, file>>

\* KernelFunctor::operator(): sets the arguments, enqueues the kernel and
\* returns its event, with no way to tell that it failed.
Launch ==
  /\ At("launch", "read") /\ Unnoticed("launch")
  /\ IF ignored' = {}
     THEN queue' = <<"julia">> /\ todo' = Pixels
     ELSE UNCHANGED <<queue, todo>>
  /\ UNCHANGED <<found, indent, out, host, file>>

\* Mutation of ReadBack: the wait list is empty and the call does not block,
\* on a queue that runs its commands as they come.
ReadBackAtOnce == /\ At("read", "finish") /\ Unnoticed("read")
                  /\ host' = IF ignored' = {} THEN out ELSE host
                  /\ UNCHANGED <<found, indent, Device, file>>

\* enqueueReadBuffer, after the event of the kernel; without the event, or the
\* queue, it fails too.  Its result is not looked at.
ReadBack == /\ pc = "read" /\ Unnoticed("read")
            /\ IF ignored' = {}
               THEN pc' = "blocked" /\ queue' = Append(queue, "read")
               ELSE pc' = "finish" /\ UNCHANGED queue
            /\ UNCHANGED <<found, indent, todo, out, host, file>>

\* The call blocks until the data are there.
Unblock == /\ At("blocked", "finish") /\ queue = <<>>
           /\ UNCHANGED <<found, ignored, indent, Device, host, file>>

\* finish() returns when the queue is empty; the handles go out of scope.
Finish == /\ At("finish", "stop") /\ queue = <<>>
          /\ UNCHANGED <<found, ignored, indent, Device, host, file>>

\* Timer::stop.
StopTimer == /\ At("stop", "save")
             /\ indent' = indent - 1
             /\ UNCHANGED <<found, ignored, Device, host, file>>

\* Mutation of Index: rows and columns are exchanged.
IndexByColumns(i, j) == i * Height + j

\* save_png: data[i + j*width]
Index(i, j) == i + j * Width

SavePng == /\ At("save", "end")
           /\ file' = [p \in Pixels |-> host[Index(p[1], p[2])]]
           /\ UNCHANGED <<found, ignored, indent, Device, host>>

\* A work item of julia: out[i + j * get_global_size(0)].
WorkItem(p) == /\ queue # <<>> /\ Head(queue) = "julia" /\ p \in todo
               /\ out' = [out EXCEPT ![p[1] + p[2] * Width] = p]
               /\ todo' = todo \ {p}
               /\ queue' = IF todo' = {} THEN Tail(queue) ELSE queue
               /\ UNCHANGED <<pc, found, ignored, indent, host, file>>

\* The device copies the buffer to the host.
Transfer == /\ queue # <<>> /\ Head(queue) = "read"
            /\ host' = out /\ queue' = Tail(queue)
            /\ UNCHANGED <<pc, found, ignored, indent, todo, out, file>>

Main == \/ StartTimer \/ ChoosePlatform \/ ChooseDevice \/ MakeContext \/ MakeQueue
        \/ LoadSource \/ Build \/ MakeBuffer \/ MakeKernel \/ Launch \/ ReadBack
        \/ Unblock \/ Finish \/ StopTimer \/ SavePng

Ended == pc \in {"end", "thrown", "undefined"}

Next == Main \/ (\E p \in Pixels : WorkItem(p)) \/ Transfer

-----------------------------------------------------------------------------
TypeOK == /\ ignored \subseteq {"context", "queue", "buffer", "launch", "read"}
          /\ indent \in 0 .. 2 /\ todo \subseteq Pixels
          /\ queue \in {<<>>, <<"julia">>, <<"julia", "read">>, <<"read">>}

(* The picture shows every point in its place, or, after a failure that    *)
(* nobody noticed, nothing at all; it is never half drawn.  The log is     *)
(* indented as at the start.                                               *)
PictureWholeOrBlank ==
  pc = "end" => /\ indent = 0
                /\ \/ \A p \in Pixels : file[p] = p
                   \/ ignored # {} /\ \A p \in Pixels : file[p] = <<>>
=============================================================================
