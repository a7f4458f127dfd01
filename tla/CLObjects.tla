----------------------------- MODULE CLObjects -----------------------------
(***************************************************************************)
(* How the classes of cl2.hpp make the objects behind their handles and    *)
(* ask the runtime about them, as this repository compiles the header:     *)
(* for OpenCL 1.2 with devices of any version, and without exceptions.     *)
(* One section is what the header has for OpenCL 2.0 and later.            *)
(*                                                                         *)
(* The runtime is external.  `rt' is what it answers during one call:      *)
(*   fails      the requests it refuses, each with an error code of its own*)
(*   answer     the objects or values it gives back                        *)
(*   platforms  whether each has devices: "found", "none" or "refused"     *)
(*   version    the digits of its version before and after the point       *)
(*   quiet      the first device that will not tell its build log, or 0    *)
(* It refuses whatever it is asked about NULL.  What fails is never a      *)
(* retain or a release.                                                    *)
(***************************************************************************)
EXTENDS Integers, SequencesExt

NULL == <<"NULL">>
OK   == <<>>
blank == <<"value", 0>>

Once(native)  == << <<native>> >>
Twice(native) == << <<native, "size">>, <<native, "data">> >>

\* The requests are made one after the other, up to the first that fails.
Stopped(requests, failing) ==
  IF failing = {} THEN [calls |-> requests, err |-> OK]
  ELSE LET i == Min(failing) IN [calls |-> SubSeq(requests, 1, i), err |-> requests[i]]
Ran(rt, requests) == Stopped(requests, {i \in DOMAIN requests : requests[i] \in rt.fails})

\* What a call did: its requests, the error it reports, what the handles it
\* fills held before and hold now, which objects the runtime made for it, which
\* were retained and released, and what it told the runtime of the new object.
Left(run, was) ==
  [calls |-> run.calls, err |-> run.err, was |-> was, out |-> was,
   created |-> <<>>, retained |-> <<>>, released |-> <<>>, told |-> <<>>]
Refused(code, was) == Left([calls |-> <<>>, err |-> code], was)

\* getVersion and the functions that find the platform to ask.
Digits[ds \in Seq(0 .. 9)] == IF ds = <<>> THEN 0 ELSE 10 * Digits[Front(ds)] + Last(ds)
getVersion(rt) == 65536 * Digits[rt.version[1]] + Digits[rt.version[2]]

\* Only devices of a runtime of version 1.2 or later are counted.
isReferenceCountable(rt, o) == IF o[1] = "device" THEN getVersion(rt) > 65536 + 1
                               ELSE o[1] \notin {"NULL", "value", "platform"}
Counted(rt, objects) == SelectSeq(objects, LAMBDA o : isReferenceCountable(rt, o))

\* Requests that give back new objects; the others give back objects that
\* somebody holds.
Making == {"clCreateSubDevices", "clCreateKernelsInProgram"}

\* The handles hold `objects' from now on, which they retain if `retain' says so.
Filled(rt, run, was, objects, retain) ==
  [Left(run, was) EXCEPT
     !.out = objects,
     !.created = IF run.calls[1][1] \in Making THEN Counted(rt, objects) ELSE <<>>,
     !.retained = IF retain THEN Counted(rt, objects) ELSE <<>>,
     !.released = Counted(rt, was)]

\* The usual call: nothing has changed if a request was refused.
Answered(rt, run, was, objects, retain) ==
  IF run.err # OK THEN Left(run, was) ELSE Filled(rt, run, was, objects, retain)

-----------------------------------------------------------------------------
\* Which getInfoHelper a parameter's type in the tables of names selects.
TextParams == {"CL_PLATFORM_PROFILE", "CL_PLATFORM_VERSION", "CL_PLATFORM_NAME", "CL_PLATFORM_VENDOR",
               "CL_PLATFORM_EXTENSIONS", "CL_DEVICE_NAME", "CL_DEVICE_VENDOR", "CL_DRIVER_VERSION",
               "CL_DEVICE_PROFILE", "CL_DEVICE_VERSION", "CL_DEVICE_EXTENSIONS", "CL_PROGRAM_SOURCE",
               "CL_PROGRAM_BUILD_OPTIONS", "CL_PROGRAM_BUILD_LOG", "CL_KERNEL_FUNCTION_NAME",
               "CL_DEVICE_OPENCL_C_VERSION", "CL_PROGRAM_KERNEL_NAMES", "CL_KERNEL_ATTRIBUTES",
               "CL_KERNEL_ARG_TYPE_NAME", "CL_KERNEL_ARG_NAME", "CL_DEVICE_BUILT_IN_KERNELS"}
ListParams == {"CL_DEVICE_MAX_WORK_ITEM_SIZES", "CL_CONTEXT_PROPERTIES", "CL_PROGRAM_BINARY_SIZES",
               "CL_DEVICE_PARTITION_PROPERTIES", "CL_DEVICE_PARTITION_TYPE"}
ObjectParams == {"CL_EVENT_COMMAND_QUEUE", "CL_MEM_CONTEXT", "CL_SAMPLER_CONTEXT", "CL_PROGRAM_CONTEXT",
                 "CL_KERNEL_CONTEXT", "CL_KERNEL_PROGRAM", "CL_QUEUE_CONTEXT", "CL_QUEUE_DEVICE",
                 "CL_MEM_ASSOCIATED_MEMOBJECT", "CL_EVENT_CONTEXT", "CL_DEVICE_PARENT_DEVICE"}
ObjectListParams == {"CL_CONTEXT_DEVICES", "CL_PROGRAM_DEVICES"}
ArrayParams == {"CL_KERNEL_COMPILE_WORK_GROUP_SIZE"}

InfoValue(rt, native, was) ==
  Answered(rt, Ran(rt, Once(native)), was, rt.answer, FALSE)

InfoList(rt, native, was) ==
  Answered(rt, Ran(rt, Twice(native)), was, rt.answer, FALSE)

\* Each handle of the list retains its object.
InfoObjects(rt, native, was) ==
  Answered(rt, Ran(rt, Twice(native)), was, rt.answer, TRUE)

\* Mutation of InfoObject: *param = value without the retain that follows it.
InfoObjectOwned(rt, native, was) ==
  Answered(rt, Ran(rt, Once(native)), was, <<rt.answer[1]>>, FALSE)

\* The handle lets go of its object, takes the other one, and retains it
\* unless it is NULL, as the parent of a device that has none is.
InfoObject(rt, native, was) ==
  Answered(rt, Ran(rt, Once(native)), was, <<rt.answer[1]>>, TRUE)

\* A text ends with a terminator, which is dropped; nothing is read of one
\* that has no bytes at all.
InfoText(rt, native, was) ==
  Answered(rt, Ran(rt, IF rt.answer = <<>> THEN << <<native, "size">> >> ELSE Twice(native)),
           was, IF rt.answer = <<>> THEN <<>> ELSE Front(rt.answer), FALSE)

\* As many elements as both have; the others keep what they held.
InfoArray(rt, native, was) ==
  Answered(rt, Ran(rt, Twice(native)), was,
           [i \in DOMAIN was |-> IF i \in DOMAIN rt.answer THEN rt.answer[i] ELSE was[i]], FALSE)

\* The list gets the sizes the runtime gives, none if it gives none, before
\* the binaries are asked for, and keeps them, blank, when these are refused.
BinariesOf(rt, sizes, run, was) ==
  Filled(rt, [run EXCEPT !.calls = sizes.calls \o @], was,
         [i \in 1 .. (IF sizes.err = OK THEN Len(rt.answer) ELSE 0) |-> IF run.err = OK THEN rt.answer[i] ELSE blank],
         FALSE)
InfoBinaries(rt, native, was) ==
  BinariesOf(rt, Ran(rt, Twice("CL_PROGRAM_BINARY_SIZES")), Ran(rt, << <<native, "data">> >>), was)

getInfo(rt, name, was) ==
  CASE name \in TextParams       -> InfoText(rt, name, was)
    [] name \in ListParams       -> InfoList(rt, name, was)
    [] name \in ObjectParams     -> InfoObject(rt, name, was)
    [] name \in ObjectListParams -> InfoObjects(rt, name, was)
    [] name \in ArrayParams      -> InfoArray(rt, name, was)
    [] name = "CL_PROGRAM_BINARIES" -> InfoBinaries(rt, name, was)
    [] OTHER                     -> InfoValue(rt, name, was)

-----------------------------------------------------------------------------
\* Lists of objects.  `given' says whether the caller gave a list to fill.
GetDevices(rt, given, was) ==
  IF given THEN Answered(rt, Ran(rt, Twice("clGetDeviceIDs")), was, rt.answer, TRUE)
  ELSE Refused(<<"CL_INVALID_ARG_VALUE">>, was)

Platforms(rt, given, was) ==
  IF given THEN Answered(rt, Ran(rt, Twice("clGetPlatformIDs")), was, rt.answer, FALSE)
  ELSE Refused(<<"CL_INVALID_ARG_VALUE">>, was)

\* Sub-devices and kernels are new: nobody else holds them, and if no list is
\* given nobody will.
Taken(given, made, was) == IF given THEN made ELSE [made EXCEPT !.out = was, !.released = <<>>]
createSubDevices(rt, given, was) ==
  Taken(given, Answered(rt, Ran(rt, Twice("clCreateSubDevices")), was, rt.answer, FALSE), was)
createKernels(rt, given, was) ==
  Taken(given, Answered(rt, Ran(rt, Twice("clCreateKernelsInProgram")), was, rt.answer, FALSE), was)

getSupportedImageFormats(rt, given, was) ==
  IF ~given THEN Refused(OK, was)
  ELSE Answered(rt, Ran(rt, IF rt.answer = <<>> THEN << <<"clGetSupportedImageFormats", "size">> >>
                            ELSE Twice("clGetSupportedImageFormats")),
                was, rt.answer, FALSE)

-----------------------------------------------------------------------------
\* Constructors: the handle gets the new object, or NULL.
Invalid(native) == [calls |-> Once(native), err |-> <<"CL_INVALID">>]
Created(run, new) ==
  [Left(run, <<NULL>>) EXCEPT !.out = IF run.err = OK THEN new ELSE @, !.created = IF run.err = OK THEN new ELSE @]
Creates(rt, native, parent) ==
  Created(IF parent = NULL THEN Invalid(native) ELSE Ran(rt, Once(native)), << <<native>> >>)

After(calls, outcome) == [outcome EXCEPT !.calls = calls \o @]
Continued(outcome, run) ==
  IF outcome.err # OK THEN outcome ELSE [outcome EXCEPT !.calls = @ \o run.calls, !.err = run.err]
Then(rt, outcome, native) == Continued(outcome, Ran(rt, Once(native)))

\* A default context that could not be made is NULL.
DefaultContext(rt) == IF <<"Context::getDefault">> \in rt.fails THEN NULL ELSE <<"context">>
ByDefault(rt, native) == After(Once("Context::getDefault"), Creates(rt, native, DefaultContext(rt)))

\* What every class passes on to Wrapper: c.was is what the handle and another
\* handle, or a caller who deals in plain objects, hold before.  An object is
\* taken over without a retain unless the constructor is told to.
Forwarded(c) ==
  LET own == c.was[1]
      other == c.was[2]
      kept == <<other, other>>
      moved == <<other, NULL>>
      done == Refused(OK, c.was)
  IN  CASE c.how = "default" -> [done EXCEPT !.was = <<NULL, other>>, !.out = <<NULL, other>>]
        [] c.how = "take"        -> [done EXCEPT !.was = <<NULL, other>>, !.out = moved]
        [] c.how = "take, retain" -> [done EXCEPT !.was = <<NULL, other>>, !.out = kept, !.retained = Counted(c.rt, <<other>>)]
        [] c.how = "= object"    -> [done EXCEPT !.out = moved, !.released = Counted(c.rt, <<own>>)]
        [] c.how = "copy"        -> [done EXCEPT !.was = <<NULL, other>>, !.out = kept, !.retained = Counted(c.rt, <<other>>)]
        [] c.how = "move"        -> [done EXCEPT !.was = <<NULL, other>>, !.out = moved]
        [] c.how = "= copy"      -> [done EXCEPT !.out = kept, !.released = Counted(c.rt, <<own>>),
                                                 !.retained = Counted(c.rt, <<other>>)]
        [] c.how = "= move"      -> [done EXCEPT !.out = moved, !.released = Counted(c.rt, <<own>>)]

\* What a class has from Wrapper, and its getInfo; and what it makes itself.
Handle(c) == IF c.how = "getInfo" THEN getInfo(c.rt, c.name, c.was) ELSE Forwarded(c)
Own(c, native, handle) == IF c.how = "new" THEN Creates(c.rt, native, c.on) ELSE handle

Device(handle)   == handle
Platform(handle) == handle
Context(handle)  == handle
Event(handle)    == handle
Memory(handle)   == handle
Image(handle)    == handle
Program(handle)  == handle
CommandQueue(c, handle) == Own(c, "clCreateCommandQueue", handle)

\* The devices of a context, copied, and the first of them kept.
FirstDevice(rt, outcome, first) ==
  [outcome EXCEPT !.out = first, !.retained = @ \o Counted(rt, first), !.released = @ \o Counted(rt, outcome.out)]

\* makeDefault of a platform: the first of them.
PlatformDefault(rt) ==
  IF rt.answer = <<>>
  THEN Continued(Left(Ran(rt, << <<"clGetPlatformIDs", "size">> >>), <<NULL>>),
                 [calls |-> <<>>, err |-> <<"CL_INVALID_PLATFORM">>])
  ELSE Answered(rt, Ran(rt, Twice("clGetPlatformIDs")), <<NULL>>, << rt.answer[1] >>, FALSE)

\* makeDefault of a device: when the context does not tell its devices, the
\* program reads the first element of an empty list.
Unmade(rt) == Left(Ran(rt, Once("Context::getDefault")), <<NULL>>)
FirstOf(rt, list) ==
  IF list.out = <<>> THEN Refused(<<"undefined">>, <<NULL>>)
  ELSE After(Once("Context::getDefault"), [FirstDevice(rt, list, <<list.out[1]>>) EXCEPT !.was = <<NULL>>])
DeviceDefault(rt) ==
  IF DefaultContext(rt) = NULL THEN Unmade(rt) ELSE FirstOf(rt, InfoObjects(rt, "CL_CONTEXT_DEVICES", <<>>))

\* Context(devices) and Context(device).
ContextFromDevices(rt, devices) ==
  Creates(rt, "clCreateContext", IF devices = <<>> THEN NULL ELSE devices[1])

\* A context of a type on a given platform, or on the first that has devices.
ContextOn(rt, properties, run, has) ==
  CASE properties -> Creates(rt, "clCreateContextFromType", <<"platform", "given">>)
    [] ~properties /\ run.err # OK -> Left(run, <<NULL>>)
    [] ~properties /\ run.err = OK /\ has = {} -> After(run.calls, Refused(<<"CL_DEVICE_NOT_FOUND">>, <<NULL>>))
    [] OTHER -> [After(run.calls, Creates(rt, "clCreateContextFromType", <<"platform", Min(has)>>))
                  EXCEPT !.told = <<Min(has)>>]

\* Mutation of ContextFromType: the platform is the first that answers.
ContextFromFirst(rt, properties) ==
  ContextOn(rt, properties, Ran(rt, Twice("clGetPlatformIDs")),
            {i \in DOMAIN rt.platforms : rt.platforms[i] # "refused"})

\* Context(type): without properties the first platform that has devices.  A
\* platform that refuses to tell is passed over; its code does not come back.
ContextFromType(rt, properties) ==
  ContextOn(rt, properties, Ran(rt, Twice("clGetPlatformIDs")),
            {i \in DOMAIN rt.platforms : rt.platforms[i] = "found"})

\* CommandQueue(properties), on the first device of the default context.
QueueOn(rt, list) ==
  IF list.out = <<>> THEN Refused(<<"undefined">>, <<NULL>>)
  ELSE After(Once("Context::getDefault") \o list.calls, Creates(rt, "clCreateCommandQueue", list.out[1]))
QueueByDefault(rt) ==
  IF DefaultContext(rt) = NULL THEN Unmade(rt) ELSE QueueOn(rt, InfoObjects(rt, "CL_CONTEXT_DEVICES", <<>>))

\* CommandQueue(context, properties), which looks at the error first.
QueueIn(rt, list) ==
  IF list.err # OK THEN [list EXCEPT !.was = <<NULL>>, !.out = <<NULL>>]
  ELSE After(list.calls, Creates(rt, "clCreateCommandQueue", list.out[1]))
QueueOf(rt, context) ==
  IF context = NULL THEN Left([calls |-> << <<"CL_CONTEXT_DEVICES", "size">> >>, err |-> <<"CL_INVALID">>], <<NULL>>)
  ELSE QueueIn(rt, InfoObjects(rt, "CL_CONTEXT_DEVICES", <<>>))

-----------------------------------------------------------------------------
\* Requests about one object: wait, setCallback, setStatus, unloadCompiler.
Asks(rt, native, object) ==
  Left(IF object = NULL THEN Invalid(native) ELSE Ran(rt, Once(native)), <<>>)

\* waitForEvents: the runtime refuses an empty list.
waitForEvents(rt, events) ==
  Asks(rt, "clWaitForEvents", IF events = <<>> \/ NULL \in Range(events) THEN NULL ELSE events[1])

UserEvent(rt, context) == Creates(rt, "clCreateUserEvent", context)

\* Memory and its destructor callback.
setDestructorCallback(rt, memory) == Asks(rt, "clSetMemObjectDestructorCallback", memory)

\* Buffer(context, ...) and Buffer(...) in the default context, whose error is
\* overwritten by that of the creation.
Buffer(c, handle)           == Own(c, "clCreateBuffer", handle)
BufferByDefault(rt) == ByDefault(rt, "clCreateBuffer")

\* Buffer(begin, end, ...): with its own memory it is filled on some queue,
\* and stays when that fails.  A buffer that could not be made is filled too,
\* and the error is the copy's.
Copied(rt, buffer) ==
  [buffer EXCEPT !.calls = @ \o Once("copy"),
                 !.err = (IF buffer.err # OK THEN Invalid("copy") ELSE Ran(rt, Once("copy"))).err]
BufferOf(rt, useHostPtr) ==
  IF useHostPtr THEN ByDefault(rt, "clCreateBuffer") ELSE Copied(rt, ByDefault(rt, "clCreateBuffer"))

createSubBuffer(rt, buffer) == Creates(rt, "clCreateSubBuffer", buffer)
BufferGL(c, handle)         == Own(c, "clCreateFromGLBuffer", handle)
BufferRenderGL(c, handle)   == Own(c, "clCreateFromGLRenderbuffer", handle)

\* The members of a cl_image_desc after its type, in their order.
Members == <<"width", "height", "depth", "array_size", "row_pitch", "slice_pitch",
             "num_mip_levels", "num_samples", "buffer">>
Describes(c, values, handle) ==
  IF c.how # "new" THEN handle ELSE
  [Creates(c.rt, "clCreateImage", c.on) EXCEPT
     !.told = [m \in Range(Members) |-> values[CHOOSE i \in DOMAIN Members : Members[i] = m]]]

\* Image getImageInfo.
getImageInfo(rt, name, was) == getInfo(rt, name, was)

Image1D(c, handle)       == Describes(c, <<c.size.width, 0, 0, 0, 0, 0, 0, 0, 0>>, handle)
Image1DBuffer(c, handle) == Describes(c, <<c.size.width, 0, 0, 0, 0, 0, 0, 0, c.size.buffer>>, handle)
Image1DArray(c, handle)  == Describes(c, <<c.size.width, 0, 0, c.size.array_size, c.size.row_pitch, 0, 0, 0, 0>>, handle)
Image2DArray(c, handle)  ==
  Describes(c, <<c.size.width, c.size.height, 0, c.size.array_size, c.size.row_pitch, c.size.slice_pitch, 0, 0, 0>>, handle)

\* getContextPlatformVersion: a context that tells no devices has version 0.
useCreateImage(rt, context) == context # NULL /\ getVersion(rt) >= 65536 + 2

Image2D(c, handle) ==
  IF useCreateImage(c.rt, c.on)
  THEN Describes(c, <<c.size.width, c.size.height, 0, 0, c.size.row_pitch, 0, 0, 0, 0>>, handle)
  ELSE Own(c, "clCreateImage2D", handle)
Image3D(c, handle) ==
  IF useCreateImage(c.rt, c.on)
  THEN Describes(c, <<c.size.width, c.size.height, c.size.depth, 0, c.size.row_pitch, c.size.slice_pitch, 0, 0, 0>>, handle)
  ELSE Own(c, "clCreateImage3D", handle)

Image2DGL(c, handle) == Own(c, "clCreateFromGLTexture2D", handle)
Image3DGL(c, handle) == Own(c, "clCreateFromGLTexture3D", handle)
ImageGL(c, handle)   == Own(c, "clCreateFromGLTexture", handle)
Sampler(c, handle)   == Own(c, "clCreateSampler", handle)

-----------------------------------------------------------------------------
\* Sizes in the dimensions there are, 1 in the others, and 0 if there are none.
NDRange(sizes) ==
  [dimensions |-> Len(sizes),
   sizes |-> [i \in 1 .. 3 |-> IF sizes = <<>> THEN 0 ELSE IF i <= Len(sizes) THEN sizes[i] ELSE 1]]

\* An argument as the kernel gets it: a handle's object, local memory by its
\* size alone, and anything else by value.
KernelArgument(kind, size) ==
  CASE kind = "memory" -> [size |-> 8, pointer |-> "object_"]
    [] kind = "local"  -> [size |-> size, pointer |-> "NULL"]
    [] OTHER           -> [size |-> size, pointer |-> "value"]
setArg(rt, kernel, kind, size) == [Asks(rt, "clSetKernelArg", kernel) EXCEPT !.told = KernelArgument(kind, size)]

\* EnqueueArgs: a queue or the default one, events, and one to three ranges.
\* A default queue that could not be made is NULL, without a word.
Passed(rt, queue, own, ranges) ==
  LET n == Len(ranges)
      run == [calls |-> IF queue = NULL THEN Once("CommandQueue::getDefault") ELSE <<>>, err |-> OK]
  IN  [Left(run, <<NULL>>) EXCEPT
         !.out = <<own>>, !.retained = Counted(rt, <<own>>),
         !.told = [offset |-> NDRange(IF n = 3 THEN ranges[1] ELSE <<>>),
                   global |-> NDRange(IF n = 3 THEN ranges[2] ELSE ranges[1]),
                   local  |-> NDRange(IF n = 1 THEN <<>> ELSE ranges[n])]]
EnqueueArgs(rt, queue, ranges) ==
  Passed(rt, queue, IF queue # NULL THEN queue
                    ELSE IF <<"CommandQueue::getDefault">> \in rt.fails THEN NULL ELSE <<"queue">>, ranges)

-----------------------------------------------------------------------------
\* The build log of every device of a program, each device retained with its
\* log; after a failure none.
LogsOf(rt, list, told, quiet) ==
  [list EXCEPT !.calls = @ \o FlattenSeq([i \in DOMAIN told |-> Twice("clGetProgramBuildInfo")]),
               !.err = IF quiet THEN <<"clGetProgramBuildInfo">> ELSE OK,
               !.out = IF quiet THEN <<>> ELSE told,
               !.retained = @ \o Counted(rt, told),
               !.released = Counted(rt, IF quiet THEN list.out \o told ELSE list.out)]
Logs(rt, list) ==
  CASE list.err # OK -> list
    [] list.err = OK /\ rt.quiet \in DOMAIN list.out -> LogsOf(rt, list, SubSeq(list.out, 1, rt.quiet), TRUE)
    [] OTHER -> LogsOf(rt, list, list.out, FALSE)
getBuildInfo(rt, program) ==
  IF program = NULL THEN Left(Invalid("CL_PROGRAM_DEVICES"), <<>>)
  ELSE Logs(rt, InfoObjects(rt, "CL_PROGRAM_DEVICES", <<>>))

\* Every build ends by asking for the logs, of which without exceptions
\* nothing is done.
Logged(rt, program, outcome) == [outcome EXCEPT !.calls = @ \o getBuildInfo(rt, program).calls]

BuiltToo(rt, made, build) ==
  IF made.err # OK \/ ~build THEN made ELSE Logged(rt, made.out[1], Then(rt, made, "clBuildProgram"))
ProgramFromSource(rt, context, build) ==
  BuiltToo(rt, Creates(rt, "clCreateProgramWithSource", context), build)
ProgramByDefault(rt, build) == After(Once("Context::getDefault"), ProgramFromSource(rt, DefaultContext(rt), build))

ProgramFromSources(rt, context) == Creates(rt, "clCreateProgramWithSource", context)

\* Program(context, devices, binaries), one binary for each device.
ProgramFromBinaries(rt, context, devices, binaries) ==
  IF Len(binaries) # Len(devices) THEN Refused(<<"CL_INVALID_VALUE">>, <<NULL>>)
  ELSE Creates(rt, "clCreateProgramWithBinary", context)
ProgramBuiltIn(rt, context) == Creates(rt, "clCreateProgramWithBuiltInKernels", context)

\* build(devices), with the trace that this repository adds: it prints the log
\* of the first device, whether there is one and whether the log was told.
Traced(rt, program, built) ==
  [built EXCEPT !.calls = @ \o Once("clGetProgramBuildInfo"),
     !.told = IF <<"clGetProgramBuildInfo">> \notin rt.fails /\ program # NULL THEN "log" ELSE "garbage"]
BuildFor(rt, program, devices) ==
  IF devices = <<>> THEN Refused(<<"undefined">>, <<>>)
  ELSE Logged(rt, program, Traced(rt, program, Asks(rt, "clBuildProgram", program)))
Build(rt, program)   == Logged(rt, program, Asks(rt, "clBuildProgram", program))
Compile(rt, program) == Logged(rt, program, Asks(rt, "clCompileProgram", program))

Kernel(c, handle) == Own(c, "clCreateKernel", handle)

\* linkProgram takes the context of the first program; when the runtime does
\* not tell it, the link is tried without one.
LinkedIn(rt, asked) == After(asked.calls, Creates(rt, "clLinkProgram", asked.out[1]))
linkProgram(rt, programs) ==
  IF programs = <<>> THEN Creates(rt, "clLinkProgram", NULL)
  ELSE LinkedIn(rt, InfoObject(rt, "CL_PROGRAM_CONTEXT", <<NULL>>))

-----------------------------------------------------------------------------
\* For OpenCL 2.0: queues on the device, pipes, images that share the storage
\* of a buffer or an image, and shared virtual memory.

DeviceCommandQueue(c, handle) == Own(c, "clCreateCommandQueueWithProperties", handle)

\* makeDefault() and DeviceCommandQueue(properties): neither default's error is
\* looked at, and the queue of what is NULL is refused.
Defaults == << <<"Context::getDefault">>, <<"Device::getDefault">> >>
DeviceQueueByDefault(rt) ==
  After(Defaults, Creates(rt, "clCreateCommandQueueWithProperties",
                          IF Range(Defaults) \cap rt.fails # {} THEN NULL ELSE <<"device", 1>>))

Pipe(c, handle)   == Own(c, "clCreatePipe", handle)
PipeByDefault(rt) == ByDefault(rt, "clCreatePipe")

ImageOfBuffer(c) == Describes(c, <<c.size.width, c.size.height, 0, 0, c.size.row_pitch, 0, 0, 0, c.size.buffer>>, <<>>)

\* The new image is described as its source says it is; what the source will
\* not say is described by a variable that was never set.
Source == << <<"CL_IMAGE_WIDTH">>, <<"CL_IMAGE_HEIGHT">>, <<"CL_IMAGE_ROW_PITCH">>,
             <<"CL_IMAGE_NUM_MIP_LEVELS">>, <<"CL_IMAGE_NUM_SAMPLES">>, <<"CL_IMAGE_FORMAT">> >>
Says(c, name, value) == IF <<name>> \in c.rt.fails THEN "garbage" ELSE value
ImageOfImage(c) ==
  After(Source, Describes(c, <<Says(c, "CL_IMAGE_WIDTH", c.size.width), Says(c, "CL_IMAGE_HEIGHT", c.size.height), 0, 0,
                               Says(c, "CL_IMAGE_ROW_PITCH", c.size.row_pitch), 0,
                               Says(c, "CL_IMAGE_NUM_MIP_LEVELS", 0), Says(c, "CL_IMAGE_NUM_SAMPLES", 0), c.size.buffer>>, <<>>))

\* The pointers, in their order, that the kernel may follow.
setSVMPointers(rt, kernel, pointers) == [Asks(rt, "clSetKernelExecInfo", kernel) EXCEPT !.told = pointers]
setSVMArg(rt, kernel)                == Asks(rt, "clSetKernelArgSVMPointer", kernel)
getSubGroupInfo(rt, kernel)          == Asks(rt, "clGetKernelSubGroupInfoKHR", kernel)

SVMMemFlags(trait) == CASE trait = "coarse" -> {"READ_WRITE"}
                        [] trait = "fine"   -> {"READ_WRITE", "FINE_GRAIN_BUFFER"}
                        [] trait = "atomic" -> {"READ_WRITE", "FINE_GRAIN_BUFFER", "ATOMICS"}

\* SVMAllocator::allocate.  clSVMAlloc tells by a NULL that it failed.  Coarse
\* memory is mapped on the default queue; when that fails it is not freed.
Mapped(rt, made) ==
  LET run == Ran(rt, << <<"CommandQueue::getDefault">>, <<"clEnqueueSVMMap">> >>)
      err == IF made.err # OK /\ run.err = OK THEN <<"CL_INVALID">> ELSE run.err
  IN  [made EXCEPT !.calls = @ \o run.calls, !.err = err, !.out = IF err = OK THEN @ ELSE <<NULL>>]
allocate(rt, context, trait) ==
  LET made == Creates(rt, "clSVMAlloc", context)
  IN  IF "FINE_GRAIN_BUFFER" \in SVMMemFlags(trait) THEN made ELSE Mapped(rt, made)

\* Mutation of allocate_pointer: the memory is not given back.
allocate_pointer_kept(rt, context, trait) == Then(rt, allocate(rt, context, trait), "construct")

\* allocate_pointer gives the memory back if the constructor cannot allocate.
Constructed(rt, tmp) ==
  LET made == Then(rt, tmp, "construct")
  IN  IF tmp.err # OK \/ made.err = OK THEN made
      ELSE [made EXCEPT !.out = <<NULL>>, !.released = tmp.out]
allocate_pointer(rt, context, trait) == Constructed(rt, allocate(rt, context, trait))

\* clSVMFree does not fail.
Deleter(was) == [Refused(OK, was) EXCEPT !.out = <<NULL>>, !.released = was]

-----------------------------------------------------------------------------
\* The operation c.op, on the object c.on, NULL or not.
Performs(c, handle) ==
  CASE c.op = "Device"       -> Device(handle)
    [] c.op = "Platform"     -> Platform(handle)
    [] c.op = "Context"      -> Context(handle)
    [] c.op = "Event"        -> Event(handle)
    [] c.op = "Memory"       -> Memory(handle)
    [] c.op = "Image"        -> Image(handle)
    [] c.op = "Program"      -> Program(handle)
    [] c.op = "CommandQueue" -> CommandQueue(c, handle)
    [] c.op = "getImageInfo" -> getImageInfo(c.rt, c.name, c.was)
    [] c.op = "getDevices"       -> GetDevices(c.rt, c.given, c.was)
    [] c.op = "Platform::get"    -> Platforms(c.rt, c.given, c.was)
    [] c.op = "createSubDevices" -> createSubDevices(c.rt, c.given, c.was)
    [] c.op = "createKernels"    -> createKernels(c.rt, c.given, c.was)
    [] c.op = "getSupportedImageFormats" -> getSupportedImageFormats(c.rt, c.given, c.was)
    [] c.op = "Platform default" -> PlatformDefault(c.rt)
    [] c.op = "Device default"   -> DeviceDefault(c.rt)
    [] c.op = "Context(devices)" -> ContextFromDevices(c.rt, IF c.on = NULL THEN <<>> ELSE <<c.on>>)
    [] c.op = "Context(type)"    -> ContextFromType(c.rt, c.properties)
    [] c.op = "CommandQueue(properties)" -> QueueByDefault(c.rt)
    [] c.op = "CommandQueue(context)"    -> QueueOf(c.rt, c.on)
    [] c.op = "wait"          -> Asks(c.rt, "clWaitForEvents", c.on)
    [] c.op = "waitForEvents" -> waitForEvents(c.rt, c.was)
    [] c.op = "UserEvent"     -> UserEvent(c.rt, c.on)
    [] c.op = "setDestructorCallback" -> setDestructorCallback(c.rt, c.on)
    [] c.op = "Buffer"        -> Buffer(c, handle)
    [] c.op = "Buffer(flags)" -> BufferByDefault(c.rt)
    [] c.op = "Buffer(begin, end)" -> BufferOf(c.rt, c.properties)
    [] c.op = "createSubBuffer" -> createSubBuffer(c.rt, c.on)
    [] c.op = "BufferGL"       -> BufferGL(c, handle)
    [] c.op = "BufferRenderGL" -> BufferRenderGL(c, handle)
    [] c.op = "Image1D"        -> Image1D(c, handle)
    [] c.op = "Image1DBuffer"  -> Image1DBuffer(c, handle)
    [] c.op = "Image1DArray"   -> Image1DArray(c, handle)
    [] c.op = "Image2D"        -> Image2D(c, handle)
    [] c.op = "Image2DArray"   -> Image2DArray(c, handle)
    [] c.op = "Image3D"        -> Image3D(c, handle)
    [] c.op = "Image2DGL"      -> Image2DGL(c, handle)
    [] c.op = "Image3DGL"      -> Image3DGL(c, handle)
    [] c.op = "ImageGL"        -> ImageGL(c, handle)
    [] c.op = "Sampler"        -> Sampler(c, handle)
    [] c.op = "setArg"         -> setArg(c.rt, c.on, c.name, 4)
    [] c.op = "EnqueueArgs"    -> EnqueueArgs(c.rt, c.on, c.was)
    [] c.op = "Program(source)" -> ProgramFromSource(c.rt, c.on, c.properties)
    [] c.op = "Program(source) by default" -> ProgramByDefault(c.rt, c.properties)
    [] c.op = "Program(sources)" -> ProgramFromSources(c.rt, c.on)
    [] c.op = "Program(binaries)" -> ProgramFromBinaries(c.rt, c.on, c.was, c.rt.answer)
    [] c.op = "Program(kernels)"  -> ProgramBuiltIn(c.rt, c.on)
    [] c.op = "build(devices)" -> BuildFor(c.rt, c.on, c.was)
    [] c.op = "build"          -> Build(c.rt, c.on)
    [] c.op = "compile"        -> Compile(c.rt, c.on)
    [] c.op = "getBuildInfo"   -> getBuildInfo(c.rt, c.on)
    [] c.op = "Kernel"         -> Kernel(c, handle)
    [] c.op = "linkProgram"    -> linkProgram(c.rt, IF c.on = NULL THEN <<>> ELSE <<c.on>>)
    [] c.op = "DeviceCommandQueue" -> DeviceCommandQueue(c, handle)
    [] c.op = "DeviceCommandQueue default" -> DeviceQueueByDefault(c.rt)
    [] c.op = "Pipe"           -> Pipe(c, handle)
    [] c.op = "Pipe by default" -> PipeByDefault(c.rt)
    [] c.op = "Image2D(buffer)" -> ImageOfBuffer(c)
    [] c.op = "Image2D(image)"  -> ImageOfImage(c)
    [] c.op = "setSVMPointers"  -> setSVMPointers(c.rt, c.on, c.was)
    [] c.op = "setSVMArg"       -> setSVMArg(c.rt, c.on)
    [] c.op = "getSubGroupInfo" -> getSubGroupInfo(c.rt, c.on)
    [] c.op = "allocate"        -> allocate(c.rt, c.on, c.name)
    [] c.op = "allocate_pointer" -> allocate_pointer(c.rt, c.on, c.name)
    [] c.op = "Deleter"         -> Deleter(c.was)
Perform(c) == Performs(c, Handle(c))

-----------------------------------------------------------------------------
Times(o, objects) == Len(SelectSeq(objects, LAMBDA x : x = o))
CountedByRuntime(rt, o) ==
  LET major == Digits[rt.version[1]]  minor == Digits[rt.version[2]]
  IN  IF o[1] = "device" THEN major > 1 \/ (major = 1 /\ minor > 1)
      ELSE o[1] \notin {"NULL", "value", "platform"}

\* Every object is counted once for each handle that holds it and the runtime
\* is never asked to count what it does not.  (New sub-devices and kernels that
\* the caller gives no list for are nobody's, nor is memory that could not be
\* mapped.)
Unmapped(c, r) == c.op \in {"allocate", "allocate_pointer"} /\ r.err \in {<<"CommandQueue::getDefault">>, <<"clEnqueueSVMMap">>}
Balanced(c, r) ==
  \A o \in UNION {Range(s) : s \in {r.created, r.retained, r.released, r.out, r.was}} :
     IF CountedByRuntime(c.rt, o)
     THEN \/ Times(o, r.created) + Times(o, r.retained) - Times(o, r.released) = Times(o, r.out) - Times(o, r.was)
          \/ c.op \in {"createSubDevices", "createKernels"} /\ ~c.given
          \/ Unmapped(c, r)
     ELSE Times(o, r.created \o r.retained \o r.released) = 0

\* Requests whose failure a call may pass over.
Overlooks(c) ==
  CASE c.op \in {"build", "build(devices)", "compile"} -> {"CL_PROGRAM_DEVICES", "clGetProgramBuildInfo"}
    [] c.op \in {"Program(source)", "Program(source) by default"} -> {"CL_PROGRAM_DEVICES", "clGetProgramBuildInfo"}
    [] c.op = "EnqueueArgs" -> {"CommandQueue::getDefault"}
    [] c.op = "Image2D(image)" -> {Source[i][1] : i \in DOMAIN Source}
    [] c.how = "getInfo" /\ c.name = "CL_PROGRAM_BINARIES" -> {"CL_PROGRAM_BINARY_SIZES"}
    [] OTHER -> {}
ErrorsSurface(c, r) == r.err = OK =>
  /\ \A x \in Range(r.calls) \cap c.rt.fails : x[1] \in Overlooks(c)
  /\ c.op = "getBuildInfo" => c.rt.quiet \notin DOMAIN c.rt.answer

Queries == {"getImageInfo", "getDevices", "Platform::get", "createSubDevices", "createKernels",
            "getSupportedImageFormats", "getBuildInfo"}
\* A handle that was constructed without error holds an object.  After an
\* error nothing was changed, but for an object that was made and could not
\* be filled or built, and for binaries.
AllOrNothing(c, r) ==
  /\ r.err = OK /\ c.how = "new" /\ c.op \notin Queries \cup {"EnqueueArgs", "Deleter"} => NULL \notin Range(r.out)
  /\ r.err # OK /\ r.out # r.was =>
       \/ c.op \in {"Buffer(begin, end)", "Program(source)", "Program(source) by default"}
       \/ c.how = "getInfo" /\ c.name = "CL_PROGRAM_BINARIES"
  /\ r.err = OK /\ c.op \in {"getDevices", "Platform::get", "createSubDevices", "createKernels"} /\ c.given => r.out = c.rt.answer

\* The sizes an image is made of, by the member of the descriptor; an old
\* runtime is not asked for what it does not know.
Shape == [Image1D |-> {"width"}, Image1DBuffer |-> {"width", "buffer"},
          Image1DArray |-> {"width", "array_size", "row_pitch"}, Image2D |-> {"width", "height", "row_pitch"},
          Image2DArray |-> {"width", "height", "array_size", "row_pitch", "slice_pitch"},
          Image3D |-> {"width", "height", "depth", "row_pitch", "slice_pitch"}]
         @@ ("Image2D(buffer)" :> {"width", "height", "row_pitch", "buffer"})
         @@ ("Image2D(image)" :> {"width", "height", "row_pitch", "buffer"})
Described(c, r) ==
  c.op \in DOMAIN Shape =>
    /\ r.told # <<>> /\ Range(Source) \cap c.rt.fails = {} => r.told = [m \in Range(Members) |-> IF m \in Shape[c.op] THEN c.size[m] ELSE 0]
    /\ c.op \in {"Image2D", "Image3D"} /\ c.how = "new" /\ c.on # NULL =>
         (<<"clCreateImage">> \in Range(r.calls) <=> CountedByRuntime(c.rt, <<"device", 1>>))

\* The work items of a range are the product of its sizes.
Product(s) == FoldLeft(LAMBDA n, d : n * d, 1, s)
Ranged(c, r) == c.op = "EnqueueArgs" =>
  LET n == Len(c.was)
  IN  /\ Product(r.told.global.sizes) = Product(c.was[IF n = 3 THEN 2 ELSE 1])
      /\ r.told.local.dimensions = IF n = 1 THEN 0 ELSE Len(c.was[n])
      /\ n < 3 => r.told.offset = NDRange(<<>>)

\* The platform is the first with a device, whatever others say.
Platformed(c, r) == c.op = "Context(type)" /\ r.told # <<>> =>
  /\ c.rt.platforms[r.told[1]] = "found"
  /\ \A i \in 1 .. r.told[1] - 1 : c.rt.platforms[i] # "found"

(* What a call of cl2.hpp leaves behind: objects counted as often as they  *)
(* are held, no error forgotten, no half-made handle.                      *)
Sound(c, r) == r.err = <<"undefined">> \/ (/\ Balanced(c, r) /\ ErrorsSurface(c, r) /\ AllOrNothing(c, r)
                                           /\ Described(c, r) /\ Ranged(c, r) /\ Platformed(c, r))
=============================================================================
