---------------------------- MODULE MCFunctions ----------------------------
(***************************************************************************)
(* One call of a function of the repository's libraries, with a small      *)
(* argument, and what the function promises of its result.                 *)
(*                                                                         *)
(* The transforms and solvers are linear in their data: what holds for     *)
(* the unit vectors and matrices holds for all.                            *)
(***************************************************************************)
EXTENDS Integers, FiniteSets, Sequences

VARIABLES call,    \* the function's name and its arguments
          result   \* <<>> before the call, then <<what it returned>>, or why it did not

C == INSTANCE Chebyshev WITH p <- 97, root <- 28, Order <- 32
S == INSTANCE BartelsStewart WITH p <- 3
B == INSTANCE BitOps
L == INSTANCE CommandLine
R == INSTANCE RobotClient
H == INSTANCE HexEmbed
T == INSTANCE TriMesh
A == INSTANCE AmgDriver WITH p <- 3
O == INSTANCE CLObjects
P == INSTANCE PngImage

\* What body_ax computes with elliptic integrals and the like: any functions
\* will do, if the Green's function is linear where rules are to be exact.
CosOf(angle)       == C!cos(angle)
SinOf(angle)       == C!sin(angle)
LogOf(v)           == (5 * v + 3) % 97
RingAt(at, ring)   == [u |-> (at.x + 2 * ring.y) % 7, v |-> (3 * at.y + ring.x) % 5]
GreenAt(at, point) == [g |-> 2 + at.x + 3 * point.x - point.y, gx |-> 1 + point.x + at.y, gs |-> 2 * point.y - at.x]

K == INSTANCE BodyContour WITH Vortex <- RingAt, Cos <- CosOf, Sin <- SinOf, HalfTurn <- 16
W == INSTANCE BodyFlow WITH p <- 97, Pi <- 3, Green <- GreenAt, Vortex <- RingAt, Log <- LogOf, Cos <- CosOf,
                            Sin <- SinOf, Garbage <- 13

-----------------------------------------------------------------------------
UnitVectors(n)     == {[j \in 0 .. n |-> IF j = k THEN 1 ELSE 0] : k \in 0 .. n}
UnitMatrices(m, n) == {[i \in 0 .. m |-> [j \in 0 .. n |-> IF <<i, j>> = at THEN 1 ELSE 0]] :
                         at \in (0 .. m) \X (0 .. n)}

TransformCalls ==
  UNION {{[f |-> "cosfft1", n |-> n, data |-> v, inverse |-> inv] :
            inv \in BOOLEAN, v \in UnitVectors(n)} : n \in {2, 4, 8}} \cup
  UNION {{[f |-> f, m |-> m, n |-> 4, data |-> v, inverse |-> inv] :
            f \in {"cft2", "cft2_with_transpose"}, inv \in BOOLEAN, v \in UnitMatrices(m, 4)} : m \in {2, 4}}

\* The number of intervals is even, as the transform demands.
DerivativeCalls ==
  UNION {{[f |-> "spectral_differentiate", n |-> n, data |-> v, span |-> s] :
            s \in {1, 3}, v \in [0 .. n -> {0, 1}]} : n \in {3, 4, 6}} \cup
  UNION {{[f |-> f, m |-> m, n |-> 6, data |-> v] :
            f \in {"homogeneous_boundary", "second_derivative"}, v \in UnitMatrices(m, 6)} : m \in {4, 6}}

\* Lower triangular but for an element that joins rows block and block + 1.
Lower(diagonal, block) ==
  [i \in 0 .. 2 |-> [j \in 0 .. 2 |-> CASE i = j -> diagonal[i + 1]
                                        [] j < i -> (1 + i + 2 * j) % 3
                                        [] j > i -> IF j = i + 1 /\ i = block THEN 2 ELSE 0]]
LowerMatrices == {Lower(d, block) : d \in {<<0, 1, 1>>, <<1, 2, 0>>, <<1, 1, 1>>, <<2, 2, 1>>},
                                    block \in {0, 1, 2}}

\* Signed permutations: the orthogonal matrices of this size modulo 3.
U == [i \in 0 .. 2 |-> [j \in 0 .. 2 |-> IF j = (i + 1) % 3 THEN IF i = 0 THEN 2 ELSE 1 ELSE 0]]
V == [i \in 0 .. 2 |-> [j \in 0 .. 2 |-> IF i = (j + 1) % 3 THEN IF i = 2 THEN 2 ELSE 1 ELSE 0]]

SolverCalls ==
  {[f |-> "bs_solve", a |-> a, b |-> S!Transpose(2, 2, b), data |-> c] :
     a \in LowerMatrices, b \in LowerMatrices, c \in UnitMatrices(2, 2)} \cup
  {[f |-> "bs_solve_one", a |-> S!Transpose(2, 2, a), data |-> c] :
     a \in LowerMatrices, c \in UnitMatrices(2, 2)}

\* The reversals preserve unions, and Log2 is meant for powers of two.
BitCalls ==
  {[f |-> f, x |-> {b, d}] : f \in {"Log2", "bitrev32"}, b \in 0 .. 31, d \in 0 .. 31} \cup
  {[f |-> f, x |-> {b, d}] : f \in {"bitrev16"}, b \in 0 .. 15, d \in 0 .. 15} \cup
  {[f |-> "Log2l", x |-> {b}] : b \in 0 .. 63} \cup
  {[f |-> "zero_gap", x |-> x] : x \in SUBSET (0 .. 7)} \cup
  {[f |-> "shl_lsb", x |-> x, msb |-> 28, lsb |-> lsb] : x \in SUBSET {11, 12, 13, 28, 29}, lsb \in {12, 13}}

TextsUpTo(n, chars) == UNION {[1 .. k -> chars] : k \in 0 .. n}

ParserCalls ==
  {[f |-> "integer_parser", bits |-> 4, signed |-> s, text |-> t] :
     s \in BOOLEAN, t \in TextsUpTo(4, {"-", "0", "1", "9", "x", "f"})} \cup
  {[f |-> f, words |-> w] :
     f \in {"opts", "get_opt"}, w \in TextsUpTo(4, {<<"-", "v">>, <<"-", "l">>, <<"-", "x", "3">>, <<"a">>, <<"-">>})}

\* Specifiers, words and spelt truths, for the two builds of the parser.
BuildCalls ==
  {[f |-> "SplitSwitchDef", text |-> t] : t \in TextsUpTo(4, {"a", "=", "-", ",", " "})} \cup
  {[f |-> "ParseArgument", text |-> t] : t \in TextsUpTo(5, {"a", "=", "-", "_"})} \cup
  {[f |-> "IsTrueText", text |-> t] :
     t \in {<<"t">>, <<"f">>, <<"0">>, <<"1">>, <<>>, <<"t", "r", "u", "e">>, <<"f", "a", "l", "s", "e">>, <<"t", "1">>}}

\* Options with help, their descriptions pieced together from words and space.
HelpOption(s, l, type, desc) ==
  LET v == L!standard_value(type)
  IN  [type |-> v.type, default |-> v.default, implicit |-> v.implicit,
       short |-> s, long |-> l, arg_help |-> <<>>, desc |-> desc]
Pieces == {<<"a">>, <<"b", "b", "b">>, <<"c", "c", "c", "c", "c", "c">>, <<" ">>, <<"\n">>, <<"\t">>}
Pieced(ps) == IF ps = <<>> THEN <<>> ELSE L!FlattenSeq(ps)
HelpValues == {HelpOption(<<"d">>, <<"d", "b">>, "flag", <<>>),
               L!default_value(HelpOption(<<>>, <<"l", "i">>, "list", <<>>), <<"1", "0">>),
               L!default_value(HelpOption(<<"n">>, <<>>, "text", <<>>), <<>>),
               L!implicit_value(HelpOption(<<"g">>, [k \in 1 .. 20 |-> "g"], "number", <<"a", " ", "b">>), <<"1">>)}
HelpCalls ==
  {[f |-> "format_description", o |-> [o EXCEPT !.desc = Pieced(ps)], tabs |-> t] :
     o \in {v \in HelpValues : v.type # "number"}, ps \in TextsUpTo(3, Pieces), t \in BOOLEAN} \cup
  {[f |-> "help", names |-> ns, hidden |-> h,
    help |-> [n \in {<<"g">>, <<"h">>} |-> L!SetToSeq(IF n = <<"g">> THEN os ELSE HelpValues)]] :
     os \in SUBSET HelpValues, h \in {{}, {<<"l", "i">>}},
     ns \in TextsUpTo(2, {<<"g">>, <<"h">>, <<"x">>})}

\* Entries of every kind with the values it needs, and with one too few.
ClientOperation(type, n) == [type |-> type, arm |-> "left", values |-> [k \in 1 .. n |-> k]]
OperationLists ==
  {<<>>} \cup {<<ClientOperation("attach", 0), ClientOperation(t, n)>> : t \in {"joints", "linear", "weld", "spin"}, n \in {5, 7}}
Entries == {[type |-> t, arm |-> "right", values |-> v, operations |-> os] :
              t \in {"task", "error_handler", "note"}, v \in {<<7>>, <<8, 9>>}, os \in OperationLists}
ClientCalls == {[f |-> "client", entries |-> es] : es \in TextsUpTo(2, Entries)}

\* Files of up to nine bytes, which may grow or shrink before they are read.
FileCalls ==
  {[f |-> f, file |-> [length |-> n, data |-> [k \in 1 .. m |-> (k * 89 + b) % 256]]] :
     f \in {"hexembed_base", "hexembed_fs", "hexembed_mmap", "hexembed_mmap_savem"},
     n \in {0, 1, 8, 9}, m \in {0, 1, 8, 9}, b \in {0, 64, 250}}

\* Up to four points, and three faces of which two may be the same.
Points == {[x |-> x, y |-> y, z |-> z] : x \in 0 .. 1, y \in 0 .. 1, z \in {0, 1}}
Triangles == {<<0, 1, 2>>, <<2, 1, 3>>, <<3, 0, 2>>, <<4, 3, 1>>}
MeshCalls ==
  {[f |-> "addVertices", points |-> ps] : ps \in TextsUpTo(4, Points)} \cup
  {[f |-> "getXYplaneBB", points |-> ps] : ps \in TextsUpTo(3, Points) \ {<<>>}} \cup
  {[f |-> "findOppositeVertexIndex", faces |-> <<a, b>>, i |-> i, j |-> j] :
     a \in Triangles, b \in Triangles, i \in 0 .. 3, j \in 0 .. 3}

\* A right-angled triangle whose sides can be cut into up to four elements
\* of ratio 1, 2 or 1/2, or into five of them that mirror each other.
Triangle(side) == <<[x |-> 0, y |-> 0], [x |-> 4 * side, y |-> 0], [x |-> 0, y |-> 3 * side]>>
Corners(n) == Triangle(IF n < 5 THEN 3360 ELSE 3900)
Ratios == {<<1, 1>>, <<2, 1>>, <<1, 2>>}
StartLines ==
  LET Line(x, y) == [x |-> x, y |-> y]
  IN  {<<Line(0, 0), Line(1, 2), Line(1, 3), Line(99, 99), Line(4, 4)>>, <<Line(99, 99), Line(1, 2), Line(4, 99)>>,
       <<Line(99, 0)>>, <<>>}
ContourCalls ==
  {[f |-> "elm_line", n |-> n, rt |-> q, a |-> Corners(n)[i], b |-> Corners(n)[3], sinit |-> s, isym |-> n > 4 \/ s = 0] :
     n \in 1 .. 5, q \in Ratios, i \in {1, 2}, s \in {0, 14}} \cup
  {[f |-> "body_ax_geo", flow_type |-> 51,
    file |-> [opened |-> TRUE, vertices |-> Corners(1), ne |-> ne, rt |-> <<q, r, q>>, vx |-> 2, cr |-> 3, lines |-> ls]] :
     ne \in {<<1, 2, 3>>, <<4, 1, 2>>, <<2, 3, 4>>}, q \in Ratios, r \in Ratios, ls \in StartLines} \cup
  {[f |-> "body_ax_geo", flow_type |-> t,
    file |-> [opened |-> o, rad |-> 2, xcenter |-> 1, ne |-> <<n>>, vx |-> 2, cr |-> 3, lines |-> ls]] :
     t \in {0, 50}, o \in BOOLEAN, n \in {1, 2, 4, 8}, ls \in StartLines} \cup
  {[f |-> "gauss_legendre", order |-> n] : n \in 0 .. 21}

\* The triangle in the arithmetic of BodyFlow, with elements that grow.
Part(v, n, i) == W!F(W!F(v * W!Over(n * (n + 1))) * i * (i + 1))
NodeOf(k, n, i) ==
  LET a == Triangle(2)[k]  b == Triangle(2)[1 + (k % 3)]
  IN  [x |-> W!F(a.x + Part(b.x - a.x, n, i)), y |-> W!F(a.y + Part(b.y - a.y, n, i)), t |-> 0]
PointOf(k, n, i) ==
  LET a == NodeOf(k, n, i - 1)
      b == NodeOf(k, n, i)
      Mid(v, w) == W!F(W!Half * (v + w))
      t == <<[x |-> 1, y |-> 0], [x |-> W!F(-4 * W!Over(5)), y |-> W!F(3 * W!Over(5))], [x |-> 0, y |-> 96]>>[k]
      at == [x |-> Mid(a.x, b.x), y |-> Mid(a.y, b.y)]
      normal == [x |-> t.y, y |-> W!F(-t.x)]
      w == RingAt(at, Triangle(2)[2])
  IN  [x |-> at.x, y |-> at.y, t |-> t, n |-> normal, arel |-> at.y,
       s |-> W!F(<<0, 8, 18>>[k] + Mid(Part(<<8, 10, 6>>[k], n, i - 1), Part(<<8, 10, 6>>[k], n, i))),
       dphidn0 |-> W!F(-(2 + 3 * w.u) * normal.x - 3 * w.v * normal.y)]
FlowContour(ne) ==
  [ne |-> ne, itp |-> <<1, 1, 1>>, arcs |-> <<0, 0, 0>>, vx |-> 2, cr |-> 3, ring |-> Triangle(2)[2],
   nodes |-> [k \in 1 .. 3 |-> [i \in 1 .. ne[k] + 1 |-> NodeOf(k, ne[k], i - 1)]],
   points |-> C!FlattenSeq([k \in 1 .. 3 |-> [i \in 1 .. ne[k] |-> PointOf(k, ne[k], i)]])]

Gauss  == <<[z |-> -W!Over(10), w |-> 1], [z |-> W!Over(10), w |-> 1]>>
Arc    == [rad |-> 2, x |-> 1, y |-> 0]
Body   == [rad |-> 1, x |-> 0, y |-> 0]
Window == [xmin |-> -2, xmax |-> 2, ymin |-> 0, ymax |-> 2]
Spots  == {[x |-> x, y |-> y] : x \in -3 .. 2, y \in 0 .. 3}
Monomial(k) == [x \in 0 .. 96 |-> [x |-> 1, y |-> W!Raised(x, k)]]

FlowCalls ==
  {[f |-> "body_ax_sdlp", at |-> [x |-> 3, y |-> 5, t |-> 0], a |-> NodeOf(k, 3, i), b |-> NodeOf(k, 3, i + 1), itype |-> 1] :
     k \in 1 .. 3, i \in 0 .. 2} \cup
  {[f |-> "body_ax_sdlp", at |-> [x |-> 3, y |-> 5, t |-> 0], a |-> [t |-> i], b |-> [t |-> j], itype |-> 2] :
     i \in {0, 4, 8}, j \in {2, 6, 12}} \cup
  UNION {{[f |-> "System", c |-> c]} \cup
         {[f |-> f, c |-> c, q |-> q] : f \in {"OnBody", "velocity"}, q \in {<<3, 1, 0>>, <<3, 2, 1>>, <<0, 5, 4>>}} :
           c \in {FlowContour(ne) : ne \in {<<1, 2, 3>>, <<3, 1, 2>>, <<4, 2, 1>>}}} \cup
  {[f |-> "Advanced", irk |-> irk, k |-> k, at |-> [x |-> x, y |-> 4], step |-> h] :
     irk \in {2, 4}, k \in 0 .. 3, x \in {0, 5, 90}, h \in {1, 9, 50}} \cup
  {[f |-> "Streamline", icross |-> i, start |-> st, path |-> <<a, b, [x |-> -1, y |-> 1]>>] :
     i \in BOOLEAN, st \in {[x |-> -2, y |-> 1], [x |-> 0, y |-> 2]}, a \in Spots, b \in Spots}

\* Rings of unknowns, and triangular matrices.
RingMatrix(n) ==
  [rows |-> n, ptr |-> [i \in 1 .. n + 1 |-> 2 * (i - 1)],
   col |-> [k \in 1 .. 2 * n |-> IF k % 2 = 1 THEN (k - 1) \div 2 ELSE (k \div 2) % n],
   val |-> [k \in 1 .. 2 * n |-> IF k = 2 THEN 2 ELSE 1]]
TriangularMatrix(n) ==
  [rows |-> n, ptr |-> [i \in 1 .. n + 1 |-> IF i = 1 THEN 0 ELSE 2 * i - 3],
   col |-> [k \in 1 .. 2 * n - 1 |-> IF k % 2 = 1 THEN (k - 1) \div 2 ELSE (k \div 2) - 1],
   val |-> [k \in 1 .. 2 * n - 1 |-> 1 + (k % 2)]]
Matrices == {a \in {RingMatrix(3), RingMatrix(4), TriangularMatrix(3), TriangularMatrix(4), TriangularMatrix(6)} :
               A!Regular(A!Dense(a))}
MultigridCalls ==
  {[f |-> "solve", a |-> a, rhs |-> [i \in 1 .. a.rows |-> (i * i + s) % 3], block_size |-> b, reorder |-> r,
    perm |-> [i \in 1 .. a.rows \div b |-> 1 + (i % (a.rows \div b))]] :
     a \in Matrices, s \in 0 .. 2, b \in {1, 2, 3, 4}, r \in BOOLEAN} \cup
  {[f |-> "test_scalar_solve", a |-> a] : a \in Matrices} \cup
  {[f |-> "amg", args |-> [help |-> h, matrix |-> a, block_size |-> b, prm |-> q]] :
     h \in BOOLEAN, a \in {<<>>} \cup {<<TriangularMatrix(n)>> : n \in {3, 4, 6}}, b \in {<<>>, <<3>>, <<2>>},
     q \in {<<>>, <<<<"solver.tol", "1">>, <<"solver.type", "gmres">>, <<"solver.tol", "2">>>>, <<<<"x", "y">>>>}}

\* Calls of cl2.hpp, with every set of refusals that can meet them.
Device(i) == <<"device", i>>
Value(i)  == <<"value", i>>
Runtime(answer, platforms, version, quiet) ==
  [fails |-> {}, answer |-> answer, platforms |-> platforms, version |-> version, quiet |-> quiet]
Versions == {<< <<1>>, <<1>> >>, << <<1>>, <<2>> >>, << <<1>>, <<1, 0>> >>, << <<2>>, <<0>> >>}
Quiet(answer) == Runtime(answer, <<>>, << <<1>>, <<2>> >>, 0)

ObjectCall(op, rt) ==
  [f |-> "cl2", op |-> op, how |-> "new", rt |-> rt, name |-> "", on |-> <<"context">>, was |-> <<>>, given |-> TRUE,
   properties |-> FALSE,
   size |-> [width |-> 1, height |-> 2, depth |-> 3, array_size |-> 4, row_pitch |-> 5, slice_pitch |-> 6, buffer |-> 7]]
Classes == {"Device", "Platform", "Context", "Event", "Memory", "Image", "Program", "CommandQueue", "Buffer", "BufferGL",
            "BufferRenderGL", "Image1D", "Image1DBuffer", "Image1DArray", "Image2D", "Image2DArray", "Image3D", "Image2DGL",
            "Image3DGL", "ImageGL", "Sampler", "Kernel", "DeviceCommandQueue", "Pipe"}
Held(class) == IF class = "Device" THEN {O!NULL, Device(1), Device(2)}
               ELSE IF class = "Platform" THEN {O!NULL, <<"platform", 1>>} ELSE {O!NULL, <<"object", 1>>, <<"object", 2>>}
PassedOn ==
  UNION {{[ObjectCall(k, Runtime(<<>>, <<>>, v, 0)) EXCEPT !.how = h, !.was = <<own, other>>] :
            h \in {"default", "take", "take, retain", "= object", "copy", "move", "= copy", "= move"},
            own \in Held(k), other \in Held(k), v \in IF k = "Device" THEN Versions ELSE {<< <<1>>, <<2>> >>}} : k \in Classes}
ClassOf(n) == CASE n \in {"CL_PLATFORM_VERSION"} -> "Platform"
                [] n \in {"CL_DEVICE_NAME", "CL_DEVICE_MAX_WORK_ITEM_SIZES", "CL_DEVICE_PARENT_DEVICE"} -> "Device"
                [] n \in {"CL_CONTEXT_PROPERTIES", "CL_CONTEXT_DEVICES"} -> "Context"
                [] n \in {"CL_KERNEL_FUNCTION_NAME", "CL_KERNEL_PROGRAM", "CL_KERNEL_COMPILE_WORK_GROUP_SIZE"} -> "Kernel"
                [] n = "CL_EVENT_COMMAND_QUEUE" -> "Event"
                [] n \in {"CL_MEM_CONTEXT", "CL_MEM_SIZE"} -> "Memory"
                [] n = "CL_QUEUE_DEVICE" -> "CommandQueue"
                [] OTHER -> "Program"
Question(n, rt, was) == [ObjectCall(ClassOf(n), rt) EXCEPT !.how = "getInfo", !.name = n, !.was = was]
Questions ==
  {Question(n, Runtime(<<a>>, <<>>, v, 0), <<w>>) :
     a \in {Device(1), Device(2), O!NULL}, w \in {Device(1), O!NULL}, v \in Versions,
     n \in {"CL_QUEUE_DEVICE", "CL_DEVICE_PARENT_DEVICE"}} \cup
  {Question(n, Quiet(<<a>>), <<w>>) :
     a \in {<<"object", 1>>, <<"object", 2>>}, w \in {<<"object", 1>>, O!NULL},
     n \in O!ObjectParams \cap {"CL_EVENT_COMMAND_QUEUE", "CL_MEM_CONTEXT", "CL_KERNEL_PROGRAM", "CL_PROGRAM_CONTEXT"}} \cup
  {Question(n, Runtime(a, <<>>, v, 0), w) :
     a \in {<<>>, <<Device(1)>>, <<Device(2), Device(3)>>}, w \in {<<>>, <<Device(1), Device(2)>>}, v \in Versions,
     n \in O!ObjectListParams} \cup
  {Question(n, Quiet(a), w) :
     a \in {<<>>, <<Value(1)>>, <<Value(1), Value(2)>>}, w \in {<<>>, <<Value(3)>>, <<Value(3), Value(4), Value(5)>>},
     n \in O!ArrayParams \cup {"CL_PLATFORM_VERSION", "CL_DEVICE_NAME", "CL_KERNEL_FUNCTION_NAME", "CL_CONTEXT_PROPERTIES",
                            "CL_DEVICE_MAX_WORK_ITEM_SIZES", "CL_PROGRAM_BINARY_SIZES", "CL_PROGRAM_BINARIES"}} \cup
  {Question("CL_MEM_SIZE", Quiet(<<Value(1)>>), <<Value(2)>>),
   [ObjectCall("getImageInfo", Quiet(<<Value(1)>>)) EXCEPT !.name = "CL_IMAGE_WIDTH", !.was = <<Value(2)>>]}
Lists ==
  {[ObjectCall(l[1], Runtime([i \in 1 .. n |-> <<l[2], i>>], <<>>, v, 0)) EXCEPT !.given = g, !.was = w] :
     l \in {<<"getDevices", "device">>, <<"createSubDevices", "device">>, <<"createKernels", "kernel">>,
            <<"Platform::get", "platform">>, <<"getSupportedImageFormats", "value">>},
     n \in 0 .. 2, v \in Versions, g \in BOOLEAN, w \in {<<>>, <<Device(2)>>, <<Device(3), Device(2)>>}}
Constructors ==
  {[ObjectCall(op, Runtime([i \in 1 .. n |-> Device(i)], <<>>, v, 0)) EXCEPT !.on = o] :
     op \in {"Device default", "Context(devices)", "CommandQueue(properties)", "CommandQueue(context)"},
     n \in 1 .. 2, v \in Versions, o \in {O!NULL, <<"context">>}} \cup
  {[ObjectCall("Context(type)", Runtime(<<>>, p, << <<1>>, <<2>> >>, 0)) EXCEPT !.properties = b] :
     b \in BOOLEAN,
     p \in {<<"found">>, <<"refused", "found">>, <<"none", "found", "found">>, <<"none", "refused">>}} \cup
  {[ObjectCall(op, Runtime([i \in 1 .. n |-> Device(i)], <<>>, v, q)) EXCEPT !.on = o, !.properties = TRUE] :
     op \in {"Program(source)", "Program(source) by default", "getBuildInfo", "build", "compile"},
     n \in 1 .. 2, v \in {<< <<1>>, <<1>> >>, << <<1>>, <<2>> >>}, q \in 0 .. 2, o \in {O!NULL, <<"context">>}} \cup
  {[ObjectCall(op, Runtime(<<O!NULL>>, <<>>, v, 0)) EXCEPT !.on = o] :
     op \in {"Image1D", "Image1DBuffer", "Image1DArray", "Image2D", "Image2DArray", "Image3D"},
     v \in Versions, o \in {O!NULL, <<"context">>}} \cup
  {[ObjectCall(op, Quiet(<<O!NULL>>)) EXCEPT !.on = o] :
     op \in {"UserEvent", "Buffer", "Buffer(flags)", "Buffer(begin, end)", "createSubBuffer", "BufferGL", "BufferRenderGL",
             "Image2DGL", "Image3DGL", "ImageGL", "Sampler", "Program(source)", "Program(source) by default",
             "Program(sources)", "Program(kernels)", "Kernel", "linkProgram", "wait", "setDestructorCallback",
             "DeviceCommandQueue", "DeviceCommandQueue default", "Pipe", "Pipe by default", "Image2D(buffer)", "Image2D(image)",
             "setSVMArg", "getSubGroupInfo"},
     o \in {O!NULL, <<"context">>}} \cup
  {[ObjectCall(op, Quiet(<<>>)) EXCEPT !.on = o, !.name = trait] :
     op \in {"allocate", "allocate_pointer"}, trait \in {"coarse", "fine", "atomic"}, o \in {O!NULL, <<"context">>}} \cup
  {[ObjectCall("setSVMPointers", Quiet(<<>>)) EXCEPT !.on = o, !.was = w] :
     o \in {O!NULL, <<"kernel">>}, w \in {<<>>, << <<"value", 1>>, <<"value", 2>> >>}} \cup
  {[ObjectCall("Deleter", Quiet(<<>>)) EXCEPT !.was = << <<"memory">> >>]} \cup
  {[ObjectCall("Buffer(begin, end)", Quiet(<<>>)) EXCEPT !.properties = TRUE]} \cup
  {[ObjectCall(op, Quiet(<<Device(1), Device(2)>>)) EXCEPT !.on = o, !.was = w] :
     op \in {"build(devices)", "waitForEvents", "Program(binaries)"}, o \in {O!NULL, <<"context">>},
     w \in {<<>>, <<Device(2), Device(1)>>, <<O!NULL, Device(1)>>}} \cup
  {ObjectCall("Platform default", Quiet([i \in 1 .. n |-> <<"platform", i>>])) : n \in 0 .. 2} \cup
  {[ObjectCall("linkProgram", Quiet(<<a>>)) EXCEPT !.on = o] : a \in {O!NULL, <<"context">>}, o \in {O!NULL, <<"program">>}} \cup
  {[ObjectCall("setArg", Quiet(<<>>)) EXCEPT !.name = k] : k \in {"memory", "local", "plain"}} \cup
  {[ObjectCall("EnqueueArgs", Quiet(<<>>)) EXCEPT !.on = o, !.was = r] :
     o \in {O!NULL, <<"queue">>}, r \in TextsUpTo(3, {<<4>>, <<2, 3>>, <<5, 2, 2>>}) \ {<<>>}}
\* What a device refuses to tell of a build is its log (`quiet').
Refusable(c) == {x \in O!Range(O!Perform(c).calls) : x # <<"clGetProgramBuildInfo", "size">> /\ x # <<"clGetProgramBuildInfo", "data">>}
ObjectCalls ==
  UNION {{[c EXCEPT !.rt.fails = refused] : refused \in SUBSET Refusable(c)} : c \in PassedOn \cup Questions \cup Lists \cup Constructors}

\* Files of every format, streams that end early, and images that are
\* changed a few times before they are written.
FileOf(px, trns, interlace) ==
  [info |-> [P!image_info EXCEPT !.color = px.color, !.depth = px.depth, !.width = 3, !.height = 2, !.interlace = interlace,
                                 !.palette = IF px.color = P!ColorType.palette THEN <<"colours">> ELSE <<>>,
                                 !.tRNS = IF trns THEN <<"transparency">> ELSE <<>>, !.gamma = 1],
   pixels |-> [y \in 0 .. 1 |-> [x \in 0 .. 2 |-> (3 * x + 5 * y + 1) % 2 ^ (IF px.depth < 8 THEN px.depth ELSE 8)]],
   lasts |-> 99]
PngFiles == {FileOf(px, t, i) : px \in P!PixelTypes, t \in BOOLEAN, i \in BOOLEAN}
OldImage(px) == P!Step(px, P!NewImage(px, 2, 3), [op |-> "set_pixel", x |-> 1, y |-> 0, value |-> 1])
PngReads ==
  {[f |-> "png_read", px |-> px, im |-> OldImage(px), path |-> <<file>>, transform |-> "convert", lasts |-> n] :
     px \in P!Convertible, n \in {1, 3, 9, 99}, file \in {a \in PngFiles : "alpha" \notin a.info.color \/ a.info.tRNS = <<>>}} \cup
  {[f |-> "png_read", px |-> px, im |-> OldImage(px), path |-> <<file>>, transform |-> t, lasts |-> 99] :
     px \in P!PixelTypes, t \in {"require", "identity", "shift rgb", "shift gray"}, file \in {a \in PngFiles : a.info.tRNS = <<>>}} \cup
  {[f |-> "png_read", px |-> px, im |-> OldImage(px), path |-> <<FileOf(px, FALSE, i)>>, transform |-> "identity", lasts |-> n] :
     px \in P!PixelTypes, i \in BOOLEAN, n \in 0 .. 16} \cup
  {[f |-> "png_read", px |-> px, im |-> OldImage(px), path |-> <<>>, transform |-> "identity", lasts |-> 0] : px \in P!PixelTypes} \cup
  {[f |-> "ImageFrom", px |-> px, path |-> path, transform |-> "require", lasts |-> n] :
     px \in P!PixelTypes, n \in {0, 2, 99}, path \in {<<>>, <<FileOf(P!Traits("rgb", 3, 8), FALSE, FALSE)>>}}

At(op, x, y, value) == [op |-> op, x |-> x, y |-> y, value |-> value]
Of(op, w, h)        == [op |-> op, w |-> w, h |-> h]
PngSteps == {Of("resize", 3, 2), Of("resize", 1, 2), Of("resize", 5, 1), At("set_pixel", 2, 0, 1), At("set_pixel", 0, 0, 255),
             At("set_pixel", 1, 1, 3), Of("set_pixbuf", 1, 2), Of("set_pixbuf", 3, 1), [op |-> "put_row", y |-> 1, w |-> 3],
             [op |-> "set", field |-> "interlace", value |-> TRUE]}
WrittenPixels == {P!Traits("gray", 1, 4), P!Traits("palette", 1, 2), P!Traits("rgb", 3, 8)}
PngWrite(px, ops, lasts, closes) ==
  [f |-> "png_write", px |-> px, ops |-> <<[op |-> "set", field |-> "palette", value |-> <<"colours">>]>> \o ops,
   opened |-> TRUE, lasts |-> lasts, closes |-> closes]
PngWrites ==
  {PngWrite(px, ops, 99, TRUE) : px \in WrittenPixels, ops \in TextsUpTo(3, PngSteps)} \cup
  {PngWrite(px, <<At("set_pixel", 2, 0, 1), [op |-> "set", field |-> "interlace", value |-> i]>>, n, c) :
     px \in P!PixelTypes, i \in BOOLEAN, n \in 0 .. 16, c \in BOOLEAN} \cup
  {[PngWrite(px, <<>>, 99, TRUE) EXCEPT !.opened = FALSE, !.ops = ops] :
     px \in WrittenPixels, ops \in {<<>>, <<[op |-> "set", field |-> "interlace", value |-> TRUE]>>}} \cup
  {[f |-> "solid", ops |-> <<Of("resize", 2, 2)>> \o ops] :
     ops \in TextsUpTo(3, {Of("resize", 3, 2), At("set_pixel", 1, 0, 4), At("set_pixel", 2, 0, 5), At("set_pixel", 0, 1, 6),
                           At("set_pixel", 1, 3, 7)})} \cup
  {[f |-> "expand_8_to_16", n |-> n, row |-> [k \in 0 .. 2 * n - 1 |-> b + 7 * k]] : n \in 0 .. 6, b \in {1, 50}} \cup
  {[f |-> "CallsSeen", info |-> [P!image_info EXCEPT !.height = h, !.interlace = i]] : h \in 1 .. 9, i \in BOOLEAN} \cup
  {[f |-> "save_png", width |-> w, height |-> h, data |-> [k \in 0 .. w * h - 1 |-> 1 + ((k * k + b) % 3)], opened |-> o,
    lasts |-> n, closes |-> c] : w \in 0 .. 3, h \in 0 .. 3, b \in {0, 1}, o \in BOOLEAN, n \in 0 .. 6, c \in BOOLEAN}
ColourMap == <<<<1, 2, 3>>, <<255, 256, 300>>, <<0, 128, 255>>>>

-----------------------------------------------------------------------------
Return(f, value) == call.f = f /\ result = <<>> /\ result' = <<value>> /\ UNCHANGED call

\* The transformed equation as the caller of bs_solve hands it over.
Left  == IF call.f = "bs_solve" THEN call.a ELSE S!Transpose(2, 2, call.a)
Right == IF call.f = "bs_solve" THEN call.b ELSE call.a

Transform ==
  \/ Return("cosfft1", C!cosfft1(call.n, call.data, call.inverse))
  \/ Return("cft2", C!cft2(call.m, call.n, call.data, call.inverse))
  \/ Return("cft2_with_transpose", C!cft2_with_transpose(call.m, call.n, call.data, call.inverse))

Differentiate ==
  \/ Return("spectral_differentiate", C!spectral_differentiate(call.n, call.data, call.span))
  \/ Return("homogeneous_boundary", C!homogeneous_boundary(call.m, call.n, call.data))
  \/ Return("second_derivative", C!second_derivative(call.m, call.n, call.data))

Solve ==
  /\ call.f \in {"bs_solve", "bs_solve_one"}
  /\ ~S!Garbles(2, 2, Left, Right)
  /\ \/ Return("bs_solve", S!bs_solve(2, 2, call.a, call.b, U, V, call.data))
     \/ Return("bs_solve_one", S!bs_solve_one(2, call.a, U, call.data))

\* A division by 0 throws; a larger singular system yields garbage.
SolveFails ==
  /\ call.f \in {"bs_solve", "bs_solve_one"}
  /\ S!Garbles(2, 2, Left, Right)
  /\ result = <<>>
  /\ result' = <<IF S!Throws(2, 2, Left, Right) THEN "thrown" ELSE "garbage", "no result">>
  /\ UNCHANGED call

Bits ==
  \/ Return("Log2", B!Log2(call.x, 32))
  \/ Return("Log2l", B!Log2(call.x, 64))
  \/ Return("bitrev16", B!bitrev16(call.x))
  \/ Return("bitrev32", B!bitrev32(call.x))
  \/ Return("zero_gap", B!zero_gap(call.x, 32))
  \/ Return("shl_lsb", B!shl_lsb(call.x, call.msb, call.lsb))

Parse ==
  \/ Return("integer_parser", L!integer_parser(call.bits, call.signed, call.text))
  \/ Return("opts", L!opts(call.words))
  \/ Return("get_opt", L!get_opt(call.words))
  \/ Return("SplitSwitchDef", [matched |-> L!MatchedSwitch(call.text), walked |-> L!SwitchByHand(call.text)])
  \/ Return("ParseArgument", [matched |-> L!MatchedArgument(call.text), walked |-> L!ArgumentByHand(call.text)])
  \/ Return("IsTrueText", [matched |-> L!boolean_parser(call.text), walked |-> L!BooleanByHand(call.text)])
  \/ Return("format_description", L!format_description(call.o, 2, 6, call.tabs))
  \/ Return("help", L!generate_group_help(call.help, call.names, call.hidden, 24, FALSE))

Embed ==
  \/ Return("hexembed_base", H!hexembed_base(call.file))
  \/ Return("hexembed_fs", H!hexembed_fs(call.file))
  \/ Return("hexembed_mmap", H!hexembed_mmap(call.file))
  \/ Return("hexembed_mmap_savem", H!hexembed_mmap_savem(call.file))

Mesh ==
  \/ /\ call.f = "addVertices"
     /\ \E mesh \in T!addVertices(call.points) : Return("addVertices", mesh)
  \/ Return("getXYplaneBB", T!getXYplaneBB(call.points))
  \/ Return("findOppositeVertexIndex", T!findOppositeVertexIndex(call.faces, call.i, call.j))

Client == /\ call.f = "client"
          /\ \E r \in R!main(call.entries) : Return("client", r)

Outline ==
  \/ Return("elm_line", K!elm_line(call.n, call.rt, call.a, call.b, call.sinit, call.isym))
  \/ Return("body_ax_geo", K!body_ax_geo(call.flow_type, call.file))
  \/ Return("gauss_legendre", K!gauss_legendre(call.order))

\* The potential of a call: a polynomial of the arc length.
Potential(c) == W!Distributed(c.c, [m \in DOMAIN c.c.points |-> W!Polynomial(c.q, c.c.points[m].s)])
Off == [x |-> 2, y |-> 7]

Flow ==
  \/ Return("body_ax_sdlp", W!body_ax_sdlp(call.at, call.a, call.b, Gauss, FALSE, call.itype, Arc))
  \/ Return("System", W!System(call.c, Gauss))
  \/ Return("OnBody", W!OnBody(call.c, Potential(call)))
  \/ Return("velocity", W!velocity(call.c, Gauss, Potential(call), Off))
  \/ Return("Advanced", W!Advanced(call.irk, Monomial(call.k), call.at, call.step))
  \/ Return("Streamline", W!Streamline(call.icross, Body, Window, call.start, call.path))

Multigrid ==
  \/ Return("solve", A!solve(call.a, call.rhs, call.block_size, call.reorder, call.perm))
  \/ Return("test_scalar_solve", A!test_scalar_solve(call.a))
  \/ Return("amg", A!main(call.args))

Objects == Return("cl2", O!Perform(call))

Written(px, ops, opened, lasts, closes, im) == [im |-> im, w |-> P!write(px, im, opened, lasts, closes)]

Images ==
  \/ Return("png_read", P!read(call.px, call.im, call.path, call.transform, call.lasts))
  \/ Return("ImageFrom", P!ImageFrom(call.px, call.path, call.transform, call.lasts))
  \/ Return("png_write", Written(call.px, call.ops, call.opened, call.lasts, call.closes, P!Run(call.px, P!NewImage(call.px, 3, 2), call.ops)))
  \/ Return("solid", P!SolidRun(call.ops))
  \/ Return("expand_8_to_16", P!expand_8_to_16(call.row, call.n))
  \/ Return("CallsSeen", P!CallsSeen(call.info))
  \/ Return("save_png", P!save_png(call.width, call.height, call.data, ColourMap, call.opened, call.lasts, call.closes))

Init == /\ call \in TransformCalls \cup DerivativeCalls \cup SolverCalls \cup BitCalls \cup ParserCalls \cup BuildCalls \cup HelpCalls
                      \cup ClientCalls \cup FileCalls \cup MeshCalls
                      \cup ContourCalls \cup FlowCalls \cup MultigridCalls \cup ObjectCalls
                      \cup PngReads \cup PngWrites
        /\ result = <<>>

Returned == result # <<>> /\ UNCHANGED <<call, result>>

Next == Transform \/ Differentiate \/ Solve \/ SolveFails \/ Bits \/ Parse \/ Embed \/ Mesh \/ Client
        \/ Outline \/ Flow \/ Multigrid \/ Objects \/ Images \/ Returned

-----------------------------------------------------------------------------
\* A transform is the sum of cosines; its inverse undoes it.
TransformOK(c, r) ==
  /\ c.f = "cosfft1" => IF c.inverse THEN C!Cosines(c.n, r) = c.data ELSE r = C!Cosines(c.n, c.data)
  /\ c.f \in {"cft2", "cft2_with_transpose"} =>
       IF c.inverse THEN C!Cosines2(c.m, c.n, r) = c.data ELSE r = C!Cosines2(c.m, c.n, c.data)

\* The recurrence yields the derivative's coefficients; the boundary rows
\* and columns make the function vanish there and leave the rest alone.
DerivativeOK(c, r) ==
  /\ c.f = "spectral_differentiate" => r = C!Derivative(c.n, c.data, c.span)
  /\ c.f = "homogeneous_boundary" => C!Vanishes(c.m, c.n, r) /\ C!SameInside(c.m, c.n, r, c.data)
  /\ c.f = "second_derivative" =>
       \A i \in 0 .. c.m : r[i] = C!Derivative(c.n, C!Derivative(c.n, C!homogeneous_boundary(c.m, c.n, c.data)[i], 1), 1)

\* The result solves A X + X B = -C for the matrices before their reduction.
SolverOK(c, r) ==
  LET Minus == S!Matrix(2, 2, LAMBDA i, j : -c.data[i][j])
  IN  /\ c.f = "bs_solve" => S!Solves(2, 2, S!Restored(2, c.a, U), S!Restored(2, c.b, V), Minus, r)
      /\ c.f = "bs_solve_one" =>
           LET a == S!Restored(2, c.a, U) IN S!Solves(2, 2, S!Transpose(2, 2, a), a, Minus, r)

BitsOK(c, r) ==
  /\ c.f \in {"Log2", "Log2l"} => IF Cardinality(c.x) = 1 THEN {r} = c.x ELSE r = "thrown"
  /\ c.f = "bitrev16" => r = B!Reversed(c.x, 16)
  /\ c.f = "bitrev32" => r = B!Reversed(c.x, 32)
  /\ c.f = "zero_gap" => r = CHOOSE g \in B!Gaps(c.x) \cup {0} : \A h \in B!Gaps(c.x) : h <= g
  /\ c.f = "shl_lsb" => r = c.x \cap (c.lsb .. c.msb)

ParserOK(c, r) ==
  /\ c.f = "integer_parser" => L!IntegerRead(c.bits, c.signed, c.text, r)
  /\ c.f = "opts" => L!Walked(c.words, L!CacheValued, TRUE, r)
  /\ c.f = "get_opt" => L!Walked(c.words, L!VmValued, FALSE, r)
  /\ c.f = "integer_parser" => r = L!IntegerByHand(c.bits, c.signed, c.text)
  /\ c.f = "SplitSwitchDef" => L!SwitchesAgree(r)
  /\ c.f = "ParseArgument" => r.matched = r.walked
  /\ c.f = "IsTrueText" => L!BooleansAgree(c.text, r)
  /\ c.f = "format_description" => L!Laid(c.o, 2, 6, r)
  /\ c.f = "help" => L!Helped(c.help, c.names, c.hidden, r)

FilesOK(c, r) ==
  c.f \in {"hexembed_base", "hexembed_fs", "hexembed_mmap", "hexembed_mmap_savem"} => H!Embeds(c.f, c.file, r)

MeshOK(c, r) ==
  /\ c.f = "addVertices" => T!Numbered(c.points, r)
  /\ c.f = "getXYplaneBB" => T!Encloses(c.points, r)
  /\ c.f = "findOppositeVertexIndex" => T!Opposite(c.faces, c.i, c.j, r)

ClientOK(c, r) == c.f = "client" => R!AllOrNothing(c.entries, r)

ContourOK(c, r) ==
  /\ c.f = "elm_line" => K!Graded(c.n, c.rt, c.a, c.b, c.sinit, c.isym, r)
  /\ c.f = "body_ax_geo" /\ r # <<>> =>
       K!Encloses(c.flow_type, c.file, r[1].contour) /\ K!Begun(c.file.lines, r[1].starts)
  /\ c.f = "gauss_legendre" => K!Balanced(c.order, r)

FlowOK(c, r) ==
  /\ c.f = "body_ax_sdlp" => W!Integrates(c.at, c.a, c.b, Gauss, c.itype, Arc)
  /\ c.f = "System" => W!SameSystem(c.c, Gauss, r)
  /\ c.f = "OnBody" => W!Impermeable(c.c, c.q, r)
  /\ c.f = "velocity" => W!Gradient(c.c, Gauss, Potential(c), Off, r)
  /\ c.f = "Advanced" /\ c.k < c.irk => W!Exact(c.k, c.at, c.step, r)
  /\ c.f = "Streamline" => W!Traced(c.icross, Body, Window, c.start, c.path, r)

MultigridOK(c, r) ==
  /\ c.f = "solve" => A!Solves(c.a, c.rhs, r)
  /\ c.f = "test_scalar_solve" => A!Solves(c.a, A!RightHandSide(c.a), <<r>>)
  /\ c.f = "amg" => A!Configured(c.args, r)

ObjectsOK(c, r) == c.f = "cl2" => O!Sound(c, r)

ImagesOK(c, r) ==
  /\ c.f = "png_read" => IF c.path = <<>> THEN r.im = c.im /\ r.thrown # ""
                         ELSE /\ P!ReadSoundly(c.px, c.im, c.path[1], c.transform, r)
                              /\ c.transform = "convert" => P!Converts(c.px, c.path[1], r)
  /\ c.f = "ImageFrom" => IF r.thrown # "" THEN r.im = <<>>
                          ELSE P!Picture(c.px, r.im, c.path[1].info, c.path[1].pixels)
  /\ c.f = "png_write" =>
       /\ P!InStep(c.ops, r.im)
       /\ P!WrittenSoundly(c.px, r.im, c.closes, r.w)
       /\ P!Remembers(c.px, c.ops, r.im.pixbuf.width, r.im.pixbuf.height, LAMBDA x, y : P!get_pixel(c.px, r.im.pixbuf, x, y))
  /\ c.f = "solid" => P!SolidHolds(c.ops, r)
  /\ c.f = "expand_8_to_16" => P!Doubled(c.row, c.n, r)
  /\ c.f = "CallsSeen" => P!InOrder(c.info, r)
  /\ c.f = "save_png" => P!Saved(c.width, c.height, c.data, ColourMap, c.opened, c.lasts, c.closes, r)

(* The element nodes of a line run from its first to its last point, as    *)
(* elm_line.tcc says of X1, Y1 and X2, Y2 (lines 52 and 53).               *)
LinesReachTheirEnds == call.f = "elm_line" /\ result # <<>> => K!Reaches(result[1].ends, call.b)

=============================================================================
