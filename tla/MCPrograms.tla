----------------------------- MODULE MCPrograms -----------------------------
(***************************************************************************)
(* Small instances of the repository's self-contained programs, which have *)
(* nothing to do with each other.  A behaviour runs one of them, named by  *)
(* `program'; the variables of the others keep their first values.  That   *)
(* they all keep their types is proved here, from ProgramsProofs.          *)
(***************************************************************************)
EXTENDS ProgramsProofs, TLC

VARIABLES
  program,
  applied, result     \* MCFunctions

functionsVars == <<applied, result>>

\* Alternating elements, and one that differs from the others.
HistogramInputs == {[j \in 0 .. 6 |-> j % 2], [j \in 0 .. 6 |-> IF j = 3 THEN 1 ELSE 0]}

-----------------------------------------------------------------------------
P(name) == Unary(name, 0)
C(n)    == Unary("PUSH_CONST", n)

\* Every program of four instructions over these ...
Instructions == {C(0), C(1), C(4)} \cup {Binary("SUB"), Binary("DIV")} \cup
  {P(op) : op \in {"POP", "PUSH_IP", "PUSH_SP", "LOAD", "STORE", "JMP", "NOT", "PUTC", "GETC", "HALT"}}

\* ... and some longer ones: a loop, a program that replaces its own JMP,
\* one that traps, one that runs into unknown opcodes, one that is too long.
Chosen ==
  { <<C(0), C(1), P("JMP")>>,
    <<C(4), C(0), P("PUSH_SP"), P("STORE"), P("POP"), P("HALT")>>,
    <<C(1), C(0), Binary("DIV"), P("HALT")>>,
    <<C(1), ToWord(-1), 15 * OptionalValues, P("HALT")>>,
    <<C(3), C(2), C(1), ToWord(-1), P("HALT")>>,
    <<C(3), C(5), Binary("LT"), P("NOT"), P("PUTC"), P("HALT")>>,
    <<C(3), C(5), Binary("AND"), C(6), Binary("OR"), P("HALT")>>,
    <<C(3), C(5), Binary("XOR"), C(6), Binary("EQ"), P("HALT")>>,
    <<C(3), C(5), Binary("ADD"), C(9), Binary("MUL"), P("HALT")>>,
    [j \in 1 .. DataSize + 1 |-> C(0)] }

ImageFiles == [1 .. 4 -> Instructions] \cup Chosen

Library == INSTANCE MCFunctions WITH call <- applied

\* Options as programs add them, in small: a flag, a number with a default,
\* a list with a default and a text ...
Option(specifier, v) == [opts |-> specifier, value |-> v]
Text   == standard_value("text")
Number == default_value(standard_value("number"), <<"1">>)
Definitions ==
  << Option(<<"d", ",", "d", "b">>, standard_value("flag")),
     Option(<<"g", ",", " ", "g", "p">>, Number),
     Option(<<"l", "i">>, default_value(standard_value("list"), <<"1">>)),
     Option(<<"n", "a">>, Text) >>

Positional == << <<"g", "p">>, <<"l", "i">> >>

CommandWords ==
  { <<"-", "d", "g">>, <<"-", "g", "5">>, <<"-", "g">>, <<"-", "x", "d">>, <<"-">>,
    <<"-", "-", "g", "p", "=", "6">>, <<"-", "-", "g", "p">>, <<"-", "-", "n", "a">>,
    <<"-", "-", "l", "i", "=", "1", ",", "2">>, <<"-", "-", "l", "i">>,
    <<"-", "-", "x", "x">>, <<"-", "-", "=">>, <<"-", "-">>, <<"7">> }

\* ... some that clash: a name used twice, one without a name, one that is
\* no name, and two options whose names are put together to the same text;
\* and a flag that wants a value, next to a text that does not.
Clashing == { << Option(<<"n", ",", "g", "p">>, Text), Option(<<"g", ",", "g", "p">>, Text) >>,
              << Option(<<"n">>, Text), Option(<<>>, Text) >>,
              << Option(<<"n", ",", "g">>, Text) >>, << Option(<<"n", "a", "=">>, Text) >>,
              << Option(<<"p", ",", "x", "x">>, Number),
                 Option(<<"x", "x", "p">>, default_value(Text, <<"7">>)) >>,
              << Option(<<"x", ",", "x", "x">>, no_implicit_value(standard_value("flag"))),
                 Option(<<"n", ",">>, implicit_value(Text, <<"7">>)) >> }

CommandLines ==
  {[definitions |-> Definitions, positional |-> p, allow |-> a, argv |-> v] :
     p \in {<<>>, Positional}, a \in BOOLEAN, v \in UNION {[1 .. n -> CommandWords] : n \in 0 .. 3}} \cup
  {[definitions |-> d, positional |-> <<>>, allow |-> TRUE, argv |-> v] :
     d \in Clashing \cup {Definitions}, v \in {<<>>, <<<<>>, <<"-", "g">>, <<>>>>, <<<<"-", "-", "x", "x", "=", "7">>>>, <<<<"-", "n">>, <<"-", "x">>, <<"1">>>>}}


-----------------------------------------------------------------------------
\* What the variables of a program hold while it is not the one that runs.
NoVM == /\ data_ = <<>> /\ ip_ = 0 /\ sp_ = 0 /\ image = <<>>
        /\ out = <<>> /\ steps = 0 /\ status = "idle"
NoHistogram == Init /\ kernel = "global" /\ input = [j \in 0 .. 6 |-> j % 2]
NoCall == applied = "none" /\ result = <<>>
NoOptions == /\ setup = [argv |-> <<>>, positional |-> <<>>] /\ m_options = <<>> /\ phase = "done"
             /\ current = 1 /\ letter = 0 /\ next = 1 /\ m_parsed = <<>> /\ m_sequential = <<>> /\ unmatched = <<>>

Programs == {"vm", "histogram", "options", "commands", "functions"}

ProgramsInit ==
  /\ program \in Programs
  /\ IF program = "vm"        THEN VMInit           ELSE NoVM
  /\ IF program = "histogram" THEN Init              ELSE NoHistogram
  /\ IF program = "options"   THEN OptionsInit   ELSE NoOptions
  /\ IF program = "functions" THEN Library!Init      ELSE NoCall
  /\ CommandsInit

Only(name) ==
  /\ program = name /\ UNCHANGED program
  /\ name # "vm"        => UNCHANGED vmVars
  /\ name # "histogram" => UNCHANGED vars
  /\ name # "options"   => UNCHANGED optionVars
  /\ name # "commands"  => UNCHANGED commandVars
  /\ name # "functions" => UNCHANGED functionsVars

ProgramsNext == \/ Only("vm") /\ VMNext
                \/ Only("histogram") /\ Next
                \/ Only("options") /\ OptionsNext
                \/ Only("commands") /\ CommandsNext
                \/ Only("functions") /\ Library!Next

programsVars == <<program, vars, vmVars, optionVars, commandVars, functionsVars>>

ProgramsSpec == ProgramsInit /\ [][ProgramsNext]_programsVars

-----------------------------------------------------------------------------
\* The types of all programs.
TypesOK == /\ TypeOK /\ (program = "vm" => VMTypeOK)
           /\ OptionsTypeOK /\ CommandsTypeOK


-----------------------------------------------------------------------------
\* Only the program that runs needs more than its types.
TypesInv == /\ TypesOK /\ InputOK /\ CommandsKept
            /\ program = "options" => OptionsInv

LEMMA ProgramsInitTypes == ProgramsInit => TypesInv
<1> SUFFICES ASSUME ProgramsInit PROVE TypesInv
  OBVIOUS
<1>1. TypeOK /\ InputOK
  BY InitTypes DEF ProgramsInit, NoHistogram
<1>2. CommandsKept
  BY CommandsInitKept DEF ProgramsInit
<1>3. OptionsTypeOK
  <2>1. NoOptions => OptionsTypeOK
    BY DEF NoOptions, OptionsTypeOK, argv
  <2> QED
    BY <2>1, OptionsInitTypes DEF ProgramsInit
<1> QED
  BY <1>1, <1>2, <1>3, VMInitTypes, OptionsInitInv DEF ProgramsInit, TypesInv, TypesOK, CommandsKept

LEMMA ProgramsNextTypes == TypesInv /\ [ProgramsNext]_programsVars => TypesInv'
<1> SUFFICES ASSUME TypesInv, [ProgramsNext]_programsVars PROVE TypesInv'
  OBVIOUS
<1>1. program' = program
  BY DEF ProgramsNext, Only, programsVars
<1>2. [Next]_vars /\ [CommandsNext]_commandVars
  BY DEF ProgramsNext, Only, programsVars
<1>3. (program = "vm" => [VMNext]_vmVars) /\ (program = "options" => [OptionsNext]_optionVars)
  BY DEF ProgramsNext, Only, programsVars
<1>4. program # "options" => UNCHANGED optionVars
  BY DEF ProgramsNext, Only, programsVars
<1>5. TypeOK' /\ InputOK'
  <2>1. CASE UNCHANGED vars
    BY <2>1 DEF TypesInv, TypesOK, vars, TypeOK, InputOK
  <2>2. ASSUME NEW t \in Threads, Step(t) PROVE TypeOK' /\ InputOK'
    BY <2>2, StepTypes DEF TypesInv, TypesOK
  <2> QED
    BY <1>2, <2>1, <2>2 DEF Next, Finished
<1>6. CommandsKept'
  BY <1>2, CommandsNextKept DEF TypesInv
<1>7. OptionsTypeOK'
  <2>1. CASE program = "options"
    BY <1>3, <2>1, OptionsNextTypes DEF TypesInv, TypesOK
  <2>2. CASE program # "options"
    BY <1>4, <2>2 DEF TypesInv, TypesOK, optionVars, OptionsTypeOK, argv, NamesOf
  <2> QED
    BY <2>1, <2>2
<1>8. program' = "options" => OptionsInv'
  BY <1>1, <1>3, OptionsStep DEF TypesInv
<1>9. program' = "vm" => VMTypeOK'
  BY <1>1, <1>3, VMNextTypes DEF TypesInv, TypesOK
<1> QED
  BY <1>5, <1>6, <1>7, <1>8, <1>9 DEF TypesInv, TypesOK, CommandsKept

(* Whichever program runs, its variables keep their types: what the        *)
(* virtual machine holds are words, the kernels count in natural numbers,  *)
(* the parser stays within the command line and the positional arguments,  *)
(* and no more commands wait than were given to the queue.                 *)
THEOREM TypesHold == ProgramsSpec => []TypesOK
<1>1. TypesInv => TypesOK
  BY DEF TypesInv
<1> QED
  BY <1>1, ProgramsInitTypes, ProgramsNextTypes, PTL DEF ProgramsSpec
=============================================================================
