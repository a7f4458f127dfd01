--------------------------------- MODULE VM ---------------------------------
(***************************************************************************)
(* The interpreter of simple-vm/vm.cpp.  Program, variables and the stack, *)
(* which grows down from the end, share the array data_; nothing keeps     *)
(* them apart, and data_ is indexed without a check.                       *)
(*                                                                         *)
(* An access outside data_ is undefined: the machine is then "lost", and   *)
(* nothing more is said about it.  Arithmetic wraps around, as the build   *)
(* without optimisation does.                                              *)
(***************************************************************************)
EXTENDS VMWords

CONSTANTS DataSize,      \* the first line of the image file
          ProgramImages, \* the words that can follow the second line
          Bytes,         \* what getchar() & 0xff can return
          Unassigned,    \* what an uninitialised int can hold
          MaxSteps       \* bound: instructions executed

ASSUME ProgramsAssumption ==
  /\ DataSize \in Nat /\ DataSize < SignBit    \* read as an int32_t
  /\ ProgramImages \subseteq Seq(Cell)
  /\ Bytes \subseteq 0 .. 255 /\ Unassigned \subseteq Cell
  /\ MaxSteps \in Nat

VARIABLES data_,   \* the words of the machine, from address 0
          ip_,
          sp_,
          image,   \* history: the words that were loaded
          out,     \* the characters written
          steps,
          status   \* "load", "running", "halted", "aborted", "lost"

vmVars == <<data_, ip_, sp_, image, out, steps, status>>

Addresses == 0 .. DataSize - 1

-----------------------------------------------------------------------------
VMInit == /\ data_ = [a \in Addresses |-> 0]
          /\ ip_ = 0
          /\ sp_ = DataSize
          /\ image \in ProgramImages
          /\ out = <<>>
          /\ steps = 0
          /\ status = "load"

\* load_image(): an image longer than data_ is written past its end.
Load == /\ status = "load"
        /\ IF Len(image) <= DataSize
           THEN /\ data_' = [a \in Addresses |-> IF a < Len(image) THEN image[a + 1] ELSE 0]
                /\ status' = "running"
           ELSE /\ status' = "lost"
                /\ UNCHANGED data_
        /\ UNCHANGED <<ip_, sp_, image, out, steps>>

instr == data_[ip_]

\* The i-th value that g() returns while an instruction executes.
Operand(i) == data_[sp_ + i - 1]

\* The calls of g() of an instruction, and whether it calls f() after them.
Gets(w) == CASE IsBinary(w) \/ IsUnary(w, "STORE") \/ IsUnary(w, "JMP") -> 2
             [] IsUnary(w, "LOAD") \/ IsUnary(w, "NOT") \/ IsUnary(w, "PUTC") -> 1
             [] OTHER -> 0
Puts(w) == \/ IsBinary(w)
           \/ \E op \in {"PUSH_CONST", "PUSH_IP", "PUSH_SP", "LOAD", "NOT", "GETC"} : IsUnary(w, op)

\* The addresses an instruction reads and writes.
Accessed(w) ==
  LET stack == (sp_ .. sp_ + Gets(w) - 1) \cup (IF Puts(w) THEN {sp_ + Gets(w) - 1} ELSE {})
  IN  IF ~(stack \subseteq Addresses) THEN stack
      ELSE stack \cup (IF IsUnary(w, "LOAD") THEN {int32_t(Operand(1))} ELSE {})
                 \cup (IF IsUnary(w, "STORE") THEN {int32_t(Operand(2))} ELSE {})

Executing == /\ status = "running" /\ steps < MaxSteps
             /\ ip_ \in Addresses
             /\ Accessed(instr) \subseteq Addresses
             /\ steps' = steps + 1

\* What an instruction leaves alone if it does nothing but move values.
Quiet == UNCHANGED <<image, out, status>>

\* n calls of g(), then f(v).
Replace(n, v) == /\ data_' = [data_ EXCEPT ![sp_ + n - 1] = v]
                 /\ sp_' = sp_ + n - 1

Pop == /\ Executing /\ IsUnary(instr, "POP")
       /\ sp_' = sp_ + 1 /\ ip_' = ip_ + 1
       /\ UNCHANGED data_ /\ Quiet

PushConst == /\ Executing /\ IsUnary(instr, "PUSH_CONST")
             /\ Replace(0, Optional(instr)) /\ ip_' = ip_ + 1
             /\ Quiet

\* Mutation of PushIp: the address of this instruction is pushed.
PushIpOwn == /\ Executing /\ IsUnary(instr, "PUSH_IP")
             /\ Replace(0, ip_) /\ ip_' = ip_ + 1
             /\ Quiet

PushIp == /\ Executing /\ IsUnary(instr, "PUSH_IP")
          /\ Replace(0, ip_ + 1) /\ ip_' = ip_ + 1
          /\ Quiet

\* f(sp_): the argument is sp_ before f() decrements it.
PushSp == /\ Executing /\ IsUnary(instr, "PUSH_SP")
          /\ Replace(0, ToWord(sp_)) /\ ip_' = ip_ + 1
          /\ Quiet

LoadWord == /\ Executing /\ IsUnary(instr, "LOAD")
            /\ Replace(1, data_[Operand(1)]) /\ ip_' = ip_ + 1
            /\ Quiet

Store == /\ Executing /\ IsUnary(instr, "STORE")
         /\ data_' = [data_ EXCEPT ![Operand(2)] = Operand(1)]
         /\ sp_' = sp_ + 2 /\ ip_' = ip_ + 1
         /\ Quiet

\* ip_ is incremented after the instruction, also after a jump.
Jump == /\ Executing /\ IsUnary(instr, "JMP")
        /\ ip_' = IF Operand(1) # 0 THEN int32_t(Operand(2)) ELSE ip_ + 1
        /\ sp_' = sp_ + 2
        /\ UNCHANGED data_ /\ Quiet

Not == /\ Executing /\ IsUnary(instr, "NOT")
       /\ Replace(1, Truth(Operand(1) = 0)) /\ ip_' = ip_ + 1
       /\ Quiet

\* Mutation of Putc: the character is not masked.
PutcUnmasked == /\ Executing /\ IsUnary(instr, "PUTC")
                /\ out' = Append(out, Operand(1))
                /\ sp_' = sp_ + 1 /\ ip_' = ip_ + 1
                /\ UNCHANGED <<data_, image, status>>

\* putchar (x & 0xff)
Putc == /\ Executing /\ IsUnary(instr, "PUTC")
        /\ out' = Append(out, Operand(1) % 256)
        /\ sp_' = sp_ + 1 /\ ip_' = ip_ + 1
        /\ UNCHANGED <<data_, image, status>>

Getc == /\ Executing /\ IsUnary(instr, "GETC")
        /\ \E c \in Bytes : Replace(0, c)
        /\ ip_' = ip_ + 1
        /\ Quiet

Halt == /\ Executing /\ IsUnary(instr, "HALT")
        /\ status' = "halted"
        /\ UNCHANGED <<data_, ip_, sp_, image, out>>

\* unary() returns whatever is in the register: the machine goes on or halts.
UnknownUnary ==
  /\ Executing /\ ~IsBinary(instr) /\ ~Known(instr)
  /\ \/ ip_' = ip_ + 1 /\ UNCHANGED status
     \/ status' = "halted" /\ UNCHANGED ip_
  /\ UNCHANGED <<data_, sp_, image, out>>

\* binary() gets b before a.
BinaryOp ==
  /\ Executing /\ IsBinary(instr)
  /\ LET b == Operand(1)
         a == Operand(2)
     IN  /\ ~Traps(instr, a, b)
         /\ \E r \in Results(instr, a, b, Unassigned) : Replace(2, r)
  /\ ip_' = ip_ + 1
  /\ Quiet

\* assert (ip_ < data_.size()), where a negative ip_ is converted.
AssertFails == /\ status = "running" /\ steps < MaxSteps
               /\ ip_ \notin Addresses
               /\ status' = "aborted"
               /\ UNCHANGED <<data_, ip_, sp_, image, out, steps>>

\* The processor's division trap.
Trap == /\ Executing
        /\ IsBinary(instr) /\ Traps(instr, Operand(2), Operand(1))
        /\ status' = "aborted"
        /\ UNCHANGED <<data_, ip_, sp_, image, out>>

\* An access outside data_.
Lose == /\ status = "running" /\ steps < MaxSteps
        /\ ip_ \in Addresses /\ ~(Accessed(instr) \subseteq Addresses)
        /\ status' = "lost"
        /\ UNCHANGED <<data_, ip_, sp_, image, out, steps>>

unary == \/ Pop \/ PushConst \/ PushIp \/ PushSp \/ LoadWord \/ Store \/ Jump
         \/ Not \/ Putc \/ Getc \/ Halt \/ UnknownUnary

interprete == unary \/ BinaryOp \/ AssertFails \/ Trap \/ Lose

VMFinished == /\ status \notin {"load", "running"} \/ steps = MaxSteps
              /\ UNCHANGED vmVars

VMNext == Load \/ interprete \/ VMFinished

VMSpec == VMInit /\ [][VMNext]_vmVars

-----------------------------------------------------------------------------
VMTypeOK == /\ data_ \in [Addresses -> Cell]
            /\ ip_ \in Int /\ sp_ \in Nat
            /\ image \in ProgramImages
            /\ out \in Seq(0 .. 255)
            /\ steps \in 0 .. MaxSteps
            /\ status \in {"load", "running", "halted", "aborted", "lost"}

\* The stack has not grown into the program, nor been popped below its end.
StackApart == status \notin {"load", "lost"} /\ Len(image) <= sp_ /\ sp_ <= DataSize

Machine == INSTANCE StackMachine WITH
  memory <- [a \in 0 .. Len(image) - 1 |-> data_[a]],
  stack  <- [i \in 1 .. DataSize - sp_ |-> data_[DataSize - i]],
  pc     <- ip_,
  output <- out,
  ended  <- status # "running"

(* As long as the stack stays apart from the program, the array with its   *)
(* two indices is a stack machine: every instruction takes and leaves what *)
(* it should, also when the program reads, changes or jumps over itself.   *)
ActsAsStackMachine ==
  [][StackApart /\ StackApart' /\ ip_ \in 0 .. Len(image) - 1 => Machine!Step]_vmVars
=============================================================================
