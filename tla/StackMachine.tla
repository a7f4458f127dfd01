---------------------------- MODULE StackMachine ----------------------------
(***************************************************************************)
(* What the instructions of the simple virtual machine mean to a program   *)
(* that keeps its stack apart from its code and variables: a memory, and a *)
(* stack whose cells have addresses that count down from DataSize.         *)
(***************************************************************************)
EXTENDS VMWords

CONSTANTS DataSize, Bytes, Unassigned

VARIABLES memory,   \* code and variables, from address 0
          stack,    \* bottom first
          pc, output, ended

state == <<memory, stack, pc, output, ended>>

word   == memory[pc]
Depth  == Len(stack)
top(i) == stack[Depth - i + 1]
Below(n) == SubSeq(stack, 1, Depth - n)

\* What can be read at an address when n words were taken off the stack.
CellsAt(a, n) == IF a \in DOMAIN memory THEN {memory[a]}
                 ELSE IF DataSize - a \in 1 .. Depth - n THEN {stack[DataSize - a]}
                 ELSE Cell

Has(n)     == Depth >= n
Advance    == pc' = pc + 1
Becomes(s) == stack' = s
Silent     == UNCHANGED <<output, ended>>

Push == /\ \/ IsUnary(word, "PUSH_CONST") /\ Becomes(Append(stack, Optional(word)))
           \/ IsUnary(word, "PUSH_IP")    /\ Becomes(Append(stack, pc + 1))
           \/ IsUnary(word, "PUSH_SP")    /\ Becomes(Append(stack, DataSize - Depth))
           \/ IsUnary(word, "GETC")       /\ \E c \in Bytes : Becomes(Append(stack, c))
        /\ Advance /\ UNCHANGED memory /\ Silent

Drop == /\ Has(1) /\ IsUnary(word, "POP")
        /\ Becomes(Below(1))
        /\ Advance /\ UNCHANGED memory /\ Silent

Write == /\ Has(1) /\ IsUnary(word, "PUTC")
         /\ output' = Append(output, top(1) % 256)
         /\ Becomes(Below(1))
         /\ Advance /\ UNCHANGED <<memory, ended>>

Replace1 == /\ Has(1)
            /\ \/ /\ IsUnary(word, "NOT")
                  /\ Becomes(Append(Below(1), Truth(top(1) = 0)))
               \/ /\ IsUnary(word, "LOAD")
                  /\ \E v \in CellsAt(top(1), 1) : Becomes(Append(Below(1), v))
            /\ Advance /\ UNCHANGED memory /\ Silent

Replace2 == /\ Has(2) /\ IsBinary(word) /\ ~Traps(word, top(2), top(1))
            /\ \E r \in Results(word, top(2), top(1), Unassigned) : Becomes(Append(Below(2), r))
            /\ Advance /\ UNCHANGED memory /\ Silent

\* The value is on top of the address.
Assign == /\ Has(2) /\ IsUnary(word, "STORE")
          /\ LET a == top(2)
             IN  /\ memory' = IF a \in DOMAIN memory THEN [memory EXCEPT ![a] = top(1)] ELSE memory
                 /\ Becomes([i \in 1 .. Depth - 2 |-> IF i = DataSize - a THEN top(1) ELSE stack[i]])
          /\ Advance /\ Silent

\* The condition is on top of the target.
Branch == /\ Has(2) /\ IsUnary(word, "JMP")
          /\ pc' = IF top(1) # 0 THEN int32_t(top(2)) ELSE pc + 1
          /\ Becomes(Below(2))
          /\ UNCHANGED memory /\ Silent

Unknown == /\ ~IsBinary(word) /\ ~Known(word)
           /\ Advance /\ UNCHANGED <<memory, stack, output, ended>>

Stop == /\ \/ IsUnary(word, "HALT")
           \/ ~IsBinary(word) /\ ~Known(word)
           \/ Has(2) /\ IsBinary(word) /\ Traps(word, top(2), top(1))
        /\ ended' = TRUE
        /\ UNCHANGED <<memory, stack, pc, output>>

Step == /\ ~ended
        /\ \/ Push \/ Drop \/ Write \/ Replace1 \/ Replace2
           \/ Assign \/ Branch \/ Unknown \/ Stop
=============================================================================
