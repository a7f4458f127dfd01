------------------------------ MODULE VMWords ------------------------------
(***************************************************************************)
(* The 32-bit words of the simple virtual machine (simple-vm/vm.hpp), as   *)
(* numbers from 0: how they are decoded into instructions and what the     *)
(* binary operations make of them.  OptionalBits is 24 in the code, where  *)
(* one bit for binop_flag and seven for opcode make up the word.           *)
(***************************************************************************)
EXTENDS Integers, Sequences

CONSTANT OptionalBits

ASSUME WidthAssumption == OptionalBits \in Nat

WordBits == OptionalBits + 8

\* What a bit counts for, and how many values the bits below it have.
weight[n \in 0 .. WordBits] == IF n = 0 THEN 1 ELSE 2 * weight[n - 1]

\* The values of a word, its highest bit, and the values of its optional.
WordValues     == weight[WordBits]
SignBit        == weight[WordBits - 1]
OptionalValues == weight[OptionalBits]

Cell == 0 .. WordValues - 1

int32_t(w) == IF w < SignBit THEN w ELSE w - WordValues
ToWord(n)  == n % WordValues
Truth(b)   == IF b THEN 1 ELSE 0

UNARY_OP  == [POP |-> 0, PUSH_CONST |-> 1, PUSH_IP |-> 2, PUSH_SP |-> 3, LOAD |-> 4,
              STORE |-> 5, JMP |-> 6, NOT |-> 7, PUTC |-> 8, GETC |-> 9, HALT |-> 10]
BINARY_OP == [ADD |-> 0, SUB |-> 1, MUL |-> 2, DIV |-> 3, AND |-> 4, OR |-> 5,
              XOR |-> 6, EQ |-> 7, LT |-> 8]

\* struct INSTR: optional, opcode and binop_flag from the lowest bits up.
Optional(w)  == w % OptionalValues
Opcode(w)    == (w \div OptionalValues) % 128
BinopFlag(w) == w \div SignBit

Unary(name, optional) == UNARY_OP[name] * OptionalValues + optional
Binary(name)          == (128 + BINARY_OP[name]) * OptionalValues

IsUnary(w, name)  == BinopFlag(w) = 0 /\ Opcode(w) = UNARY_OP[name]
IsBinary(w)       == BinopFlag(w) = 1
Known(w) == \E op \in DOMAIN UNARY_OP : IsUnary(w, op)

Bits(w) == {i \in 0 .. WordBits - 1 : (w \div weight[i]) % 2 = 1}

\* The sum of the weights of the bits below the n-th, for every n.
FromBits(bs) ==
  LET sum[n \in 0 .. WordBits] ==
        IF n = 0 THEN 0 ELSE sum[n - 1] + (IF n - 1 \in bs THEN weight[n - 1] ELSE 0)
  IN  sum[WordBits]

\* Division of int32_t rounds towards zero.
Quotient(m, n) ==
  LET Abs(k) == IF k < 0 THEN -k ELSE k
      q == Abs(m) \div Abs(n)
  IN  IF (m < 0) = (n < 0) THEN q ELSE -q

\* The division traps on a zero divisor and on the quotient that overflows.
Traps(w, a, b) ==
  /\ IsBinary(w) /\ Opcode(w) = BINARY_OP.DIV
  /\ b = 0 \/ (int32_t(b) = -1 /\ int32_t(a) = -SignBit)

\* What binary() can leave in r, which an unknown opcode does not assign.
Results(w, a, b, garbage) ==
  LET op == Opcode(w)
      m  == int32_t(a)
      n  == int32_t(b)
  IN  CASE op = BINARY_OP.ADD -> {ToWord(m + n)}
        [] op = BINARY_OP.SUB -> {ToWord(m - n)}
        [] op = BINARY_OP.MUL -> {ToWord(m * n)}
        [] op = BINARY_OP.DIV -> {ToWord(Quotient(m, n))}
        [] op = BINARY_OP.AND -> {FromBits(Bits(a) \cap Bits(b))}
        [] op = BINARY_OP.OR  -> {FromBits(Bits(a) \cup Bits(b))}
        [] op = BINARY_OP.XOR -> {FromBits((Bits(a) \ Bits(b)) \cup (Bits(b) \ Bits(a)))}
        [] op = BINARY_OP.EQ  -> {Truth(a = b)}
        [] op = BINARY_OP.LT  -> {Truth(m < n)}
        [] OTHER              -> garbage
=============================================================================
