------------------------------- MODULE BitOps -------------------------------
(***************************************************************************)
(* The bit operations of lru/bitops.hpp, at the widths they have, and      *)
(* zero_gap of misc/coding_lessons/bin_gap.cpp.                            *)
(*                                                                         *)
(* A word is the set of the positions of its ones: & is the intersection,  *)
(* | the union, and a shift moves the positions and drops those that leave *)
(* the word.                                                               *)
(***************************************************************************)
EXTENDS Integers, FiniteSetsExt

Shl(x, k, width) == {b + k : b \in x} \cap (0 .. width - 1)
Shr(x, k)        == {b - k : b \in x} \cap Nat

\* x - 1 borrows from the lowest one.
MinusOne(x, width) == IF x = {} THEN 0 .. width - 1 ELSE (x \ {Min(x)}) \cup (0 .. Min(x) - 1)

\* The masks 0x5555..., 0x3333..., 0x0F0F..., for k = 1, 2, 4.
EveryOther(k, width) == {b \in 0 .. width - 1 : b % (2 * k) < k}

-----------------------------------------------------------------------------
\* The low half is dropped if it is empty; s.n counts from one.
DropHalf(s, k) == IF s.x \cap (0 .. k - 1) # {} THEN s ELSE [n |-> s.n + k, x |-> Shr(s.x, k)]

\* Halves are dropped from the widest down; "thrown" is the logic_error.
Log2(x, width) ==
  LET first == [n |-> 1, x |-> x]
      word  == IF width = 64 THEN DropHalf(first, 32) ELSE first
      s     == DropHalf(DropHalf(DropHalf(DropHalf(word, 16), 8), 4), 2)
  IN  IF x \cap MinusOne(x, width) # {} THEN "thrown"
      ELSE IF 0 \in s.x THEN s.n - 1 ELSE s.n

\* Mutation of SwapNeighbours: the mask is applied after the shift to the left.
SwapNeighboursMaskLate(x, k, width) ==
  (Shr(x, k) \cap EveryOther(k, width)) \cup (Shl(x, k, width) \cap EveryOther(k, width))

SwapNeighbours(x, k, width) ==
  (Shr(x, k) \cap EveryOther(k, width)) \cup Shl(x \cap EveryOther(k, width), k, width)

\* Odd and even bits, bit pairs and nibbles.
Nibbles(x, width) == SwapNeighbours(SwapNeighbours(SwapNeighbours(x, 1, width), 2, width), 4, width)

bitrev16(x) ==
  LET nibbles == Nibbles(x, 16)
  IN  (Shr(nibbles, 8) \cap (0 .. 7)) \cup Shl(nibbles \cap (0 .. 7), 8, 16)

bitrev32(x) ==
  LET nibbles == Nibbles(x, 32)
  IN  Shl(nibbles, 24, 32) \cup Shl(nibbles \cap (8 .. 15), 8, 32)
        \cup (Shr(nibbles, 8) \cap (8 .. 15)) \cup Shr(nibbles, 24)

-----------------------------------------------------------------------------
\* bit_slice<msb, lsb>
slice(x, msb, lsb)   == Shr(x, lsb) \cap (0 .. msb - lsb)
shl_lsb(x, msb, lsb) == Shl(slice(x, msb, lsb), lsb, 64)

-----------------------------------------------------------------------------
\* The digits below the first one, from the left.
Digit(s, one) ==
  IF ~one THEN [s EXCEPT !.gap = TRUE, !.cur_gap = IF s.gap THEN @ + 1 ELSE 1]
  ELSE [s EXCEPT !.gap = FALSE, !.max_gap = IF s.cur_gap > @ THEN s.cur_gap ELSE @]

\* Of 0, the search for the first one ends at the null that ends the string.
zero_gap(x, width) ==
  LET after[k \in 0 .. Max(x)] ==
        IF k = 0 THEN [gap |-> FALSE, cur_gap |-> 0, max_gap |-> 0]
        ELSE Digit(after[k - 1], Max(x) - k \in x)
  IN  IF x = {} THEN 0 ELSE after[Max(x)].max_gap

-----------------------------------------------------------------------------
\* The definitions.
Reversed(x, width) == {width - 1 - b : b \in x}

\* The zeros between two ones that follow each other.
Gaps(x) == {Cardinality(ab[1] + 1 .. ab[2] - 1) : ab \in
              {ab \in x \X x : ab[1] < ab[2] /\ \A c \in ab[1] + 1 .. ab[2] - 1 : c \notin x}}
=============================================================================
