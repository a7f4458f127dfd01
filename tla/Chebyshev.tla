----------------------------- MODULE Chebyshev -----------------------------
(***************************************************************************)
(* The fast cosine transform and the differentiation of                    *)
(* chebyshev_pseudospectral/src (FastCosineTransform.cpp,                  *)
(* ChebyshevDifferentiate.cpp), in exact arithmetic.                       *)
(*                                                                         *)
(* For the transform the reals are replaced by the integers modulo a prime *)
(* p.  Sines and cosines become what de Moivre's formula makes of the      *)
(* powers of a root of unity, so that every trigonometric identity the     *)
(* algorithm is built on holds exactly, and a wrong index, sign or factor  *)
(* shows as a different number rather than as a rounding error.            *)
(*                                                                         *)
(* Differentiation is over the integers: the derivative of a sum of        *)
(* Chebyshev polynomials, whose coefficients are replaced by those of the  *)
(* derivative in place, and the coefficients that make a function of two   *)
(* variables vanish on the boundary of the square.  Both are linear, so    *)
(* that their results for unit vectors determine all.  out[2] and the      *)
(* divisor of 2.0 / (max - min) are such that no fraction arises; span is  *)
(* an integer.                                                             *)
(***************************************************************************)
EXTENDS Integers, FiniteSetsExt, SequencesExt, TLC

CONSTANTS p,      \* a prime, 1 modulo Order
          root,   \* a number whose powers repeat after Order
          Order   \* a full turn; 4 * n divides it for every n in use

F(x) == x % p
Half == (p + 1) \div 2
Over(x) == CHOOSE y \in 1 .. p - 1 : F(x * y) = 1

\* root to the power of k, by squaring.
power[k \in 0 .. Order - 1] ==
  IF k = 0 THEN 1
  ELSE LET r == power[k \div 2] IN IF k % 2 = 0 THEN F(r * r) ELSE F(F(r * r) * root)

\* e to the power of i times the angle, which is given in turns / Order.
Exp(angle) == power[angle % Order]
cos(angle) == F((Exp(angle) + Exp(-angle)) * Half)
sin(angle) == F((Exp(angle) - Exp(-angle)) * Half * Exp(-(Order \div 4)))

\* pi / n
PiOver(n) == Order \div (2 * n)

\* The function f, whose elements TLC then evaluates once and not at every use.
Table(f) == f @@ <<>>

\* <<first, first + step, ...>> up to last
Count(first, step, last) == [k \in 1 .. (last - first + step) \div step |-> first + (k - 1) * step]

-----------------------------------------------------------------------------
\* The recurrence of wr and wi: turn by theta.
Turn(w, theta) ==
  LET wpr == F(-2 * sin(theta \div 2) * sin(theta \div 2))
      wpi == sin(theta)
  IN  [r |-> F(w.r * wpr - w.i * wpi + w.r), i |-> F(w.i * wpr + w.r * wpi + w.i)]

One == [r |-> 1, i |-> 0]

\* Even and odd part of the data, and the sum that becomes data[1].
Split(n, data) ==
  FoldLeft(LAMBDA s, j :
             LET w  == Turn(s.w, PiOver(n))
                 y1 == F(Half * (s.data[j] + s.data[n - j]))
                 y2 == s.data[j] - s.data[n - j]
             IN  [w |-> w,
                  sum |-> F(s.sum + w.r * y2),
                  data |-> [s.data EXCEPT ![j] = F(y1 - w.i * y2), ![n - j] = F(y1 + w.i * y2)]],
           [w |-> One, sum |-> data[0], data |-> data],
           Count(1, 1, n \div 2))

\* The addition of m to j from the most significant bit down.
carry[x \in (0 .. Order) \X (0 .. Order)] ==
  LET j == x[1]  m == x[2]
  IN  IF m >= 2 /\ j > m THEN carry[<<j - m, m \div 2>>] ELSE j + m

\* The complex numbers data[0] + i * data[1], data[2] + i * data[3], ... in
\* bit-reversed order.
BitReverse(n, data) ==
  FoldLeft(LAMBDA s, i :
             [j |-> carry[<<s.j, n \div 2>>],
              data |-> IF s.j > i
                       THEN [s.data EXCEPT ![s.j - 1] = s.data[i - 1], ![i - 1] = s.data[s.j - 1],
                                           ![s.j] = s.data[i], ![i] = s.data[s.j]]
                       ELSE s.data],
           [j |-> 1, data |-> data], Count(1, 2, n)).data

\* Mutation of Butterfly: the sum is stored before the difference is formed.
ButterflySumFirst(w, mmax, data, i) ==
  LET j     == i + mmax
      tempr == w.r * data[j - 1] - w.i * data[j]
      tempi == w.r * data[j] + w.i * data[j - 1]
  IN  [data EXCEPT ![j - 1] = data[i - 1], ![j] = data[i],
                   ![i - 1] = F(@ + tempr), ![i] = F(@ + tempi)]

Butterfly(w, mmax, data, i) ==
  LET j     == i + mmax
      tempr == w.r * data[j - 1] - w.i * data[j]
      tempi == w.r * data[j] + w.i * data[j - 1]
  IN  [data EXCEPT ![j - 1] = F(data[i - 1] - tempr), ![j] = F(data[i] - tempi),
                   ![i - 1] = F(@ + tempr), ![i] = F(@ + tempi)]

\* One pass of the while loop over mmax.
Pass(n, mmax, data) ==
  FoldLeft(LAMBDA s, m :
             [w |-> Turn(s.w, Order \div mmax),
              data |-> FoldLeft(LAMBDA d, i : Butterfly(s.w, mmax, d, i), s.data, Count(m, 2 * mmax, n))],
           [w |-> One, data |-> data], Count(1, 2, mmax)).data

Passes(n, data) ==
  LET after[mmax \in 0 .. n] ==
        IF mmax = 1 THEN data ELSE IF mmax = 2 THEN data ELSE Pass(n, mmax \div 2, after[mmax \div 2])
  IN  after[n]

\* The transforms of the even and the odd half become that of the whole.
Separate(n, data) ==
  LET theta == Order \div n
      Pair(s, i) ==
        LET i1 == 2 * i  i2 == i1 + 1  i3 == n - i2 + 1  i4 == i3 + 1
            wr == s.w.r  wi == s.w.i
            h1r == Half * (s.data[i1] + s.data[i3])
            h1i == Half * (s.data[i2] - s.data[i4])
            h2r == Half * (s.data[i2] + s.data[i4])
            h2i == Half * (s.data[i3] - s.data[i1])
        IN  [w |-> Turn(s.w, theta),
             data |-> [s.data EXCEPT ![i1] = F(h1r + wr * h2r - wi * h2i),
                                     ![i2] = F(h1i + wr * h2i + wi * h2r),
                                     ![i3] = F(h1r - wr * h2r + wi * h2i),
                                     ![i4] = F(-h1i + wr * h2i + wi * h2r)]]
  IN  FoldLeft(Pair, [w |-> Turn(One, theta), data |-> [data EXCEPT ![0] = F(@ + data[1])]],
               Count(1, 1, n \div 4)).data

\* data[1] = sum, and the running sums of the odd elements.
OddSums(n, data, sum) ==
  FoldLeft(LAMBDA d, j : [d EXCEPT ![j] = F(@ + d[j - 2])], [data EXCEPT ![1] = sum], Count(3, 2, n))

Alternating(j, a, b) == IF j % 2 = 0 THEN a ELSE b

\* What TransformType::Inverse adds: the ends count half.
Rescale(n, data, first, last) ==
  LET overN  == Over(F(n))
      scaled == [j \in 0 .. n |-> F((data[j] - Alternating(j, first + last, first - last)) * 2 * overN)]
  IN  [scaled EXCEPT ![0] = F(Half * @), ![n] = F(Half * @)]

FromSplit(n, split) == OddSums(n, Separate(n, Passes(n, BitReverse(n, split.data))), split.sum)

\* The last element's part in the sums; temp is what it was.
Ended(n, temp, whole) == [j \in 0 .. n |-> IF j = n THEN whole[n] ELSE F(whole[j] + Alternating(j, temp, -temp))]

ByType(n, data, inverse, ended) == IF inverse THEN Rescale(n, ended, F(Half * data[0]), F(Half * data[n])) ELSE ended

cosfft1(n, data, inverse) ==
  LET total == F(MapThenSumSet(LAMBDA j : Alternating(j, data[j], -data[j]), 0 .. n))
  IN  Table(ByType(n, data, inverse, Ended(n, data[n], FromSplit(n, Split(n, [data EXCEPT ![n] = total])))))

-----------------------------------------------------------------------------
Rows(m, n, data, inverse) == Table([i \in 0 .. m |-> cosfft1(n, data[i], inverse)])
Column(m, data, j)        == Table([i \in 0 .. m |-> data[i][j]])
Transposed(m, n, data)    == Table([j \in 0 .. n |-> Column(m, data, j)])

\* The rows, and then each column by way of a copy.
cft2(m, n, data, inverse) ==
  FoldLeft(LAMBDA d, j : LET col == cosfft1(m, Column(m, d, j), inverse)
                         IN  Table([i \in 0 .. m |-> [d[i] EXCEPT ![j] = col[i]]]),
           Rows(m, n, data, inverse), Count(0, 1, n))

cft2_with_transpose(m, n, data, inverse) ==
  Transposed(n, m, Rows(n, m, Transposed(m, n, Rows(m, n, data, inverse)), inverse))

-----------------------------------------------------------------------------
\* The transforms by their definitions.
Cosines(n, data) ==
  Table([k \in 0 .. n |-> F(MapThenSumSet(LAMBDA j : data[j] * cos(j * k * PiOver(n)), 0 .. n))])
Cosines2(m, n, data) ==
  LET inner == Table([i \in 0 .. m |-> Cosines(n, data[i])])
  IN  Transposed(n, m, Table([j \in 0 .. n |-> Cosines(m, Column(m, inner, j))]))

-----------------------------------------------------------------------------
(* Differentiation.                                                        *)

\* n - 3, n - 4, ..., 1
Downwards(n) == [k \in 1 .. n - 3 |-> n - 2 - k]

\* Mutation of Body: in[j + 1] is read after it has been replaced.
BodyOverwritten(n, span, s, j) ==
  [temp2 |-> s.out[j],
   out |-> [s.out EXCEPT ![j] = s.out[j + 2] + 2 * (j + 1) * s.out[j + 1] * span]]

\* One round of the loop; temp2 is in[j + 1], which out[j + 1] has replaced.
Body(n, span, s, j) ==
  [temp2 |-> s.out[j],
   out |-> [s.out EXCEPT ![j] = s.out[j + 2] + 2 * (j + 1) * s.temp2 * span]]

\* Every caller passes one vector as in and as out, of at least 4 elements.
spectral_differentiate(n, in, span) ==
  LET first == [temp2 |-> in[n - 2],
                out |-> [in EXCEPT ![n - 1] = 2 * n * in[n] * span,
                                   ![n - 2] = 2 * (n - 1) * in[n - 1] * span]]
      s == FoldLeft(LAMBDA t, j : Body(n, span, t, j), first, Downwards(n))
  IN  [s.out EXCEPT ![0] = s.out[2] \div 2 + s.temp2 * span, ![n] = 0]

-----------------------------------------------------------------------------
\* The elements f(j) of a set of indices, with the opposite sign.
Minus(f(_), S) == -MapThenSumSet(f, S)

\* The indices of the loops that add up pairs, from 1 and below the bound.
OddBelow(bound) == {j \in 1 .. bound - 1 : j % 2 = 1}

\* Columns n - 1 and n of the rows 0 .. m - 2.
RightEdge(m, n, out) ==
  [i \in 0 .. m |->
     IF i > m - 2 THEN out[i]
     ELSE [out[i] EXCEPT ![n - 1] = Minus(LAMBDA j : out[i][j], OddBelow(n - 1)),
                         ![n] = Minus(LAMBDA j : out[i][j + 1], OddBelow(n - 1)) - out[i][0]]]

\* Rows m - 1 and m of the columns 0 .. n - 2.
LowerEdge(m, n, out) ==
  [out EXCEPT
     ![m - 1] = [i \in 0 .. n |-> IF i > n - 2 THEN @[i]
                                  ELSE Minus(LAMBDA j : out[j][i], OddBelow(m - 2))],
     ![m] = [i \in 0 .. n |-> IF i > n - 2 THEN @[i]
                              ELSE Minus(LAMBDA j : out[j + 1][i], OddBelow(m - 2)) - out[0][i]]]

\* The four elements in the corner: row m - 1 from its row, row m from its columns.
Corner(m, n, out) ==
  LET row == [out[m - 1] EXCEPT
                ![n - 1] = Minus(LAMBDA j : out[m - 1][j], OddBelow(n - 2)),
                ![n] = Minus(LAMBDA j : out[m - 1][j + 1], OddBelow(n - 2)) - out[m - 1][0]]
      Evens == {i \in 0 .. m - 1 : i % 2 = 0}
  IN  [out EXCEPT ![m - 1] = row,
                  ![m] = [@ EXCEPT ![n - 1] = Minus(LAMBDA i : out[i][n - 1], Evens),
                                   ![n] = Minus(LAMBDA i : out[i][n], Evens)]]

homogeneous_boundary(m, n, in) == Corner(m, n, LowerEdge(m, n, RightEdge(m, n, in)))

second_derivative(m, n, in) ==
  LET out == homogeneous_boundary(m, n, in)
  IN  [i \in 0 .. m |-> spectral_differentiate(n, spectral_differentiate(n, out[i], 1), 1)]

-----------------------------------------------------------------------------
\* The derivative by the formula: T'[k] = 2 * k * (T[k - 1] + T[k - 3] + ...),
\* where T[0] counts half.
Derivative(n, a, span) ==
  [j \in 0 .. n |->
     LET terms == MapThenSumSet(LAMBDA k : 2 * k * a[k] * span, {k \in j + 1 .. n : (k - j) % 2 = 1})
     IN  IF j = 0 THEN terms \div 2 ELSE terms]

\* A function vanishes on the boundary when, in every row and column, the
\* coefficients with even indices and those with odd indices add up to 0,
\* because T[k](1) = 1 and T[k](-1) = (-1)^k.
Vanishes(m, n, out) ==
  \A parity \in {0, 1} :
    /\ \A i \in 0 .. m : MapThenSumSet(LAMBDA j : out[i][j], {j \in 0 .. n : j % 2 = parity}) = 0
    /\ \A j \in 0 .. n : MapThenSumSet(LAMBDA i : out[i][j], {i \in 0 .. m : i % 2 = parity}) = 0

SameInside(m, n, out, in) == \A i \in 0 .. m - 2, j \in 0 .. n - 2 : out[i][j] = in[i][j]
=============================================================================
