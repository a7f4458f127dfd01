--------------------------- MODULE BartelsStewart ---------------------------
(***************************************************************************)
(* The solution of A X + X B = -C by chebyshev_pseudospectral/src/         *)
(* BartelsStewart.cpp, once A and B have been brought to Schur form: the   *)
(* order in which the blocks of the transformed equation are solved, the   *)
(* small systems of the blocks, and the transformations there and back.    *)
(*                                                                         *)
(* The reals are replaced by the integers modulo a prime p: no rounding,   *)
(* and the same laws of addition and multiplication.                       *)
(***************************************************************************)
EXTENDS Integers, FiniteSetsExt, SequencesExt

CONSTANT p   \* a prime

F(x) == x % p
Field == 0 .. p - 1

\* The sum of f(k) over k in S.
Total(f(_), S) == F(MapThenSumSet(f, S))

Matrix(m, n, f(_, _)) == [i \in 0 .. m |-> [j \in 0 .. n |-> F(f(i, j))]]
Times(m, k, n, x, y)  == Matrix(m, n, LAMBDA i, j : Total(LAMBDA l : x[i][l] * y[l][j], 0 .. k))
Transpose(m, n, x)    == Matrix(n, m, LAMBDA i, j : x[j][i])

-----------------------------------------------------------------------------
\* Eigen's lu().solve(): the solution, if there is exactly one.
Solutions(tt, pp) ==
  {x \in [DOMAIN pp -> Field] :
     \A r \in DOMAIN pp : Total(LAMBDA s : tt[r][s] * x[s], DOMAIN pp) = pp[r]}
Singular(tt) == Cardinality(Solutions(tt, [r \in DOMAIN tt |-> 0])) > 1

\* The diagonal blocks <<first, last>>, from index 0 to n, where Joined(k)
\* tells that k and k + 1 are in one.
DiagonalBlocks(n, Joined(_)) ==
  LET from[k \in 0 .. n + 1] ==
        IF k > n THEN <<>>
        ELSE LET last == IF k # n /\ Joined(k) THEN k + 1 ELSE k
             IN  <<<<k, last>>>> \o from[last + 1]
  IN  from[0]

RowBlocks(m, a)    == DiagonalBlocks(m, LAMBDA k : a[k][k + 1] # 0)
ColumnBlocks(n, b) == DiagonalBlocks(n, LAMBDA l : b[l + 1][l] # 0)

\* The unknowns of rows k .. kk and columns l .. ll, in the order of pp.
Unknowns(rows, cols) ==
  LET k == rows[1]  kk == rows[2]  l == cols[1]  ll == cols[2]
  IN  CASE k < kk /\ l < ll -> <<<<k, l>>, <<kk, l>>, <<k, ll>>, <<kk, ll>>>>
        [] k < kk /\ l = ll -> <<<<k, l>>, <<kk, l>>>>
        [] k = kk /\ l < ll -> <<<<k, l>>, <<k, ll>>>>
        [] OTHER            -> <<<<k, l>>>>

\* The coefficients of these unknowns.
System(a, b, rows, cols) ==
  LET k == rows[1]  kk == rows[2]  l == cols[1]  ll == cols[2]
  IN  CASE k < kk /\ l < ll ->
             << <<a[k][k] + b[l][l], a[k][kk],             b[ll][l],             0>>,
                <<a[kk][k],          a[kk][kk] + b[l][l],  0,                    b[ll][l]>>,
                <<b[l][ll],          0,                    a[k][k] + b[ll][ll],  a[k][kk]>>,
                <<0,                 b[l][ll],             a[kk][k],             a[kk][kk] + b[ll][ll]>> >>
        [] k < kk /\ l = ll -> << <<a[k][k] + b[l][l], a[k][kk]>>, <<a[kk][k], a[kk][kk] + b[l][l]>> >>
        [] k = kk /\ l < ll -> << <<a[k][k] + b[l][l], b[ll][l]>>, <<b[l][ll], a[k][k] + b[ll][ll]>> >>
        [] OTHER            -> << <<F(a[k][k] + b[l][l])>> >>

\* c after the subtraction of what the columns before, or the rows before,
\* contribute.
LessColumns(m, n, b, c, cols) ==
  Matrix(m, n, LAMBDA i, j : IF j \in cols[1] .. cols[2]
                             THEN c[i][j] - Total(LAMBDA ib : c[i][ib] * b[ib][j], 0 .. cols[1] - 1)
                             ELSE c[i][j])

\* Mutation of LessRows: only the first column of the block is reduced.
LessRowsFirst(m, n, a, c, rows, cols) ==
  Matrix(m, n, LAMBDA i, j : IF i \in rows[1] .. rows[2] /\ j = cols[1]
                             THEN c[i][j] - Total(LAMBDA ja : a[i][ja] * c[ja][j], 0 .. rows[1] - 1)
                             ELSE c[i][j])

LessRows(m, n, a, c, rows, cols) ==
  Matrix(m, n, LAMBDA i, j : IF i \in rows[1] .. rows[2] /\ j \in cols[1] .. cols[2]
                             THEN c[i][j] - Total(LAMBDA ja : a[i][ja] * c[ja][j], 0 .. rows[1] - 1)
                             ELSE c[i][j])

\* The block's solution takes the place of its right-hand side.
SolveBlock(m, n, a, b, c, rows, cols) ==
  LET at == Unknowns(rows, cols)
      pp == CHOOSE x \in Solutions(System(a, b, rows, cols), [r \in DOMAIN at |-> c[at[r][1]][at[r][2]]]) : TRUE
  IN  Matrix(m, n, LAMBDA i, j : IF \E r \in DOMAIN at : at[r] = <<i, j>>
                                 THEN pp[CHOOSE r \in DOMAIN at : at[r] = <<i, j>>]
                                 ELSE c[i][j])

\* One round of the outer loop.
SolveColumns(m, n, a, b, c, cols) ==
  FoldLeft(LAMBDA d, rows : SolveBlock(m, n, a, b, LessRows(m, n, a, d, rows, cols), rows, cols),
           LessColumns(m, n, b, c, cols), RowBlocks(m, a))

Systems(m, n, a, b) ==
  {System(a, b, rows, cols) : rows \in ToSet(RowBlocks(m, a)), cols \in ToSet(ColumnBlocks(n, b))}

\* A single equation without a solution throws; a larger singular system is
\* solved to numbers that mean nothing.
Throws(m, n, a, b)  == <<<<0>>>> \in Systems(m, n, a, b)
Garbles(m, n, a, b) == \E tt \in Systems(m, n, a, b) : Singular(tt)

shrslv(m, n, a, b, c) ==
  FoldLeft(LAMBDA d, cols : SolveColumns(m, n, a, b, d, cols), c, ColumnBlocks(n, b))

bs_solve(m, n, a, b, u, v, c) ==
  LET minus == Matrix(m, n, LAMBDA i, j : -Total(LAMBDA k : u[k][i] * c[k][j], 0 .. m))
      right == Times(m, n, n, minus, v)
      rslt  == shrslv(m, n, a, b, right)
  IN  Times(m, n, n, Times(m, m, n, u, rslt), Transpose(n, n, v))

\* The overload for one matrix, whose transpose acts from the left.
bs_solve_one(m, a, u, c) == bs_solve(m, m, Transpose(m, m, a), a, u, u, c)

-----------------------------------------------------------------------------
\* x solves a x + x b = c.
Solves(m, n, a, b, c, x) ==
  \A i \in 0 .. m, j \in 0 .. n :
    F(Times(m, m, n, a, x)[i][j] + Times(m, n, n, x, b)[i][j]) = F(c[i][j])

\* The matrix whose Schur form is s, by the transformation u.
Restored(m, s, u) == Times(m, m, m, Times(m, m, m, u, s), Transpose(m, m, u))
=============================================================================
