----------------------------- MODULE AmgDriver -----------------------------
(***************************************************************************)
(* amgcl.starter/src: programs that read a sparse matrix, make up a right- *)
(* hand side for it and hand both to an algebraic multigrid solver, as     *)
(* numbers or as blocks of numbers, and perhaps reordered.                 *)
(*                                                                         *)
(* The solver is external: it finds the solution, modulo a prime.  A       *)
(* matrix is [rows, ptr, col, val] with the source's indices, from 0.      *)
(***************************************************************************)
EXTENDS Integers, Sequences, FiniteSets, SequencesExt, TLC

CONSTANT p

Sum(s) == FoldLeft(LAMBDA sum, v : (sum + v) % p, 0, s)

\* Places of the i-th row in col and val.
RowOf(A, i) == [k \in 1 .. A.ptr[i + 1] - A.ptr[i] |-> A.ptr[i] + k]

\* The right-hand side whose solution is 1.
RightHandSide(A) == [i \in 1 .. A.rows |-> LET row == RowOf(A, i) IN Sum([k \in DOMAIN row |-> A.val[row[k]]])]

Entry(A, i, j) == LET row == RowOf(A, i) IN Sum([k \in DOMAIN row |-> IF A.col[row[k]] = j - 1 THEN A.val[row[k]] ELSE 0])

Dense(A) == [i \in 1 .. A.rows |-> [j \in 1 .. A.rows |-> Entry(A, i, j)]]

Product(M, x) == [i \in DOMAIN M |-> Sum([j \in DOMAIN x |-> M[i][j] * x[j]])]

Regular(M) == \A x \in [DOMAIN M -> 0 .. p - 1] : (\E i \in DOMAIN x : x[i] # 0) => \E i \in DOMAIN M : Product(M, x)[i] # 0

Solution(M, f) == CHOOSE x \in [DOMAIN M -> 0 .. p - 1] : Product(M, x) = f

-----------------------------------------------------------------------------
\* adapter::reorder for the permutation perm of unknowns.
Reordered(M, perm) == [i \in DOMAIN M |-> [j \in DOMAIN M |-> M[perm[i]][perm[j]]]]
forward(perm, x) == [i \in DOMAIN x |-> x[perm[i]]]

\* Mutation of inverse: the permutation is applied once more.
inverseForward(perm, x) == [i \in DOMAIN x |-> x[perm[i]]]

inverse(perm, x) == [i \in DOMAIN x |-> x[CHOOSE j \in DOMAIN x : perm[j] = i]]

Identity(n) == [i \in 1 .. n |-> i]

scalar_solve(A, rhs, reorder, perm) ==
  IF reorder THEN inverse(perm, Solution(Reordered(Dense(A), perm), forward(perm, rhs)))
  ELSE Solution(Dense(A), rhs)

\* A permutation of blocks, as one of unknowns.
Spread(B, perm) == [i \in 1 .. B * Len(perm) |-> B * (perm[1 + ((i - 1) \div B)] - 1) + 1 + ((i - 1) % B)]

\* The first rows \div B blocks; what is left over stays as it is in x.
block_solve(B, A, rhs, x, reorder, perm) ==
  LET n == B * (A.rows \div B)
      M == [i \in 1 .. n |-> [j \in 1 .. n |-> Entry(A, i, j)]]
      F == SubSeq(rhs, 1, n)
      X == IF reorder THEN inverse(Spread(B, perm), Solution(Reordered(M, Spread(B, perm)), forward(Spread(B, perm), F)))
           ELSE Solution(M, F)
  IN  X \o SubSeq(x, n + 1, A.rows)

AMGCL_BLOCK_SIZES == {3, 4, 6, 10}

\* precondition() throws for other sizes, and the adapter for a matrix that
\* the size does not divide: <<>>.
solve(A, rhs, block_size, reorder, perm) ==
  CASE block_size = 1 -> <<scalar_solve(A, rhs, reorder, perm)>>
    [] block_size \in AMGCL_BLOCK_SIZES /\ A.rows % block_size = 0 ->
         <<block_solve(block_size, A, rhs, [i \in 1 .. A.rows |-> 0], reorder, perm)>>
    [] OTHER -> <<>>

-----------------------------------------------------------------------------
(* main.                                                                   *)

Defaults == "solver.type" :> "cg" @@ "solver.tol" :> "1e-4" @@ "solver.maxiter" :> "5000" @@ "solver.verbose" :> "false"
            @@ "precond.coarsening.type" :> "smoothed_aggregation" @@ "precond.relax.type" :> "damped_jacobi"
            @@ "precond.allow_rebuild" :> "true"

\* Mutation of set_prm_defaults: what is there is replaced.
set_prm_defaultsOver(prm, defaults) == defaults @@ prm

set_prm_defaults(prm, defaults) == prm @@ defaults

\* -p name=value, from left to right.
Put(pairs) == FoldLeft(LAMBDA prm, v : v[1] :> v[2] @@ prm, <<>>, pairs)

Outcome(status, prm, x) == [status |-> status, prm |-> prm, x |-> x]

\* help, matrix and block_size are sequences: empty for an option not given.
\* Without a matrix the number of rows is never assigned.
main(args) ==
  CASE args.help -> Outcome("exit 0", <<>>, <<>>)
    [] ~args.help /\ args.matrix = <<>> -> Outcome("astray", <<>>, <<>>)
    [] OTHER ->
         LET A    == args.matrix[1]
             prm  == set_prm_defaults(Put(args.prm), Defaults)
             size == IF args.block_size = <<>> THEN 1 ELSE args.block_size[1]
             r    == solve(A, RightHandSide(A), size, FALSE, <<>>)
         IN  IF r = <<>> THEN Outcome("thrown", prm, <<>>) ELSE Outcome("exit 0", prm, r[1])

\* The test's main takes no parameters, and numbers when the block size is 1.
test_scalar_solve(A) == scalar_solve(A, RightHandSide(A), FALSE, <<>>)

-----------------------------------------------------------------------------
(* What the programs promise.                                              *)

\* The solution solves the system, whether by numbers or by blocks, in
\* whatever order.
Solves(A, rhs, r) == r # <<>> => Product(Dense(A), r[1]) = rhs

\* Every parameter has a value, the last one the user gave if there is one;
\* the solution is 1 in every row.
Configured(args, r) ==
  /\ r.status = "exit 0" /\ ~args.help => r.x = [i \in 1 .. args.matrix[1].rows |-> 1]
  /\ ~args.help /\ args.matrix # <<>> =>
       /\ DOMAIN Defaults \subseteq DOMAIN r.prm
       /\ \A k \in DOMAIN r.prm :
            LET given == {i \in DOMAIN args.prm : args.prm[i][1] = k}
            IN  IF given = {} THEN r.prm[k] = Defaults[k]
                ELSE r.prm[k] = args.prm[CHOOSE i \in given : \A j \in given : j <= i][2]
=============================================================================
