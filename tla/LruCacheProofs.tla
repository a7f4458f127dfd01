--------------------------- MODULE LruCacheProofs ---------------------------
(***************************************************************************)
(* The replacement policy of module LruCache for every number of sets and  *)
(* ways.  The argument is a simulation: the bit matrix always is the       *)
(* strict order of the times of the last hits, so its rows of zeros are    *)
(* the minimal elements of that order, which exist because time is well-   *)
(* founded.                                                                *)
(*                                                                         *)
(* After it the bit operations beside the cache, for every word: each      *)
(* computes what its name says.  And the mesh, whose map is a search tree  *)
(* under a comparison that is no order: a search is followed by the        *)
(* entries it went between, for any shape of the tree.                     *)
(***************************************************************************)
EXTENDS LruCache, BitOps, TriMesh, SequenceTheorems, FiniteSetTheorems, WellFoundedInduction, TLAPS

(* The times of the hits lie in the past.                                  *)
UsedBefore == \A s \in Sets : \A w \in Ways : used[s][w] <= now

IInv == TypeOK /\ UsedBefore /\ MatrixIsRecency /\ UniqueTags

-----------------------------------------------------------------------------
(* A non-empty set of numbers has a smallest element.                      *)
LEMMA SmallestElement ==
  ASSUME NEW S \in SUBSET Nat, S # {}
  PROVE  \E w \in S : \A v \in S : w <= v
<1> DEFINE R == {ss \in Nat \X Nat : ss[1] < ss[2]}
<1>1. IsWellFoundedOn(R, Nat)
  BY NatLessThanWellFounded, Zenon DEF OpToRel
<1>2. PICK w \in S : \A v \in S : ~ (<<v, w>> \in R)
  <2> HIDE DEF R
  <2> QED
    BY <1>1, WFMin
<1>3. \A v \in S : ~ (v < w)
  BY <1>2
<1> QED
  BY <1>3

(* A non-empty set of ways has a first one.                                *)
LEMMA FirstProperties ==
  ASSUME NEW S \in SUBSET Ways, S # {}
  PROVE  First(S) \in S /\ \A v \in S : First(S) <= v
<1>1. S \in SUBSET Nat
  BY ShapeAssumption DEF Ways
<1>2. \E w \in S : \A v \in S : w <= v
  BY <1>1, SmallestElement
<1> QED
  BY <1>2 DEF First

(* Some way was hit no later than any other.                               *)
LEMMA OldestExists ==
  ASSUME NEW u \in [Ways -> Nat]
  PROVE  \E w \in Ways : \A v \in Ways : u[w] <= u[v]
<1> DEFINE Times == {u[w] : w \in Ways}
<1>1. Times \in SUBSET Nat /\ u[0] \in Times
  BY ShapeAssumption DEF Ways
<1>2. PICK t \in Times : \A r \in Times : t <= r
  <2> HIDE DEF Times
  <2> QED
    BY <1>1, SmallestElement
<1> QED
  BY <1>2

LEMMA TagAndIndexTypes ==
  ASSUME NEW addr \in Addrs
  PROVE  Tag(addr) \in 0 .. NTags - 1 /\ Index(addr) \in Sets
<1>1. addr \in Nat /\ addr \div PageSize \in Nat
  BY ShapeAssumption
<1>2. (addr \div PageSize) % NTags \in 0 .. NTags - 1
  BY <1>1, ShapeAssumption
<1>3. addr % NSets \in 0 .. NSets - 1
  BY <1>1, ShapeAssumption
<1> QED
  BY <1>2, <1>3, ShapeAssumption DEF Tag, Index, Sets

(* get_lru() returns a way.                                                *)
LEMMA GetLruType ==
  ASSUME NEW m
  PROVE  GetLru(m) \in Ways
<1>1. 0 \in Ways
  BY ShapeAssumption DEF Ways
<1>2. ZeroRows(m) \in SUBSET Ways
  BY DEF ZeroRows
<1>3. CASE ZeroRows(m) = {}
  BY <1>1, <1>3 DEF GetLru
<1>4. CASE ZeroRows(m) # {}
  BY <1>2, <1>4, FirstProperties DEF GetLru
<1> QED
  BY <1>3, <1>4

(* Where the matrix is the recency order, its zero rows are the ways hit   *)
(* least recently, there is one, and get_lru() is among them.              *)
LEMMA GetLruIsOldest ==
  ASSUME NEW m \in [Ways -> [Ways -> BOOLEAN]], NEW u \in [Ways -> Nat],
         \A i, j \in Ways : m[i][j] <=> u[j] < u[i]
  PROVE  /\ ZeroRows(m) # {}
         /\ \A w \in Ways : u[GetLru(m)] <= u[w]
<1>1. ZeroRows(m) = {w \in Ways : \A v \in Ways : u[w] <= u[v]}
  BY DEF ZeroRows
<1>2. ZeroRows(m) # {}
  BY <1>1, OldestExists
<1>3. GetLru(m) \in ZeroRows(m)
  BY <1>2, FirstProperties DEF GetLru, ZeroRows
<1> QED
  BY <1>1, <1>2, <1>3

-----------------------------------------------------------------------------
(* A hit at a time later than every earlier one keeps the matrix the       *)
(* recency order: set_mru() makes the way newer than all others.           *)
IsRecency(m, u)  == \A i, j \in Ways : m[i][j] <=> u[j] < u[i]
IsPast(u, t)     == \A v \in Ways : u[v] <= t
HitAfter(u, w, t) == [u EXCEPT ![w] = t + 1]

LEMMA SetMruRecency ==
  ASSUME NEW m \in [Ways -> [Ways -> BOOLEAN]], NEW u \in [Ways -> Nat],
         NEW w \in Ways, NEW t \in Nat,
         IsRecency(m, u), IsPast(u, t)
  PROVE  /\ SetMru(m, w) \in [Ways -> [Ways -> BOOLEAN]]
         /\ IsRecency(SetMru(m, w), HitAfter(u, w, t))
<1> DEFINE n == SetMru(m, w)
           r == HitAfter(u, w, t)
<1> USE DEF IsRecency, IsPast, HitAfter
<1>1. n \in [Ways -> [Ways -> BOOLEAN]]
  BY DEF SetMru
<1>2. ASSUME NEW i \in Ways, NEW j \in Ways
      PROVE  n[i][j] <=> r[j] < r[i]
  <2>1. n[i][j] <=> j # w /\ (i = w \/ m[i][j])
    BY DEF SetMru
  <2>2. CASE i = w /\ j = w
    BY <2>1, <2>2
  <2>3. CASE i = w /\ j # w
    BY <2>1, <2>3
  <2>4. CASE i # w /\ j = w
    BY <2>1, <2>4
  <2>5. CASE i # w /\ j # w
    BY <2>1, <2>5
  <2> QED
    BY <2>2, <2>3, <2>4, <2>5
<1> QED
  BY <1>1, <1>2

(* The first way that holds an address is a way.                           *)
LEMMA FirstHitType ==
  ASSUME NEW s, NEW addr, Hits(s, addr) # {}
  PROVE  First(Hits(s, addr)) \in Ways
<1>1. Hits(s, addr) \in SUBSET Ways
  BY DEF Hits
<1> QED
  BY <1>1, FirstProperties

(* What the invariant says of the lines, the matrices and the times.       *)
StateTypeOK == /\ line \in [Sets -> [Ways -> Lines]]
               /\ lru \in [Sets -> [Ways -> [Ways -> BOOLEAN]]]
               /\ used \in [Sets -> [Ways -> Nat]]
               /\ now \in 0 .. MaxTouches

StateInv == StateTypeOK /\ UsedBefore /\ MatrixIsRecency /\ UniqueTags

(* A hit preserves the invariant.                                          *)
LEMMA TouchPreserves ==
  ASSUME StateInv, NEW s \in Sets, NEW w \in Ways, Touch(s, w)
  PROVE  StateInv'
<1> USE DEF StateInv, StateTypeOK
<1>1. /\ lru' = [lru EXCEPT ![s] = SetMru(lru[s], w)]
      /\ used' = [used EXCEPT ![s] = [used[s] EXCEPT ![w] = now + 1]]
      /\ now' = now + 1 /\ now' \in 0 .. MaxTouches
      /\ line' = line
  BY ShapeAssumption DEF Touch
<1>2. /\ SetMru(lru[s], w) \in [Ways -> [Ways -> BOOLEAN]]
      /\ \A i, j \in Ways : SetMru(lru[s], w)[i][j]
           <=> [used[s] EXCEPT ![w] = now + 1][j] < [used[s] EXCEPT ![w] = now + 1][i]
  <2>1. /\ lru[s] \in [Ways -> [Ways -> BOOLEAN]]
        /\ used[s] \in [Ways -> Nat]
        /\ now \in Nat
    OBVIOUS
  <2>2. /\ \A i, j \in Ways : lru[s][i][j] <=> used[s][j] < used[s][i]
        /\ \A v \in Ways : used[s][v] <= now
    BY DEF MatrixIsRecency, UsedBefore
  <2>3. PICK m \in [Ways -> [Ways -> BOOLEAN]] : m = lru[s]
    BY <2>1
  <2>4. PICK u \in [Ways -> Nat] : u = used[s]
    BY <2>1
  <2>5. PICK t \in Nat : t = now
    BY <2>1
  <2>6. IsRecency(m, u) /\ IsPast(u, t)
    BY <2>2, <2>3, <2>4, <2>5 DEF IsRecency, IsPast
  <2>7. /\ SetMru(m, w) \in [Ways -> [Ways -> BOOLEAN]]
        /\ IsRecency(SetMru(m, w), HitAfter(u, w, t))
    <3> HIDE DEF StateInv, StateTypeOK
    <3> QED
      BY <2>6, SetMruRecency
  <2> QED
    BY <2>3, <2>4, <2>5, <2>7 DEF IsRecency, HitAfter
<1>3. StateTypeOK'
  BY <1>1, <1>2
<1>4. UsedBefore'
  BY <1>1 DEF UsedBefore
<1>5. MatrixIsRecency'
  <2> SUFFICES ASSUME NEW q \in Sets, NEW i \in Ways, NEW j \in Ways
               PROVE  lru'[q][i][j] <=> used'[q][j] < used'[q][i]
    BY DEF MatrixIsRecency
  <2>1. CASE q = s
    BY <1>1, <1>2, <2>1
  <2>2. CASE q # s
    BY <1>1, <2>2 DEF MatrixIsRecency
  <2> QED
    BY <2>1, <2>2
<1>6. UniqueTags'
  BY <1>1 DEF UniqueTags
<1> QED
  BY <1>3, <1>4, <1>5, <1>6

(* So does the replacement of a line by one that is invalid, or whose tag  *)
(* no line of the set has.                                                 *)
LEMMA ReplacePreserves ==
  ASSUME StateInv, NEW s \in Sets, NEW w \in Ways, NEW newLine \in Lines,
         newLine.valid => \A v \in Ways : ~(line[s][v].valid /\ line[s][v].tag = newLine.tag),
         Replace(s, w, newLine)
  PROVE  StateInv'
<1> USE DEF StateInv, StateTypeOK
<1>1. /\ line' = [line EXCEPT ![s][w] = newLine]
      /\ lru' = lru /\ used' = used /\ now' = now
  BY DEF Replace
<1>2. StateTypeOK' /\ UsedBefore' /\ MatrixIsRecency'
  BY <1>1 DEF UsedBefore, MatrixIsRecency
<1>3. UniqueTags'
  <2> SUFFICES ASSUME NEW q \in Sets, NEW v \in Ways, NEW x \in Ways,
                      line'[q][v].valid, line'[q][x].valid,
                      line'[q][v].tag = line'[q][x].tag
               PROVE  v = x
    BY DEF UniqueTags
  <2>1. \A y \in Ways : line'[q][y] = IF q = s /\ y = w THEN newLine ELSE line[q][y]
    BY <1>1
  <2>2. CASE q = s /\ v = w /\ x # w
    BY <2>1, <2>2
  <2>3. CASE q = s /\ x = w /\ v # w
    BY <2>1, <2>3
  <2>4. CASE q # s \/ (v # w /\ x # w)
    BY <2>1, <2>4 DEF UniqueTags
  <2> QED
    BY <2>2, <2>3, <2>4
<1> QED
  BY <1>2, <1>3

-----------------------------------------------------------------------------
LEMMA InitIInv == Init => IInv
<1> SUFFICES ASSUME Init
             PROVE  IInv
  OBVIOUS
<1>1. [valid |-> FALSE, tag |-> 0] \in Lines
  BY ShapeAssumption DEF Lines
<1>2. TypeOK
  BY <1>1, ShapeAssumption DEF Init, TypeOK
<1>3. UsedBefore /\ MatrixIsRecency
  BY DEF Init, UsedBefore, MatrixIsRecency
<1>4. UniqueTags
  BY DEF Init, UniqueTags
<1> QED
  BY <1>2, <1>3, <1>4 DEF IInv

(* The line that fill() writes is new to its set.                          *)
LEMMA FillPreserves ==
  ASSUME StateInv, NEW addr \in Addrs, FillMiss(addr)
  PROVE  StateInv'
<1>1. Index(addr) \in Sets /\ [valid |-> TRUE, tag |-> Tag(addr)] \in Lines
  BY TagAndIndexTypes DEF Lines
<1>2. PICK s \in Sets : s = Index(addr)
  BY <1>1
<1>3. PICK new \in Lines : new = [valid |-> TRUE, tag |-> Tag(addr)]
  BY <1>1
<1>4. PICK w \in Ways : w = GetLru(lru[s])
  BY GetLruType
<1>5. Replace(s, w, new) /\ Hits(s, addr) = {}
  BY <1>2, <1>3, <1>4 DEF FillMiss
<1>6. \A v \in Ways : ~(line[s][v].valid /\ line[s][v].tag = new.tag)
  BY <1>3, <1>5 DEF Hits
<1> QED
  BY <1>5, <1>6, ReplacePreserves

(* A lookup that misses only invalidates a line.                           *)
LEMMA MissPreserves ==
  ASSUME StateInv, NEW addr \in Addrs, LookupMiss(addr)
  PROVE  StateInv'
<1>1. PICK s \in Sets : s = Index(addr)
  BY TagAndIndexTypes
<1>2. PICK w \in Ways : w = GetLru(lru[s])
  BY GetLruType
<1>3. PICK new : new = [line[s][w] EXCEPT !.valid = FALSE]
  OBVIOUS
<1>4. new \in Lines /\ ~new.valid
  <2>1. PICK old \in Lines : old = line[s][w]
    BY DEF StateInv, StateTypeOK
  <2>2. new = [valid |-> FALSE, tag |-> old.tag]
    BY <1>3, <2>1 DEF Lines
  <2> QED
    BY <2>1, <2>2 DEF Lines
<1>5. Replace(s, w, new)
  BY <1>1, <1>2, <1>3 DEF LookupMiss
<1> QED
  BY <1>4, <1>5, ReplacePreserves

(* As does the caller's evict().                                           *)
LEMMA EvictPreserves ==
  ASSUME StateInv, NEW s \in Sets, NEW w \in Ways, Evict(s, w)
  PROVE  StateInv'
<1>1. PICK new : new = [line[s][w] EXCEPT !.valid = FALSE]
  OBVIOUS
<1>2. new \in Lines /\ ~new.valid
  <2>1. PICK old \in Lines : old = line[s][w]
    BY DEF StateInv, StateTypeOK
  <2>2. new = [valid |-> FALSE, tag |-> old.tag]
    BY <1>1, <2>1 DEF Lines
  <2> QED
    BY <2>1, <2>2 DEF Lines
<1>3. Replace(s, w, new)
  BY <1>1 DEF Evict, Replace, StateInv, StateTypeOK
<1> QED
  BY <1>2, <1>3, ReplacePreserves

LEMMA NextIInv == IInv /\ [Next]_vars => IInv'
<1> SUFFICES ASSUME IInv, [Next]_vars
             PROVE  IInv'
  OBVIOUS
<1>1. StateInv
  BY ShapeAssumption DEF IInv, TypeOK, StateInv, StateTypeOK
<1>2. ASSUME NEW addr \in Addrs, LookupHit(addr)
      PROVE  StateInv'
  <2>1. /\ Index(addr) \in Sets
        /\ First(Hits(Index(addr), addr)) \in Ways
        /\ Touch(Index(addr), First(Hits(Index(addr), addr)))
    BY <1>2, TagAndIndexTypes, FirstHitType DEF LookupHit
  <2> QED
    BY <1>1, <2>1, TouchPreserves
<1>3. ASSUME NEW addr \in Addrs, FillHit(addr)
      PROVE  StateInv'
  <2>1. /\ Index(addr) \in Sets
        /\ First(Hits(Index(addr), addr)) \in Ways
        /\ Touch(Index(addr), First(Hits(Index(addr), addr)))
    BY <1>3, TagAndIndexTypes, FirstHitType DEF FillHit
  <2> QED
    BY <1>1, <2>1, TouchPreserves
<1>4. ASSUME UNCHANGED vars
      PROVE  StateInv'
  BY <1>1, <1>4 DEF vars, StateInv, StateTypeOK, UsedBefore, MatrixIsRecency, UniqueTags
<1>5. StateInv'
  BY <1>1, <1>2, <1>3, <1>4, MissPreserves, FillPreserves, EvictPreserves DEF Next
<1>6. way' \in Ways /\ set' \in Sets /\ hit' \in {"none", "hit", "miss", "filled", "evicted"}
  <2>1. way \in Ways /\ set \in Sets /\ hit \in {"none", "hit", "miss", "filled", "evicted"}
    BY DEF IInv, TypeOK
  <2>2. ASSUME NEW addr \in Addrs, LookupHit(addr) \/ LookupMiss(addr)
        PROVE  way' = way /\ set' \in Sets /\ hit' \in {"hit", "miss"}
    BY <2>2, TagAndIndexTypes DEF LookupHit, LookupMiss
  <2>3. ASSUME NEW addr \in Addrs, FillHit(addr) \/ FillMiss(addr)
        PROVE  way' = way /\ set' = set /\ hit' = "filled"
    BY <2>3 DEF FillHit, FillMiss
  <2>4. ASSUME NEW s \in Sets, NEW w \in Ways, Evict(s, w)
        PROVE  way' = way /\ set' = set /\ hit' = "evicted"
    BY <2>4 DEF Evict
  <2> QED
    BY <2>1, <2>2, <2>3, <2>4 DEF Next, vars
<1> QED
  BY <1>5, <1>6 DEF IInv, TypeOK, StateInv, StateTypeOK

-----------------------------------------------------------------------------
(* The invariant of the whole cache, for any shape and any addresses.      *)
THEOREM InductiveInvariant == Spec => []IInv
BY InitIInv, NextIInv, PTL DEF Spec

(* set_mru() keeps the bit matrix the order of the last hits.              *)
THEOREM MatrixIsRecencyHolds == Spec => []MatrixIsRecency
<1>1. IInv => MatrixIsRecency
  BY DEF IInv
<1> QED
  BY <1>1, InductiveInvariant, PTL

(* fill() never puts a page into a set that already has it.                *)
THEOREM UniqueTagsHolds == Spec => []UniqueTags
<1>1. IInv => UniqueTags
  BY DEF IInv
<1> QED
  BY <1>1, InductiveInvariant, PTL

(* get_lru() finds a row of zeros, and it is the row of a way that no other*)
(* way was hit before.                                                     *)
VictimIsLru ==
  \A s \in Sets : /\ ZeroRows(lru[s]) # {}
                  /\ \A w \in Ways : used[s][GetLru(lru[s])] <= used[s][w]

LEMMA IInvVictim == IInv => VictimIsLru
<1> SUFFICES ASSUME IInv, NEW s \in Sets
             PROVE  /\ ZeroRows(lru[s]) # {}
                    /\ \A w \in Ways : used[s][GetLru(lru[s])] <= used[s][w]
  BY DEF VictimIsLru
<1>1. PICK m, u : m = lru[s] /\ u = used[s]
  OBVIOUS
<1>2. /\ m \in [Ways -> [Ways -> BOOLEAN]] /\ u \in [Ways -> Nat]
      /\ \A i, j \in Ways : m[i][j] <=> u[j] < u[i]
  BY <1>1 DEF IInv, TypeOK, MatrixIsRecency
<1>3. ZeroRows(m) # {} /\ \A w \in Ways : u[GetLru(m)] <= u[w]
  BY <1>2, GetLruIsOldest
<1> QED
  BY <1>1, <1>3

(* get_lru() always finds a way that no other way was hit before; the      *)
(* return at its end, for a matrix without a zero row, is never reached.   *)
THEOREM VictimIsLruHolds == Spec => []VictimIsLru
BY InductiveInvariant, IInvVictim, PTL

(* A lookup or a fill takes a page only from a least recently hit way.     *)
THEOREM OnlyLruIsLostHolds == Spec => OnlyLruIsLost
<1> DEFINE A == \A s \in Sets, w \in Ways :
                  line[s][w].valid /\ line'[s][w] # line[s][w] /\ hit' # "evicted"
                    => \A v \in Ways : used[s][w] <= used[s][v]
<1>1. IInv /\ [Next]_vars => [A]_vars
  <2> SUFFICES ASSUME IInv, Next, NEW s \in Sets, NEW w \in Ways,
                      line[s][w].valid, line'[s][w] # line[s][w], hit' # "evicted",
                      NEW v \in Ways
               PROVE  used[s][w] <= used[s][v]
    OBVIOUS
  <2>1. line \in [Sets -> [Ways -> Lines]]
    BY DEF IInv, TypeOK
  <2>2. PICK addr \in Addrs : LookupMiss(addr) \/ FillMiss(addr)
    BY DEF Next, LookupHit, FillHit, Touch, Evict
  <2>3. \E new : Replace(Index(addr), GetLru(lru[Index(addr)]), new)
    BY <2>2 DEF LookupMiss, FillMiss
  <2>4. s = Index(addr) /\ w = GetLru(lru[s])
    BY <2>1, <2>3 DEF Replace
  <2> QED
    BY <2>4, IInvVictim DEF VictimIsLru
<1> QED
  BY <1>1, InductiveInvariant, PTL DEF Spec, OnlyLruIsLost

-----------------------------------------------------------------------------
(* A way that was never hit can be full only while it is the next victim.  *)

LEMMA FirstIs ==
  ASSUME NEW S \in SUBSET Ways, NEW w \in S, \A v \in S : w <= v
  PROVE  First(S) = w
<1>1. First(S) \in S /\ First(S) <= w
  BY FirstProperties
<1>2. w <= First(S)
  BY <1>1
<1>3. First(S) \in Int /\ w \in Int
  <2>1. Ways \subseteq Int
    BY ShapeAssumption DEF Ways
  <2> QED
    BY <1>1, <2>1
<1> QED
  BY <1>1, <1>2, <1>3

(* As long as some way was never hit, get_lru() returns the first of those *)
(* that were not.                                                          *)
LEMMA UnhitVictim ==
  ASSUME NEW m \in [Ways -> [Ways -> BOOLEAN]], NEW u \in [Ways -> Nat],
         IsRecency(m, u), NEW w \in Ways, u[w] = 0
  PROVE  /\ ZeroRows(m) = {v \in Ways : u[v] = 0}
         /\ GetLru(m) = First(ZeroRows(m)) /\ GetLru(m) <= w
<1>1. ZeroRows(m) = {v \in Ways : \A x \in Ways : u[v] <= u[x]}
  BY DEF ZeroRows, IsRecency
<1>2. ZeroRows(m) = {v \in Ways : u[v] = 0}
  BY <1>1
<1>3. w \in ZeroRows(m)
  BY <1>2
<1>4. GetLru(m) = First(ZeroRows(m))
  BY <1>3 DEF GetLru
<1>5. ZeroRows(m) \in SUBSET Ways
  BY DEF ZeroRows
<1> QED
  BY <1>2, <1>3, <1>4, <1>5, FirstProperties

LEMMA NextUnhit == IInv /\ IInv' /\ OneUnhitPage /\ [Next]_vars => OneUnhitPage'
<1> SUFFICES ASSUME IInv, IInv', OneUnhitPage, [Next]_vars,
                    NEW s \in Sets, NEW w \in Ways, line'[s][w].valid, used'[s][w] = 0
             PROVE  w = GetLru(lru'[s])
  BY DEF OneUnhitPage
<1>1. /\ line \in [Sets -> [Ways -> Lines]] /\ lru \in [Sets -> [Ways -> [Ways -> BOOLEAN]]]
      /\ used \in [Sets -> [Ways -> Nat]] /\ now \in Nat
  BY ShapeAssumption DEF IInv, TypeOK
<1>2. line[s][w].valid /\ used[s][w] = 0 => w = GetLru(lru[s])
  BY DEF OneUnhitPage
<1>3. CASE UNCHANGED vars
  BY <1>2, <1>3 DEF vars
\* A hit of another way leaves the first way without a hit where it was.
<1>4. ASSUME NEW q \in Sets, NEW v \in Ways, Touch(q, v) PROVE w = GetLru(lru'[s])
  <2>1. /\ lru' = [lru EXCEPT ![q] = SetMru(@, v)] /\ line' = line
        /\ used' = [used EXCEPT ![q] = [used[q] EXCEPT ![v] = now + 1]]
    BY <1>4 DEF Touch
  <2>2. CASE q # s
    BY <1>1, <1>2, <2>1, <2>2
  <2>3. CASE q = s
    <3>1. PICK u : u = used[s]
      OBVIOUS
    <3>2. PICK r : r = used'[s]
      OBVIOUS
    <3>3. PICK m : m = lru[s]
      OBVIOUS
    <3>4. PICK n : n = lru'[s]
      OBVIOUS
    <3>5. u \in [Ways -> Nat] /\ m \in [Ways -> [Ways -> BOOLEAN]] /\ IsRecency(m, u)
      BY <1>1, <3>1, <3>3 DEF IInv, MatrixIsRecency, IsRecency
    <3>6. r \in [Ways -> Nat] /\ n \in [Ways -> [Ways -> BOOLEAN]] /\ IsRecency(n, r)
      BY <3>2, <3>4 DEF IInv, TypeOK, MatrixIsRecency, IsRecency
    <3>7. r = [u EXCEPT ![v] = now + 1] /\ r[w] = 0
      BY <1>1, <2>1, <2>3, <3>1, <3>2
    <3>8. w # v /\ u[w] = 0
      BY <1>1, <3>5, <3>7
    <3>9. w = GetLru(m)
      BY <1>2, <2>1, <3>1, <3>3, <3>8
    <3>10. /\ ZeroRows(m) = {x \in Ways : u[x] = 0} /\ GetLru(m) = First(ZeroRows(m))
           /\ ZeroRows(n) = {x \in Ways : r[x] = 0} /\ GetLru(n) = First(ZeroRows(n))
      BY <3>5, <3>6, <3>7, <3>8, UnhitVictim
    <3>11. ZeroRows(n) \subseteq ZeroRows(m) /\ w \in ZeroRows(n) /\ ZeroRows(n) \in SUBSET Ways
      BY <1>1, <3>5, <3>7, <3>10
    <3>12. \A x \in ZeroRows(n) : w <= x
      BY <3>9, <3>10, <3>11, FirstProperties DEF ZeroRows
    <3> QED
      BY <3>4, <3>10, <3>11, <3>12, FirstIs
  <2> QED
    BY <2>2, <2>3
\* A replacement writes to the victim only.
<1>5. ASSUME NEW q \in Sets, NEW new, Replace(q, GetLru(lru[q]), new) PROVE w = GetLru(lru'[s])
  <2>1. line' = [line EXCEPT ![q][GetLru(lru[q])] = new] /\ lru' = lru /\ used' = used
    BY <1>5 DEF Replace
  <2>2. (q = s /\ w = GetLru(lru[q])) \/ line'[s][w] = line[s][w]
    BY <1>1, <2>1
  <2> QED
    BY <1>2, <2>1, <2>2
<1>6. ASSUME NEW q \in Sets, NEW v \in Ways, Evict(q, v) PROVE w = GetLru(lru'[s])
  <2>1. line' = [line EXCEPT ![q][v].valid = FALSE] /\ lru' = lru /\ used' = used
    BY <1>6 DEF Evict
  <2>2. line[s][w].valid
    BY <1>1, <2>1 DEF Lines
  <2> QED
    BY <1>2, <2>1, <2>2
<1>7. ASSUME NEW addr \in Addrs, LookupHit(addr) \/ FillHit(addr) PROVE w = GetLru(lru'[s])
  BY <1>4, <1>7, TagAndIndexTypes, FirstHitType DEF LookupHit, FillHit
<1>8. ASSUME NEW addr \in Addrs, LookupMiss(addr) \/ FillMiss(addr) PROVE w = GetLru(lru'[s])
  BY <1>5, <1>8, TagAndIndexTypes DEF LookupMiss, FillMiss
<1> QED
  BY <1>3, <1>6, <1>7, <1>8 DEF Next

(* Pages filled one after the other displace each other: a set never holds *)
(* two that were not hit, and the one it holds is its next victim.         *)
THEOREM OneUnhitPageHolds == Spec => []OneUnhitPage
<1>1. Init => OneUnhitPage
  BY DEF Init, OneUnhitPage
<1>2. IInv /\ [Next]_vars => IInv'
  BY NextIInv
<1> QED
  BY <1>1, NextUnhit, InductiveInvariant, PTL DEF Spec

-----------------------------------------------------------------------------
(* The bit operations, for every word.                                     *)

\* A set with 0 and the successor of each of its numbers has them all.
LEMMA Induction ==
  ASSUME NEW S, 0 \in S, \A n \in Nat : n \in S => n + 1 \in S
  PROVE  Nat \subseteq S
<1> DEFINE T == Nat \ S
<1> SUFFICES ASSUME T # {} PROVE FALSE
  OBVIOUS
<1>1. PICK x \in T : \A y \in T : x <= y
  BY SmallestElement
<1>2. x # 0 /\ x - 1 \in Nat /\ x - 1 < x
  BY <1>1
<1>3. x - 1 \in S
  BY <1>1, <1>2
<1> QED
  BY <1>1, <1>2, <1>3

\* Where the bit at c comes from when neighbours of k bits are swapped.
Partner(c, k) == IF c % (2 * k) < k THEN c + k ELSE c - k

LEMMA PartnerFacts ==
  ASSUME NEW k \in {1, 2, 4}, NEW width \in {16, 32}, NEW c \in 0 .. width - 1
  PROVE  /\ Partner(c, k) \in 0 .. width - 1
         /\ c % (2 * k) < k => c + k \in 0 .. width - 1
         /\ c % (2 * k) >= k => c - k \in Nat /\ (c - k) % (2 * k) < k
         /\ c - k \in Nat /\ (c - k) % (2 * k) < k => c % (2 * k) >= k
<1>1. CASE k = 1
  BY <1>1 DEF Partner
<1>2. CASE k = 2
  BY <1>2 DEF Partner
<1>3. CASE k = 4
  BY <1>3 DEF Partner
<1> QED
  BY <1>1, <1>2, <1>3

LEMMA NeighboursSwapped ==
  ASSUME NEW k \in {1, 2, 4}, NEW width \in {16, 32}, NEW x \in SUBSET (0 .. width - 1)
  PROVE  /\ SwapNeighbours(x, k, width) \in SUBSET (0 .. width - 1)
         /\ \A c \in 0 .. width - 1 : c \in SwapNeighbours(x, k, width) <=> Partner(c, k) \in x
<1> DEFINE high == Shr(x, k) \cap EveryOther(k, width)
           low  == Shl(x \cap EveryOther(k, width), k, width)
<1>1. SwapNeighbours(x, k, width) = high \cup low
  BY DEF SwapNeighbours
<1>2. high \in SUBSET (0 .. width - 1) /\ low \in SUBSET (0 .. width - 1)
  BY DEF EveryOther, Shl
<1>3. \A c \in 0 .. width - 1 : c \in high <=> c % (2 * k) < k /\ c + k \in x
  <2> SUFFICES ASSUME NEW c \in 0 .. width - 1
               PROVE  c \in high <=> c % (2 * k) < k /\ c + k \in x
    OBVIOUS
  <2>1. c \in Shr(x, k) <=> c + k \in x
    BY DEF Shr
  <2>2. c \in EveryOther(k, width) <=> c % (2 * k) < k
    BY DEF EveryOther
  <2> QED
    BY <2>1, <2>2
<1>4. \A c \in 0 .. width - 1 : c \in low <=> c % (2 * k) >= k /\ c - k \in x
  <2> SUFFICES ASSUME NEW c \in 0 .. width - 1
               PROVE  c \in low <=> c % (2 * k) >= k /\ c - k \in x
    OBVIOUS
  <2>1. c \in low <=> c - k \in x /\ c - k \in EveryOther(k, width)
    BY DEF Shl, EveryOther
  <2>2. c - k \in x => (c - k \in EveryOther(k, width) <=> (c - k) % (2 * k) < k)
    BY DEF EveryOther
  <2>3. c - k \in x => c - k \in Nat
    OBVIOUS
  <2> QED
    BY <2>1, <2>2, <2>3, PartnerFacts
<1> HIDE DEF high, low
<1>5. \A c \in 0 .. width - 1 : c % (2 * k) < k <=> ~ (c % (2 * k) >= k)
  BY PartnerFacts
<1> QED
  BY <1>1, <1>2, <1>3, <1>4, <1>5 DEF Partner

LEMMA NibblesSwapped ==
  ASSUME NEW width \in {16, 32}, NEW x \in SUBSET (0 .. width - 1)
  PROVE  /\ Nibbles(x, width) \in SUBSET (0 .. width - 1)
         /\ \A c \in 0 .. width - 1 :
              c \in Nibbles(x, width) <=> Partner(Partner(Partner(c, 4), 2), 1) \in x
<1> DEFINE one == SwapNeighbours(x, 1, width)
           two == SwapNeighbours(one, 2, width)
<1>1. one \in SUBSET (0 .. width - 1) /\ \A c \in 0 .. width - 1 : c \in one <=> Partner(c, 1) \in x
  BY NeighboursSwapped
<1> HIDE DEF one
<1>2. two \in SUBSET (0 .. width - 1) /\ \A c \in 0 .. width - 1 : c \in two <=> Partner(c, 2) \in one
  BY <1>1, NeighboursSwapped
<1> HIDE DEF two
<1>3. /\ SwapNeighbours(two, 4, width) \in SUBSET (0 .. width - 1)
      /\ \A c \in 0 .. width - 1 : c \in SwapNeighbours(two, 4, width) <=> Partner(c, 4) \in two
  BY <1>2, NeighboursSwapped
<1>4. Nibbles(x, width) = SwapNeighbours(two, 4, width)
  BY DEF Nibbles, one, two
<1>5. \A c \in 0 .. width - 1 : \A k \in {1, 2, 4} : Partner(c, k) \in 0 .. width - 1
  BY PartnerFacts
<1> HIDE DEF Partner
<1> QED
  BY <1>1, <1>2, <1>3, <1>4, <1>5

(* bitrev(uint16_t) and bitrev(uint32_t) put the bit at b to 15 - b and    *)
(* to 31 - b, for every word.                                              *)
THEOREM BitsAreReversed ==
  /\ \A x \in SUBSET (0 .. 15) : bitrev16(x) = Reversed(x, 16)
  /\ \A x \in SUBSET (0 .. 31) : bitrev32(x) = Reversed(x, 32)
<1>1. ASSUME NEW x \in SUBSET (0 .. 15) PROVE bitrev16(x) = Reversed(x, 16)
  <2> DEFINE y == Nibbles(x, 16)
  <2>1. y \in SUBSET (0 .. 15) /\ \A c \in 0 .. 15 : c \in y <=> Partner(Partner(Partner(c, 4), 2), 1) \in x
    BY NibblesSwapped
  <2>2. bitrev16(x) = (Shr(y, 8) \cap (0 .. 7)) \cup Shl(y \cap (0 .. 7), 8, 16)
    BY DEF bitrev16
  <2> HIDE DEF y
  <2>3. ASSUME NEW c \in 0 .. 7
        PROVE  /\ Partner(Partner(Partner(c + 8, 4), 2), 1) = 15 - c
               /\ Partner(Partner(Partner(c, 4), 2), 1) = 15 - (c + 8)
    BY DEF Partner
  <2>4. ASSUME NEW c \in 0 .. 7 PROVE c \in bitrev16(x) <=> 15 - c \in x
    BY <2>1, <2>2, <2>3 DEF Shr, Shl
  <2>5. ASSUME NEW c \in 0 .. 7 PROVE c + 8 \in bitrev16(x) <=> 15 - (c + 8) \in x
    BY <2>1, <2>2, <2>3 DEF Shr, Shl
  <2>6. \A c \in 8 .. 15 : c - 8 \in 0 .. 7 /\ (c - 8) + 8 = c
    OBVIOUS
  <2>7. \A c \in 0 .. 15 : c \in bitrev16(x) <=> 15 - c \in x
    BY <2>4, <2>5, <2>6
  <2>8. bitrev16(x) \in SUBSET (0 .. 15)
    BY <2>2 DEF Shl
  <2> QED
    BY <2>7, <2>8 DEF Reversed
<1>2. ASSUME NEW x \in SUBSET (0 .. 31) PROVE bitrev32(x) = Reversed(x, 32)
  <2> DEFINE y == Nibbles(x, 32)
  <2>1. y \in SUBSET (0 .. 31) /\ \A c \in 0 .. 31 : c \in y <=> Partner(Partner(Partner(c, 4), 2), 1) \in x
    BY NibblesSwapped
  <2>2. bitrev32(x) = Shl(y, 24, 32) \cup Shl(y \cap (8 .. 15), 8, 32)
                              \cup (Shr(y, 8) \cap (8 .. 15)) \cup Shr(y, 24)
    BY DEF bitrev32
  <2> HIDE DEF y
  <2>3. ASSUME NEW c \in 0 .. 7
        PROVE  /\ Partner(Partner(Partner(c + 24, 4), 2), 1) = 31 - c
               /\ Partner(Partner(Partner(c + 16, 4), 2), 1) = 31 - (c + 8)
               /\ Partner(Partner(Partner(c + 8, 4), 2), 1) = 31 - (c + 16)
               /\ Partner(Partner(Partner(c, 4), 2), 1) = 31 - (c + 24)
    BY DEF Partner
  <2>4. \A c \in 0 .. 7 : /\ c \in bitrev32(x) <=> c + 24 \in y
                          /\ c + 8 \in bitrev32(x) <=> c + 16 \in y
                          /\ c + 16 \in bitrev32(x) <=> c + 8 \in y
                          /\ c + 24 \in bitrev32(x) <=> c \in y
    BY <2>1, <2>2 DEF Shr, Shl
  <2>5. \A c \in 0 .. 7 : /\ c \in bitrev32(x) <=> 31 - c \in x
                          /\ c + 8 \in bitrev32(x) <=> 31 - (c + 8) \in x
                          /\ c + 16 \in bitrev32(x) <=> 31 - (c + 16) \in x
                          /\ c + 24 \in bitrev32(x) <=> 31 - (c + 24) \in x
    BY <2>1, <2>3, <2>4
  <2>6. \A c \in 0 .. 31 : \E d \in 0 .. 7 : c \in {d, d + 8, d + 16, d + 24}
    <3> SUFFICES ASSUME NEW c \in 0 .. 31 PROVE \E d \in 0 .. 7 : c \in {d, d + 8, d + 16, d + 24}
      OBVIOUS
    <3>1. c \in 0 .. 7 \/ c - 8 \in 0 .. 7 \/ c - 16 \in 0 .. 7 \/ c - 24 \in 0 .. 7
      OBVIOUS
    <3> QED
      BY <3>1
  <2>7. \A c \in 0 .. 31 : c \in bitrev32(x) <=> 31 - c \in x
    BY <2>5, <2>6
  <2>8. bitrev32(x) \in SUBSET (0 .. 31)
    BY <2>1, <2>2 DEF Shl, Shr
  <2> QED
    BY <2>7, <2>8 DEF Reversed
<1> QED
  BY <1>1, <1>2

-----------------------------------------------------------------------------
LEMMA LeastOfOne == ASSUME NEW p \in Nat, NEW width \in Nat PROVE MinusOne({p}, width) = 0 .. p - 1
<1>1. Min({p}) = p
  BY DEF Min
<1> QED
  BY <1>1 DEF MinusOne

\* A word of one bit, below a bound, that has been moved down; s.n and its
\* place add up to the same number as long as nothing is lost.
OneBit(s, bound, sum) == \E n \in Nat, q \in Nat : s = [n |-> n, x |-> {q}] /\ q < bound /\ n + q = sum

LEMMA HalfDropped ==
  ASSUME NEW k \in {2, 4, 8, 16, 32}, NEW s, NEW sum \in Nat, OneBit(s, 2 * k, sum)
  PROVE  OneBit(DropHalf(s, k), k, sum)
<1>1. PICK n \in Nat, q \in Nat : s = [n |-> n, x |-> {q}] /\ q < 2 * k /\ n + q = sum
  BY DEF OneBit
<1>2. s.n = n /\ s.x = {q}
  BY <1>1
<1>3. CASE q < k
  <2>1. s.x \cap (0 .. k - 1) # {}
    BY <1>2, <1>3
  <2>2. DropHalf(s, k) = s
    BY <2>1 DEF DropHalf
  <2> QED
    BY <1>1, <1>3, <2>2 DEF OneBit
<1>4. CASE q >= k
  <2>1. s.x \cap (0 .. k - 1) = {}
    BY <1>2, <1>4
  <2>2. Shr(s.x, k) = {q - k}
    BY <1>2, <1>4 DEF Shr
  <2>3. DropHalf(s, k) = [n |-> n + k, x |-> {q - k}]
    BY <1>2, <2>1, <2>2 DEF DropHalf
  <2>4. n + k \in Nat /\ q - k \in Nat /\ q - k < k /\ (n + k) + (q - k) = sum
    BY <1>1, <1>4
  <2> QED
    BY <2>3, <2>4 DEF OneBit
<1> QED
  BY <1>3, <1>4

(* Log2 of a power of two is its exponent, for both widths.                *)
THEOREM LogarithmIsExact ==
  ASSUME NEW width \in {32, 64}, NEW p \in 0 .. width - 1
  PROVE  Log2({p}, width) = p
<1> DEFINE first == [n |-> 1, x |-> {p}]
           word  == IF width = 64 THEN DropHalf(first, 32) ELSE first
<1>1. 1 + p \in Nat /\ OneBit(first, width, 1 + p)
  <2>1. 1 \in Nat /\ p \in Nat /\ p < width /\ 1 + p \in Nat
    OBVIOUS
  <2>2. first = [n |-> 1, x |-> {p}]
    OBVIOUS
  <2> HIDE DEF first
  <2>3. \E n, q \in Nat : first = [n |-> n, x |-> {q}] /\ q < width /\ n + q = 1 + p
    BY <2>1, <2>2
  <2> QED
    BY <2>1, <2>3 DEF OneBit
<1> HIDE DEF first
<1>2. OneBit(word, 32, 1 + p)
  <2>1. CASE width = 64
    <3>1. OneBit(first, 2 * 32, 1 + p)
      BY <1>1, <2>1
    <3>2. OneBit(DropHalf(first, 32), 32, 1 + p)
      BY <1>1, <3>1, HalfDropped
    <3> QED
      BY <2>1, <3>2
  <2>2. CASE width # 64
    <3>1. width = 32
      BY <2>2
    <3> QED
      BY <1>1, <3>1
  <2> QED
    BY <2>1, <2>2
<1> HIDE DEF word
<1> DEFINE s == DropHalf(DropHalf(DropHalf(DropHalf(word, 16), 8), 4), 2)
<1>3. OneBit(s, 2, 1 + p)
  <2>1. 2 * 16 = 32 /\ 2 * 8 = 16 /\ 2 * 4 = 8 /\ 2 * 2 = 4
    OBVIOUS
  <2>2. \A t : OneBit(t, 32, 1 + p) => OneBit(DropHalf(t, 16), 16, 1 + p)
    BY <1>1, <2>1, HalfDropped
  <2>3. \A t : OneBit(t, 16, 1 + p) => OneBit(DropHalf(t, 8), 8, 1 + p)
    BY <1>1, <2>1, HalfDropped
  <2>4. \A t : OneBit(t, 8, 1 + p) => OneBit(DropHalf(t, 4), 4, 1 + p)
    BY <1>1, <2>1, HalfDropped
  <2>5. \A t : OneBit(t, 4, 1 + p) => OneBit(DropHalf(t, 2), 2, 1 + p)
    BY <1>1, <2>1, HalfDropped
  <2> QED
    BY <1>2, <2>2, <2>3, <2>4, <2>5
<1>6. {p} \cap MinusOne({p}, width) = {}
  <2>1. MinusOne({p}, width) = 0 .. p - 1
    BY LeastOfOne
  <2> QED
    BY <2>1
<1>7. Log2({p}, width) = IF 0 \in s.x THEN s.n - 1 ELSE s.n
  BY <1>6 DEF Log2, word, first
<1> HIDE DEF s
<1>8. PICK n \in Nat, q \in Nat : s = [n |-> n, x |-> {q}] /\ q < 2 /\ n + q = 1 + p
  BY <1>3 DEF OneBit
<1>9. s.n = n /\ s.x = {q}
  BY <1>8
<1> QED
  BY <1>7, <1>8, <1>9

(* A word with more than one bit is refused.                               *)
THEOREM OthersAreRefused ==
  ASSUME NEW width \in {32, 64}, NEW x \in SUBSET (0 .. width - 1), NEW p \in x, NEW q \in x, p < q
  PROVE  Log2(x, width) = "thrown"
<1>1. q # Min(x) /\ x # {}
  <2>1. x \subseteq Nat /\ x # {}
    OBVIOUS
  <2>2. PICK m \in x : \A y \in x : m <= y
    BY <2>1, SmallestElement
  <2>3. \A y \in x : Min(x) <= y
    BY <2>2 DEF Min
  <2> QED
    BY <2>1, <2>3
<1>2. q \in x \cap MinusOne(x, width)
  BY <1>1 DEF MinusOne
<1> QED
  BY <1>2 DEF Log2

(* A slice is cut out of a word and put back where it was: whatever the    *)
(* word, the bits from lsb to msb are left.                                *)
THEOREM SliceStays ==
  ASSUME NEW x \in SUBSET (0 .. 63), NEW msb \in 0 .. 63, NEW lsb \in 0 .. msb
  PROVE  shl_lsb(x, msb, lsb) = x \cap (lsb .. msb)
<1> DEFINE cut == slice(x, msb, lsb)
<1>1. \A b \in Int : b \in cut <=> b \in 0 .. msb - lsb /\ b + lsb \in x
  BY DEF slice, Shr
<1>2. cut \subseteq Int
  BY DEF slice
<1>3. shl_lsb(x, msb, lsb) = {b + lsb : b \in cut} \cap (0 .. 63)
  BY DEF shl_lsb, Shl
<1> HIDE DEF cut
<1>4. ASSUME NEW c \in Int PROVE c \in {b + lsb : b \in cut} <=> c \in x \cap (lsb .. msb)
  <2>1. c \in {b + lsb : b \in cut} <=> c - lsb \in cut
    BY <1>2
  <2>2. c - lsb \in cut <=> c - lsb \in 0 .. msb - lsb /\ c \in x
    BY <1>1
  <2>3. c - lsb \in 0 .. msb - lsb <=> c \in lsb .. msb
    OBVIOUS
  <2> QED
    BY <2>1, <2>2, <2>3
<1> QED
  BY <1>3, <1>4

-----------------------------------------------------------------------------
(* The longest gap.                                                        *)

\* Two ones that follow each other.
Neighbours(y, a, b) == a \in y /\ b \in y /\ a < b /\ \A c \in a + 1 .. b - 1 : c \notin y

LEMMA GapsAre ==
  ASSUME NEW y \in SUBSET Nat
  PROVE  \A g : g \in Gaps(y) <=> \E a, b \in y : Neighbours(y, a, b) /\ g = b - a - 1
<1>1. ASSUME NEW a \in y, NEW b \in y, a < b PROVE Cardinality((a + 1) .. (b - 1)) = b - a - 1
  <2>1. a + 1 \in Int /\ b - 1 \in Int
    OBVIOUS
  <2>2. Cardinality((a + 1) .. (b - 1)) = IF a + 1 > b - 1 THEN 0 ELSE (b - 1) - (a + 1) + 1
    BY <2>1, FS_Interval
  <2> QED
    BY <1>1, <2>2
<1> DEFINE pairs == {ab \in y \X y : ab[1] < ab[2] /\ \A c \in ab[1] + 1 .. ab[2] - 1 : c \notin y}
<1>2. ASSUME NEW g, g \in Gaps(y) PROVE \E a, b \in y : Neighbours(y, a, b) /\ g = b - a - 1
  <2>1. PICK ab \in pairs : g = Cardinality(ab[1] + 1 .. ab[2] - 1)
    BY <1>2 DEF Gaps
  <2>2. ab[1] \in y /\ ab[2] \in y /\ Neighbours(y, ab[1], ab[2])
    BY DEF Neighbours
  <2>3. g = ab[2] - ab[1] - 1
    BY <1>1, <2>1, <2>2 DEF Neighbours
  <2> QED
    BY <2>2, <2>3
<1>3. ASSUME NEW a \in y, NEW b \in y, Neighbours(y, a, b) PROVE b - a - 1 \in Gaps(y)
  <2>1. <<a, b>> \in pairs
    BY <1>3 DEF Neighbours
  <2>2. Cardinality((a + 1) .. (b - 1)) = b - a - 1
    BY <1>1, <1>3 DEF Neighbours
  <2>3. Cardinality(<<a, b>>[1] + 1 .. <<a, b>>[2] - 1) = b - a - 1
    BY <2>2
  <2>4. Gaps(y) = {Cardinality(ab[1] + 1 .. ab[2] - 1) : ab \in pairs}
    BY DEF Gaps
  <2> HIDE DEF pairs
  <2> QED
    BY <2>1, <2>3, <2>4
<1> QED
  BY <1>2, <1>3

\* What zero_gap has found when it has read the digits down to low.
Upper(x, low) == {b \in x : b >= low}
GapRecord == [gap : BOOLEAN, cur_gap : Nat, max_gap : Nat]
Found(x, low, s) ==
  /\ s \in GapRecord
  /\ \A a, b \in Upper(x, low) : Neighbours(Upper(x, low), a, b) => b - a - 1 <= s.max_gap
  /\ \/ s.max_gap = 0
     \/ \E a, b \in Upper(x, low) : Neighbours(Upper(x, low), a, b) /\ s.max_gap = b - a - 1
  /\ \E a \in Upper(x, low) : /\ \A c \in low .. a - 1 : c \notin x
                              /\ s.gap => s.cur_gap = a - low
                              /\ ~s.gap => a = low /\ s.cur_gap <= s.max_gap

LEMMA DigitFound ==
  ASSUME NEW x \in SUBSET Nat, NEW low \in Nat, low > 0, NEW s, Found(x, low, s)
  PROVE  Found(x, low - 1, Digit(s, low - 1 \in x))
<1> DEFINE y == Upper(x, low)
           z == Upper(x, low - 1)
           d == Digit(s, low - 1 \in x)
<1>1. PICK a \in y : /\ \A c \in low .. a - 1 : c \notin x
                     /\ s.gap => s.cur_gap = a - low
                     /\ ~s.gap => a = low /\ s.cur_gap <= s.max_gap
  BY DEF Found
<1>2. s \in GapRecord /\ s.gap \in BOOLEAN /\ s.cur_gap \in Nat /\ s.max_gap \in Nat
  BY DEF Found, GapRecord
<1>3. a \in Nat /\ a >= low /\ a \in x
  BY DEF Upper
<1>4. CASE low - 1 \notin x
  <2>1. z = y
    <3>1. \A b \in x : b >= low - 1 <=> b >= low
      BY <1>4
    <3> QED
      BY <3>1 DEF Upper
  <2>2. d = [s EXCEPT !.gap = TRUE, !.cur_gap = IF s.gap THEN s.cur_gap + 1 ELSE 1]
    BY <1>4 DEF Digit
  <2> HIDE DEF d
  <2>3. d \in GapRecord /\ d.gap = TRUE /\ d.cur_gap = a - (low - 1) /\ d.max_gap = s.max_gap
    <3> DEFINE cur == IF s.gap THEN s.cur_gap + 1 ELSE 1
    <3>0. d = [s EXCEPT !.gap = TRUE, !.cur_gap = cur] /\ cur \in Nat
      BY <1>2, <2>2
    <3> HIDE DEF cur
    <3>1. d \in GapRecord /\ d.gap = TRUE /\ d.max_gap = s.max_gap /\ d.cur_gap = cur
      BY <1>2, <3>0 DEF GapRecord
    <3>2. d.cur_gap = IF s.gap THEN s.cur_gap + 1 ELSE 1
      BY <3>1 DEF cur
    <3>3. d.cur_gap = a - (low - 1)
      BY <1>1, <1>2, <1>3, <3>2
    <3> QED
      BY <3>1, <3>3
  <2>4. \A c \in low - 1 .. a - 1 : c \notin x
    BY <1>1, <1>3, <1>4
  <2>5. /\ \A e, b \in z : Neighbours(z, e, b) => b - e - 1 <= d.max_gap
        /\ d.max_gap = 0 \/ \E e, b \in z : Neighbours(z, e, b) /\ d.max_gap = b - e - 1
    BY <2>1, <2>3 DEF Found
  <2>6. a \in z
    BY <2>1
  <2> QED
    BY <2>3, <2>4, <2>5, <2>6 DEF Found, d
<1>5. CASE low - 1 \in x
  <2>1. z = y \cup {low - 1} /\ \A c \in y : c \in Nat /\ c >= low
    <3>1. \A b \in x : b >= low - 1 <=> b >= low \/ b = low - 1
      OBVIOUS
    <3> QED
      BY <1>5, <3>1 DEF Upper
  <2>2. d = [s EXCEPT !.gap = FALSE, !.max_gap = IF s.cur_gap > s.max_gap THEN s.cur_gap ELSE s.max_gap]
    BY <1>5 DEF Digit
  <2> HIDE DEF d
  <2>3. /\ d \in GapRecord /\ d.gap = FALSE /\ d.cur_gap = s.cur_gap
        /\ d.max_gap = IF s.cur_gap > s.max_gap THEN s.cur_gap ELSE s.max_gap
    BY <1>2, <2>2 DEF GapRecord
  <2>4. Neighbours(z, low - 1, a)
    <3>1. \A c \in (low - 1) + 1 .. a - 1 : c \notin z
      <4>1. \A c \in (low - 1) + 1 .. a - 1 : c \in low .. a - 1
        BY <1>3
      <4> QED
        BY <1>1, <4>1 DEF Upper
    <3>2. low - 1 \in z /\ a \in z /\ low - 1 < a
      BY <1>3, <2>1
    <3> QED
      BY <3>1, <3>2 DEF Neighbours
  <2>5. ASSUME NEW e \in z, NEW b \in z, Neighbours(z, e, b)
        PROVE  (e \in y /\ b \in y /\ Neighbours(y, e, b)) \/ (e = low - 1 /\ b = a)
    <3>1. CASE e \in y
      <4>1. b \in y
        BY <2>1, <2>5, <3>1 DEF Neighbours
      <4> QED
        BY <2>1, <2>5, <3>1, <4>1 DEF Neighbours
    <3>2. CASE e = low - 1
      <4>1. b \in y
        BY <2>1, <2>5, <3>2 DEF Neighbours
      <4>2. ~ (a < b)
        <5>1. a < b => a \in e + 1 .. b - 1
          BY <1>3, <2>1, <3>2, <4>1
        <5> QED
          BY <2>1, <2>5, <5>1 DEF Neighbours
      <4>3. ~ (b < a)
        <5>1. b < a => b \in low .. a - 1
          BY <1>3, <2>1, <4>1
        <5>2. b \in x
          BY <4>1 DEF Upper
        <5> QED
          BY <1>1, <5>1, <5>2
      <4> QED
        BY <1>3, <2>1, <3>2, <4>1, <4>2, <4>3
    <3> QED
      BY <2>1, <3>1, <3>2
  <2>6. \A e, b \in y : Neighbours(y, e, b) => Neighbours(z, e, b)
    <3> SUFFICES ASSUME NEW e \in y, NEW b \in y, Neighbours(y, e, b) PROVE Neighbours(z, e, b)
      OBVIOUS
    <3>1. \A c \in e + 1 .. b - 1 : c # low - 1
      BY <2>1
    <3> QED
      BY <2>1, <3>1 DEF Neighbours
  <2>7. a - (low - 1) - 1 = a - low /\ a - low \in Nat
    BY <1>3
  <2>8. a - low <= d.max_gap /\ (d.max_gap = s.max_gap \/ d.max_gap = a - low) /\ s.max_gap <= d.max_gap
    BY <1>1, <1>2, <1>3, <2>3
  <2>9. \A e, b \in z : Neighbours(z, e, b) => b - e - 1 <= d.max_gap
    <3> SUFFICES ASSUME NEW e \in z, NEW b \in z, Neighbours(z, e, b) PROVE b - e - 1 <= d.max_gap
      OBVIOUS
    <3>1. CASE e \in y /\ b \in y /\ Neighbours(y, e, b)
      <4>1. b - e - 1 <= s.max_gap
        BY <3>1 DEF Found
      <4>2. d.max_gap \in Nat /\ e \in Nat /\ b \in Nat
        BY <1>2, <2>1, <2>3, <3>1
      <4> QED
        BY <1>2, <2>8, <4>1, <4>2
    <3>2. CASE e = low - 1 /\ b = a
      BY <2>7, <2>8, <3>2
    <3> QED
      BY <2>5, <3>1, <3>2
  <2>10. d.max_gap = 0 \/ \E e, b \in z : Neighbours(z, e, b) /\ d.max_gap = b - e - 1
    <3>1. CASE d.max_gap = s.max_gap
      BY <2>1, <2>6, <3>1 DEF Found
    <3>2. CASE d.max_gap = a - low
      <4>1. low - 1 \in z /\ a \in z
        BY <2>1
      <4> QED
        BY <2>4, <2>7, <3>2, <4>1
    <3> QED
      BY <2>8, <3>1, <3>2
  <2>11. /\ low - 1 \in z
         /\ \A c \in low - 1 .. (low - 1) - 1 : c \notin x
         /\ d.cur_gap <= d.max_gap
    BY <1>2, <2>1, <2>3
  <2> QED
    BY <2>3, <2>9, <2>10, <2>11 DEF Found, d
<1> QED
  BY <1>4, <1>5

\* The function of which zero_gap is the end.
Scanned(f, x, m) == f = [k \in 0 .. m |-> IF k = 0 THEN [gap |-> FALSE, cur_gap |-> 0, max_gap |-> 0]
                                         ELSE Digit(f[k - 1], m - k \in x)]

LEMMA ScanFinds ==
  ASSUME NEW x \in SUBSET Nat, NEW m \in x, \A b \in x : b <= m,
         NEW f, Scanned(f, x, m)
  PROVE  Found(x, 0, f[m])
<1> DEFINE T == {k \in Nat : k \in 0 .. m => Found(x, m - k, f[k])}
<1>1. m \in Nat
  OBVIOUS
<1>2. 0 \in T
  <2> DEFINE s == [gap |-> FALSE, cur_gap |-> 0, max_gap |-> 0]
  <2>1. f[0] = s
    BY <1>1 DEF Scanned
  <2>2. s \in GapRecord /\ s.max_gap = 0 /\ s.cur_gap = 0 /\ s.gap = FALSE
    BY DEF GapRecord
  <2>3. Upper(x, m) = {m}
    <3>1. \A b \in x : b >= m <=> b = m
      BY <1>1
    <3> QED
      BY <3>1 DEF Upper
  <2> HIDE DEF s
  <2>4. Found(x, m, s)
    <3>1. \A a, b \in Upper(x, m) : ~Neighbours(Upper(x, m), a, b)
      BY <1>1, <2>3 DEF Neighbours
    <3>2. \A c \in m .. m - 1 : c \notin x
      BY <1>1
    <3> QED
      BY <2>2, <2>3, <3>1, <3>2 DEF Found
  <2> QED
    BY <1>1, <2>1, <2>4
<1>3. ASSUME NEW k \in Nat, k \in T PROVE k + 1 \in T
  <2>1. SUFFICES ASSUME k + 1 \in 0 .. m PROVE Found(x, m - (k + 1), f[k + 1])
    OBVIOUS
  <2>2. k \in 0 .. m /\ k + 1 # 0 /\ (k + 1) - 1 = k
    BY <1>1, <2>1
  <2>3. Found(x, m - k, f[k])
    BY <1>3, <2>2
  <2>4. f[k + 1] = Digit(f[k], m - (k + 1) \in x)
    BY <2>1, <2>2 DEF Scanned
  <2> DEFINE low == m - k
  <2>5. low \in Nat /\ low > 0 /\ m - (k + 1) = low - 1
    BY <1>1, <2>1
  <2> HIDE DEF low
  <2>6. Found(x, low - 1, Digit(f[k], low - 1 \in x))
    BY <2>3, <2>5, DigitFound DEF low
  <2> QED
    BY <2>4, <2>5, <2>6
<1>4. Nat \subseteq T
  <2> HIDE DEF T
  <2> QED
    BY <1>2, <1>3, Induction
<1>5. Found(x, m - m, f[m])
  BY <1>1, <1>4
<1> QED
  BY <1>1, <1>5

LEMMA ScanExists ==
  ASSUME NEW x \in SUBSET Nat, NEW m \in Nat
  PROVE  \E f : Scanned(f, x, m)
<1> DEFINE Entry(f, k) == IF k = 0 THEN [gap |-> FALSE, cur_gap |-> 0, max_gap |-> 0]
                          ELSE Digit(f[k - 1], m - k \in x)
           Upto(f, l) == f = [k \in 0 .. l |-> Entry(f, k)]
           T == {l \in Nat : \E f : Upto(f, l)}
<1>1. 0 \in T
  <2> DEFINE f == [k \in 0 .. 0 |-> [gap |-> FALSE, cur_gap |-> 0, max_gap |-> 0]]
  <2>1. Upto(f, 0)
    OBVIOUS
  <2> QED
    BY <2>1
<1>2. ASSUME NEW l \in Nat, l \in T PROVE l + 1 \in T
  <2>1. PICK f : Upto(f, l)
    BY <1>2
  <2> DEFINE g == [k \in 0 .. l + 1 |-> IF k = l + 1 THEN Digit(f[l], m - k \in x) ELSE f[k]]
  <2>2. ASSUME NEW k \in 0 .. l + 1 PROVE g[k] = Entry(g, k)
    <3>1. CASE k = l + 1
      <4>1. k # 0 /\ k - 1 = l /\ l \in 0 .. l + 1 /\ l # l + 1
        BY <3>1
      <4>2. g[l] = f[l]
        BY <4>1
      <4> QED
        BY <4>1, <4>2, <3>1
    <3>2. CASE k \in 0 .. l
      <4>1. g[k] = f[k]
        BY <3>2
      <4>2. f[k] = Entry(f, k)
        <5> HIDE DEF Entry
        <5> QED
          BY <2>1, <3>2
      <4>3. k # 0 => g[k - 1] = f[k - 1]
        BY <3>2
      <4> HIDE DEF g
      <4> QED
        BY <4>1, <4>2, <4>3
    <3> QED
      BY <3>1, <3>2
  <2>3. g = [k \in 0 .. l + 1 |-> g[k]]
    OBVIOUS
  <2> HIDE DEF g
  <2>4. Upto(g, l + 1)
    BY <2>2, <2>3
  <2> QED
    BY <2>4
<1>3. m \in T
  <2>1. Nat \subseteq T
    <3> HIDE DEF T
    <3> QED
      BY <1>1, <1>2, Induction
  <2> QED
    BY <2>1
<1> QED
  BY <1>3 DEF Scanned

(* zero_gap finds the longest run of zeros between two ones, for every     *)
(* word: zeros below the lowest one and above the highest do not count.    *)
THEOREM GapIsLongest ==
  ASSUME NEW width \in Nat, NEW x \in SUBSET (0 .. width - 1)
  PROVE  zero_gap(x, width) = CHOOSE g \in Gaps(x) \cup {0} : \A h \in Gaps(x) : h <= g
<1> DEFINE gap     == zero_gap(x, width)
           Best(g) == g \in Gaps(x) \cup {0} /\ \A h \in Gaps(x) : h <= g
<1>1. x \in SUBSET Nat
  OBVIOUS
<1>2. \A g \in Gaps(x) : g \in Nat
  <2> SUFFICES ASSUME NEW g \in Gaps(x) PROVE g \in Nat
    OBVIOUS
  <2>1. PICK a \in x, b \in x : Neighbours(x, a, b) /\ g = b - a - 1
    BY <1>1, GapsAre
  <2> QED
    BY <1>1, <2>1 DEF Neighbours
<1>3. Best(gap)
  <2>1. CASE x = {}
    <3>1. Gaps(x) = {}
      BY <1>1, <2>1, GapsAre
    <3>2. gap = 0
      BY <2>1 DEF zero_gap
    <3> QED
      BY <3>1, <3>2
  <2>2. CASE x # {}
    <3> DEFINE m == Max(x)
               f == CHOOSE f : Scanned(f, x, m)
    <3>1. m \in x /\ \A b \in x : b <= m
      <4> DEFINE S == {width - 1 - b : b \in x}
      <4>1. S \in SUBSET Nat /\ S # {}
        <5>1. \A b \in x : width - 1 - b \in Nat
          OBVIOUS
        <5> QED
          BY <2>2, <5>1
      <4>2. PICK v \in S : \A y \in S : v <= y
        <5> HIDE DEF S
        <5> QED
          BY <4>1, SmallestElement
      <4>3. PICK top \in x : v = width - 1 - top
        OBVIOUS
      <4>4. \A b \in x : top >= b
        <5> SUFFICES ASSUME NEW b \in x PROVE top >= b
          OBVIOUS
        <5>1. v <= width - 1 - b
          BY <4>2
        <5> QED
          BY <1>1, <4>3, <5>1
      <4>5. m \in x /\ \A b \in x : m >= b
        BY <4>4 DEF Max
      <4> QED
        BY <1>1, <4>5
    <3>2. Scanned(f, x, m)
      <4> HIDE DEF m
      <4>1. m \in Nat
        BY <1>1, <3>1
      <4> QED
        BY <1>1, <4>1, ScanExists
    <3>3. gap = f[m].max_gap
      BY <2>2 DEF zero_gap, Scanned
    <3> HIDE DEF m, f, gap
    <3>4. Found(x, 0, f[m])
      BY <1>1, <3>1, <3>2, ScanFinds
    <3>5. Upper(x, 0) = x
      <4>1. \A b \in x : b >= 0
        BY <1>1
      <4> QED
        BY <4>1 DEF Upper
    <3>6. /\ \A a, b \in x : Neighbours(x, a, b) => b - a - 1 <= gap
          /\ gap = 0 \/ \E a, b \in x : Neighbours(x, a, b) /\ gap = b - a - 1
      BY <3>3, <3>4, <3>5 DEF Found
    <3>7. \A h \in Gaps(x) : h <= gap
      BY <1>1, <3>6, GapsAre
    <3>8. gap \in Gaps(x) \cup {0}
      BY <1>1, <3>6, GapsAre
    <3> QED
      BY <3>7, <3>8
  <2> QED
    BY <2>1, <2>2
<1>4. ASSUME NEW g, NEW h, Best(g), Best(h) PROVE g = h
  <2>1. g \in Nat /\ h \in Nat
    BY <1>2, <1>4
  <2>2. g <= h
    BY <1>4, <2>1
  <2>3. h <= g
    BY <1>4, <2>1
  <2> QED
    BY <2>1, <2>2, <2>3
<1> HIDE DEF gap
<1>5. (CHOOSE g \in Gaps(x) \cup {0} : \A h \in Gaps(x) : h <= g) = gap
  BY <1>3, <1>4
<1> QED
  BY <1>5 DEF gap

-----------------------------------------------------------------------------
(* The mesh: what a search in its map finds, for an operator< that may     *)
(* hold in both directions.                                                *)

Point == [x : Int, y : Int, z : Int]

LEMMA LessFacts ==
  ASSUME NEW p \in Point, NEW q \in Point, NEW r \in Point
  PROVE  /\ ~Less(p, p)
         /\ ~Less(p, q) /\ ~Less(q, p) => p = q
         /\ Less(p, q) /\ ~Less(q, p) /\ Less(q, r) /\ ~Less(r, q) => Less(p, r)
<1>1. ~Less(p, p)
  BY DEF Less, Point
<1>2. ASSUME ~Less(p, q), ~Less(q, p) PROVE p = q
  <2>1. p.x = q.x /\ p.y = q.y /\ p.z = q.z
    BY <1>2 DEF Less, Point
  <2>2. p = [x |-> p.x, y |-> p.y, z |-> p.z] /\ q = [x |-> q.x, y |-> q.y, z |-> q.z]
    BY DEF Point
  <2> QED
    BY <2>1, <2>2
<1>3. ASSUME Less(p, q), ~Less(q, p), Less(q, r), ~Less(r, q) PROVE Less(p, r)
  BY <1>3 DEF Less, Point
<1> QED
  BY <1>1, <1>2, <1>3

\* The brackets of a search in a tree of n entries.
Brackets(n) == {b \in (1 .. n + 1) \X (1 .. n + 1) : b[1] <= b[2]}

\* The search came here by the entries at both ends.
CameBy(b, n, right) == (b[1] = 1 \/ b[1] - 1 \in right) /\ (b[2] = n + 1 \/ b[2] \notin right)

LEMMA BracketsNarrow ==
  ASSUME NEW n \in Nat, NEW right, NEW b \in Brackets(n)
  PROVE  /\ Narrowed(b, right) # {}
         /\ \A c \in Narrowed(b, right) :
              /\ c \in Brackets(n)
              /\ CameBy(b, n, right) => CameBy(c, n, right)
              /\ c[2] - c[1] <= b[2] - b[1]
              /\ b[1] # b[2] => c[2] - c[1] < b[2] - b[1]
<1>1. b[1] \in 1 .. n + 1 /\ b[2] \in 1 .. n + 1 /\ b[1] <= b[2]
  BY DEF Brackets
<1>2. CASE b[1] = b[2]
  <2>1. Narrowed(b, right) = {b}
    BY <1>2 DEF Narrowed
  <2> QED
    BY <1>1, <1>2, <2>1
<1>3. CASE b[1] # b[2]
  <2> DEFINE To(m) == IF m \in right THEN <<m + 1, b[2]>> ELSE <<b[1], m>>
  <2>1. Narrowed(b, right) = {To(m) : m \in b[1] .. b[2] - 1}
    BY <1>3 DEF Narrowed
  <2>2. b[1] \in b[1] .. b[2] - 1
    BY <1>1, <1>3
  <2>3. ASSUME NEW m \in b[1] .. b[2] - 1
        PROVE  /\ To(m) \in Brackets(n)
               /\ CameBy(b, n, right) => CameBy(To(m), n, right)
               /\ To(m)[2] - To(m)[1] < b[2] - b[1]
    <3>1. m \in 1 .. n + 1 /\ m + 1 \in 1 .. n + 1 /\ b[1] <= m /\ m + 1 <= b[2] /\ (m + 1) - 1 = m
      BY <1>1, <2>3
    <3>2. CASE m \in right
      <4>1. To(m) = <<m + 1, b[2]>>
        BY <3>2
      <4> HIDE DEF To
      <4>2. To(m)[1] = m + 1 /\ To(m)[2] = b[2]
        BY <4>1
      <4>3. To(m) \in Brackets(n)
        BY <1>1, <3>1, <4>1 DEF Brackets
      <4>4. CameBy(b, n, right) => CameBy(To(m), n, right)
        BY <3>1, <3>2, <4>2 DEF CameBy
      <4> QED
        BY <1>1, <3>1, <4>2, <4>3, <4>4
    <3>3. CASE m \notin right
      <4>1. To(m) = <<b[1], m>>
        BY <3>3
      <4> HIDE DEF To
      <4>2. To(m)[1] = b[1] /\ To(m)[2] = m
        BY <4>1
      <4>3. To(m) \in Brackets(n)
        BY <1>1, <3>1, <4>1 DEF Brackets
      <4>4. CameBy(b, n, right) => CameBy(To(m), n, right)
        BY <3>3, <4>2 DEF CameBy
      <4> QED
        BY <1>1, <3>1, <4>2, <4>3, <4>4
    <3> QED
      BY <3>2, <3>3
  <2>4. ASSUME NEW c \in Narrowed(b, right)
        PROVE  /\ c \in Brackets(n)
               /\ CameBy(b, n, right) => CameBy(c, n, right)
               /\ c[2] - c[1] < b[2] - b[1]
    <3> HIDE DEF To
    <3> QED
      BY <2>1, <2>3
  <2>5. \A c \in Brackets(n) : c[1] \in Int /\ c[2] \in Int
    BY DEF Brackets
  <2>6. \A c \in Narrowed(b, right) : c[2] - c[1] <= b[2] - b[1]
    BY <1>1, <2>4, <2>5
  <2>7. Narrowed(b, right) # {}
    <3> HIDE DEF To
    <3> QED
      BY <2>1, <2>2
  <2> QED
    BY <1>3, <2>4, <2>6, <2>7
<1> QED
  BY <1>2, <1>3

(* Functions that are defined by recursion over the numbers up to m, by a  *)
(* step within a set S: there is one, and it has its values in S.          *)

Iterates(h, m, base, step) == h = [n \in 0 .. m |-> IF n = 0 THEN base ELSE step[<<n, h[n - 1]>>]]

LEMMA IterationExists ==
  ASSUME NEW S, NEW base \in S, NEW m \in Nat, NEW step \in [Nat \X S -> S]
  PROVE  \E h \in [0 .. m -> S] : Iterates(h, m, base, step)
<1> DEFINE T == {l \in Nat : \E h \in [0 .. l -> S] : Iterates(h, l, base, step)}
<1>1. 0 \in T
  <2>1. Iterates([n \in 0 .. 0 |-> base], 0, base, step)
    BY DEF Iterates
  <2>2. [n \in 0 .. 0 |-> base] \in [0 .. 0 -> S]
    OBVIOUS
  <2> QED
    BY <2>1, <2>2
<1>2. ASSUME NEW l \in Nat, l \in T PROVE l + 1 \in T
  <2>1. PICK h \in [0 .. l -> S] : Iterates(h, l, base, step)
    BY <1>2
  <2> DEFINE g == [n \in 0 .. l + 1 |-> IF n = l + 1 THEN step[<<l + 1, h[l]>>] ELSE h[n]]
  <2>2. g \in [0 .. l + 1 -> S]
    OBVIOUS
  <2>3. ASSUME NEW n \in 0 .. l + 1 PROVE g[n] = IF n = 0 THEN base ELSE step[<<n, g[n - 1]>>]
    <3>1. CASE n = l + 1
      <4>1. n # 0 /\ n - 1 = l /\ l \in 0 .. l + 1 /\ l # l + 1
        BY <3>1
      <4> QED
        BY <4>1, <3>1
    <3>2. CASE n \in 0 .. l
      <4>1. g[n] = h[n]
        BY <3>2
      <4>2. h[n] = IF n = 0 THEN base ELSE step[<<n, h[n - 1]>>]
        BY <2>1, <3>2 DEF Iterates
      <4>3. n # 0 => g[n - 1] = h[n - 1]
        BY <3>2
      <4> QED
        BY <4>1, <4>2, <4>3
    <3> QED
      BY <3>1, <3>2
  <2>4. g = [n \in 0 .. l + 1 |-> g[n]]
    OBVIOUS
  <2> HIDE DEF g
  <2>5. Iterates(g, l + 1, base, step)
    BY <2>3, <2>4 DEF Iterates
  <2> QED
    BY <2>2, <2>5
<1>3. Nat \subseteq T
  <2> HIDE DEF T
  <2> QED
    BY <1>1, <1>2, Induction
<1> QED
  BY <1>3

(* A search ends somewhere, behind an entry that it went on behind and in  *)
(* front of one that it did not.                                           *)
LEMMA SearchEnds ==
  ASSUME NEW map, Len(map) \in Nat, NEW right
  PROVE  /\ Ends(map, right) # {}
         /\ \A e \in Ends(map, right) :
              e \in 1 .. Len(map) + 1 /\ (e = 1 \/ e - 1 \in right) /\ (e = Len(map) + 1 \/ e \notin right)
<1> DEFINE m        == Len(map)
           All(s)   == UNION {Narrowed(b, right) : b \in s}
           Upto(h)  == h = [n \in 0 .. m |-> IF n = 0 THEN {<<1, m + 1>>} ELSE All(h[n - 1])]
           after    == CHOOSE h : Upto(h)
           S        == SUBSET Brackets(m)
           step     == [ns \in Nat \X S |-> All(ns[2])]
           Close(b, n) == b[2] - b[1] <= m - n \/ b[2] = b[1]
           Narrow(n) == /\ after[n] # {}
                        /\ \A b \in after[n] : b \in Brackets(m) /\ CameBy(b, m, right) /\ Close(b, n)
<1>1. m \in Nat
  OBVIOUS
<1>2. <<1, m + 1>> \in Brackets(m)
  BY <1>1 DEF Brackets
<1>3. ASSUME NEW s \in S PROVE All(s) \in S
  BY <1>1, BracketsNarrow
<1>4. \E h : Upto(h)
  <2>1. {<<1, m + 1>>} \in S
    BY <1>2
  <2>2. step \in [Nat \X S -> S]
    <3> HIDE DEF S, All
    <3> QED
      BY <1>3
  <2>3. PICK h \in [0 .. m -> S] : Iterates(h, m, {<<1, m + 1>>}, step)
    <3> HIDE DEF S, step, m
    <3> QED
      BY <1>1, <2>1, <2>2, IterationExists
  <2>4. ASSUME NEW n \in 0 .. m, n # 0 PROVE step[<<n, h[n - 1]>>] = All(h[n - 1])
    <3>1. n \in Nat /\ n - 1 \in 0 .. m
      BY <1>1, <2>4
    <3> HIDE DEF S, All
    <3> QED
      BY <2>3, <3>1
  <2>5. ASSUME NEW n \in 0 .. m
        PROVE  (IF n = 0 THEN {<<1, m + 1>>} ELSE step[<<n, h[n - 1]>>]) =
               (IF n = 0 THEN {<<1, m + 1>>} ELSE All(h[n - 1]))
    <3> HIDE DEF All, step
    <3> QED
      BY <2>4
  <2>6. Upto(h)
    <3> HIDE DEF All, step, S
    <3> QED
      BY <2>3, <2>5 DEF Iterates
  <2> QED
    BY <2>6
<1>5. Upto(after)
  <2> HIDE DEF Upto
  <2> QED
    BY <1>4
<1>6. after[0] = {<<1, m + 1>>} /\ \A n \in 1 .. m : after[n] = All(after[n - 1])
  <2>1. after = [n \in 0 .. m |-> IF n = 0 THEN {<<1, m + 1>>} ELSE All(after[n - 1])]
    <3> HIDE DEF All, after
    <3> QED
      BY <1>5
  <2>2. ASSUME NEW n \in 0 .. m PROVE after[n] = IF n = 0 THEN {<<1, m + 1>>} ELSE All(after[n - 1])
    <3> HIDE DEF All, after
    <3> QED
      BY <2>1, Zenon
  <2>3. 0 \in 0 .. m /\ \A n \in 1 .. m : n \in 0 .. m /\ n # 0
    BY <1>1
  <2> HIDE DEF All, after
  <2> QED
    BY <2>2, <2>3
<1>7. Ends(map, right) = {b[1] : b \in after[m]}
  BY DEF Ends
<1> DEFINE T == {n \in Nat : n \in 0 .. m => Narrow(n)}
<1>8. 0 \in T
  <2> DEFINE b == <<1, m + 1>>
  <2>1. b[1] = 1 /\ b[2] = m + 1
    OBVIOUS
  <2>2. b \in Brackets(m)
    BY <1>2
  <2> HIDE DEF b
  <2>3. CameBy(b, m, right) /\ Close(b, 0)
    BY <1>1, <2>1 DEF CameBy
  <2>4. after[0] = {b}
    BY <1>6 DEF b
  <2> HIDE DEF after, Close
  <2> QED
    BY <2>2, <2>3, <2>4
<1>9. ASSUME NEW n \in Nat, n \in T PROVE n + 1 \in T
  <2>1. SUFFICES ASSUME n + 1 \in 0 .. m PROVE Narrow(n + 1)
    <3> HIDE DEF Narrow
    <3> QED
      OBVIOUS
  <2>2. n \in 0 .. m /\ n + 1 \in 1 .. m /\ (n + 1) - 1 = n
    BY <1>1, <2>1
  <2>3. Narrow(n)
    BY <1>9, <2>2
  <2>4. after[n + 1] = All(after[n])
    <3> HIDE DEF after, All
    <3> QED
      BY <1>6, <2>2
  <2> HIDE DEF after
  <2>5. PICK b \in after[n] : TRUE
    BY <2>3
  <2>6. after[n + 1] # {}
    <3>1. Narrowed(b, right) # {}
      BY <1>1, <2>3, <2>5, BracketsNarrow
    <3> QED
      BY <2>4, <2>5, <3>1
  <2>7. ASSUME NEW c \in after[n + 1]
        PROVE  c \in Brackets(m) /\ CameBy(c, m, right) /\ Close(c, n + 1)
    <3>1. PICK d \in after[n] : c \in Narrowed(d, right)
      BY <2>4, <2>7
    <3>2. d \in Brackets(m) /\ CameBy(d, m, right) /\ Close(d, n)
      BY <2>3
    <3>3. /\ c \in Brackets(m) /\ CameBy(c, m, right)
          /\ c[2] - c[1] <= d[2] - d[1]
          /\ d[1] # d[2] => c[2] - c[1] < d[2] - d[1]
      <4> HIDE DEF m, Close
      <4> QED
        BY <1>1, <3>1, <3>2, BracketsNarrow
    <3>4. \A e \in Brackets(m) : e[1] \in Nat /\ e[2] \in Nat /\ e[1] <= e[2]
      BY <1>1 DEF Brackets
    <3>5. Close(c, n + 1)
      BY <1>1, <3>2, <3>3, <3>4
    <3> QED
      BY <3>3, <3>5
  <2> QED
    BY <2>6, <2>7
<1>10. Narrow(m)
  <2>1. Nat \subseteq T
    <3> HIDE DEF T
    <3> QED
      BY <1>8, <1>9, Induction
  <2>2. m \in 0 .. m
    BY <1>1
  <2> HIDE DEF Narrow
  <2> QED
    BY <1>1, <2>1, <2>2
<1>11. ASSUME NEW b \in after[m]
       PROVE  b[1] \in 1 .. m + 1 /\ (b[1] = 1 \/ b[1] - 1 \in right) /\ (b[1] = m + 1 \/ b[1] \notin right)
  <2>1. b \in Brackets(m) /\ CameBy(b, m, right) /\ Close(b, m)
    <3> HIDE DEF after, Close
    <3> QED
      BY <1>10, <1>11
  <2>2. b[1] \in 1 .. m + 1 /\ b[2] \in 1 .. m + 1 /\ b[1] <= b[2]
    BY <2>1 DEF Brackets
  <2>3. b[1] = b[2]
    BY <1>1, <2>1, <2>2
  <2> QED
    BY <2>1, <2>2, <2>3 DEF CameBy
<1> QED
  <2> HIDE DEF after
  <2> QED
    BY <1>7, <1>10, <1>11

MapEntry == [point : Point, index : Nat]
Mesh     == [vertices : Seq(Point), map : Seq(MapEntry), returned : Seq(Nat)]

InOrder(map) == \A j, k \in DOMAIN map : j < k => Less(map[j].point, map[k].point)

\* No two of these points are less than each other.
Chain(R) == R \subseteq Point /\ \A p, q \in R : ~(Less(p, q) /\ Less(q, p))

LEMMA EntryInserted ==
  ASSUME NEW S, NEW s \in Seq(S), NEW k \in 1 .. Len(s) + 1, NEW e \in S
  PROVE  /\ InsertAt(s, k, e) \in Seq(S)
         /\ Len(InsertAt(s, k, e)) = Len(s) + 1
         /\ \A j \in 1 .. Len(s) + 1 :
              InsertAt(s, k, e)[j] = IF j < k THEN s[j] ELSE IF j = k THEN e ELSE s[j - 1]
<1> DEFINE a == SubSeq(s, 1, k - 1)
           b == SubSeq(s, k, Len(s))
<1>1. Len(s) \in Nat /\ k \in Nat
  OBVIOUS
<1>2. a \in Seq(S) /\ Len(a) = k - 1 /\ \A j \in 1 .. k - 1 : a[j] = s[j]
  OBVIOUS
<1>3. b \in Seq(S) /\ Len(b) = Len(s) - k + 1 /\ \A j \in 1 .. Len(s) - k + 1 : b[j] = s[k + j - 1]
  OBVIOUS
<1> HIDE DEF a, b
<1> DEFINE c == a \o <<e>>
<1>4. c \in Seq(S) /\ Len(c) = k /\ \A j \in 1 .. k : c[j] = IF j < k THEN s[j] ELSE e
  BY <1>1, <1>2
<1> HIDE DEF c
<1> DEFINE d == c \o b
<1>5. d \in Seq(S) /\ Len(d) = Len(s) + 1
  <2>1. d \in Seq(S) /\ Len(d) = Len(c) + Len(b)
    BY <1>3, <1>4, ConcatProperties
  <2> HIDE DEF d
  <2> QED
    BY <1>1, <1>3, <1>4, <2>1
<1>6. ASSUME NEW j \in 1 .. Len(s) + 1
      PROVE  d[j] = IF j < k THEN s[j] ELSE IF j = k THEN e ELSE s[j - 1]
  <2>1. CASE j <= k
    <3>1. d[j] = c[j] /\ j \in 1 .. k
      BY <1>1, <1>3, <1>4, <2>1
    <3> QED
      BY <1>4, <2>1, <3>1
  <2>2. CASE j > k
    <3>1. j - k \in 1 .. Len(s) - k + 1
      BY <1>1, <2>2
    <3>2. d[j] = b[j - k]
      BY <1>1, <1>3, <1>4, <2>2, <3>1
    <3>3. k + (j - k) - 1 = j - 1
      BY <1>1
    <3> QED
      BY <1>3, <2>2, <3>1, <3>2, <3>3
  <2>3. j <= k \/ j > k
    BY <1>1
  <2> HIDE DEF d
  <2> QED
    BY <2>1, <2>2, <2>3
<1>7. InsertAt(s, k, e) = d
  BY DEF InsertAt, a, b, c
<1> QED
  BY <1>5, <1>6, <1>7

\* `new' is the map with the entry e at place k.
WithEntry(new, map, k, e) ==
  /\ new \in Seq(MapEntry)
  /\ Len(new) = Len(map) + 1
  /\ \A j \in 1 .. Len(map) + 1 : new[j] = IF j < k THEN map[j] ELSE IF j = k THEN e ELSE map[j - 1]

LEMMA MapEntryInserted ==
  ASSUME NEW map \in Seq(MapEntry), NEW k \in 1 .. Len(map) + 1, NEW e \in MapEntry
  PROVE  WithEntry(InsertAt(map, k, e), map, k, e)
  BY EntryInserted DEF WithEntry

(* find finds what it should, if the points it compares are ordered, and   *)
(* what it finds is the point in any case.                                 *)
LEMMA FoundIsEqual ==
  ASSUME NEW map \in Seq(MapEntry), NEW p \in Point,
         NEW k \in LowerBounds(map, p), FoundAt(map, p, k)
  PROVE  k \in DOMAIN map /\ map[k].point = p
<1> DEFINE right == {j \in DOMAIN map : Less(map[j].point, p)}
<1>1. Len(map) \in Nat
  OBVIOUS
<1>2. k \in 1 .. Len(map) + 1 /\ (k = Len(map) + 1 \/ k \notin right)
  <2> HIDE DEF right
  <2>1. k \in Ends(map, right)
    BY DEF LowerBounds, right
  <2> QED
    BY <1>1, <2>1, SearchEnds
<1>3. k <= Len(map) /\ ~Less(p, map[k].point)
  BY DEF FoundAt
<1>4. k \in DOMAIN map /\ ~Less(map[k].point, p)
  BY <1>1, <1>2, <1>3
<1>5. map[k] \in MapEntry
  BY <1>4
<1>6. map[k].point \in Point
  BY <1>5 DEF MapEntry
<1> QED
  BY <1>3, <1>4, <1>6, LessFacts

LEMMA EveryPointIsFound ==
  ASSUME NEW map \in Seq(MapEntry), InOrder(map),
         NEW R, Chain(R), \A k \in DOMAIN map : map[k].point \in R,
         NEW i \in DOMAIN map, NEW k \in LowerBounds(map, map[i].point)
  PROVE  FoundAt(map, map[i].point, k)
<1> DEFINE p     == map[i].point
           right == {j \in DOMAIN map : Less(map[j].point, p)}
<1>1. Len(map) \in Nat /\ DOMAIN map = 1 .. Len(map) /\ i \in 1 .. Len(map)
  OBVIOUS
<1>2. k \in 1 .. Len(map) + 1 /\ (k = 1 \/ k - 1 \in right) /\ (k = Len(map) + 1 \/ k \notin right)
  <2> HIDE DEF right
  <2>1. k \in Ends(map, right)
    BY DEF LowerBounds, right
  <2> QED
    BY <1>1, <2>1, SearchEnds
<1>3. p \in R /\ ~Less(p, p)
  BY LessFacts DEF Chain
<1>4. k <= i
  <2> SUFFICES ASSUME k > i PROVE FALSE
    BY <1>1, <1>2
  <2>1. k - 1 \in DOMAIN map /\ Less(map[k - 1].point, p)
    BY <1>1, <1>2
  <2>2. CASE i = k - 1
    BY <1>3, <2>1, <2>2
  <2>3. CASE i < k - 1
    <3>1. Less(p, map[k - 1].point)
      BY <2>1, <2>3 DEF InOrder
    <3> QED
      BY <1>3, <2>1, <3>1 DEF Chain
  <2> QED
    BY <1>1, <1>2, <2>2, <2>3
<1>5. i <= k
  <2> SUFFICES ASSUME k < i PROVE FALSE
    BY <1>1, <1>2
  <2>1. k \in DOMAIN map /\ ~Less(map[k].point, p)
    BY <1>1, <1>2
  <2> QED
    BY <2>1 DEF InOrder
<1>6. k = i
  BY <1>1, <1>2, <1>4, <1>5
<1> QED
  BY <1>1, <1>3, <1>6 DEF FoundAt

(* A point that is not there is inserted, and in its place.                *)
LEMMA InsertedInOrder ==
  ASSUME NEW map \in Seq(MapEntry), InOrder(map),
         NEW R, Chain(R), \A k \in DOMAIN map : map[k].point \in R,
         NEW p \in R, \A k \in DOMAIN map : map[k].point # p,
         NEW n \in Nat, NEW k \in Places(map, p)
  PROVE  /\ Inserted(map, p, n, k) = InsertAt(map, k, [point |-> p, index |-> n])
         /\ k \in 1 .. Len(map) + 1
         /\ InOrder(Inserted(map, p, n, k))
<1> DEFINE right == {j \in DOMAIN map : ~Less(p, map[j].point)}
           entry == [point |-> p, index |-> n]
           new   == InsertAt(map, k, entry)
<1>1. Len(map) \in Nat /\ DOMAIN map = 1 .. Len(map) /\ p \in Point
  BY DEF Chain
<1>2. k \in 1 .. Len(map) + 1 /\ (k = 1 \/ k - 1 \in right) /\ (k = Len(map) + 1 \/ k \notin right)
  <2> HIDE DEF right
  <2>1. k \in Ends(map, right)
    BY DEF Places, right
  <2> QED
    BY <1>1, <2>1, SearchEnds
<1>3. \A j \in DOMAIN map : map[j].point \in Point /\ (Less(map[j].point, p) \/ Less(p, map[j].point))
                                                   /\ ~(Less(map[j].point, p) /\ Less(p, map[j].point))
  BY LessFacts DEF Chain
<1>4. ASSUME NEW j \in DOMAIN map, j < k PROVE Less(map[j].point, p)
  <2>1. k - 1 \in DOMAIN map /\ Less(map[k - 1].point, p)
    BY <1>1, <1>2, <1>3, <1>4
  <2>2. CASE j = k - 1
    BY <2>1, <2>2
  <2>3. CASE j < k - 1
    <3>1. Less(map[j].point, map[k - 1].point)
      BY <2>1, <2>3 DEF InOrder
    <3>2. ~Less(map[k - 1].point, map[j].point)
      BY <2>1, <3>1 DEF Chain
    <3>3. ~Less(p, map[k - 1].point)
      BY <1>3, <2>1
    <3> QED
      BY <1>1, <1>3, <2>1, <3>1, <3>2, <3>3, LessFacts
  <2> QED
    BY <1>1, <1>2, <1>4, <2>2, <2>3
<1>5. ASSUME NEW j \in DOMAIN map, k <= j PROVE Less(p, map[j].point)
  <2>1. k \in DOMAIN map /\ Less(p, map[k].point)
    BY <1>1, <1>2, <1>5
  <2>2. CASE j = k
    BY <2>1, <2>2
  <2>3. CASE k < j
    <3>1. Less(map[k].point, map[j].point)
      BY <2>1, <2>3 DEF InOrder
    <3>2. ~Less(map[j].point, map[k].point)
      BY <2>1, <3>1 DEF Chain
    <3>3. ~Less(map[k].point, p)
      BY <1>3, <2>1
    <3> QED
      BY <1>1, <1>3, <2>1, <3>1, <3>2, <3>3, LessFacts
  <2> QED
    BY <1>1, <1>2, <1>5, <2>2, <2>3
<1>6. Inserted(map, p, n, k) = new
  <2>1. k = 1 \/ Less(map[k - 1].point, p)
    BY <1>1, <1>2, <1>4
  <2> QED
    BY <2>1 DEF Inserted
<1>7. entry \in MapEntry /\ entry.point = p
  BY <1>1 DEF MapEntry
<1> HIDE DEF entry
<1>8. WithEntry(new, map, k, entry)
  BY <1>2, <1>7, MapEntryInserted
<1> HIDE DEF new
<1>9. ASSUME NEW i \in 1 .. Len(map) + 1, NEW j \in 1 .. Len(map) + 1, i < j
      PROVE  Less(new[i].point, new[j].point)
  <2>1. CASE j < k
    <3>1. new[i] = map[i] /\ new[j] = map[j] /\ i \in DOMAIN map /\ j \in DOMAIN map
      BY <1>1, <1>2, <1>8, <1>9, <2>1 DEF WithEntry
    <3> QED
      BY <1>9, <3>1 DEF InOrder
  <2>2. CASE j = k
    <3>1. new[i] = map[i] /\ new[j].point = p /\ i \in DOMAIN map /\ i < k
      BY <1>1, <1>2, <1>7, <1>8, <1>9, <2>2 DEF WithEntry
    <3> QED
      BY <1>4, <3>1
  <2>3. CASE i < k /\ k < j
    <3>1. new[i] = map[i] /\ new[j] = map[j - 1] /\ i \in DOMAIN map /\ j - 1 \in DOMAIN map /\ i < j - 1
      BY <1>1, <1>2, <1>8, <1>9, <2>3 DEF WithEntry
    <3> QED
      BY <3>1 DEF InOrder
  <2>4. CASE i = k
    <3>1. new[i].point = p /\ new[j] = map[j - 1] /\ j - 1 \in DOMAIN map /\ k <= j - 1
      BY <1>1, <1>2, <1>7, <1>8, <1>9, <2>4 DEF WithEntry
    <3> QED
      BY <1>5, <3>1
  <2>5. CASE k < i
    <3>1. /\ new[i] = map[i - 1] /\ new[j] = map[j - 1]
          /\ i - 1 \in DOMAIN map /\ j - 1 \in DOMAIN map /\ i - 1 < j - 1
      BY <1>1, <1>2, <1>8, <1>9, <2>5 DEF WithEntry
    <3> QED
      BY <3>1 DEF InOrder
  <2> QED
    BY <1>2, <1>9, <2>1, <2>2, <2>3, <2>4, <2>5
<1>10. InOrder(new)
  BY <1>8, <1>9 DEF InOrder, WithEntry
<1> QED
  BY <1>2, <1>6, <1>10 DEF new, entry

\* The mesh after n points: what is returned for them, and what is in the map.
Stands(points, n, mesh) ==
  /\ mesh \in Mesh
  /\ Len(mesh.returned) = n
  /\ \A k \in 1 .. n : /\ mesh.returned[k] \in 0 .. Len(mesh.vertices) - 1
                       /\ mesh.vertices[mesh.returned[k] + 1] = points[k]
  /\ \A i \in DOMAIN mesh.vertices : \E k \in 1 .. n : mesh.returned[k] = i - 1
  /\ \A k \in DOMAIN mesh.map : /\ mesh.map[k].index \in 0 .. Len(mesh.vertices) - 1
                                /\ mesh.vertices[mesh.map[k].index + 1] = mesh.map[k].point

\* If the points are ordered, so is the map, which then has each vertex once.
OnceEach(mesh) ==
  /\ InOrder(mesh.map)
  /\ \A i \in DOMAIN mesh.vertices : \E k \in DOMAIN mesh.map : mesh.map[k].point = mesh.vertices[i]
  /\ \A i, j \in DOMAIN mesh.vertices : mesh.vertices[i] = mesh.vertices[j] => i = j

LEMMA MeshParts ==
  ASSUME NEW mesh \in Mesh
  PROVE  /\ mesh.vertices \in Seq(Point) /\ mesh.map \in Seq(MapEntry) /\ mesh.returned \in Seq(Nat)
         /\ Len(mesh.vertices) \in Nat /\ Len(mesh.map) \in Nat
         /\ DOMAIN mesh.vertices = 1 .. Len(mesh.vertices) /\ DOMAIN mesh.map = 1 .. Len(mesh.map)
<1>1. mesh.vertices \in Seq(Point) /\ mesh.map \in Seq(MapEntry) /\ mesh.returned \in Seq(Nat)
  BY DEF Mesh
<1> QED
  BY <1>1

\* All that the map holds was given to the mesh.
LEMMA MapHoldsPoints ==
  ASSUME NEW points \in Seq(Point), NEW n \in Nat, n <= Len(points),
         NEW mesh, Stands(points, n, mesh)
  PROVE  /\ \A i \in DOMAIN mesh.vertices : mesh.vertices[i] \in Range(points)
         /\ \A k \in DOMAIN mesh.map : mesh.map[k].point \in Range(points)
<1>1. mesh \in Mesh
  BY DEF Stands
<1>2. ASSUME NEW i \in DOMAIN mesh.vertices PROVE mesh.vertices[i] \in Range(points)
  <2>1. PICK k \in 1 .. n : mesh.returned[k] = i - 1
    BY <1>2 DEF Stands
  <2>2. mesh.vertices[(i - 1) + 1] = points[k] /\ k \in DOMAIN points
    BY <2>1 DEF Stands
  <2>3. i \in Int
    BY <1>1, MeshParts
  <2>4. (i - 1) + 1 = i
    BY <2>3
  <2> QED
    BY <2>2, <2>4 DEF Range
<1>3. ASSUME NEW k \in DOMAIN mesh.map PROVE mesh.map[k].point \in Range(points)
  <2>1. /\ mesh.map[k].index \in 0 .. Len(mesh.vertices) - 1
        /\ mesh.vertices[mesh.map[k].index + 1] = mesh.map[k].point
    BY DEF Stands
  <2>2. mesh.map[k].index + 1 \in DOMAIN mesh.vertices
    BY <1>1, <2>1, MeshParts
  <2> QED
    BY <1>2, <2>1, <2>2
<1> QED
  BY <1>2, <1>3

LEMMA VertexFound ==
  ASSUME NEW points \in Seq(Point), NEW n \in 1 .. Len(points),
         NEW mesh, Stands(points, n - 1, mesh),
         NEW k \in LowerBounds(mesh.map, points[n]), FoundAt(mesh.map, points[n], k)
  PROVE  LET result == [mesh EXCEPT !.returned = Append(@, mesh.map[k].index)]
         IN  Stands(points, n, result) /\ (OnceEach(mesh) => OnceEach(result))
<1> DEFINE result == [mesh EXCEPT !.returned = Append(@, mesh.map[k].index)]
           number == mesh.map[k].index
<1>1. mesh \in Mesh /\ points[n] \in Point /\ n \in Nat /\ n - 1 \in Nat /\ Len(mesh.returned) = n - 1
  BY DEF Stands
<1>2. k \in DOMAIN mesh.map /\ mesh.map[k].point = points[n]
  BY <1>1, MeshParts, FoundIsEqual
<1>3. number \in 0 .. Len(mesh.vertices) - 1 /\ mesh.vertices[number + 1] = points[n]
  BY <1>2 DEF Stands
<1>4. number \in Nat
  BY <1>1, <1>3, MeshParts
<1>5. /\ result.vertices = mesh.vertices /\ result.map = mesh.map
      /\ result.returned = Append(mesh.returned, number)
      /\ result \in Mesh
  <2> DEFINE all == Append(mesh.returned, number)
  <2>1. all \in Seq(Nat)
    BY <1>1, <1>4, MeshParts
  <2>2. result = [mesh EXCEPT !.returned = all]
    OBVIOUS
  <2> HIDE DEF all, result, number
  <2>3. [mesh EXCEPT !.returned = all] \in Mesh
    BY <1>1, <2>1 DEF Mesh
  <2>4. result.vertices = mesh.vertices /\ result.map = mesh.map /\ result.returned = all
    BY <1>1, <2>2 DEF Mesh
  <2> QED
    BY <2>2, <2>3, <2>4 DEF all
<1> HIDE DEF result, number
<1>6. /\ Len(result.returned) = n
      /\ result.returned[n] = number
      /\ \A j \in 1 .. n - 1 : result.returned[j] = mesh.returned[j]
  BY <1>1, <1>4, <1>5, MeshParts
<1>7. ASSUME NEW j \in 1 .. n
      PROVE  /\ result.returned[j] \in 0 .. Len(result.vertices) - 1
             /\ result.vertices[result.returned[j] + 1] = points[j]
  <2>1. CASE j = n
    BY <1>3, <1>5, <1>6, <2>1
  <2>2. CASE j \in 1 .. n - 1
    BY <1>5, <1>6, <2>2 DEF Stands
  <2> QED
    BY <1>1, <2>1, <2>2
<1>8. ASSUME NEW i \in DOMAIN result.vertices PROVE \E j \in 1 .. n : result.returned[j] = i - 1
  <2>1. PICK j \in 1 .. n - 1 : mesh.returned[j] = i - 1
    BY <1>5 DEF Stands
  <2> QED
    BY <1>1, <1>6, <2>1
<1>9. Stands(points, n, result)
  <2>1. \A j \in DOMAIN result.map : /\ result.map[j].index \in 0 .. Len(result.vertices) - 1
                                     /\ result.vertices[result.map[j].index + 1] = result.map[j].point
    BY <1>5 DEF Stands
  <2> QED
    BY <1>5, <1>6, <1>7, <1>8, <2>1 DEF Stands
<1>10. OnceEach(mesh) => OnceEach(result)
  BY <1>5 DEF OnceEach
<1> QED
  BY <1>9, <1>10 DEF result, number

LEMMA VertexAppended ==
  ASSUME NEW points \in Seq(Point), NEW n \in 1 .. Len(points),
         NEW mesh, Stands(points, n - 1, mesh),
         NEW map \in Seq(MapEntry),
         \A j \in DOMAIN map : \/ \E k \in DOMAIN mesh.map : map[j] = mesh.map[k]
                               \/ map[j] = [point |-> points[n], index |-> Len(mesh.vertices)]
  PROVE  Stands(points, n, [vertices |-> Append(mesh.vertices, points[n]), map |-> map,
                            returned |-> Append(mesh.returned, Len(mesh.vertices))])
<1> DEFINE result == [vertices |-> Append(mesh.vertices, points[n]), map |-> map,
                      returned |-> Append(mesh.returned, Len(mesh.vertices))]
           m      == Len(mesh.vertices)
<1>1. mesh \in Mesh /\ points[n] \in Point /\ n \in Nat /\ n - 1 \in Nat /\ Len(mesh.returned) = n - 1
  BY DEF Stands
<1>2. m \in Nat /\ DOMAIN mesh.vertices = 1 .. m
  BY <1>1, MeshParts
<1>3. result.vertices = Append(mesh.vertices, points[n]) /\ result.map = map /\ result.returned = Append(mesh.returned, m)
  OBVIOUS
<1>4. result \in Mesh
  <2>1. Append(mesh.vertices, points[n]) \in Seq(Point) /\ Append(mesh.returned, m) \in Seq(Nat)
    BY <1>1, <1>2, MeshParts
  <2> QED
    BY <2>1 DEF Mesh
<1> HIDE DEF result
<1>5. /\ Len(result.vertices) = m + 1 /\ DOMAIN result.vertices = 1 .. m + 1
      /\ result.vertices[m + 1] = points[n]
      /\ \A i \in 1 .. m : result.vertices[i] = mesh.vertices[i]
  BY <1>1, <1>2, <1>3, MeshParts
<1>6. /\ Len(result.returned) = n
      /\ result.returned[n] = m
      /\ \A j \in 1 .. n - 1 : result.returned[j] = mesh.returned[j]
  BY <1>1, <1>2, <1>3, MeshParts
<1>7. ASSUME NEW r \in 0 .. m - 1 PROVE r \in 0 .. Len(result.vertices) - 1 /\ result.vertices[r + 1] = mesh.vertices[r + 1]
  BY <1>2, <1>5
<1>8. m \in 0 .. Len(result.vertices) - 1 /\ result.vertices[m + 1] = points[n]
  BY <1>2, <1>5
<1>9. ASSUME NEW j \in 1 .. n
      PROVE  /\ result.returned[j] \in 0 .. Len(result.vertices) - 1
             /\ result.vertices[result.returned[j] + 1] = points[j]
  <2>1. CASE j = n
    BY <1>6, <1>8, <2>1
  <2>2. CASE j \in 1 .. n - 1
    <3>1. mesh.returned[j] \in 0 .. m - 1 /\ mesh.vertices[mesh.returned[j] + 1] = points[j]
      BY <2>2 DEF Stands
    <3> QED
      BY <1>6, <1>7, <2>2, <3>1
  <2> QED
    BY <1>1, <2>1, <2>2
<1>10. ASSUME NEW i \in DOMAIN result.vertices PROVE \E j \in 1 .. n : result.returned[j] = i - 1
  <2>1. CASE i = m + 1
    <3>1. i - 1 = m /\ n \in 1 .. n
      BY <1>1, <1>2, <2>1
    <3> QED
      BY <1>6, <3>1
  <2>2. CASE i \in 1 .. m
    <3>1. PICK j \in 1 .. n - 1 : mesh.returned[j] = i - 1
      BY <1>2, <2>2 DEF Stands
    <3> QED
      BY <1>1, <1>6, <3>1
  <2> QED
    BY <1>2, <1>5, <2>1, <2>2
<1>11. ASSUME NEW j \in DOMAIN result.map
       PROVE  /\ result.map[j].index \in 0 .. Len(result.vertices) - 1
              /\ result.vertices[result.map[j].index + 1] = result.map[j].point
  <2>1. CASE \E k \in DOMAIN mesh.map : map[j] = mesh.map[k]
    <3>1. PICK k \in DOMAIN mesh.map : map[j] = mesh.map[k]
      BY <2>1
    <3>2. mesh.map[k].index \in 0 .. m - 1 /\ mesh.vertices[mesh.map[k].index + 1] = mesh.map[k].point
      BY DEF Stands
    <3> QED
      BY <1>3, <1>7, <3>1, <3>2
  <2>2. CASE map[j] = [point |-> points[n], index |-> m]
    <3>1. map[j].point = points[n] /\ map[j].index = m
      BY <2>2
    <3> QED
      BY <1>3, <1>8, <3>1
  <2> QED
    BY <1>3, <2>1, <2>2
<1>12. Stands(points, n, result)
  BY <1>4, <1>6, <1>9, <1>10, <1>11 DEF Stands
<1> QED
  BY <1>12 DEF result

\* A vertex that the map did not find, if the points are ordered, is new.
LEMMA OnceEachAppended ==
  ASSUME NEW points \in Seq(Point), NEW n \in 1 .. Len(points),
         NEW mesh, Stands(points, n - 1, mesh), Chain(Range(points)), OnceEach(mesh),
         NEW j \in LowerBounds(mesh.map, points[n]), ~FoundAt(mesh.map, points[n], j),
         NEW k \in Places(mesh.map, points[n])
  PROVE  LET m == Len(mesh.vertices)
         IN  OnceEach([vertices |-> Append(mesh.vertices, points[n]),
                       map |-> Inserted(mesh.map, points[n], m, k),
                       returned |-> Append(mesh.returned, m)])
<1> DEFINE m      == Len(mesh.vertices)
           p      == points[n]
           map    == mesh.map
           entry  == [point |-> p, index |-> m]
           new    == Inserted(map, p, m, k)
           result == [vertices |-> Append(mesh.vertices, p), map |-> new, returned |-> Append(mesh.returned, m)]
<1>1. mesh \in Mesh /\ p \in Point /\ n \in Nat /\ n - 1 \in Nat /\ n - 1 <= Len(points) /\ p \in Range(points)
  BY DEF Stands, Range
<1>2. /\ m \in Nat /\ DOMAIN mesh.vertices = 1 .. m /\ mesh.vertices \in Seq(Point)
      /\ map \in Seq(MapEntry) /\ Len(map) \in Nat /\ DOMAIN map = 1 .. Len(map)
  BY <1>1, MeshParts
<1>3. InOrder(map) /\ \A i \in DOMAIN map : map[i].point \in Range(points)
  BY <1>1, MapHoldsPoints DEF OnceEach
<1>4. ASSUME NEW i \in DOMAIN map PROVE map[i].point # p
  <2> SUFFICES ASSUME map[i].point = p PROVE FALSE
    OBVIOUS
  <2>1. j \in LowerBounds(map, map[i].point) /\ ~FoundAt(map, map[i].point, j)
    OBVIOUS
  <2> HIDE DEF map, p
  <2> QED
    BY <1>2, <1>3, <2>1, EveryPointIsFound
<1>5. new = InsertAt(map, k, entry) /\ k \in 1 .. Len(map) + 1 /\ InOrder(new)
  <2>1. k \in Places(map, p)
    OBVIOUS
  <2> HIDE DEF map, p, m
  <2> QED
    BY <1>1, <1>2, <1>3, <1>4, <2>1, InsertedInOrder
<1>6. entry \in MapEntry /\ entry.point = p
  BY <1>1, <1>2 DEF MapEntry
<1>7. WithEntry(new, map, k, entry)
  <2> HIDE DEF map, entry, new
  <2> QED
    BY <1>2, <1>5, <1>6, MapEntryInserted
<1>8. result.vertices = Append(mesh.vertices, p) /\ result.map = new
  OBVIOUS
<1> HIDE DEF new, entry, result, map, p
<1>9. /\ DOMAIN result.vertices = 1 .. m + 1
      /\ result.vertices[m + 1] = p
      /\ \A i \in 1 .. m : result.vertices[i] = mesh.vertices[i]
  BY <1>1, <1>2, <1>8
<1>10. DOMAIN new = 1 .. Len(map) + 1
  BY <1>7 DEF WithEntry
<1>11. ASSUME NEW i \in DOMAIN result.vertices
       PROVE  \E h \in DOMAIN result.map : result.map[h].point = result.vertices[i]
  <2>1. CASE i = m + 1
    <3>1. k \in DOMAIN new /\ new[k] = entry
      BY <1>2, <1>5, <1>7, <1>10 DEF WithEntry
    <3> QED
      BY <1>6, <1>8, <1>9, <2>1, <3>1
  <2>2. CASE i \in 1 .. m
    <3>1. PICK h \in DOMAIN map : map[h].point = mesh.vertices[i]
      BY <1>2, <2>2 DEF OnceEach, map
    <3>2. CASE h < k
      <4>1. h \in DOMAIN new /\ new[h] = map[h]
        BY <1>2, <1>7, <1>10, <3>2 DEF WithEntry
      <4> QED
        BY <1>8, <1>9, <2>2, <3>1, <4>1
    <3>3. CASE k <= h
      <4>1. h + 1 \in DOMAIN new /\ ~(h + 1 < k) /\ h + 1 # k /\ (h + 1) - 1 = h
        BY <1>2, <1>5, <1>10, <3>3
      <4>2. new[h + 1] = map[h]
        BY <1>7, <1>10, <4>1 DEF WithEntry
      <4> QED
        BY <1>8, <1>9, <2>2, <3>1, <4>1, <4>2
    <3> QED
      BY <1>2, <1>5, <3>2, <3>3
  <2> QED
    BY <1>2, <1>9, <2>1, <2>2
<1>12. ASSUME NEW i \in 1 .. m PROVE mesh.vertices[i] # p
  <2>1. PICK h \in DOMAIN map : map[h].point = mesh.vertices[i]
    BY <1>2 DEF OnceEach, map
  <2> QED
    BY <1>4, <2>1
<1>13. ASSUME NEW i \in DOMAIN result.vertices, NEW h \in DOMAIN result.vertices,
              result.vertices[i] = result.vertices[h]
       PROVE  i = h
  <2>1. CASE i \in 1 .. m /\ h \in 1 .. m
    BY <1>2, <1>9, <1>13, <2>1 DEF OnceEach
  <2>2. CASE i = m + 1 /\ h \in 1 .. m
    BY <1>9, <1>12, <1>13, <2>2
  <2>3. CASE i \in 1 .. m /\ h = m + 1
    BY <1>9, <1>12, <1>13, <2>3
  <2> QED
    BY <1>2, <1>9, <2>1, <2>2, <2>3
<1>14. OnceEach(result)
  BY <1>5, <1>8, <1>11, <1>13 DEF OnceEach
<1> QED
  BY <1>14 DEF result, new, map, p

LEMMA VertexAdded ==
  ASSUME NEW points \in Seq(Point), NEW n \in 1 .. Len(points),
         NEW mesh, Stands(points, n - 1, mesh)
  PROVE  /\ addVertex(mesh, points[n]) # {}
         /\ \A result \in addVertex(mesh, points[n]) :
              /\ Stands(points, n, result)
              /\ Chain(Range(points)) /\ OnceEach(mesh) => OnceEach(result)
<1> DEFINE p        == points[n]
           m        == Len(mesh.vertices)
           With(k)  == [mesh EXCEPT !.returned = Append(@, mesh.map[k].index)]
           Anew(k)  == [vertices |-> Append(mesh.vertices, p), map |-> Inserted(mesh.map, p, m, k),
                        returned |-> Append(mesh.returned, m)]
           hits     == {j \in LowerBounds(mesh.map, p) : FoundAt(mesh.map, p, j)}
           missed   == \E j \in LowerBounds(mesh.map, p) : ~FoundAt(mesh.map, p, j)
<1>1. mesh \in Mesh /\ p \in Point
  BY DEF Stands
<1>2. m \in Nat /\ mesh.map \in Seq(MapEntry) /\ Len(mesh.map) \in Nat
  BY <1>1, MeshParts
<1>3. addVertex(mesh, p) = {With(k) : k \in hits} \cup (IF missed THEN {Anew(k) : k \in Places(mesh.map, p)} ELSE {})
  BY DEF addVertex
<1>4. ASSUME NEW k \in hits
      PROVE  Stands(points, n, With(k)) /\ (OnceEach(mesh) => OnceEach(With(k)))
  BY VertexFound
<1>5. ASSUME NEW k \in Places(mesh.map, p), missed
      PROVE  Stands(points, n, Anew(k)) /\ (Chain(Range(points)) /\ OnceEach(mesh) => OnceEach(Anew(k)))
  <2> DEFINE entry == [point |-> p, index |-> m]
             new   == Inserted(mesh.map, p, m, k)
  <2>1. k \in 1 .. Len(mesh.map) + 1
    BY <1>2, SearchEnds DEF Places
  <2>2. entry \in MapEntry
    BY <1>1, <1>2 DEF MapEntry
  <2>3. new = mesh.map \/ new = InsertAt(mesh.map, k, entry)
    BY DEF Inserted
  <2> HIDE DEF entry, new
  <2>4. /\ new \in Seq(MapEntry)
        /\ \A j \in DOMAIN new : (\E h \in DOMAIN mesh.map : new[j] = mesh.map[h]) \/ new[j] = entry
    <3>1. CASE new = mesh.map
      BY <1>2, <3>1
    <3>2. CASE new = InsertAt(mesh.map, k, entry)
      <4>1. WithEntry(new, mesh.map, k, entry)
        BY <1>2, <2>1, <2>2, <3>2, MapEntryInserted
      <4>2. ASSUME NEW j \in DOMAIN new
            PROVE  (\E h \in DOMAIN mesh.map : new[j] = mesh.map[h]) \/ new[j] = entry
        <5>1. j \in 1 .. Len(mesh.map) + 1
          BY <4>1 DEF WithEntry
        <5>2. CASE j < k
          <6>1. j \in DOMAIN mesh.map /\ new[j] = mesh.map[j]
            BY <1>2, <2>1, <4>1, <5>1, <5>2 DEF WithEntry
          <6> QED
            BY <6>1
        <5>3. CASE j > k
          <6>1. j - 1 \in DOMAIN mesh.map /\ new[j] = mesh.map[j - 1]
            BY <1>2, <2>1, <4>1, <5>1, <5>3 DEF WithEntry
          <6> QED
            BY <6>1
        <5> QED
          BY <2>1, <4>1, <5>1, <5>2, <5>3 DEF WithEntry
      <4> QED
        BY <4>1, <4>2 DEF WithEntry
    <3> QED
      BY <2>3, <3>1, <3>2
  <2>5. Stands(points, n, Anew(k))
    <3>1. Stands(points, n, [vertices |-> Append(mesh.vertices, p), map |-> new, returned |-> Append(mesh.returned, m)])
      BY <2>4, VertexAppended DEF entry
    <3> QED
      BY <3>1 DEF new
  <2>6. Chain(Range(points)) /\ OnceEach(mesh) => OnceEach(Anew(k))
    BY <1>5, OnceEachAppended
  <2> QED
    BY <2>5, <2>6
<1>6. Places(mesh.map, p) # {} /\ LowerBounds(mesh.map, p) # {}
  BY <1>2, SearchEnds DEF Places, LowerBounds
<1>7. hits # {} \/ missed
  BY <1>6
<1> HIDE DEF hits, missed, With, Anew, p
<1>8. addVertex(mesh, p) # {}
  BY <1>3, <1>6, <1>7
<1>9. ASSUME NEW result \in addVertex(mesh, p)
      PROVE  /\ Stands(points, n, result)
             /\ Chain(Range(points)) /\ OnceEach(mesh) => OnceEach(result)
  <2>1. CASE result \in {With(k) : k \in hits}
    BY <1>4, <2>1
  <2>2. CASE missed /\ result \in {Anew(k) : k \in Places(mesh.map, p)}
    BY <1>5, <2>2
  <2> QED
    BY <1>3, <2>1, <2>2
<1> QED
  BY <1>8, <1>9 DEF p

LEMMA GoodIsNumbered ==
  ASSUME NEW points \in Seq(Point), NEW mesh \in Mesh,
         Stands(points, Len(points), mesh), Chain(Range(points)) => OnceEach(mesh)
  PROVE  Numbered(points, mesh)
<1> DEFINE V == mesh.vertices
<1>1. V \in Seq(Point) /\ Len(V) \in Nat /\ DOMAIN V = 1 .. Len(V) /\ mesh.returned \in Seq(Nat)
  BY MeshParts
<1>2. /\ Len(mesh.returned) = Len(points)
      /\ \A k \in 1 .. Len(points) : mesh.returned[k] \in 0 .. Len(V) - 1 /\ V[mesh.returned[k] + 1] = points[k]
      /\ \A i \in DOMAIN V : \E k \in 1 .. Len(points) : mesh.returned[k] = i - 1
  BY DEF Stands
<1>3. DOMAIN points = 1 .. Len(points) /\ Len(points) \in Nat /\ DOMAIN mesh.returned = 1 .. Len(points)
  BY <1>1, <1>2
<1>4. Range(V) = Range(points)
  <2>1. ASSUME NEW k \in DOMAIN points PROVE points[k] \in Range(V)
    <3>1. mesh.returned[k] + 1 \in DOMAIN V /\ V[mesh.returned[k] + 1] = points[k]
      BY <1>1, <1>2, <1>3
    <3> QED
      BY <3>1 DEF Range
  <2>2. \A i \in DOMAIN V : V[i] \in Range(points)
    BY <1>3, MapHoldsPoints
  <2> QED
    BY <2>1, <2>2 DEF Range
<1>5. \A i \in DOMAIN V : i - 1 \in Range(mesh.returned)
  BY <1>2, <1>3 DEF Range
<1>6. ASSUME Ordered(points) PROVE Len(V) = Cardinality(Range(points))
  <2>1. Chain(Range(points))
    <3>1. Range(points) \subseteq Point
      BY <1>3 DEF Range
    <3> QED
      BY <1>6, <3>1 DEF Chain, Ordered
  <2>2. \A i, j \in DOMAIN V : V[i] = V[j] => i = j
    BY <2>1 DEF OnceEach
  <2>3. V \in Bijection(1 .. Len(V), Range(V))
    <3>1. V \in [1 .. Len(V) -> Range(V)]
      BY <1>1 DEF Range
    <3>2. \A v \in Range(V) : \E i \in 1 .. Len(V) : V[i] = v
      BY <1>1 DEF Range
    <3> HIDE DEF V
    <3> QED
      BY <1>1, <2>2, <3>1, <3>2 DEF Bijection, Injection, Surjection, IsInjective
  <2>4. IsFiniteSet(1 .. Len(V)) /\ Cardinality(1 .. Len(V)) = Len(V)
    <3> HIDE DEF V
    <3>1. 1 \in Int /\ Len(V) \in Int
      BY <1>1
    <3>2. Cardinality(1 .. Len(V)) = IF 1 > Len(V) THEN 0 ELSE Len(V) - 1 + 1
      BY <3>1, FS_Interval
    <3>3. IsFiniteSet(1 .. Len(V))
      BY <3>1, FS_Interval
    <3> QED
      BY <1>1, <3>2, <3>3
  <2>5. Cardinality(1 .. Len(V)) = Cardinality(Range(V))
    <3> HIDE DEF V
    <3> QED
      BY <2>3, <2>4, FS_Bijection DEF ExistsBijection
  <2> QED
    BY <1>4, <2>4, <2>5
<1> QED
  BY <1>1, <1>2, <1>3, <1>4, <1>5, <1>6 DEF Numbered

(* A mesh numbers its vertices rightly, for any points in any order: every *)
(* number that addVertex returns stands for a vertex where the point is,   *)
(* whatever shape the map's tree has under an operator< that is no order,  *)
(* and points that operator< does order are numbered once each.            *)
THEOREM VerticesAreNumbered ==
  ASSUME NEW points \in Seq([x : Int, y : Int, z : Int])
  PROVE  /\ addVertices(points) # {}
         /\ \A mesh \in addVertices(points) : Numbered(points, mesh)
<1> DEFINE m       == Len(points)
           All(s, n) == UNION {addVertex(mesh, points[n]) : mesh \in s}
           Upto(h)   == h = [n \in 0 .. m |-> IF n = 0 THEN {EmptyMesh} ELSE All(h[n - 1], n)]
           after     == CHOOSE h : Upto(h)
           Good(n)   == {mesh \in Mesh : Stands(points, n, mesh) /\ (Chain(Range(points)) => OnceEach(mesh))}
           Right(s, n) == s # {} /\ s \subseteq Good(n)
<1>1. points \in Seq(Point) /\ m \in Nat
  BY DEF Point
<1>2. Right({EmptyMesh}, 0)
  <2>1. EmptyMesh.vertices = <<>> /\ EmptyMesh.map = <<>> /\ EmptyMesh.returned = <<>>
    BY DEF EmptyMesh
  <2>2. EmptyMesh \in Mesh
    BY DEF EmptyMesh, Mesh
  <2>3. Stands(points, 0, EmptyMesh)
    BY <2>1, <2>2 DEF Stands
  <2>4. OnceEach(EmptyMesh)
    BY <2>1 DEF OnceEach, InOrder
  <2> QED
    BY <2>2, <2>3, <2>4
<1>3. ASSUME NEW n \in 1 .. m, NEW s, Right(s, n - 1) PROVE Right(All(s, n), n)
  <2>1. ASSUME NEW mesh \in s
        PROVE  addVertex(mesh, points[n]) # {} /\ addVertex(mesh, points[n]) \subseteq Good(n)
    <3>1. Stands(points, n - 1, mesh) /\ (Chain(Range(points)) => OnceEach(mesh))
      BY <1>3
    <3>2. addVertex(mesh, points[n]) # {}
      BY <1>1, <3>1, VertexAdded
    <3>3. ASSUME NEW result \in addVertex(mesh, points[n]) PROVE result \in Good(n)
      <4>1. Stands(points, n, result) /\ (Chain(Range(points)) /\ OnceEach(mesh) => OnceEach(result))
        BY <1>1, <3>1, VertexAdded
      <4>2. result \in Mesh
        BY <4>1 DEF Stands
      <4> QED
        BY <3>1, <4>1, <4>2
    <3> QED
      BY <3>2, <3>3
  <2>2. s # {}
    BY <1>3
  <2> HIDE DEF Good
  <2> QED
    BY <2>1, <2>2
<1>4. \E h : Upto(h)
  <2> DEFINE Entry(h, n) == IF n = 0 THEN {EmptyMesh} ELSE All(h[n - 1], n)
             Part(h, l)  == h = [n \in 0 .. l |-> Entry(h, n)]
             T           == {l \in Nat : \E h : Part(h, l)}
  <2> HIDE DEF All
  <2>1. 0 \in T
    <3> DEFINE h == [n \in 0 .. 0 |-> {EmptyMesh}]
    <3>1. Part(h, 0)
      OBVIOUS
    <3> QED
      BY <3>1
  <2>2. ASSUME NEW l \in Nat, l \in T PROVE l + 1 \in T
    <3>1. PICK h : Part(h, l)
      BY <2>2
    <3> DEFINE g == [n \in 0 .. l + 1 |-> IF n = l + 1 THEN All(h[l], l + 1) ELSE h[n]]
    <3>2. ASSUME NEW n \in 0 .. l + 1 PROVE g[n] = Entry(g, n)
      <4>1. CASE n = l + 1
        <5>1. n # 0 /\ n - 1 = l /\ l \in 0 .. l + 1 /\ l # l + 1
          BY <4>1
        <5>2. g[l] = h[l] /\ g[n] = All(h[l], n)
          BY <4>1, <5>1
        <5> HIDE DEF g
        <5> QED
          BY <5>1, <5>2
      <4>2. CASE n \in 0 .. l
        <5>1. g[n] = h[n]
          BY <4>2
        <5>2. h[n] = Entry(h, n)
          <6> HIDE DEF Entry
          <6> QED
            BY <3>1, <4>2
        <5>3. n # 0 => g[n - 1] = h[n - 1]
          BY <4>2
        <5> HIDE DEF g
        <5> QED
          BY <5>1, <5>2, <5>3
      <4> QED
        BY <4>1, <4>2
    <3>3. g = [n \in 0 .. l + 1 |-> g[n]]
      OBVIOUS
    <3> HIDE DEF g
    <3>4. Part(g, l + 1)
      <4> HIDE DEF Entry
      <4> QED
        BY <3>2, <3>3
    <3> HIDE DEF Part
    <3> QED
      BY <3>4
  <2>3. Nat \subseteq T
    <3> HIDE DEF T
    <3> QED
      BY <2>1, <2>2, Induction
  <2>4. PICK h : Part(h, m)
    <3> HIDE DEF Part
    <3> QED
      BY <1>1, <2>3
  <2> QED
    BY <2>4
<1>5. Upto(after)
  <2> HIDE DEF Upto
  <2> QED
    BY <1>4
<1> DEFINE U == {n \in Nat : n \in 0 .. m => Right(after[n], n)}
<1>6. ASSUME NEW n \in 0 .. m PROVE after[n] = IF n = 0 THEN {EmptyMesh} ELSE All(after[n - 1], n)
  <2>1. after = [k \in 0 .. m |-> IF k = 0 THEN {EmptyMesh} ELSE All(after[k - 1], k)]
    <3> HIDE DEF All, after
    <3> QED
      BY <1>5
  <2> HIDE DEF All, after
  <2> QED
    BY <2>1, Zenon
<1>7. 0 \in U
  <2>1. after[0] = {EmptyMesh}
    <3> HIDE DEF after, All
    <3> QED
      BY <1>1, <1>6
  <2> HIDE DEF after, Right
  <2> QED
    BY <1>2, <2>1
<1>8. ASSUME NEW n \in Nat, n \in U PROVE n + 1 \in U
  <2> HIDE DEF after, Right, All
  <2>1. SUFFICES ASSUME n + 1 \in 0 .. m PROVE Right(after[n + 1], n + 1)
    OBVIOUS
  <2>2. n \in 0 .. m /\ n + 1 \in 1 .. m /\ n + 1 # 0 /\ (n + 1) - 1 = n
    BY <1>1, <2>1
  <2>3. Right(after[n], (n + 1) - 1)
    BY <1>8, <2>2
  <2>4. after[n + 1] = All(after[n], n + 1)
    BY <1>6, <2>1, <2>2
  <2> QED
    BY <1>3, <2>2, <2>3, <2>4
<1>9. Right(after[m], m)
  <2>1. Nat \subseteq U
    <3> HIDE DEF U
    <3> QED
      BY <1>7, <1>8, Induction
  <2>2. m \in 0 .. m
    BY <1>1
  <2> HIDE DEF Right, after
  <2> QED
    BY <1>1, <2>1, <2>2
<1>10. addVertices(points) = after[m]
  BY DEF addVertices
<1> HIDE DEF after
<1>11. ASSUME NEW mesh \in after[m] PROVE Numbered(points, mesh)
  BY <1>1, <1>9, <1>11, GoodIsNumbered
<1> QED
  BY <1>9, <1>10, <1>11

\* The values of f at 1 to n have a least and a greatest one.
LEMMA Extremes ==
  ASSUME NEW n \in Nat \ {0}, NEW f \in [1 .. n -> Int]
  PROVE  \E i, j \in 1 .. n : \A k \in 1 .. n : f[i] <= f[k] /\ f[k] <= f[j]
<1> DEFINE Within(l) == \E i, j \in 1 .. l : \A k \in 1 .. l : f[i] <= f[k] /\ f[k] <= f[j]
           T == {l \in Nat : l \in 1 .. n => Within(l)}
<1>1. 0 \in T
  OBVIOUS
<1>2. ASSUME NEW l \in Nat, l \in T PROVE l + 1 \in T
  <2>1. SUFFICES ASSUME l + 1 \in 1 .. n PROVE Within(l + 1)
    <3> HIDE DEF Within
    <3> QED
      OBVIOUS
  <2>2. CASE l = 0
    <3>1. l + 1 = 1 /\ 1 \in 1 .. n
      BY <2>1, <2>2
    <3>2. f[1] \in Int
      BY <3>1
    <3>3. \A k \in 1 .. 1 : k = 1 /\ f[1] <= f[k] /\ f[k] <= f[1]
      BY <3>2
    <3>4. 1 \in 1 .. 1
      OBVIOUS
    <3>5. Within(1)
      BY <3>3, <3>4
    <3> QED
      BY <3>1, <3>5
  <2>3. CASE l # 0
    <3>1. l \in 1 .. n
      BY <2>1, <2>3
    <3>2. PICK i \in 1 .. l, j \in 1 .. l : \A k \in 1 .. l : f[i] <= f[k] /\ f[k] <= f[j]
      <4>1. Within(l)
        <5> HIDE DEF Within
        <5> QED
          BY <1>2, <3>1
      <4> QED
        BY <4>1
    <3> DEFINE a == IF f[l + 1] < f[i] THEN l + 1 ELSE i
               b == IF f[j] < f[l + 1] THEN l + 1 ELSE j
    <3>3. a \in 1 .. l + 1 /\ b \in 1 .. l + 1
      OBVIOUS
    <3>4. \A k \in 1 .. l + 1 : f[k] \in Int
      BY <2>1
    <3>5. /\ f[a] <= f[l + 1] /\ f[l + 1] <= f[b]
          /\ f[a] <= f[i] /\ f[j] <= f[b]
      BY <3>2, <3>4
    <3> HIDE DEF a, b
    <3>6. ASSUME NEW k \in 1 .. l + 1 PROVE f[a] <= f[k] /\ f[k] <= f[b]
      <4>1. CASE k = l + 1
        BY <3>5, <4>1
      <4>2. CASE k \in 1 .. l
        <5>1. f[i] <= f[k] /\ f[k] <= f[j]
          BY <3>2, <4>2
        <5>2. f[a] \in Int /\ f[b] \in Int /\ f[i] \in Int /\ f[j] \in Int /\ f[k] \in Int
          BY <3>2, <3>3, <3>4
        <5> QED
          BY <3>5, <5>1, <5>2
      <4> QED
        BY <4>1, <4>2
    <3> QED
      BY <3>3, <3>6
  <2> QED
    BY <2>2, <2>3
<1>3. Nat \subseteq T
  <2> HIDE DEF T
  <2> QED
    BY <1>1, <1>2, Induction
<1>4. n \in Nat /\ n \in 1 .. n
  OBVIOUS
<1>5. Within(n)
  <2> HIDE DEF Within
  <2> QED
    BY <1>3, <1>4
<1> QED
  BY <1>5

(* The box of getXYplaneBB: no vertex lies outside of it, and each of its  *)
(* sides goes through one.                                                 *)
THEOREM BoxEncloses ==
  ASSUME NEW vertices \in Seq([x : Int, y : Int, z : Int]), vertices # <<>>
  PROVE  Encloses(vertices, getXYplaneBB(vertices))
<1> DEFINE n  == Len(vertices)
           xs == {v.x : v \in Range(vertices)}
           ys == {v.y : v \in Range(vertices)}
           box == getXYplaneBB(vertices)
<1>1. n \in Nat \ {0} /\ DOMAIN vertices = 1 .. n /\ \A k \in 1 .. n : vertices[k] \in Point
  <2>1. n \in Nat /\ DOMAIN vertices = 1 .. n
    OBVIOUS
  <2>2. n # 0
    BY EmptySeq
  <2>3. \A k \in 1 .. n : vertices[k] \in Point
    <3>1. vertices \in Seq(Point)
      BY DEF Point
    <3> QED
      BY <3>1
  <2> HIDE DEF n
  <2> QED
    BY <2>1, <2>2, <2>3
<1>2. /\ \A k \in 1 .. n : vertices[k] \in Range(vertices)
      /\ \A v \in Range(vertices) : \E k \in 1 .. n : v = vertices[k]
  BY <1>1 DEF Range
<1> HIDE DEF n
<1>3. /\ Least(xs) \in xs /\ Greatest(xs) \in xs
      /\ \A w \in xs : Least(xs) <= w /\ w <= Greatest(xs)
  <2> DEFINE f == [k \in 1 .. n |-> vertices[k].x]
  <2>1. f \in [1 .. n -> Int]
    BY <1>1 DEF Point
  <2>2. PICK i \in 1 .. n, j \in 1 .. n : \A k \in 1 .. n : f[i] <= f[k] /\ f[k] <= f[j]
    <3> HIDE DEF f
    <3> QED
      BY <1>1, <2>1, Extremes
  <2>3. \A k \in 1 .. n : f[k] \in xs
    BY <1>2
  <2>4. \A w \in xs : \E k \in 1 .. n : w = f[k]
    BY <1>2
  <2> HIDE DEF xs, f
  <2>5. f[i] \in xs /\ f[j] \in xs /\ \A w \in xs : f[i] <= w /\ w <= f[j]
    BY <2>2, <2>3, <2>4
  <2>6. Least(xs) \in xs /\ \A w \in xs : Least(xs) <= w
    BY <2>5 DEF Least
  <2>7. Greatest(xs) \in xs /\ \A w \in xs : w <= Greatest(xs)
    BY <2>5 DEF Greatest
  <2> QED
    BY <2>6, <2>7
<1>4. /\ Least(ys) \in ys /\ Greatest(ys) \in ys
      /\ \A w \in ys : Least(ys) <= w /\ w <= Greatest(ys)
  <2> DEFINE f == [k \in 1 .. n |-> vertices[k].y]
  <2>1. f \in [1 .. n -> Int]
    BY <1>1 DEF Point
  <2>2. PICK i \in 1 .. n, j \in 1 .. n : \A k \in 1 .. n : f[i] <= f[k] /\ f[k] <= f[j]
    <3> HIDE DEF f
    <3> QED
      BY <1>1, <2>1, Extremes
  <2>3. \A k \in 1 .. n : f[k] \in ys
    BY <1>2
  <2>4. \A w \in ys : \E k \in 1 .. n : w = f[k]
    BY <1>2
  <2> HIDE DEF ys, f
  <2>5. f[i] \in ys /\ f[j] \in ys /\ \A w \in ys : f[i] <= w /\ w <= f[j]
    BY <2>2, <2>3, <2>4
  <2>6. Least(ys) \in ys /\ \A w \in ys : Least(ys) <= w
    BY <2>5 DEF Least
  <2>7. Greatest(ys) \in ys /\ \A w \in ys : w <= Greatest(ys)
    BY <2>5 DEF Greatest
  <2> QED
    BY <2>6, <2>7
<1>5. /\ box[1]["x"] = Least(xs) /\ box[2]["x"] = Greatest(xs)
      /\ box[1]["y"] = Least(ys) /\ box[2]["y"] = Greatest(ys)
  BY DEF getXYplaneBB
<1> HIDE DEF box
<1>6. ASSUME NEW side \in 1 .. 2
      PROVE  /\ \E v \in Range(vertices) : v["x"] = box[side]["x"]
             /\ \E v \in Range(vertices) : v["y"] = box[side]["y"]
  <2>1. box[side]["x"] \in xs /\ box[side]["y"] \in ys
    <3> HIDE DEF xs, ys
    <3>1. side = 1 \/ side = 2
      BY <1>6
    <3> QED
      BY <1>3, <1>4, <1>5, <3>1
  <2> QED
    BY <2>1
<1>7. ASSUME NEW v \in Range(vertices)
      PROVE  /\ box[1]["x"] <= v["x"] /\ v["x"] <= box[2]["x"]
             /\ box[1]["y"] <= v["y"] /\ v["y"] <= box[2]["y"]
  <2>1. v.x \in xs /\ v.y \in ys
    BY <1>7
  <2> HIDE DEF xs, ys
  <2> QED
    BY <1>3, <1>4, <1>5, <2>1
<1> QED
  BY <1>6, <1>7 DEF Encloses, box
=============================================================================
