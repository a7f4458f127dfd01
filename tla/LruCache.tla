------------------------------ MODULE LruCache ------------------------------
(***************************************************************************)
(* The set-associative cache of lru/cache.hpp and lru/cache.cpp, used as a *)
(* TLB: NSets sets of NWays lines, each set with a square bit matrix that  *)
(* remembers in which order its ways were last hit.  What a line stores    *)
(* besides its tag is left out: no operation looks at it.                  *)
(***************************************************************************)
EXTENDS Integers

CONSTANTS NSets, NWays,  \* the template parameters S and W
          PageSize,      \* 2^12: the tag is what is above the page offset
          NTags,         \* 2^28: the tag has bits 39 to 12 of the address
          Addrs,         \* the addresses looked up and filled
          MaxTouches     \* bound on the hits of a behaviour

Sets == 0 .. NSets - 1
Ways == 0 .. NWays - 1

ASSUME ShapeAssumption ==
  /\ NSets \in Nat \ {0} /\ NWays \in Nat \ {0}
  /\ PageSize \in Nat \ {0} /\ NTags \in Nat \ {0}
  /\ Addrs \subseteq Nat
  /\ MaxTouches \in Nat

VARIABLES line,     \* sets_[s].line[w]
          lru,      \* sets_[s].lru_: lru[s][i][j] is bit j of lru_[i]
          way, set, \* the caller's output parameters of lookup()
          hit,      \* what the last operation was and what it found
          used,     \* history: when each way was last hit, 0 for never
          now       \* history: the number of hits so far

vars == <<line, lru, way, set, hit, used, now>>

-----------------------------------------------------------------------------
(* bit_slice<39,12>, get_set_idx_rtl() and the matrix.                     *)

Tag(addr)   == (addr \div PageSize) % NTags
Index(addr) == IF NSets > 1 THEN addr % NSets ELSE 0

Hits(s, addr) == {w \in Ways : line[s][w].valid /\ line[s][w].tag = Tag(addr)}

First(S) == CHOOSE w \in S : \A v \in S : w <= v

\* Mutation of SetMru: the column is cleared before the row is set.
SetMruRowLast(m, w) ==
  [i \in Ways |-> [j \in Ways |-> i = w \/ (j # w /\ m[i][j])]]

\* set_mru(): row w is set, then column w is cleared in every row.
SetMru(m, w) ==
  [i \in Ways |-> [j \in Ways |-> j # w /\ (i = w \/ m[i][j])]]

\* The ways whose row has no bit set.
ZeroRows(m) == {w \in Ways : \A v \in Ways : ~m[w][v]}

\* Mutation of GetLru: columns are searched for zeros instead of rows.
GetLruByColumn(m) ==
  LET zero == {w \in Ways : \A v \in Ways : ~m[v][w]}
  IN  IF zero = {} THEN 0 ELSE First(zero)

\* get_lru()
GetLru(m) == IF ZeroRows(m) = {} THEN 0 ELSE First(ZeroRows(m))

-----------------------------------------------------------------------------
(* The caller of lookup() declares way and set without an initialiser.     *)
Init == /\ line = [s \in Sets |-> [w \in Ways |-> [valid |-> FALSE, tag |-> 0]]]
        /\ lru = [s \in Sets |-> [i \in Ways |-> [j \in Ways |-> FALSE]]]
        /\ way \in Ways /\ set \in Sets
        /\ hit = "none"
        /\ used = [s \in Sets |-> [w \in Ways |-> 0]]
        /\ now = 0

\* find_way() finds the address in a way, which becomes the newest.
Touch(s, w) == /\ now < MaxTouches
               /\ lru' = [lru EXCEPT ![s] = SetMru(@, w)]
               /\ used' = [used EXCEPT ![s][w] = now + 1]
               /\ now' = now + 1
               /\ UNCHANGED line

\* The least recently used way is lost on a miss, and replaced by fill().
Replace(s, w, newLine) == /\ line' = [line EXCEPT ![s][w] = newLine]
                          /\ UNCHANGED <<lru, used, now>>

LookupHit(addr) ==
  LET s == Index(addr)
  IN  /\ Hits(s, addr) # {}
      /\ Touch(s, First(Hits(s, addr)))
      /\ set' = s /\ hit' = "hit"
      /\ UNCHANGED way

LookupMiss(addr) ==
  LET s == Index(addr)
      w == GetLru(lru[s])
  IN  /\ Hits(s, addr) = {}
      /\ Replace(s, w, [line[s][w] EXCEPT !.valid = FALSE])
      /\ set' = s /\ hit' = "miss"
      /\ UNCHANGED way

\* A resident address is not filled again, but it counts as a hit.
FillHit(addr) ==
  LET s == Index(addr)
  IN  /\ Hits(s, addr) # {}
      /\ Touch(s, First(Hits(s, addr)))
      /\ hit' = "filled"
      /\ UNCHANGED <<way, set>>

\* Mutation of FillMiss: the address is not looked for first.
FillAlways(addr) ==
  LET s == Index(addr)
  IN  /\ Replace(s, GetLru(lru[s]), [valid |-> TRUE, tag |-> Tag(addr)])
      /\ hit' = "filled"
      /\ UNCHANGED <<way, set>>

\* Mutation of FillMiss: a free way is preferred to the least recently used.
FillFreeWay(addr) ==
  LET s == Index(addr)
      free == {w \in Ways : ~line[s][w].valid}
      w == IF free = {} THEN GetLru(lru[s]) ELSE First(free)
  IN  /\ Hits(s, addr) = {}
      /\ Replace(s, w, [valid |-> TRUE, tag |-> Tag(addr)])
      /\ hit' = "filled"
      /\ UNCHANGED <<way, set>>

FillMiss(addr) ==
  LET s == Index(addr)
  IN  /\ Hits(s, addr) = {}
      /\ Replace(s, GetLru(lru[s]), [valid |-> TRUE, tag |-> Tag(addr)])
      /\ hit' = "filled"
      /\ UNCHANGED <<way, set>>

Evict(s, w) ==
  /\ line' = [line EXCEPT ![s][w].valid = FALSE]
  /\ hit' = "evicted"
  /\ UNCHANGED <<lru, way, set, used, now>>

Next == \/ \E addr \in Addrs : \/ LookupHit(addr) \/ LookupMiss(addr)
                               \/ FillHit(addr) \/ FillMiss(addr)
        \/ \E s \in Sets, w \in Ways : Evict(s, w)

Spec == Init /\ [][Next]_vars

-----------------------------------------------------------------------------
Lines == [valid : BOOLEAN, tag : 0 .. NTags - 1]

TypeOK == /\ line \in [Sets -> [Ways -> Lines]]
          /\ lru \in [Sets -> [Ways -> [Ways -> BOOLEAN]]]
          /\ way \in Ways /\ set \in Sets
          /\ hit \in {"none", "hit", "miss", "filled", "evicted"}
          /\ used \in [Sets -> [Ways -> Nat]]
          /\ now \in 0 .. MaxTouches

(* The bit matrix is the recency order: bit j of row i is set exactly when *)
(* way i was hit after way j.                                              *)
MatrixIsRecency ==
  \A s \in Sets : \A i, j \in Ways : lru[s][i][j] <=> used[s][j] < used[s][i]

(* A set never holds a page twice, so that it matters neither which way    *)
(* find_way() meets first nor which copy evict() removes.                  *)
UniqueTags ==
  \A s \in Sets : \A v, w \in Ways :
     line[s][v].valid /\ line[s][w].valid /\ line[s][v].tag = line[s][w].tag => v = w

(* fill() does not mark the way it fills as used: a way that was never hit *)
(* can hold a page only while it is the next victim, so pages filled one   *)
(* after the other displace each other however many ways are free.         *)
OneUnhitPage ==
  \A s \in Sets : \A w \in Ways :
     line[s][w].valid /\ used[s][w] = 0 => w = GetLru(lru[s])

(* A lookup or a fill takes a page away only from a way that every other   *)
(* way was hit after; the page hit last survives where there are two ways. *)
OnlyLruIsLost ==
  [][\A s \in Sets, w \in Ways :
       line[s][w].valid /\ line'[s][w] # line[s][w] /\ hit' # "evicted"
         => \A v \in Ways : used[s][w] <= used[s][v]]_vars

(* What lookup() says of its parameter: "on miss the returned way is LRU - *)
(* to be evicted" (cache.hpp line 143).                                    *)
MissReturnsLru == hit = "miss" => way = GetLru(lru[set])
=============================================================================
