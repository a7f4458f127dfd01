-------------------------- MODULE ProgramsProofs --------------------------
(***************************************************************************)
(* Proofs about the programs that MCPrograms runs one at a time.           *)
(*                                                                         *)
(* Histogram, for any number of blocks, of threads and of bins, and for    *)
(* every input: the barriers keep the phases of a block apart, and every   *)
(* kernel adds what histogramCPU counts to what its result held.           *)
(*                                                                         *)
(* Options, for whatever options programs add and whatever words they are  *)
(* given: a command line that is accepted is accounted for.  Of CLCommands *)
(* the types; OpenCLProofs has the rest.                                   *)
(*                                                                         *)
(* CommandLine, for every text and for integers of any width: a number that*)
(* fits is read as what it denotes, and both builds of cxxopts agree.      *)
(*                                                                         *)
(* VM, for words of any width, whatever program is loaded: the array is a  *)
(* stack machine as long as stack and program stay apart.                  *)
(***************************************************************************)
EXTENDS Histogram, CLCommands, Options, VM, FiniteSetTheorems, SequenceTheorems, WellFoundedInduction, TLAPS

\* Every thread is somewhere; the rest of the type invariant is not needed.
PcOK == DOMAIN pc = Threads

LEMMA InitPhases == Init => PcOK /\ PhasesApart
<1> SUFFICES ASSUME Init PROVE PcOK /\ PhasesApart
  OBVIOUS
<1>1. \A t \in Threads : pc[t] \in {"done", "count", "init", "round"}
  BY DEF Init, Start
<1>2. (\A t \in Threads : pc[t] # "init") \/ (\A t \in Threads : pc[t] = "init")
  BY DEF Init, Start
<1> QED
  BY <1>1, <1>2 DEF Init, PcOK, PhasesApart

(* A step that only moves one thread keeps the phases apart if the thread's*)
(* new place is apart from where the others are.                           *)
LEMMA MovesApart ==
  ASSUME PcOK, PhasesApart, NEW t \in Threads, NEW label, Goto(t, label),
         label \in {"count", "sync2", "combine"} => \A u \in Mates(t) : u # t => pc[u] # "init",
         label = "combine" => \A u \in Mates(t) : u # t => pc[u] \notin {"sync", "count"},
         label = "init" => FALSE,
         label \in {"sync", "count"} => \A u \in Mates(t) : u # t => pc[u] # "combine"
  PROVE  PcOK' /\ PhasesApart'
<1>1. PcOK'
  BY DEF Goto, PcOK
<1>2. pc'[t] = label /\ \A u \in Threads : u # t => pc'[u] = pc[u]
  BY DEF Goto, PcOK
<1>3. ASSUME NEW u \in Threads, NEW v \in Threads, u[1] = v[1]
      PROVE  /\ pc'[u] \in {"count", "sync2", "combine"} => pc'[v] # "init"
             /\ pc'[u] = "combine" => pc'[v] \notin {"init", "sync", "count"}
  <2>1. CASE u # t /\ v # t
    BY <1>2, <1>3, <2>1 DEF PhasesApart
  <2>2. CASE u = t /\ v # t
    BY <1>2, <1>3, <2>2 DEF Mates
  <2>3. CASE u # t /\ v = t
    BY <1>2, <1>3, <2>3 DEF Mates
  <2>4. CASE u = t /\ v = t
    BY <1>2, <2>4
  <2> QED
    BY <2>1, <2>2, <2>3, <2>4
<1> QED
  BY <1>1, <1>3 DEF PhasesApart

LEMMA NextPhases == PcOK /\ PhasesApart /\ [Next]_vars => PcOK' /\ PhasesApart'
<1> SUFFICES ASSUME PcOK, PhasesApart, [Next]_vars PROVE PcOK' /\ PhasesApart'
  OBVIOUS
<1>1. ASSUME NEW t \in Threads, Step(t) PROVE PcOK' /\ PhasesApart'
  <2>1. \A u \in Mates(t) : u \in Threads /\ u[1] = t[1]
    BY DEF Mates
  <2>2. CASE Clear(t)
    BY <2>1, <2>2, MovesApart DEF Clear, PhasesApart
  <2>3. CASE Sync(t)
    BY <2>1, <2>3, MovesApart DEF Sync, Met, PhasesApart
  <2>4. CASE Count(t)
    BY <2>4 DEF Count, PcOK, PhasesApart
  <2>5. CASE CountEnds(t)
    BY <2>1, <2>5, MovesApart DEF CountEnds, PhasesApart
  <2>6. CASE Sync2(t)
    BY <2>1, <2>6, MovesApart DEF Sync2, Met, PhasesApart
  <2>7. CASE Combine(t) \/ RoundLoad(t) \/ RoundStore(t) \/ RoundPass(t) \/ RoundSync(t)
    <3>1. PICK label \in {"done", "store", "barrier", "round"} : Goto(t, label)
      BY <2>7 DEF Combine, RoundLoad, RoundStore, RoundPass, RoundSync
    <3> QED
      BY <3>1, MovesApart
  <2> QED
    BY <1>1, <2>2, <2>3, <2>4, <2>5, <2>6, <2>7 DEF Step
<1>2. CASE UNCHANGED vars
  BY <1>2 DEF vars, PcOK, PhasesApart
<1> QED
  BY <1>1, <1>2 DEF Next, Finished

(* Clearing, adding and reading a block's shared histogram are kept apart  *)
(* by the two barriers, whatever the threads of a block do in between.     *)
THEOREM PhasesApartHolds == Spec => []PhasesApart
<1>1. Spec => [](PcOK /\ PhasesApart)
  BY InitPhases, NextPhases, PTL DEF Spec
<1> QED
  BY <1>1, PTL

-----------------------------------------------------------------------------
(***************************************************************************)
(* Division, for the numbers of threads and elements                       *)
(***************************************************************************)

(* Quotient and remainder.                                                 *)
LEMMA DivisionFacts ==
  ASSUME NEW a \in Nat, NEW s \in Nat \ {0}
  PROVE  a % s \in 0 .. s - 1 /\ a \div s \in Nat /\ a = s * (a \div s) + (a % s)
OBVIOUS

(* They are unique.                                                        *)
LEMMA QuotientUnique ==
  ASSUME NEW s \in Nat \ {0}, NEW q \in Nat, NEW r \in 0 .. s - 1, NEW q2 \in Nat, NEW r2 \in 0 .. s - 1,
         s * q + r = s * q2 + r2
  PROVE  q = q2 /\ r = r2
<1>1. CASE q < q2
  <2>1. s * (q2 - q) >= s
    BY <1>1
  <2> QED
    BY <2>1
<1>2. CASE q > q2
  <2>1. s * (q - q2) >= s
    BY <1>2
  <2> QED
    BY <2>1
<1> QED
  BY <1>1, <1>2

LEMMA SmallModulo ==
  ASSUME NEW s \in Nat \ {0}, NEW a \in 0 .. s - 1
  PROVE  a % s = a
OBVIOUS

(* Numbers with the same remainder are a stride apart.                     *)
LEMMA Ordered ==
  ASSUME NEW s \in Nat \ {0}, NEW q \in Nat, NEW q2 \in Nat, NEW r \in Nat,
         s * q + r < (s * q2 + r) + s
  PROVE  s * q + r <= s * q2 + r
<1>1. CASE q > q2
  <2>1. s * (q - q2) >= s
    BY <1>1
  <2> QED
    BY <2>1
<1>2. CASE q <= q2
  <2>1. s * (q2 - q) >= 0
    BY <1>2
  <2> QED
    BY <2>1
<1> QED
  BY <1>1, <1>2

LEMMA NextOfThread ==
  ASSUME NEW a \in Nat, NEW b \in Nat, NEW s \in Nat \ {0}, a % s = b % s, a < b + s
  PROVE  a <= b
<1>1. a = s * (a \div s) + (a % s) /\ b = s * (b \div s) + (a % s)
  BY DivisionFacts
<1>2. a \div s \in Nat /\ b \div s \in Nat /\ a % s \in 0 .. s - 1
  BY DivisionFacts, Zenon
<1>3. a % s \in Nat
  BY <1>2
<1> QED
  BY <1>1, <1>2, <1>3, Ordered, Zenon

(* A stride further, the remainder is the same.                            *)
LEMMA PlusStride ==
  ASSUME NEW a \in Nat, NEW s \in Nat \ {0}
  PROVE  (a + s) % s = a % s
<1>1. a + s = s * (a \div s + 1) + (a % s)
  BY DivisionFacts
<1>2. a \div s \in Nat /\ a % s \in 0 .. s - 1
  BY DivisionFacts, Zenon
<1>3. a \div s + 1 \in Nat
  BY <1>2
<1>4. a + s = s * ((a + s) \div s) + ((a + s) % s) /\ (a + s) \div s \in Nat /\ (a + s) % s \in 0 .. s - 1
  BY DivisionFacts, a + s \in Nat
<1>5. \A q, q2 \in Nat, r, r2 \in 0 .. s - 1 : s * q + r = s * q2 + r2 => r = r2
  BY QuotientUnique
<1> QED
  BY <1>1, <1>2, <1>3, <1>4, <1>5, Zenon

-----------------------------------------------------------------------------
(***************************************************************************)
(* Threads and the elements they own                                       *)
(***************************************************************************)

(* The grid has threads, and tid numbers them from 0 to Stride - 1.        *)
LEMMA GridFacts ==
  /\ Stride \in Nat \ {0} /\ BlockDim \in Nat \ {0} /\ Bins \subseteq 0 .. BlockDim - 1
  /\ \A t \in Threads : /\ t[1] \in 0 .. Blocks - 1 /\ t[2] \in 0 .. BlockDim - 1
                        /\ t = <<t[1], t[2]>>
                        /\ tid(t) = BlockDim * t[1] + t[2]
  /\ \A k \in 0 .. Blocks - 1, m \in 0 .. BlockDim - 1 : <<k, m>> \in Threads
<1>1. BlockDim \in Nat \ {0}
  BY GridAssumption
<1>2. Blocks * BlockDim >= BlockDim
  BY <1>1, GridAssumption
<1> QED
  BY <1>1, <1>2, GridAssumption DEF Stride, Bins, Threads, tid

LEMMA TidRange == \A t \in Threads : tid(t) \in 0 .. Stride - 1
<1> SUFFICES ASSUME NEW t \in Threads PROVE tid(t) \in 0 .. Stride - 1
  OBVIOUS
<1>1. PICK k \in 0 .. Blocks - 1, m \in 0 .. BlockDim - 1 : tid(t) = BlockDim * k + m
  BY GridFacts
<1>2. BlockDim * ((Blocks - 1) - k) >= 0 /\ BlockDim * k >= 0
  BY GridAssumption
<1>3. BlockDim * k <= BlockDim * Blocks - BlockDim /\ BlockDim * k \in Nat
  BY <1>2, GridAssumption
<1> QED
  BY <1>1, <1>3, GridAssumption DEF Stride

(* No two threads have the same number.                                    *)
LEMMA TidUnique == \A t, u \in Threads : tid(t) = tid(u) => t = u
<1> SUFFICES ASSUME NEW t \in Threads, NEW u \in Threads, tid(t) = tid(u) PROVE t = u
  OBVIOUS
<1>1. BlockDim * t[1] + t[2] = BlockDim * u[1] + u[2]
  BY GridFacts
<1>2. /\ t[1] \in Nat /\ u[1] \in Nat
      /\ t[2] \in 0 .. BlockDim - 1 /\ u[2] \in 0 .. BlockDim - 1
  BY GridFacts
<1>3. t[1] = u[1] /\ t[2] = u[2]
  BY <1>1, <1>2, GridFacts, QuotientUnique
<1> QED
  BY <1>3, GridFacts

(* Every element has a thread.                                             *)
LEMMA EveryElementOwned == \A j \in Nat : \E t \in Threads : j % Stride = tid(t)
<1> SUFFICES ASSUME NEW j \in Nat PROVE \E t \in Threads : j % Stride = tid(t)
  OBVIOUS
<1> DEFINE r == j % Stride
           k == r \div BlockDim
           m == r % BlockDim
<1>1. r \in 0 .. Stride - 1
  BY GridFacts, DivisionFacts, Zenon
<1>2. r \in Nat
  BY <1>1
<1>3. r = BlockDim * k + m /\ k \in Nat /\ m \in 0 .. BlockDim - 1
  BY <1>2, GridFacts, DivisionFacts, Zenon
<1> HIDE DEF r, k, m
<1>4. k < Blocks
  <2>1. SUFFICES ASSUME k >= Blocks PROVE FALSE
    BY <1>3, GridAssumption
  <2>2. BlockDim * (k - Blocks) >= 0
    BY <2>1, <1>3, GridAssumption
  <2>3. BlockDim * k >= BlockDim * Blocks
    BY <2>2, <1>3, GridAssumption
  <2> QED
    BY <2>3, <1>1, <1>3, GridAssumption DEF Stride
<1>5. <<k, m>> \in Threads
  BY <1>3, <1>4, GridFacts, GridAssumption
<1>6. tid(<<k, m>>) = r
  BY <1>3, <1>4, GridAssumption DEF tid
<1> QED
  BY <1>5, <1>6 DEF r

\* The elements of bin b that the threads ts are to count, and have counted.
Owned(ts, b) == {j \in DOMAIN input : input[j] = b /\ \E t \in ts : j % Stride = tid(t)}
AddedBefore(ts, b) == {j \in DOMAIN input : input[j] = b /\ \E t \in ts : j % Stride = tid(t) /\ j < i[t]}

\* The threads of the blocks whose bin b is combined.
Combined(b) == {t \in Threads : pc[<<t[1], b>>] = "done"}

\* The elements of bin b whose round is over.
StoredRows(b) == {j \in DOMAIN input : /\ input[j] = b
                                   /\ \/ i[<<0, j>>] > j
                                      \/ (i[<<0, j>>] = j /\ pc[<<0, j>>] = "barrier")}

InputOK == CASE kernel = "rounds" -> input = Remainders(BlockDim)
             [] kernel = "data2"  -> input = Remainders(Stride)
             [] OTHER             -> input \in Inputs

\* What the kernel adds to.
AtFirst(b) == IF kernel = "data2" THEN before[b] ELSE 0

GlobalInv ==
  kernel \in {"global", "data2"} =>
    /\ \A t \in Threads : pc[t] \in {"count", "done"} /\ i[t] % Stride = tid(t)
    /\ \A t \in Threads : pc[t] = "done" => i[t] \notin DOMAIN input
    /\ \A b \in Bins : res[b] = Cardinality(AddedBefore(Threads, b)) + AtFirst(b)

\* The block's threads start at their first element, clear before any of
\* them counts, and are past the input before any of them combines.
SharedPlaces ==
  /\ \A t \in Threads : /\ pc[t] \in {"init", "sync", "count", "sync2", "combine", "done"}
                        /\ i[t] % Stride = tid(t)
                        /\ pc[t] \in {"init", "sync"} => i[t] = tid(t)
                        /\ pc[t] \in {"sync2", "combine", "done"} => i[t] \notin DOMAIN input
  /\ \A t \in Threads : \A u \in Mates(t) : pc[t] = "done" => pc[u] \notin {"init", "sync", "count"}

\* A block's histogram, in the bins that are cleared, and the sum of those
\* of the blocks.
SharedRows == \A t \in Threads : t[2] \in Bins /\ pc[t] # "init" =>
                s_res[t[1]][t[2]] = Cardinality(AddedBefore(Mates(t), t[2]))
SharedSums == \A b \in Bins : res[b] = Cardinality(Owned(Combined(b), b))

SharedInv == kernel = "shared" => SharedPlaces /\ SharedRows /\ SharedSums

RoundsInv ==
  kernel = "rounds" =>
    /\ \A t \in Threads :
         IF t[1] # 0 THEN pc[t] = "done"
         ELSE /\ \/ pc[t] \in {"round", "store", "barrier"} /\ i[t] < BlockDim
                 \/ pc[t] = "done" /\ i[t] = BlockDim
              /\ pc[t] = "store" => i[t] = tid(t) /\ seen[t] = res[tid(t) % NumBins]
    /\ \A t, u \in Threads : t[1] = 0 /\ u[1] = 0 =>
         i[t] <= i[u] \/ (i[t] = i[u] + 1 /\ pc[u] = "barrier")
    /\ \A b \in Bins : res[b] = Cardinality(StoredRows(b))

-----------------------------------------------------------------------------
(***************************************************************************)
(* Counting                                                                *)
(***************************************************************************)

(* The input is a finite sequence of bins, with indices from 0.            *)
LEMMA InputFacts ==
  ASSUME InputOK
  PROVE  /\ IsFiniteSet(DOMAIN input) /\ \A j \in DOMAIN input : j \in Nat /\ input[j] \in Bins
         /\ \A j \in Nat, m \in DOMAIN input : j \notin DOMAIN input => m < j
<1>1. PICK n \in Nat : DOMAIN input = 0 .. n - 1 /\ \A j \in DOMAIN input : input[j] \in Bins
  <2>1. CASE kernel \in {"rounds", "data2"}
    <3>1. PICK n \in Nat : input = Remainders(n)
      BY <2>1, GridAssumption, GridFacts DEF InputOK
    <3>2. \A j \in 0 .. n - 1 : j % NumBins \in Bins
      BY DivisionFacts, GridAssumption DEF Bins
    <3> QED
      BY <3>1, <3>2 DEF Remainders
  <2>2. CASE kernel \notin {"rounds", "data2"}
    <3>1. Cardinality(DOMAIN input) \in Nat
      BY <2>2, InputsAssumption, FS_CardinalityType DEF InputOK
    <3> QED
      BY <2>2, <3>1, InputsAssumption DEF InputOK
  <2> QED
    BY <2>1, <2>2
<1>2. IsFiniteSet(0 .. n - 1)
  BY FS_Interval
<1> QED
  BY <1>1, <1>2

LEMMA CountedFinite ==
  ASSUME InputOK, NEW ts, NEW b
  PROVE  IsFiniteSet(Owned(ts, b)) /\ IsFiniteSet(AddedBefore(ts, b)) /\ IsFiniteSet(StoredRows(b))
BY InputFacts, FS_Subset DEF Owned, AddedBefore, StoredRows

(* One more element adds 1.                                                *)
LEMMA OneMoreElement ==
  ASSUME NEW S, IsFiniteSet(S), NEW j, j \notin S
  PROVE  Cardinality(S \cup {j}) = Cardinality(S) + 1
BY FS_AddElement

(* Sets that have no element in common add up.                             *)
LEMMA DisjointUnion ==
  ASSUME NEW S, NEW T, IsFiniteSet(S), IsFiniteSet(T), S \cap T = {}
  PROVE  Cardinality(S \cup T) = Cardinality(S) + Cardinality(T)
<1>1. Cardinality(S) \in Nat /\ Cardinality(T) \in Nat /\ Cardinality({}) = 0
  BY FS_CardinalityType, FS_EmptySet
<1>2. Cardinality(S \cup T) = Cardinality(S) + Cardinality(T) - Cardinality(S \cap T)
  BY FS_Union
<1>3. Cardinality(S \cap T) = 0
  BY <1>1, Zenon
<1> QED
  BY <1>1, <1>2, <1>3

(* What threads have counted when they are past the end of the input.      *)
LEMMA PastTheEnd ==
  ASSUME InputOK, NEW ts \in SUBSET Threads, NEW b, \A t \in ts : i[t] \in Nat /\ i[t] \notin DOMAIN input
  PROVE  AddedBefore(ts, b) = Owned(ts, b)
BY InputFacts DEF AddedBefore, Owned

(* All threads together own every element.                                 *)
LEMMA AllOwned ==
  ASSUME InputOK, NEW b
  PROVE  Owned(Threads, b) = {j \in DOMAIN input : input[j] = b}
BY InputFacts, EveryElementOwned DEF Owned

(* A thread that has not started has counted nothing.                      *)
LEMMA NothingAdded ==
  ASSUME InputOK, NEW ts \in SUBSET Threads, NEW b, \A t \in ts : i[t] = tid(t)
  PROVE  AddedBefore(ts, b) = {}
<1>1. \A t \in ts, j \in DOMAIN input : ~(j % Stride = tid(t) /\ j < i[t])
  <2>1. SUFFICES ASSUME NEW t \in ts, NEW j \in DOMAIN input, j % Stride = tid(t), j < i[t] PROVE FALSE
    OBVIOUS
  <2>2. j \in 0 .. Stride - 1
    BY <2>1, TidRange, InputFacts, GridFacts
  <2> QED
    BY <2>1, <2>2, SmallModulo, GridFacts
<1> QED
  BY <1>1 DEF AddedBefore

(* An element counted by its thread is counted once, and no other is.      *)
LEMMA CountAdds ==
  ASSUME InputOK, i \in [Threads -> Nat], \A u \in Threads : i[u] % Stride = tid(u),
         NEW t \in Threads, i[t] \in DOMAIN input, i' = [i EXCEPT ![t] = i[t] + Stride], input' = input
  PROVE  \A ts \in SUBSET Threads, b \in Bins :
           Cardinality(AddedBefore(ts, b))' =
             IF t \in ts /\ input[i[t]] = b THEN Cardinality(AddedBefore(ts, b)) + 1 ELSE Cardinality(AddedBefore(ts, b))
<1> SUFFICES ASSUME NEW ts \in SUBSET Threads, NEW b \in Bins
             PROVE  Cardinality(AddedBefore(ts, b))' =
                      IF t \in ts /\ input[i[t]] = b THEN Cardinality(AddedBefore(ts, b)) + 1 ELSE Cardinality(AddedBefore(ts, b))
  OBVIOUS
<1>1. i'[t] = i[t] + Stride /\ \A u \in Threads : u # t => i'[u] = i[u]
  OBVIOUS
<1>2. \A j \in DOMAIN input : j % Stride = tid(t) => (j < i'[t] <=> j < i[t] \/ j = i[t])
  BY <1>1, NextOfThread, InputFacts, GridFacts
<1>3. i[t] \notin AddedBefore(ts, b)
  BY TidUnique DEF AddedBefore
<1>4. CASE t \in ts /\ input[i[t]] = b
  <2>1. AddedBefore(ts, b)' = AddedBefore(ts, b) \cup {i[t]}
    BY <1>1, <1>2, <1>4 DEF AddedBefore
  <2> QED
    BY <1>3, <1>4, <2>1, CountedFinite, OneMoreElement
<1>5. CASE ~(t \in ts /\ input[i[t]] = b)
  <2>1. AddedBefore(ts, b)' = AddedBefore(ts, b)
    BY <1>1, <1>2, <1>5 DEF AddedBefore
  <2> QED
    BY <1>5, <2>1
<1> QED
  BY <1>4, <1>5

-----------------------------------------------------------------------------
(***************************************************************************)
(* The inductive invariant                                                 *)
(***************************************************************************)

HistogramInv == TypeOK /\ InputOK /\ PhasesApart /\ GlobalInv /\ SharedInv /\ RoundsInv

LEMMA InitTypes == Init => TypeOK /\ InputOK
<1> SUFFICES ASSUME Init PROVE TypeOK /\ InputOK
  OBVIOUS
<1>1. \A t \in Threads : tid(t) \in Nat
  BY TidRange, GridFacts
<1>2. /\ i \in [Threads -> Nat] /\ seen \in [Threads -> Nat]
      /\ kernel \in Kernels /\ before \in [Bins -> Nat] /\ res \in [Bins -> Nat]
  BY <1>1, InputsAssumption DEF Init
<1>3. pc \in [Threads -> Labels]
  BY DEF Init, Start, Labels
<1>4. s_res \in [0 .. Blocks - 1 -> [Bins -> Nat]]
  BY InputsAssumption DEF Init
<1>5. InputOK
  BY DEF Init, InputOK
<1> QED
  BY <1>2, <1>3, <1>4, <1>5 DEF Init, TypeOK

LEMMA InitCounts == Init => GlobalInv /\ SharedInv /\ RoundsInv
<1> SUFFICES ASSUME Init PROVE GlobalInv /\ SharedInv /\ RoundsInv
  OBVIOUS
<1>0. \A b \in Bins : res[b] = before[b] /\ (kernel # "data2" => before[b] = 0)
  BY DEF Init
<1>1. \A t \in Threads : tid(t) % Stride = tid(t)
  BY TidRange, GridFacts, SmallModulo
<1>2. InputOK
  BY InitTypes
<1>3. Cardinality({}) = 0
  BY FS_EmptySet
<1>4. GlobalInv
  <2>1. SUFFICES ASSUME kernel \in {"global", "data2"} PROVE GlobalInv
    BY DEF GlobalInv
  <2>2. \A b \in Bins : AddedBefore(Threads, b) = {}
    BY <1>2, <2>1, NothingAdded DEF Init
  <2>3. \A b \in Bins : res[b] = AtFirst(b) /\ AtFirst(b) \in Nat
    BY <1>0, <2>1, InputsAssumption DEF Init, AtFirst
  <2>4. \A b \in Bins : res[b] = Cardinality(AddedBefore(Threads, b)) + AtFirst(b)
    BY <1>3, <2>2, <2>3
  <2>5. \A t \in Threads : pc[t] = "count" /\ i[t] % Stride = tid(t)
    BY <1>1, <2>1 DEF Init, Start
  <2> QED
    BY <2>4, <2>5 DEF GlobalInv
<1>5. SharedInv
  <2>1. SUFFICES ASSUME kernel = "shared" PROVE SharedInv
    BY DEF SharedInv
  <2>2. \A t \in Threads : pc[t] = "init" /\ i[t] = tid(t)
    BY <2>1 DEF Init, Start
  <2>3. \A b \in Bins : Combined(b) = {}
    <3>1. \A b \in Bins, t \in Threads : <<t[1], b>> \in Threads
      BY GridFacts
    <3> QED
      BY <2>2, <3>1 DEF Combined
  <2>4. \A b \in Bins : Owned(Combined(b), b) = {}
    BY <2>3 DEF Owned
  <2> QED
    BY <1>1, <1>3, <2>2, <2>4 DEF Init, SharedInv, SharedPlaces, SharedRows, SharedSums, Mates
<1>6. RoundsInv
  <2>1. SUFFICES ASSUME kernel = "rounds" PROVE RoundsInv
    BY DEF RoundsInv
  <2>2. \A t \in Threads : i[t] = 0 /\ pc[t] = IF t[1] = 0 THEN "round" ELSE "done"
    BY <2>1 DEF Init, Start
  <2>3. \A m \in 0 .. BlockDim - 1 : <<0, m>> \in Threads /\ <<0, m>>[1] = 0
    BY GridFacts, GridAssumption
  <2>4. DOMAIN input = 0 .. BlockDim - 1
    BY <2>1 DEF Init, Remainders
  <2>5. \A j \in DOMAIN input : i[<<0, j>>] = 0 /\ pc[<<0, j>>] = "round"
    BY <2>2, <2>3, <2>4
  <2>6. \A b \in Bins : StoredRows(b) = {}
    BY <2>4, <2>5 DEF StoredRows
  <2>7. \A b \in Bins : res[b] = Cardinality(StoredRows(b))
    BY <1>0, <1>3, <2>1, <2>6
  <2>8. \A t \in Threads : IF t[1] # 0 THEN pc[t] = "done" ELSE pc[t] = "round" /\ i[t] < BlockDim
    BY <2>2, GridFacts
  <2>9. \A t, u \in Threads : i[t] <= i[u]
    BY <2>2
  <2> QED
    BY <2>7, <2>8, <2>9 DEF RoundsInv
<1> QED
  BY <1>4, <1>5, <1>6

(* Counts stay counts.                                                     *)
LEMMA OneAdded ==
  ASSUME NEW b \in Bins
  PROVE  /\ \A h \in [Bins -> Nat] : [h EXCEPT ![b] = @ + 1] \in [Bins -> Nat]
         /\ \A s \in [0 .. Blocks - 1 -> [Bins -> Nat]], k \in 0 .. Blocks - 1 :
              [s EXCEPT ![k][b] = @ + 1] \in [0 .. Blocks - 1 -> [Bins -> Nat]]
<1>1. \A h \in [Bins -> Nat] : [h EXCEPT ![b] = @ + 1] \in [Bins -> Nat]
  OBVIOUS
<1>2. ASSUME NEW s \in [0 .. Blocks - 1 -> [Bins -> Nat]], NEW k \in 0 .. Blocks - 1
      PROVE  [s EXCEPT ![k][b] = @ + 1] \in [0 .. Blocks - 1 -> [Bins -> Nat]]
  <2> DEFINE row == [s[k] EXCEPT ![b] = @ + 1]
  <2>1. row \in [Bins -> Nat]
    BY <1>1
  <2>2. [s EXCEPT ![k][b] = @ + 1] = [s EXCEPT ![k] = row]
    OBVIOUS
  <2> HIDE DEF row
  <2> QED
    BY <2>1, <2>2
<1> QED
  BY <1>1, <1>2

(* A change of one bin of one block leaves the others.                     *)
LEMMA CellChanged ==
  ASSUME NEW s \in [0 .. Blocks - 1 -> [Bins -> Nat]], NEW k \in 0 .. Blocks - 1, NEW b \in Bins, NEW n
  PROVE  \A k2 \in 0 .. Blocks - 1, b2 \in Bins :
           [s EXCEPT ![k][b] = n][k2][b2] = IF k2 = k /\ b2 = b THEN n ELSE s[k2][b2]
OBVIOUS

(* Every step keeps the types.                                             *)
LEMMA StepTypes ==
  ASSUME TypeOK, InputOK, NEW t \in Threads, Step(t)
  PROVE  TypeOK' /\ InputOK'
<1>1. t[1] \in 0 .. Blocks - 1 /\ t[2] \in Nat /\ (t[2] < NumBins => t[2] \in Bins)
  BY GridFacts, GridAssumption DEF Bins
<1>2. tid(t) % NumBins \in Bins
  <2>1. tid(t) \in Nat
    BY TidRange, GridFacts
  <2> QED
    BY <2>1, DivisionFacts, GridAssumption DEF Bins
<1>3. CASE Clear(t)
  BY <1>1, <1>3 DEF Clear, TypeOK, Goto, Labels, InputOK
<1>4. CASE Sync(t) \/ CountEnds(t) \/ Sync2(t) \/ RoundPass(t)
  BY <1>4 DEF Sync, CountEnds, Sync2, RoundPass, TypeOK, Goto, Labels, InputOK
<1>5. CASE Count(t)
  <2>1. input[i[t]] \in Bins /\ Stride \in Nat
    BY <1>5, InputFacts, GridFacts DEF Count
  <2>2. i' \in [Threads -> Nat]
    BY <1>5, <2>1 DEF Count, TypeOK
  <2>3. res' \in [Bins -> Nat] /\ s_res' \in [0 .. Blocks - 1 -> [Bins -> Nat]]
    <3>1. CASE kernel = "shared"
      <4>1. res' = res /\ s_res' = [s_res EXCEPT ![t[1]][input[i[t]]] = @ + 1]
        BY <1>5, <3>1 DEF Count
      <4> QED
        BY <1>1, <2>1, <4>1, OneAdded DEF TypeOK
    <3>2. CASE kernel # "shared"
      <4>1. s_res' = s_res /\ res' = [res EXCEPT ![input[i[t]]] = @ + 1]
        BY <1>5, <3>2 DEF Count
      <4> QED
        BY <2>1, <4>1, OneAdded DEF TypeOK
    <3> QED
      BY <3>1, <3>2
  <2> QED
    BY <1>5, <2>2, <2>3 DEF Count, TypeOK, InputOK
<1>6. CASE Combine(t)
  BY <1>1, <1>6 DEF Combine, TypeOK, Goto, Labels, InputOK
<1>7. CASE RoundLoad(t)
  BY <1>2, <1>7 DEF RoundLoad, TypeOK, Goto, Labels, InputOK
<1>8. CASE RoundStore(t)
  BY <1>2, <1>8 DEF RoundStore, TypeOK, Goto, Labels, InputOK
<1>9. CASE RoundSync(t)
  BY <1>9 DEF RoundSync, TypeOK, Goto, Labels, InputOK
<1> QED
  BY <1>3, <1>4, <1>5, <1>6, <1>7, <1>8, <1>9 DEF Step

(* The kernel without shared memory: what is in the result is what the     *)
(* threads have passed.                                                    *)
LEMMA GlobalStep ==
  ASSUME TypeOK, InputOK, GlobalInv, NEW t \in Threads, Step(t)
  PROVE  GlobalInv'
<1>1. kernel' = kernel /\ input' = input /\ \A b : AtFirst(b)' = AtFirst(b)
  BY DEF Step, Clear, Sync, Count, CountEnds, Sync2, Combine, RoundLoad, RoundStore, RoundPass, RoundSync, AtFirst
<1>2. SUFFICES ASSUME kernel \in {"global", "data2"} PROVE GlobalInv'
  BY <1>1 DEF GlobalInv
<1>3. pc[t] \in {"count", "done"} /\ i \in [Threads -> Nat] /\ pc \in [Threads -> Labels]
  BY <1>2 DEF GlobalInv, TypeOK
<1>4. CASE Count(t)
  <2>1. \A b \in Bins : Cardinality(AddedBefore(Threads, b))' =
          IF input[i[t]] = b THEN Cardinality(AddedBefore(Threads, b)) + 1 ELSE Cardinality(AddedBefore(Threads, b))
    <3>1. i[t] \in DOMAIN input /\ i' = [i EXCEPT ![t] = i[t] + Stride]
      BY <1>4 DEF Count
    <3>2. \A u \in Threads : i[u] % Stride = tid(u)
      BY <1>2 DEF GlobalInv
    <3>3. \A ts \in SUBSET Threads, b \in Bins :
            Cardinality(AddedBefore(ts, b))' =
              IF t \in ts /\ input[i[t]] = b THEN Cardinality(AddedBefore(ts, b)) + 1 ELSE Cardinality(AddedBefore(ts, b))
      BY <1>1, <1>3, <3>1, <3>2, CountAdds, Zenon
    <3> QED
      BY <3>3
  <2>2. res' = [res EXCEPT ![input[i[t]]] = @ + 1] /\ pc' = pc /\ i' = [i EXCEPT ![t] = i[t] + Stride]
    BY <1>2, <1>4 DEF Count
  <2>3. \A b \in Bins : res'[b] = Cardinality(AddedBefore(Threads, b))' + AtFirst(b)'
    <3>1. \A b \in Bins : Cardinality(AddedBefore(Threads, b)) \in Nat /\ AtFirst(b) \in Nat
      BY CountedFinite, FS_CardinalityType DEF AtFirst, TypeOK
    <3> QED
      BY <1>1, <1>2, <2>1, <2>2, <3>1 DEF GlobalInv, TypeOK
  <2>4. \A u \in Threads : i'[u] % Stride = tid(u)
    BY <1>2, <1>3, <2>2, PlusStride, GridFacts DEF GlobalInv
  <2>5. \A u \in Threads : pc'[u] = "done" => i'[u] \notin DOMAIN input'
    BY <1>1, <1>2, <1>3, <1>4, <2>2 DEF GlobalInv, Count
  <2> QED
    BY <1>2, <2>2, <2>3, <2>4, <2>5 DEF GlobalInv
<1>5. CASE CountEnds(t)
  BY <1>1, <1>2, <1>3, <1>5 DEF GlobalInv, CountEnds, Goto, AddedBefore
<1> QED
  BY <1>3, <1>4, <1>5 DEF Step, Clear, Sync, Sync2, Combine, RoundLoad, RoundStore, RoundPass, RoundSync

(* The kernel with shared memory: a block's histogram is what its threads  *)
(* have passed, and the result is the sum of those combined.               *)
LEMMA SharedPlacesStep ==
  ASSUME TypeOK, PhasesApart, kernel = "shared", SharedPlaces, NEW t \in Threads, Step(t)
  PROVE  SharedPlaces'
<1>1. pc[t] \in {"init", "sync", "count", "sync2", "combine"} /\ pc \in [Threads -> Labels] /\ i \in [Threads -> Nat]
  BY DEF SharedPlaces, TypeOK, Step, Clear, Sync, Count, CountEnds, Sync2, Combine, RoundLoad, RoundStore, RoundPass, RoundSync
<1>2. \A u \in Mates(t) : u \in Threads /\ u[1] = t[1]
  BY DEF Mates
<1>3. CASE Count(t)
  <2>1. i' = [i EXCEPT ![t] = i[t] + Stride] /\ pc' = pc /\ input' = input /\ pc[t] = "count"
    BY <1>3 DEF Count
  <2>2. (i[t] + Stride) % Stride = tid(t)
    BY <1>1, PlusStride, GridFacts DEF SharedPlaces
  <2> QED
    BY <1>1, <2>1, <2>2 DEF SharedPlaces
<1>4. CASE ~Count(t)
  <2>1. PICK label \in {"sync", "count", "sync2", "combine", "done"} : Goto(t, label)
    BY <1>1, <1>4 DEF Step, Clear, Sync, CountEnds, Sync2, Combine, RoundLoad, RoundStore, RoundPass, RoundSync
  <2>2. i' = i /\ input' = input
    BY <1>1, <1>4 DEF Step, Clear, Sync, CountEnds, Sync2, Combine, RoundLoad, RoundStore, RoundPass, RoundSync
  <2>3. /\ label = "sync" => pc[t] = "init"
        /\ label = "sync2" => i[t] \notin DOMAIN input
        /\ label \in {"combine", "done"} => pc[t] \in {"sync2", "combine"}
        /\ label = "done" => pc[t] = "combine"
        /\ label \in {"sync", "count"} => \A u \in Mates(t) : pc[u] # "done"
    BY <1>1, <1>4, <2>1
       DEF Step, Clear, Sync, CountEnds, Sync2, Combine, RoundLoad, RoundStore, RoundPass, RoundSync, Goto, SharedPlaces, Mates
  <2>4. \A u \in Mates(t) : label = "done" => pc[u] \notin {"init", "sync", "count"}
    BY <1>2, <2>3 DEF PhasesApart
  <2> QED
    BY <1>1, <1>2, <2>1, <2>2, <2>3, <2>4 DEF SharedPlaces, Goto, Mates
<1> QED
  BY <1>3, <1>4

(* A step that combines nothing leaves the blocks that are combined.       *)
LEMMA CombinedStays ==
  ASSUME TypeOK, NEW t \in Threads, NEW label, Goto(t, label), pc[t] # "done", label # "done", input' = input,
         NEW b \in Bins
  PROVE  Owned(Combined(b), b)' = Owned(Combined(b), b)
<1>1. \A u \in Threads : <<u[1], b>> \in Threads
  BY GridFacts
<1>2. Combined(b)' = Combined(b)
  BY <1>1 DEF Combined, Goto, TypeOK
<1> QED
  BY <1>2 DEF Owned

LEMMA SharedRowsStep ==
  ASSUME TypeOK, InputOK, PhasesApart, kernel = "shared", SharedPlaces, SharedRows, NEW t \in Threads, Step(t)
  PROVE  SharedRows'
<1>1. /\ pc \in [Threads -> Labels] /\ i \in [Threads -> Nat]
      /\ s_res \in [0 .. Blocks - 1 -> [Bins -> Nat]]
      /\ pc[t] \in {"init", "sync", "count", "sync2", "combine", "done"}
      /\ t[1] \in 0 .. Blocks - 1
  BY GridFacts DEF TypeOK, SharedPlaces
<1>2. CASE Clear(t)
  <2>1. \A u \in Mates(t) : u \in Threads /\ pc[u] \in {"init", "sync"}
    BY <1>2 DEF Clear, Mates, PhasesApart, SharedPlaces
  <2>2. \A b \in Bins : AddedBefore(Mates(t), b) = {}
    BY <2>1, NothingAdded DEF SharedPlaces, Mates
  <2>3. i' = i /\ input' = input /\ pc' = [pc EXCEPT ![t] = "sync"]
    BY <1>2 DEF Clear, Goto
  <2>4. SUFFICES ASSUME NEW u \in Threads, u[2] \in Bins, pc'[u] # "init"
                 PROVE  s_res'[u[1]][u[2]] = Cardinality(AddedBefore(Mates(u), u[2]))
    BY <2>3 DEF SharedRows, AddedBefore
  <2>5. CASE u = t
    <3>1. s_res'[t[1]][t[2]] = 0
      <4>1. s_res' = [s_res EXCEPT ![t[1]][t[2]] = 0]
        BY <1>2, <2>4, <2>5, GridAssumption DEF Clear, Bins
      <4> QED
        BY <1>1, <2>4, <2>5, <4>1, CellChanged
    <3> QED
      BY <2>2, <2>4, <2>5, <3>1, FS_EmptySet
  <2>6. CASE u # t
    <3>1. u[1] # t[1] \/ u[2] # t[2]
      BY <2>6, GridFacts
    <3>2. s_res'[u[1]][u[2]] = s_res[u[1]][u[2]]
      BY <1>1, <1>2, <3>1, GridFacts DEF Clear
    <3>3. pc[u] # "init"
      BY <1>1, <2>3, <2>4, <2>6
    <3> QED
      BY <2>4, <3>2, <3>3 DEF SharedRows
  <2> QED
    BY <2>5, <2>6
<1>3. CASE Count(t)
  <2> DEFINE c == input[i[t]]
  <2>1. /\ i[t] \in DOMAIN input /\ i' = [i EXCEPT ![t] = i[t] + Stride]
        /\ kernel' = kernel /\ input' = input /\ pc' = pc /\ pc[t] = "count"
        /\ s_res' = [s_res EXCEPT ![t[1]][c] = s_res[t[1]][c] + 1]
    BY <1>3 DEF Count
  <2>2. c \in Bins
    BY <2>1, InputFacts
  <2>3. \A ts \in SUBSET Threads, b \in Bins :
          Cardinality(AddedBefore(ts, b))' =
            IF t \in ts /\ c = b THEN Cardinality(AddedBefore(ts, b)) + 1 ELSE Cardinality(AddedBefore(ts, b))
    <3>1. \A u \in Threads : i[u] % Stride = tid(u)
      BY DEF SharedPlaces
    <3>2. i[t] \in DOMAIN input /\ i' = [i EXCEPT ![t] = i[t] + Stride] /\ input' = input
      BY <2>1
    <3> QED
      BY <1>1, <3>1, <3>2, CountAdds, Zenon
  <2> HIDE DEF c
  <2>4. SUFFICES ASSUME NEW u \in Threads, u[2] \in Bins, pc'[u] # "init"
                 PROVE  s_res'[u[1]][u[2]] = Cardinality(AddedBefore(Mates(u), u[2]))'
    BY DEF SharedRows
  <2>5. Mates(u) \in SUBSET Threads /\ (t \in Mates(u) <=> u[1] = t[1])
    BY DEF Mates
  <2>6. s_res'[u[1]][u[2]] = IF u[1] = t[1] /\ c = u[2] THEN s_res[u[1]][u[2]] + 1 ELSE s_res[u[1]][u[2]]
    <3>1. u[1] \in 0 .. Blocks - 1
      BY GridFacts
    <3> QED
      BY <1>1, <2>1, <2>2, <2>4, <3>1, CellChanged
  <2>7. s_res[u[1]][u[2]] = Cardinality(AddedBefore(Mates(u), u[2]))
    BY <2>1, <2>4 DEF SharedRows
  <2> QED
    BY <2>3, <2>4, <2>5, <2>6, <2>7
<1>4. CASE ~Clear(t) /\ ~Count(t)
  <2>1. s_res' = s_res /\ i' = i /\ input' = input /\ pc[t] # "init" /\ \A u \in Threads : u # t => pc'[u] = pc[u]
    BY <1>1, <1>4 DEF Step, Sync, CountEnds, Sync2, Combine, RoundLoad, RoundStore, RoundPass, RoundSync, Goto
  <2>2. \A ts, b : AddedBefore(ts, b)' = AddedBefore(ts, b)
    BY <2>1 DEF AddedBefore
  <2> QED
    BY <2>1, <2>2 DEF SharedRows
<1> QED
  BY <1>2, <1>3, <1>4

LEMMA SharedSumsStep ==
  ASSUME TypeOK, InputOK, PhasesApart, kernel = "shared", SharedPlaces, SharedRows, SharedSums,
         NEW t \in Threads, Step(t)
  PROVE  SharedSums'
<1>1. /\ pc \in [Threads -> Labels] /\ i \in [Threads -> Nat] /\ res \in [Bins -> Nat]
      /\ pc[t] \in {"init", "sync", "count", "sync2", "combine"}
  BY DEF TypeOK, SharedPlaces, Step, Clear, Sync, Count, CountEnds, Sync2, Combine, RoundLoad, RoundStore, RoundPass, RoundSync
<1>2. CASE Combine(t)
  <2>1. /\ pc[t] = "combine" /\ pc' = [pc EXCEPT ![t] = "done"] /\ input' = input
        /\ res' = IF t[2] < NumBins THEN [res EXCEPT ![t[2]] = res[t[2]] + s_res[t[1]][t[2]]] ELSE res
    BY <1>2 DEF Combine, Goto
  <2>2. \A u \in Threads, b \in Bins : <<u[1], b>> \in Threads /\ <<u[1], b>>[2] = b /\ <<u[1], b>>[1] = u[1]
    BY GridFacts
  <2>3. SUFFICES ASSUME NEW b \in Bins PROVE res'[b] = Cardinality(Owned(Combined(b), b))'
    BY DEF SharedSums
  <2>4. CASE t[2] # b
    <3>1. \A u \in Threads : pc'[<<u[1], b>>] = pc[<<u[1], b>>]
      BY <1>1, <2>1, <2>2, <2>4
    <3>2. Combined(b)' = Combined(b)
      BY <3>1 DEF Combined
    <3>3. res'[b] = res[b]
      BY <1>1, <2>1, <2>4
    <3> QED
      BY <2>1, <3>2, <3>3 DEF SharedSums, Owned
  <2>5. CASE t[2] = b
    <3>1. \A u \in Threads : (pc'[<<u[1], b>>] = "done") <=> (pc[<<u[1], b>>] = "done" \/ u[1] = t[1])
      <4>1. \A u \in Threads : u[1] = t[1] <=> <<u[1], b>> = t
        BY <2>5, GridFacts
      <4> QED
        BY <1>1, <2>1, <2>2, <4>1
    <3>2. Combined(b)' = Combined(b) \cup Mates(t)
      BY <3>1 DEF Combined, Mates
    <3>3. Owned(Combined(b), b)' = Owned(Combined(b), b) \cup Owned(Mates(t), b)
      BY <2>1, <3>2 DEF Owned
    <3>4. Combined(b) \cap Mates(t) = {}
      <4>1. \A u \in Mates(t) : <<u[1], b>> = t
        BY <2>5, GridFacts DEF Mates
      <4> QED
        BY <2>1, <4>1 DEF Combined
    <3>5. Owned(Combined(b), b) \cap Owned(Mates(t), b) = {}
      <4>1. Combined(b) \subseteq Threads /\ Mates(t) \subseteq Threads
        BY DEF Combined, Mates
      <4> QED
        BY <3>4, <4>1, TidUnique DEF Owned
    <3>6. AddedBefore(Mates(t), b) = Owned(Mates(t), b)
      <4>1. \A u \in Mates(t) : u \in Threads /\ pc[u] \in {"sync2", "combine", "done"}
        BY <2>1 DEF Mates, PhasesApart, SharedPlaces
      <4>2. \A u \in Mates(t) : i[u] \in Nat /\ i[u] \notin DOMAIN input
        BY <1>1, <4>1 DEF SharedPlaces
      <4> QED
        BY <4>1, <4>2, PastTheEnd
    <3>7. s_res[t[1]][t[2]] = Cardinality(Owned(Mates(t), b))
      BY <2>1, <2>5, <3>6 DEF SharedRows
    <3>8. Cardinality(Owned(Combined(b), b) \cup Owned(Mates(t), b))
            = Cardinality(Owned(Combined(b), b)) + Cardinality(Owned(Mates(t), b))
      BY <3>5, CountedFinite, DisjointUnion
    <3>9. res'[b] = res[b] + s_res[t[1]][t[2]]
      BY <1>1, <2>1, <2>5, GridAssumption DEF Bins
    <3> QED
      BY <3>3, <3>7, <3>8, <3>9 DEF SharedSums
  <2> QED
    BY <2>4, <2>5
<1>3. CASE Count(t)
  <2>1. res' = res /\ pc' = pc /\ input' = input
    BY <1>3 DEF Count
  <2> QED
    BY <2>1 DEF SharedSums, Owned, Combined
<1>4. CASE ~Combine(t) /\ ~Count(t)
  <2>1. PICK label \in {"sync", "count", "sync2", "combine"} : Goto(t, label)
    BY <1>1, <1>4 DEF Step, Clear, Sync, CountEnds, Sync2, RoundLoad, RoundStore, RoundPass, RoundSync
  <2>2. res' = res /\ input' = input
    BY <1>1, <1>4 DEF Step, Clear, Sync, CountEnds, Sync2, RoundLoad, RoundStore, RoundPass, RoundSync
  <2> QED
    BY <1>1, <2>1, <2>2, CombinedStays DEF SharedSums
<1> QED
  BY <1>2, <1>3, <1>4

LEMMA SharedStep ==
  ASSUME TypeOK, InputOK, PhasesApart, SharedInv, NEW t \in Threads, Step(t)
  PROVE  SharedInv'
<1>1. kernel' = kernel
  BY DEF Step, Clear, Sync, Count, CountEnds, Sync2, Combine, RoundLoad, RoundStore, RoundPass, RoundSync
<1> QED
  BY <1>1, SharedPlacesStep, SharedRowsStep, SharedSumsStep DEF SharedInv

(* The elements of the kernel of rounds are those of its one block.        *)
LEMMA RoundsInput ==
  ASSUME InputOK, kernel = "rounds"
  PROVE  /\ DOMAIN input = 0 .. BlockDim - 1
         /\ \A j \in DOMAIN input : /\ <<0, j>> \in Threads /\ <<0, j>>[1] = 0 /\ <<0, j>>[2] = j
                                    /\ j \in Nat /\ input[j] = j % NumBins
<1>1. DOMAIN input = 0 .. BlockDim - 1 /\ \A j \in 0 .. BlockDim - 1 : input[j] = j % NumBins
  BY DEF InputOK, Remainders
<1>2. 0 \in 0 .. Blocks - 1 /\ \A j \in 0 .. BlockDim - 1 : j \in Nat
  BY GridAssumption
<1> QED
  BY <1>1, <1>2, GridFacts

(* The kernel of rounds: the barrier keeps the threads within one round of *)
(* each other, so what a thread has loaded is what is there when it stores.*)
LEMMA RoundsStep ==
  ASSUME TypeOK, InputOK, RoundsInv, NEW t \in Threads, Step(t)
  PROVE  RoundsInv'
<1>1. kernel' = kernel /\ input' = input
  BY DEF Step, Clear, Sync, Count, CountEnds, Sync2, Combine, RoundLoad, RoundStore, RoundPass, RoundSync
<1> SUFFICES ASSUME kernel = "rounds" PROVE RoundsInv'
  BY <1>1 DEF RoundsInv
<1>2. /\ pc \in [Threads -> Labels] /\ i \in [Threads -> Nat] /\ seen \in [Threads -> Nat]
      /\ res \in [Bins -> Nat] /\ BlockDim \in Nat
      /\ t[1] = 0 /\ pc[t] \in {"round", "store", "barrier"} /\ i[t] < BlockDim
  BY GridAssumption DEF RoundsInv, TypeOK, Step, Clear, Sync, Count, CountEnds, Sync2, Combine, RoundLoad, RoundStore, RoundPass, RoundSync
<1>3. \A u \in Threads : u[1] = 0 => tid(u) = u[2] /\ u = <<0, u[2]>> /\ u[2] \in DOMAIN input
  BY GridFacts, GridAssumption, RoundsInput DEF tid
<1>4. \A j \in DOMAIN input : /\ <<0, j>> \in Threads /\ <<0, j>>[1] = 0 /\ <<0, j>>[2] = j
                              /\ j \in Nat /\ input[j] = j % NumBins
  BY RoundsInput
<1>5. CASE RoundLoad(t)
  <2>1. i' = i /\ res' = res /\ pc' = [pc EXCEPT ![t] = "store"] /\ pc[t] = "round" /\ tid(t) = i[t]
        /\ seen' = [seen EXCEPT ![t] = res[tid(t) % NumBins]]
    BY <1>5 DEF RoundLoad, Goto
  <2>2. \A b \in Bins : StoredRows(b)' = StoredRows(b)
    BY <1>1, <1>2, <1>4, <2>1 DEF StoredRows
  <2> QED
    BY <1>1, <1>2, <2>1, <2>2 DEF RoundsInv
<1>6. CASE RoundPass(t)
  <2>1. i' = i /\ res' = res /\ seen' = seen /\ pc' = [pc EXCEPT ![t] = "barrier"] /\ pc[t] = "round" /\ tid(t) # i[t]
    BY <1>6 DEF RoundPass, Goto
  <2>2. \A b \in Bins : StoredRows(b)' = StoredRows(b)
    BY <1>1, <1>2, <1>3, <1>4, <2>1 DEF StoredRows
  <2> QED
    BY <1>1, <1>2, <2>1, <2>2 DEF RoundsInv
<1>7. CASE RoundStore(t)
  <2> DEFINE c == tid(t) % NumBins
  <2>1. i' = i /\ seen' = seen /\ pc' = [pc EXCEPT ![t] = "barrier"] /\ pc[t] = "store"
        /\ res' = [res EXCEPT ![c] = seen[t] + 1] /\ i[t] = tid(t) /\ seen[t] = res[c]
    BY <1>2, <1>7 DEF RoundStore, Goto, RoundsInv
  <2>2. c = input[t[2]] /\ c \in Bins
    BY <1>2, <1>3, <1>4, InputFacts
  <2> HIDE DEF c
  <2>3. ASSUME NEW b \in Bins PROVE res'[b] = Cardinality(StoredRows(b))'
    <3>1. \A j \in DOMAIN input : j # t[2] => (j \in StoredRows(b)' <=> j \in StoredRows(b))
      BY <1>1, <1>2, <1>4, <2>1 DEF StoredRows
    <3>2. t[2] \notin StoredRows(b) /\ (t[2] \in StoredRows(b)' <=> c = b)
      BY <1>1, <1>2, <1>3, <1>4, <2>1, <2>2 DEF StoredRows
    <3>3. StoredRows(b) \subseteq DOMAIN input /\ StoredRows(b)' \subseteq DOMAIN input
      BY <1>1 DEF StoredRows
    <3>4. CASE c = b
      <4>1. StoredRows(b)' = StoredRows(b) \cup {t[2]}
        BY <1>2, <1>3, <3>1, <3>2, <3>3, <3>4
      <4>2. Cardinality(StoredRows(b) \cup {t[2]}) = Cardinality(StoredRows(b)) + 1
        BY <3>2, CountedFinite, OneMoreElement
      <4>3. res'[b] = res[b] + 1 /\ res[b] = Cardinality(StoredRows(b))
        BY <1>2, <2>1, <3>4 DEF RoundsInv
      <4> QED
        BY <4>1, <4>2, <4>3
    <3>5. CASE c # b
      <4>1. StoredRows(b)' = StoredRows(b)
        BY <3>1, <3>2, <3>3, <3>5
      <4> QED
        BY <1>2, <2>1, <3>5, <4>1 DEF RoundsInv
    <3> QED
      BY <3>4, <3>5
  <2>4. \A u \in Threads : pc'[u] = "store" => i'[u] = tid(u) /\ seen'[u] = res'[tid(u) % NumBins]
    <3>1. SUFFICES ASSUME NEW u \in Threads, pc'[u] = "store" PROVE FALSE
      OBVIOUS
    <3>2. u # t /\ pc[u] = "store" /\ u[1] = 0
      BY <1>2, <2>1, <3>1 DEF RoundsInv
    <3>3. i[u] = tid(u) /\ i[u] # i[t]
      BY <1>2, <2>1, <3>2, TidUnique DEF RoundsInv
    <3> QED
      BY <1>2, <2>1, <3>2, <3>3 DEF RoundsInv
  <2> QED
    BY <1>1, <1>2, <2>1, <2>3, <2>4 DEF RoundsInv
<1>8. CASE RoundSync(t)
  <2>1. /\ res' = res /\ seen' = seen /\ pc[t] = "barrier" /\ i' = [i EXCEPT ![t] = i[t] + 1]
        /\ pc' = [pc EXCEPT ![t] = IF i[t] + 1 < BlockDim THEN "round" ELSE "done"]
        /\ \A u \in Threads : u[1] = 0 => i[u] > i[t] \/ (i[u] = i[t] /\ pc[u] = "barrier")
    BY <1>2, <1>8 DEF RoundSync, Goto, Mates
  <2>2. \A b \in Bins : StoredRows(b)' = StoredRows(b)
    BY <1>1, <1>2, <1>3, <1>4, <2>1 DEF StoredRows
  <2>3. \A u, v \in Threads : u[1] = 0 /\ v[1] = 0 =>
          i'[u] <= i'[v] \/ (i'[u] = i'[v] + 1 /\ pc'[v] = "barrier")
    BY <1>2, <2>1 DEF RoundsInv
  <2> QED
    BY <1>1, <1>2, <2>1, <2>2, <2>3 DEF RoundsInv
<1> QED
  BY <1>2, <1>5, <1>6, <1>7, <1>8 DEF Step, Clear, Sync, Count, CountEnds, Sync2, Combine

(* Every step keeps the invariant.                                         *)
LEMMA NextHistogram == HistogramInv /\ [Next]_vars => HistogramInv'
<1> SUFFICES ASSUME HistogramInv, [Next]_vars PROVE HistogramInv'
  OBVIOUS
<1>1. ASSUME NEW t \in Threads, Step(t) PROVE HistogramInv'
  <2>1. PcOK /\ Next
    BY <1>1 DEF HistogramInv, TypeOK, PcOK, Next
  <2> QED
    BY <1>1, <2>1, NextPhases, StepTypes, GlobalStep, SharedStep, RoundsStep DEF HistogramInv
<1>2. CASE UNCHANGED vars
  <2>1. \A ts, b : Owned(ts, b)' = Owned(ts, b) /\ AddedBefore(ts, b)' = AddedBefore(ts, b)
    BY <1>2 DEF vars, Owned, AddedBefore
  <2>2. \A b : Combined(b)' = Combined(b) /\ StoredRows(b)' = StoredRows(b)
    BY <1>2 DEF vars, Combined, StoredRows
  <2>3. TypeOK' /\ InputOK' /\ PhasesApart'
    BY <1>2 DEF vars, HistogramInv, TypeOK, InputOK, PhasesApart
  <2>4. GlobalInv' /\ RoundsInv'
    BY <1>2, <2>1, <2>2 DEF vars, HistogramInv, GlobalInv, RoundsInv, AtFirst
  <2>5. SharedInv'
    <3>1. \A b : Owned(Combined(b), b)' = Owned(Combined(b), b)
      BY <1>2 DEF vars, Combined, Owned
    <3> QED
      BY <1>2, <2>1, <3>1 DEF vars, HistogramInv, SharedInv, SharedPlaces, SharedRows, SharedSums
  <2> QED
    BY <2>3, <2>4, <2>5 DEF HistogramInv
<1> QED
  BY <1>1, <1>2 DEF Next, Finished

(* When all threads are done, no element is left.                          *)
LEMMA DoneCounts == HistogramInv => ResultIsHistogram
<1> SUFFICES ASSUME HistogramInv, AllDone, NEW b \in Bins PROVE res[b] = Expected(b) + AtFirst(b)
  BY DEF ResultIsHistogram, AtFirst
<1>1. InputOK /\ i \in [Threads -> Nat] /\ kernel \in {"global", "shared", "rounds", "data2"}
  BY DEF HistogramInv, TypeOK, Kernels
<1> DEFINE Those == {j \in DOMAIN input : input[j] = b}
<1> SUFFICES res[b] = Cardinality(Those) + AtFirst(b)
  BY DEF Expected
<1>0. Cardinality(Those) \in Nat
  <2>1. IsFiniteSet(Those)
    BY <1>1, InputFacts, FS_Subset
  <2> QED
    BY <2>1, FS_CardinalityType
<1>2. Owned(Threads, b) = Those
  BY <1>1, AllOwned
<1>3. CASE kernel \in {"global", "data2"}
  <2>1. \A t \in Threads : i[t] \in Nat /\ i[t] \notin DOMAIN input
    BY <1>1, <1>3 DEF AllDone, HistogramInv, GlobalInv
  <2>2. AddedBefore(Threads, b) = Owned(Threads, b)
    BY <1>1, <2>1, PastTheEnd
  <2> QED
    BY <1>2, <1>3, <2>2 DEF HistogramInv, GlobalInv
<1>4. CASE kernel = "shared"
  <2>1. Combined(b) = Threads
    BY GridFacts DEF AllDone, Combined
  <2> QED
    BY <1>0, <1>2, <1>4, <2>1 DEF HistogramInv, SharedInv, SharedSums, AtFirst
<1>5. CASE kernel = "rounds"
  <2>1. \A j \in DOMAIN input : j \in 0 .. BlockDim - 1 /\ <<0, j>> \in Threads /\ <<0, j>>[1] = 0
    BY <1>1, <1>5, RoundsInput
  <2>2. \A j \in DOMAIN input : i[<<0, j>>] = BlockDim
    BY <1>5, <2>1 DEF AllDone, HistogramInv, RoundsInv
  <2>3. \A j \in DOMAIN input : i[<<0, j>>] > j
    <3>1. \A j \in 0 .. BlockDim - 1 : BlockDim > j
      BY GridAssumption
    <3> QED
      BY <2>1, <2>2, <3>1
  <2>4. StoredRows(b) = Those
    BY <2>3 DEF StoredRows
  <2>5. res[b] = Cardinality(StoredRows(b))
    BY <1>5 DEF HistogramInv, RoundsInv
  <2> QED
    BY <1>0, <1>5, <2>4, <2>5 DEF AtFirst
<1> QED
  BY <1>1, <1>3, <1>4, <1>5

(* Whatever its grid, its bins and its input, every kernel whose result was*)
(* zeroed computes what histogramCPU does; the one that adds to the        *)
(* uninitialised data2 adds the histogram to whatever the array held.      *)
THEOREM ResultIsHistogramHolds == Spec => []ResultIsHistogram
<1>1. Init => HistogramInv
  BY InitTypes, InitCounts, InitPhases DEF HistogramInv
<1> QED
  BY <1>1, NextHistogram, DoneCounts, PTL DEF Spec

-----------------------------------------------------------------------------
(* Options.  First, induction over the natural numbers, by a set.          *)

LEMMA BelowIsLess == \A x, y \in Nat : (<<x, y>> \in OpToRel(<, Nat)) <=> x < y
BY DEF OpToRel

\* Every set of numbers has a least element.
LEMMA LeastNumber ==
  ASSUME NEW T, T \subseteq Nat, T # {}
  PROVE  \E x \in T : \A y \in T : ~ (y < x)
<1>1. IsWellFoundedOn(OpToRel(<, Nat), Nat)
  BY NatLessThanWellFounded
<1>2. \E x \in T : \A y \in T : ~ (<<y, x>> \in OpToRel(<, Nat))
  BY <1>1, WFMin
<1> QED
  BY <1>2, BelowIsLess

\* A set with 0 and the successor of each of its numbers has them all.
LEMMA Induction ==
  ASSUME NEW S, 0 \in S, \A n \in Nat : n \in S => n + 1 \in S
  PROVE  Nat \subseteq S
<1> DEFINE T == Nat \ S
<1> SUFFICES ASSUME T # {} PROVE FALSE
  OBVIOUS
<1>1. PICK x \in T : \A y \in T : ~ (y < x)
  BY LeastNumber
<1>2. x # 0 /\ x - 1 \in Nat /\ x - 1 < x
  BY <1>1
<1>3. x - 1 \in S
  BY <1>1, <1>2
<1> QED
  BY <1>1, <1>2, <1>3

-----------------------------------------------------------------------------
\* The texts under a name, of the first n values.
Gathering(h, n, long, values) ==
  h = [k \in 0 .. n |->
        IF k = 0 THEN <<>> ELSE IF values[k][1] = long THEN Append(h[k - 1], values[k][2]) ELSE h[k - 1]]

LEMMA GatheringExists == ASSUME NEW m \in Nat, NEW long, NEW values PROVE \E h : Gathering(h, m, long, values)
<1> DEFINE S == {n \in Nat : \E h : Gathering(h, n, long, values)}
<1>1. 0 \in S
  <2>1. Gathering([k \in 0 .. 0 |-> <<>>], 0, long, values)
    BY DEF Gathering
  <2> QED
    BY <2>1
<1>2. ASSUME NEW n \in Nat, n \in S PROVE n + 1 \in S
  <2>1. PICK h : Gathering(h, n, long, values)
    BY <1>2
  <2> DEFINE last == IF values[n + 1][1] = long THEN Append(h[n], values[n + 1][2]) ELSE h[n]
             g    == [k \in 0 .. n + 1 |-> IF k = n + 1 THEN last ELSE h[k]]
             entry(f, k) == IF k = 0 THEN <<>> ELSE IF values[k][1] = long THEN Append(f[k - 1], values[k][2]) ELSE f[k - 1]
  <2>2. ASSUME NEW k \in 0 .. n + 1 PROVE g[k] = entry(g, k)
    <3>1. CASE k = n + 1
      <4>1. k # 0 /\ k - 1 = n /\ n \in 0 .. n + 1 /\ n # n + 1
        BY <3>1
      <4>2. g[k - 1] = h[n] /\ g[k] = last
        BY <4>1, <3>1
      <4> QED
        BY <4>1, <4>2, <3>1
    <3>2. CASE k \in 0 .. n
      <4>1. g[k] = h[k]
        BY <3>2
      <4>2. h[k] = entry(h, k)
        BY <2>1, <3>2 DEF Gathering
      <4>3. k # 0 => g[k - 1] = h[k - 1]
        BY <3>2
      <4> QED
        BY <4>1, <4>2, <4>3
    <3> QED
      BY <3>1, <3>2
  <2>3. Gathering(g, n + 1, long, values)
    <3>1. g = [k \in 0 .. n + 1 |-> g[k]]
      OBVIOUS
    <3> HIDE DEF g
    <3> QED
      BY <3>1, <2>2 DEF Gathering
  <2> QED
    BY <2>3
<1>3. Nat \subseteq S
  <2> HIDE DEF S
  <2> QED
    BY <1>1, <1>2, Induction
<1> QED
  BY <1>3

LEMMA TextsAreGathered ==
  ASSUME NEW long, NEW values, Len(values) \in Nat
  PROVE  \E h : Gathering(h, Len(values), long, values) /\ TextsOf(long, values) = h[Len(values)]
<1> DEFINE h == CHOOSE f : f = [k \in 0 .. Len(values) |->
                  IF k = 0 THEN <<>>
                  ELSE IF values[k][1] = long THEN Append(f[k - 1], values[k][2]) ELSE f[k - 1]]
<1>1. \E f : f = [k \in 0 .. Len(values) |->
                  IF k = 0 THEN <<>>
                  ELSE IF values[k][1] = long THEN Append(f[k - 1], values[k][2]) ELSE f[k - 1]]
  <2>1. \E f : Gathering(f, Len(values), long, values)
    BY GatheringExists
  <2> QED
    BY <2>1 DEF Gathering
<1>2. h = [k \in 0 .. Len(values) |->
             IF k = 0 THEN <<>>
             ELSE IF values[k][1] = long THEN Append(h[k - 1], values[k][2]) ELSE h[k - 1]]
  BY <1>1, Zenon
<1>3. TextsOf(long, values) = h[Len(values)]
  BY DEF TextsOf
<1> HIDE DEF h
<1> QED
  BY <1>2, <1>3 DEF Gathering

(* Gatherings of sequences that begin alike agree.                         *)
LEMMA GatheringsAgree ==
  ASSUME NEW m \in Nat, NEW n \in Nat, NEW long, NEW v, NEW w, NEW g, NEW h,
         Gathering(g, m, long, v), Gathering(h, n, long, w),
         m <= n, \A place \in 1 .. m : v[place] = w[place]
  PROVE  g[m] = h[m]
<1> DEFINE S == {place \in Nat : place <= m => g[place] = h[place]}
<1>1. 0 \in S
  <2>1. g[0] = <<>> /\ h[0] = <<>>
    BY DEF Gathering
  <2> QED
    BY <2>1
<1>2. ASSUME NEW place \in Nat, place \in S PROVE place + 1 \in S
  <2> SUFFICES ASSUME place + 1 <= m PROVE g[place + 1] = h[place + 1]
    OBVIOUS
  <2>1. g[place] = h[place]
    BY <1>2
  <2>2. place + 1 # 0 /\ (place + 1) - 1 = place /\ place + 1 \in 0 .. m /\ place + 1 \in 0 .. n /\ place + 1 \in 1 .. m
    OBVIOUS
  <2>3. g[place + 1] = IF v[place + 1][1] = long THEN Append(g[(place + 1) - 1], v[place + 1][2]) ELSE g[(place + 1) - 1]
    BY <2>2 DEF Gathering
  <2>4. h[place + 1] = IF w[place + 1][1] = long THEN Append(h[(place + 1) - 1], w[place + 1][2]) ELSE h[(place + 1) - 1]
    BY <2>2 DEF Gathering
  <2>5. v[place + 1] = w[place + 1]
    BY <2>2
  <2> QED
    BY <2>1, <2>2, <2>3, <2>4, <2>5
<1>3. Nat \subseteq S
  <2> HIDE DEF S
  <2> QED
    BY <1>1, <1>2, Induction
<1> QED
  BY <1>3

\* A sequence, of whatever.
IsSeq(s) == \E S : s \in Seq(S)

LEMMA AppendAny ==
  ASSUME NEW s, IsSeq(s), NEW e
  PROVE  /\ IsSeq(Append(s, e)) /\ Len(s) \in Nat /\ Len(Append(s, e)) = Len(s) + 1
         /\ DOMAIN s = 1 .. Len(s) /\ DOMAIN Append(s, e) = 1 .. Len(s) + 1
         /\ Append(s, e)[Len(s) + 1] = e
         /\ \A place \in 1 .. Len(s) : Append(s, e)[place] = s[place]
<1>1. PICK S : s \in Seq(S)
  BY DEF IsSeq
<1> DEFINE T == S \cup {e}
<1>2. s \in Seq(T) /\ e \in T
  <2>1. Len(s) \in Nat /\ s = [place \in 1 .. Len(s) |-> s[place]] /\ \A place \in 1 .. Len(s) : s[place] \in S
    BY <1>1, LenProperties, ElementOfSeq
  <2> QED
    BY <2>1
<1> HIDE DEF T
<1>3. /\ Append(s, e) \in Seq(T) /\ Len(s) \in Nat /\ Len(Append(s, e)) = Len(s) + 1
      /\ Append(s, e)[Len(s) + 1] = e
      /\ \A place \in 1 .. Len(s) : Append(s, e)[place] = s[place]
  BY <1>2, AppendProperties, LenProperties
<1>4. DOMAIN s = 1 .. Len(s) /\ DOMAIN Append(s, e) = 1 .. Len(s) + 1
  BY <1>2, <1>3, LenProperties
<1> QED
  BY <1>3, <1>4 DEF IsSeq

(* One more value.                                                         *)
LEMMA TextsAppend ==
  ASSUME NEW long, NEW values, IsSeq(values), NEW e
  PROVE  TextsOf(long, Append(values, e)) =
           IF e[1] = long THEN Append(TextsOf(long, values), e[2]) ELSE TextsOf(long, values)
<1> DEFINE l == Len(values)
           more == Append(values, e)
<1>1. /\ l \in Nat /\ Len(more) = l + 1 /\ more[l + 1] = e /\ \A place \in 1 .. l : more[place] = values[place]
  BY AppendAny
<1> HIDE DEF more, l
<1>2. PICK g : Gathering(g, l, long, values) /\ TextsOf(long, values) = g[l]
  BY <1>1, TextsAreGathered DEF l
<1>3. PICK h : Gathering(h, l + 1, long, more) /\ TextsOf(long, more) = h[l + 1]
  <2>1. Len(more) \in Nat
    BY <1>1
  <2> QED
    BY <1>1, <2>1, TextsAreGathered
<1>4. g[l] = h[l]
  BY <1>1, <1>2, <1>3, GatheringsAgree
<1>5. h[l + 1] = IF more[l + 1][1] = long THEN Append(h[l], more[l + 1][2]) ELSE h[l]
  <2>1. l + 1 # 0 /\ (l + 1) - 1 = l /\ l + 1 \in 0 .. l + 1
    BY <1>1
  <2> QED
    BY <1>3, <2>1 DEF Gathering
<1> QED
  BY <1>1, <1>2, <1>3, <1>4, <1>5 DEF more

(* No value, no text; and the texts are a sequence.                        *)
LEMMA TextsOfNone == ASSUME NEW long PROVE TextsOf(long, <<>>) = <<>>
<1>1. Len(<<>>) = 0
  OBVIOUS
<1>2. PICK h : Gathering(h, 0, long, <<>>) /\ TextsOf(long, <<>>) = h[0]
  BY <1>1, TextsAreGathered
<1>3. h[0] = <<>>
  BY <1>2 DEF Gathering
<1> QED
  BY <1>2, <1>3

\* The elements of the lists that the first n texts hold.
Listing(h, n, texts) ==
  h = [k \in 0 .. n |->
        IF k = 0 THEN <<>> ELSE h[k - 1] \o vector_parser(NumberBits, texts[k])[1]]

LEMMA ListingExists == ASSUME NEW m \in Nat, NEW texts PROVE \E h : Listing(h, m, texts)
<1> DEFINE S == {n \in Nat : \E h : Listing(h, n, texts)}
<1>1. 0 \in S
  <2>1. Listing([k \in 0 .. 0 |-> <<>>], 0, texts)
    BY DEF Listing
  <2> QED
    BY <2>1
<1>2. ASSUME NEW n \in Nat, n \in S PROVE n + 1 \in S
  <2>1. PICK h : Listing(h, n, texts)
    BY <1>2
  <2> DEFINE last == h[n] \o vector_parser(NumberBits, texts[n + 1])[1]
             g    == [k \in 0 .. n + 1 |-> IF k = n + 1 THEN last ELSE h[k]]
             entry(f, k) == IF k = 0 THEN <<>> ELSE f[k - 1] \o vector_parser(NumberBits, texts[k])[1]
  <2>2. ASSUME NEW k \in 0 .. n + 1 PROVE g[k] = entry(g, k)
    <3>1. CASE k = n + 1
      <4>1. k # 0 /\ k - 1 = n /\ n \in 0 .. n + 1 /\ n # n + 1
        BY <3>1
      <4>2. g[k - 1] = h[n] /\ g[k] = last
        BY <4>1, <3>1
      <4> QED
        BY <4>1, <4>2, <3>1
    <3>2. CASE k \in 0 .. n
      <4>1. g[k] = h[k]
        BY <3>2
      <4>2. h[k] = entry(h, k)
        BY <2>1, <3>2 DEF Listing
      <4>3. k # 0 => g[k - 1] = h[k - 1]
        BY <3>2
      <4> QED
        BY <4>1, <4>2, <4>3
    <3> QED
      BY <3>1, <3>2
  <2>3. Listing(g, n + 1, texts)
    <3>1. g = [k \in 0 .. n + 1 |-> g[k]]
      OBVIOUS
    <3> HIDE DEF g
    <3> QED
      BY <3>1, <2>2 DEF Listing
  <2> QED
    BY <2>3
<1>3. Nat \subseteq S
  <2> HIDE DEF S
  <2> QED
    BY <1>1, <1>2, Induction
<1> QED
  BY <1>3

LEMMA ListIsListed ==
  ASSUME NEW texts, Len(texts) \in Nat
  PROVE  \E h : Listing(h, Len(texts), texts) /\ ListOf(texts) = h[Len(texts)]
<1> DEFINE h == CHOOSE f : f = [k \in 0 .. Len(texts) |->
                  IF k = 0 THEN <<>>
                  ELSE f[k - 1] \o vector_parser(NumberBits, texts[k])[1]]
<1>1. \E f : f = [k \in 0 .. Len(texts) |->
                  IF k = 0 THEN <<>>
                  ELSE f[k - 1] \o vector_parser(NumberBits, texts[k])[1]]
  <2>1. \E f : Listing(f, Len(texts), texts)
    BY ListingExists
  <2> QED
    BY <2>1 DEF Listing
<1>2. h = [k \in 0 .. Len(texts) |->
             IF k = 0 THEN <<>>
             ELSE h[k - 1] \o vector_parser(NumberBits, texts[k])[1]]
  BY <1>1, Zenon
<1>3. ListOf(texts) = h[Len(texts)]
  BY DEF ListOf
<1> HIDE DEF h
<1> QED
  BY <1>2, <1>3 DEF Listing

(* Listings of sequences that begin alike agree.                           *)
LEMMA ListingsAgree ==
  ASSUME NEW m \in Nat, NEW n \in Nat, NEW v, NEW w, NEW g, NEW h,
         Listing(g, m, v), Listing(h, n, w),
         m <= n, \A place \in 1 .. m : v[place] = w[place]
  PROVE  g[m] = h[m]
<1> DEFINE S == {place \in Nat : place <= m => g[place] = h[place]}
<1>1. 0 \in S
  <2>1. g[0] = <<>> /\ h[0] = <<>>
    BY DEF Listing
  <2> QED
    BY <2>1
<1>2. ASSUME NEW place \in Nat, place \in S PROVE place + 1 \in S
  <2> SUFFICES ASSUME place + 1 <= m PROVE g[place + 1] = h[place + 1]
    OBVIOUS
  <2>1. g[place] = h[place]
    BY <1>2
  <2>2. place + 1 # 0 /\ (place + 1) - 1 = place /\ place + 1 \in 0 .. m /\ place + 1 \in 0 .. n /\ place + 1 \in 1 .. m
    OBVIOUS
  <2>3. g[place + 1] = g[(place + 1) - 1] \o vector_parser(NumberBits, v[place + 1])[1]
    BY <2>2 DEF Listing
  <2>4. h[place + 1] = h[(place + 1) - 1] \o vector_parser(NumberBits, w[place + 1])[1]
    BY <2>2 DEF Listing
  <2>5. v[place + 1] = w[place + 1]
    BY <2>2
  <2> QED
    BY <2>1, <2>2, <2>3, <2>4, <2>5
<1>3. Nat \subseteq S
  <2> HIDE DEF S
  <2> QED
    BY <1>1, <1>2, Induction
<1> QED
  BY <1>3

(* One more text.                                                          *)
LEMMA ListAppend ==
  ASSUME NEW texts, IsSeq(texts), NEW e
  PROVE  ListOf(Append(texts, e)) = ListOf(texts) \o vector_parser(NumberBits, e)[1]
<1> DEFINE l == Len(texts)
           more == Append(texts, e)
<1>1. /\ l \in Nat /\ Len(more) = l + 1 /\ more[l + 1] = e /\ \A place \in 1 .. l : more[place] = texts[place]
  BY AppendAny
<1> HIDE DEF more, l
<1>2. PICK g : Listing(g, l, texts) /\ ListOf(texts) = g[l]
  BY <1>1, ListIsListed DEF l
<1>3. PICK h : Listing(h, l + 1, more) /\ ListOf(more) = h[l + 1]
  <2>1. Len(more) \in Nat
    BY <1>1
  <2> QED
    BY <1>1, <2>1, ListIsListed
<1>4. g[l] = h[l]
  BY <1>1, <1>2, <1>3, ListingsAgree
<1>5. h[l + 1] = h[l] \o vector_parser(NumberBits, more[l + 1])[1]
  <2>1. l + 1 # 0 /\ (l + 1) - 1 = l /\ l + 1 \in 0 .. l + 1
    BY <1>1
  <2> QED
    BY <1>3, <2>1 DEF Listing
<1> QED
  BY <1>1, <1>2, <1>3, <1>4, <1>5 DEF more

LEMMA ListOfNone == ListOf(<<>>) = <<>>
<1>1. Len(<<>>) = 0
  OBVIOUS
<1>2. PICK h : Listing(h, 0, <<>>) /\ ListOf(<<>>) = h[0]
  BY <1>1, ListIsListed
<1>3. h[0] = <<>>
  BY <1>2 DEF Listing
<1> QED
  BY <1>2, <1>3

(* A sequence of at most one element, in front of another.                 *)
LEMMA ConcatAny ==
  ASSUME NEW s, IsSeq(s), NEW t, IsSeq(t), NEW e
  PROVE  /\ IsSeq(s \o t) /\ s \o <<>> = s
         /\ s \o Append(t, e) = Append(s \o t, e)
         /\ Len(s \o t) = Len(s) + Len(t)
         /\ \A place \in 1 .. Len(s) : (s \o t)[place] = s[place]
         /\ \A place \in 1 .. Len(t) : (s \o t)[Len(s) + place] = t[place]
<1>1. PICK S : s \in Seq(S)
  BY DEF IsSeq
<1>2. PICK T : t \in Seq(T)
  BY DEF IsSeq
<1> DEFINE U == S \cup T \cup {e}
<1>3. s \in Seq(U) /\ t \in Seq(U) /\ e \in U
  <2>1. Len(s) \in Nat /\ s = [place \in 1 .. Len(s) |-> s[place]] /\ \A place \in 1 .. Len(s) : s[place] \in S
    BY <1>1, LenProperties, ElementOfSeq
  <2>2. Len(t) \in Nat /\ t = [place \in 1 .. Len(t) |-> t[place]] /\ \A place \in 1 .. Len(t) : t[place] \in T
    BY <1>2, LenProperties, ElementOfSeq
  <2> QED
    BY <2>1, <2>2
<1> HIDE DEF U
<1>4. s \o t \in Seq(U) /\ s \o <<>> = s /\ s \o Append(t, e) = Append(s \o t, e)
  BY <1>3
<1>5. /\ Len(s \o t) = Len(s) + Len(t)
      /\ \A place \in 1 .. Len(s) : (s \o t)[place] = s[place]
      /\ \A place \in 1 .. Len(t) : (s \o t)[Len(s) + place] = t[place]
  BY <1>3, ConcatProperties
<1> QED
  BY <1>4, <1>5 DEF IsSeq

-----------------------------------------------------------------------------
(* Counting.                                                               *)

(* One more number in a set of numbers.                                    *)
LEMMA OneMore ==
  ASSUME NEW n \in Nat, NEW T, NEW U, T \subseteq 1 .. n, U \subseteq 1 .. n + 1,
         \A k \in 1 .. n : k \in U <=> k \in T
  PROVE  Cardinality(T) \in Nat /\ Cardinality(U) = Cardinality(T) + IF n + 1 \in U THEN 1 ELSE 0
<1>1. IsFiniteSet(T) /\ Cardinality(T) \in Nat
  <2>1. IsFiniteSet(1 .. n)
    <3>1. 1 \in Int /\ n \in Int
      OBVIOUS
    <3> QED
      BY <3>1, FS_Interval
  <2>2. IsFiniteSet(T)
    BY <2>1, FS_Subset
  <2> QED
    BY <2>2, FS_CardinalityType
<1>2. \A k \in U : k \in 1 .. n \/ k = n + 1
  OBVIOUS
<1>3. \A k \in T : k \in 1 .. n /\ k # n + 1
  OBVIOUS
<1>4. n + 1 \in Nat
  OBVIOUS
<1>5. CASE n + 1 \in U
  <2>1. \A k : k \in U <=> k \in T \/ k = n + 1
    BY <1>2, <1>3, <1>5, Zenon
  <2>2. U = T \cup {n + 1} /\ n + 1 \notin T
    BY <1>3, <2>1, Zenon
  <2> QED
    BY <1>1, <1>5, <2>2, FS_AddElement
<1>6. CASE n + 1 \notin U
  <2>1. \A k : k \in U <=> k \in T
    BY <1>2, <1>3, <1>6, Zenon
  <2>2. U = T
    BY <2>1, Zenon
  <2> QED
    BY <1>1, <1>6, <2>2
<1> QED
  BY <1>5, <1>6

\* How often w occurs among the first n elements.
Upto(s, w, n) == Cardinality({k \in 1 .. n : s[k] = w})

LEMMA UptoNext ==
  ASSUME NEW s, NEW w, NEW n \in Nat
  PROVE  /\ Upto(s, w, n) \in Nat
         /\ Upto(s, w, n + 1) = Upto(s, w, n) + IF s[n + 1] = w THEN 1 ELSE 0
<1> DEFINE T == {k \in 1 .. n : s[k] = w}
           U == {k \in 1 .. n + 1 : s[k] = w}
<1>1. Cardinality(T) \in Nat /\ Cardinality(U) = Cardinality(T) + IF n + 1 \in U THEN 1 ELSE 0
  <2>1. T \subseteq 1 .. n /\ U \subseteq 1 .. n + 1 /\ \A k \in 1 .. n : k \in U <=> k \in T
    OBVIOUS
  <2> HIDE DEF T, U
  <2> QED
    BY <2>1, OneMore
<1>2. n + 1 \in U <=> s[n + 1] = w
  OBVIOUS
<1> QED
  BY <1>1, <1>2 DEF Upto

LEMMA UptoNone == ASSUME NEW s, NEW w PROVE Upto(s, w, 0) = 0
<1>1. {k \in 1 .. 0 : s[k] = w} = {}
  OBVIOUS
<1> QED
  BY <1>1, FS_EmptySet DEF Upto

(* Only the first n elements count.                                        *)
LEMMA UptoSame ==
  ASSUME NEW s, NEW t, NEW w, NEW n \in Nat, \A k \in 1 .. n : s[k] = t[k]
  PROVE  Upto(s, w, n) = Upto(t, w, n)
<1>1. {k \in 1 .. n : s[k] = w} = {k \in 1 .. n : t[k] = w}
  OBVIOUS
<1> QED
  BY <1>1 DEF Upto

LEMMA OccurrencesUpto ==
  ASSUME NEW s, IsSeq(s), NEW w
  PROVE  Occurrences(s, w) = Upto(s, w, Len(s))
<1>1. DOMAIN s = 1 .. Len(s)
  BY AppendAny
<1> QED
  BY <1>1 DEF Occurrences, Upto

LEMMA OccurrencesAppend ==
  ASSUME NEW s, IsSeq(s), NEW e, NEW w
  PROVE  /\ Occurrences(s, w) \in Nat
         /\ Occurrences(Append(s, e), w) = Occurrences(s, w) + IF e = w THEN 1 ELSE 0
<1> DEFINE n == Len(s)
           t == Append(s, e)
<1>1. IsSeq(t) /\ n \in Nat /\ Len(t) = n + 1 /\ t[n + 1] = e /\ \A place \in 1 .. n : t[place] = s[place]
  BY AppendAny
<1>2. Occurrences(s, w) = Upto(s, w, n)
  BY OccurrencesUpto
<1> HIDE DEF t
<1>3. Occurrences(t, w) = Upto(t, w, n + 1)
  BY <1>1, OccurrencesUpto
<1> HIDE DEF n
<1>4. Upto(t, w, n) = Upto(s, w, n)
  BY <1>1, UptoSame
<1>5. Upto(t, w, n) \in Nat /\ Upto(t, w, n + 1) = Upto(t, w, n) + IF t[n + 1] = w THEN 1 ELSE 0
  <2>1. n \in Nat
    BY <1>1
  <2> QED
    BY <2>1, UptoNext
<1> QED
  BY <1>1, <1>2, <1>3, <1>4, <1>5 DEF t

(* The occurrences in a sequence that goes on with the rest of another.    *)
LEMMA OccurrencesConcat ==
  ASSUME NEW S, NEW a \in Seq(S), NEW u, IsSeq(u), NEW c \in 1 .. Len(a) + 1, NEW w
  PROVE  Occurrences(u \o SubSeq(a, c, Len(a)), w) + Upto(a, w, c - 1) = Occurrences(u, w) + Occurrences(a, w)
<1> DEFINE r == SubSeq(a, c, Len(a))
           l == Len(u)
           t == u \o r
           N == {n \in Nat : n <= Len(a) - c + 1 =>
                   Upto(t, w, l + n) + Upto(a, w, c - 1) = Upto(u, w, l) + Upto(a, w, c - 1 + n)}
<1>1. /\ r \in Seq(S) /\ Len(a) \in Nat /\ Len(r) = Len(a) - c + 1
      /\ \A place \in 1 .. Len(r) : r[place] = a[c - 1 + place]
  <2>1. Len(a) \in Nat /\ c \in Int /\ 1 <= c /\ c <= Len(a) + 1
    BY LenProperties
  <2>2. r \in Seq(S) /\ Len(r) = Len(a) - c + 1
    BY <2>1
  <2>3. \A place \in 1 .. Len(a) - c + 1 : r[place] = a[c + place - 1]
    BY <2>1
  <2>4. \A place \in 1 .. Len(a) - c + 1 : c + place - 1 = c - 1 + place
    BY <2>1
  <2> QED
    BY <2>1, <2>2, <2>3, <2>4
<1>2. IsSeq(r)
  BY <1>1 DEF IsSeq
<1> HIDE DEF r
<1>3. /\ IsSeq(t) /\ l \in Nat /\ Len(t) = l + Len(r)
      /\ \A place \in 1 .. l : t[place] = u[place]
      /\ \A place \in 1 .. Len(r) : t[l + place] = r[place]
  BY <1>2, AppendAny, ConcatAny
<1>4. IsSeq(a) /\ c - 1 \in Nat /\ c \in Int
  BY <1>1 DEF IsSeq
<1>5. Occurrences(u, w) = Upto(u, w, l) /\ Occurrences(a, w) = Upto(a, w, Len(a))
  BY <1>4, OccurrencesUpto
<1> HIDE DEF t
<1>6. Occurrences(t, w) = Upto(t, w, Len(t))
  BY <1>3, OccurrencesUpto
<1> HIDE DEF l
<1>7. 0 \in N
  <2>1. Upto(t, w, l) = Upto(u, w, l)
    BY <1>3, UptoSame
  <2>2. l + 0 = l /\ c - 1 + 0 = c - 1
    BY <1>3, <1>4
  <2>3. Upto(u, w, l) \in Nat /\ Upto(a, w, c - 1) \in Nat
    BY <1>3, <1>4, UptoNext
  <2> QED
    BY <2>1, <2>2, <2>3
<1>8. ASSUME NEW n \in Nat, n \in N PROVE n + 1 \in N
  <2> SUFFICES ASSUME n + 1 <= Len(a) - c + 1
               PROVE  Upto(t, w, l + (n + 1)) + Upto(a, w, c - 1) = Upto(u, w, l) + Upto(a, w, c - 1 + (n + 1))
    OBVIOUS
  <2>1. Upto(t, w, l + n) + Upto(a, w, c - 1) = Upto(u, w, l) + Upto(a, w, c - 1 + n)
    BY <1>1, <1>4, <1>8
  <2>2. PICK place \in Nat : place = l + n
    BY <1>3
  <2>3. PICK j \in Nat : j = c - 1 + n
    BY <1>4
  <2>4. l + (n + 1) = place + 1 /\ c - 1 + (n + 1) = j + 1
    <3>1. l \in Nat /\ c \in Int
      BY <1>3, <1>4
    <3>2. l + (n + 1) = place + 1
      BY <2>2, <3>1
    <3>3. c - 1 + (n + 1) = j + 1
      BY <2>3, <3>1
    <3> QED
      BY <3>2, <3>3
  <2>5. t[place + 1] = a[j + 1]
    <3>1. n + 1 \in 1 .. Len(r)
      BY <1>1, <1>4
    <3>2. t[l + (n + 1)] = r[n + 1] /\ r[n + 1] = a[c - 1 + (n + 1)]
      BY <1>1, <1>3, <3>1
    <3> QED
      BY <2>4, <3>2
  <2>6. Upto(t, w, place) \in Nat /\ Upto(t, w, place + 1) = Upto(t, w, place) + IF t[place + 1] = w THEN 1 ELSE 0
    BY UptoNext
  <2>7. Upto(a, w, j) \in Nat /\ Upto(a, w, j + 1) = Upto(a, w, j) + IF a[j + 1] = w THEN 1 ELSE 0
    BY UptoNext
  <2>8. Upto(u, w, l) \in Nat /\ Upto(a, w, c - 1) \in Nat
    BY <1>3, <1>4, UptoNext
  <2>9. Upto(t, w, place) + Upto(a, w, c - 1) = Upto(u, w, l) + Upto(a, w, j)
    BY <2>1, <2>2, <2>3
  <2>10. Upto(t, w, place + 1) + Upto(a, w, c - 1) = Upto(u, w, l) + Upto(a, w, j + 1)
    <3>1. PICK d \in Nat : d = IF a[j + 1] = w THEN 1 ELSE 0
      OBVIOUS
    <3>2. Upto(t, w, place + 1) = Upto(t, w, place) + d /\ Upto(a, w, j + 1) = Upto(a, w, j) + d
      BY <2>5, <2>6, <2>7, <3>1, Zenon
    <3>3. Upto(t, w, place) \in Nat /\ Upto(a, w, j) \in Nat
      BY UptoNext
    <3>4. PICK p, q, r1, s1 \in Nat : p = Upto(t, w, place) /\ q = Upto(a, w, c - 1) /\ r1 = Upto(u, w, l) /\ s1 = Upto(a, w, j)
      BY <2>8, <3>3
    <3>5. p + q = r1 + s1
      BY <2>9, <3>4
    <3>6. (p + d) + q = r1 + (s1 + d)
      BY <3>5
    <3>7. Upto(t, w, place + 1) = p + d /\ Upto(a, w, j + 1) = s1 + d
      BY <3>2, <3>4
    <3>8. Upto(t, w, place + 1) + q = r1 + Upto(a, w, j + 1)
      BY <3>6, <3>7
    <3> QED
      BY <3>4, <3>8
  <2> QED
    BY <2>4, <2>10
<1>9. Nat \subseteq N
  <2> HIDE DEF N
  <2> QED
    BY <1>7, <1>8, Induction
<1>10. Len(a) - c + 1 \in Nat /\ c - 1 + (Len(a) - c + 1) = Len(a)
  BY <1>1, <1>4
<1>11. PICK m \in Nat : m = Len(a) - c + 1
  BY <1>10
<1>12. Upto(t, w, l + m) + Upto(a, w, c - 1) = Upto(u, w, l) + Upto(a, w, c - 1 + m)
  BY <1>1, <1>4, <1>9, <1>11
<1>13. l + m = Len(t) /\ c - 1 + m = Len(a)
  BY <1>1, <1>3, <1>10, <1>11
<1>14. Occurrences(t, w) + Upto(a, w, c - 1) = Occurrences(u, w) + Occurrences(a, w)
  BY <1>5, <1>6, <1>12, <1>13
<1> QED
  BY <1>14 DEF t, r

-----------------------------------------------------------------------------
(* The invariant: what is held for an option, and how often each word has  *)
(* been used, agree with the words before the one at hand.                 *)

Parsing == {"words", "group", "defaults", "rest"}

\* What the words, the setup and the position look like.
Shapes ==
  /\ SetupOK(setup) /\ current \in 1 .. Len(argv) + 1
  /\ phase = "group" => current <= Len(argv) /\ Dashed(Word) /\ letter \in 2 .. Len(Word)
  /\ IsSeq(m_sequential) /\ IsSeq(unmatched)

\* An option is found under each of its names.
NamesKept ==
  \A o \in Range(m_options) :
    /\ o.type \in Types /\ o.default \in OneText /\ o.implicit \in OneText
    /\ \A name \in NamesOf(o) : name \in DOMAIN m_options /\ m_options[name] = o

NothingYet ==
  phase = "adding" => /\ current = 1 /\ DOMAIN m_parsed = {}
                      /\ m_sequential = <<>> /\ unmatched = <<>>

\* What is held for an option is what the texts given so far mean.
KeptFor(o) ==
  /\ Entry(o).default \in BOOLEAN
  /\ Entry(o) = [type |-> o.type, count |-> Len(Texts(o)), default |-> Entry(o).default,
                 store |-> Meaning(o, Entry(o))]
Followed      == {o \in Range(m_options) : Alone(o) /\ o.long # <<>>}
ValuesKept    == phase \in Parsing => \A o \in Followed : KeptFor(o)
DefaultsKept  == phase = "rest" => \A o \in Followed : o.default # <<>> /\ Entry(o).count = 0 => Entry(o).default

\* Every word so far that is no option is a value or unmatched.
PlainWords == {w \in Range(argv) \ Joined : ~Dashed(w)}
CountedTo(w) == Upto(argv, w, current - 1) = Occurrences(unmatched, w) + Values(w)
Counted == phase \in Parsing => \A w \in PlainWords : CountedTo(w)

OptionsInv == /\ Shapes /\ NamesKept /\ NothingYet /\ ValuesKept /\ DefaultsKept /\ Counted
              /\ WordsAccountedFor

-----------------------------------------------------------------------------
(* What is held for an option.                                             *)

LEMMA TextsAreSeq == ASSUME NEW long, NEW values, IsSeq(values) PROVE IsSeq(TextsOf(long, values))
<1>1. Len(values) \in Nat
  BY AppendAny
<1>2. PICK h : Gathering(h, Len(values), long, values) /\ TextsOf(long, values) = h[Len(values)]
  BY <1>1, TextsAreGathered
<1> DEFINE S == {n \in Nat : n <= Len(values) => IsSeq(h[n])}
<1>3. 0 \in S
  <2>1. h[0] = <<>>
    BY <1>1, <1>2 DEF Gathering
  <2>2. <<>> \in Seq(Nat)
    OBVIOUS
  <2> QED
    BY <2>1, <2>2 DEF IsSeq
<1>4. ASSUME NEW n \in Nat, n \in S PROVE n + 1 \in S
  <2> SUFFICES ASSUME n + 1 <= Len(values) PROVE IsSeq(h[n + 1])
    OBVIOUS
  <2>1. IsSeq(h[n])
    BY <1>1, <1>4
  <2>2. n + 1 # 0 /\ (n + 1) - 1 = n /\ n + 1 \in 0 .. Len(values)
    BY <1>1
  <2>3. h[n + 1] = IF values[n + 1][1] = long THEN Append(h[n], values[n + 1][2]) ELSE h[n]
    BY <1>2, <2>2 DEF Gathering
  <2>4. IsSeq(Append(h[n], values[n + 1][2]))
    BY <2>1, AppendAny
  <2> QED
    BY <2>1, <2>3, <2>4
<1>5. Nat \subseteq S
  <2> HIDE DEF S
  <2> QED
    BY <1>3, <1>4, Induction
<1> QED
  BY <1>1, <1>2, <1>5

LEMMA StoredAlone ==
  ASSUME NEW type \in Types \ {"list"}, NEW store, NEW text
  PROVE  Stored(type, store, text) = Stored(type, <<>>, text)
BY DEF Types, Stored

LEMMA StoredInList ==
  ASSUME NEW store, NEW text, Stored("list", store, text) # <<>>
  PROVE  Stored("list", store, text)[1] = store \o vector_parser(NumberBits, text)[1]
<1>1. Stored("list", store, text) = Added(store, vector_parser(NumberBits, text))
  BY DEF Stored
<1> QED
  BY <1>1 DEF Added

(* One more text.                                                          *)
LEMMA MeaningAppend ==
  ASSUME NEW o, o.type \in Types, NEW all, IsSeq(all), NEW text,
         Stored(o.type, MeaningOf(o, all), text) # <<>>
  PROVE  MeaningOf(o, Append(all, text)) = Stored(o.type, MeaningOf(o, all), text)[1]
<1> DEFINE more == Append(all, text)
<1>1. Len(all) \in Nat /\ Len(more) = Len(all) + 1 /\ more[Len(more)] = text
  BY AppendAny
<1>2. more # <<>>
  <2>1. Len(<<>>) = 0
    OBVIOUS
  <2> QED
    BY <1>1, <2>1
<1>3. CASE o.type = "list"
  <2>1. MeaningOf(o, all) = ListOf(all)
    BY <1>3, ListOfNone DEF MeaningOf
  <2>2. MeaningOf(o, more) = ListOf(more)
    BY <1>2, <1>3 DEF MeaningOf
  <2>3. ListOf(more) = ListOf(all) \o vector_parser(NumberBits, text)[1]
    BY ListAppend
  <2>4. Stored("list", ListOf(all), text)[1] = ListOf(all) \o vector_parser(NumberBits, text)[1]
    BY <1>3, <2>1, StoredInList
  <2> QED
    BY <1>3, <2>1, <2>2, <2>3, <2>4
<1>4. CASE o.type # "list"
  <2> HIDE DEF more
  <2>1. MeaningOf(o, more) = Stored(o.type, <<>>, more[Len(more)])[1]
    BY <1>2, <1>4 DEF MeaningOf
  <2>2. Stored(o.type, MeaningOf(o, all), text) = Stored(o.type, <<>>, text)
    BY <1>4, StoredAlone
  <2> QED
    BY <1>1, <2>1, <2>2 DEF more
<1> QED
  BY <1>3, <1>4

LEMMA EntryAfter ==
  ASSUME NEW p, NEW x, m_parsed' = With(m_parsed, {Hash(p)}, x), NEW o
  PROVE  Entry(o)' = IF Hash(o) = Hash(p) THEN x ELSE Entry(o)
<1>1. DOMAIN m_parsed' = DOMAIN m_parsed \cup {Hash(p)}
  BY DEF With
<1>2. CASE Hash(o) = Hash(p)
  <2>1. m_parsed'[Hash(o)] = x
    BY <1>2 DEF With
  <2> QED
    BY <1>1, <1>2, <2>1 DEF Entry
<1>3. CASE Hash(o) # Hash(p)
  <2>1. Hash(o) \in DOMAIN m_parsed => m_parsed'[Hash(o)] = m_parsed[Hash(o)]
    BY <1>3 DEF With
  <2> QED
    BY <1>1, <1>3, <2>1 DEF Entry
<1> QED
  BY <1>2, <1>3

(* A value that is given.                                                  *)
LEMMA GivenKept ==
  ASSUME NamesKept, IsSeq(m_sequential),
         NEW p \in Range(m_options), NEW text, Parsed(p, text) # <<>>,
         parse_option(p, text, Parsed(p, text)),
         NEW o \in Followed, KeptFor(o)
  PROVE  /\ KeptFor(o)'
         /\ (o.default # <<>> /\ Entry(o).count = 0 => Entry(o).default) =>
              (o.default # <<>> /\ Entry(o)'.count = 0 => Entry(o)'.default)
<1> DEFINE store == Parsed(p, text)
           x == [Entry(p) EXCEPT !.count = @ + 1, !.store = store[1]]
<1>1. m_parsed' = With(m_parsed, {Hash(p)}, x) /\ m_sequential' = Append(m_sequential, <<p.long, text>>)
  BY DEF parse_option
<1>2. Entry(o)' = IF Hash(o) = Hash(p) THEN x ELSE Entry(o)
  <2> HIDE DEF x
  <2> QED
    BY <1>1, EntryAfter
<1>3. Texts(o)' = IF p.long = o.long THEN Append(Texts(o), text) ELSE Texts(o)
  <2>1. <<p.long, text>>[1] = p.long /\ <<p.long, text>>[2] = text
    OBVIOUS
  <2>2. Texts(o)' = TextsOf(o.long, m_sequential')
    BY DEF Texts
  <2>3. Texts(o) = TextsOf(o.long, m_sequential)
    BY DEF Texts
  <2>4. PICK e : e = <<p.long, text>>
    OBVIOUS
  <2>5. TextsOf(o.long, Append(m_sequential, e)) =
          IF e[1] = o.long THEN Append(TextsOf(o.long, m_sequential), e[2]) ELSE TextsOf(o.long, m_sequential)
    BY TextsAppend, Zenon
  <2> QED
    BY <1>1, <2>1, <2>2, <2>3, <2>4, <2>5
<1>4. o \in Range(m_options) /\ Alone(o) /\ o.long # <<>>
  BY DEF Followed
<1>5. IsSeq(Texts(o))
  BY TextsAreSeq DEF Texts
<1>6. o.type \in Types /\ o.default \in OneText
  BY <1>4 DEF NamesKept
<1>7. CASE Hash(o) = Hash(p)
  <2>1. p = o
    BY <1>4, <1>7 DEF Alone, Hash
  <2> DEFINE e == Entry(o)
             all == All(o, e)
  <2>2. e = [type |-> o.type, count |-> Len(Texts(o)), default |-> e.default, store |-> MeaningOf(o, all)] /\ e.default \in BOOLEAN
    BY DEF KeptFor, Meaning
  <2>3. e.type = o.type /\ e.store = MeaningOf(o, all)
    BY <2>2
  <2>4. Parsed(o, text) = Stored(o.type, MeaningOf(o, all), text)
    BY <2>3 DEF Parsed
  <2>5. IsSeq(all) /\ All(o, Entry(o))' = Append(all, text)
    <3>1. Entry(o)'.default = e.default
      <4>1. x.default = e.default
        BY <2>1, <2>2
      <4> QED
        BY <1>2, <1>7, <4>1
    <3>2. Texts(o)' = Append(Texts(o), text)
      BY <1>3, <2>1
    <3>3. IsSeq(o.default)
      BY <1>6 DEF IsSeq, OneText
    <3>4. IsSeq(o.default \o Texts(o)) /\ o.default \o Append(Texts(o), text) = Append(o.default \o Texts(o), text)
      <4>1. PICK t : t = Texts(o)
        OBVIOUS
      <4>2. PICK d : d = o.default
        OBVIOUS
      <4>3. IsSeq(t) /\ IsSeq(d)
        BY <1>5, <3>3, <4>1, <4>2
      <4>4. IsSeq(d \o t) /\ d \o Append(t, text) = Append(d \o t, text)
        BY <4>3, ConcatAny
      <4> QED
        BY <4>1, <4>2, <4>4
    <3>5. All(o, Entry(o))' = IF e.default THEN o.default \o Append(Texts(o), text) ELSE Append(Texts(o), text)
      BY <3>1, <3>2 DEF All
    <3> QED
      BY <1>5, <3>4, <3>5 DEF All
  <2>6. x = [type |-> o.type, count |-> Len(Texts(o)) + 1, default |-> e.default, store |-> store[1]]
    <3> HIDE DEF store, all
    <3>1. x = [Entry(p) EXCEPT !.count = @ + 1, !.store = store[1]]
      OBVIOUS
    <3> HIDE DEF e, x
    <3>2. Entry(p) = e
      BY <2>1 DEF e
    <3>3. x = [e EXCEPT !.count = @ + 1, !.store = store[1]]
      BY <3>1, <3>2
    <3>4. PICK c, d, s : e = [type |-> o.type, count |-> c, default |-> d, store |-> s] /\ c = Len(Texts(o)) /\ d = e.default
      BY <2>2
    <3>5. DOMAIN x = {"type", "count", "default", "store"} /\ x = [f \in DOMAIN x |-> x[f]]
      BY <3>3, <3>4
    <3>6. x.type = o.type /\ x.count = c + 1 /\ x.default = d /\ x.store = store[1]
      BY <3>3, <3>4
    <3>7. PICK y : y = [type |-> o.type, count |-> c + 1, default |-> d, store |-> store[1]]
      OBVIOUS
    <3>8. DOMAIN y = DOMAIN x /\ y = [f \in DOMAIN y |-> y[f]] /\ \A f \in DOMAIN x : x[f] = y[f]
      BY <3>5, <3>6, <3>7
    <3>9. x = y
      BY <3>5, <3>8
    <3> QED
      BY <3>4, <3>7, <3>9
  <2>7. MeaningOf(o, Append(all, text)) = store[1]
    <3> HIDE DEF all
    <3> QED
      BY <1>6, <2>1, <2>4, <2>5, MeaningAppend
  <2>8. Meaning(o, Entry(o))' = store[1]
    <3>1. Meaning(o, Entry(o))' = MeaningOf(o, All(o, Entry(o))')
      BY DEF Meaning, MeaningOf, Stored
    <3> QED
      BY <2>5, <2>7, <3>1
  <2>9. Len(Texts(o)') = Len(Texts(o)) + 1 /\ Len(Texts(o)) \in Nat
    BY <1>3, <1>5, <2>1, AppendAny
  <2>10. Entry(o)' = x
    BY <1>2, <1>7
  <2> HIDE DEF x, store, all
  <2>11. Entry(o)'.count # 0 /\ Entry(o)'.default = e.default
    BY <2>6, <2>9, <2>10
  <2> QED
    BY <2>2, <2>6, <2>8, <2>9, <2>10, <2>11 DEF KeptFor
<1>8. CASE Hash(o) # Hash(p)
  <2>1. p.long # o.long
    <3> SUFFICES ASSUME p.long = o.long PROVE FALSE
      OBVIOUS
    <3>1. o.long \in NamesOf(o) /\ o.long \in NamesOf(p)
      BY <1>4 DEF NamesOf
    <3>2. p = o
      BY <1>4, <3>1 DEF NamesKept
    <3> QED
      BY <1>8, <3>2
  <2>2. Entry(o)' = Entry(o) /\ Texts(o)' = Texts(o)
    BY <1>2, <1>3, <1>8, <2>1
  <2>3. Meaning(o, Entry(o))' = Meaning(o, Entry(o))
    BY <2>2 DEF Meaning, MeaningOf, Stored, All
  <2> QED
    BY <2>2, <2>3 DEF KeptFor
<1> QED
  BY <1>7, <1>8

LEMMA EmptyIs == ASSUME NEW s, IsSeq(s), Len(s) = 0 PROVE s = <<>>
<1>1. PICK S : s \in Seq(S)
  BY DEF IsSeq
<1> QED
  BY <1>1

LEMMA OneTextIs == ASSUME NEW t \in OneText, t # <<>> PROVE t = Append(<<>>, t[1]) /\ t[1] \in Seq(STRING) /\ t[1] \in Range(t)
<1>1. t \in Seq(Seq(STRING)) /\ Len(t) = 1
  <2>1. t \in Seq(Seq(STRING)) /\ Len(t) <= 1 /\ Len(t) \in Nat
    BY DEF OneText
  <2>2. Len(t) # 0
    BY <2>1, EmptyIs DEF IsSeq
  <2>3. \A l \in Nat : l <= 1 /\ l # 0 => l = 1
    OBVIOUS
  <2> QED
    BY <2>1, <2>2, <2>3, Zenon
<1>2. t[1] \in Seq(STRING) /\ 1 \in DOMAIN t /\ t = <<t[1]>>
  BY <1>1
<1> QED
  BY <1>2 DEF Range

(* A default that is filled in.                                            *)
LEMMA DefaultKept ==
  ASSUME NamesKept, IsSeq(m_sequential),
         NEW p \in Lacking, Parsed(p, p.default[1]) # <<>>,
         DefaultParsed(p, Parsed(p, p.default[1])),
         NEW o \in Followed, KeptFor(o)
  PROVE  KeptFor(o)'
<1> DEFINE store == Parsed(p, p.default[1])
           x == [Entry(p) EXCEPT !.default = TRUE, !.store = store[1]]
<1>1. m_parsed' = With(m_parsed, {Hash(p)}, x) /\ m_sequential' = m_sequential
  BY DEF DefaultParsed
<1>2. Entry(o)' = IF Hash(o) = Hash(p) THEN x ELSE Entry(o)
  <2> HIDE DEF x
  <2> QED
    BY <1>1, EntryAfter
<1>3. Texts(o)' = Texts(o)
  BY <1>1 DEF Texts
<1>4. o \in Range(m_options) /\ Alone(o) /\ o.long # <<>>
  BY DEF Followed
<1>5. IsSeq(Texts(o))
  BY TextsAreSeq DEF Texts
<1>6. o.type \in Types /\ o.default \in OneText
  BY <1>4 DEF NamesKept
<1>7. CASE Hash(o) = Hash(p)
  <2>1. p = o
    BY <1>4, <1>7 DEF Alone, Hash, Lacking
  <2> DEFINE e == Entry(o)
  <2>2. e = [type |-> o.type, count |-> Len(Texts(o)), default |-> e.default, store |-> Meaning(o, e)] /\ e.default \in BOOLEAN
    BY DEF KeptFor
  <2>3. o.default # <<>> /\ e.count = 0 /\ ~e.default
    BY <2>1 DEF Lacking
  <2>4. Texts(o) = <<>>
    <3>1. Len(Texts(o)) = 0
      BY <2>2, <2>3
    <3> QED
      BY <1>5, <3>1, EmptyIs
  <2>5. e.type = o.type /\ e.store = MeaningOf(o, <<>>)
    <3>1. All(o, e) = <<>>
      BY <2>3, <2>4 DEF All
    <3> QED
      BY <2>2, <3>1 DEF Meaning
  <2>6. Parsed(o, o.default[1]) = Stored(o.type, MeaningOf(o, <<>>), o.default[1])
    BY <2>5 DEF Parsed
  <2>7. MeaningOf(o, o.default) = store[1]
    <3>1. IsSeq(<<>>)
      <4>1. <<>> \in Seq(Nat)
        OBVIOUS
      <4> QED
        BY <4>1 DEF IsSeq
    <3>2. o.default = Append(<<>>, o.default[1])
      BY <1>6, <2>3, OneTextIs
    <3>3. PICK t : t = o.default[1]
      OBVIOUS
    <3>4. Stored(o.type, MeaningOf(o, <<>>), t) # <<>> /\ store = Stored(o.type, MeaningOf(o, <<>>), t)
      BY <2>1, <2>6, <3>3
    <3>5. MeaningOf(o, Append(<<>>, t)) = Stored(o.type, MeaningOf(o, <<>>), t)[1]
      BY <1>6, <3>1, <3>4, MeaningAppend
    <3> QED
      BY <3>2, <3>3, <3>4, <3>5
  <2>8. x = [type |-> o.type, count |-> Len(Texts(o)), default |-> TRUE, store |-> store[1]]
    <3> HIDE DEF store
    <3>1. x = [Entry(p) EXCEPT !.default = TRUE, !.store = store[1]]
      OBVIOUS
    <3> HIDE DEF e, x
    <3>2. Entry(p) = e
      BY <2>1 DEF e
    <3>3. x = [e EXCEPT !.default = TRUE, !.store = store[1]]
      BY <3>1, <3>2
    <3>4. PICK c, d, s : e = [type |-> o.type, count |-> c, default |-> d, store |-> s] /\ c = Len(Texts(o))
      BY <2>2
    <3>5. DOMAIN x = {"type", "count", "default", "store"} /\ x = [f \in DOMAIN x |-> x[f]]
      BY <3>3, <3>4
    <3>6. x.type = o.type /\ x.count = c /\ x.default = TRUE /\ x.store = store[1]
      BY <3>3, <3>4
    <3>7. PICK y : y = [type |-> o.type, count |-> c, default |-> TRUE, store |-> store[1]]
      OBVIOUS
    <3>8. DOMAIN y = DOMAIN x /\ y = [f \in DOMAIN y |-> y[f]] /\ \A f \in DOMAIN x : x[f] = y[f]
      BY <3>5, <3>6, <3>7
    <3>9. x = y
      BY <3>5, <3>8
    <3> QED
      BY <3>4, <3>7, <3>9
  <2>9. Entry(o)' = x
    BY <1>2, <1>7
  <2> HIDE DEF x, store, e
  <2>10. Entry(o)'.default = TRUE
    BY <2>8, <2>9
  <2>11. Meaning(o, Entry(o))' = store[1]
    <3>1. Meaning(o, Entry(o))' = MeaningOf(o, All(o, Entry(o))')
      BY DEF Meaning, MeaningOf, Stored
    <3>2. All(o, Entry(o))' = o.default \o <<>>
      BY <1>3, <2>4, <2>10 DEF All
    <3>3. o.default \o <<>> = o.default
      BY <1>6 DEF OneText
    <3> QED
      BY <2>7, <3>1, <3>2, <3>3
  <2> QED
    BY <1>3, <2>8, <2>9, <2>10, <2>11 DEF KeptFor
<1>8. CASE Hash(o) # Hash(p)
  <2>1. Entry(o)' = Entry(o)
    BY <1>2, <1>8
  <2>2. Meaning(o, Entry(o))' = Meaning(o, Entry(o))
    BY <1>3, <2>1 DEF Meaning, MeaningOf, Stored, All
  <2> QED
    BY <1>3, <2>1, <2>2 DEF KeptFor
<1> QED
  BY <1>7, <1>8

LEMMA IsSeqOf == ASSUME NEW S, NEW s \in Seq(S) PROVE IsSeq(s)
BY DEF IsSeq

LEMMA ValuesAppend ==
  ASSUME IsSeq(m_sequential), NEW name, NEW text, m_sequential' = Append(m_sequential, <<name, text>>), NEW w
  PROVE  Values(w) \in Nat /\ Values(w)' = Values(w) + IF text = w THEN 1 ELSE 0
<1> DEFINE n == Len(m_sequential)
           T == {k \in DOMAIN m_sequential : m_sequential[k][2] = w}
           U == {k \in DOMAIN m_sequential' : m_sequential'[k][2] = w}
<1>1. /\ n \in Nat /\ DOMAIN m_sequential = 1 .. n /\ DOMAIN m_sequential' = 1 .. n + 1
      /\ m_sequential'[n + 1] = <<name, text>> /\ \A k \in 1 .. n : m_sequential'[k] = m_sequential[k]
  BY AppendAny
<1>2. m_sequential'[n + 1][2] = text
  BY <1>1
<1> HIDE DEF n
<1>3. n + 1 \in U <=> text = w
  BY <1>1, <1>2
<1>4. T \subseteq 1 .. n /\ U \subseteq 1 .. n + 1 /\ \A k \in 1 .. n : k \in U <=> k \in T
  BY <1>1
<1> HIDE DEF T, U
<1>5. Cardinality(T) \in Nat /\ Cardinality(U) = Cardinality(T) + IF n + 1 \in U THEN 1 ELSE 0
  BY <1>1, <1>4, OneMore
<1>6. Values(w) = Cardinality(T) /\ Values(w)' = Cardinality(U)
  BY DEF Values, T, U
<1> QED
  BY <1>3, <1>5, <1>6

LEMMA ValuesType == ASSUME IsSeq(m_sequential), NEW w PROVE Values(w) \in Nat
<1> DEFINE n == Len(m_sequential)
           T == {k \in DOMAIN m_sequential : m_sequential[k][2] = w}
<1>1. n \in Nat /\ DOMAIN m_sequential = 1 .. n
  BY AppendAny
<1>2. IsFiniteSet(1 .. n)
  <2>1. 1 \in Int /\ n \in Int
    BY <1>1
  <2> QED
    BY <2>1, FS_Interval
<1>3. IsFiniteSet(T)
  <2>1. T \subseteq 1 .. n
    BY <1>1
  <2> QED
    BY <1>2, <2>1, FS_Subset
<1> QED
  BY <1>3, FS_CardinalityType DEF Values

LEMMA ArgvTypes ==
  ASSUME Shapes
  PROVE  /\ argv \in Seq(Seq(STRING)) /\ Len(argv) \in Nat /\ IsSeq(argv) /\ current \in Nat
         /\ current - 1 \in Nat /\ DOMAIN argv = 1 .. Len(argv)
         /\ \A place \in 1 .. Len(argv) : argv[place] \in Seq(STRING) /\ Len(argv[place]) \in Nat /\ argv[place] \in Range(argv)
<1>1. argv \in Seq(Seq(STRING))
  BY DEF Shapes, SetupOK, argv
<1>2. current \in 1 .. Len(argv) + 1
  BY DEF Shapes
<1>3. Len(argv) \in Nat /\ DOMAIN argv = 1 .. Len(argv)
  BY <1>1
<1>4. \A place \in 1 .. Len(argv) : argv[place] \in Seq(STRING) /\ argv[place] \in Range(argv)
  BY <1>1, <1>3 DEF Range
<1>5. \A place \in 1 .. Len(argv) : Len(argv[place]) \in Nat
  BY <1>4
<1> QED
  BY <1>1, <1>2, <1>3, <1>4, <1>5, IsSeqOf

LEMMA CountTypes ==
  ASSUME Shapes, NEW w
  PROVE  /\ Upto(argv, w, current - 1) \in Nat /\ Occurrences(unmatched, w) \in Nat /\ Values(w) \in Nat
<1>1. Upto(argv, w, current - 1) \in Nat
  BY ArgvTypes, UptoNext
<1>2. Occurrences(unmatched, w) \in Nat
  BY OccurrencesAppend DEF Shapes
<1>3. Values(w) \in Nat
  BY ValuesType DEF Shapes
<1> QED
  BY <1>1, <1>2, <1>3

\* One word more is counted.
LEMMA NextWord ==
  ASSUME Shapes, current <= Len(argv), NEW w
  PROVE  /\ Upto(argv, w, current - 1) \in Nat /\ current + 1 \in 1 .. Len(argv) + 1
         /\ Upto(argv, w, (current + 1) - 1) = Upto(argv, w, current - 1) + IF Word = w THEN 1 ELSE 0
<1>1. PICK n \in Nat : n = current - 1
  BY ArgvTypes
<1>2. Upto(argv, w, n) \in Nat /\ Upto(argv, w, n + 1) = Upto(argv, w, n) + IF argv[n + 1] = w THEN 1 ELSE 0
  BY UptoNext
<1>3. n + 1 = current /\ (current + 1) - 1 = n + 1 /\ current + 1 \in 1 .. Len(argv) + 1
  BY <1>1, ArgvTypes
<1> QED
  BY <1>1, <1>2, <1>3 DEF Word

(* What hangs on the setup and the options only.                           *)
LEMMA SetupSame ==
  ASSUME UNCHANGED <<setup, m_options>>
  PROVE  /\ argv' = argv /\ (NamesKept => NamesKept') /\ Followed' = Followed /\ Joined' = Joined
         /\ PlainWords' = PlainWords /\ Range(argv)' = Range(argv)
<1>1. argv' = argv /\ m_options' = m_options
  BY DEF argv
<1>2. NamesKept => NamesKept'
  BY <1>1 DEF NamesKept, NamesOf
<1>3. Followed' = Followed
  BY <1>1 DEF Followed, Alone
<1>4. Joined' = Joined
  BY <1>1 DEF Joined
<1>5. PlainWords' = PlainWords
  BY <1>1, <1>4 DEF PlainWords
<1> QED
  BY <1>1, <1>2, <1>3, <1>4, <1>5

(* A step that gives no value.                                             *)
LEMMA QuietStep ==
  ASSUME OptionsInv, phase \in Parsing, phase' \in Parsing,
         UNCHANGED <<setup, m_options, m_parsed, m_sequential>>, IsSeq(unmatched'),
         phase' = "rest" => phase = "rest" \/ Lacking = {},
         current' \in 1 .. Len(argv) + 1,
         phase' = "group" => current' <= Len(argv) /\ Dashed(argv[current']) /\ letter' \in 2 .. Len(argv[current']),
         \A w \in PlainWords : Upto(argv, w, current' - 1) + Occurrences(unmatched, w)
                                 = Upto(argv, w, current - 1) + Occurrences(unmatched', w)
  PROVE  OptionsInv'
<1> USE DEF OptionsInv
<1>1. argv' = argv /\ NamesKept' /\ Followed' = Followed /\ PlainWords' = PlainWords
  BY SetupSame
<1>2. Shapes'
  BY <1>1 DEF Shapes, Word
<1>3. phase' # "adding" /\ phase' # "done"
  BY DEF Parsing
<1>4. \A o : /\ Entry(o)' = Entry(o) /\ Texts(o)' = Texts(o) /\ Meaning(o, Entry(o))' = Meaning(o, Entry(o))
             /\ KeptFor(o) => KeptFor(o)'
  <2>1. \A o : Entry(o)' = Entry(o) /\ Texts(o)' = Texts(o)
    BY DEF Entry, Texts
  <2>2. \A o : Meaning(o, Entry(o))' = Meaning(o, Entry(o))
    BY <2>1 DEF Meaning, MeaningOf, Stored, All
  <2> QED
    BY <2>1, <2>2 DEF KeptFor
<1>5. ValuesKept'
  BY <1>1, <1>4 DEF ValuesKept
<1>6. DefaultsKept'
  <2> SUFFICES ASSUME phase' = "rest", NEW o \in Followed, o.default # <<>>, Entry(o).count = 0
               PROVE  Entry(o).default
    BY <1>1, <1>4 DEF DefaultsKept
  <2>1. CASE phase = "rest"
    BY <2>1 DEF DefaultsKept
  <2>2. CASE Lacking = {}
    BY <2>2 DEF Lacking, Followed
  <2> QED
    BY <2>1, <2>2
<1>7. Counted'
  <2> SUFFICES ASSUME NEW w \in PlainWords PROVE CountedTo(w)'
    BY <1>1 DEF Counted
  <2>1. Upto(argv, w, current - 1) = Occurrences(unmatched, w) + Values(w)
    BY DEF Counted, CountedTo
  <2>2. /\ Upto(argv, w, current - 1) \in Nat /\ Occurrences(unmatched, w) \in Nat /\ Values(w) \in Nat
    BY CountTypes
  <2>3. Values(w)' = Values(w)
    BY DEF Values
  <2>4. Upto(argv, w, current' - 1) \in Nat /\ Occurrences(unmatched', w) \in Nat
    <3>1. current' - 1 \in Nat
      <4>1. PICK l \in Nat : l = Len(argv)
        BY ArgvTypes
      <4>2. \A c \in 1 .. l + 1 : c - 1 \in Nat
        OBVIOUS
      <4> QED
        BY <4>1, <4>2
    <3> QED
      BY <3>1, UptoNext, OccurrencesAppend
  <2>5. Upto(argv, w, current' - 1) = Occurrences(unmatched', w) + Values(w)
    BY <2>1, <2>2, <2>4
  <2>6. Upto(argv, w, current - 1)' = Upto(argv, w, current' - 1) /\ Occurrences(unmatched, w)' = Occurrences(unmatched', w)
    BY <1>1 DEF Upto, Occurrences
  <2> QED
    BY <2>3, <2>5, <2>6 DEF CountedTo
<1> QED
  BY <1>1, <1>2, <1>3, <1>5, <1>6, <1>7 DEF NothingYet, WordsAccountedFor

LEMMA ThrowStep == ASSUME OptionsInv, Throw PROVE OptionsInv'
<1> USE DEF OptionsInv, Throw
<1>1. argv' = argv /\ NamesKept'
  BY SetupSame
<1>2. Shapes'
  BY <1>1 DEF Shapes, Word
<1> QED
  BY <1>1, <1>2 DEF NothingYet, ValuesKept, DefaultsKept, Counted, WordsAccountedFor, Parsing

(* A step that gives a value, and takes its word if it has one.            *)
LEMMA GivenStep ==
  ASSUME OptionsInv, phase \in Parsing, phase' \in Parsing, phase' = "rest" => phase = "rest",
         NEW p \in Range(m_options), NEW text, Parsed(p, text) # <<>>,
         parse_option(p, text, Parsed(p, text)),
         UNCHANGED <<setup, m_options, unmatched>>,
         current' \in 1 .. Len(argv) + 1,
         phase' = "group" => current' <= Len(argv) /\ Dashed(argv[current']) /\ letter' \in 2 .. Len(argv[current']),
         \A w \in PlainWords :
           Upto(argv, w, current' - 1) = Upto(argv, w, current - 1) + IF text = w THEN 1 ELSE 0
  PROVE  OptionsInv'
<1> USE DEF OptionsInv
<1>1. argv' = argv /\ NamesKept' /\ Followed' = Followed /\ PlainWords' = PlainWords
  BY SetupSame
<1>2. m_sequential' = Append(m_sequential, <<p.long, text>>)
  BY DEF parse_option
<1>3. Shapes'
  <2>1. IsSeq(m_sequential')
    BY <1>2, AppendAny DEF Shapes
  <2> QED
    BY <1>1, <2>1 DEF Shapes, Word
<1>4. phase' # "adding" /\ phase' # "done"
  BY DEF Parsing
<1>5. \A o \in Followed :
        /\ KeptFor(o)'
        /\ (o.default # <<>> /\ Entry(o).count = 0 => Entry(o).default) =>
              (o.default # <<>> /\ Entry(o)'.count = 0 => Entry(o)'.default)
  <2> TAKE o \in Followed
  <2>1. KeptFor(o) /\ IsSeq(m_sequential)
    BY DEF ValuesKept, Shapes
  <2> QED
    BY <2>1, GivenKept
<1>6. ValuesKept'
  BY <1>1, <1>5 DEF ValuesKept
<1>7. DefaultsKept'
  BY <1>1, <1>5 DEF DefaultsKept
<1>8. Counted'
  <2> SUFFICES ASSUME NEW w \in PlainWords PROVE CountedTo(w)'
    BY <1>1 DEF Counted
  <2>1. Upto(argv, w, current - 1) = Occurrences(unmatched, w) + Values(w)
    BY DEF Counted, CountedTo
  <2>2. /\ Upto(argv, w, current - 1) \in Nat /\ Occurrences(unmatched, w) \in Nat /\ Values(w) \in Nat
    BY CountTypes
  <2>3. PICK d \in Nat : d = IF text = w THEN 1 ELSE 0
    OBVIOUS
  <2>4. Values(w)' = Values(w) + d
    BY <1>2, <2>3, ValuesAppend DEF Shapes
  <2>5. Upto(argv, w, current' - 1) = Upto(argv, w, current - 1) + d
    BY <2>3
  <2>6. Upto(argv, w, current' - 1) = Occurrences(unmatched, w) + (Values(w) + d)
    BY <2>1, <2>2, <2>5
  <2>7. Upto(argv, w, current - 1)' = Upto(argv, w, current' - 1) /\ Occurrences(unmatched, w)' = Occurrences(unmatched, w)
    BY <1>1 DEF Upto, Occurrences
  <2> QED
    BY <2>4, <2>6, <2>7 DEF CountedTo
<1> QED
  BY <1>1, <1>3, <1>4, <1>6, <1>7, <1>8 DEF NothingYet, WordsAccountedFor

\* The word at hand ends one word on.
LEMMA PastWord ==
  ASSUME OptionsInv, current <= Len(argv), Dashed(Word), NEW w \in PlainWords
  PROVE  Upto(argv, w, (current + 1) - 1) = Upto(argv, w, current - 1)
<1>1. Word # w
  BY DEF PlainWords
<1>2. Upto(argv, w, current - 1) \in Nat /\ Upto(argv, w, (current + 1) - 1) = Upto(argv, w, current - 1) + IF Word = w THEN 1 ELSE 0
  BY NextWord DEF OptionsInv
<1> QED
  BY <1>1, <1>2

LEMMA NotJoined ==
  ASSUME NEW text, text \in Joined, NEW w \in PlainWords
  PROVE  text # w
BY DEF PlainWords

\* What follows in the same word, and implicit values, are no words.
LEMMA PartsAreJoined ==
  ASSUME Shapes, current <= Len(argv), Dashed(Word), NEW k \in 3 .. Len(Word) + 1
  PROVE  SubSeq(Word, k, Len(Word)) \in Joined
<1>1. current \in DOMAIN argv
  BY ArgvTypes DEF Shapes
<1> DEFINE parts == {SubSeq(argv[current], place, Len(argv[current])) : place \in 3 .. Len(argv[current]) + 1}
<1>2. SubSeq(Word, k, Len(Word)) \in parts
  BY DEF Word
<1>3. parts \in {{SubSeq(argv[place], j, Len(argv[place])) : j \in 3 .. Len(argv[place]) + 1} : place \in {j \in DOMAIN argv : Dashed(argv[j])}}
  BY <1>1 DEF Word
<1> HIDE DEF parts
<1> QED
  BY <1>2, <1>3, Zenon DEF Joined

LEMMA ImplicitsAreJoined ==
  ASSUME NamesKept, NEW p \in Range(m_options), p.implicit # <<>>
  PROVE  p.implicit[1] \in Joined
<1>1. p.implicit[1] \in Range(p.implicit)
  BY OneTextIs DEF NamesKept
<1>2. p.implicit[1] \in UNION {Range(o.implicit) : o \in Range(m_options)}
  BY <1>1, Zenon
<1> QED
  BY <1>2, Zenon DEF Joined

(* An option is given in the word at hand.                                 *)
LEMMA GiveStep ==
  ASSUME OptionsInv, phase \in {"words", "group"}, current <= Len(argv), Dashed(Word),
         NEW p \in Range(m_options), NEW text, NEW words, Give(p, text, words),
         \/ words = 1 /\ (text # <<>> => text[1] \in Joined)
         \/ text = Argument(p) /\ words = WordsOf(p)
  PROVE  OptionsInv'
<1>1. CASE text = <<>> \/ Parsed(p, text[1]) = <<>>
  BY <1>1, ThrowStep DEF Give, GiveParsed
<1>2. CASE text # <<>> /\ Parsed(p, text[1]) # <<>>
  <2>1. /\ parse_option(p, text[1], Parsed(p, text[1]))
        /\ phase' = "words" /\ current' = current + words
        /\ UNCHANGED <<setup, m_options, unmatched>>
    BY <1>2 DEF Give, GiveParsed
  <2>2. ASSUME words = 1, text[1] \in Joined PROVE OptionsInv'
    <3>1. current + 1 \in 1 .. Len(argv) + 1
      BY NextWord DEF OptionsInv
    <3>2. \A w \in PlainWords : Upto(argv, w, current' - 1) = Upto(argv, w, current - 1) + IF text[1] = w THEN 1 ELSE 0
      <4> TAKE w \in PlainWords
      <4>1. Upto(argv, w, current' - 1) = Upto(argv, w, current - 1)
        BY <2>1, <2>2, PastWord
      <4>2. text[1] # w
        BY <2>2, NotJoined
      <4>3. Upto(argv, w, current - 1) \in Nat
        BY CountTypes DEF OptionsInv
      <4> QED
        BY <4>1, <4>2, <4>3
    <3>3. phase' \in Parsing /\ phase' # "rest" /\ phase' # "group" /\ phase \in Parsing
      BY <2>1 DEF Parsing
    <3> QED
      BY <1>2, <2>1, <2>2, <3>1, <3>2, <3>3, GivenStep
  <2>3. ASSUME text = Argument(p), words = WordsOf(p) PROVE OptionsInv'
    <3>1. CASE p.implicit # <<>>
      <4>1. words = 1 /\ text = p.implicit
        BY <2>3, <3>1 DEF WordsOf, Argument
      <4>2. text[1] \in Joined
        BY <3>1, <4>1, ImplicitsAreJoined DEF OptionsInv
      <4> QED
        BY <2>2, <4>1, <4>2
    <3>2. CASE p.implicit = <<>>
      <4>1. words = 2 /\ current < Len(argv) /\ text = <<argv[current + 1]>>
        BY <1>2, <2>3, <3>2 DEF WordsOf, Argument, HasNext
      <4>2. PICK n \in Nat : n = current
        BY ArgvTypes DEF OptionsInv
      <4>3. n + 1 <= Len(argv) /\ Len(argv) \in Nat
        BY <4>1, <4>2, ArgvTypes DEF OptionsInv
      <4>4. n + 2 \in 1 .. Len(argv) + 1 /\ (n + 2) - 1 = n + 1
        BY <4>3
      <4>5. text[1] = argv[n + 1]
        BY <4>1, <4>2
      <4>6. \A w \in PlainWords : Upto(argv, w, current' - 1) = Upto(argv, w, current - 1) + IF text[1] = w THEN 1 ELSE 0
        <5> TAKE w \in PlainWords
        <5>1. Upto(argv, w, (n + 1) - 1) = Upto(argv, w, n - 1)
          BY <4>2, PastWord
        <5>2. (n + 1) - 1 = n /\ current' = n + 2 /\ current' - 1 = n + 1
          BY <2>1, <4>1, <4>2
        <5>3. Upto(argv, w, n + 1) = Upto(argv, w, n) + IF argv[n + 1] = w THEN 1 ELSE 0
          BY UptoNext
        <5> QED
          BY <4>2, <4>5, <5>1, <5>2, <5>3
      <4>7. phase' \in Parsing /\ phase' # "rest" /\ phase' # "group" /\ phase \in Parsing
        BY <2>1 DEF Parsing
      <4>8. current' \in 1 .. Len(argv) + 1
        BY <2>1, <4>1, <4>2, <4>4
      <4> QED
        BY <1>2, <2>1, <4>6, <4>7, <4>8, GivenStep
    <3> QED
      BY <3>1, <3>2
  <2> QED
    BY <1>2, <2>2, <2>3
<1> QED
  BY <1>1, <1>2

(* A positional argument.                                                  *)
LEMMA ConsumedStep ==
  ASSUME OptionsInv, current <= Len(argv), phase \in {"words", "rest"}, Consumed(phase)
  PROVE  OptionsInv'
<1> DEFINE name == setup.positional[Place]
           p    == m_options[name]
<1>1. CASE name \notin DOMAIN m_options
  BY <1>1, ThrowStep DEF Consumed
<1>2. CASE name \in DOMAIN m_options
  <2>1. p \in Range(m_options) /\ ConsumedParsed(phase, p, Parsed(p, Word))
    BY <1>2 DEF Consumed, Range
  <2> HIDE DEF p, name
  <2>2. CASE Parsed(p, Word) = <<>>
    BY <2>1, <2>2, ThrowStep DEF ConsumedParsed
  <2>3. CASE Parsed(p, Word) # <<>>
    <3>1. /\ parse_option(p, Word, Parsed(p, Word))
          /\ current' = current + 1 /\ phase' = phase
          /\ UNCHANGED <<setup, m_options, letter, unmatched>>
      BY <2>1, <2>3 DEF ConsumedParsed
    <3>2. current' \in 1 .. Len(argv) + 1
      BY <3>1, NextWord DEF OptionsInv
    <3>3. \A w \in PlainWords : Upto(argv, w, current' - 1) = Upto(argv, w, current - 1) + IF Word = w THEN 1 ELSE 0
      BY <3>1, NextWord DEF OptionsInv
    <3>4. phase \in Parsing /\ phase' \in Parsing /\ phase' # "group"
      BY <3>1 DEF Parsing
    <3> QED
      BY <2>1, <2>3, <3>1, <3>2, <3>3, <3>4, GivenStep
  <2> QED
    BY <2>2, <2>3
<1> QED
  BY <1>1, <1>2

LEMMA PlainWordStep == ASSUME OptionsInv, PlainWord PROVE OptionsInv'
<1>1. phase = "words" /\ current <= Len(argv)
  BY DEF PlainWord, InWords
<1>2. \/ Throw \/ Consumed("words")
      \/ /\ unmatched' = Append(unmatched, Word) /\ current' = current + 1
         /\ UNCHANGED <<setup, m_options, phase, letter, m_parsed, m_sequential>>
  BY DEF PlainWord
<1>3. CASE Throw
  BY <1>3, ThrowStep
<1>4. CASE Consumed("words")
  BY <1>1, <1>4, ConsumedStep
<1>5. CASE /\ unmatched' = Append(unmatched, Word) /\ current' = current + 1
           /\ UNCHANGED <<setup, m_options, phase, letter, m_parsed, m_sequential>>
  <2>1. IsSeq(unmatched) /\ IsSeq(unmatched')
    BY <1>5, AppendAny DEF OptionsInv, Shapes
  <2>2. current' \in 1 .. Len(argv) + 1
    BY <1>1, <1>5, NextWord DEF OptionsInv
  <2>3. \A w \in PlainWords : Upto(argv, w, current' - 1) + Occurrences(unmatched, w)
                                 = Upto(argv, w, current - 1) + Occurrences(unmatched', w)
    <3> TAKE w \in PlainWords
    <3>1. PICK d \in Nat : d = IF Word = w THEN 1 ELSE 0
      OBVIOUS
    <3>2. Upto(argv, w, current' - 1) = Upto(argv, w, current - 1) + d
      BY <1>1, <1>5, <3>1, NextWord DEF OptionsInv
    <3>3. Occurrences(unmatched', w) = Occurrences(unmatched, w) + d
      BY <1>5, <2>1, <3>1, OccurrencesAppend
    <3>4. Upto(argv, w, current - 1) \in Nat /\ Occurrences(unmatched, w) \in Nat
      BY CountTypes DEF OptionsInv
    <3> QED
      BY <3>2, <3>3, <3>4
  <2>4. phase \in Parsing /\ phase' \in Parsing /\ phase' = "words"
    BY <1>1, <1>5 DEF Parsing
  <2> QED
    BY <1>5, <2>1, <2>2, <2>3, <2>4, QuietStep
<1> QED
  BY <1>2, <1>3, <1>4, <1>5

\* There is a first =, or the end.
LEMMA NameEndIs ==
  ASSUME NEW w \in Seq(STRING)
  PROVE  NameEnd(w) \in 1 .. Len(w) + 1 /\ (NameEnd(w) <= Len(w) => w[NameEnd(w)] = "=")
<1> DEFINE T == {k \in Nat : k \in 1 .. Len(w) + 1 /\ (k <= Len(w) => w[k] = "=")}
<1>1. Len(w) \in Nat
  OBVIOUS
<1>2. T \subseteq Nat /\ Len(w) + 1 \in T
  BY <1>1
<1>3. PICK k \in T : \A j \in T : ~ (j < k)
  <2> HIDE DEF T
  <2> QED
    BY <1>2, LeastNumber
<1>4. k \in 1 .. Len(w) + 1 /\ (k <= Len(w) => w[k] = "=")
  OBVIOUS
<1>5. \A j \in 1 .. k - 1 : w[j] # "="
  <2> SUFFICES ASSUME NEW j \in 1 .. k - 1, w[j] = "=" PROVE FALSE
    OBVIOUS
  <2>1. j \in T /\ j < k
    BY <1>1, <1>4
  <2> QED
    BY <1>3, <2>1
<1> QED
  BY <1>4, <1>5 DEF NameEnd

LEMMA LongOptionStep == ASSUME OptionsInv, LongOption PROVE OptionsInv'
<1>1. phase = "words" /\ current <= Len(argv) /\ LongWord(Word)
  BY DEF LongOption, InWords
<1> DEFINE name   == SubSeq(Word, 3, NameEnd(Word) - 1)
           p      == m_options[name]
           joined == NameEnd(Word) <= Len(Word)
<1>2. Word \in Seq(STRING) /\ Len(Word) \in Nat
  BY <1>1, ArgvTypes DEF OptionsInv, Shapes, Word
<1>3. NameEnd(Word) \in 1 .. Len(Word) + 1 /\ NameEnd(Word) > 4 /\ Word[1] = Dash
  BY <1>1, <1>2, NameEndIs DEF LongWord
<1>4. Dashed(Word)
  <2>1. Len(<<>>) = 0
    OBVIOUS
  <2>2. Len(Word) # 0
    BY <1>2, <1>3
  <2> QED
    BY <1>3, <2>1, <2>2 DEF Dashed
<1>5. CASE name \in DOMAIN m_options
  <2> DEFINE text  == IF joined THEN <<SubSeq(Word, NameEnd(Word) + 1, Len(Word))>> ELSE Argument(p)
             words == IF joined THEN 1 ELSE WordsOf(p)
  <2>1. Give(p, text, words)
    BY <1>5 DEF LongOption
  <2>2. p \in Range(m_options)
    BY <1>5 DEF Range
  <2>3. CASE joined
    <3>1. NameEnd(Word) + 1 \in 3 .. Len(Word) + 1
      BY <1>2, <1>3, <2>3
    <3>2. SubSeq(Word, NameEnd(Word) + 1, Len(Word)) \in Joined
      BY <1>1, <1>4, <3>1, PartsAreJoined DEF OptionsInv
    <3>3. words = 1 /\ text[1] \in Joined
      BY <2>3, <3>2
    <3> HIDE DEF p, text, words, name
    <3> QED
      BY <1>1, <1>4, <2>1, <2>2, <3>3, GiveStep
  <2>4. CASE ~joined
    <3>1. text = Argument(p) /\ words = WordsOf(p)
      BY <2>4
    <3> HIDE DEF p, text, words, name
    <3> QED
      BY <1>1, <1>4, <2>1, <2>2, <3>1, GiveStep
  <2> QED
    BY <2>3, <2>4
<1>6. CASE name \notin DOMAIN m_options /\ setup.allow
  <2>1. /\ unmatched' = Append(unmatched, Word) /\ current' = current + 1
        /\ UNCHANGED <<setup, m_options, phase, letter, next, m_parsed, m_sequential>>
    BY <1>6 DEF LongOption
  <2>2. IsSeq(unmatched) /\ IsSeq(unmatched')
    BY <2>1, AppendAny DEF OptionsInv, Shapes
  <2>3. current' \in 1 .. Len(argv) + 1
    BY <1>1, <2>1, NextWord DEF OptionsInv
  <2>4. \A w \in PlainWords : Upto(argv, w, current' - 1) + Occurrences(unmatched, w)
                                 = Upto(argv, w, current - 1) + Occurrences(unmatched', w)
    <3> TAKE w \in PlainWords
    <3>1. Upto(argv, w, current' - 1) = Upto(argv, w, current - 1)
      BY <1>1, <1>4, <2>1, PastWord
    <3>2. Word # w
      BY <1>4 DEF PlainWords
    <3>3. Occurrences(unmatched', w) = Occurrences(unmatched, w) + 0
      BY <2>1, <2>2, <3>2, OccurrencesAppend
    <3>4. Occurrences(unmatched, w) \in Nat
      BY CountTypes DEF OptionsInv
    <3> QED
      BY <3>1, <3>3, <3>4
  <2>5. phase \in Parsing /\ phase' \in Parsing /\ phase' = "words"
    BY <1>1, <2>1 DEF Parsing
  <2> QED
    BY <2>1, <2>2, <2>3, <2>4, <2>5, QuietStep
<1>7. CASE name \notin DOMAIN m_options /\ ~setup.allow
  <2>1. Throw
    BY <1>7 DEF LongOption
  <2> QED
    BY <2>1, ThrowStep
<1> QED
  BY <1>5, <1>6, <1>7

LEMMA ShortWordIsDashed ==
  ASSUME NEW w \in Seq(STRING), ShortWord(w) \/ w = <<Dash, Dash>>
  PROVE  Dashed(w)
<1>1. Len(w) > 1 /\ w[1] = Dash /\ Len(w) \in Nat
  <2>1. CASE ShortWord(w)
    BY <2>1 DEF ShortWord
  <2>2. CASE w = <<Dash, Dash>>
    BY <2>2
  <2> QED
    BY <2>1, <2>2
<1>2. Len(<<>>) = 0
  OBVIOUS
<1>3. w # <<>>
  BY <1>1, <1>2
<1> QED
  BY <1>1, <1>3 DEF Dashed

LEMMA WordType == ASSUME OptionsInv, current <= Len(argv) PROVE Word \in Seq(STRING) /\ Len(Word) \in Nat
BY ArgvTypes DEF OptionsInv, Shapes, Word

LEMMA GroupStep == ASSUME OptionsInv, Group PROVE OptionsInv'
<1>1. /\ phase = "words" /\ current <= Len(argv) /\ ShortWord(Word) /\ phase' = "group" /\ letter' = 2
      /\ UNCHANGED <<setup, m_options, current, next, m_parsed, m_sequential, unmatched>>
  BY DEF Group, InWords
<1>2. Dashed(Word) /\ 2 \in 2 .. Len(Word)
  <2>1. Word \in Seq(STRING) /\ Len(Word) \in Nat
    BY <1>1, WordType
  <2>2. Len(Word) > 1
    BY <1>1 DEF ShortWord
  <2> QED
    BY <1>1, <2>1, <2>2, ShortWordIsDashed
<1>3. IsSeq(unmatched') /\ current' \in 1 .. Len(argv) + 1
  BY <1>1 DEF OptionsInv, Shapes
<1>4. current' <= Len(argv) /\ Dashed(argv[current']) /\ letter' \in 2 .. Len(argv[current'])
  BY <1>1, <1>2 DEF Word
<1>5. phase \in Parsing /\ phase' \in Parsing /\ phase' # "rest"
  BY <1>1 DEF Parsing
<1>6. \A w \in PlainWords : Upto(argv, w, current' - 1) + Occurrences(unmatched, w)
                                 = Upto(argv, w, current - 1) + Occurrences(unmatched', w)
  BY <1>1
<1> QED
  BY <1>1, <1>3, <1>4, <1>5, <1>6, QuietStep

\* The next letter, or the next word.
LEMMA LettersStep ==
  ASSUME OptionsInv, phase = "group", Letters
  PROVE  /\ current <= Len(argv) /\ Dashed(Word)
         /\ current' \in 1 .. Len(argv) + 1 /\ phase' \in {"words", "group"}
         /\ phase' = "group" => current' <= Len(argv) /\ Dashed(argv[current']) /\ letter' \in 2 .. Len(argv[current'])
         /\ \A w \in PlainWords : Upto(argv, w, current' - 1) = Upto(argv, w, current - 1)
<1>1. /\ current <= Len(argv) /\ Dashed(Word) /\ letter \in 2 .. Len(Word) /\ current \in 1 .. Len(argv) + 1
  BY DEF OptionsInv, Shapes
<1>2. Len(Word) \in Nat
  BY <1>1, WordType
<1>3. CASE letter < Len(Word)
  <2>1. phase' = phase /\ letter' = letter + 1 /\ current' = current
    BY <1>3 DEF Letters
  <2>2. letter + 1 \in 2 .. Len(Word)
    BY <1>1, <1>2, <1>3
  <2> QED
    BY <1>1, <2>1, <2>2 DEF Word
<1>4. CASE ~(letter < Len(Word))
  <2>1. phase' = "words" /\ current' = current + 1
    BY <1>4 DEF Letters
  <2>2. current + 1 \in 1 .. Len(argv) + 1
    BY <1>1, NextWord DEF OptionsInv
  <2>3. \A w \in PlainWords : Upto(argv, w, current' - 1) = Upto(argv, w, current - 1)
    BY <1>1, <2>1, PastWord
  <2> QED
    BY <1>1, <2>1, <2>2, <2>3
<1> QED
  BY <1>3, <1>4

LEMMA ShortOptionStep == ASSUME OptionsInv, ShortOption PROVE OptionsInv'
<1> DEFINE name == <<Word[letter]>>
           p    == m_options[name]
           last == letter = Len(Word)
<1>1. phase = "group"
  BY DEF ShortOption
<1>2. current <= Len(argv) /\ Dashed(Word) /\ letter \in 2 .. Len(Word)
  BY <1>1 DEF OptionsInv, Shapes
<1>3. Word \in Seq(STRING) /\ Len(Word) \in Nat
  BY <1>2, WordType
<1>4. CASE name \notin DOMAIN m_options
  <2>1. \/ Letters /\ UNCHANGED <<setup, m_options, next, m_parsed, m_sequential, unmatched>>
        \/ Throw
    BY <1>4 DEF ShortOption
  <2>2. CASE Letters /\ UNCHANGED <<setup, m_options, next, m_parsed, m_sequential, unmatched>>
    <3>1. /\ current' \in 1 .. Len(argv) + 1 /\ phase' \in {"words", "group"}
          /\ phase' = "group" => current' <= Len(argv) /\ Dashed(argv[current']) /\ letter' \in 2 .. Len(argv[current'])
          /\ \A w \in PlainWords : Upto(argv, w, current' - 1) = Upto(argv, w, current - 1)
      BY <1>1, <2>2, LettersStep
    <3>2. phase \in Parsing /\ phase' \in Parsing /\ phase' # "rest"
      BY <1>1, <3>1 DEF Parsing
    <3>3. IsSeq(unmatched')
      BY <2>2 DEF OptionsInv, Shapes
    <3>4. \A w \in PlainWords : Upto(argv, w, current' - 1) + Occurrences(unmatched, w)
                                 = Upto(argv, w, current - 1) + Occurrences(unmatched', w)
      BY <2>2, <3>1
    <3> QED
      BY <2>2, <3>1, <3>2, <3>3, <3>4, QuietStep
  <2> QED
    BY <2>1, <2>2, ThrowStep
<1>5. CASE name \in DOMAIN m_options
  <2>1. p \in Range(m_options)
    BY <1>5 DEF Range
  <2>2. CASE ~last /\ p.implicit # <<>>
    <3>1. Flag(p, Parsed(p, p.implicit[1]))
      BY <1>5, <2>2 DEF ShortOption
    <3> HIDE DEF p, name
    <3>2. CASE Parsed(p, p.implicit[1]) = <<>>
      BY <3>1, <3>2, ThrowStep DEF Flag
    <3>3. CASE Parsed(p, p.implicit[1]) # <<>>
      <4>1. /\ parse_option(p, p.implicit[1], Parsed(p, p.implicit[1])) /\ Letters
            /\ UNCHANGED <<setup, m_options, next, unmatched>>
        BY <3>1, <3>3 DEF Flag
      <4>2. /\ current' \in 1 .. Len(argv) + 1 /\ phase' \in {"words", "group"}
            /\ phase' = "group" => current' <= Len(argv) /\ Dashed(argv[current']) /\ letter' \in 2 .. Len(argv[current'])
            /\ \A w \in PlainWords : Upto(argv, w, current' - 1) = Upto(argv, w, current - 1)
        BY <1>1, <4>1, LettersStep
      <4>3. phase \in Parsing /\ phase' \in Parsing /\ phase' # "rest"
        BY <1>1, <4>2 DEF Parsing
      <4>4. PICK text : text = p.implicit[1]
        OBVIOUS
      <4>5. text \in Joined
        BY <2>1, <2>2, <4>4, ImplicitsAreJoined DEF OptionsInv
      <4>6. \A w \in PlainWords : Upto(argv, w, current' - 1) = Upto(argv, w, current - 1) + IF text = w THEN 1 ELSE 0
        <5> TAKE w \in PlainWords
        <5>1. text # w
          BY <4>5, NotJoined
        <5>2. Upto(argv, w, current - 1) \in Nat
          BY CountTypes DEF OptionsInv
        <5> QED
          BY <4>2, <5>1, <5>2
      <4>7. Parsed(p, text) # <<>> /\ parse_option(p, text, Parsed(p, text))
        BY <3>3, <4>1, <4>4
      <4> QED
        BY <2>1, <4>1, <4>2, <4>3, <4>6, <4>7, GivenStep
    <3> QED
      BY <3>2, <3>3
  <2>3. CASE ~(~last /\ p.implicit # <<>>)
    <3> DEFINE text  == IF last THEN Argument(p) ELSE <<SubSeq(Word, letter + 1, Len(Word))>>
               words == IF last THEN WordsOf(p) ELSE 1
    <3>1. Give(p, text, words)
      BY <1>5, <2>3 DEF ShortOption
    <3>2. \/ words = 1 /\ (text # <<>> => text[1] \in Joined)
          \/ text = Argument(p) /\ words = WordsOf(p)
      <4>1. CASE last
        BY <4>1
      <4>2. CASE ~last
        <5>1. letter + 1 \in 3 .. Len(Word) + 1
          BY <1>2, <1>3
        <5>2. SubSeq(Word, letter + 1, Len(Word)) \in Joined
          BY <1>2, <5>1, PartsAreJoined DEF OptionsInv
        <5> QED
          BY <4>2, <5>2
      <4> QED
        BY <4>1, <4>2
    <3> HIDE DEF p, text, words, name
    <3> QED
      BY <1>1, <1>2, <2>1, <3>1, <3>2, GiveStep
  <2> QED
    BY <2>2, <2>3
<1> QED
  BY <1>4, <1>5

LEMMA EndWordsStep == ASSUME OptionsInv, EndWords PROVE OptionsInv'
<1>1. /\ phase = "words" /\ phase' = "defaults"
      /\ current > Len(argv) \/ EndOfOptions
      /\ current' = IF current > Len(argv) THEN current ELSE current + 1
      /\ UNCHANGED <<setup, m_options, letter, next, m_parsed, m_sequential, unmatched>>
  BY DEF EndWords
<1>2. phase \in Parsing /\ phase' \in Parsing /\ phase' # "rest" /\ phase' # "group"
  BY <1>1 DEF Parsing
<1>3. IsSeq(unmatched') /\ current \in 1 .. Len(argv) + 1
  BY <1>1 DEF OptionsInv, Shapes
<1>4. current' \in 1 .. Len(argv) + 1 /\ \A w \in PlainWords : Upto(argv, w, current' - 1) = Upto(argv, w, current - 1)
  <2>1. CASE current > Len(argv)
    BY <1>1, <1>3, <2>1
  <2>2. CASE ~(current > Len(argv))
    <3>1. current <= Len(argv) /\ Word = <<Dash, Dash>> /\ current' = current + 1
      BY <1>1, <2>2 DEF EndOfOptions, Word
    <3>2. Dashed(Word)
      BY <3>1, WordType, ShortWordIsDashed
    <3>3. current + 1 \in 1 .. Len(argv) + 1
      BY <3>1, NextWord DEF OptionsInv
    <3> QED
      BY <3>1, <3>2, <3>3, PastWord
  <2> QED
    BY <2>1, <2>2
<1>5. \A w \in PlainWords : Upto(argv, w, current' - 1) + Occurrences(unmatched, w)
                                 = Upto(argv, w, current - 1) + Occurrences(unmatched', w)
  BY <1>1, <1>4
<1> QED
  BY <1>1, <1>2, <1>3, <1>4, <1>5, QuietStep

LEMMA EndDefaultsStep == ASSUME OptionsInv, EndDefaults PROVE OptionsInv'
<1>1. /\ phase = "defaults" /\ Lacking = {} /\ phase' = "rest"
      /\ UNCHANGED <<setup, m_options, current, letter, next, m_parsed, m_sequential, unmatched>>
  BY DEF EndDefaults
<1>2. phase \in Parsing /\ phase' \in Parsing /\ phase' # "group"
  BY <1>1 DEF Parsing
<1>3. IsSeq(unmatched') /\ current' \in 1 .. Len(argv) + 1
  BY <1>1 DEF OptionsInv, Shapes
<1>4. \A w \in PlainWords : Upto(argv, w, current' - 1) + Occurrences(unmatched, w)
                                 = Upto(argv, w, current - 1) + Occurrences(unmatched', w)
  BY <1>1
<1> QED
  BY <1>1, <1>2, <1>3, <1>4, QuietStep

LEMMA RestWordStep == ASSUME OptionsInv, RestWord PROVE OptionsInv'
BY ConsumedStep DEF RestWord

LEMMA DefaultStep == ASSUME OptionsInv, parse_default PROVE OptionsInv'
<1> USE DEF OptionsInv
<1>1. PICK p \in Lacking : DefaultParsed(p, Parsed(p, p.default[1]))
  BY DEF parse_default
<1>2. phase = "defaults"
  BY DEF parse_default
<1>3. CASE Parsed(p, p.default[1]) = <<>>
  BY <1>1, <1>3, ThrowStep DEF DefaultParsed
<1>4. CASE Parsed(p, p.default[1]) # <<>>
  <2>1. UNCHANGED <<setup, m_options, phase, current, letter, next, m_sequential, unmatched>>
    BY <1>1, <1>4 DEF DefaultParsed
  <2>2. argv' = argv /\ NamesKept' /\ Followed' = Followed /\ PlainWords' = PlainWords
    BY <2>1, SetupSame
  <2>3. Shapes'
    BY <2>1, <2>2 DEF Shapes, Word
  <2>4. ValuesKept'
    <3>1. ASSUME NEW o \in Followed PROVE KeptFor(o)'
      <4>1. KeptFor(o) /\ IsSeq(m_sequential) /\ NamesKept
        BY <1>2 DEF ValuesKept, Shapes, Parsing
      <4> QED
        BY <1>1, <1>4, <4>1, DefaultKept
    <3> QED
      BY <2>2, <3>1 DEF ValuesKept
  <2>5. Counted'
    <3>1. \A w : CountedTo(w)' <=> CountedTo(w)
      BY <2>1, <2>2 DEF CountedTo, Upto, Occurrences, Values
    <3> QED
      BY <1>2, <2>1, <2>2, <3>1 DEF Counted
  <2> QED
    BY <1>2, <2>1, <2>2, <2>3, <2>4, <2>5 DEF NothingYet, DefaultsKept, WordsAccountedFor
<1> QED
  BY <1>3, <1>4

\* A new option has new names.
LEMMA AddOptionStep == ASSUME OptionsInv, AddOption PROVE OptionsInv'
<1> USE DEF OptionsInv
<1> DEFINE d == Head(setup.definitions)
           o == Details(d)
<1>1. phase = "adding" /\ setup.definitions # <<>>
  BY DEF AddOption
<1>2. CASE Throw
  BY <1>2, ThrowStep
<1>3. CASE ~Throw
  <2>1. /\ m_options' = With(m_options, NamesOf(o), o) /\ ~Exists(o)
        /\ setup' = [setup EXCEPT !.definitions = Tail(@)]
        /\ UNCHANGED <<phase, current, letter, next, m_parsed, m_sequential, unmatched>>
    BY <1>3 DEF AddOption
  <2>2. DOMAIN setup = {"definitions", "positional", "allow", "argv"} /\ setup.definitions \in Seq(Definition)
    BY DEF Shapes, SetupOK
  <2>3. d \in Definition /\ Tail(setup.definitions) \in Seq(Definition)
    BY <1>1, <2>2
  <2>4. /\ DOMAIN setup' = DOMAIN setup /\ setup'.argv = setup.argv
        /\ setup'.definitions = Tail(setup.definitions)
    BY <2>1, <2>2
  <2>5. SetupOK(setup') /\ argv' = argv
    <3>1. SetupOK(setup)
      BY DEF Shapes
    <3>2. setup'.positional = setup.positional
      BY <2>1, <2>2
    <3> QED
      BY <2>2, <2>3, <2>4, <3>1, <3>2 DEF SetupOK, argv
  <2>6. Shapes'
    BY <1>1, <2>1, <2>5 DEF Shapes
  <2>7. o.type \in Types /\ o.default \in OneText /\ o.implicit \in OneText
    BY <2>3 DEF Definition, Details
  <2> HIDE DEF o, d
  <2>8. NamesKept'
    <3>1. /\ DOMAIN m_options' = DOMAIN m_options \cup NamesOf(o)
          /\ \A n \in NamesOf(o) : m_options'[n] = o
          /\ \A n \in DOMAIN m_options \ NamesOf(o) : m_options'[n] = m_options[n]
      BY <2>1 DEF With
    <3>2. \A n \in DOMAIN m_options : n \notin NamesOf(o)
      BY <2>1 DEF Exists
    <3>3. \A q \in Range(m_options') : q = o \/ q \in Range(m_options)
      BY <3>1, <3>2 DEF Range
    <3>4. ASSUME NEW q \in Range(m_options')
          PROVE  /\ q.type \in Types /\ q.default \in OneText /\ q.implicit \in OneText
                 /\ \A n \in NamesOf(q) : n \in DOMAIN m_options' /\ m_options'[n] = q
      <4>1. CASE q = o
        BY <2>7, <3>1, <4>1
      <4>2. CASE q \in Range(m_options)
        <5>1. /\ q.type \in Types /\ q.default \in OneText /\ q.implicit \in OneText
              /\ \A n \in NamesOf(q) : n \in DOMAIN m_options /\ m_options[n] = q
          BY <4>2 DEF NamesKept
        <5> QED
          BY <3>1, <3>2, <5>1
      <4> QED
        BY <3>3, <4>1, <4>2
    <3> QED
      BY <3>4 DEF NamesKept, NamesOf
  <2> QED
    BY <1>1, <2>1, <2>6, <2>8 DEF NothingYet, ValuesKept, DefaultsKept, Counted, WordsAccountedFor, Parsing
<1> QED
  BY <1>2, <1>3

\* Nothing is given yet, and nothing held.
LEMMA ParseStep == ASSUME OptionsInv, Parse PROVE OptionsInv'
<1> USE DEF OptionsInv
<1>1. /\ phase = "adding" /\ phase' = "words"
      /\ UNCHANGED <<setup, m_options, current, letter, next, m_parsed, m_sequential, unmatched>>
  BY DEF Parse
<1>2. current = 1 /\ DOMAIN m_parsed = {} /\ m_sequential = <<>> /\ unmatched = <<>>
  BY <1>1 DEF NothingYet
<1>3. argv' = argv /\ NamesKept' /\ Followed' = Followed /\ PlainWords' = PlainWords
  BY <1>1, SetupSame
<1>4. Shapes'
  BY <1>1, <1>3 DEF Shapes
<1>5. ValuesKept'
  <2>1. ASSUME NEW o PROVE KeptFor(o)'
    <3>1. Entry(o) = [type |-> o.type, count |-> 0, default |-> FALSE, store |-> <<>>]
      BY <1>2 DEF Entry
    <3>2. Entry(o)' = Entry(o) /\ Texts(o)' = Texts(o)
      BY <1>1 DEF Entry, Texts
    <3>3. Texts(o) = <<>> /\ Len(<<>>) = 0
      BY <1>2, TextsOfNone DEF Texts
    <3>4. Entry(o).default = FALSE
      BY <3>1
    <3>5. Meaning(o, Entry(o)) = <<>>
      BY <3>3, <3>4 DEF Meaning, MeaningOf, All
    <3>6. Meaning(o, Entry(o))' = Meaning(o, Entry(o))
      BY <3>2 DEF Meaning, MeaningOf, Stored, All
    <3> QED
      BY <3>1, <3>2, <3>3, <3>4, <3>5, <3>6 DEF KeptFor
  <2> QED
    BY <2>1 DEF ValuesKept
<1>6. Counted'
  <2>1. ASSUME NEW w PROVE CountedTo(w)'
    <3>1. Upto(argv, w, current - 1) = 0
      BY <1>2, UptoNone
    <3>2. Occurrences(unmatched, w) = 0 /\ Values(w) = 0
      <4>1. DOMAIN <<>> = {}
        OBVIOUS
      <4>2. {k \in DOMAIN unmatched : unmatched[k] = w} = {} /\ {k \in DOMAIN m_sequential : m_sequential[k][2] = w} = {}
        BY <1>2, <4>1
      <4> QED
        BY <4>2, FS_EmptySet DEF Occurrences, Values
    <3>3. CountedTo(w)
      BY <3>1, <3>2 DEF CountedTo
    <3> QED
      BY <1>1, <1>3, <3>3 DEF CountedTo, Upto, Occurrences, Values
  <2> QED
    BY <2>1 DEF Counted
<1> QED
  BY <1>1, <1>3, <1>4, <1>5, <1>6 DEF NothingYet, DefaultsKept, WordsAccountedFor

(* The words that are left become unmatched.                               *)
LEMMA FinishStep == ASSUME OptionsInv, Finish PROVE OptionsInv'
<1> USE DEF OptionsInv
<1>1. /\ phase = "rest" /\ phase' = "done"
      /\ unmatched' = unmatched \o SubSeq(argv, current, Len(argv))
      /\ m_parsed' = [hash \in DOMAIN m_parsed \cup {Hash(o) : o \in Range(m_options)} |->
               IF hash \in DOMAIN m_parsed THEN m_parsed[hash]
               ELSE Entry(CHOOSE o \in Range(m_options) : Hash(o) = hash)]
      /\ UNCHANGED <<setup, m_options, current, letter, next, m_sequential>>
  BY DEF Finish
<1>2. argv' = argv /\ NamesKept' /\ Followed' = Followed /\ Joined' = Joined /\ Range(argv)' = Range(argv)
  BY <1>1, SetupSame
<1>3. phase \in Parsing
  BY <1>1 DEF Parsing
<1>4. /\ argv \in Seq(Seq(STRING)) /\ current \in 1 .. Len(argv) + 1 /\ IsSeq(unmatched)
  BY ArgvTypes DEF Shapes
<1>5. Shapes'
  <2>1. SubSeq(argv, current, Len(argv)) \in Seq(Seq(STRING))
    BY <1>4
  <2>2. IsSeq(unmatched')
    BY <1>1, <1>4, <2>1, IsSeqOf, ConcatAny
  <2> QED
    BY <1>1, <1>2, <2>2 DEF Shapes
<1>6. ASSUME NEW o \in Range(m_options), Alone(o), o.long # <<>>
      PROVE  LET e == m_parsed'[Hash(o)]
             IN  /\ e.count = Len(Texts(o)') /\ \A name \in NamesOf(o) : CountOf(name)' = e.count
                 /\ e.store = MeaningOf(o, IF e.default THEN o.default \o Texts(o)' ELSE Texts(o)')
                 /\ o.default # <<>> /\ e.count = 0 => e.default
  <2>1. m_parsed'[Hash(o)] = Entry(o)
    <3>1. Hash(o) \in {Hash(p) : p \in Range(m_options)}
      OBVIOUS
    <3>2. CASE Hash(o) \in DOMAIN m_parsed
      BY <1>1, <3>1, <3>2 DEF Entry
    <3>3. CASE Hash(o) \notin DOMAIN m_parsed
      <4>1. (CHOOSE p \in Range(m_options) : Hash(p) = Hash(o)) = o
        <5>1. \A p \in Range(m_options) : Hash(p) = Hash(o) => p = o
          BY <1>6 DEF Alone, Hash
        <5> HIDE DEF Hash
        <5> QED
          BY <5>1
      <4>2. m_parsed'[Hash(o)] = Entry(CHOOSE p \in Range(m_options) : Hash(p) = Hash(o))
        BY <1>1, <3>1, <3>3
      <4> QED
        BY <4>1, <4>2
    <3> QED
      BY <3>2, <3>3
  <2>2. o \in Followed
    BY <1>6 DEF Followed
  <2>3. KeptFor(o) /\ (o.default # <<>> /\ Entry(o).count = 0 => Entry(o).default)
    BY <1>1, <1>3, <2>2 DEF ValuesKept, DefaultsKept
  <2>4. PICK e : e = Entry(o)
    OBVIOUS
  <2>5. e.count = Len(Texts(o)) /\ e.store = Meaning(o, e)
    <3>1. e = [type |-> o.type, count |-> Len(Texts(o)), default |-> e.default, store |-> Meaning(o, e)]
      BY <2>3, <2>4 DEF KeptFor
    <3> QED
      BY <3>1
  <2>6. Texts(o)' = Texts(o)
    BY <1>1 DEF Texts
  <2>7. e.store = MeaningOf(o, IF e.default THEN o.default \o Texts(o)' ELSE Texts(o)')
    BY <2>5, <2>6 DEF Meaning, All
  <2>8. ASSUME NEW name \in NamesOf(o) PROVE CountOf(name)' = e.count
    <3>1. name \in DOMAIN m_options /\ m_options[name] = o
      BY DEF NamesKept
    <3>2. name \in DOMAIN m_options' /\ m_options'[name] = o
      BY <1>1, <3>1
    <3> QED
      BY <2>1, <2>4, <3>2 DEF CountOf
  <2> QED
    BY <2>1, <2>3, <2>4, <2>5, <2>6, <2>7, <2>8
<1>7. ASSUME NEW w \in Range(argv) \ Joined, ~Dashed(w)
      PROVE  Occurrences(argv, w)' = Occurrences(unmatched, w)' + Values(w)'
  <2>1. w \in PlainWords
    BY <1>7 DEF PlainWords
  <2>2. Upto(argv, w, current - 1) = Occurrences(unmatched, w) + Values(w)
    BY <1>3, <2>1 DEF Counted, CountedTo
  <2>3. Occurrences(unmatched', w) + Upto(argv, w, current - 1) = Occurrences(unmatched, w) + Occurrences(argv, w)
    BY <1>1, <1>4, OccurrencesConcat
  <2>4. /\ Occurrences(unmatched, w) \in Nat /\ Values(w) \in Nat /\ Occurrences(unmatched', w) \in Nat
        /\ Occurrences(argv, w) \in Nat /\ Upto(argv, w, current - 1) \in Nat
    <3>1. IsSeq(unmatched') /\ IsSeq(argv)
      BY <1>5, ArgvTypes DEF Shapes
    <3> QED
      BY <3>1, CountTypes, OccurrencesAppend
  <2>5. Occurrences(argv, w) = Occurrences(unmatched', w) + Values(w)
    BY <2>2, <2>3, <2>4
  <2>6. Values(w)' = Values(w) /\ Occurrences(argv, w)' = Occurrences(argv, w) /\ Occurrences(unmatched, w)' = Occurrences(unmatched', w)
    BY <1>1, <1>2 DEF Values, Occurrences
  <2> QED
    BY <2>5, <2>6
<1>8. WordsAccountedFor'
  <2>1. \A o : Alone(o)' <=> Alone(o)
    BY <1>1 DEF Alone
  <2>2. \A o : Meaning(o, m_parsed[Hash(o)])' =
                MeaningOf(o, IF m_parsed'[Hash(o)].default THEN o.default \o Texts(o)' ELSE Texts(o)')
    BY DEF Meaning, MeaningOf, Stored, All
  <2>3. ASSUME NEW o \in Range(m_options)', Alone(o)', o.long # <<>>
        PROVE  LET e == m_parsed[Hash(o)]
               IN  (/\ e.count = Len(Texts(o)) /\ \A name \in NamesOf(o) : CountOf(name) = e.count
                    /\ e.store = Meaning(o, e)
                    /\ o.default # <<>> /\ e.count = 0 => e.default)'
    <3>1. o \in Range(m_options) /\ Alone(o)
      BY <1>1, <2>1, <2>3
    <3> QED
      BY <1>6, <2>2, <2>3, <3>1
  <2>4. ASSUME NEW w \in (Range(argv) \ Joined)', ~Dashed(w)
        PROVE  (Occurrences(argv, w) = Occurrences(unmatched, w) + Values(w))'
    BY <1>2, <1>7, <2>4
  <2> QED
    BY <2>3, <2>4 DEF WordsAccountedFor, Dashed
<1> QED
  BY <1>1, <1>2, <1>5, <1>8 DEF NothingYet, ValuesKept, DefaultsKept, Counted, Parsing

LEMMA OptionsInitInv == OptionsInit => OptionsInv
<1> SUFFICES ASSUME OptionsInit PROVE OptionsInv
  OBVIOUS
<1>1. SetupOK(setup)
  BY SetupsAssumption DEF OptionsInit
<1>2. Shapes
  <2>1. 1 \in 1 .. Len(argv) + 1
    <3>1. argv \in Seq(Seq(STRING))
      BY <1>1 DEF SetupOK, argv
    <3>2. Len(argv) \in Nat
      BY <3>1
    <3> QED
      BY <3>2
  <2>2. IsSeq(<<>>)
    <3>1. <<>> \in Seq(Nat)
      OBVIOUS
    <3> QED
      BY <3>1, IsSeqOf
  <2> QED
    BY <1>1, <2>1, <2>2 DEF OptionsInit, Shapes
<1>3. NamesKept
  BY DEF OptionsInit, NamesKept, Range
<1> QED
  BY <1>2, <1>3 DEF OptionsInit, OptionsInv, NothingYet, ValuesKept, DefaultsKept, Counted, WordsAccountedFor, Parsing

LEMMA OptionsStep == OptionsInv /\ [OptionsNext]_optionVars => OptionsInv'
<1> SUFFICES ASSUME OptionsInv, [OptionsNext]_optionVars PROVE OptionsInv'
  OBVIOUS
<1>1. CASE UNCHANGED optionVars
  <2>1. argv' = argv /\ NamesKept' /\ Followed' = Followed /\ PlainWords' = PlainWords /\ Joined' = Joined
    BY <1>1, SetupSame DEF optionVars, OptionsInv
  <2>2. \A o : Entry(o)' = Entry(o) /\ Texts(o)' = Texts(o)
    BY <1>1 DEF optionVars, Entry, Texts
  <2>8. \A o, e : Meaning(o, e)' = Meaning(o, e)
    <3> TAKE o, e
    <3>1. All(o, e)' = All(o, e)
      BY <2>2 DEF All
    <3> QED
      BY <3>1 DEF Meaning, MeaningOf, Stored
  <2>3. \A o : (KeptFor(o)' <=> KeptFor(o)) /\ (Alone(o)' <=> Alone(o))
    <3>1. \A o : Meaning(o, Entry(o))' = Meaning(o, Entry(o))
      BY <2>2 DEF Meaning, MeaningOf, Stored, All
    <3>2. \A o : KeptFor(o)' <=> KeptFor(o)
      BY <2>2, <3>1 DEF KeptFor
    <3>3. \A o : Alone(o)' <=> Alone(o)
      BY <1>1 DEF optionVars, Alone
    <3> QED
      BY <3>2, <3>3
  <2>4. \A w : (CountedTo(w)' <=> CountedTo(w)) /\ Values(w)' = Values(w)
    BY <1>1, <2>1 DEF optionVars, CountedTo, Upto, Occurrences, Values
  <2>5. \A n : CountOf(n)' = CountOf(n)
    BY <1>1 DEF optionVars, CountOf
  <2>6. Shapes' /\ NothingYet' /\ ValuesKept' /\ DefaultsKept' /\ Counted'
    BY <1>1, <2>1, <2>2, <2>3, <2>4 DEF optionVars, OptionsInv, Shapes, NothingYet, ValuesKept, DefaultsKept, Counted, Word
  <2>7. WordsAccountedFor'
    BY <1>1, <2>1, <2>2, <2>3, <2>4, <2>5, <2>8 DEF optionVars, OptionsInv, WordsAccountedFor, NamesOf, Dashed, Occurrences
  <2> QED
    BY <2>1, <2>6, <2>7 DEF OptionsInv
<1>2. CASE OptionsNext
  <2>1. CASE AddOption
    BY <2>1, AddOptionStep
  <2>2. CASE Parse
    BY <2>2, ParseStep
  <2>3. CASE EndWords
    BY <2>3, EndWordsStep
  <2>4. CASE PlainWord
    BY <2>4, PlainWordStep
  <2>5. CASE LongOption
    BY <2>5, LongOptionStep
  <2>6. CASE Group
    BY <2>6, GroupStep
  <2>7. CASE ShortOption
    BY <2>7, ShortOptionStep
  <2>8. CASE parse_default
    BY <2>8, DefaultStep
  <2>9. CASE EndDefaults
    BY <2>9, EndDefaultsStep
  <2>10. CASE RestWord
    BY <2>10, RestWordStep
  <2>11. CASE Finish
    BY <2>11, FinishStep
  <2>12. CASE Ended
    BY <1>1, <2>12 DEF Ended
  <2> QED
    BY <1>2, <2>1, <2>2, <2>3, <2>4, <2>5, <2>6, <2>7, <2>8, <2>9, <2>10, <2>11, <2>12 DEF OptionsNext
<1> QED
  BY <1>1, <1>2

(* Whatever the options, the words, and the widths of numbers: a command   *)
(* line that cxxopts accepts is accounted for (OptionParser::parse).       *)
THEOREM WordsAccountedForHolds == OptionsSpec => []WordsAccountedFor
<1>1. OptionsInv => WordsAccountedFor
  BY DEF OptionsInv
<1> QED
  BY <1>1, OptionsInitInv, OptionsStep, PTL DEF OptionsSpec

-----------------------------------------------------------------------------
(* Functions that are defined by recursion over the numbers up to m, by a  *)
(* step within a set S: there is one, and it has its values in S.          *)

Iterates(h, m, base, step) == h = [n \in 0 .. m |-> IF n = 0 THEN base ELSE step[<<n, h[n - 1]>>]]

LEMMA IterationExists ==
  ASSUME NEW S, NEW base \in S, NEW m \in Nat, NEW step \in [Nat \X S -> S]
  PROVE  \E h \in [0 .. m -> S] : Iterates(h, m, base, step)
<1> DEFINE T == {l \in Nat : \E h \in [0 .. l -> S] : Iterates(h, l, base, step)}
<1>1. 0 \in T
  <2>1. Iterates([n \in 0 .. 0 |-> base], 0, base, step)
    BY DEF Iterates
  <2>2. [n \in 0 .. 0 |-> base] \in [0 .. 0 -> S]
    OBVIOUS
  <2> QED
    BY <2>1, <2>2
<1>2. ASSUME NEW l \in Nat, l \in T PROVE l + 1 \in T
  <2>1. PICK h \in [0 .. l -> S] : Iterates(h, l, base, step)
    BY <1>2
  <2> DEFINE g == [n \in 0 .. l + 1 |-> IF n = l + 1 THEN step[<<l + 1, h[l]>>] ELSE h[n]]
  <2>2. g \in [0 .. l + 1 -> S]
    OBVIOUS
  <2>3. ASSUME NEW n \in 0 .. l + 1 PROVE g[n] = IF n = 0 THEN base ELSE step[<<n, g[n - 1]>>]
    <3>1. CASE n = l + 1
      <4>1. n # 0 /\ n - 1 = l /\ l \in 0 .. l + 1 /\ l # l + 1
        BY <3>1
      <4> QED
        BY <4>1, <3>1
    <3>2. CASE n \in 0 .. l
      <4>1. g[n] = h[n]
        BY <3>2
      <4>2. h[n] = IF n = 0 THEN base ELSE step[<<n, h[n - 1]>>]
        BY <2>1, <3>2 DEF Iterates
      <4>3. n # 0 => g[n - 1] = h[n - 1]
        BY <3>2
      <4> QED
        BY <4>1, <4>2, <4>3
    <3> QED
      BY <3>1, <3>2
  <2>4. g = [n \in 0 .. l + 1 |-> g[n]]
    OBVIOUS
  <2> HIDE DEF g
  <2>5. Iterates(g, l + 1, base, step)
    BY <2>3, <2>4 DEF Iterates
  <2> QED
    BY <2>2, <2>5
<1>3. Nat \subseteq T
  <2> HIDE DEF T
  <2> QED
    BY <1>1, <1>2, Induction
<1> QED
  BY <1>3

-----------------------------------------------------------------------------
(* Numbers that are read digit by digit.                                   *)

\* Remainders of sums: what is divided may be left out.
LEMMA ModuloSum ==
  ASSUME NEW s \in Nat \ {0}, NEW k \in Nat, NEW x \in Nat
  PROVE  (s * k + x) % s = x % s
<1> DEFINE y == s * k + x
<1>1. y \in Nat
  <2>1. s * k \in Nat
    OBVIOUS
  <2> QED
    BY <2>1
<1>2. y % s \in 0 .. s - 1 /\ y \div s \in Nat /\ y = s * (y \div s) + (y % s)
  BY <1>1, DivisionFacts
<1>3. x % s \in 0 .. s - 1 /\ x \div s \in Nat /\ x = s * (x \div s) + (x % s)
  BY DivisionFacts
<1>4. y = s * (k + x \div s) + (x % s) /\ k + x \div s \in Nat
  BY <1>3
<1> HIDE DEF y
<1>5. \A q, q2 \in Nat, r, r2 \in 0 .. s - 1 : s * q + r = s * q2 + r2 => r = r2
  BY QuotientUnique
<1>6. y % s = x % s
  BY <1>2, <1>3, <1>4, <1>5, Zenon
<1> QED
  BY <1>6 DEF y

LEMMA DigitOfRemainder ==
  ASSUME NEW s \in Nat \ {0}, NEW a \in Nat, NEW b \in {10, 16}, NEW d \in Nat
  PROVE  ((a % s) * b + d) % s = (a * b + d) % s
<1> DEFINE q == a \div s
           r == a % s
<1>1. r \in Nat /\ q \in Nat /\ a = s * q + r
  BY DivisionFacts
<1> HIDE DEF q, r
<1>2. a * b + d = s * (q * b) + (r * b + d)
  <2>1. CASE b = 10
    <3>1. a * 10 = s * (q * 10) + r * 10
      BY <1>1
    <3> QED
      BY <3>1, <2>1, <1>1
  <2>2. CASE b = 16
    <3>1. a * 16 = s * (q * 16) + r * 16
      BY <1>1
    <3> QED
      BY <3>1, <2>2, <1>1
  <2> QED
    BY <2>1, <2>2
<1>3. q * b \in Nat /\ r * b + d \in Nat
  BY <1>1
<1>4. (s * (q * b) + (r * b + d)) % s = (r * b + d) % s
  BY <1>3, ModuloSum
<1> QED
  BY <1>2, <1>4 DEF r

\* The function that Span is the end of.
LEMMA SpanFacts ==
  ASSUME NEW bits \in Nat \ {0}
  PROVE  Span(bits) \in Nat \ {0} /\ Span(bits - 1) \in Nat \ {0} /\ Span(bits) = 2 * Span(bits - 1)
<1> DEFINE Powers(f, m) == f = [k \in 0 .. m |-> IF k = 0 THEN 1 ELSE 2 * f[k - 1]]
           step == [x \in Nat \X Nat |-> 2 * x[2]]
           power(m) == CHOOSE f : Powers(f, m)
<1>1. ASSUME NEW m \in Nat PROVE Powers(power(m), m) /\ Span(m) = power(m)[m]
  <2>1. step \in [Nat \X Nat -> Nat]
    OBVIOUS
  <2>2. PICK h \in [0 .. m -> Nat] : Iterates(h, m, 1, step)
    <3> HIDE DEF step
    <3> QED
      BY <2>1, IterationExists
  <2>3. ASSUME NEW n \in 0 .. m, n # 0 PROVE step[<<n, h[n - 1]>>] = 2 * h[n - 1]
    <3>1. n \in Nat /\ n - 1 \in 0 .. m
      BY <2>3
    <3>2. <<n, h[n - 1]>> \in Nat \X Nat
      BY <3>1
    <3> QED
      BY <3>2
  <2> HIDE DEF step
  <2>4. Powers(h, m)
    BY <2>2, <2>3 DEF Iterates
  <2> QED
    BY <2>4 DEF Span
<1> HIDE DEF power
<1>2. ASSUME NEW m \in Nat, NEW l \in Nat
      PROVE  \A k \in Nat : k \in 0 .. m /\ k \in 0 .. l =>
               power(m)[k] = power(l)[k] /\ power(m)[k] \in Nat \ {0}
  <2> DEFINE T == {k \in Nat : k \in 0 .. m /\ k \in 0 .. l =>
                                 power(m)[k] = power(l)[k] /\ power(m)[k] \in Nat \ {0}}
  <2>1. Powers(power(m), m) /\ Powers(power(l), l)
    BY <1>1
  <2>2. 0 \in T
    BY <2>1
  <2>3. ASSUME NEW k \in Nat, k \in T PROVE k + 1 \in T
    <3>1. SUFFICES ASSUME k + 1 \in 0 .. m, k + 1 \in 0 .. l
                   PROVE  power(m)[k + 1] = power(l)[k + 1] /\ power(m)[k + 1] \in Nat \ {0}
      OBVIOUS
    <3>2. k \in 0 .. m /\ k \in 0 .. l /\ k + 1 # 0 /\ (k + 1) - 1 = k
      BY <3>1
    <3>3. power(m)[k + 1] = 2 * power(m)[k] /\ power(l)[k + 1] = 2 * power(l)[k]
      BY <2>1, <3>1, <3>2
    <3>4. power(m)[k] = power(l)[k] /\ power(m)[k] \in Nat \ {0}
      BY <2>3, <3>2
    <3> QED
      BY <3>3, <3>4
  <2>4. Nat \subseteq T
    <3> HIDE DEF T
    <3> QED
      BY <2>2, <2>3, Induction
  <2> QED
    BY <2>4
<1>3. bits - 1 \in Nat /\ bits - 1 \in 0 .. bits /\ bits - 1 \in 0 .. bits - 1 /\ bits \in 0 .. bits
  OBVIOUS
<1>4. power(bits)[bits] = 2 * power(bits)[bits - 1]
  BY <1>1, <1>3
<1>5. power(bits)[bits - 1] = power(bits - 1)[bits - 1] /\ power(bits)[bits - 1] \in Nat \ {0}
  BY <1>2, <1>3
<1>6. Span(bits) = power(bits)[bits] /\ Span(bits - 1) = power(bits - 1)[bits - 1]
  BY <1>1, <1>3
<1> QED
  BY <1>4, <1>5, <1>6

-----------------------------------------------------------------------------
\* A digit of the base, if the character is one.
LEMMA DigitFacts ==
  ASSUME NEW b \in {10, 16}, NEW ch
  PROVE  /\ DigitOf(b, ch) \subseteq Nat
         /\ \A c, d \in DigitOf(b, ch) : c = d
<1>1. DigitOf(b, ch) \subseteq 0 .. 15
  BY DEF DigitOf
<1>2. \A c, d \in 0 .. 15 : Digits[c + 1] = Digits[d + 1] => c = d
  BY DEF Digits
<1> QED
  BY <1>1, <1>2 DEF DigitOf

\* The function that ReadDigits is the end of.
Reading(read, base, bits, ds) ==
  read = [k \in 0 .. Len(ds) |-> IF k = 0 THEN {0} ELSE Push(base, bits, read[k - 1], ds[k])]

LEMMA ReadingFacts ==
  ASSUME NEW b \in {10, 16}, NEW bits \in Nat \ {0}, NEW ds \in Seq(STRING), ds # <<>>
  PROVE  \E read \in [0 .. Len(ds) -> SUBSET Nat] :
           Reading(read, b, bits, ds) /\ ReadDigits(b, bits, ds) = read[Len(ds)]
<1> DEFINE step == [x \in Nat \X SUBSET Nat |-> Push(b, bits, x[2], ds[x[1]])]
<1>1. Len(ds) \in Nat /\ {0} \in SUBSET Nat
  OBVIOUS
<1>2. \A r \in SUBSET Nat : \A ch : Push(b, bits, r, ch) \in SUBSET Nat
  <2> SUFFICES ASSUME NEW r \in SUBSET Nat, NEW ch, NEW value \in Push(b, bits, r, ch)
               PROVE  value \in Nat
    OBVIOUS
  <2>1. PICK v \in r, d \in DigitOf(b, ch) : value = (v * b + d) % Span(bits)
    BY DEF Push
  <2>2. v * b + d \in Nat
    BY DigitFacts
  <2> DEFINE s == Span(bits)
             a == v * b + d
  <2>3. s \in Nat \ {0}
    BY SpanFacts
  <2> HIDE DEF s, a
  <2>4. a % s \in Nat
    BY <2>2, <2>3 DEF a
  <2> QED
    BY <2>1, <2>4 DEF s, a
<1>3. step \in [Nat \X SUBSET Nat -> SUBSET Nat]
  BY <1>2
<1>4. PICK h \in [0 .. Len(ds) -> SUBSET Nat] : Iterates(h, Len(ds), {0}, step)
  <2> HIDE DEF step
  <2> QED
    BY <1>1, <1>3, IterationExists
<1>5. Reading(h, b, bits, ds)
  <2>1. ASSUME NEW n \in 0 .. Len(ds), n # 0
        PROVE  step[<<n, h[n - 1]>>] = Push(b, bits, h[n - 1], ds[n])
    <3>1. n \in Nat /\ n - 1 \in 0 .. Len(ds)
      BY <1>1, <2>1
    <3>2. <<n, h[n - 1]>> \in Nat \X SUBSET Nat
      BY <3>1, <1>4
    <3> QED
      BY <3>2
  <2> HIDE DEF step
  <2> QED
    BY <1>4, <2>1 DEF Reading, Iterates
<1> DEFINE read == CHOOSE f : Reading(f, b, bits, ds)
<1>7. Reading(read, b, bits, ds)
  BY <1>5
<1>8. ReadDigits(b, bits, ds) = read[Len(ds)]
  BY DEF ReadDigits, Reading
<1> HIDE DEF read
<1>9. \A k \in Nat : k \in 0 .. Len(ds) => read[k] \in SUBSET Nat
  <2> DEFINE T == {k \in Nat : k \in 0 .. Len(ds) => read[k] \in SUBSET Nat}
  <2>1. 0 \in T
    BY <1>7 DEF Reading
  <2>2. ASSUME NEW k \in Nat, k \in T PROVE k + 1 \in T
    BY <1>1, <1>2, <1>7, <2>2 DEF Reading
  <2>3. Nat \subseteq T
    <3> HIDE DEF T
    <3> QED
      BY <2>1, <2>2, Induction
  <2> QED
    BY <2>3
<1>10. read \in [0 .. Len(ds) -> SUBSET Nat]
  <2>1. DOMAIN read = 0 .. Len(ds) /\ read = [k \in DOMAIN read |-> read[k]]
    BY <1>7 DEF Reading
  <2> QED
    BY <1>1, <1>9, <2>1
<1> QED
  BY <1>7, <1>8, <1>10

-----------------------------------------------------------------------------
\* Characters that are digits make a number, without any bound.
AllDigits(base, ds) == \A k \in 1 .. Len(ds) : DigitOf(base, ds[k]) # {}
Numbering(number, base, ds) ==
  number = [k \in 0 .. Len(ds) |->
              IF k = 0 THEN 0 ELSE number[k - 1] * base + CHOOSE d \in DigitOf(base, ds[k]) : TRUE]

LEMMA NumberingFacts ==
  ASSUME NEW b \in {10, 16}, NEW ds \in Seq(STRING), AllDigits(b, ds)
  PROVE  /\ \E number : Numbering(number, b, ds)
         /\ \A number : Numbering(number, b, ds) => number \in [0 .. Len(ds) -> Nat]
<1> DEFINE digit(k) == CHOOSE d \in DigitOf(b, ds[k]) : TRUE
           step == [x \in Nat \X Nat |-> IF x[1] \in 1 .. Len(ds) THEN x[2] * b + digit(x[1]) ELSE 0]
<1>1. Len(ds) \in Nat
  OBVIOUS
<1>2. \A k \in 1 .. Len(ds) : digit(k) \in Nat
  BY DigitFacts DEF AllDigits
<1> HIDE DEF digit
<1>3. step \in [Nat \X Nat -> Nat]
  BY <1>2
<1>4. PICK h \in [0 .. Len(ds) -> Nat] : Iterates(h, Len(ds), 0, step)
  <2> HIDE DEF step
  <2> QED
    BY <1>1, <1>3, IterationExists
<1>5. Numbering(h, b, ds)
  <2>1. ASSUME NEW n \in 0 .. Len(ds), n # 0 PROVE step[<<n, h[n - 1]>>] = h[n - 1] * b + digit(n)
    <3>1. n \in Nat /\ n - 1 \in 0 .. Len(ds) /\ n \in 1 .. Len(ds)
      BY <1>1, <2>1
    <3>2. <<n, h[n - 1]>> \in Nat \X Nat
      BY <3>1, <1>4
    <3> QED
      BY <3>1, <3>2
  <2> HIDE DEF step
  <2> QED
    BY <1>4, <2>1 DEF Numbering, Iterates, digit
<1>6. ASSUME NEW number, Numbering(number, b, ds) PROVE number \in [0 .. Len(ds) -> Nat]
  <2> DEFINE T == {k \in Nat : k \in 0 .. Len(ds) => number[k] \in Nat}
  <2>1. 0 \in T
    BY <1>6 DEF Numbering
  <2>2. ASSUME NEW k \in Nat, k \in T PROVE k + 1 \in T
    <3>1. SUFFICES ASSUME k + 1 \in 0 .. Len(ds) PROVE number[k + 1] \in Nat
      OBVIOUS
    <3>2. k \in 0 .. Len(ds) /\ k + 1 # 0 /\ (k + 1) - 1 = k /\ k + 1 \in 1 .. Len(ds)
      BY <1>1, <3>1
    <3>3. number[k + 1] = number[k] * b + digit(k + 1)
      BY <1>6, <3>1, <3>2 DEF Numbering, digit
    <3>4. number[k] \in Nat /\ digit(k + 1) \in Nat
      BY <1>2, <2>2, <3>2
    <3> QED
      BY <3>3, <3>4
  <2>3. Nat \subseteq T
    <3> HIDE DEF T
    <3> QED
      BY <2>1, <2>2, Induction
  <2>4. \A k \in 0 .. Len(ds) : number[k] \in Nat
    BY <1>1, <2>3
  <2>5. DOMAIN number = 0 .. Len(ds) /\ number = [k \in DOMAIN number |-> number[k]]
    BY <1>6 DEF Numbering
  <2> QED
    BY <2>4, <2>5
<1> QED
  BY <1>5, <1>6

\* A character that is no digit leaves no result, whatever follows it.
LEMMA OnlyDigitsAreRead ==
  ASSUME NEW b \in {10, 16}, NEW bits \in Nat \ {0}, NEW ds \in Seq(STRING),
         NEW read, Reading(read, b, bits, ds), read[Len(ds)] # {}
  PROVE  AllDigits(b, ds)
<1> SUFFICES ASSUME NEW j \in 1 .. Len(ds), DigitOf(b, ds[j]) = {} PROVE FALSE
  BY DEF AllDigits
<1>1. Len(ds) \in Nat
  OBVIOUS
<1>2. \A k \in 1 .. Len(ds) : read[k] = Push(b, bits, read[k - 1], ds[k])
  <2>1. \A k \in 1 .. Len(ds) : k \in 0 .. Len(ds) /\ k # 0
    BY <1>1
  <2> QED
    BY <2>1 DEF Reading
<1>3. \A r, ch : r = {} \/ DigitOf(b, ch) = {} => Push(b, bits, r, ch) = {}
  BY DEF Push
<1> DEFINE T == {k \in Nat : k \in j .. Len(ds) => read[k] = {}}
<1>4. 0 \in T
  OBVIOUS
<1>5. ASSUME NEW k \in Nat, k \in T PROVE k + 1 \in T
  <2>1. SUFFICES ASSUME k + 1 \in j .. Len(ds) PROVE read[k + 1] = {}
    OBVIOUS
  <2>2. read[k + 1] = Push(b, bits, read[k], ds[k + 1])
    <3>1. k + 1 \in 1 .. Len(ds) /\ (k + 1) - 1 = k
      BY <1>1, <2>1
    <3> QED
      BY <1>2, <3>1
  <2>3. k + 1 = j \/ k \in j .. Len(ds)
    BY <1>1, <2>1
  <2>4. ds[k + 1] = ds[j] \/ read[k] = {}
    BY <1>5, <2>3
  <2> QED
    BY <1>3, <2>2, <2>4
<1>6. Nat \subseteq T
  <2> HIDE DEF T
  <2> QED
    BY <1>4, <1>5, Induction
<1> QED
  BY <1>1, <1>6

\* What is read is the number modulo the span of the type, and a number below
\* it is always read: the test for overflow never refuses one.
ReadAs(value, n, s) == value \subseteq {n % s} /\ (n < s => value = {n})

LEMMA DigitsAreRead ==
  ASSUME NEW b \in {10, 16}, NEW bits \in Nat \ {0}, NEW ds \in Seq(STRING), AllDigits(b, ds),
         NEW read, Reading(read, b, bits, ds),
         NEW number \in [0 .. Len(ds) -> Nat], Numbering(number, b, ds)
  PROVE  ReadAs(read[Len(ds)], number[Len(ds)], Span(bits))
<1> DEFINE s == Span(bits)
           digit(k) == CHOOSE d \in DigitOf(b, ds[k]) : TRUE
<1>1. s \in Nat \ {0} /\ Len(ds) \in Nat
  BY SpanFacts
<1>2. \A k \in 1 .. Len(ds) : DigitOf(b, ds[k]) = {digit(k)} /\ digit(k) \in Nat
  <2> SUFFICES ASSUME NEW k \in 1 .. Len(ds) PROVE DigitOf(b, ds[k]) = {digit(k)} /\ digit(k) \in Nat
    OBVIOUS
  <2>1. digit(k) \in DigitOf(b, ds[k])
    BY DEF AllDigits
  <2> QED
    BY <2>1, DigitFacts
<1>3. ASSUME NEW r, NEW k \in 1 .. Len(ds)
      PROVE  Push(b, bits, {r}, ds[k]) =
               IF r <= (r * b + digit(k)) % s THEN {(r * b + digit(k)) % s} ELSE {}
  <2> DEFINE dd == digit(k)
  <2>1. DigitOf(b, ds[k]) = {dd}
    BY <1>2
  <2> HIDE DEF dd
  <2>2. {(x * b + d) % s : x \in {r}, d \in {dd}} = {(r * b + dd) % s}
    OBVIOUS
  <2>3. Push(b, bits, {r}, ds[k]) = {value \in {(r * b + dd) % s} : \A x \in {r} : x <= value}
    BY <2>1, <2>2 DEF Push
  <2> QED
    BY <2>3 DEF dd
<1>4. \A k \in 1 .. Len(ds) : /\ read[k] = Push(b, bits, read[k - 1], ds[k])
                              /\ number[k] = number[k - 1] * b + digit(k)
  <2>1. \A k \in 1 .. Len(ds) : k \in 0 .. Len(ds) /\ k # 0
    BY <1>1
  <2> QED
    BY <2>1 DEF Reading, Numbering
<1> HIDE DEF digit
<1> HIDE DEF s
<1> DEFINE T == {k \in Nat : k \in 0 .. Len(ds) => /\ read[k] \subseteq {number[k] % s}
                                                   /\ number[k] < s => read[k] = {number[k]}}
<1>5. 0 \in T
  <2>1. read[0] = {0} /\ number[0] = 0
    BY <1>1 DEF Reading, Numbering
  <2>2. 0 % s = 0
    BY <1>1, SmallModulo
  <2> QED
    BY <1>1, <2>1, <2>2
<1>6. ASSUME NEW k \in Nat, k \in T PROVE k + 1 \in T
  <2>1. SUFFICES ASSUME k + 1 \in 0 .. Len(ds)
                 PROVE  /\ read[k + 1] \subseteq {number[k + 1] % s}
                        /\ number[k + 1] < s => read[k + 1] = {number[k + 1]}
    OBVIOUS
  <2>2. k + 1 \in 1 .. Len(ds) /\ (k + 1) - 1 = k /\ k \in 0 .. Len(ds)
    BY <1>1, <2>1
  <2>3. read[k + 1] = Push(b, bits, read[k], ds[k + 1]) /\ number[k + 1] = number[k] * b + digit(k + 1)
    BY <1>4, <2>2
  <2>4. number[k] \in Nat /\ digit(k + 1) \in Nat /\ number[k + 1] \in Nat
    BY <1>2, <2>2, <2>1
  <2>5. read[k] \subseteq {number[k] % s} /\ (number[k] < s => read[k] = {number[k]})
    BY <1>6, <2>2
  <2>6. ((number[k] % s) * b + digit(k + 1)) % s = number[k + 1] % s
    <3> DEFINE a == number[k]
               d == digit(k + 1)
    <3>1. a \in Nat /\ d \in Nat /\ number[k + 1] = a * b + d
      BY <2>3, <2>4
    <3> HIDE DEF a, d
    <3>2. ((a % s) * b + d) % s = (a * b + d) % s
      <4>1. s \in Nat \ {0} /\ a \in Nat /\ b \in {10, 16} /\ d \in Nat
        BY <1>1, <3>1
      <4> QED
        BY <4>1, DigitOfRemainder, Zenon
    <3>3. ((a % s) * b + d) % s = number[k + 1] % s
      BY <3>1, <3>2, Zenon
    <3> QED
      BY <3>3, Zenon DEF a, d
  <2>7. read[k + 1] \subseteq {number[k + 1] % s}
    <3>1. CASE read[k] = {}
      BY <2>3, <3>1 DEF Push
    <3>2. CASE read[k] = {number[k] % s}
      BY <1>3, <2>2, <2>3, <2>6, <3>2
    <3> QED
      BY <2>5, <3>1, <3>2
  <2>8. ASSUME number[k + 1] < s PROVE read[k + 1] = {number[k + 1]}
    <3>1. number[k] <= number[k + 1]
      BY <2>3, <2>4
    <3>2. read[k] = {number[k]}
      BY <1>1, <2>4, <2>5, <2>8, <3>1
    <3>3. number[k + 1] % s = number[k + 1]
      <4> DEFINE a == number[k + 1]
      <4>1. a \in 0 .. s - 1
        BY <1>1, <2>4, <2>8
      <4> HIDE DEF a
      <4>2. a % s = a
        BY <1>1, <4>1, SmallModulo
      <4> QED
        BY <4>2 DEF a
    <3>4. Push(b, bits, {number[k]}, ds[k + 1]) =
            IF number[k] <= (number[k] * b + digit(k + 1)) % s THEN {(number[k] * b + digit(k + 1)) % s} ELSE {}
      BY <1>3, <2>2
    <3> QED
      BY <2>3, <3>1, <3>2, <3>3, <3>4
  <2> QED
    BY <2>7, <2>8
<1>7. Nat \subseteq T
  <2> HIDE DEF T
  <2> QED
    BY <1>5, <1>6, Induction
<1> QED
  BY <1>1, <1>7 DEF s, ReadAs

\* Both signs of a number are congruent to their remainders.
LEMMA Congruent ==
  ASSUME NEW s \in Nat \ {0}, NEW a \in Nat
  PROVE  ((a % s) - a) % s = 0 /\ (-(a % s) - (-a)) % s = 0
<1> DEFINE q == a \div s
           r == a % s
<1>1. r \in Nat /\ q \in Nat /\ a = s * q + r
  BY DivisionFacts
<1> HIDE DEF q, r
<1>2. \A k \in Int : (s * k) % s = 0
  OBVIOUS
<1>3. r - a = s * (-q) /\ -r - (-a) = s * q /\ -q \in Int /\ q \in Int
  <2>1. s * (-q) = -(s * q)
    BY <1>1
  <2> QED
    BY <2>1, <1>1
<1>4. (r - a) % s = 0 /\ (-r - (-a)) % s = 0
  <2>1. (s * (-q)) % s = 0 /\ (s * q) % s = 0
    BY <1>2, <1>3
  <2> QED
    BY <1>3, <2>1
<1> QED
  BY <1>4 DEF r

LEMMA NumeralsType ==
  ASSUME NEW text \in Seq(STRING)
  PROVE  Numerals(text) \in Seq(STRING) /\ Base(text) \in {10, 16}
<1>1. Unsigned(text) \in Seq(STRING)
  <2>1. text # <<>> => Tail(text) \in Seq(STRING)
    OBVIOUS
  <2> QED
    BY <2>1 DEF Unsigned, Negative
<1>2. Base(text) \in {10, 16}
  BY DEF Base
<1>3. CASE Base(text) = 16
  <2>1. Len(Unsigned(text)) \in Nat /\ \A k \in 3 .. Len(Unsigned(text)) : Unsigned(text)[k] \in STRING
    BY <1>1
  <2>2. SubSeq(Unsigned(text), 3, Len(Unsigned(text))) \in Seq(STRING)
    BY <1>1, <2>1
  <2> QED
    BY <1>2, <1>3, <2>2 DEF Numerals
<1>4. CASE Base(text) # 16
  BY <1>1, <1>2, <1>4 DEF Numerals
<1> QED
  BY <1>3, <1>4

(* cxxopts' integers, for a type of any width, signed or not, and for any  *)
(* text: a text that is a number of the type is read as that number; what  *)
(* is read is a number of the type, out of a text of digits with or        *)
(* without a sign and 0x, and differs from what the text says by a multiple*)
(* of the span at most.                                                    *)
THEOREM IntegersAreRead ==
  ASSUME NEW bits \in Nat \ {0}, NEW signed \in BOOLEAN, NEW text \in Seq(STRING)
  PROVE  IntegerRead(bits, signed, text, integer_parser(bits, signed, text))
<1> DEFINE ds == Numerals(text)
           b  == Base(text)
           u  == ReadDigits(b, bits, ds)
           s  == Span(bits)
           h  == Span(bits - 1)
           negative == Negative(text)
           result == integer_parser(bits, signed, text)
<1>1. ds \in Seq(STRING) /\ b \in {10, 16} /\ Len(ds) \in Nat
  BY NumeralsType
<1>2. s \in Nat \ {0} /\ h \in Nat \ {0} /\ s = 2 * h
  BY SpanFacts
<1>3. negative \in BOOLEAN
  BY DEF Negative
<1>4. result = Signed(bits, signed, negative, u)
  BY DEF integer_parser
<1>5. CASE ds = <<>>
  <2>1. u = {}
    BY <1>5 DEF ReadDigits
  <2>2. result = <<>>
    BY <1>4, <2>1 DEF Signed
  <2>3. ~IsNumeral(text)
    BY <1>5 DEF IsNumeral
  <2> QED
    BY <2>2, <2>3 DEF IntegerRead
<1>6. CASE ds # <<>> /\ ~AllDigits(b, ds)
  <2>1. PICK read \in [0 .. Len(ds) -> SUBSET Nat] : Reading(read, b, bits, ds) /\ u = read[Len(ds)]
    BY <1>1, <1>6, ReadingFacts
  <2>2. u = {}
    <3> HIDE DEF ds, b, u
    <3> QED
      BY <1>1, <1>6, <2>1, OnlyDigitsAreRead
  <2>3. result = <<>>
    BY <1>4, <2>2 DEF Signed
  <2>4. ~IsNumeral(text)
    <3>1. DOMAIN ds = 1 .. Len(ds)
      BY <1>1
    <3> QED
      BY <1>6, <3>1 DEF IsNumeral, AllDigits
  <2> QED
    BY <2>3, <2>4 DEF IntegerRead
<1>7. CASE ds # <<>> /\ AllDigits(b, ds)
  <2> DEFINE number == CHOOSE f : Numbering(f, b, ds)
             n      == number[Len(ds)]
  <2>1. Numbering(number, b, ds) /\ number \in [0 .. Len(ds) -> Nat]
    <3> HIDE DEF ds, b
    <3> QED
      BY <1>1, <1>7, NumberingFacts
  <2>2. n \in Nat
    BY <1>1, <2>1
  <2>3. Denoted(text) = IF negative THEN -n ELSE n
    BY DEF Denoted, Numbering
  <2>4. u \subseteq {n % s} /\ (n < s => u = {n})
    <3>1. PICK read \in [0 .. Len(ds) -> SUBSET Nat] : Reading(read, b, bits, ds) /\ u = read[Len(ds)]
      BY <1>1, <1>7, ReadingFacts
    <3> HIDE DEF ds, b, u, number, s
    <3>2. ReadAs(read[Len(ds)], number[Len(ds)], Span(bits))
      BY <1>1, <1>7, <2>1, <3>1, DigitsAreRead
    <3> QED
      BY <3>1, <3>2 DEF ReadAs, s, n
  <2>5. IsNumeral(text)
    <3>1. DOMAIN ds = 1 .. Len(ds)
      BY <1>1
    <3> QED
      BY <1>7, <3>1 DEF IsNumeral, AllDigits
  <2> HIDE DEF ds, b, u, s, h, n, negative, result
  <2>6. \A m : u = {m} => result = IF InRange(bits, signed, negative, m)
                                   THEN <<IF negative THEN -m ELSE m>> ELSE <<>>
    BY <1>4 DEF Signed
  <2>7. ASSUME result # <<>>
        PROVE  Fits(bits, signed, result[1]) /\ (result[1] - Denoted(text)) % s = 0
    <3> DEFINE m == n % s
    <3>1. u # {}
      BY <1>4, <2>7 DEF Signed
    <3>2. u = {m}
      BY <2>4, <3>1
    <3>3. m \in 0 .. s - 1
      BY <1>2, <2>2, DivisionFacts
    <3>4. (m - n) % s = 0 /\ (-m - (-n)) % s = 0
      BY <1>2, <2>2, Congruent
    <3> HIDE DEF m
    <3>5. InRange(bits, signed, negative, m) /\ result = <<IF negative THEN -m ELSE m>>
      BY <2>6, <2>7, <3>2
    <3>6. result[1] = IF negative THEN -m ELSE m
      BY <3>5
    <3>7. IF signed THEN m <= IF negative THEN h ELSE h - 1 ELSE ~negative
      BY <3>5 DEF InRange, h
    <3>8. IF signed THEN result[1] \in -h .. h - 1 ELSE result[1] \in 0 .. s - 1
      BY <1>2, <1>3, <3>3, <3>6, <3>7
    <3>9. (result[1] - Denoted(text)) % s = 0
      BY <1>3, <2>3, <3>4, <3>6
    <3> QED
      BY <3>8, <3>9 DEF Fits, s, h
  <2>8. ASSUME Fits(bits, signed, Denoted(text)), negative => signed
        PROVE  result = <<Denoted(text)>>
    <3>1. IF signed THEN Denoted(text) \in -h .. h - 1 ELSE Denoted(text) \in 0 .. s - 1
      BY <2>8 DEF Fits, s, h
    <3>2. n < s /\ (IF signed THEN n <= IF negative THEN h ELSE h - 1 ELSE ~negative)
      BY <1>2, <1>3, <2>2, <2>3, <2>8, <3>1
    <3>3. InRange(bits, signed, negative, n)
      BY <3>2 DEF InRange, h
    <3> QED
      BY <2>3, <2>4, <2>6, <3>2, <3>3
  <2> QED
    BY <2>5, <2>7, <2>8 DEF IntegerRead, negative, result, s
<1> QED
  BY <1>5, <1>6, <1>7

-----------------------------------------------------------------------------
(* The two builds of cxxopts.                                              *)

\* The first place of a text, from first on, where P is found, or its end.
LEMMA FirstPlace ==
  ASSUME NEW n \in Nat, NEW first \in 1 .. n + 1, NEW S
  PROVE  \E k \in first .. n + 1 : (k <= n => k \in S) /\ \A j \in first .. k - 1 : j \notin S
<1> DEFINE T == {k \in Nat : k \in first .. n + 1 /\ (k <= n => k \in S)}
<1>1. T \subseteq Nat /\ n + 1 \in T
  OBVIOUS
<1>2. PICK k \in T : \A j \in T : ~ (j < k)
  <2> HIDE DEF T
  <2> QED
    BY <1>1, LeastNumber
<1>3. \A j \in first .. k - 1 : j \notin S
  <2> SUFFICES ASSUME NEW j \in first .. k - 1, j \in S PROVE FALSE
    OBVIOUS
  <2>1. j \in T /\ j < k
    OBVIOUS
  <2> QED
    BY <1>2, <2>1
<1> QED
  BY <1>3

\* What may stand at j, in a name that starts at first.
InName(text, first, j) == Alnum(text[j]) \/ (j > first /\ text[j] \in {Dash, "_"})
Stops(text, first, k)  ==
  /\ k \in first .. Len(text) + 1
  /\ k <= Len(text) => ~InName(text, first, k)
  /\ \A j \in first .. k - 1 : InName(text, first, j)

LEMMA NameStopIs ==
  ASSUME NEW text \in Seq(STRING), NEW first \in 1 .. Len(text) + 1
  PROVE  /\ Stops(text, first, NameStop(text, first))
         /\ \A k : Stops(text, first, k) => k = NameStop(text, first)
<1> DEFINE S == {k \in 1 .. Len(text) : ~InName(text, first, k)}
<1>1. Len(text) \in Nat
  OBVIOUS
<1>2. PICK k \in first .. Len(text) + 1 : (k <= Len(text) => k \in S) /\ \A j \in first .. k - 1 : j \notin S
  <2> HIDE DEF S
  <2> QED
    BY <1>1, FirstPlace
<1>3. Stops(text, first, k)
  <2>1. \A j \in first .. k - 1 : j \in 1 .. Len(text)
    BY <1>1
  <2> QED
    BY <1>2, <2>1 DEF Stops
<1>4. ASSUME NEW a, NEW b, Stops(text, first, a), Stops(text, first, b) PROVE ~ (a < b)
  <2> SUFFICES ASSUME a < b PROVE FALSE
    OBVIOUS
  <2>1. a \in first .. Len(text) + 1 /\ b \in first .. Len(text) + 1
    BY <1>4 DEF Stops
  <2>2. a \in first .. b - 1 /\ a <= Len(text)
    BY <1>1, <2>1
  <2>3. ~InName(text, first, a) /\ InName(text, first, a)
    <3>1. ~InName(text, first, a)
      BY <1>4, <2>2 DEF Stops
    <3>2. InName(text, first, a)
      BY <1>4, <2>2 DEF Stops
    <3> QED
      BY <3>1, <3>2
  <2> QED
    BY <2>3
<1>5. \A a, b : Stops(text, first, a) /\ Stops(text, first, b) => a = b
  <2> SUFFICES ASSUME NEW a, NEW b, Stops(text, first, a), Stops(text, first, b) PROVE a = b
    OBVIOUS
  <2>1. ~ (a < b) /\ ~ (b < a)
    BY <1>4
  <2> QED
    BY <1>1, <2>1 DEF Stops
<1>6. NameStop(text, first) = CHOOSE a : a \in first .. Len(text) + 1 /\ Stops(text, first, a)
  <2>1. \A a \in first .. Len(text) + 1 :
          (a <= Len(text) => ~Alnum(text[a]) /\ (a > first => text[a] \notin {Dash, "_"}))
            <=> (a <= Len(text) => ~InName(text, first, a))
    BY DEF InName
  <2>2. \A a : (/\ a \in first .. Len(text) + 1
                /\ a <= Len(text) => ~Alnum(text[a]) /\ (a > first => text[a] \notin {Dash, "_"})
                /\ \A j \in first .. a - 1 : Alnum(text[j]) \/ (j > first /\ text[j] \in {Dash, "_"}))
               <=> (a \in first .. Len(text) + 1 /\ Stops(text, first, a))
    BY DEF Stops, InName
  <2> QED
    BY <2>2, Zenon DEF NameStop
<1>7. Stops(text, first, NameStop(text, first))
  BY <1>3, <1>6
<1> QED
  BY <1>5, <1>7

Assigns(w, k) == /\ k \in 1 .. Len(w) + 1
                 /\ k <= Len(w) => w[k] = "="
                 /\ \A j \in 1 .. k - 1 : w[j] # "="

LEMMA NameEndUnique ==
  ASSUME NEW w \in Seq(STRING), NEW k, Assigns(w, k)
  PROVE  NameEnd(w) = k
<1>1. Len(w) \in Nat
  OBVIOUS
<1>2. ASSUME NEW a, NEW b, Assigns(w, a), Assigns(w, b) PROVE ~ (a < b)
  <2> SUFFICES ASSUME a < b PROVE FALSE
    OBVIOUS
  <2>1. a \in 1 .. b - 1 /\ a <= Len(w)
    BY <1>1, <1>2 DEF Assigns
  <2> QED
    BY <1>2, <2>1 DEF Assigns
<1>3. \A a, b : Assigns(w, a) /\ Assigns(w, b) => a = b
  <2> SUFFICES ASSUME NEW a, NEW b, Assigns(w, a), Assigns(w, b) PROVE a = b
    OBVIOUS
  <2>1. ~ (a < b) /\ ~ (b < a)
    BY <1>2
  <2> QED
    BY <1>1, <2>1 DEF Assigns
<1>4. NameEnd(w) = CHOOSE a : a \in 1 .. Len(w) + 1 /\ Assigns(w, a)
  <2>1. \A a : (/\ a \in 1 .. Len(w) + 1
                /\ a <= Len(w) => w[a] = "="
                /\ \A j \in 1 .. a - 1 : w[j] # "=")
               <=> (a \in 1 .. Len(w) + 1 /\ Assigns(w, a))
    BY DEF Assigns
  <2> QED
    BY <2>1, Zenon DEF NameEnd
<1>5. Assigns(w, NameEnd(w))
  <2>1. k \in 1 .. Len(w) + 1
    BY DEF Assigns
  <2> QED
    BY <1>4, <2>1
<1> QED
  BY <1>3, <1>5

\* Where the name that starts behind two dashes ends: in a word that matches
\* there is its end, or an equals sign.
LEMMA LongWordIs ==
  ASSUME NEW w \in Seq(STRING), Len(w) > 1, w[1] = Dash, w[2] = Dash
  PROVE  /\ LongWord(w) <=> NameStop(w, 3) > 4 /\ (NameStop(w, 3) <= Len(w) => w[NameStop(w, 3)] = "=")
         /\ LongWord(w) => NameEnd(w) = NameStop(w, 3)
<1> DEFINE to == NameStop(w, 3)
           e  == NameEnd(w)
<1>1. Len(w) \in Nat /\ 3 \in 1 .. Len(w) + 1
  OBVIOUS
<1>2. Stops(w, 3, to) /\ \A k : Stops(w, 3, k) => k = to
  BY <1>1, NameStopIs
<1>3. Dash # "=" /\ ~Alnum(Dash) /\ ~Alnum("=")
  BY DEF Alnum, Dash
<1>4. ASSUME to > 4, to <= Len(w) => w[to] = "=" PROVE LongWord(w)
  <2>1. \A j \in 3 .. to - 1 : InName(w, 3, j) /\ w[j] # "="
    BY <1>2, <1>3 DEF Stops, InName, Dash
  <2>2. Assigns(w, to)
    <3>1. to \in 1 .. Len(w) + 1
      BY <1>1, <1>2 DEF Stops
    <3>2. \A j \in 1 .. to - 1 : j = 1 \/ j = 2 \/ j \in 3 .. to - 1
      BY <3>1, <1>1
    <3> QED
      BY <1>3, <1>4, <2>1, <3>1, <3>2 DEF Assigns
  <2>3. e = to
    BY <2>2, NameEndUnique
  <2>4. Alnum(w[3])
    <3>1. InName(w, 3, 3)
      BY <1>2, <1>4, <2>1 DEF Stops
    <3> QED
      BY <3>1 DEF InName
  <2>5. \A k \in 4 .. e - 1 : Alnum(w[k]) \/ w[k] \in {Dash, "_"}
    <3>1. \A k \in 4 .. to - 1 : k \in 3 .. to - 1
      BY <1>1, <1>2 DEF Stops
    <3> QED
      BY <2>1, <2>3, <3>1 DEF InName
  <2> QED
    BY <1>4, <2>3, <2>4, <2>5 DEF LongWord
<1>5. ASSUME LongWord(w) PROVE e = to /\ to > 4 /\ (to <= Len(w) => w[to] = "=")
  <2>1. e \in 1 .. Len(w) + 1 /\ (e <= Len(w) => w[e] = "=") /\ e > 4
    BY <1>5, NameEndIs DEF LongWord
  <2>2. Stops(w, 3, e)
    <3>1. e \in 3 .. Len(w) + 1
      BY <1>1, <2>1
    <3>2. \A j \in 3 .. e - 1 : InName(w, 3, j)
      <4> SUFFICES ASSUME NEW j \in 3 .. e - 1 PROVE InName(w, 3, j)
        OBVIOUS
      <4>1. CASE j = 3
        BY <1>5, <4>1 DEF LongWord, InName
      <4>2. CASE j # 3
        <5>1. j \in 4 .. e - 1 /\ j > 3
          BY <2>1, <4>2
        <5> QED
          BY <1>5, <5>1 DEF LongWord, InName
      <4> QED
        BY <4>1, <4>2
    <3>3. e <= Len(w) => ~InName(w, 3, e)
      BY <1>3, <2>1 DEF InName, Dash
    <3> QED
      BY <3>1, <3>2, <3>3 DEF Stops
  <2> QED
    BY <1>2, <2>1, <2>2
<1> QED
  BY <1>4, <1>5

LEMMA ArgumentsAgree ==
  ASSUME NEW w \in Seq(STRING)
  PROVE  ArgumentByHand(w) = MatchedArgument(w)
<1> DEFINE to == NameStop(w, 3)
<1>1. Len(w) \in Nat /\ ~Alnum(Dash)
  BY DEF Alnum, Dash
<1>2. CASE Len(w) > 1 /\ w[1] = Dash /\ w[2] = Dash
  <2>1. ~ShortWord(w)
    BY <1>1, <1>2 DEF ShortWord
  <2>2. to \in 3 .. Len(w) + 1
    <3>1. 3 \in 1 .. Len(w) + 1
      BY <1>1, <1>2
    <3> QED
      BY <3>1, NameStopIs DEF Stops
  <2>3. ArgumentByHand(w) = LongByHand(w)
    BY <1>2 DEF ArgumentByHand
  <2>4. CASE LongWord(w)
    <3>1. to > 4 /\ (to <= Len(w) => w[to] = "=") /\ NameEnd(w) = to
      BY <1>2, <2>4, LongWordIs
    <3>2. MatchedArgument(w) = <<<<SubSeq(w, 3, to - 1), IF to > Len(w) THEN <<>> ELSE <<SubSeq(w, to + 1, Len(w))>>>>>>
      <4> HIDE DEF to
      <4> QED
        BY <2>1, <2>4, <3>1 DEF MatchedArgument
    <3> HIDE DEF to
    <3>3. to - 3 > 1 /\ (to <= Len(w) <=> ~ (to > Len(w)))
      BY <1>1, <2>2, <3>1
    <3>4. CASE to > Len(w)
      BY <2>3, <3>2, <3>3, <3>4 DEF LongByHand, to
    <3>5. CASE to <= Len(w)
      BY <2>3, <3>1, <3>2, <3>3, <3>5 DEF LongByHand, to
    <3> QED
      BY <3>3, <3>4, <3>5
  <2>5. CASE ~LongWord(w)
    <3>1. MatchedArgument(w) = <<>>
      BY <2>1, <2>5 DEF MatchedArgument
    <3>2. ~ (to > 4 /\ (to <= Len(w) => w[to] = "="))
      BY <1>2, <2>5, LongWordIs
    <3> HIDE DEF to
    <3>3. to - 3 > 1 => to <= Len(w) /\ ~ (to > Len(w)) /\ w[to] # "="
      BY <1>1, <2>2, <3>2
    <3>4. LongByHand(w) = <<>>
      BY <3>3 DEF LongByHand, to
    <3> QED
      BY <2>3, <3>1, <3>4
  <2> QED
    BY <2>4, <2>5
<1>3. CASE ~ (Len(w) > 1 /\ w[1] = Dash /\ w[2] = Dash)
  <2>1. ~LongWord(w)
    <3>1. LongWord(w) => NameEnd(w) > 4 /\ w[1] = Dash /\ w[2] = Dash
      BY DEF LongWord
    <3> QED
      BY <1>1, <1>3, <3>1, NameEndIs
  <2>2. ShortWord(w) <=> /\ w # <<>> /\ w[1] = Dash /\ (Len(w) = 1 \/ w[2] # Dash)
                         /\ Len(w) > 1 /\ \A k \in 2 .. Len(w) : Alnum(w[k])
    <3>1. ShortWord(w) => Alnum(w[2]) /\ w # <<>> /\ w[2] # Dash
      BY <1>1 DEF ShortWord
    <3> QED
      BY <3>1 DEF ShortWord
  <2>3. MatchedArgument(w) = IF ShortWord(w) THEN <<<<Tail(w), <<>>>>>> ELSE <<>>
    BY <2>1 DEF MatchedArgument
  <2>4. ArgumentByHand(w) = IF w # <<>> /\ w[1] = Dash /\ (Len(w) = 1 \/ w[2] # Dash) THEN GroupByHand(w) ELSE <<>>
    BY <1>3 DEF ArgumentByHand
  <2> QED
    BY <2>2, <2>3, <2>4 DEF GroupByHand
<1> QED
  BY <1>2, <1>3

LEMMA LongStartIs ==
  ASSUME NEW text \in Seq(STRING)
  PROVE  LongStart(text) \in 1 .. Len(text) + 1
<1> DEFINE first == 2 * Len(ShortSwitch(text)) + 1
           S == {k \in 1 .. Len(text) : text[k] # " "}
<1>1. Len(text) \in Nat
  OBVIOUS
<1>2. first \in 1 .. Len(text) + 1
  <2>1. CASE Len(text) > 1 /\ Alnum(text[1]) /\ text[2] = ","
    <3>1. Len(ShortSwitch(text)) = 1
      BY <2>1 DEF ShortSwitch
    <3>2. first = 3
      BY <3>1
    <3> HIDE DEF first
    <3>3. \A m \in Nat : m > 1 => 3 \in 1 .. m + 1
      OBVIOUS
    <3> QED
      BY <1>1, <2>1, <3>2, <3>3
  <2>2. CASE ~ (Len(text) > 1 /\ Alnum(text[1]) /\ text[2] = ",")
    <3>1. Len(ShortSwitch(text)) = 0
      BY <2>2 DEF ShortSwitch
    <3> QED
      BY <1>1, <3>1
  <2> QED
    BY <2>1, <2>2
<1>3. PICK k \in first .. Len(text) + 1 : (k <= Len(text) => k \in S) /\ \A j \in first .. k - 1 : j \notin S
  <2> HIDE DEF S, first
  <2> QED
    BY <1>1, <1>2, FirstPlace
<1>4. (k <= Len(text) => text[k] # " ") /\ \A j \in first .. k - 1 : text[j] = " "
  <2>1. \A j \in first .. k - 1 : j \in 1 .. Len(text)
    BY <1>1, <1>2
  <2> QED
    BY <1>3, <2>1
<1>5. LongStart(text) \in first .. Len(text) + 1
  BY <1>4 DEF LongStart
<1> HIDE DEF first
<1> QED
  BY <1>1, <1>2, <1>5

LEMMA SpecifiersAgree ==
  ASSUME NEW text \in Seq(STRING), IsSpecifier(text)
  PROVE  SwitchByHand(text) = MatchedSwitch(text)
<1> DEFINE n    == Len(text)
           from == LongStart(text)
           long == LongSwitch(text)
<1>1. n \in Nat /\ from \in 1 .. n + 1
  BY LongStartIs
<1>2. long = SubSeq(text, from, n)
  BY DEF LongSwitch
<1> HIDE DEF from
<1>3. DOMAIN long = 1 .. n - from + 1 /\ \A k \in 1 .. n - from + 1 : long[k] = text[from + k - 1]
  BY <1>1, <1>2
<1>4. ASSUME NEW j \in from .. n PROVE InName(text, from, j)
  <2>1. j - from + 1 \in 1 .. n - from + 1 /\ from + (j - from + 1) - 1 = j
    BY <1>1
  <2>2. Alnum(long[j - from + 1]) \/ (j - from + 1 > 1 /\ long[j - from + 1] \in {"_", Dash})
    BY <1>3, <2>1 DEF IsSpecifier
  <2>3. long[j - from + 1] = text[j]
    BY <1>3, <2>1
  <2>4. j - from + 1 > 1 => j > from
    BY <1>1
  <2> QED
    BY <2>2, <2>3, <2>4 DEF InName
<1>5. Stops(text, from, n + 1)
  BY <1>1, <1>4 DEF Stops
<1>6. NameStop(text, from) = n + 1
  BY <1>1, <1>5, NameStopIs
<1>7. SwitchByHand(text) = <<<<ShortSwitch(text), SubSeq(text, from, n)>>>>
  BY <1>1, <1>6 DEF SwitchByHand, from
<1> QED
  BY <1>2, <1>7 DEF MatchedSwitch

LEMMA IntegersAgree ==
  ASSUME NEW bits \in Nat \ {0}, NEW signed \in BOOLEAN, NEW text \in Seq(STRING)
  PROVE  IntegerByHand(bits, signed, text) = integer_parser(bits, signed, text)
<1> DEFINE u == Unsigned(text)
<1>1. u \in Seq(STRING) /\ Len(u) \in Nat
  <2>1. text # <<>> => Tail(text) \in Seq(STRING)
    OBVIOUS
  <2>2. u \in Seq(STRING)
    BY <2>1 DEF Unsigned, Negative
  <2> HIDE DEF u
  <2> QED
    BY <2>2
<1>2. u = IF Negative(text) THEN Tail(text) ELSE text
  BY DEF Unsigned
<1>3. IntegerByHand(bits, signed, text) =
        Signed(bits, signed, Negative(text),
               ReadDigits(IF Len(u) > 1 /\ u[1] = "0" /\ u[2] = "x" THEN 16 ELSE 10, bits,
                          IF Len(u) > 1 /\ u[1] = "0" /\ u[2] = "x" THEN SubSeq(u, 3, Len(u)) ELSE u))
  BY <1>2 DEF IntegerByHand
<1>4. Base(text) = IF Len(u) > 2 /\ u[1] = "0" /\ u[2] = "x" THEN 16 ELSE 10
  BY DEF Base
<1>5. Numerals(text) = IF Base(text) = 16 THEN SubSeq(u, 3, Len(u)) ELSE u
  BY DEF Numerals
<1> HIDE DEF u
<1>6. CASE Len(u) = 2 /\ u[1] = "0" /\ u[2] = "x"
  <2>1. SubSeq(u, 3, Len(u)) = <<>>
    BY <1>1, <1>6
  <2>2. ReadDigits(16, bits, SubSeq(u, 3, Len(u))) = {}
    BY <2>1 DEF ReadDigits
  <2>3. Base(text) = 10 /\ Numerals(text) = u
    BY <1>1, <1>4, <1>5, <1>6
  <2>4. ReadDigits(10, bits, u) = {}
    <3>1. PICK read \in [0 .. Len(u) -> SUBSET Nat] : Reading(read, 10, bits, u) /\ ReadDigits(10, bits, u) = read[Len(u)]
      <4>1. u # <<>> /\ 10 \in {10, 16}
        BY <1>6
      <4> QED
        BY <1>1, <4>1, ReadingFacts
    <3>2. ~AllDigits(10, u)
      <4>1. DigitOf(10, "x") = {}
        BY DEF DigitOf, Digits
      <4>2. 2 \in 1 .. Len(u)
        BY <1>6
      <4> QED
        BY <1>6, <4>1, <4>2 DEF AllDigits
    <3> QED
      BY <1>1, <3>1, <3>2, OnlyDigitsAreRead
  <2>5. IntegerByHand(bits, signed, text) = Signed(bits, signed, Negative(text), {})
    <3>1. Len(u) > 1 /\ u[1] = "0" /\ u[2] = "x"
      BY <1>6
    <3> QED
      BY <1>3, <2>2, <3>1
  <2> QED
    BY <2>3, <2>4, <2>5 DEF integer_parser
<1>7. CASE ~ (Len(u) = 2 /\ u[1] = "0" /\ u[2] = "x")
  <2>1. (Len(u) > 1 /\ u[1] = "0" /\ u[2] = "x") <=> (Len(u) > 2 /\ u[1] = "0" /\ u[2] = "x")
    <3>1. \A m \in Nat : m > 1 <=> m > 2 \/ m = 2
      OBVIOUS
    <3> QED
      BY <1>1, <1>7, <3>1, Zenon
  <2> QED
    BY <1>3, <1>4, <1>5, <2>1 DEF integer_parser
<1> QED
  BY <1>6, <1>7

(* The build of cxxopts with regular expressions and the one without read  *)
(* every text as the same integer and every word as the same option.  They *)
(* differ for the bare letters t and f, and for specifiers that only one of*)
(* them accepts.                                                           *)
THEOREM BuildsAgree ==
  ASSUME NEW bits \in Nat \ {0}, NEW signed \in BOOLEAN, NEW text \in Seq(STRING)
  PROVE  /\ IntegerByHand(bits, signed, text) = integer_parser(bits, signed, text)
         /\ ArgumentByHand(text) = MatchedArgument(text)
         /\ SwitchesAgree([matched |-> MatchedSwitch(text), walked |-> SwitchByHand(text)])
         /\ BooleansAgree(text, [matched |-> boolean_parser(text), walked |-> BooleanByHand(text)])
<1>1. IntegerByHand(bits, signed, text) = integer_parser(bits, signed, text)
  BY IntegersAgree
<1>2. ArgumentByHand(text) = MatchedArgument(text)
  BY ArgumentsAgree
<1>3. MatchedSwitch(text) # <<>> => SwitchByHand(text) = MatchedSwitch(text)
  BY SpecifiersAgree DEF MatchedSwitch
<1>4. boolean_parser(text) = BooleanByHand(text) \/ text \in {<<"t">>, <<"f">>}
  <2>1. CASE text \in {<<"t", "r", "u", "e">>, <<"1">>}
    <3>1. text \notin {<<"f">>, <<"f", "a", "l", "s", "e">>, <<"0">>} /\ text \notin FalseByHand
      BY <2>1 DEF FalseByHand
    <3>2. boolean_parser(text) = <<TRUE>>
      BY <2>1, <3>1 DEF boolean_parser
    <3>3. BooleanByHand(text) = <<TRUE>>
      BY <2>1, <3>1 DEF BooleanByHand, TrueByHand
    <3> QED
      BY <3>2, <3>3
  <2>2. CASE text \in {<<"f", "a", "l", "s", "e">>, <<"0">>}
    <3>1. text \notin {<<"t">>, <<"t", "r", "u", "e">>, <<"1">>} /\ text \notin TrueByHand
      BY <2>2 DEF TrueByHand
    <3>2. boolean_parser(text) = <<FALSE>>
      BY <2>2, <3>1 DEF boolean_parser
    <3>3. BooleanByHand(text) = <<FALSE>>
      BY <2>2, <3>1 DEF BooleanByHand, FalseByHand
    <3> QED
      BY <3>2, <3>3
  <2>3. CASE text \notin {<<"t">>, <<"t", "r", "u", "e">>, <<"1">>, <<"f">>, <<"f", "a", "l", "s", "e">>, <<"0">>}
    BY <2>3 DEF boolean_parser, BooleanByHand, TrueByHand, FalseByHand
  <2> QED
    BY <2>1, <2>2, <2>3
<1> QED
  BY <1>1, <1>2, <1>3, <1>4 DEF SwitchesAgree, BooleansAgree

-----------------------------------------------------------------------------
(* The virtual machine.  First, words: weights double from bit to bit, so  *)
(* that whatever bits are set, their sum is a word.                        *)

\* The weights of the first m bits, and the sum of those of bs.
Doubling(h, m) == h = [n \in 0 .. m |-> IF n = 0 THEN 1 ELSE 2 * h[n - 1]]
Summing(h, m, bs) ==
  h = [n \in 0 .. m |-> IF n = 0 THEN 0 ELSE h[n - 1] + (IF n - 1 \in bs THEN weight[n - 1] ELSE 0)]

LEMMA DoublingExists == \A m \in Nat : \E h : Doubling(h, m)
<1> DEFINE S == {m \in Nat : \E h : Doubling(h, m)}
<1>1. 0 \in S
  <2>1. Doubling([n \in 0 .. 0 |-> 1], 0)
    BY DEF Doubling
  <2> QED
    BY <2>1
<1>2. ASSUME NEW m \in Nat, m \in S PROVE m + 1 \in S
  <2>1. PICK h : Doubling(h, m)
    BY <1>2
  <2> DEFINE g == [n \in 0 .. m + 1 |-> IF n = m + 1 THEN 2 * h[m] ELSE h[n]]
  <2>2. ASSUME NEW n \in 0 .. m + 1 PROVE g[n] = IF n = 0 THEN 1 ELSE 2 * g[n - 1]
    <3>1. CASE n = m + 1
      <4>1. n # 0 /\ n - 1 = m /\ m \in 0 .. m + 1 /\ m # m + 1
        BY <3>1
      <4> QED
        BY <4>1, <3>1
    <3>2. CASE n \in 0 .. m
      <4>1. g[n] = h[n]
        BY <3>2
      <4>2. h[n] = IF n = 0 THEN 1 ELSE 2 * h[n - 1]
        BY <2>1, <3>2 DEF Doubling
      <4>3. n # 0 => g[n - 1] = h[n - 1]
        BY <3>2
      <4> QED
        BY <4>1, <4>2, <4>3
    <3> QED
      BY <3>1, <3>2
  <2>3. g = [n \in 0 .. m + 1 |-> g[n]]
    OBVIOUS
  <2> HIDE DEF g
  <2>4. Doubling(g, m + 1)
    BY <2>2, <2>3 DEF Doubling
  <2> QED
    BY <2>4
<1>3. Nat \subseteq S
  <2> HIDE DEF S
  <2> QED
    BY <1>1, <1>2, Induction
<1> QED
  BY <1>3

LEMMA WidthFacts == /\ WordBits \in Nat /\ WordBits - 1 \in Nat
                    /\ OptionalBits \in 0 .. WordBits /\ WordBits - 1 \in 0 .. WordBits
BY WidthAssumption DEF WordBits

\* The definition of the weights has a solution.
LEMMA WeightsDouble == Doubling(weight, WordBits)
<1>1. \E h : Doubling(h, WordBits)
  BY DoublingExists, WidthFacts
<1>2. weight = CHOOSE h : Doubling(h, WordBits)
  BY DEF weight, Doubling
<1> QED
  BY <1>1, <1>2

LEMMA WeightFacts ==
  /\ \A n \in 0 .. WordBits : weight[n] \in Nat \ {0}
  /\ weight[0] = 1
  /\ \A n \in 0 .. WordBits : n # 0 => weight[n] = 2 * weight[n - 1]
<1>1. ASSUME NEW n \in 0 .. WordBits PROVE weight[n] = IF n = 0 THEN 1 ELSE 2 * weight[n - 1]
  BY WeightsDouble DEF Doubling
<1> DEFINE S == {n \in Nat : n \in 0 .. WordBits => weight[n] \in Nat \ {0}}
<1>2. 0 \in S
  BY <1>1
<1>3. ASSUME NEW n \in Nat, n \in S PROVE n + 1 \in S
  <2>1. SUFFICES ASSUME n + 1 \in 0 .. WordBits PROVE weight[n + 1] \in Nat \ {0}
    OBVIOUS
  <2>2. n \in 0 .. WordBits /\ n + 1 # 0 /\ (n + 1) - 1 = n
    BY <2>1, WidthFacts
  <2>3. weight[n + 1] = 2 * weight[n]
    BY <1>1, <2>1, <2>2
  <2>4. weight[n] \in Nat \ {0}
    BY <1>3, <2>2
  <2> QED
    BY <2>3, <2>4
<1>4. Nat \subseteq S
  <2> HIDE DEF S
  <2> QED
    BY <1>2, <1>3, Induction
<1>5. \A n \in 0 .. WordBits : weight[n] \in Nat \ {0}
  BY <1>4
<1> QED
  BY <1>1, <1>5, WidthFacts

\* A weight is at least as large as those before it.
LEMMA WeightsGrow == \A n \in 0 .. WordBits : \A k \in 0 .. n : weight[k] <= weight[n]
<1> DEFINE S == {n \in Nat : n \in 0 .. WordBits => \A k \in 0 .. n : weight[k] <= weight[n]}
<1>1. 0 \in S
  BY WeightFacts
<1>2. ASSUME NEW n \in Nat, n \in S PROVE n + 1 \in S
  <2>1. SUFFICES ASSUME n + 1 \in 0 .. WordBits, NEW k \in 0 .. n + 1 PROVE weight[k] <= weight[n + 1]
    OBVIOUS
  <2>2. n \in 0 .. WordBits /\ n + 1 # 0 /\ (n + 1) - 1 = n
    BY <2>1, WidthFacts
  <2>3. weight[n + 1] = 2 * weight[n] /\ weight[n] \in Nat /\ weight[n + 1] \in Nat
    BY <2>1, <2>2, WeightFacts
  <2>4. CASE k = n + 1
    BY <2>3, <2>4
  <2>5. CASE k \in 0 .. n
    <3>1. weight[k] <= weight[n]
      BY <1>2, <2>2, <2>5
    <3>2. k \in 0 .. WordBits
      BY <2>2, <2>5, WidthFacts
    <3>3. weight[k] \in Nat
      BY <3>2, WeightFacts
    <3> QED
      BY <3>1, <3>3, <2>3
  <2> QED
    BY <2>4, <2>5
<1>3. Nat \subseteq S
  <2> HIDE DEF S
  <2> QED
    BY <1>1, <1>2, Induction
<1> QED
  BY <1>3, WidthFacts

LEMMA WordFacts ==
  /\ WordValues \in Nat /\ SignBit \in Nat /\ OptionalValues \in Nat \ {0}
  /\ WordValues = 2 * SignBit /\ SignBit >= 1 /\ OptionalValues <= SignBit /\ SignBit >= 128
<1>1. WordBits # 0 /\ WordBits \in 0 .. WordBits /\ OptionalBits \in 0 .. WordBits - 1
  BY WidthAssumption DEF WordBits
<1>2. WordValues \in Nat /\ SignBit \in Nat \ {0} /\ OptionalValues \in Nat \ {0} /\ WordValues = 2 * SignBit
  BY <1>1, WidthFacts, WeightFacts DEF WordValues, SignBit, OptionalValues
<1>3. OptionalValues <= SignBit
  BY <1>1, WidthFacts, WeightsGrow DEF SignBit, OptionalValues
<1>4. weight[7] <= SignBit
  BY WidthAssumption, WidthFacts, WeightsGrow DEF SignBit, WordBits
<1>5. weight[7] = 128
  <2>1. \A n \in 0 .. 7 : n \in 0 .. WordBits
    BY WidthAssumption DEF WordBits
  <2>2. /\ weight[1] = 2 * weight[0] /\ weight[2] = 2 * weight[1] /\ weight[3] = 2 * weight[2]
        /\ weight[4] = 2 * weight[3] /\ weight[5] = 2 * weight[4] /\ weight[6] = 2 * weight[5]
        /\ weight[7] = 2 * weight[6]
    BY <2>1, WeightFacts
  <2> QED
    BY <2>2, WeightFacts
<1> QED
  BY <1>2, <1>3, <1>4, <1>5

LEMMA SummingExists == ASSUME NEW bs PROVE \A m \in Nat : \E h : Summing(h, m, bs)
<1> DEFINE S == {m \in Nat : \E h : Summing(h, m, bs)}
           add(n) == IF n - 1 \in bs THEN weight[n - 1] ELSE 0
<1>1. 0 \in S
  <2>1. Summing([n \in 0 .. 0 |-> 0], 0, bs)
    BY DEF Summing
  <2> QED
    BY <2>1
<1>2. ASSUME NEW m \in Nat, m \in S PROVE m + 1 \in S
  <2>1. PICK h : Summing(h, m, bs)
    BY <1>2
  <2> DEFINE g == [n \in 0 .. m + 1 |-> IF n = m + 1 THEN h[m] + add(m + 1) ELSE h[n]]
  <2>2. ASSUME NEW n \in 0 .. m + 1 PROVE g[n] = IF n = 0 THEN 0 ELSE g[n - 1] + add(n)
    <3>1. CASE n = m + 1
      <4>1. n # 0 /\ n - 1 = m /\ m \in 0 .. m + 1 /\ m # m + 1
        BY <3>1
      <4>2. g[n] = h[m] + add(m + 1) /\ g[n - 1] = h[m]
        BY <4>1, <3>1
      <4> QED
        BY <4>1, <4>2, <3>1
    <3>2. CASE n \in 0 .. m
      <4>1. g[n] = h[n]
        BY <3>2
      <4>2. h[n] = IF n = 0 THEN 0 ELSE h[n - 1] + add(n)
        BY <2>1, <3>2 DEF Summing
      <4>3. n # 0 => g[n - 1] = h[n - 1]
        BY <3>2
      <4> QED
        BY <4>1, <4>2, <4>3
    <3> QED
      BY <3>1, <3>2
  <2>3. g = [n \in 0 .. m + 1 |-> g[n]]
    OBVIOUS
  <2> HIDE DEF g
  <2>4. Summing(g, m + 1, bs)
    BY <2>2, <2>3 DEF Summing
  <2> QED
    BY <2>4
<1>3. Nat \subseteq S
  <2> HIDE DEF S
  <2> QED
    BY <1>1, <1>2, Induction
<1> QED
  BY <1>3

\* Any bits make a word.
LEMMA BitsMakeWord == ASSUME NEW bs PROVE FromBits(bs) \in Cell
<1> DEFINE sum == CHOOSE h : Summing(h, WordBits, bs)
<1>1. FromBits(bs) = sum[WordBits]
  BY DEF FromBits, Summing
<1>2. Summing(sum, WordBits, bs)
  BY SummingExists, WidthFacts
<1> HIDE DEF sum
<1>3. ASSUME NEW n \in 0 .. WordBits
      PROVE  sum[n] = IF n = 0 THEN 0 ELSE sum[n - 1] + (IF n - 1 \in bs THEN weight[n - 1] ELSE 0)
  BY <1>2 DEF Summing
<1> DEFINE S == {n \in Nat : n \in 0 .. WordBits => sum[n] \in Nat /\ sum[n] < weight[n]}
<1>4. 0 \in S
  BY <1>3, WeightFacts
<1>5. ASSUME NEW n \in Nat, n \in S PROVE n + 1 \in S
  <2>1. SUFFICES ASSUME n + 1 \in 0 .. WordBits PROVE sum[n + 1] \in Nat /\ sum[n + 1] < weight[n + 1]
    OBVIOUS
  <2>2. n \in 0 .. WordBits /\ n + 1 # 0 /\ (n + 1) - 1 = n
    BY <2>1, WidthFacts
  <2>3. weight[n + 1] = 2 * weight[n] /\ weight[n] \in Nat
    BY <2>1, <2>2, WeightFacts
  <2>4. sum[n + 1] = sum[n] + (IF n \in bs THEN weight[n] ELSE 0)
    BY <1>3, <2>1, <2>2
  <2>5. sum[n] \in Nat /\ sum[n] < weight[n]
    BY <1>5, <2>2
  <2> QED
    BY <2>3, <2>4, <2>5
<1>6. Nat \subseteq S
  <2> HIDE DEF S
  <2> QED
    BY <1>4, <1>5, Induction
<1>7. sum[WordBits] \in Nat /\ sum[WordBits] < weight[WordBits]
  BY <1>6, WidthFacts
<1> QED
  BY <1>1, <1>7, WordFacts DEF Cell, WordValues

\* What a word stands for, and what of it is a word again.
LEMMA CellFacts ==
  /\ \A w \in Cell : w \in Nat /\ int32_t(w) \in Int /\ Optional(w) \in Cell
  /\ \A n \in Int : ToWord(n) \in Cell
  /\ \A n \in Nat : n < WordValues => ToWord(n) = n /\ n \in Cell
  /\ \A b : Truth(b) \in Cell
  /\ 0 .. 255 \subseteq Cell
<1>1. \A n \in Int, m \in Nat \ {0} : n % m \in Nat /\ n % m < m
  OBVIOUS
<1>2. \A n, m \in Nat : n < m => n % m = n
  OBVIOUS
<1>3. ASSUME NEW w \in Cell PROVE w \in Nat /\ int32_t(w) \in Int /\ Optional(w) \in Cell
  <2>1. w \in Nat
    BY WordFacts DEF Cell
  <2>2. Optional(w) \in Nat /\ Optional(w) < OptionalValues
    BY <2>1, <1>1, WordFacts DEF Optional
  <2>3. Optional(w) \in Cell
    BY <2>2, WordFacts DEF Cell
  <2>4. int32_t(w) \in Int
    BY <2>1, WordFacts DEF int32_t
  <2> QED
    BY <2>1, <2>3, <2>4
<1>4. ASSUME NEW n \in Int PROVE ToWord(n) \in Cell
  <2>1. ToWord(n) \in Nat /\ ToWord(n) < WordValues
    BY <1>1, WordFacts DEF ToWord
  <2> QED
    BY <2>1, WordFacts DEF Cell
<1>5. ASSUME NEW n \in Nat, n < WordValues PROVE ToWord(n) = n /\ n \in Cell
  BY <1>2, <1>5, WordFacts DEF ToWord, Cell
<1>6. \A b : Truth(b) \in Cell
  BY WordFacts DEF Truth, Cell
<1>7. 0 .. 255 \subseteq Cell
  BY WordFacts DEF Cell
<1> QED
  BY <1>3, <1>4, <1>5, <1>6, <1>7

\* The quotient of a division that does not trap.
LEMMA QuotientFacts ==
  ASSUME NEW m \in Int, NEW n \in Int, n # 0
  PROVE  Quotient(m, n) \in Int
<1>1. \A x \in Nat, y \in Nat \ {0} : x \div y \in Int
  OBVIOUS
<1>2. PICK x \in Nat : x = IF m < 0 THEN -m ELSE m
  OBVIOUS
<1>3. PICK y \in Nat \ {0} : y = IF n < 0 THEN -n ELSE n
  OBVIOUS
<1>4. x \div y \in Int
  BY <1>1
<1>5. Quotient(m, n) = IF (m < 0) = (n < 0) THEN x \div y ELSE -(x \div y)
  BY <1>2, <1>3 DEF Quotient
<1> QED
  BY <1>4, <1>5

\* Whatever binary() computes is a word.
LEMMA ResultsAreWords ==
  ASSUME NEW w, NEW a \in Cell, NEW b \in Cell, IsBinary(w), ~Traps(w, a, b)
  PROVE  Results(w, a, b, Unassigned) \subseteq Cell
<1>1. int32_t(a) \in Int /\ int32_t(b) \in Int
  BY CellFacts
<1>2. Opcode(w) = BINARY_OP.DIV => int32_t(b) # 0
  BY WordFacts DEF Traps, int32_t, Cell
<1>3. Opcode(w) = BINARY_OP.DIV => Quotient(int32_t(a), int32_t(b)) \in Int
  BY <1>1, <1>2, QuotientFacts
<1>4. /\ ToWord(int32_t(a) + int32_t(b)) \in Cell /\ ToWord(int32_t(a) - int32_t(b)) \in Cell
      /\ ToWord(int32_t(a) * int32_t(b)) \in Cell
      /\ Opcode(w) = BINARY_OP.DIV => ToWord(Quotient(int32_t(a), int32_t(b))) \in Cell
  BY <1>1, <1>3, CellFacts
<1>5. /\ FromBits(Bits(a) \cap Bits(b)) \in Cell /\ FromBits(Bits(a) \cup Bits(b)) \in Cell
      /\ FromBits((Bits(a) \ Bits(b)) \cup (Bits(b) \ Bits(a))) \in Cell
  BY BitsMakeWord
<1>6. Truth(a = b) \in Cell /\ Truth(int32_t(a) < int32_t(b)) \in Cell
  BY CellFacts
<1>7. Unassigned \subseteq Cell
  BY ProgramsAssumption
<1> QED
  BY <1>4, <1>5, <1>6, <1>7 DEF Results

-----------------------------------------------------------------------------
\* An instruction is one of the known ones, or unknown; this is how many
\* words it takes off the stack and whether it puts one there.
LEMMA Decoding ==
  ASSUME NEW w
  PROVE  /\ IsUnary(w, "POP") \/ IsUnary(w, "HALT") => Gets(w) = 0 /\ ~Puts(w)
         /\ IsUnary(w, "PUSH_CONST") \/ IsUnary(w, "PUSH_IP") \/ IsUnary(w, "PUSH_SP") \/ IsUnary(w, "GETC")
              => Gets(w) = 0 /\ Puts(w)
         /\ IsUnary(w, "LOAD") \/ IsUnary(w, "NOT") => Gets(w) = 1 /\ Puts(w)
         /\ IsUnary(w, "PUTC") => Gets(w) = 1 /\ ~Puts(w)
         /\ IsUnary(w, "STORE") \/ IsUnary(w, "JMP") => Gets(w) = 2 /\ ~Puts(w)
         /\ IsBinary(w) => Gets(w) = 2 /\ Puts(w)
BY DEF IsUnary, IsBinary, UNARY_OP, Gets, Puts

\* The cells that an instruction accesses are there.
LEMMA Operands ==
  ASSUME Accessed(instr) \subseteq Addresses, VMTypeOK
  PROVE  /\ Gets(instr) \in 0 .. 2
         /\ \A n \in 1 .. Gets(instr) : sp_ + n - 1 \in Addresses /\ Operand(n) \in Cell
         /\ Puts(instr) => sp_ + Gets(instr) - 1 \in Addresses
         /\ IsUnary(instr, "LOAD") => int32_t(Operand(1)) \in Addresses
         /\ IsUnary(instr, "STORE") => int32_t(Operand(2)) \in Addresses
<1>1. Gets(instr) \in 0 .. 2
  BY DEF Gets
<1> DEFINE stack == (sp_ .. sp_ + Gets(instr) - 1) \cup
                    (IF Puts(instr) THEN {sp_ + Gets(instr) - 1} ELSE {})
<1>2. stack \subseteq Addresses
  BY DEF Accessed
<1>3. \A n \in 1 .. Gets(instr) : sp_ + n - 1 \in Addresses
  BY <1>1, <1>2 DEF VMTypeOK
<1>4. \A n \in 1 .. Gets(instr) : Operand(n) \in Cell
  BY <1>3 DEF Operand, VMTypeOK
<1>5. Puts(instr) => sp_ + Gets(instr) - 1 \in Addresses
  BY <1>2
<1>6. /\ IsUnary(instr, "LOAD") => int32_t(Operand(1)) \in Addresses
      /\ IsUnary(instr, "STORE") => int32_t(Operand(2)) \in Addresses
  BY <1>2 DEF Accessed
<1> QED
  BY <1>1, <1>3, <1>4, <1>5, <1>6

\* An address that data_ has is the word that holds it.
LEMMA AddressFacts ==
  ASSUME NEW w \in Cell, int32_t(w) \in Addresses
  PROVE  w \in Addresses /\ int32_t(w) = w
BY WordFacts, ProgramsAssumption DEF int32_t, Cell, Addresses

(* Every step keeps the types.                                             *)
LEMMA VMInitTypes == VMInit => VMTypeOK
BY ProgramsAssumption, WordFacts, CellFacts DEF VMInit, VMTypeOK

\* f() at an address that is there.
LEMMA Replaced ==
  ASSUME VMTypeOK, NEW n \in 0 .. 2, NEW v \in Cell, sp_ + n - 1 \in Addresses, Replace(n, v)
  PROVE  data_' \in [Addresses -> Cell] /\ sp_' \in Nat
BY DEF VMTypeOK, Replace, Addresses

LEMMA VMNextTypes == VMTypeOK /\ [VMNext]_vmVars => VMTypeOK'
<1> SUFFICES ASSUME VMTypeOK, [VMNext]_vmVars PROVE VMTypeOK'
  OBVIOUS
<1> USE DEF Quiet
<1>1. ASSUME Executing
      PROVE  /\ steps' \in 0 .. MaxSteps /\ ip_ \in Addresses /\ ip_ + 1 \in Cell
             /\ instr \in Cell /\ Accessed(instr) \subseteq Addresses
  <2>1. steps' \in 0 .. MaxSteps /\ ip_ \in Addresses /\ Accessed(instr) \subseteq Addresses
    BY <1>1, ProgramsAssumption DEF Executing, VMTypeOK
  <2>2. ip_ + 1 \in Nat /\ ip_ + 1 < WordValues
    BY <2>1, ProgramsAssumption, WordFacts DEF Addresses
  <2> QED
    BY <2>1, <2>2, CellFacts DEF instr, VMTypeOK
\* An instruction that calls f() after some calls of g(), and no other.
<1>2. ASSUME Executing, Puts(instr), NEW v \in Cell, Replace(Gets(instr), v), ip_' = ip_ + 1, Quiet
      PROVE  VMTypeOK'
  <2>1. Gets(instr) \in 0 .. 2 /\ sp_ + Gets(instr) - 1 \in Addresses
    BY <1>1, <1>2, Operands
  <2>2. data_' \in [Addresses -> Cell] /\ sp_' \in Nat
    BY <1>2, <2>1, Replaced
  <2> QED
    BY <1>1, <1>2, <2>2 DEF VMTypeOK
<1>3. CASE UNCHANGED vmVars
  BY <1>3 DEF vmVars, VMTypeOK
<1>4. CASE Load
  <2>1. ASSUME Len(image) <= DataSize, data_' = [a \in Addresses |-> IF a < Len(image) THEN image[a + 1] ELSE 0]
        PROVE  data_' \in [Addresses -> Cell]
    <3>1. image \in Seq(Cell) /\ Len(image) \in Nat
      BY ProgramsAssumption DEF VMTypeOK
    <3>2. \A a \in Addresses : a < Len(image) => image[a + 1] \in Cell
      BY <3>1 DEF Addresses
    <3>3. 0 \in Cell
      BY CellFacts, WordFacts
    <3> QED
      BY <2>1, <3>2, <3>3
  <2> QED
    BY <1>4, <2>1 DEF Load, VMTypeOK
<1>5. CASE Pop
  BY <1>1, <1>5 DEF Pop, VMTypeOK
<1>6. CASE PushConst
  BY <1>1, <1>2, <1>6, Decoding, CellFacts DEF PushConst
<1>7. CASE PushIp
  BY <1>1, <1>2, <1>7, Decoding DEF PushIp
<1>8. CASE PushSp
  <2>1. ToWord(sp_) \in Cell
    BY CellFacts DEF VMTypeOK
  <2> QED
    BY <1>2, <1>8, <2>1, Decoding DEF PushSp
<1>9. CASE LoadWord
  <2>1. Gets(instr) = 1 /\ Puts(instr) /\ Operand(1) \in Cell /\ int32_t(Operand(1)) \in Addresses
    BY <1>1, <1>9, Decoding, Operands DEF LoadWord
  <2>2. data_[Operand(1)] \in Cell
    BY <2>1, AddressFacts DEF VMTypeOK
  <2> QED
    BY <1>2, <1>9, <2>1, <2>2 DEF LoadWord
<1>10. CASE Store
  <2>1. Gets(instr) = 2 /\ Operand(1) \in Cell
    BY <1>1, <1>10, Decoding, Operands DEF Store
  <2>2. data_' = [data_ EXCEPT ![Operand(2)] = Operand(1)] /\ sp_' = sp_ + 2 /\ ip_' = ip_ + 1
    BY <1>10 DEF Store
  <2>3. data_' \in [Addresses -> Cell]
    BY <2>1, <2>2 DEF VMTypeOK
  <2>4. UNCHANGED <<image, out, status>>
    BY <1>10 DEF Store
  <2> QED
    BY <1>1, <1>10, <2>2, <2>3, <2>4 DEF Store, VMTypeOK
<1>11. CASE Jump
  <2>1. Gets(instr) = 2 /\ Operand(2) \in Cell
    BY <1>1, <1>11, Decoding, Operands DEF Jump
  <2>2. ip_' \in Int
    BY <1>11, <2>1, CellFacts DEF Jump, VMTypeOK
  <2> QED
    BY <1>1, <1>11, <2>2 DEF Jump, VMTypeOK
<1>12. CASE Not
  BY <1>2, <1>12, Decoding, CellFacts DEF Not
<1>13. CASE Putc
  <2>1. Gets(instr) = 1 /\ Operand(1) \in Cell
    BY <1>1, <1>13, Decoding, Operands DEF Putc
  <2>2. \A n \in Nat : n % 256 \in 0 .. 255
    OBVIOUS
  <2>3. PICK c \in 0 .. 255 : c = Operand(1) % 256
    BY <2>1, <2>2, CellFacts
  <2>4. out' = Append(out, c) /\ out \in Seq(0 .. 255)
    BY <1>13, <2>3 DEF Putc, VMTypeOK
  <2>5. out' \in Seq(0 .. 255)
    BY <2>4, AppendProperties
  <2> QED
    BY <1>1, <1>13, <2>5 DEF Putc, VMTypeOK
<1>14. CASE Getc
  <2>1. PICK c \in Bytes : Replace(0, c)
    BY <1>14 DEF Getc
  <2>2. c \in Cell
    BY CellFacts, ProgramsAssumption
  <2> QED
    BY <1>2, <1>14, <2>1, <2>2, Decoding DEF Getc
<1>15. CASE Halt
  BY <1>1, <1>15 DEF Halt, VMTypeOK
<1>16. CASE UnknownUnary
  BY <1>1, <1>16 DEF UnknownUnary, VMTypeOK
<1>17. CASE BinaryOp
  <2>1. Gets(instr) = 2 /\ Puts(instr) /\ Operand(1) \in Cell /\ Operand(2) \in Cell
    BY <1>1, <1>17, Decoding, Operands DEF BinaryOp
  <2>2. PICK r \in Results(instr, Operand(2), Operand(1), Unassigned) : Replace(2, r)
    BY <1>17 DEF BinaryOp
  <2>3. r \in Cell
    BY <1>17, <2>1, <2>2, ResultsAreWords DEF BinaryOp
  <2> QED
    BY <1>2, <1>17, <2>1, <2>2, <2>3 DEF BinaryOp
<1>18. CASE AssertFails
  BY <1>18 DEF AssertFails, VMTypeOK
<1>19. CASE Trap
  BY <1>1, <1>19 DEF Trap, VMTypeOK
<1>20. CASE Lose
  BY <1>20 DEF Lose, VMTypeOK
<1>21. CASE VMFinished
  BY <1>3, <1>21 DEF VMFinished
<1> QED
  BY <1>3, <1>4, <1>5, <1>6, <1>7, <1>8, <1>9, <1>10, <1>11, <1>12, <1>13, <1>14, <1>15, <1>16, <1>17,
     <1>18, <1>19, <1>20, <1>21 DEF VMNext, interprete, unary

(* The machine's words, indices and output keep their types; nothing that  *)
(* binary() computes leaves the width of a word.                           *)
THEOREM VMTypesHold == VMSpec => []VMTypeOK
BY VMInitTypes, VMNextTypes, PTL DEF VMSpec

-----------------------------------------------------------------------------
(* The stack is what lies above sp_, from the end.                         *)

StackOf(d, s) == [k \in 1 .. DataSize - s |-> d[DataSize - k]]
Stack  == StackOf(data_, sp_)
Memory == [a \in 0 .. Len(image) - 1 |-> data_[a]]

LEMMA StackFacts ==
  ASSUME NEW d \in [Addresses -> Cell], NEW s \in 0 .. DataSize
  PROVE  /\ StackOf(d, s) \in Seq(Cell) /\ Len(StackOf(d, s)) = DataSize - s
         /\ \A k \in 1 .. DataSize - s : StackOf(d, s)[k] = d[DataSize - k]
         /\ \A n \in 1 .. DataSize - s : StackOf(d, s)[DataSize - s - n + 1] = d[s + n - 1]
<1>1. DataSize - s \in Nat
  BY ProgramsAssumption
<1>2. \A k \in 1 .. DataSize - s : d[DataSize - k] \in Cell
  BY ProgramsAssumption DEF Addresses
<1>3. StackOf(d, s) \in [1 .. DataSize - s -> Cell]
  BY <1>2 DEF StackOf
<1>4. \A k \in 1 .. DataSize - s : StackOf(d, s)[k] = d[DataSize - k]
  BY DEF StackOf
<1>5. \A n \in 1 .. DataSize - s : /\ DataSize - s - n + 1 \in 1 .. DataSize - s
                                  /\ DataSize - (DataSize - s - n + 1) = s + n - 1
  BY ProgramsAssumption
<1>6. StackOf(d, s) \in Seq(Cell) /\ Len(StackOf(d, s)) = DataSize - s
  BY <1>1, <1>3
<1> QED
  BY <1>4, <1>5, <1>6

\* n words are taken off.
LEMMA Popped ==
  ASSUME NEW d \in [Addresses -> Cell], NEW s \in 0 .. DataSize, NEW n \in 0 .. DataSize - s
  PROVE  SubSeq(StackOf(d, s), 1, DataSize - s - n) = StackOf(d, s + n)
<1>1. s + n \in 0 .. DataSize /\ DataSize - s - n = DataSize - (s + n) /\ DataSize - (s + n) \in 0 .. DataSize - s
  BY ProgramsAssumption
<1>2. SubSeq(StackOf(d, s), 1, DataSize - (s + n)) = [k \in 1 .. DataSize - (s + n) |-> StackOf(d, s)[k]]
  BY <1>1, StackFacts
<1>3. \A k \in 1 .. DataSize - (s + n) : k \in 1 .. DataSize - s
  BY ProgramsAssumption
<1> QED
  BY <1>1, <1>2, <1>3 DEF StackOf

\* A word is put where the stack ends.
LEMMA Pushed ==
  ASSUME NEW d \in [Addresses -> Cell], NEW s \in 1 .. DataSize, NEW v \in Cell
  PROVE  StackOf([d EXCEPT ![s - 1] = v], s - 1) = Append(StackOf(d, s), v)
<1> DEFINE l == DataSize - s
           e == [d EXCEPT ![s - 1] = v]
<1>1. l \in Nat /\ DataSize - (s - 1) = l + 1 /\ s \in 0 .. DataSize /\ s - 1 \in Addresses
  BY ProgramsAssumption DEF Addresses
<1>2. StackOf(d, s) \in Seq(Cell) /\ Len(StackOf(d, s)) = l
  BY <1>1, StackFacts
<1>3. /\ Append(StackOf(d, s), v) \in Seq(Cell) /\ Len(Append(StackOf(d, s), v)) = l + 1
      /\ \A k \in 1 .. l : Append(StackOf(d, s), v)[k] = StackOf(d, s)[k]
      /\ Append(StackOf(d, s), v)[l + 1] = v
  <2> HIDE DEF l
  <2> QED
    BY <1>2, AppendProperties
<1>4. ASSUME NEW k \in 1 .. l + 1 PROVE e[DataSize - k] = Append(StackOf(d, s), v)[k]
  <2>1. CASE k = l + 1
    <3>1. DataSize - k = s - 1
      BY <2>1, ProgramsAssumption
    <3> QED
      BY <1>1, <1>3, <2>1, <3>1
  <2>2. CASE k \in 1 .. l
    <3>1. DataSize - k \in Addresses /\ DataSize - k # s - 1
      BY <1>1, <2>2, ProgramsAssumption DEF Addresses
    <3>2. StackOf(d, s)[k] = d[DataSize - k]
      BY <1>1, <2>2, StackFacts
    <3>3. Append(StackOf(d, s), v)[k] = StackOf(d, s)[k]
      BY <1>3, <2>2
    <3> QED
      BY <3>1, <3>2, <3>3
  <2>3. k = l + 1 \/ k \in 1 .. l
    <3> HIDE DEF l
    <3> QED
      BY <1>1
  <2> QED
    BY <2>1, <2>2, <2>3
<1>5. e \in [Addresses -> Cell] /\ s - 1 \in 0 .. DataSize
  BY <1>1, ProgramsAssumption
<1>6. /\ StackOf(e, s - 1) \in Seq(Cell) /\ Len(StackOf(e, s - 1)) = l + 1
      /\ \A k \in 1 .. l + 1 : StackOf(e, s - 1)[k] = e[DataSize - k]
  <2> HIDE DEF e
  <2> QED
    BY <1>1, <1>5, StackFacts
<1> HIDE DEF e, l
<1>7. StackOf(e, s - 1) = Append(StackOf(d, s), v)
  BY <1>3, <1>4, <1>6, SeqEqual
<1> QED
  BY <1>7 DEF e

\* The machine sees the words of the program and the stack.
LEMMA MachineSees ==
  ASSUME VMTypeOK, StackApart, ip_ \in 0 .. Len(image) - 1
  PROVE  /\ Len(image) \in 0 .. DataSize /\ sp_ \in 0 .. DataSize /\ data_ \in [Addresses -> Cell]
         /\ Machine!word = instr /\ Machine!Depth = DataSize - sp_
         /\ \A n \in 1 .. DataSize - sp_ : Machine!top(n) = Operand(n)
         /\ \A n \in 0 .. DataSize - sp_ : Machine!Below(n) = StackOf(data_, sp_ + n)
<1>1. /\ Len(image) \in 0 .. DataSize /\ sp_ \in 0 .. DataSize /\ data_ \in [Addresses -> Cell]
  <2>1. image \in Seq(Cell) /\ Len(image) \in Nat
    BY ProgramsAssumption DEF VMTypeOK
  <2> QED
    BY <2>1, ProgramsAssumption DEF VMTypeOK, StackApart
<1>2. Machine!word = instr
  BY DEF Machine!word, instr
<1>3. Machine!Depth = DataSize - sp_
  BY <1>1, StackFacts DEF Machine!Depth, StackOf
<1>4. ASSUME NEW n \in 1 .. DataSize - sp_ PROVE Machine!top(n) = Operand(n)
  <2>1. Machine!top(n) = StackOf(data_, sp_)[DataSize - sp_ - n + 1]
    BY <1>3 DEF Machine!top, StackOf
  <2> QED
    BY <1>1, <2>1, StackFacts DEF Operand
<1>5. ASSUME NEW n \in 0 .. DataSize - sp_ PROVE Machine!Below(n) = StackOf(data_, sp_ + n)
  <2>1. Machine!Below(n) = SubSeq(StackOf(data_, sp_), 1, DataSize - sp_ - n)
    BY <1>3 DEF Machine!Below, StackOf
  <2> QED
    BY <1>1, <2>1, Popped
<1> QED
  BY <1>1, <1>2, <1>3, <1>4, <1>5

\* f() after n calls of g() leaves the program alone while the stack is apart.
LEMMA MachineReplaces ==
  ASSUME VMTypeOK, StackApart, StackApart', ip_ \in 0 .. Len(image) - 1, image' = image,
         NEW n \in 0 .. 2, NEW v \in Cell, sp_ + n - 1 \in Addresses, Replace(n, v)
  PROVE  Stack' = Append(StackOf(data_, sp_ + n), v) /\ Memory' = Memory
<1>1. /\ Len(image) \in 0 .. DataSize /\ sp_ \in 0 .. DataSize /\ data_ \in [Addresses -> Cell]
  BY MachineSees
<1>2. data_' = [data_ EXCEPT ![(sp_ + n) - 1] = v] /\ sp_' = (sp_ + n) - 1
  BY <1>1 DEF Replace
<1>3. sp_ + n \in 1 .. DataSize
  BY <1>1, ProgramsAssumption DEF Addresses
<1>4. StackOf(data_', sp_') = Append(StackOf(data_, sp_ + n), v)
  BY <1>1, <1>2, <1>3, Pushed
<1>5. Len(image) <= (sp_ + n) - 1
  BY <1>2 DEF StackApart
<1>6. \A a \in 0 .. Len(image) - 1 : a \in Addresses /\ a # (sp_ + n) - 1
  BY <1>1, <1>3, <1>5, ProgramsAssumption DEF Addresses
<1>7. \A a \in 0 .. Len(image) - 1 : data_'[a] = data_[a]
  BY <1>1, <1>2, <1>6
<1> QED
  BY <1>4, <1>7 DEF Stack, Memory

\* Taking n words off, without a write.
LEMMA MachinePops ==
  ASSUME VMTypeOK, StackApart, StackApart', ip_ \in 0 .. Len(image) - 1, image' = image,
         NEW n \in 0 .. 2, sp_' = sp_ + n
  PROVE  Machine!Has(n) /\ Machine!Below(n) = StackOf(data_, sp_ + n) /\ (data_' = data_ => Stack' = Machine!Below(n))
<1>1. sp_ \in 0 .. DataSize /\ sp_ + n <= DataSize
  BY MachineSees DEF StackApart
<1>2. n \in 0 .. DataSize - sp_
  BY <1>1, ProgramsAssumption
<1>3. Machine!Has(n)
  BY <1>2, MachineSees DEF Machine!Has
<1>4. Machine!Below(n) = StackOf(data_, sp_ + n)
  BY <1>2, MachineSees
<1> QED
  BY <1>3, <1>4 DEF Stack

\* Words mean the same to both.
LEMMA SameWords ==
  /\ Machine!Cell = Cell
  /\ \A w, name : Machine!IsUnary(w, name) <=> IsUnary(w, name)
  /\ \A w : (Machine!IsBinary(w) <=> IsBinary(w)) /\ (Machine!Known(w) <=> Known(w))
  /\ \A w : Machine!Optional(w) = Optional(w) /\ Machine!int32_t(w) = int32_t(w)
  /\ \A b : Machine!Truth(b) = Truth(b)
  /\ \A w, a, b : Machine!Traps(w, a, b) <=> Traps(w, a, b)
  /\ \A w, a, b, c : Machine!Results(w, a, b, c) = Results(w, a, b, c)
<1>1. Machine!weight = weight /\ Machine!WordBits = WordBits
  BY DEF Machine!weight, weight, Machine!WordBits, WordBits
<1>2. /\ Machine!WordValues = WordValues /\ Machine!SignBit = SignBit /\ Machine!OptionalValues = OptionalValues
      /\ Machine!UNARY_OP = UNARY_OP /\ Machine!BINARY_OP = BINARY_OP
  BY <1>1 DEF Machine!WordValues, WordValues, Machine!SignBit, SignBit, Machine!OptionalValues, OptionalValues,
     Machine!UNARY_OP, UNARY_OP, Machine!BINARY_OP, BINARY_OP
<1>3. Machine!Cell = Cell
  BY <1>2 DEF Machine!Cell, Cell
<1>4. /\ \A w : /\ Machine!Optional(w) = Optional(w) /\ Machine!int32_t(w) = int32_t(w)
              /\ Machine!ToWord(w) = ToWord(w) /\ Machine!Truth(w) = Truth(w)
              /\ Machine!Opcode(w) = Opcode(w) /\ Machine!BinopFlag(w) = BinopFlag(w)
              /\ Machine!Bits(w) = Bits(w)
  BY <1>1, <1>2 DEF Machine!Optional, Optional, Machine!int32_t, int32_t, Machine!ToWord, ToWord, Machine!Truth, Truth,
     Machine!Opcode, Opcode, Machine!BinopFlag, BinopFlag, Machine!Bits, Bits
<1>5. \A w, name : Machine!IsUnary(w, name) <=> IsUnary(w, name)
  BY <1>2, <1>4 DEF Machine!IsUnary, IsUnary
<1>6. \A w : (Machine!IsBinary(w) <=> IsBinary(w)) /\ (Machine!Known(w) <=> Known(w))
  BY <1>2, <1>4, <1>5 DEF Machine!IsBinary, IsBinary, Machine!Known, Known
<1>7. \A w, a, b : Machine!Traps(w, a, b) <=> Traps(w, a, b)
  BY <1>2, <1>4, <1>6 DEF Machine!Traps, Traps
<1>8. \A bs : Machine!FromBits(bs) = FromBits(bs)
  BY <1>1 DEF Machine!FromBits, FromBits
<1>9. \A m, n : Machine!Quotient(m, n) = Quotient(m, n)
  BY DEF Machine!Quotient, Quotient
<1>10. ASSUME NEW w, NEW a, NEW b, NEW c PROVE Machine!Results(w, a, b, c) = Results(w, a, b, c)
  <2>1. Machine!Truth(a = b) = Truth(a = b)
    BY DEF Machine!Truth, Truth
  <2>2. Machine!Truth(Machine!int32_t(a) < Machine!int32_t(b)) = Truth(int32_t(a) < int32_t(b))
    BY <1>4 DEF Machine!Truth, Truth
  <2>3. /\ Machine!ToWord(Machine!int32_t(a) + Machine!int32_t(b)) = ToWord(int32_t(a) + int32_t(b))
        /\ Machine!ToWord(Machine!int32_t(a) - Machine!int32_t(b)) = ToWord(int32_t(a) - int32_t(b))
        /\ Machine!ToWord(Machine!int32_t(a) * Machine!int32_t(b)) = ToWord(int32_t(a) * int32_t(b))
        /\ Machine!ToWord(Machine!Quotient(Machine!int32_t(a), Machine!int32_t(b)))
             = ToWord(Quotient(int32_t(a), int32_t(b)))
    BY <1>4, <1>9
  <2>4. /\ Machine!FromBits(Machine!Bits(a) \cap Machine!Bits(b)) = FromBits(Bits(a) \cap Bits(b))
        /\ Machine!FromBits(Machine!Bits(a) \cup Machine!Bits(b)) = FromBits(Bits(a) \cup Bits(b))
        /\ Machine!FromBits((Machine!Bits(a) \ Machine!Bits(b)) \cup (Machine!Bits(b) \ Machine!Bits(a)))
             = FromBits((Bits(a) \ Bits(b)) \cup (Bits(b) \ Bits(a)))
    BY <1>4, <1>8
  <2>5. Machine!Opcode(w) = Opcode(w) /\ Machine!BINARY_OP = BINARY_OP
    BY <1>2, <1>4
  <2> QED
    BY <2>1, <2>2, <2>3, <2>4, <2>5 DEF Machine!Results, Results
<1> QED
  BY <1>3, <1>4, <1>5, <1>6, <1>7, <1>10

(* Each instruction is one of the machine's steps.                         *)
LEMMA InstructionsAct ==
  ASSUME VMTypeOK, interprete, StackApart, StackApart', ip_ \in 0 .. Len(image) - 1
  PROVE  Machine!Step
<1> USE DEF Quiet, Machine!Silent, Machine!Advance
<1>1. /\ Len(image) \in 0 .. DataSize /\ sp_ \in 0 .. DataSize /\ data_ \in [Addresses -> Cell]
      /\ Machine!word = instr /\ Machine!Depth = DataSize - sp_
      /\ \A n \in 1 .. DataSize - sp_ : Machine!top(n) = Operand(n)
      /\ \A n \in 0 .. DataSize - sp_ : Machine!Below(n) = StackOf(data_, sp_ + n)
  BY MachineSees
<1>2. ip_ \in Addresses
  BY <1>1, ProgramsAssumption DEF Addresses
\* The machine steps when the instruction is executed, with what it takes.
<1>3. ASSUME Executing
      PROVE  /\ status = "running" /\ Gets(instr) \in 0 .. 2
             /\ Gets(instr) <= DataSize - sp_ /\ Machine!Has(Gets(instr))
             /\ \A n \in 1 .. Gets(instr) : Machine!top(n) = Operand(n) /\ Operand(n) \in Cell
             /\ Machine!Below(Gets(instr)) = StackOf(data_, sp_ + Gets(instr))
             /\ Puts(instr) => sp_ + Gets(instr) - 1 \in Addresses
             /\ IsUnary(instr, "LOAD") => int32_t(Operand(1)) \in Addresses
             /\ IsUnary(instr, "STORE") => int32_t(Operand(2)) \in Addresses
  <2>1. status = "running" /\ Accessed(instr) \subseteq Addresses
    BY <1>3 DEF Executing
  <2>2. /\ Gets(instr) \in 0 .. 2
        /\ \A n \in 1 .. Gets(instr) : sp_ + n - 1 \in Addresses /\ Operand(n) \in Cell
        /\ Puts(instr) => sp_ + Gets(instr) - 1 \in Addresses
        /\ IsUnary(instr, "LOAD") => int32_t(Operand(1)) \in Addresses
        /\ IsUnary(instr, "STORE") => int32_t(Operand(2)) \in Addresses
    BY <2>1, Operands
  <2>3. PICK g \in 0 .. 2 : g = Gets(instr)
    BY <2>2
  <2>4. g <= DataSize - sp_
    <3>1. CASE g = 0
      BY <1>1, <3>1, ProgramsAssumption
    <3>2. CASE g \in 1 .. 2
      <4>1. sp_ + g - 1 \in Addresses
        BY <2>2, <2>3, <3>2
      <4> QED
        BY <1>1, <4>1, ProgramsAssumption DEF Addresses
    <3> QED
      BY <3>1, <3>2
  <2>5. g \in 0 .. DataSize - sp_ /\ \A n \in 1 .. g : n \in 1 .. DataSize - sp_
    BY <1>1, <2>4, ProgramsAssumption
  <2>6. Machine!Has(g) /\ Machine!Below(g) = StackOf(data_, sp_ + g)
    BY <1>1, <2>4, <2>5 DEF Machine!Has
  <2>7. \A n \in 1 .. g : Machine!top(n) = Operand(n)
    BY <1>1, <2>5
  <2> QED
    BY <2>1, <2>2, <2>3, <2>4, <2>6, <2>7
\* A value on the stack in the place of those taken.
<1>4. ASSUME Executing, Puts(instr), Quiet, NEW v \in Cell, NEW g \in 0 .. 2, g = Gets(instr), Replace(g, v)
      PROVE  Stack' = Append(Machine!Below(g), v) /\ Memory' = Memory
  <2>1. sp_ + g - 1 \in Addresses /\ Machine!Below(g) = StackOf(data_, sp_ + g)
    BY <1>3, <1>4
  <2> QED
    BY <1>4, <2>1, MachineReplaces
<1>5. CASE Pop
  <2>1. Gets(instr) = 0
    BY <1>5, Decoding DEF Pop
  <2>2. Machine!Has(1) /\ Machine!Below(1) = StackOf(data_, sp_ + 1) /\ Stack' = Machine!Below(1)
    BY <1>5, MachinePops DEF Pop
  <2>3. Memory' = Memory
    BY <1>5 DEF Pop, Memory
  <2>4. Machine!Drop
    BY SameWords, <1>1, <1>5, <2>2, <2>3 DEF Pop, Machine!Drop, Machine!Becomes, Stack, StackOf, Memory
  <2> QED
    BY <1>3, <1>5, <2>4 DEF Pop, Machine!Step
\* Pushing leaves what is there.
<1>6. ASSUME Executing, Gets(instr) = 0
      PROVE  Machine!Below(0) = Stack
  BY <1>1, <1>3, <1>6 DEF Stack
<1>7. CASE PushConst
  <2>1. Gets(instr) = 0 /\ Puts(instr)
    BY <1>7, Decoding DEF PushConst
  <2>2. Optional(instr) \in Cell
    BY <1>1, <1>2, CellFacts DEF instr
  <2>3. Stack' = Append(Stack, Optional(instr)) /\ Memory' = Memory
    BY <1>4, <1>6, <1>7, <2>1, <2>2 DEF PushConst
  <2>4. Machine!Push
    BY SameWords, <1>1, <1>7, <2>3 DEF PushConst, Machine!Push, Machine!Becomes, Stack, StackOf, Memory
  <2> QED
    BY <1>3, <1>7, <2>4 DEF PushConst, Machine!Step
<1>8. CASE PushIp
  <2>1. Gets(instr) = 0 /\ Puts(instr)
    BY <1>8, Decoding DEF PushIp
  <2>2. ip_ + 1 \in Cell
    <3>1. ip_ + 1 \in Nat /\ ip_ + 1 < WordValues
      BY <1>2, ProgramsAssumption, WordFacts DEF Addresses
    <3> QED
      BY <3>1, CellFacts
  <2>3. Stack' = Append(Stack, ip_ + 1) /\ Memory' = Memory
    BY <1>4, <1>6, <1>8, <2>1, <2>2 DEF PushIp
  <2>4. Machine!Push
    BY SameWords, <1>1, <1>8, <2>3 DEF PushIp, Machine!Push, Machine!Becomes, Stack, StackOf, Memory
  <2> QED
    BY <1>3, <1>8, <2>4 DEF PushIp, Machine!Step
<1>9. CASE PushSp
  <2>1. Gets(instr) = 0 /\ Puts(instr)
    BY <1>9, Decoding DEF PushSp
  <2>2. ToWord(sp_) \in Cell /\ ToWord(sp_) = DataSize - Machine!Depth
    <3>1. sp_ \in Nat /\ sp_ < WordValues /\ sp_ = DataSize - (DataSize - sp_)
      BY <1>1, ProgramsAssumption, WordFacts
    <3> QED
      BY <1>1, <3>1, CellFacts
  <2>3. Stack' = Append(Stack, ToWord(sp_)) /\ Memory' = Memory
    BY <1>4, <1>6, <1>9, <2>1, <2>2 DEF PushSp
  <2>4. Machine!Push
    BY SameWords, <1>1, <1>9, <2>2, <2>3 DEF PushSp, Machine!Push, Machine!Becomes, Stack, StackOf, Memory
  <2> QED
    BY <1>3, <1>9, <2>4 DEF PushSp, Machine!Step
<1>10. CASE Getc
  <2>1. Gets(instr) = 0 /\ Puts(instr)
    BY <1>10, Decoding DEF Getc
  <2>2. PICK c \in Bytes : Replace(0, c)
    BY <1>10 DEF Getc
  <2>3. c \in Cell
    BY CellFacts, ProgramsAssumption
  <2>4. Stack' = Append(Stack, c) /\ Memory' = Memory
    BY <1>4, <1>6, <1>10, <2>1, <2>2, <2>3 DEF Getc
  <2>5. Machine!Push
    BY SameWords, <1>1, <1>10, <2>4 DEF Getc, Machine!Push, Machine!Becomes, Stack, StackOf, Memory
  <2> QED
    BY <1>3, <1>10, <2>5 DEF Getc, Machine!Step
<1>11. CASE LoadWord
  <2>1. Gets(instr) = 1 /\ Puts(instr)
    BY <1>11, Decoding DEF LoadWord
  <2>2. PICK a : a = Operand(1)
    OBVIOUS
  <2>3. Machine!top(1) = a /\ a \in Addresses
    BY <1>3, <1>11, <2>1, <2>2, AddressFacts DEF LoadWord
  <2>4. data_[a] \in Cell
    BY <1>1, <2>3
  <2>5. data_[a] \in Machine!CellsAt(a, 1)
    <3>1. CASE a \in 0 .. Len(image) - 1
      BY SameWords, <3>1 DEF Machine!CellsAt
    <3>2. CASE a \notin 0 .. Len(image) - 1 /\ DataSize - a \in 1 .. DataSize - sp_ - 1
      <4>1. DataSize - a \in 1 .. DataSize - sp_ /\ DataSize - (DataSize - a) = a
        BY <1>1, <2>3, <3>2, ProgramsAssumption DEF Addresses
      <4> QED
        BY SameWords, <1>1, <3>2, <4>1 DEF Machine!CellsAt
    <3>3. CASE a \notin 0 .. Len(image) - 1 /\ DataSize - a \notin 1 .. DataSize - sp_ - 1
      BY SameWords, <1>1, <2>4, <3>3 DEF Machine!CellsAt
    <3> QED
      BY <3>1, <3>2, <3>3
  <2>6. Stack' = Append(Machine!Below(1), data_[a]) /\ Memory' = Memory /\ Machine!Has(1)
    BY <1>3, <1>4, <1>11, <2>1, <2>2, <2>4 DEF LoadWord
  <2>7. Machine!Replace1
    BY SameWords, <1>1, <1>11, <2>3, <2>5, <2>6 DEF LoadWord, Machine!Replace1, Machine!Becomes, Stack, StackOf, Memory
  <2> QED
    BY <1>3, <1>11, <2>7 DEF LoadWord, Machine!Step
<1>12. CASE Not
  <2>1. Gets(instr) = 1 /\ Puts(instr)
    BY <1>12, Decoding DEF Not
  <2>2. Truth(Operand(1) = 0) \in Cell
    BY CellFacts
  <2>3. /\ Stack' = Append(Machine!Below(1), Truth(Operand(1) = 0)) /\ Memory' = Memory
        /\ Machine!Has(1) /\ Machine!top(1) = Operand(1)
    BY <1>3, <1>4, <1>12, <2>1, <2>2 DEF Not
  <2>4. Machine!Replace1
    BY SameWords, <1>1, <1>12, <2>3 DEF Not, Machine!Replace1, Machine!Becomes, Stack, StackOf, Memory
  <2> QED
    BY <1>3, <1>12, <2>4 DEF Not, Machine!Step
<1>13. CASE Putc
  <2>1. Gets(instr) = 1 /\ ~Puts(instr)
    BY <1>13, Decoding DEF Putc
  <2>2. Machine!Has(1) /\ Stack' = Machine!Below(1)
    BY <1>13, MachinePops DEF Putc
  <2>3. Memory' = Memory
    BY <1>13 DEF Putc, Memory
  <2>4. Machine!top(1) = Operand(1) /\ (1 = 2 => Machine!top(2) = Operand(2))
    BY <1>3, <1>13, <2>1 DEF Putc
  <2>5. Machine!Write
    BY SameWords, <1>1, <1>13, <2>2, <2>3, <2>4 DEF Putc, Machine!Write, Machine!Becomes, Stack, StackOf, Memory
  <2> QED
    BY <1>3, <1>13, <2>5 DEF Putc, Machine!Step
<1>14. CASE Jump
  <2>1. Gets(instr) = 2 /\ ~Puts(instr)
    BY <1>14, Decoding DEF Jump
  <2>2. Machine!Has(2) /\ Stack' = Machine!Below(2)
    BY <1>14, MachinePops DEF Jump
  <2>3. Memory' = Memory
    BY <1>14 DEF Jump, Memory
  <2>4. Machine!top(1) = Operand(1) /\ (2 = 2 => Machine!top(2) = Operand(2))
    BY <1>3, <1>14, <2>1 DEF Jump
  <2>5. Machine!Branch
    BY SameWords, <1>1, <1>14, <2>2, <2>3, <2>4 DEF Jump, Machine!Branch, Machine!Becomes, Stack, StackOf, Memory
  <2> QED
    BY <1>3, <1>14, <2>5 DEF Jump, Machine!Step
<1>15. CASE Store
  <2>1. Gets(instr) = 2 /\ ~Puts(instr)
    BY <1>15, Decoding DEF Store
  <2>2. PICK a, v : a = Operand(2) /\ v = Operand(1)
    OBVIOUS
  <2>3. /\ Machine!top(2) = a /\ Machine!top(1) = v /\ a \in Addresses /\ v \in Cell /\ Machine!Has(2)
    BY <1>3, <1>15, <2>1, <2>2, AddressFacts DEF Store
  <2>4. data_' = [data_ EXCEPT ![a] = v] /\ sp_' = sp_ + 2 /\ ip_' = ip_ + 1
    BY <1>15, <2>2 DEF Store
  <2>5. image' = image /\ sp_ + 2 <= DataSize
    BY <1>15, <2>4 DEF Store, StackApart
  <2>6. \A b \in Addresses : data_'[b] = IF b = a THEN v ELSE data_[b]
    BY <1>1, <2>4
  <2> DEFINE m == [b \in 0 .. Len(image) - 1 |-> data_[b]]
             s == [k \in 1 .. DataSize - sp_ |-> data_[DataSize - k]]
  <2>7. \A b \in 0 .. Len(image) - 1 : b \in Addresses
    BY <1>1, ProgramsAssumption DEF Addresses
  <2>8. m' = IF a \in DOMAIN m THEN [m EXCEPT ![a] = v] ELSE m
    <3>1. m' = [b \in 0 .. Len(image) - 1 |-> IF b = a THEN v ELSE data_[b]]
      BY <2>5, <2>6, <2>7
    <3>2. DOMAIN m = 0 .. Len(image) - 1
      OBVIOUS
    <3>3. CASE a \in 0 .. Len(image) - 1
      BY <3>1, <3>2, <3>3
    <3>4. CASE a \notin 0 .. Len(image) - 1
      BY <3>1, <3>2, <3>4
    <3> QED
      BY <3>3, <3>4
  <2>9. s' = [k \in 1 .. Machine!Depth - 2 |-> IF k = DataSize - a THEN v ELSE s[k]]
    <3>1. DataSize - sp_' = DataSize - sp_ - 2
      BY <1>1, <2>4, ProgramsAssumption
    <3>2. ASSUME NEW k \in 1 .. DataSize - sp_ - 2
          PROVE  data_'[DataSize - k] = IF k = DataSize - a THEN v ELSE s[k]
      <4>1. DataSize - k \in Addresses /\ k \in 1 .. DataSize - sp_ /\ (DataSize - k = a <=> k = DataSize - a)
        <5>1. DataSize \in Nat /\ sp_ \in Nat /\ a \in Nat /\ k \in Nat
          BY <1>1, <2>3, ProgramsAssumption DEF Addresses
        <5>2. DataSize - k = a <=> k = DataSize - a
          BY <5>1
        <5>3. DataSize - k \in Addresses /\ k \in 1 .. DataSize - sp_
          BY <5>1 DEF Addresses
        <5> QED
          BY <5>2, <5>3
      <4>2. s[k] = data_[DataSize - k]
        BY <4>1
      <4> HIDE DEF s
      <4> QED
        BY <2>6, <4>1, <4>2
    <3>3. s' = [k \in 1 .. DataSize - sp_ - 2 |-> data_'[DataSize - k]]
      BY <3>1
    <3> HIDE DEF s
    <3> QED
      BY <1>1, <3>2, <3>3
  <2>10. Memory' = IF Machine!top(2) \in DOMAIN Memory
                   THEN [Memory EXCEPT ![Machine!top(2)] = Machine!top(1)] ELSE Memory
    BY <2>3, <2>8 DEF Memory
  <2>11. Stack' = [k \in 1 .. Machine!Depth - 2 |->
                     IF k = DataSize - Machine!top(2) THEN Machine!top(1) ELSE Stack[k]]
    BY <2>3, <2>9 DEF Stack, StackOf
  <2> HIDE DEF m, s
  <2>12. IsUnary(instr, "STORE") /\ UNCHANGED <<out, status>>
    BY <1>15 DEF Store
  <2>13. Machine!Assign
    BY SameWords, <1>1, <2>3, <2>4, <2>10, <2>11, <2>12
       DEF Machine!Assign, Machine!Becomes, Stack, StackOf, Memory
  <2> QED
    BY <1>3, <1>15, <2>13 DEF Store, Machine!Step
<1>16. CASE BinaryOp
  <2>1. Gets(instr) = 2 /\ Puts(instr)
    BY <1>16, Decoding DEF BinaryOp
  <2>2. PICK a, b : a = Operand(2) /\ b = Operand(1)
    OBVIOUS
  <2>3. Machine!top(2) = a /\ Machine!top(1) = b /\ a \in Cell /\ b \in Cell /\ Machine!Has(2)
    BY <1>3, <1>16, <2>1, <2>2 DEF BinaryOp
  <2>4. PICK r \in Results(instr, a, b, Unassigned) : Replace(2, r)
    BY <1>16, <2>2 DEF BinaryOp
  <2>5. IsBinary(instr) /\ ~Traps(instr, a, b) /\ ip_' = ip_ + 1 /\ Quiet /\ Executing
    BY <1>16, <2>2 DEF BinaryOp
  <2>6. r \in Cell
    BY <2>3, <2>4, <2>5, ResultsAreWords
  <2>7. Stack' = Append(Machine!Below(2), r) /\ Memory' = Memory
    BY <1>4, <2>1, <2>4, <2>5, <2>6
  <2>8. Machine!Replace2
    BY SameWords, <1>1, <2>3, <2>4, <2>5, <2>7 DEF Machine!Replace2, Machine!Becomes, Stack, StackOf, Memory
  <2> QED
    BY <1>3, <2>5, <2>8 DEF Machine!Step
\* The ways to stop.
<1>17. ASSUME UNCHANGED <<data_, sp_, image>> PROVE Stack' = Stack /\ Memory' = Memory
  BY <1>17 DEF Stack, StackOf, Memory
<1>18. CASE Halt
  <2>1. Machine!Stop
    BY SameWords, <1>1, <1>17, <1>18 DEF Halt, Machine!Stop, Stack, StackOf, Memory
  <2> QED
    BY <1>3, <1>18, <2>1 DEF Halt, Machine!Step
<1>19. CASE UnknownUnary
  <2>1. ~IsBinary(instr) /\ ~Known(instr) /\ Executing
    BY <1>19 DEF UnknownUnary
  <2>2. CASE ip_' = ip_ + 1 /\ UNCHANGED status
    <3>1. Machine!Unknown
      BY SameWords, <1>1, <1>17, <1>19, <2>1, <2>2 DEF UnknownUnary, Machine!Unknown, Stack, StackOf, Memory
    <3> QED
      BY <1>3, <2>1, <3>1 DEF Machine!Step
  <2>3. CASE status' = "halted" /\ UNCHANGED ip_
    <3>1. Machine!Stop
      BY SameWords, <1>1, <1>17, <1>19, <2>1, <2>3 DEF UnknownUnary, Machine!Stop, Stack, StackOf, Memory
    <3> QED
      BY <1>3, <2>1, <3>1 DEF Machine!Step
  <2> QED
    BY <1>19, <2>2, <2>3 DEF UnknownUnary
<1>20. CASE Trap
  <2>1. Gets(instr) = 2 /\ Executing /\ IsBinary(instr)
    BY <1>20, Decoding DEF Trap
  <2>2. Machine!Has(2) /\ Machine!top(2) = Operand(2) /\ Machine!top(1) = Operand(1)
    BY <1>3, <2>1
  <2>3. Machine!Stop
    BY SameWords, <1>1, <1>17, <1>20, <2>2 DEF Trap, Machine!Stop, Stack, StackOf, Memory
  <2> QED
    BY <1>3, <2>1, <2>3 DEF Machine!Step
<1>21. ~AssertFails /\ ~Lose
  BY <1>2 DEF AssertFails, Lose, StackApart
<1> QED
  BY <1>5, <1>7, <1>8, <1>9, <1>10, <1>11, <1>12, <1>13, <1>14, <1>15, <1>16, <1>18, <1>19, <1>20, <1>21
     DEF interprete, unary

(* While the stack stays apart from the program, whatever the program is,  *)
(* the array with its two indices acts as a stack machine.                 *)
THEOREM ActsAsStackMachineHolds == VMSpec => ActsAsStackMachine
<1> DEFINE A == StackApart /\ StackApart' /\ ip_ \in 0 .. Len(image) - 1 => Machine!Step
<1>1. VMTypeOK /\ [VMNext]_vmVars => [A]_vmVars
  <2> SUFFICES ASSUME VMTypeOK, VMNext, StackApart, StackApart', ip_ \in 0 .. Len(image) - 1,
                      ~UNCHANGED vmVars
               PROVE  Machine!Step
    OBVIOUS
  <2>1. ~Load /\ ~VMFinished
    BY DEF Load, VMFinished, StackApart
  <2> QED
    BY <2>1, InstructionsAct DEF VMNext
<1> HIDE DEF A
<1>2. VMSpec => [][A]_vmVars
  BY <1>1, VMTypesHold, PTL DEF VMSpec
<1> QED
  BY <1>2 DEF A, ActsAsStackMachine

-----------------------------------------------------------------------------
(* Types: of command lines, and of command queues.                         *)

\* Where consume_positional stops is one of the places, or their end.
LEMMA PlaceIs ==
  ASSUME SetupOK(setup), next \in 1 .. Len(setup.positional) + 1
  PROVE  Place \in next .. Len(setup.positional) + 1 /\ Len(setup.positional) \in Nat
<1> DEFINE l == Len(setup.positional)
           T == {j \in Nat : j \in next .. l + 1 /\ (j <= l => ~Passed(setup.positional[j]))}
<1>1. l \in Nat
  BY DEF SetupOK
<1>2. T \subseteq Nat /\ l + 1 \in T
  BY <1>1
<1>3. PICK j \in T : \A k \in T : ~ (k < j)
  <2> HIDE DEF T
  <2> QED
    BY <1>2, LeastNumber
<1>4. j \in next .. l + 1 /\ (j <= l => ~Passed(setup.positional[j]))
  OBVIOUS
<1>5. \A k \in next .. j - 1 : Passed(setup.positional[k])
  <2> SUFFICES ASSUME NEW k \in next .. j - 1, ~Passed(setup.positional[k]) PROVE FALSE
    OBVIOUS
  <2>1. k \in T /\ k < j
    BY <1>1, <1>4
  <2> QED
    BY <1>3, <2>1
<1> QED
  BY <1>1, <1>4, <1>5 DEF Place

Phases == {"adding", "words", "group", "defaults", "rest", "done", "thrown"}

LEMMA OptionsInitTypes == OptionsInit => OptionsTypeOK
<1> SUFFICES ASSUME OptionsInit PROVE OptionsTypeOK
  OBVIOUS
<1>1. SetupOK(setup)
  BY SetupsAssumption DEF OptionsInit
<1>2. Len(argv) \in Nat /\ Len(setup.positional) \in Nat
  BY <1>1 DEF SetupOK, argv
<1> QED
  BY <1>2 DEF OptionsInit, OptionsTypeOK

LEMMA OptionsNextTypes ==
  ASSUME OptionsInv, OptionsTypeOK, [OptionsNext]_optionVars
  PROVE  OptionsTypeOK'
<1>1. current' \in 1 .. Len(argv') + 1
  BY OptionsStep DEF OptionsInv, Shapes
<1>2. SetupOK(setup) /\ phase \in Phases /\ next \in 1 .. Len(setup.positional) + 1
  BY DEF OptionsInv, Shapes, OptionsTypeOK, Phases
<1>3. Place \in next .. Len(setup.positional) + 1 /\ Len(setup.positional) \in Nat
  BY <1>2, PlaceIs
<1>4. ASSUME UNCHANGED <<setup, m_options>>, phase' \in Phases,
             next' = next \/ next' = Place \/ (IsPlace /\ next' = Place + 1)
      PROVE  OptionsTypeOK'
  <2>1. next' \in 1 .. Len(setup'.positional) + 1
    BY <1>2, <1>3, <1>4 DEF IsPlace
  <2> QED
    BY <1>1, <1>4, <2>1 DEF OptionsTypeOK, NamesOf, argv, Phases
<1>5. ASSUME Throw PROVE OptionsTypeOK'
  BY <1>4, <1>5 DEF Throw, Phases
<1>6. CASE UNCHANGED optionVars
  BY <1>2, <1>4, <1>6 DEF optionVars
<1>7. CASE AddOption
  <2>1. PICK o : o = Details(Head(setup.definitions))
    OBVIOUS
  <2>2. CASE ~Throw
    <3>1. /\ m_options' = With(m_options, NamesOf(o), o)
          /\ setup' = [setup EXCEPT !.definitions = Tail(@)]
          /\ phase' = phase /\ next' = next
      BY <1>7, <2>1, <2>2 DEF AddOption
    <3>2. setup'.positional = setup.positional
      BY <1>2, <3>1 DEF SetupOK
    <3>3. \A name \in DOMAIN m_options' : name \in NamesOf(m_options'[name])
      BY <3>1 DEF With, OptionsTypeOK
    <3> QED
      BY <1>1, <1>2, <3>1, <3>2, <3>3 DEF OptionsTypeOK, Phases, NamesOf, argv
  <2> QED
    BY <1>5, <2>2
<1>8. CASE Parse \/ EndWords \/ Group \/ EndDefaults \/ Finish
  BY <1>4, <1>8 DEF Parse, EndWords, Group, EndDefaults, Finish, Phases
<1>9. ASSUME NEW o, NEW text, NEW words, Give(o, text, words) PROVE OptionsTypeOK'
  BY <1>4, <1>5, <1>9 DEF Give, GiveParsed, Phases
<1>10. ASSUME NEW label \in Phases, IsPlace, Consumed(label) PROVE OptionsTypeOK'
  BY <1>4, <1>5, <1>10 DEF Consumed, ConsumedParsed
<1>11. CASE PlainWord
  <2>1. CASE IsPlace /\ Consumed("words")
    BY <1>10, <2>1 DEF Phases
  <2>2. CASE Throw
    BY <1>5, <2>2
  <2>3. CASE next' = Place /\ UNCHANGED <<setup, m_options, phase>>
    BY <1>2, <1>4, <2>3
  <2> QED
    BY <1>11, <2>1, <2>2, <2>3 DEF PlainWord
<1>12. CASE LongOption
  <2>1. CASE Throw
    BY <1>5, <2>1
  <2>2. CASE UNCHANGED <<setup, m_options, phase, next>>
    BY <1>2, <1>4, <2>2
  <2>3. CASE \E o, text, words : Give(o, text, words)
    BY <1>9, <2>3
  <2> QED
    BY <1>12, <2>1, <2>2, <2>3 DEF LongOption
<1>13. CASE ShortOption
  <2>1. CASE Throw
    BY <1>5, <2>1
  <2>2. CASE Letters /\ UNCHANGED <<setup, m_options, next>>
    BY <1>2, <1>4, <2>2 DEF Letters, Phases
  <2>3. CASE \E o, store : Flag(o, store)
    BY <1>2, <1>4, <1>5, <2>3 DEF Flag, Letters, Phases
  <2>4. CASE \E o, text, words : Give(o, text, words)
    BY <1>9, <2>4
  <2> QED
    BY <1>13, <2>1, <2>2, <2>3, <2>4 DEF ShortOption
<1>14. CASE parse_default
  BY <1>2, <1>4, <1>5, <1>14 DEF parse_default, DefaultParsed
<1>15. CASE RestWord
  BY <1>10, <1>15 DEF RestWord, Phases
<1>16. CASE Ended
  BY <1>6, <1>16 DEF Ended
<1> QED
  BY <1>6, <1>7, <1>8, <1>11, <1>12, <1>13, <1>14, <1>15, <1>16 DEF OptionsNext

(* A command's function is known, and a kernel's arguments are buffers.    *)
CallOK(c) == /\ c.f \in {"enqueue", "finish", "copy", "Buffer", "functor"}
             /\ c.f = "functor" => c.src \in Buffers /\ c.dst \in Buffers

LEMMA CallsAreOK == \A c \in AllCalls : CallOK(c)
<1> DEFINE Made(d) == \E f, s, t, b : d = Command(f, s, t, b) /\ CallOK(d)
<1>1. \A f \in {"enqueue", "finish", "copy", "Buffer"} : \A s, t, b : Made(Command(f, s, t, b))
  <2> TAKE f \in {"enqueue", "finish", "copy", "Buffer"}
  <2> TAKE s, t, b
  <2>1. CallOK(Command(f, s, t, b))
    BY DEF Command, CallOK
  <2> QED
    BY <2>1
<1>2. ASSUME NEW s \in Buffers, NEW t \in Buffers PROVE Made(Command("functor", s, t, FALSE))
  <2>1. CallOK(Command("functor", s, t, FALSE))
    BY DEF Command, CallOK
  <2> QED
    BY <2>1
<1>3. ASSUME NEW d, NEW a, NEW e, Made(d) PROVE CallOK(Asking(d, a, e))
  BY <1>3 DEF Command, CallOK, Asking
<1> HIDE DEF Made
<1>4. \A d \in BufferCalls \cup RectCalls \cup ImageCalls : Made(d)
  BY <1>1 DEF BufferCalls, RectCalls, ImageCalls, Moves
<1>5. \A d \in ImageBufferCalls : Made(d)
  <2> SUFFICES ASSUME NEW q \in (ImageObjects \X Buffers) \cup (Buffers \X ImageObjects)
               PROVE  Made(Command("enqueue", q[1], q[2], FALSE))
    BY DEF ImageBufferCalls
  <2> QED
    BY <1>1
<1>6. \A d \in FillBufferCalls \cup FillImageCalls \cup UnmapSVMCalls \cup InteropCalls \cup SyncCalls : Made(d)
  <2>1. \A s, t : Made(Command("enqueue", s, t, FALSE)) /\ Made(Command("finish", s, t, TRUE))
    BY <1>1
  <2> QED
    BY <2>1 DEF FillBufferCalls, FillImageCalls, UnmapSVMCalls, InteropCalls, SyncCalls
<1>7. \A d \in MapCalls \cup MapSVMCalls : Made(d)
  BY <1>1 DEF MapCalls, MapSVMCalls
<1>8. \A d \in CopyCalls \cup BufferMakers : Made(d)
  <2> SUFFICES ASSUME NEW d \in CopyCalls \cup BufferMakers PROVE Made(d)
    OBVIOUS
  <2>1. \E f \in {"copy", "Buffer"} : \E s, t : d = Command(f, s, t, TRUE)
    <3>1. CASE d \in {Command("copy", a, b, TRUE) : a \in Arrays, b \in Buffers}
      BY <3>1 DEF Command
    <3>2. CASE d \in {Command("copy", b, a, TRUE) : a \in Arrays, b \in Buffers}
      BY <3>2 DEF Command
    <3>3. CASE d \in BufferMakers
      BY <3>3 DEF BufferMakers, Command
    <3> QED
      BY <3>1, <3>2, <3>3 DEF CopyCalls, Command
  <2>2. PICK f \in {"copy", "Buffer"} : \E s, t : d = Command(f, s, t, TRUE)
    BY <2>1
  <2>3. PICK s, t : d = Command(f, s, t, TRUE)
    BY <2>2
  <2> QED
    BY <1>1, <2>3
<1>9. \A d \in KernelCalls : Made(d)
  <2> SUFFICES ASSUME NEW q \in Buffers \X Buffers PROVE Made(Command("functor", q[1], q[2], FALSE))
    BY DEF KernelCalls, Within
  <2> QED
    BY <1>2
<1>10. \A c \in MapSVMCopies : CallOK(c)
  BY DEF MapSVMCopies, CallOK
<1> QED
  BY <1>3, <1>4, <1>5, <1>6, <1>7, <1>8, <1>9, <1>10 DEF AllCalls

LEMMA TailAny ==
  ASSUME NEW s, IsSeq(s), s # <<>>
  PROVE  IsSeq(Tail(s)) /\ Len(Tail(s)) \in Nat /\ Len(s) = Len(Tail(s)) + 1
<1>1. PICK S : s \in Seq(S)
  BY DEF IsSeq
<1>2. Tail(s) \in Seq(S) /\ Len(Tail(s)) = Len(s) - 1 /\ Len(s) \in Nat
  BY <1>1, HeadTailProperties, LenProperties
<1> QED
  BY <1>2, LenProperties DEF IsSeq

\* What the types of the commands rest on.
CommandsKept == /\ CommandsTypeOK /\ IsSeq(pending) /\ CallOK(call)
                /\ at \in {"arg1", "arg2"} => call.f = "functor"

LEMMA CommandsInitKept == CommandsInit => CommandsKept
<1>1. IsSeq(<<>>)
  BY DEF IsSeq
<1> QED
  BY <1>1 DEF CommandsInit, CommandsKept, CommandsTypeOK, CallOK, Command

LEMMA CommandsNextKept == CommandsKept /\ [CommandsNext]_commandVars => CommandsKept'
<1> SUFFICES ASSUME CommandsKept, [CommandsNext]_commandVars PROVE CommandsKept'
  OBVIOUS
<1> USE DEF CommandsKept, CommandsTypeOK, CallOK
<1>1. ASSUME NEW src, NEW dst, Queue(src, dst)
      PROVE  /\ IsSeq(pending') /\ Len(pending') <= issued' /\ issued' \in Nat
             /\ event \in 0 .. issued'
  BY <1>1, AppendAny DEF Queue
<1>2. CASE UNCHANGED commandVars
  BY <1>2 DEF commandVars
<1>3. CASE Invoke
  BY <1>3, CallsAreOK DEF Invoke, Begin
<1>4. CASE Refused
  BY <1>4 DEF Refused, Return
<1>5. CASE GetDefault /\ ~Refused
  BY <1>5 DEF GetDefault, Proceed, Begin
<1>6. CASE Enqueue /\ ~Refused
  BY <1>1, <1>6 DEF Enqueue, Notify, Proceed, Return
<1>7. CASE Block \/ Wait \/ StdCopy \/ Create
  BY <1>7 DEF Block, Wait, StdCopy, Create, Return, Proceed
<1>8. CASE MapBuffer /\ ~Refused
  BY <1>1, <1>8 DEF MapBuffer, Proceed
<1>9. CASE UnmapMemObject /\ ~Refused
  BY <1>1, <1>9 DEF UnmapMemObject, Proceed
<1>10. ASSUME NEW k \in {1, 2}, SetArg(k) PROVE CommandsKept'
  BY <1>10 DEF SetArg, Proceed
<1>11. CASE Launch /\ ~Refused
  BY <1>1, <1>11 DEF Launch, Notify, Return
<1>12. CASE Execute
  BY <1>12, TailAny DEF Execute
<1> QED
  BY <1>2, <1>3, <1>4, <1>5, <1>6, <1>7, <1>8, <1>9, <1>10, <1>11, <1>12 DEF CommandsNext, FinishFails, Over

=============================================================================
