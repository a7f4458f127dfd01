----------------------------- MODULE Histogram -----------------------------
(***************************************************************************)
(* The histogram kernels of oneapi/: histogramGPUGlobalMem and             *)
(* histogramGPUSharedMem (histogram.cu, histogram.dp.cpp), the kernel with *)
(* one thread per element (histo.cpp, histogram_dpcpp.cpp), which is       *)
(* histogramGPUGlobalMem with as many threads as elements, and the two     *)
(* short kernels of histo.cpp: the one that replaces the atomic addition by*)
(* one barrier per round, and the one that adds to data2, an array nothing *)
(* has initialised.                                                        *)
(*                                                                         *)
(* The threads of a block meet at barriers; blocks are not ordered.        *)
(***************************************************************************)
EXTENDS Integers, FiniteSets, Sequences

CONSTANTS Blocks,    \* gridDim.x
          BlockDim,  \* threads of a block, at least as many as bins
          NumBins,   \* NUM_BINS; M in histo.cpp
          Inputs,    \* what input can be; its length is n
          Garbage    \* what memory can hold that nothing has initialised

Bins == 0 .. NumBins - 1

ASSUME GridAssumption ==
  /\ Blocks \in Nat \ {0} /\ NumBins \in Nat \ {0}
  /\ BlockDim \in Nat /\ NumBins <= BlockDim

\* The elements are bins; memory holds unsigned integers.
ASSUME InputsAssumption ==
  /\ \A f \in Inputs : IsFiniteSet(DOMAIN f) /\ f \in [0 .. Cardinality(DOMAIN f) - 1 -> Bins]
  /\ Garbage \subseteq Nat

Threads == (0 .. Blocks - 1) \X (0 .. BlockDim - 1)

VARIABLES kernel,  \* "global", "shared", "rounds" or "data2"
          before,  \* what the result holds when the kernel is launched
          input,
          res,     \* the result, in global memory
          s_res,   \* the histogram of each block, in its shared memory
          i,       \* the element, or round, each thread has reached
          seen,    \* data[j] as loaded by a thread of the "rounds" kernel
          pc

vars == <<kernel, before, input, res, s_res, i, seen, pc>>

tid(t)   == t[1] * BlockDim + t[2]
Stride   == Blocks * BlockDim
Mates(t) == {u \in Threads : u[1] = t[1]}

Goto(t, label) == pc' = [pc EXCEPT ![t] = label]

-----------------------------------------------------------------------------
Kernels  == {"global", "shared", "rounds", "data2"}
Start(k) == CASE k = "shared" -> "init" [] k = "rounds" -> "round" [] OTHER -> "count"

\* The kernels of histo.cpp add 1 to the element i % M: the "rounds" kernel
\* for each thread of its one block, the other for each of its work items.
Remainders(n) == [j \in 0 .. n - 1 |-> j % NumBins]

\* The other programs zero the result; data2 is an array on the stack.
Init == /\ kernel \in Kernels
        /\ input \in CASE kernel = "rounds" -> {Remainders(BlockDim)}
                        [] kernel = "data2"  -> {Remainders(Stride)}
                        [] OTHER             -> Inputs
        /\ before \in [Bins -> IF kernel = "data2" THEN Garbage ELSE {0}]
        /\ res = before
        /\ s_res \in [0 .. Blocks - 1 -> [Bins -> Garbage]]
        /\ i = [t \in Threads |-> IF kernel = "rounds" THEN 0 ELSE tid(t)]
        /\ seen = [t \in Threads |-> 0]
        /\ pc = [t \in Threads |-> IF kernel = "rounds" /\ t[1] # 0 THEN "done" ELSE Start(kernel)]

\* if (threadIdx.x < NUM_BINS) s_res[threadIdx.x] = 0
Clear(t) ==
  /\ pc[t] = "init"
  /\ s_res' = IF t[2] < NumBins THEN [s_res EXCEPT ![t[1]][t[2]] = 0] ELSE s_res
  /\ Goto(t, "sync")
  /\ UNCHANGED <<kernel, before, input, res, i, seen>>

\* Mutation of Met: a thread waits for those before it only.
MetEarlier(t, after) == \A u \in Mates(t) : u[2] < t[2] => pc[u] \in {pc[t]} \cup after

\* __syncthreads(): all threads of the block are at the barrier or past it.
Met(t, after) == \A u \in Mates(t) : pc[u] \in {pc[t]} \cup after

Sync(t) == /\ pc[t] = "sync" /\ Met(t, {"count", "sync2", "combine", "done"})
           /\ Goto(t, "count")
           /\ UNCHANGED <<kernel, before, input, res, s_res, i, seen>>

\* Mutation of Count: the stride is a block, not the grid.
CountBlockStride(t) ==
  /\ pc[t] = "count" /\ i[t] \in DOMAIN input
  /\ IF kernel = "shared"
     THEN s_res' = [s_res EXCEPT ![t[1]][input[i[t]]] = @ + 1] /\ UNCHANGED res
     ELSE res' = [res EXCEPT ![input[i[t]]] = @ + 1] /\ UNCHANGED s_res
  /\ i' = [i EXCEPT ![t] = @ + BlockDim]
  /\ UNCHANGED <<kernel, before, input, seen, pc>>

\* atomicAdd of an element to the block's histogram, or to the result.
Count(t) ==
  /\ pc[t] = "count" /\ i[t] \in DOMAIN input
  /\ IF kernel = "shared"
     THEN s_res' = [s_res EXCEPT ![t[1]][input[i[t]]] = @ + 1] /\ UNCHANGED res
     ELSE res' = [res EXCEPT ![input[i[t]]] = @ + 1] /\ UNCHANGED s_res
  /\ i' = [i EXCEPT ![t] = @ + Stride]
  /\ UNCHANGED <<kernel, before, input, seen, pc>>

CountEnds(t) == /\ pc[t] = "count" /\ i[t] \notin DOMAIN input
                /\ Goto(t, IF kernel = "shared" THEN "sync2" ELSE "done")
                /\ UNCHANGED <<kernel, before, input, res, s_res, i, seen>>

Sync2(t) == /\ pc[t] = "sync2" /\ Met(t, {"combine", "done"})
            /\ Goto(t, "combine")
            /\ UNCHANGED <<kernel, before, input, res, s_res, i, seen>>

\* if (threadIdx.x < NUM_BINS) atomicAdd(&res[threadIdx.x], s_res[threadIdx.x])
Combine(t) ==
  /\ pc[t] = "combine"
  /\ res' = IF t[2] < NumBins THEN [res EXCEPT ![t[2]] = @ + s_res[t[1]][t[2]]] ELSE res
  /\ Goto(t, "done")
  /\ UNCHANGED <<kernel, before, input, s_res, i, seen>>

-----------------------------------------------------------------------------
\* data[j] += 1 is no atomic addition: the round's thread loads ...
RoundLoad(t) ==
  /\ pc[t] = "round" /\ tid(t) = i[t]
  /\ seen' = [seen EXCEPT ![t] = res[tid(t) % NumBins]]
  /\ Goto(t, "store")
  /\ UNCHANGED <<kernel, before, input, res, s_res, i>>

\* ... and stores.
RoundStore(t) ==
  /\ pc[t] = "store"
  /\ res' = [res EXCEPT ![tid(t) % NumBins] = seen[t] + 1]
  /\ Goto(t, "barrier")
  /\ UNCHANGED <<kernel, before, input, s_res, i, seen>>

RoundPass(t) ==
  /\ pc[t] = "round" /\ tid(t) # i[t]
  /\ Goto(t, "barrier")
  /\ UNCHANGED <<kernel, before, input, res, s_res, i, seen>>

\* it.barrier(), which every thread reaches once per round.
RoundSync(t) ==
  /\ pc[t] = "barrier"
  /\ \A u \in Mates(t) : i[u] > i[t] \/ (i[u] = i[t] /\ pc[u] = "barrier")
  /\ i' = [i EXCEPT ![t] = @ + 1]
  /\ Goto(t, IF i[t] + 1 < BlockDim THEN "round" ELSE "done")
  /\ UNCHANGED <<kernel, before, input, res, s_res, seen>>

Step(t) == \/ Clear(t) \/ Sync(t) \/ Count(t) \/ CountEnds(t) \/ Sync2(t) \/ Combine(t)
           \/ RoundLoad(t) \/ RoundStore(t) \/ RoundPass(t) \/ RoundSync(t)

AllDone  == \A t \in Threads : pc[t] = "done"
Finished == AllDone /\ UNCHANGED vars

Next == (\E t \in Threads : Step(t)) \/ Finished

Spec == Init /\ [][Next]_vars

\* A kernel ends when its threads do; the device runs all of them.
FairSpec == Spec /\ \A t \in Threads : WF_vars(Step(t))

-----------------------------------------------------------------------------
Labels == {"init", "sync", "count", "sync2", "combine", "round", "store", "barrier", "done"}

TypeOK == /\ kernel \in Kernels
          /\ before \in [Bins -> Nat] /\ res \in [Bins -> Nat]
          /\ s_res \in [0 .. Blocks - 1 -> [Bins -> Nat]]
          /\ i \in [Threads -> Nat] /\ seen \in [Threads -> Nat]
          /\ pc \in [Threads -> Labels]

\* What histogramCPU computes, and data of the "rounds" kernel.
Expected(b) == Cardinality({j \in DOMAIN input : input[j] = b})

(* The kernels whose result was zeroed compute what histogramCPU does; the *)
(* one that adds to data2 ends with the histogram added to what the array  *)
(* happened to hold.  Unsigned additions wrap at 2^32, so the code has the *)
(* equation modulo 2^32.                                                   *)
ResultIsHistogram ==
  AllDone => \A b \in Bins : res[b] = Expected(b) + IF kernel = "data2" THEN before[b] ELSE 0

(* No thread of a block adds to the shared histogram while another has yet *)
(* to clear its bin, nor reads it while another has yet to add: the plain  *)
(* accesses of one never race with the others'.                            *)
PhasesApart ==
  \A t, u \in Threads : t[1] = u[1] =>
     /\ pc[t] \in {"count", "sync2", "combine"} => pc[u] # "init"
     /\ pc[t] = "combine" => pc[u] \notin {"init", "sync", "count"}

=============================================================================
