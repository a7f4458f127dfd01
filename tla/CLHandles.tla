----------------------------- MODULE CLHandles -----------------------------
(***************************************************************************)
(* The C++ handles of cl2.hpp and the reference counts of the OpenCL       *)
(* objects behind them.  A handle (a cl::Context, cl::Buffer, cl::Event    *)
(* ...) holds one cl_type, or NULL; copying it retains the object,         *)
(* destroying or overwriting it releases the object, moving does neither.  *)
(*                                                                         *)
(* The runtime is external: creating an object gives it the count 1, and   *)
(* it is gone when its count is 0 again.  Platforms and root devices are   *)
(* not counted.  Another thread may run between `object_ = rhs.object_'    *)
(* and the retain() that follows, so that a copy takes two steps.  A       *)
(* handle has no lock of its own: no thread changes a handle that another  *)
(* one is copying.                                                         *)
(***************************************************************************)
EXTENDS Naturals, FiniteSets

CONSTANTS Handles,
          Objects,
          Countable,   \* the objects that the runtime counts
          NULL

ASSUME HandlesAssumption == /\ IsFiniteSet(Handles)
                            /\ Countable \subseteq Objects
                            /\ NULL \notin Objects /\ NULL \notin Handles

VARIABLES object,   \* object_ of each handle
          source,   \* the handle it is being copied from, until it is retained
          refs      \* the reference count of each object

handleVars == <<object, source, refs>>

HandlesInit == /\ object = [h \in Handles |-> NULL]
               /\ source = [h \in Handles |-> NULL]
               /\ refs = [o \in Objects |-> 0]

\* No copy from h or into h is under way.
Settled(h) == source[h] = NULL /\ \A g \in Handles : source[g] # h

\* ReferenceHandler<T>::retain.
Retained(c, o) == [x \in Objects |-> IF x = o /\ o \in Countable THEN c[x] + 1 ELSE c[x]]

\* Wrapper::release, ReferenceHandler<T>::release.
Released(c, o) == [x \in Objects |-> IF x = o /\ o \in Countable THEN c[x] - 1 ELSE c[x]]

\* A new object: the result of a clCreate..., or a platform or a device.
Fresh(o) == o \in Countable => refs[o] = 0

\* operator=(const cl_type&), and a constructor that calls clCreate...
Adopt(h, o) == /\ Settled(h) /\ Fresh(o)
               /\ object' = [object EXCEPT ![h] = o]
               /\ refs' = Retained(Released(refs, object[h]), o)
               /\ UNCHANGED source

\* The first half of Wrapper(const Wrapper&) and operator=(const Wrapper&).
Copy(h, r) == /\ Settled(h) /\ h # r /\ source[r] = NULL
              /\ object' = [object EXCEPT ![h] = object[r]]
              /\ refs' = Released(refs, object[h])
              /\ source' = [source EXCEPT ![h] = IF object[r] = NULL THEN NULL ELSE r]

\* Mutation of Retain: the copy is not counted.
RetainNot(h) == /\ source[h] # NULL
                /\ source' = [source EXCEPT ![h] = NULL]
                /\ UNCHANGED <<object, refs>>

\* The second half: retain().
Retain(h) == /\ source[h] # NULL
             /\ source' = [source EXCEPT ![h] = NULL]
             /\ refs' = Retained(refs, object[h])
             /\ UNCHANGED object

\* Wrapper(Wrapper&&) and operator=(Wrapper&&).
Move(h, r) == /\ Settled(h) /\ Settled(r) /\ h # r
              /\ object' = [object EXCEPT ![h] = object[r], ![r] = NULL]
              /\ refs' = Released(refs, object[h])
              /\ UNCHANGED source

\* ~Wrapper, after which the variable may be constructed again.
Destroy(h) == /\ Settled(h) /\ object[h] # NULL
              /\ object' = [object EXCEPT ![h] = NULL]
              /\ refs' = Released(refs, object[h])
              /\ UNCHANGED source

HandlesNext == \E h \in Handles :
                  \/ \E o \in Objects : Adopt(h, o)
                  \/ \E r \in Handles : Copy(h, r) \/ Move(h, r)
                  \/ Retain(h)
                  \/ Destroy(h)

HandlesSpec == HandlesInit /\ [][HandlesNext]_handleVars

-----------------------------------------------------------------------------
HandlesTypeOK == /\ object \in [Handles -> Objects \cup {NULL}]
                 /\ source \in [Handles -> Handles \cup {NULL}]
                 /\ refs \in [Objects -> Nat]

HoldersOf(o) == {h \in Handles : object[h] = o /\ source[h] = NULL}

(* Every object is counted exactly as often as handles hold it that are    *)
(* not just being copied: nothing leaks and nothing is released twice      *)
(* whatever is copied, moved and overwritten at the same time.             *)
HandlesCounted == \A o \in Countable : refs[o] = Cardinality(HoldersOf(o))

(* No handle refers to an object that the runtime has destroyed, not even  *)
(* one that is half copied.                                                *)
NoDangling == \A h \in Handles : object[h] \in Countable => refs[object[h]] > 0
=============================================================================
