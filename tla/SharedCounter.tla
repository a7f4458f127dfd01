--------------------------- MODULE SharedCounter ---------------------------
(***************************************************************************)
(* c++new-features/shared_mutex.cpp: a counter under a std::shared_mutex.  *)
(* Threads increment it and read it in turn; reset() is an operation of    *)
(* the class that main does not call.  value_++ is a read and a write, and *)
(* only the lock keeps them together.                                      *)
(***************************************************************************)
EXTENDS Naturals, FiniteSets

CONSTANTS Threads, Resetters,   \* who increments and reads, and who resets
          Rounds                \* how often: 3

VARIABLES value,      \* value_
          writer,     \* who holds the mutex alone; a set of at most one thread
          readers,    \* who shares it
          pc, round,
          register,   \* what a thread has read of value_
          added       \* history: increments since the last reset

vars == <<value, writer, readers, pc, round, register, added>>

All == Threads \cup Resetters

Init == /\ value = 0 /\ writer = {} /\ readers = {}
        /\ pc = [t \in All |-> IF t \in Threads THEN "increment" ELSE "reset"]
        /\ round = [t \in All |-> 1]
        /\ register = [t \in All |-> 0]
        /\ added = 0

Goto(t, label) == pc' = [pc EXCEPT ![t] = label]

\* Mutation of LockAlone: an increment shares the lock.
LockShared(t) == /\ pc[t] \in {"increment", "reset"} /\ writer = {}
                 /\ readers' = readers \cup {t}
                 /\ Goto(t, IF pc[t] = "reset" THEN "clear" ELSE "load")
                 /\ UNCHANGED <<value, writer, round, register, added>>

\* std::unique_lock
LockAlone(t) == /\ pc[t] \in {"increment", "reset"} /\ writer = {} /\ readers = {}
                /\ writer' = {t}
                /\ Goto(t, IF pc[t] = "reset" THEN "clear" ELSE "load")
                /\ UNCHANGED <<value, readers, round, register, added>>

\* value_++, and the end of the lock's scope.
Load(t) == /\ pc[t] = "load"
           /\ register' = [register EXCEPT ![t] = value]
           /\ Goto(t, "store")
           /\ UNCHANGED <<value, writer, readers, round, added>>
Store(t) == /\ pc[t] = "store"
            /\ value' = register[t] + 1 /\ added' = added + 1
            /\ writer' = writer \ {t} /\ readers' = readers \ {t}
            /\ Goto(t, "get")
            /\ UNCHANGED <<round, register>>

\* reset(): value_ = 0
Reset(t) == /\ pc[t] = "clear"
            /\ value' = 0 /\ added' = 0
            /\ writer' = writer \ {t} /\ readers' = readers \ {t}
            /\ Goto(t, "end")
            /\ UNCHANGED <<round, register>>

\* get() under a std::shared_lock.
LockRead(t) == /\ pc[t] = "get" /\ writer = {}
               /\ readers' = readers \cup {t}
               /\ Goto(t, "read")
               /\ UNCHANGED <<value, writer, round, register, added>>
Read(t) == /\ pc[t] = "read"
           /\ register' = [register EXCEPT ![t] = value]
           /\ readers' = readers \ {t}
           /\ round' = [round EXCEPT ![t] = @ + 1]
           /\ Goto(t, IF round[t] = Rounds THEN "end" ELSE "increment")
           /\ UNCHANGED <<value, writer, added>>

Step(t) == LockAlone(t) \/ Load(t) \/ Store(t) \/ Reset(t) \/ LockRead(t) \/ Read(t)

Next == \E t \in All : Step(t)

Ended == \A t \in All : pc[t] = "end"

-----------------------------------------------------------------------------
TypeOK == writer \subseteq All /\ readers \subseteq All /\ Cardinality(writer) <= 1

(* No increment is lost, and who reads the counter, alone or with others,  *)
(* sees every increment since the last reset.                              *)
NoneLost == /\ writer = {} => value = added
            /\ writer = {} \/ readers = {}
=============================================================================
