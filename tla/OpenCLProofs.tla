---------------------------- MODULE OpenCLProofs ----------------------------
(***************************************************************************)
(* The OpenCL binding: its counted handles and default objects, and the    *)
(* commands that it gives to a queue.                                      *)
(*                                                                         *)
(* The handles come first, for any finite set of handles and any set of    *)
(* objects.                                                                *)
(*                                                                         *)
(* The set of the counted holders of an object changes by one element at a *)
(* time.  A handle that is being copied is not among them, but the handle  *)
(* it is copied from is: that is why the object is still there when the    *)
(* copy is retained, and why the copied handle must not change meanwhile.  *)
(***************************************************************************)
EXTENDS CLDefaults, CLCommands, SequenceTheorems, FiniteSetTheorems, WellFoundedInduction, TLAPS

SourceOK(h) == source[h] # NULL => /\ source[h] \in Handles
                                   /\ source[source[h]] = NULL
                                   /\ object[source[h]] = object[h]
                                   /\ object[h] # NULL

SourcesHold == \A h \in Handles : SourceOK(h)

IInv == HandlesTypeOK /\ HandlesCounted /\ SourcesHold

-----------------------------------------------------------------------------
(* The holders of an object are finitely many, and a handle that leaves or *)
(* joins them changes their number by one.                                 *)
LEMMA HoldersFinite ==
  ASSUME NEW S \in SUBSET Handles
  PROVE  IsFiniteSet(S) /\ Cardinality(S) \in Nat
BY HandlesAssumption, FS_Subset, FS_CardinalityType

LEMMA OneLess ==
  ASSUME NEW S \in SUBSET Handles, NEW h \in S
  PROVE  Cardinality(S \ {h}) = Cardinality(S) - 1 /\ Cardinality(S) > 0
<1>1. IsFiniteSet(S) /\ Cardinality(S) \in Nat
  BY HoldersFinite
<1>2. Cardinality(S \ {h}) = Cardinality(S) - 1
  BY <1>1, FS_RemoveElement
<1>3. Cardinality(S) # 0
  BY <1>1, FS_EmptySet
<1> QED
  BY <1>1, <1>2, <1>3

LEMMA OneMore ==
  ASSUME NEW S \in SUBSET Handles, NEW h \in Handles \ S
  PROVE  Cardinality(S \cup {h}) = Cardinality(S) + 1
BY HoldersFinite, FS_AddElement

(* Whoever holds a counted object keeps its count above zero.             *)
LEMMA HeldIsAlive ==
  ASSUME IInv, NEW h \in Handles, source[h] = NULL, object[h] \in Countable
  PROVE  refs[object[h]] > 0
<1>1. h \in HoldersOf(object[h]) /\ HoldersOf(object[h]) \subseteq Handles
  BY DEF HoldersOf
<1>2. Cardinality(HoldersOf(object[h])) > 0
  BY <1>1, OneLess
<1> QED
  BY <1>2 DEF IInv, HandlesCounted

(* Giving up what a handle held: its object is counted once less, and it   *)
(* is no longer among the holders.                                         *)
LEMMA ReleaseCounts ==
  ASSUME IInv, NEW h \in Handles, source[h] = NULL, NEW o \in Countable
  PROVE  /\ Released(refs, object[h])[o] = Cardinality(HoldersOf(o) \ {h})
         /\ Released(refs, object[h])[o] \in Nat
<1>1. HoldersOf(o) \subseteq Handles /\ o \in Objects
  BY HandlesAssumption DEF HoldersOf
<1>2. refs[o] = Cardinality(HoldersOf(o)) /\ refs[o] \in Nat
  BY <1>1 DEF IInv, HandlesCounted, HandlesTypeOK
<1>3. CASE object[h] = o
  <2>1. h \in HoldersOf(o)
    BY <1>3 DEF HoldersOf
  <2>2. Cardinality(HoldersOf(o) \ {h}) = refs[o] - 1 /\ refs[o] > 0
    BY <2>1, <1>1, <1>2, OneLess
  <2> QED
    BY <1>1, <1>2, <1>3, <2>2 DEF Released
<1>4. CASE object[h] # o
  <2>1. HoldersOf(o) \ {h} = HoldersOf(o)
    BY <1>4 DEF HoldersOf
  <2> QED
    BY <1>1, <1>2, <1>4, <2>1 DEF Released
<1> QED
  BY <1>3, <1>4

LEMMA ReleasedType ==
  ASSUME IInv, NEW h \in Handles, source[h] = NULL
  PROVE  Released(refs, object[h]) \in [Objects -> Nat]
<1> SUFFICES ASSUME NEW o \in Objects
             PROVE  Released(refs, object[h])[o] \in Nat
  BY DEF Released
<1>1. CASE o \in Countable
  BY <1>1, ReleaseCounts
<1>2. CASE o \notin Countable
  BY <1>2 DEF Released, IInv, HandlesTypeOK
<1> QED
  BY <1>1, <1>2

-----------------------------------------------------------------------------
LEMMA InitIInv == HandlesInit => IInv
<1> SUFFICES ASSUME HandlesInit PROVE IInv
  OBVIOUS
<1>1. HandlesTypeOK /\ SourcesHold
  BY HandlesAssumption DEF HandlesInit, HandlesTypeOK, SourcesHold, SourceOK
<1>2. ASSUME NEW o \in Countable PROVE refs[o] = Cardinality(HoldersOf(o))
  <2>1. HoldersOf(o) = {}
    BY HandlesAssumption DEF HandlesInit, HoldersOf
  <2>2. refs[o] = 0
    BY HandlesAssumption DEF HandlesInit
  <2> QED
    BY <2>1, <2>2, FS_EmptySet
<1> QED
  BY <1>1, <1>2 DEF IInv, HandlesCounted

LEMMA AdoptIInv ==
  ASSUME IInv, NEW h \in Handles, NEW o \in Objects, Adopt(h, o)
  PROVE  IInv'
<1> USE DEF Settled
<1>1. source[h] = NULL /\ \A g \in Handles : source[g] # h
  BY DEF Adopt
<1>2. HandlesTypeOK'
  BY <1>1, ReleasedType DEF Adopt, Retained, IInv, HandlesTypeOK
<1>3. SourcesHold'
  BY <1>1 DEF Adopt, IInv, SourcesHold, SourceOK, HandlesTypeOK
<1>4. ASSUME NEW x \in Countable PROVE refs'[x] = Cardinality(HoldersOf(x))'
  <2>1. x \in Objects /\ HoldersOf(x) \subseteq Handles
    BY HandlesAssumption DEF HoldersOf
  <2>2. /\ Released(refs, object[h])[x] = Cardinality(HoldersOf(x) \ {h})
        /\ Released(refs, object[h])[x] \in Nat
    BY <1>1, ReleaseCounts
  <2>3. CASE x = o
    <3>1. HoldersOf(x)' = (HoldersOf(x) \ {h}) \cup {h}
      BY <1>1, <2>3 DEF Adopt, HoldersOf, IInv, HandlesTypeOK
    <3>2. Cardinality((HoldersOf(x) \ {h}) \cup {h}) = Cardinality(HoldersOf(x) \ {h}) + 1
      BY <2>1, OneMore
    <3>3. refs'[x] = Released(refs, object[h])[x] + 1
      BY <2>1, <2>3 DEF Adopt, Retained
    <3> QED
      BY <3>1, <3>2, <3>3, <2>2
  <2>4. CASE x # o
    <3>1. HoldersOf(x)' = HoldersOf(x) \ {h}
      BY <1>1, <2>4 DEF Adopt, HoldersOf, IInv, HandlesTypeOK
    <3>2. refs'[x] = Released(refs, object[h])[x]
      BY <2>1, <2>4 DEF Adopt, Retained
    <3> QED
      BY <3>1, <3>2, <2>2
  <2> QED
    BY <2>3, <2>4
<1> QED
  BY <1>2, <1>3, <1>4 DEF IInv, HandlesCounted

LEMMA CopyIInv ==
  ASSUME IInv, NEW h \in Handles, NEW r \in Handles, Copy(h, r)
  PROVE  IInv'
<1> USE DEF Settled
<1>1. source[h] = NULL /\ (\A g \in Handles : source[g] # h) /\ source[r] = NULL /\ h # r
  BY DEF Copy
<1>2. HandlesTypeOK'
  BY <1>1, ReleasedType DEF Copy, IInv, HandlesTypeOK
<1>3. SourcesHold'
  BY <1>1, HandlesAssumption DEF Copy, IInv, SourcesHold, SourceOK, HandlesTypeOK
<1>4. ASSUME NEW x \in Countable PROVE refs'[x] = Cardinality(HoldersOf(x))'
  <2>1. HoldersOf(x)' = HoldersOf(x) \ {h}
    BY <1>1, HandlesAssumption DEF Copy, HoldersOf, IInv, HandlesTypeOK
  <2>2. Released(refs, object[h])[x] = Cardinality(HoldersOf(x) \ {h})
    BY <1>1, ReleaseCounts
  <2> QED
    BY <2>1, <2>2 DEF Copy
<1> QED
  BY <1>2, <1>3, <1>4 DEF IInv, HandlesCounted

LEMMA RetainIInv ==
  ASSUME IInv, NEW h \in Handles, Retain(h)
  PROVE  IInv'
<1>1. source[h] # NULL /\ source[h] \in Handles /\ object[h] \in Objects
  BY DEF Retain, IInv, SourcesHold, SourceOK, HandlesTypeOK
<1>2. HandlesTypeOK'
  BY DEF Retain, Retained, IInv, HandlesTypeOK
<1>3. SourcesHold'
  BY HandlesAssumption DEF Retain, IInv, SourcesHold, SourceOK, HandlesTypeOK
<1>4. ASSUME NEW x \in Countable PROVE refs'[x] = Cardinality(HoldersOf(x))'
  <2>1. x \in Objects /\ HoldersOf(x) \subseteq Handles /\ h \notin HoldersOf(x)
    BY <1>1, HandlesAssumption DEF HoldersOf
  <2>2. refs[x] = Cardinality(HoldersOf(x)) /\ refs[x] \in Nat
    BY <2>1 DEF IInv, HandlesCounted, HandlesTypeOK
  <2>3. CASE x = object[h]
    <3>1. HoldersOf(x)' = HoldersOf(x) \cup {h}
      BY <2>3 DEF Retain, HoldersOf, IInv, HandlesTypeOK
    <3>2. Cardinality(HoldersOf(x) \cup {h}) = Cardinality(HoldersOf(x)) + 1
      BY <2>1, OneMore
    <3> QED
      BY <2>1, <2>2, <2>3, <3>1, <3>2 DEF Retain, Retained
  <2>4. CASE x # object[h]
    <3>1. HoldersOf(x)' = HoldersOf(x)
      BY <2>4 DEF Retain, HoldersOf, IInv, HandlesTypeOK
    <3> QED
      BY <2>1, <2>2, <2>4, <3>1 DEF Retain, Retained
  <2> QED
    BY <2>3, <2>4
<1> QED
  BY <1>2, <1>3, <1>4 DEF IInv, HandlesCounted

LEMMA MoveIInv ==
  ASSUME IInv, NEW h \in Handles, NEW r \in Handles, Move(h, r)
  PROVE  IInv'
<1> USE DEF Settled
<1>1. /\ source[h] = NULL /\ \A g \in Handles : source[g] # h
      /\ source[r] = NULL /\ \A g \in Handles : source[g] # r
      /\ h # r
  BY DEF Move
<1>2. HandlesTypeOK'
  BY <1>1, ReleasedType DEF Move, IInv, HandlesTypeOK
<1>3. SourcesHold'
  BY <1>1 DEF Move, IInv, SourcesHold, SourceOK, HandlesTypeOK
<1>4. ASSUME NEW x \in Countable PROVE refs'[x] = Cardinality(HoldersOf(x))'
  <2>1. x # NULL /\ HoldersOf(x) \subseteq Handles
    BY HandlesAssumption DEF HoldersOf
  <2>2. Released(refs, object[h])[x] = Cardinality(HoldersOf(x) \ {h})
    BY <1>1, ReleaseCounts
  <2>3. CASE object[r] = x
    \* h takes the place of r among the holders.
    <3> DEFINE Others == (HoldersOf(x) \ {h}) \ {r}
    <3>1. r \in HoldersOf(x) \ {h}
      BY <1>1, <2>3 DEF HoldersOf
    <3>2. Cardinality(Others) = Cardinality(HoldersOf(x) \ {h}) - 1
      BY <2>1, <3>1, OneLess
    <3>3. HoldersOf(x)' = Others \cup {h}
      BY <1>1, <2>1, <2>3 DEF Move, HoldersOf, IInv, HandlesTypeOK
    <3>4. Cardinality(Others \cup {h}) = Cardinality(Others) + 1
      BY <2>1, OneMore
    <3>5. Cardinality(HoldersOf(x) \ {h}) \in Nat
      BY <2>1, HoldersFinite
    <3> QED
      BY <2>2, <3>2, <3>3, <3>4, <3>5 DEF Move
  <2>4. CASE object[r] # x
    <3>1. HoldersOf(x)' = HoldersOf(x) \ {h}
      BY <1>1, <2>1, <2>4 DEF Move, HoldersOf, IInv, HandlesTypeOK
    <3> QED
      BY <2>2, <3>1 DEF Move
  <2> QED
    BY <2>3, <2>4
<1> QED
  BY <1>2, <1>3, <1>4 DEF IInv, HandlesCounted

LEMMA DestroyIInv ==
  ASSUME IInv, NEW h \in Handles, Destroy(h)
  PROVE  IInv'
<1> USE DEF Settled
<1>1. source[h] = NULL /\ \A g \in Handles : source[g] # h
  BY DEF Destroy
<1>2. HandlesTypeOK'
  BY <1>1, ReleasedType DEF Destroy, IInv, HandlesTypeOK
<1>3. SourcesHold'
  BY <1>1 DEF Destroy, IInv, SourcesHold, SourceOK, HandlesTypeOK
<1>4. ASSUME NEW x \in Countable PROVE refs'[x] = Cardinality(HoldersOf(x))'
  <2>1. HoldersOf(x)' = HoldersOf(x) \ {h}
    BY <1>1, HandlesAssumption DEF Destroy, HoldersOf, IInv, HandlesTypeOK
  <2>2. Released(refs, object[h])[x] = Cardinality(HoldersOf(x) \ {h})
    BY <1>1, ReleaseCounts
  <2> QED
    BY <2>1, <2>2 DEF Destroy
<1> QED
  BY <1>2, <1>3, <1>4 DEF IInv, HandlesCounted

LEMMA NextIInv == IInv /\ [HandlesNext]_handleVars => IInv'
<1> SUFFICES ASSUME IInv, [HandlesNext]_handleVars PROVE IInv'
  OBVIOUS
<1>1. CASE HandlesNext
  BY <1>1, AdoptIInv, CopyIInv, RetainIInv, MoveIInv, DestroyIInv DEF HandlesNext
<1>2. CASE UNCHANGED handleVars
  BY <1>2 DEF handleVars, IInv, HandlesTypeOK, HandlesCounted, HoldersOf, SourcesHold, SourceOK
<1> QED
  BY <1>1, <1>2

LEMMA IInvHolds == HandlesSpec => []IInv
BY InitIInv, NextIInv, PTL DEF HandlesSpec

(* The count of every object is the number of the handles that hold it.    *)
THEOREM CountsAreRight == HandlesSpec => []HandlesCounted
BY IInvHolds, PTL DEF IInv

(* No handle ever refers to an object that has been destroyed.             *)
THEOREM HandlesNeverDangle == HandlesSpec => []NoDangling
<1>1. IInv => NoDangling
  <2> SUFFICES ASSUME IInv, NEW h \in Handles, object[h] \in Countable
               PROVE  refs[object[h]] > 0
    BY DEF NoDangling
  <2>1. CASE source[h] = NULL
    BY <2>1, HeldIsAlive
  <2>2. CASE source[h] # NULL
    <3>1. /\ source[h] \in Handles /\ source[source[h]] = NULL
          /\ object[source[h]] = object[h]
      BY <2>2 DEF IInv, SourcesHold, SourceOK
    <3> QED
      BY <3>1, HeldIsAlive
  <2> QED
    BY <2>1, <2>2
<1> QED
  BY <1>1, IInvHolds, PTL

-----------------------------------------------------------------------------
(***************************************************************************)
(* The default objects, for any threads and whatever each of them asks for.*)
(*                                                                         *)
(* A thread's stack names its variables: every call but the outermost is   *)
(* one that the next outer makeDefault needs, so that it has a local       *)
(* variable for the result.  A default_ is written only by the thread that *)
(* is inside its call_once.                                                *)
(***************************************************************************)

Calls == [kind : Kinds, set : BOOLEAN, next : Nat \ {0}]

\* The innermost call is one that the next one needs, and the outermost one
\* that the thread makes; only that can be setDefault.
StackOK(t) ==
  /\ stack[t] \in Seq(Calls)
  /\ \A i \in 1 .. Len(stack[t]) :
       IF i = Len(stack[t])
       THEN stack[t][i].kind \in Asked[t]
       ELSE /\ ~stack[t][i].set
            /\ \E j \in 1 .. Len(Needs[stack[t][i + 1].kind]) : stack[t][i].kind = Needs[stack[t][i + 1].kind][j]

StacksOK == DOMAIN stack = Callers /\ \A t \in Callers : StackOK(t)

DefaultsInv == DOMAIN object = Handles /\ DOMAIN once = Kinds /\ StacksOK

LEMMA NeedsFacts ==
  /\ \A k \in Kinds : Needs[k] \in Seq(Kinds) /\ Len(Needs[k]) \in Nat
  /\ \A k \in Kinds : \A j \in 1 .. Len(Needs[k]) : Needs[k][j] \in Kinds
<1>1. /\ Needs["Platform"] = <<>> /\ Needs["Context"] = <<"Platform">>
      /\ Needs["Device"] = <<"Context">> /\ Needs["Queue"] = <<"Context", "Device">>
  BY DEF Needs
<1>2. /\ <<>> \in Seq(Kinds) /\ <<"Platform">> \in Seq(Kinds) /\ <<"Context">> \in Seq(Kinds)
      /\ <<"Context", "Device">> \in Seq(Kinds)
  BY DEF Kinds
<1>3. \A k \in Kinds : Needs[k] \in Seq(Kinds)
  BY <1>1, <1>2 DEF Kinds
<1> QED
  BY <1>3

(* The thread's variables and those of the class are handles.              *)
LEMMA HandleNames ==
  ASSUME NEW t \in Callers, NEW k \in Kinds
  PROVE  /\ DefaultOf(k) \in Handles /\ Temporary(t, k) \in Handles
         /\ k \in Asked[t] => User(t, k) \in Handles
         /\ \A j \in 1 .. Len(Needs[k]) : Local(t, k, Needs[k][j]) \in Handles
<1>1. Temporary(t, k) \in Frame(t) /\ (k \in Asked[t] => User(t, k) \in Frame(t))
  BY DEF Frame
<1>2. ASSUME NEW j \in 1 .. Len(Needs[k]) PROVE Local(t, k, Needs[k][j]) \in Frame(t)
  <2>1. Local(t, k, Needs[k][j]) \in Locals(t, k)
    BY DEF Locals
  <2> QED
    BY <2>1 DEF Frame
<1>3. Frame(t) \subseteq Handles /\ DefaultOf(k) \in Handles
  BY DefaultsAssumption DEF DefaultHandles
<1> QED
  BY <1>1, <1>2, <1>3

(* A default is in nobody's stack frame.                                   *)
LEMMA DefaultIsShared ==
  ASSUME NEW t \in Callers, NEW k, NEW a, NEW b
  PROVE  DefaultOf(k) # <<t, a, b>>
<1>1. t # "default"
  BY DefaultsAssumption
<1> QED
  BY <1>1 DEF DefaultOf

(* What Continue, AskForNeed and HandBack make of a stack.                 *)
LEMMA TopReplaced ==
  ASSUME NEW S, NEW s \in Seq(S), s # <<>>, NEW x \in S
  PROVE  /\ <<x>> \o Tail(s) \in Seq(S) /\ Len(<<x>> \o Tail(s)) = Len(s)
         /\ \A i \in 1 .. Len(s) : (<<x>> \o Tail(s))[i] = IF i = 1 THEN x ELSE s[i]
<1>1. Tail(s) \in Seq(S) /\ Len(Tail(s)) = Len(s) - 1 /\ \A i \in 1 .. Len(Tail(s)) : Tail(s)[i] = s[i + 1]
  BY HeadTailProperties
<1>2. <<x>> \in Seq(S) /\ Len(<<x>>) = 1 /\ <<x>>[1] = x
  OBVIOUS
<1> DEFINE one == <<x>>
           rest == Tail(s)
<1> HIDE DEF one, rest
<1>3. /\ one \o rest \in Seq(S) /\ Len(one \o rest) = Len(one) + Len(rest)
      /\ \A i \in 1 .. Len(one) + Len(rest) : (one \o rest)[i] = IF i <= Len(one) THEN one[i] ELSE rest[i - Len(one)]
  BY <1>1, <1>2, ConcatProperties DEF one, rest
<1>4. Len(s) \in Nat /\ Len(s) > 0
  BY EmptySeq
<1>5. Len(one) = 1 /\ one[1] = x /\ Len(rest) = Len(s) - 1 /\ \A i \in 1 .. Len(s) - 1 : rest[i] = s[i + 1]
  BY <1>1, <1>2 DEF one, rest
<1>6. \A i \in 1 .. Len(s) : (one \o rest)[i] = IF i = 1 THEN x ELSE s[i]
  <2> TAKE i \in 1 .. Len(s)
  <2>1. CASE i = 1
    BY <1>3, <1>4, <1>5, <2>1
  <2>2. CASE i # 1
    <3>1. i - 1 \in 1 .. Len(s) - 1 /\ (i - 1) + 1 = i
      BY <1>4, <2>2
    <3> QED
      BY <1>3, <1>4, <1>5, <2>2, <3>1
  <2> QED
    BY <2>1, <2>2
<1> QED
  BY <1>3, <1>4, <1>5, <1>6 DEF one, rest

LEMMA Pushed ==
  ASSUME NEW S, NEW s \in Seq(S), NEW x \in S
  PROVE  /\ <<x>> \o s \in Seq(S) /\ Len(<<x>> \o s) = Len(s) + 1
         /\ \A i \in 1 .. Len(s) + 1 : (<<x>> \o s)[i] = IF i = 1 THEN x ELSE s[i - 1]
<1> DEFINE one == <<x>>
<1>1. one \in Seq(S) /\ Len(one) = 1 /\ one[1] = x
  OBVIOUS
<1> HIDE DEF one
<1>2. /\ one \o s \in Seq(S) /\ Len(one \o s) = Len(one) + Len(s)
      /\ \A i \in 1 .. Len(one) + Len(s) : (one \o s)[i] = IF i <= Len(one) THEN one[i] ELSE s[i - Len(one)]
  BY <1>1, ConcatProperties
<1>3. Len(s) \in Nat
  OBVIOUS
<1>4. /\ one \o s \in Seq(S) /\ Len(one \o s) = Len(s) + 1
      /\ \A i \in 1 .. Len(s) + 1 : (one \o s)[i] = IF i = 1 THEN x ELSE s[i - 1]
  BY <1>1, <1>2, <1>3
<1> QED
  BY <1>4 DEF one

(* A thread that is in a call has a variable for its result.               *)
LEMMA TopFacts ==
  ASSUME StacksOK, NEW t \in Callers, Busy(t)
  PROVE  /\ Len(stack[t]) \in Nat \ {0} /\ stack[t] \in Seq(Calls) /\ stack[t] # <<>>
         /\ Top(t) = stack[t][1] /\ Top(t) \in Calls /\ Top(t).kind \in Kinds
         /\ Result(t) \in Handles /\ Result(t)[1] = t
         /\ Top(t).set => User(t, Top(t).kind) \in Handles
<1>1. stack[t] \in Seq(Calls) /\ stack[t] # <<>> /\ StackOK(t)
  BY DEF StacksOK, StackOK, Busy
<1>2. Len(stack[t]) \in Nat \ {0}
  BY <1>1, EmptySeq
<1>3. Top(t) = stack[t][1]
  BY <1>1 DEF Top
<1>4. ASSUME NEW i \in 1 .. Len(stack[t]) PROVE stack[t][i] \in Calls /\ stack[t][i].kind \in Kinds
  <2>1. stack[t][i] \in Calls
    BY <1>1
  <2> QED
    BY <2>1 DEF Calls
<1>5. CASE Len(stack[t]) = 1
  <2>1. Top(t).kind \in Asked[t] /\ Top(t) \in Calls /\ Top(t).kind \in Kinds
    BY <1>1, <1>3, <1>4, <1>5 DEF StackOK
  <2>2. User(t, Top(t).kind) \in Handles /\ Result(t) = User(t, Top(t).kind)
    BY <1>5, <2>1, HandleNames DEF Result
  <2> QED
    BY <1>1, <1>2, <1>3, <2>1, <2>2 DEF User
<1>6. CASE Len(stack[t]) # 1
  <2>1. 1 \in 1 .. Len(stack[t]) /\ 2 \in 1 .. Len(stack[t]) /\ 1 # Len(stack[t])
    <3> DEFINE n == Len(stack[t])
    <3>1. n \in Nat \ {0} /\ n # 1
      BY <1>2, <1>6
    <3> HIDE DEF n
    <3>2. 1 \in 1 .. n /\ 2 \in 1 .. n /\ 1 # n
      BY <3>1
    <3> QED
      BY <3>2 DEF n
  <2>2. PICK j \in 1 .. Len(Needs[stack[t][1 + 1].kind]) : stack[t][1].kind = Needs[stack[t][1 + 1].kind][j]
    BY <1>1, <2>1 DEF StackOK
  <2>3. ~stack[t][1].set
    BY <1>1, <2>1 DEF StackOK
  <2>4. Local(t, stack[t][2].kind, Needs[stack[t][2].kind][j]) \in Handles
    BY <1>4, <2>1, <2>2, HandleNames
  <2>5. Result(t) = Local(t, stack[t][2].kind, Needs[stack[t][2].kind][j])
    BY <1>3, <1>6, <2>2 DEF Result
  <2>6. Result(t)[1] = t
    BY <2>5 DEF Local
  <2> QED
    BY <1>1, <1>2, <1>3, <1>4, <2>1, <2>3, <2>4, <2>5, <2>6
<1> QED
  BY <1>5, <1>6

(* The stack of one thread changes, and stays as it must be.               *)
LEMMA OneStackChanges ==
  ASSUME StacksOK, NEW t \in Callers, NEW s, stack' = [stack EXCEPT ![t] = s],
         s \in Seq(Calls),
         \A i \in 1 .. Len(s) :
           IF i = Len(s)
           THEN s[i].kind \in Asked[t]
           ELSE /\ ~s[i].set
                /\ \E j \in 1 .. Len(Needs[s[i + 1].kind]) : s[i].kind = Needs[s[i + 1].kind][j]
  PROVE  StacksOK'
<1>1. DOMAIN stack' = Callers /\ stack'[t] = s /\ \A u \in Callers \ {t} : stack'[u] = stack[u]
  BY DEF StacksOK
<1>2. ASSUME NEW u \in Callers \ {t} PROVE StackOK(u)'
  <2>1. stack'[u] = stack[u] /\ StackOK(u)
    BY <1>1 DEF StacksOK
  <2> QED
    BY <2>1 DEF StackOK
<1>3. StackOK(t)'
  BY <1>1 DEF StackOK
<1> QED
  BY <1>1, <1>2, <1>3 DEF StacksOK

LEMMA ContinueStep ==
  ASSUME StacksOK, NEW t \in Callers, Busy(t), NEW n \in Nat \ {0}, Continue(t, n)
  PROVE  StacksOK'
<1> DEFINE x == [Top(t) EXCEPT !.next = n]
           s == <<x>> \o Tail(stack[t])
<1>1. x \in Calls /\ x.kind = Top(t).kind /\ x.set = Top(t).set
  BY TopFacts DEF Calls
<1> HIDE DEF x
<1>2. /\ s \in Seq(Calls) /\ Len(s) = Len(stack[t])
      /\ \A i \in 1 .. Len(stack[t]) : s[i] = IF i = 1 THEN x ELSE stack[t][i]
  BY <1>1, TopFacts, TopReplaced
<1>3. stack' = [stack EXCEPT ![t] = s]
  BY DEF Continue, x
<1> HIDE DEF s
<1>4. \A i \in 1 .. Len(s) : s[i].kind = stack[t][i].kind /\ s[i].set = stack[t][i].set
  BY <1>1, <1>2, TopFacts
<1>5. StackOK(t) /\ Len(s) \in Nat
  BY <1>2, TopFacts DEF StacksOK
<1>6. ASSUME NEW i \in 1 .. Len(s)
      PROVE  IF i = Len(s)
             THEN s[i].kind \in Asked[t]
             ELSE /\ ~s[i].set
                  /\ \E j \in 1 .. Len(Needs[s[i + 1].kind]) : s[i].kind = Needs[s[i + 1].kind][j]
  <2>1. CASE i = Len(s)
    BY <1>2, <1>4, <1>5, <2>1 DEF StackOK
  <2>2. CASE i # Len(s)
    <3>1. i + 1 \in 1 .. Len(s)
      BY <1>5, <2>2
    <3>2. /\ ~stack[t][i].set
          /\ \E j \in 1 .. Len(Needs[stack[t][i + 1].kind]) : stack[t][i].kind = Needs[stack[t][i + 1].kind][j]
      BY <1>2, <1>5, <2>2 DEF StackOK
    <3>3. s[i].kind = stack[t][i].kind /\ s[i + 1].kind = stack[t][i + 1].kind /\ s[i].set = stack[t][i].set
      BY <1>4, <3>1
    <3> QED
      BY <2>2, <3>2, <3>3
  <2> QED
    BY <2>1, <2>2
<1> QED
  BY <1>2, <1>3, <1>6, OneStackChanges

LEMMA AskStep ==
  ASSUME StacksOK, NEW t \in Callers, AskForNeed(t)
  PROVE  StacksOK'
<1> DEFINE need == Needs[Top(t).kind][Top(t).next]
           x == Call(need, FALSE)
           s == <<x>> \o stack[t]
<1>1. Busy(t) /\ Top(t).next <= Len(Needs[Top(t).kind]) /\ stack' = [stack EXCEPT ![t] = s]
  BY DEF AskForNeed, Inside
<1>2. Top(t).next \in 1 .. Len(Needs[Top(t).kind]) /\ need \in Kinds
  BY <1>1, TopFacts, NeedsFacts DEF Calls
<1>3. x \in Calls /\ x.kind = need /\ ~x.set
  BY <1>2 DEF Call, Calls
<1> HIDE DEF x
<1>4. /\ s \in Seq(Calls) /\ Len(s) = Len(stack[t]) + 1
      /\ \A i \in 1 .. Len(stack[t]) + 1 : s[i] = IF i = 1 THEN x ELSE stack[t][i - 1]
  BY <1>1, <1>3, TopFacts, Pushed
<1> HIDE DEF s
<1>5. ASSUME NEW i \in 1 .. Len(s)
      PROVE  IF i = Len(s)
             THEN s[i].kind \in Asked[t]
             ELSE /\ ~s[i].set
                  /\ \E j \in 1 .. Len(Needs[s[i + 1].kind]) : s[i].kind = Needs[s[i + 1].kind][j]
  <2>0. StackOK(t) /\ Len(stack[t]) \in Nat \ {0}
    BY <1>1, TopFacts DEF StacksOK
  <2>1. CASE i = 1
    <3>1. s[i] = x /\ s[i + 1] = stack[t][1] /\ i # Len(s)
      BY <1>4, <2>0, <2>1
    <3>2. s[i + 1].kind = Top(t).kind
      BY <1>1, <3>1, TopFacts
    <3> QED
      BY <1>2, <1>3, <3>1, <3>2
  <2>2. CASE i # 1
    <3>1. s[i] = stack[t][i - 1] /\ i - 1 \in 1 .. Len(stack[t])
      BY <1>4, <2>0, <2>2
    <3>2. CASE i = Len(s)
      BY <1>4, <2>0, <3>1, <3>2 DEF StackOK
    <3>3. CASE i # Len(s)
      <4>1. s[i + 1] = stack[t][(i - 1) + 1] /\ i - 1 # Len(stack[t])
        BY <1>4, <2>0, <2>2, <3>3
      <4> QED
        BY <2>0, <3>1, <3>3, <4>1 DEF StackOK
    <3> QED
      BY <3>2, <3>3
  <2> QED
    BY <2>1, <2>2
<1> QED
  BY <1>1, <1>4, <1>5, OneStackChanges

LEMMA HandBackStep ==
  ASSUME StacksOK, NEW t \in Callers, HandBack(t)
  PROVE  StacksOK'
<1>1. Busy(t)
  BY DEF HandBack
<1>2. CASE Len(stack[t]) = 1
  <2>1. stack' = [stack EXCEPT ![t] = <<>>]
    BY <1>2 DEF HandBack
  <2>2. <<>> \in Seq(Calls) /\ Len(<<>>) = 0 /\ ~\E i \in 1 .. 0 : TRUE
    BY EmptySeq
  <2> DEFINE s == <<>>
  <2>3. s \in Seq(Calls) /\ (\A i \in 1 .. Len(s) : FALSE) /\ stack' = [stack EXCEPT ![t] = s]
    BY <2>1, <2>2
  <2> HIDE DEF s
  <2> QED
    BY <2>3, OneStackChanges
<1>3. CASE Len(stack[t]) # 1
  <2> DEFINE rest == Tail(stack[t])
             x == Advanced(stack[t][2])
             s == <<x>> \o Tail(rest)
  <2>1. stack' = [stack EXCEPT ![t] = s]
    <3>1. stack' = [stack EXCEPT ![t] = IF Len(stack[t]) = 1 THEN <<>> ELSE s]
      BY Zenon DEF HandBack
    <3> HIDE DEF s
    <3> QED
      BY <1>3, <3>1
  <2>2. /\ rest \in Seq(Calls) /\ Len(rest) = Len(stack[t]) - 1
        /\ \A i \in 1 .. Len(rest) : rest[i] = stack[t][i + 1]
    BY <1>1, TopFacts, HeadTailProperties
  <2>3. Len(stack[t]) \in Nat /\ Len(stack[t]) >= 2 /\ StackOK(t) /\ rest # <<>>
    <3>1. Len(stack[t]) \in Nat \ {0} /\ StackOK(t)
      BY <1>1, TopFacts DEF StacksOK
    <3> DEFINE n == Len(stack[t])
    <3>2. n \in Nat /\ n >= 2
      <4>1. n \in Nat \ {0} /\ n # 1
        BY <1>3, <3>1
      <4> HIDE DEF n
      <4> QED
        BY <4>1
    <3>3. Len(rest) = n - 1
      BY <2>2
    <3>4. rest # <<>>
      <4> SUFFICES ASSUME rest = <<>> PROVE FALSE
        OBVIOUS
      <4>1. Len(rest) = 0
        BY EmptySeq
      <4> HIDE DEF n, rest
      <4> QED
        BY <3>2, <3>3, <4>1
    <3> QED
      BY <3>1, <3>2, <3>4
  <2>4. stack[t][2] \in Calls
    BY <2>3 DEF StackOK
  <2>5. x \in Calls /\ x.kind = stack[t][2].kind /\ x.set = stack[t][2].set
    BY <2>4 DEF Calls, Advanced
  <2> HIDE DEF x, rest
  <2>6. /\ s \in Seq(Calls) /\ Len(s) = Len(rest)
        /\ \A i \in 1 .. Len(rest) : s[i] = IF i = 1 THEN x ELSE rest[i]
    BY <2>2, <2>3, <2>5, TopReplaced
  <2> HIDE DEF s
  <2>7. Len(s) \in Nat /\ Len(s) + 1 = Len(stack[t])
        /\ \A i \in 1 .. Len(s) : s[i].kind = stack[t][i + 1].kind /\ s[i].set = stack[t][i + 1].set
    BY <2>2, <2>3, <2>5, <2>6
  <2>8. ASSUME NEW i \in 1 .. Len(s)
        PROVE  IF i = Len(s)
               THEN s[i].kind \in Asked[t]
               ELSE /\ ~s[i].set
                    /\ \E j \in 1 .. Len(Needs[s[i + 1].kind]) : s[i].kind = Needs[s[i + 1].kind][j]
    <3>1. i + 1 \in 1 .. Len(stack[t])
      BY <2>7
    <3>2. CASE i = Len(s)
      BY <2>3, <2>7, <3>1, <3>2 DEF StackOK
    <3>3. CASE i # Len(s)
      <4>1. i + 1 # Len(stack[t]) /\ i + 1 \in 1 .. Len(s)
        BY <2>7, <3>3
      <4> QED
        BY <2>3, <2>7, <3>1, <3>3, <4>1 DEF StackOK
    <3> QED
      BY <3>2, <3>3
  <2> QED
    BY <2>1, <2>6, <2>8, OneStackChanges
<1> QED
  BY <1>2, <1>3

-----------------------------------------------------------------------------
\* The defaults that are there stay as they are.
Stands == \A k \in Kinds : once[k] = "done" => /\ once'[k] = "done"
                                              /\ object'[DefaultOf(k)] = object[DefaultOf(k)]

LEMMA OneHandleOnly ==
  ASSUME NEW t \in Callers, DOMAIN object = Handles, NEW a, NEW b,
         \/ \E o : Adopt(<<t, a, b>>, o)
         \/ \E r : Copy(<<t, a, b>>, r)
         \/ Retain(<<t, a, b>>)
         \/ Destroy(<<t, a, b>>)
  PROVE  /\ DOMAIN object' = Handles
         /\ \A k \in Kinds : object'[DefaultOf(k)] = object[DefaultOf(k)]
<1> DEFINE h == <<t, a, b>>
<1>1. \A k \in Kinds : DefaultOf(k) # h /\ DefaultOf(k) \in Handles
  BY DefaultIsShared, HandleNames
<1> HIDE DEF h
<1>2. object' = object \/ \E o : object' = [object EXCEPT ![h] = o]
  BY DEF Adopt, Copy, Retain, Destroy, h
<1> QED
  BY <1>1, <1>2

LEMMA MakeStep ==
  ASSUME DefaultsInv, NEW t \in Callers, Make(t)
  PROVE  DefaultsInv' /\ Stands /\ [HandlesNext]_handleVars
<1> DEFINE k == Top(t).kind
<1>1. k \in Kinds /\ Len(Needs[k]) \in Nat
  BY TopFacts, NeedsFacts DEF DefaultsInv, Make, Inside
<1>2. once' = once /\ Continue(t, Len(Needs[k]) + 2) /\ Busy(t)
  BY DEF Make, Inside
<1>3. StacksOK'
  BY <1>1, <1>2, ContinueStep DEF DefaultsInv
<1>4. CASE UNCHANGED handleVars
  BY <1>2, <1>3, <1>4 DEF DefaultsInv, Stands, handleVars
<1>5. ASSUME NEW o \in Objects, Adopt(Temporary(t, k), o)
      PROVE  DefaultsInv' /\ Stands /\ [HandlesNext]_handleVars
  <2>1. HandlesNext
    BY <1>1, <1>5, HandleNames DEF HandlesNext
  <2>2. DOMAIN object' = Handles /\ \A c \in Kinds : object'[DefaultOf(c)] = object[DefaultOf(c)]
    BY <1>5, OneHandleOnly DEF Temporary, DefaultsInv
  <2> QED
    BY <1>2, <1>3, <2>1, <2>2 DEF DefaultsInv, Stands
<1> QED
  BY <1>4, <1>5 DEF Make

LEMMA PlaceStep ==
  ASSUME DefaultsInv, NEW t \in Callers, Place(t)
  PROVE  DefaultsInv' /\ Stands /\ [HandlesNext]_handleVars
<1> DEFINE k == Top(t).kind
           h == DefaultOf(k)
           r == Temporary(t, k)
<1>1. k \in Kinds /\ Top(t).next \in Nat \ {0} /\ h \in Handles /\ r \in Handles
  BY TopFacts, HandleNames DEF DefaultsInv, Place, Inside, Calls
<1>2. once' = once /\ Continue(t, Top(t).next + 1) /\ Busy(t) /\ once[k] = t /\ Move(h, r)
  BY DEF Place, Inside
<1>3. StacksOK'
  BY <1>1, <1>2, ContinueStep DEF DefaultsInv
<1>4. HandlesNext
  BY <1>1, <1>2 DEF HandlesNext
<1>5. once[k] # "done"
  BY <1>2, DefaultsAssumption
<1>6. \A c \in Kinds : DefaultOf(c) # r /\ DefaultOf(c) \in Handles /\ (c # k => DefaultOf(c) # h)
  <2>1. \A c \in Kinds : DefaultOf(c) # r /\ DefaultOf(c) \in Handles
    BY DefaultIsShared, HandleNames DEF Temporary
  <2> QED
    BY <2>1 DEF DefaultOf
<1>7. object' = [object EXCEPT ![h] = object[r], ![r] = NULL]
  BY <1>2 DEF Move
<1> HIDE DEF h, r, k
<1>8. \A c \in Kinds : c # k => object'[DefaultOf(c)] = object[DefaultOf(c)]
  BY <1>6, <1>7 DEF DefaultsInv
<1> QED
  BY <1>2, <1>3, <1>4, <1>5, <1>7, <1>8 DEF DefaultsInv, Stands

LEMMA LeaveMakeStep ==
  ASSUME DefaultsInv, NEW t \in Callers, LeaveMake(t)
  PROVE  DefaultsInv' /\ Stands /\ [HandlesNext]_handleVars
<1> DEFINE k == Top(t).kind
<1>1. k \in Kinds /\ once[k] = t /\ once[k] # "done" /\ stack' = stack
  BY TopFacts, DefaultsAssumption DEF DefaultsInv, LeaveMake, Inside
<1>2. StacksOK'
  BY <1>1 DEF DefaultsInv, StacksOK, StackOK
<1>3. \/ UNCHANGED handleVars /\ once' = [once EXCEPT ![k] = "done"]
      \/ \E j \in 1 .. Len(Needs[k]) : Destroy(Local(t, k, Needs[k][j])) /\ once' = once
  BY DEF LeaveMake
<1>4. CASE UNCHANGED handleVars /\ once' = [once EXCEPT ![k] = "done"]
  BY <1>1, <1>2, <1>4 DEF DefaultsInv, Stands, handleVars
<1>5. ASSUME NEW j \in 1 .. Len(Needs[k]), Destroy(Local(t, k, Needs[k][j])), once' = once
      PROVE  DefaultsInv' /\ Stands /\ [HandlesNext]_handleVars
  <2>1. HandlesNext
    BY <1>1, <1>5, HandleNames DEF HandlesNext
  <2>2. DOMAIN object' = Handles /\ \A c \in Kinds : object'[DefaultOf(c)] = object[DefaultOf(c)]
    BY <1>5, OneHandleOnly DEF Local, DefaultsInv
  <2> QED
    BY <1>2, <1>5, <2>1, <2>2 DEF DefaultsInv, Stands
<1> QED
  BY <1>3, <1>4, <1>5

LEMMA ProvideStep ==
  ASSUME DefaultsInv, NEW t \in Callers, Provide(t)
  PROVE  DefaultsInv' /\ Stands /\ [HandlesNext]_handleVars
<1> DEFINE k == Top(t).kind
           h == DefaultOf(k)
<1>1. /\ k \in Kinds /\ h \in Handles /\ User(t, k) \in Handles
      /\ once[k] = t /\ once[k] # "done" /\ Continue(t, 2) /\ Busy(t)
  BY TopFacts, HandleNames, DefaultsAssumption DEF DefaultsInv, Provide, Inside
<1>2. StacksOK'
  BY <1>1, ContinueStep DEF DefaultsInv
<1>3. Copy(h, User(t, k)) \/ Retain(h) \/ UNCHANGED handleVars
  BY DEF Provide, Counted
<1>4. [HandlesNext]_handleVars
  BY <1>1, <1>3 DEF HandlesNext
<1>5. object' = object \/ \E o : object' = [object EXCEPT ![h] = o]
  BY <1>3 DEF Copy, Retain, handleVars
<1>6. \E o : once' = [once EXCEPT ![k] = o]
  BY DEF Provide
<1>7. \A c \in Kinds : DefaultOf(c) \in Handles /\ (c # k => DefaultOf(c) # h)
  BY HandleNames DEF DefaultOf
<1> HIDE DEF h, k
<1>8. \A c \in Kinds : c # k => object'[DefaultOf(c)] = object[DefaultOf(c)] /\ once'[c] = once[c]
  BY <1>5, <1>6, <1>7 DEF DefaultsInv
<1> QED
  BY <1>1, <1>2, <1>4, <1>5, <1>6, <1>8 DEF DefaultsInv, Stands

LEMMA FetchStep ==
  ASSUME DefaultsInv, NEW t \in Callers, Fetch(t) \/ HandBack(t)
  PROVE  DefaultsInv' /\ Stands /\ [HandlesNext]_handleVars
<1>1. /\ Busy(t) /\ Top(t).kind \in Kinds /\ DefaultOf(Top(t).kind) \in Handles
      /\ Result(t) \in Handles /\ once' = once
  BY TopFacts, HandleNames DEF DefaultsInv, Fetch, HandBack
<1>2. StacksOK'
  BY <1>1, ContinueStep, HandBackStep DEF DefaultsInv, Fetch
<1>3. UNCHANGED handleVars \/ Copy(Result(t), DefaultOf(Top(t).kind)) \/ Retain(Result(t))
  BY DEF Fetch, HandBack, Counted
<1>4. [HandlesNext]_handleVars
  BY <1>1, <1>3 DEF HandlesNext
<1>5. \E a, b : Result(t) = <<t, a, b>>
  BY DEF Result, User, Local
<1>6. DOMAIN object' = Handles /\ \A c \in Kinds : object'[DefaultOf(c)] = object[DefaultOf(c)]
  BY <1>3, <1>5, OneHandleOnly DEF DefaultsInv, handleVars
<1> QED
  BY <1>1, <1>2, <1>4, <1>6 DEF DefaultsInv, Stands

LEMMA UserStep ==
  ASSUME DefaultsInv, NEW t \in Callers, NEW k \in Asked[t],
         UserCreates(t, k) \/ UserDrops(t, k) \/ getDefault(t, k) \/ setDefault(t, k)
  PROVE  DefaultsInv' /\ Stands /\ [HandlesNext]_handleVars
<1>1. k \in Kinds /\ User(t, k) \in Handles
  BY HandleNames, DefaultsAssumption
<1>2. CASE UserCreates(t, k) \/ UserDrops(t, k)
  <2>1. StacksOK' /\ once' = once
    BY <1>2 DEF UserCreates, UserDrops, DefaultsInv, StacksOK, StackOK
  <2>2. Destroy(User(t, k)) \/ \E o \in Objects : Adopt(User(t, k), o)
    BY <1>2, HandlesAssumption DEF UserCreates, UserDrops
  <2>3. HandlesNext
    BY <1>1, <2>2 DEF HandlesNext
  <2>4. DOMAIN object' = Handles /\ \A c \in Kinds : object'[DefaultOf(c)] = object[DefaultOf(c)]
    BY <2>2, OneHandleOnly DEF User, DefaultsInv
  <2> QED
    BY <2>1, <2>3, <2>4 DEF DefaultsInv, Stands
<1>3. CASE getDefault(t, k) \/ setDefault(t, k)
  <2>1. UNCHANGED <<handleVars, once>>
    BY <1>3 DEF getDefault, setDefault
  <2>2. PICK set \in BOOLEAN : stack' = [stack EXCEPT ![t] = <<Call(k, set)>>]
    BY <1>3 DEF getDefault, setDefault
  <2> DEFINE s == <<Call(k, set)>>
  <2>3. s \in Seq(Calls) /\ Len(s) = 1 /\ s[1].kind = k
    BY <1>1 DEF Call, Calls
  <2> HIDE DEF s
  <2>4. StacksOK'
    <3>1. stack' = [stack EXCEPT ![t] = s]
      BY <2>2 DEF s
    <3>2. \A i \in 1 .. Len(s) : i = Len(s) /\ s[i].kind \in Asked[t]
      BY <2>3
    <3> QED
      BY <2>3, <3>1, <3>2, OneStackChanges DEF DefaultsInv
  <2> QED
    BY <2>1, <2>4 DEF DefaultsInv, Stands, handleVars
<1> QED
  BY <1>2, <1>3

LEMMA DefaultsInvNext == DefaultsInv /\ [DefaultsNext]_defaultVars => DefaultsInv' /\ Stands /\ [HandlesNext]_handleVars
<1> SUFFICES ASSUME DefaultsInv, [DefaultsNext]_defaultVars
             PROVE  DefaultsInv' /\ Stands /\ [HandlesNext]_handleVars
  OBVIOUS
<1>1. ASSUME NEW t \in Callers, EnterOnce(t) PROVE DefaultsInv' /\ Stands /\ [HandlesNext]_handleVars
  <2>1. UNCHANGED <<handleVars, stack>> /\ once[Top(t).kind] = "never"
        /\ once' = [once EXCEPT ![Top(t).kind] = t]
    BY <1>1 DEF EnterOnce
  <2>2. \A k \in Kinds : once[k] = "done" => once'[k] = "done"
    BY <2>1 DEF DefaultsInv
  <2> QED
    BY <2>1, <2>2 DEF DefaultsInv, StacksOK, StackOK, Stands, handleVars
<1>2. ASSUME NEW t \in Callers, AskForNeed(t) PROVE DefaultsInv' /\ Stands /\ [HandlesNext]_handleVars
  <2>1. UNCHANGED <<handleVars, once>>
    BY <1>2 DEF AskForNeed
  <2>2. StacksOK'
    BY <1>2, AskStep DEF DefaultsInv
  <2> QED
    BY <2>1, <2>2 DEF DefaultsInv, Stands, handleVars
<1>3. CASE UNCHANGED defaultVars
  BY <1>3 DEF defaultVars, handleVars, DefaultsInv, StacksOK, StackOK, Stands
<1> QED
  BY <1>1, <1>2, <1>3, MakeStep, PlaceStep, LeaveMakeStep, ProvideStep, FetchStep, UserStep DEF DefaultsNext, Work

LEMMA DefaultsInvInit == DefaultsInit => DefaultsInv
<1> SUFFICES ASSUME DefaultsInit PROVE DefaultsInv
  OBVIOUS
<1>1. \A t \in Callers : stack[t] = <<>>
  BY DEF DefaultsInit
<1>2. ASSUME NEW t \in Callers PROVE StackOK(t)
  <2>1. stack[t] \in Seq(Calls) /\ Len(stack[t]) = 0
    BY <1>1, EmptySeq
  <2>2. 1 .. Len(stack[t]) = {}
    BY <2>1
  <2> QED
    BY <2>1, <2>2 DEF StackOK
<1> QED
  BY <1>2 DEF DefaultsInit, HandlesInit, DefaultsInv, StacksOK

LEMMA DefaultsInvHolds == DefaultsSpec => []DefaultsInv
BY DefaultsInvInit, DefaultsInvNext, PTL DEF DefaultsSpec

(* The default objects, the variables of makeDefault and those of the users *)
(* are handles: whatever the threads do is a step of CLHandles or none.    *)
THEOREM DefaultsAreHandles == DefaultsSpec => HandlesSpec
<1>1. DefaultsInit => HandlesInit
  BY DEF DefaultsInit
<1> QED
  BY <1>1, DefaultsInvNext, DefaultsInvHolds, PTL DEF DefaultsSpec, HandlesSpec

(* ... so that no thread is given a default that has been destroyed.       *)
THEOREM DefaultsNeverDangle == DefaultsSpec => []NoDangling
BY DefaultsAreHandles, HandlesNeverDangle, PTL

(* Once a default is there it is there for all threads: no later getDefault *)
(* or setDefault changes it.                                               *)
THEOREM DefaultStandsHolds == DefaultsSpec => DefaultStands
<1> DEFINE A == \A k \in Kinds : once[k] = "done" => /\ once'[k] = "done"
                                                     /\ object'[DefaultOf(k)] = object[DefaultOf(k)]
<1>1. DefaultsInv /\ [DefaultsNext]_defaultVars => [A]_defaultVars
  BY DefaultsInvNext DEF Stands
<1> QED
  BY <1>1, DefaultsInvHolds, PTL DEF DefaultsSpec, DefaultStands

-----------------------------------------------------------------------------
(***************************************************************************)
(* The commands of one host thread, for any memory objects, any arrays and *)
(* any number of calls.                                                    *)
(*                                                                         *)
(* What a call promises is fixed when it begins: what its source leads to  *)
(* once the device has executed all that is pending.  The device gets      *)
(* there whatever it has executed, because a command is queued behind the  *)
(* others and executing one changes nothing of where they lead.  So the    *)
(* invariant follows the promise from the source to the destination, over  *)
(* the mapped region if need be, and knows for a blocking call that it     *)
(* ends with nothing pending.                                              *)
(***************************************************************************)

(* Induction on the numbers, for a property that is given as a set: the   *)
(* well-founded relation of the library, read as the order.               *)
LEMMA BelowIsLess == \A x, y \in Nat : (<<x, y>> \in OpToRel(<, Nat)) <=> x < y
BY DEF OpToRel

(* Every set of numbers that is not empty has a least one.                 *)
LEMMA LeastNumber ==
  ASSUME NEW T, T \subseteq Nat, T # {}
  PROVE  \E x \in T : \A y \in T : ~ (y < x)
<1>1. IsWellFoundedOn(OpToRel(<, Nat), Nat)
  BY NatLessThanWellFounded
<1>2. \E x \in T : \A y \in T : ~ (<<y, x>> \in OpToRel(<, Nat))
  BY <1>1, WFMin
<1> QED
  BY <1>2, BelowIsLess

(* A set of numbers with 0 and every successor has all numbers.            *)
LEMMA Induction ==
  ASSUME NEW S, 0 \in S, \A n \in Nat : n \in S => n + 1 \in S
  PROVE  Nat \subseteq S
<1> DEFINE T == Nat \ S
<1> SUFFICES ASSUME T # {} PROVE FALSE
  OBVIOUS
<1>1. PICK x \in T : \A y \in T : ~ (y < x)
  BY LeastNumber
<1>2. x # 0 /\ x - 1 \in Nat /\ x - 1 < x
  BY <1>1
<1>3. x - 1 \in S
  BY <1>1, <1>2
<1> QED
  BY <1>1, <1>2, <1>3

-----------------------------------------------------------------------------
Contents == [Places -> Places]
Commands == [src : Places, dst : Places]

\* The contents after each of the first n commands of a queue.
Chain(h, n, m, queue) ==
  h = [k \in 0 .. n |-> IF k = 0 THEN m ELSE Moved(h[k - 1], queue[k])]

(* A command leaves contents behind.                                       *)
LEMMA MovedType == ASSUME NEW m \in Contents, NEW c \in Commands PROVE Moved(m, c) \in Contents
BY DEF Contents, Commands, Moved

(* There is such a chain, and what it holds are contents.                  *)
LEMMA ChainExists ==
  ASSUME NEW m \in Contents, NEW queue \in Seq(Commands)
  PROVE  \E h \in [0 .. Len(queue) -> Contents] : Chain(h, Len(queue), m, queue)
<1> DEFINE S == {n \in Nat : n <= Len(queue) => \E h \in [0 .. n -> Contents] : Chain(h, n, m, queue)}
<1>1. 0 \in S
  <2> DEFINE h == [k \in 0 .. 0 |-> m]
  <2>1. h \in [0 .. 0 -> Contents]
    OBVIOUS
  <2>2. Chain(h, 0, m, queue)
    BY DEF Chain
  <2> QED
    BY <2>1, <2>2
<1>2. ASSUME NEW n \in Nat, n \in S PROVE n + 1 \in S
  <2> SUFFICES ASSUME n + 1 <= Len(queue)
               PROVE  \E h \in [0 .. n + 1 -> Contents] : Chain(h, n + 1, m, queue)
    OBVIOUS
  <2>1. PICK h \in [0 .. n -> Contents] : Chain(h, n, m, queue)
    BY <1>2
  <2> DEFINE g == [k \in 0 .. n + 1 |-> IF k = n + 1 THEN Moved(h[n], queue[n + 1]) ELSE h[k]]
  <2>2. queue[n + 1] \in Commands /\ h[n] \in Contents
    OBVIOUS
  <2>3. g \in [0 .. n + 1 -> Contents]
    BY <2>2, MovedType
  <2>4. ASSUME NEW k \in 0 .. n + 1 PROVE g[k] = IF k = 0 THEN m ELSE Moved(g[k - 1], queue[k])
    <3>1. CASE k = n + 1
      <4>1. k # 0 /\ k - 1 = n /\ n \in 0 .. n + 1 /\ n # n + 1
        BY <3>1
      <4>2. g[k - 1] = h[n] /\ g[k] = Moved(h[n], queue[n + 1])
        BY <4>1, <3>1
      <4> QED
        BY <4>1, <4>2, <3>1
    <3>2. CASE k \in 0 .. n
      <4>1. g[k] = h[k]
        BY <3>2
      <4>2. h[k] = IF k = 0 THEN m ELSE Moved(h[k - 1], queue[k])
        BY <2>1, <3>2 DEF Chain
      <4>3. k # 0 => g[k - 1] = h[k - 1]
        BY <3>2
      <4> QED
        BY <4>1, <4>2, <4>3
    <3> QED
      BY <3>1, <3>2
  <2>5. Chain(g, n + 1, m, queue)
    <3> HIDE DEF g
    <3>1. DOMAIN g = 0 .. n + 1 /\ g = [k \in 0 .. n + 1 |-> g[k]]
      BY <2>3
    <3> QED
      BY <3>1, <2>4 DEF Chain
  <2> QED
    BY <2>3, <2>5
<1>3. Nat \subseteq S
  <2> HIDE DEF S
  <2> QED
    BY <1>1, <1>2, Induction
<1>4. Len(queue) \in S
  BY <1>3, LenProperties
<1> QED
  BY <1>4

(* Two chains agree as far as their queues do.                             *)
LEMMA ChainsAgree ==
  ASSUME NEW m, NEW queue, NEW longer, NEW n \in Nat, NEW l \in Nat, n <= l,
         NEW g, NEW h, Chain(g, n, m, queue), Chain(h, l, m, longer),
         \A k \in 1 .. n : queue[k] = longer[k]
  PROVE  g[n] = h[n]
<1> DEFINE S == {k \in Nat : k <= n => g[k] = h[k]}
<1>1. 0 \in S
  BY DEF Chain
<1>2. ASSUME NEW k \in Nat, k \in S PROVE k + 1 \in S
  <2> SUFFICES ASSUME k + 1 <= n PROVE g[k + 1] = h[k + 1]
    OBVIOUS
  <2>1. g[k] = h[k]
    BY <1>2
  <2>2. k + 1 # 0 /\ (k + 1) - 1 = k /\ k + 1 \in 0 .. n /\ k + 1 \in 0 .. l /\ k + 1 \in 1 .. n
    OBVIOUS
  <2>3. g[k + 1] = Moved(g[k], queue[k + 1]) /\ h[k + 1] = Moved(h[k], longer[k + 1])
    BY <2>2 DEF Chain
  <2> QED
    BY <2>1, <2>2, <2>3
<1>3. Nat \subseteq S
  <2> HIDE DEF S
  <2> QED
    BY <1>1, <1>2, Induction
<1> QED
  BY <1>3

(* What After computes is the end of any chain.                            *)
LEMMA AfterIsEnd ==
  ASSUME NEW m \in Contents, NEW queue \in Seq(Commands), NEW h, Chain(h, Len(queue), m, queue)
  PROVE  After(m, queue) = h[Len(queue)]
<1> DEFINE g == CHOOSE f : f = [k \in 0 .. Len(queue) |-> IF k = 0 THEN m ELSE Moved(f[k - 1], queue[k])]
<1>1. Chain(g, Len(queue), m, queue)
  BY DEF Chain
<1>2. After(m, queue) = g[Len(queue)]
  BY DEF After
<1>3. Len(queue) \in Nat
  OBVIOUS
<1> HIDE DEF g
<1> QED
  BY <1>1, <1>2, <1>3, ChainsAgree

(* A queue leads to contents ...                                           *)
LEMMA AfterType ==
  ASSUME NEW m \in Contents, NEW queue \in Seq(Commands)
  PROVE  After(m, queue) \in Contents
<1>1. PICK h \in [0 .. Len(queue) -> Contents] : Chain(h, Len(queue), m, queue)
  BY ChainExists
<1>2. Len(queue) \in 0 .. Len(queue)
  BY LenProperties
<1> QED
  BY <1>1, <1>2, AfterIsEnd

(* ... and an empty one nowhere else.                                      *)
LEMMA AfterNothing == ASSUME NEW m \in Contents PROVE After(m, <<>>) = m
<1>1. <<>> \in Seq(Commands) /\ Len(<<>>) = 0
  OBVIOUS
<1>2. PICK h \in [0 .. 0 -> Contents] : Chain(h, 0, m, <<>>)
  BY <1>1, ChainExists
<1>3. h[0] = m
  BY <1>2 DEF Chain
<1> QED
  BY <1>1, <1>2, <1>3, AfterIsEnd

(* A command that is queued is executed after the others.                  *)
LEMMA AfterOneMore ==
  ASSUME NEW m \in Contents, NEW queue \in Seq(Commands), NEW c \in Commands
  PROVE  After(m, Append(queue, c)) = Moved(After(m, queue), c)
<1> DEFINE longer == Append(queue, c)
           n      == Len(queue)
<1>1. longer \in Seq(Commands) /\ Len(longer) = n + 1 /\ longer[n + 1] = c /\ n \in Nat
      /\ \A k \in 1 .. n : queue[k] = longer[k]
  BY AppendProperties, LenProperties
<1> HIDE DEF longer, n
<1>2. PICK g : Chain(g, n, m, queue)
  BY ChainExists DEF n
<1>3. PICK h : Chain(h, n + 1, m, longer)
  BY <1>1, ChainExists
<1>4. g[n] = h[n]
  BY <1>1, <1>2, <1>3, ChainsAgree
<1>5. h[n + 1] = Moved(h[n], c)
  <2>1. n + 1 \in 0 .. n + 1 /\ n + 1 # 0 /\ (n + 1) - 1 = n
    BY <1>1
  <2> QED
    BY <1>1, <1>3, <2>1 DEF Chain
<1>6. After(m, queue) = g[n] /\ After(m, longer) = h[n + 1]
  BY <1>1, <1>2, <1>3, AfterIsEnd DEF n
<1> QED
  BY <1>4, <1>5, <1>6 DEF longer

(* When the first command is executed, what all lead to stays the same.    *)
LEMMA AfterFirst ==
  ASSUME NEW m \in Contents, NEW queue \in Seq(Commands), queue # <<>>
  PROVE  After(Moved(m, queue[1]), Tail(queue)) = After(m, queue)
<1> DEFINE n    == Len(queue) - 1
           rest == Tail(queue)
           next == Moved(m, queue[1])
<1>1. /\ n \in Nat /\ Len(queue) = n + 1 /\ rest \in Seq(Commands) /\ Len(rest) = n
      /\ \A k \in 1 .. n : rest[k] = queue[k + 1]
      /\ queue[1] \in Commands
  BY HeadTailProperties, EmptySeq, LenProperties
<1>2. next \in Contents
  BY <1>1, MovedType
<1> HIDE DEF n, rest, next
<1>3. PICK h \in [0 .. n + 1 -> Contents] : Chain(h, n + 1, m, queue)
  BY <1>1, ChainExists
<1> DEFINE g == [k \in 0 .. n |-> h[k + 1]]
<1>4. Chain(g, n, next, rest)
  <2>1. ASSUME NEW k \in 0 .. n PROVE g[k] = IF k = 0 THEN next ELSE Moved(g[k - 1], rest[k])
    <3>1. k + 1 \in 0 .. n + 1 /\ k + 1 # 0 /\ (k + 1) - 1 = k
      BY <1>1
    <3>2. g[k] = Moved(h[k], queue[k + 1])
      BY <1>3, <3>1 DEF Chain
    <3>3. CASE k = 0
      <4>1. h[0] = m
        BY <1>1, <1>3 DEF Chain
      <4> QED
        BY <3>2, <3>3, <4>1 DEF next
    <3>4. CASE k # 0
      <4>1. k - 1 \in 0 .. n /\ (k - 1) + 1 = k /\ k \in 1 .. n
        BY <1>1, <3>4
      <4>2. g[k - 1] = h[k] /\ rest[k] = queue[k + 1]
        BY <1>1, <4>1
      <4> QED
        BY <3>2, <3>4, <4>2
    <3> QED
      BY <3>3, <3>4
  <2>2. g = [k \in 0 .. n |-> g[k]]
    OBVIOUS
  <2> HIDE DEF g
  <2> QED
    BY <2>1, <2>2 DEF Chain
<1>5. After(next, rest) = g[n]
  <2> HIDE DEF g
  <2> QED
    BY <1>1, <1>2, <1>4, AfterIsEnd
<1>6. After(m, queue) = h[n + 1] /\ g[n] = h[n + 1]
  BY <1>1, <1>3, AfterIsEnd
<1> QED
  BY <1>5, <1>6 DEF next, rest

-----------------------------------------------------------------------------
\* What its calls have in common, by their functions.
CommandOK(c) ==
  /\ c.src \in Places /\ c.dst \in Places
  /\ c.f = "finish" => c.src = c.dst /\ ~c.asks
  /\ c.f \in {"copy", "Buffer"} => ~c.asks /\ ((c.src \in Arrays /\ c.dst \in Buffers) \/ (c.src \in Buffers /\ c.dst \in Arrays))
  /\ c.f = "functor" => ~c.blocking /\ c.src \in Buffers /\ c.dst \in Buffers
  /\ c.asks \in BOOLEAN /\ c.blocking \in BOOLEAN

(* Every call of the library is one of them.                               *)
LEMMA CommandsOK == ASSUME NEW c \in AllCalls, Sensible(c) PROVE CommandOK(c) /\ c.f \in {"enqueue", "finish", "copy", "Buffer", "functor"}
<1> DEFINE Known(d) == /\ d.src \in Places /\ d.dst \in Places /\ d.blocking \in BOOLEAN
                       /\ d = Command(d.f, d.src, d.dst, d.blocking)
                       /\ \/ d.f = "enqueue"
                          \/ d.f = "finish" /\ d.src = d.dst
                          \/ d.f \in {"copy", "Buffer"} /\ ((d.src \in Arrays /\ d.dst \in Buffers) \/ (d.src \in Buffers /\ d.dst \in Arrays))
                          \/ d.f = "functor" /\ ~d.blocking /\ d.src \in Buffers /\ d.dst \in Buffers
<1>1. ASSUME NEW s \in Places, NEW t \in Places, NEW b \in BOOLEAN PROVE Known(Command("enqueue", s, t, b))
  BY DEF Command
<1>2. MemoryObjects \subseteq Places /\ Arrays \subseteq Places /\ Buffers \subseteq Places /\ ImageObjects \subseteq Places
      /\ {Region, Pattern, Nowhere, Shared, View} \subseteq Places
  BY DEF Places, MemoryObjects
<1>3. \A d \in BufferCalls \cup RectCalls \cup ImageCalls : Known(d)
  BY DEF BufferCalls, RectCalls, ImageCalls, Moves, Within, Command, Places, MemoryObjects
<1>4. \A d \in ImageBufferCalls : Known(d)
  <2> HIDE DEF Known
  <2> TAKE d \in ImageBufferCalls
  <2>1. PICK q \in (ImageObjects \X Buffers) \cup (Buffers \X ImageObjects) : d = Command("enqueue", q[1], q[2], FALSE)
    BY Zenon DEF ImageBufferCalls
  <2>2. q[1] \in Places /\ q[2] \in Places
    BY <1>2
  <2> QED
    BY <1>1, <2>1, <2>2
<1>5. \A d \in FillBufferCalls \cup FillImageCalls \cup UnmapSVMCalls \cup InteropCalls : Known(d)
  <2> HIDE DEF Known
  <2> QED
    BY <1>1, <1>2 DEF FillBufferCalls, FillImageCalls, UnmapSVMCalls, InteropCalls
<1>50. \A d \in MapCalls \cup MapSVMCalls : Known(d)
  <2>1. MemoryObjects \subseteq Places
    BY DEF Places
  <2> HIDE DEF Known
  <2> QED
    BY <1>1, <1>2, <2>1 DEF MapCalls, MapSVMCalls
<1>6. \A d \in SyncCalls : Known(d)
  <2>1. Known(Command("finish", Nowhere, Nowhere, TRUE))
    BY <1>2 DEF Command
  <2> HIDE DEF Known
  <2> QED
    BY <1>1, <1>2, <2>1 DEF SyncCalls
<1>7. \A d \in KernelCalls : Known(d)
  <2> SUFFICES ASSUME NEW q \in Buffers \X Buffers PROVE Known(Command("functor", q[1], q[2], FALSE))
    BY DEF KernelCalls, Within
  <2>1. q[1] \in Buffers /\ q[2] \in Buffers
    OBVIOUS
  <2> QED
    BY <1>2, <2>1 DEF Command
<1>8. \A d \in CopyCalls \cup BufferMakers : Known(d)
  <2>1. ASSUME NEW f \in {"copy", "Buffer"}
        PROVE  /\ \A d \in {Command(f, a, b, TRUE) : a \in Arrays, b \in Buffers} : Known(d)
               /\ \A d \in {Command(f, b, a, TRUE) : a \in Arrays, b \in Buffers} : Known(d)
    <3>1. ASSUME NEW d \in {Command(f, a, b, TRUE) : a \in Arrays, b \in Buffers} PROVE Known(d)
      <4>1. PICK a \in Arrays, b \in Buffers : d = Command(f, a, b, TRUE)
        BY DEF Command
      <4>2. /\ d = Command(d.f, d.src, d.dst, d.blocking) /\ d.blocking \in BOOLEAN
            /\ d.f \in {"copy", "Buffer"} /\ d.src = a /\ d.dst = b
        BY <4>1 DEF Command
      <4>3. d.src \in Arrays /\ d.dst \in Buffers /\ d.src \in Places /\ d.dst \in Places
        BY <1>2, <4>2
      <4> QED
        BY <4>2, <4>3
    <3>2. ASSUME NEW d \in {Command(f, b, a, TRUE) : a \in Arrays, b \in Buffers} PROVE Known(d)
      <4>1. PICK a \in Arrays, b \in Buffers : d = Command(f, b, a, TRUE)
        BY DEF Command
      <4> QED
        BY <1>2, <4>1 DEF Command
    <3> QED
      BY <3>1, <3>2 DEF Command
  <2> QED
    BY <2>1, <1>2 DEF CopyCalls, BufferMakers, Command
<1>9. CASE c \in MapSVMCopies
  BY <1>2, <1>9 DEF MapSVMCopies, CommandOK
<1>10. CASE c \notin MapSVMCopies
  <2> DEFINE All == BufferCalls \cup RectCalls \cup ImageCalls \cup ImageBufferCalls \cup FillBufferCalls \cup FillImageCalls
           \cup MapCalls \cup MapSVMCalls \cup UnmapSVMCalls \cup SyncCalls \cup InteropCalls \cup KernelCalls
           \cup CopyCalls \cup BufferMakers
  <2>1. PICK d \in All, a \in BOOLEAN, e \in BOOLEAN : c = Asking(d, a, e)
    BY <1>10 DEF AllCalls
  <2>2. Known(d)
    <3> HIDE DEF Known
    <3> QED
      BY <1>3, <1>4, <1>5, <1>50, <1>6, <1>7, <1>8
  <2>3. c.f = d.f /\ c.src = d.src /\ c.dst = d.dst /\ c.blocking = d.blocking /\ c.asks = a
    BY <2>1, <2>2 DEF Command, Asking
  <2> QED
    BY <2>2, <2>3 DEF CommandOK, Sensible
<1> QED
  BY <1>9, <1>10

CommandsTypes ==
  /\ memory \in Contents /\ pending \in Seq(Commands)
  /\ args \in (Buffers \cup {Nowhere}) \X (Buffers \cup {Nowhere})
  /\ issued \in Nat /\ event \in Nat /\ calls \in Nat
  /\ promised \in Places
  /\ error \in BOOLEAN /\ ignored \in BOOLEAN
  /\ CommandOK(call)

\* Where a call can be.
Stages ==
  /\ call.f \in {"enqueue", "finish", "copy", "Buffer", "functor"}
  /\ at \in CASE call.f = "enqueue" -> {"idle", "default", "enqueue", "block"}
              [] call.f = "finish"  -> {"idle", "default", "finish"}
              [] call.f = "copy"    -> {"idle", "default", "map", "mapped", "unmap", "wait"}
              [] call.f = "Buffer"  -> {"idle", "default", "create", "newqueue", "map", "mapped", "unmap", "wait"}
              [] call.f = "functor" -> {"idle", "default", "arg1", "arg2", "launch"}

\* What a call has achieved.
Sought    == Projected[call.src] = promised
Delivered == Projected[call.dst] = promised
Downloads == call.dst \in Arrays
Achieved ==
  /\ at \in {"default", "enqueue", "finish", "create", "newqueue", "map", "arg1", "arg2", "launch"} => Sought
  /\ at = "arg2" => args[1] = call.src \/ ignored
  /\ at = "launch" => args = <<call.src, call.dst>> \/ ignored
  /\ at \in {"block", "wait"} => Delivered
  /\ at = "mapped" => IF Downloads THEN Projected[Region] = promised ELSE Sought
  /\ at = "unmap" => pending = <<>> /\ memory[IF Downloads THEN call.dst ELSE Region] = promised
  /\ at = "block" => call.blocking /\ (call.asks => event = issued)
  /\ at = "idle" /\ calls > 0 /\ ~error /\ ~ignored =>
       Delivered /\ (call.blocking => pending = <<>>) /\ (call.asks => event = issued)

CommandsInv == CommandsTypes /\ Stages /\ Achieved

(* Where the contents lead to: what a queued command changes, and what     *)
(* executing one does not.                                                 *)
LEMMA QueueProjected ==
  ASSUME CommandsTypes, NEW src \in Places, NEW dst \in Places, Queue(src, dst), UNCHANGED memory
  PROVE  /\ pending' \in Seq(Commands) /\ issued' \in Nat
         /\ Projected'[dst] = Projected[src]
         /\ \A o \in Places : o # dst => Projected'[o] = Projected[o]
<1> DEFINE c == [src |-> src, dst |-> dst]
<1>1. c \in Commands /\ memory \in Contents /\ pending \in Seq(Commands)
  BY DEF Commands, CommandsTypes
<1>2. pending' = Append(pending, c) /\ memory' = memory
  BY DEF Queue
<1>3. Projected' = Moved(Projected, c) /\ Projected \in Contents
  BY <1>1, <1>2, AfterOneMore, AfterType DEF Projected
<1>4. pending' \in Seq(Commands) /\ issued' \in Nat
  BY <1>1, <1>2, AppendProperties DEF Queue, CommandsTypes
<1>5. c.src = src /\ c.dst = dst
  OBVIOUS
<1> HIDE DEF c
<1> QED
  BY <1>3, <1>4, <1>5 DEF Moved, Contents

(* Executing one is a step on the way to where all of them lead.           *)
LEMMA ExecuteProjected ==
  ASSUME CommandsTypes, Execute
  PROVE  memory' \in Contents /\ pending' \in Seq(Commands) /\ Projected' = Projected /\ pending # <<>>
<1>1. pending # <<>> /\ memory \in Contents /\ pending \in Seq(Commands) /\ pending[1] \in Commands /\ Tail(pending) \in Seq(Commands)
  BY HeadTailProperties, EmptySeq DEF Execute, CommandsTypes
<1>2. memory' = Moved(memory, pending[1]) /\ pending' = Tail(pending)
  BY DEF Execute
<1> QED
  BY <1>1, <1>2, MovedType, AfterFirst DEF Projected

(* Nothing is under way when nothing is pending.                           *)
LEMMA ProjectedMemory ==
  ASSUME memory \in Contents, pending = <<>> PROVE Projected = memory
BY AfterNothing DEF Projected

(* Steps that neither queue nor execute a command change nothing of this.  *)
LEMMA SameProjected == UNCHANGED <<memory, pending>> => Projected' = Projected
BY DEF Projected

-----------------------------------------------------------------------------
(* At first nothing has been called.                                       *)
LEMMA CommandsStart == CommandsInit => CommandsInv
<1> SUFFICES ASSUME CommandsInit PROVE CommandsInv
  OBVIOUS
<1>1. Nowhere \in Places
  BY DEF Places
<1>2. CommandsTypes
  <2>1. memory \in Contents /\ pending \in Seq(Commands)
    BY DEF CommandsInit, Contents
  <2>2. CommandOK(call)
    BY <1>1 DEF CommandsInit, Command, CommandOK
  <2> QED
    BY <2>1, <2>2, <1>1 DEF CommandsInit, CommandsTypes
<1>3. Stages
  BY DEF CommandsInit, Stages, Command
<1>4. Achieved
  BY DEF CommandsInit, Achieved
<1> QED
  BY <1>2, <1>3, <1>4 DEF CommandsInv

(* What is promised is what the source leads to when the call begins.      *)
LEMMA InvokeStep == ASSUME CommandsInv, Invoke PROVE CommandsInv'
<1>1. PICK c \in AllCalls : /\ Sensible(c) /\ call' = c
                            /\ at' = IF c.free THEN "default" ELSE Begin(c)
                            /\ promised' = Projected[c.src]
  BY DEF Invoke
<1>2. CommandOK(c) /\ c.f \in {"enqueue", "finish", "copy", "Buffer", "functor"}
  BY <1>1, CommandsOK
<1>3. Projected' = Projected /\ Projected \in Contents
  BY AfterType, SameProjected DEF CommandsInv, CommandsTypes, Invoke, Projected
<1>4. CommandsTypes'
  <2>1. promised' \in Places
    BY <1>1, <1>2, <1>3 DEF CommandOK, Contents
  <2>2. CommandOK(call)'
    BY <1>1, <1>2 DEF CommandOK
  <2>3. /\ memory' = memory /\ pending' = pending /\ issued' = issued /\ event' = event /\ args' = args
        /\ calls' = calls + 1 /\ error' = FALSE /\ ignored' = FALSE
    BY DEF Invoke
  <2>4. memory' \in Contents /\ pending' \in Seq(Commands)
    BY <2>3 DEF CommandsInv, CommandsTypes
  <2>5. issued' \in Nat /\ event' \in Nat /\ calls' \in Nat /\ args' \in (Buffers \cup {Nowhere}) \X (Buffers \cup {Nowhere})
    BY <2>3 DEF CommandsInv, CommandsTypes
  <2>6. error' \in BOOLEAN /\ ignored' \in BOOLEAN
    BY <2>3
  <2> QED
    BY <2>1, <2>2, <2>4, <2>5, <2>6 DEF CommandsTypes
<1>5. Stages' /\ at' \in {"default", "enqueue", "finish", "map", "create", "arg1"}
  BY <1>1, <1>2 DEF Stages, Begin
<1>6. Achieved'
  BY <1>1, <1>3, <1>5 DEF Achieved, Sought
<1> QED
  BY <1>4, <1>5, <1>6 DEF CommandsInv

(* A call that the runtime refuses ends with an error.                     *)
LEMMA RefusedStep == ASSUME CommandsInv, Refused PROVE CommandsInv'
BY DEF Refused, Return, CommandsInv, CommandsTypes, Stages, Achieved

(* The default queue is had, or the call is refused.                       *)
LEMMA GetDefaultStep == ASSUME CommandsInv, GetDefault, ~Refused PROVE CommandsInv'
<1>1. at = "default" /\ at' = Begin(call) /\ UNCHANGED <<memory, pending, issued, event, args, call, error, ignored, promised, calls>>
  BY DEF GetDefault, Proceed
<1>2. Projected' = Projected
  BY <1>1, SameProjected
<1>3. CommandsTypes'
  BY <1>1 DEF CommandsInv, CommandsTypes
<1>4. Stages' /\ at' \in {"enqueue", "finish", "map", "create", "arg1"}
  BY <1>1 DEF CommandsInv, Stages, Begin
<1>5. Achieved'
  BY <1>1, <1>2, <1>4 DEF CommandsInv, Achieved, Sought
<1> QED
  BY <1>3, <1>4, <1>5 DEF CommandsInv

(* The command delivers what is promised, behind all that is pending.      *)
LEMMA EnqueueStep == ASSUME CommandsInv, Enqueue, ~Refused PROVE CommandsInv'
<1>1. /\ at = "enqueue" /\ Queue(call.src, call.dst) /\ Notify
      /\ IF call.blocking THEN at' = "block" /\ UNCHANGED error ELSE at' = "idle" /\ error' = FALSE
      /\ UNCHANGED <<memory, args, call, null, ignored, promised, calls>>
  BY DEF Enqueue, Proceed, Return
<1>2. call.src \in Places /\ call.dst \in Places /\ call.asks \in BOOLEAN
  BY DEF CommandsInv, CommandsTypes, CommandOK
<1>3. pending' \in Seq(Commands) /\ issued' \in Nat /\ Projected'[call.dst] = Projected[call.src]
  BY <1>1, <1>2, QueueProjected DEF CommandsInv
<1>4. CommandsTypes'
  BY <1>1, <1>3 DEF CommandsInv, CommandsTypes, Notify
<1>5. Stages'
  BY <1>1 DEF CommandsInv, Stages
<1>6. Delivered'
  BY <1>1, <1>3 DEF CommandsInv, Achieved, Sought, Delivered
<1>7. Achieved'
  BY <1>1, <1>2, <1>6 DEF Achieved, Notify
<1> QED
  BY <1>4, <1>5, <1>7 DEF CommandsInv

(* Nothing is pending when a blocking command or clFinish returns.         *)
LEMMA BlockStep == ASSUME CommandsInv, Block PROVE CommandsInv'
<1>1. /\ at \in {"block", "finish"} /\ pending = <<>> /\ at' = "idle" /\ error' = FALSE
      /\ UNCHANGED <<memory, pending, issued, event, args, call, null, ignored, promised, calls>>
  BY DEF Block, Return
<1>2. Projected' = Projected
  BY <1>1, SameProjected
<1>3. CommandsTypes' /\ Stages'
  BY <1>1 DEF CommandsInv, CommandsTypes, Stages
<1>4. Delivered' /\ (call.asks => event = issued)
  BY <1>1, <1>2 DEF CommandsInv, CommandsTypes, Stages, CommandOK, Achieved, Sought, Delivered
<1>5. Achieved'
  BY <1>1, <1>4 DEF Achieved
<1> QED
  BY <1>3, <1>5 DEF CommandsInv

(* copy() and the Buffer constructors: from here on the call is one that   *)
(* moves data between an array and a buffer.                               *)
LEMMA CopyFacts ==
  ASSUME CommandsInv, at \in {"create", "newqueue", "map", "mapped", "unmap", "wait"}
  PROVE  /\ call.f \in {"copy", "Buffer"} /\ ~call.asks
         /\ call.src \in Places /\ call.dst \in Places /\ call.src # Region /\ call.dst # Region
         /\ call.src # Nowhere /\ call.dst # Nowhere /\ call.src # call.dst
         /\ Region \in Places /\ Nowhere \in Places
<1>1. call.f \in {"copy", "Buffer"}
  BY DEF CommandsInv, Stages
<1>2. ~call.asks /\ ((call.src \in Arrays /\ call.dst \in Buffers) \/ (call.src \in Buffers /\ call.dst \in Arrays))
  BY <1>1 DEF CommandsInv, CommandsTypes, CommandOK
<1> QED
  BY <1>1, <1>2, PlacesAssumption DEF Places, MemoryObjects

(* A handle may be NULL: then the copy is refused.                         *)
LEMMA CreateStep == ASSUME CommandsInv, Create PROVE CommandsInv'
<1>1. /\ at \in {"create", "newqueue"} /\ at' = IF at = "create" THEN "newqueue" ELSE "map"
      /\ UNCHANGED <<memory, pending, issued, event, args, call, error, ignored, promised, calls>>
  BY DEF Create, Proceed
<1>2. Projected' = Projected
  BY <1>1, SameProjected
<1>3. CommandsTypes' /\ Stages'
  BY <1>1 DEF CommandsInv, CommandsTypes, Stages
<1>4. Achieved'
  BY <1>1, <1>2 DEF CommandsInv, Achieved, Sought
<1> QED
  BY <1>3, <1>4 DEF CommandsInv

(* The map shows the buffer, or leaves what is to be written where it is.  *)
LEMMA MapBufferStep == ASSUME CommandsInv, MapBuffer, ~Refused PROVE CommandsInv'
<1>1. /\ at = "map" /\ Queue(IF Downloads THEN call.src ELSE call.dst, Region) /\ at' = "mapped"
      /\ UNCHANGED <<memory, event, args, call, null, error, ignored, promised, calls>>
  BY DEF MapBuffer, Proceed, Downloads
<1> DEFINE from == IF Downloads THEN call.src ELSE call.dst
<1>2. from \in Places /\ call.src \in Places /\ call.src # Region /\ Region \in Places
  BY <1>1, CopyFacts
<1>3. /\ pending' \in Seq(Commands) /\ issued' \in Nat
      /\ Projected'[Region] = Projected[from] /\ Projected'[call.src] = Projected[call.src]
  BY <1>1, <1>2, QueueProjected DEF CommandsInv
<1>4. CommandsTypes' /\ Stages'
  BY <1>1, <1>3 DEF CommandsInv, CommandsTypes, Stages
<1>5. Achieved'
  BY <1>1, <1>3 DEF CommandsInv, Achieved, Sought, Downloads
<1> QED
  BY <1>4, <1>5 DEF CommandsInv

(* The copy finds the region as the device has left it.                    *)
LEMMA StdCopyStep == ASSUME CommandsInv, StdCopy PROVE CommandsInv'
<1>1. /\ at = "mapped" /\ pending = <<>> /\ at' = "unmap"
      /\ memory' = IF Downloads THEN [memory EXCEPT ![call.dst] = memory[Region]]
                   ELSE [memory EXCEPT ![Region] = memory[call.src]]
      /\ UNCHANGED <<pending, issued, event, args, call, null, error, ignored, promised, calls>>
  BY DEF StdCopy, Proceed, Downloads
<1>2. call.src \in Places /\ call.dst \in Places /\ Region \in Places /\ memory \in Contents
  BY <1>1, CopyFacts DEF CommandsInv, CommandsTypes
<1>3. Projected = memory
  BY <1>1, <1>2, ProjectedMemory
<1>4. CommandsTypes' /\ Stages'
  <2>1. memory' \in Contents
    BY <1>1, <1>2 DEF Contents
  <2> QED
    BY <1>1, <2>1 DEF CommandsInv, CommandsTypes, Stages
<1>5. memory'[IF Downloads THEN call.dst ELSE Region] = promised
  BY <1>1, <1>2, <1>3 DEF CommandsInv, Achieved, Sought, Contents
<1>6. Achieved'
  BY <1>1, <1>5 DEF Achieved, Downloads
<1> QED
  BY <1>4, <1>6 DEF CommandsInv

(* What was written reaches the buffer with the unmap; what was read stays.*)
LEMMA UnmapStep == ASSUME CommandsInv, UnmapMemObject, ~Refused PROVE CommandsInv'
<1>1. /\ at = "unmap" /\ at' = "wait"
      /\ IF Downloads THEN Queue(Nowhere, Nowhere) ELSE Queue(Region, call.dst)
      /\ UNCHANGED <<memory, event, args, call, null, error, ignored, promised, calls>>
  BY DEF UnmapMemObject, Proceed, Downloads
<1>2. /\ call.dst \in Places /\ call.dst # Nowhere /\ Region \in Places /\ Nowhere \in Places
      /\ memory \in Contents /\ pending = <<>> /\ memory[IF Downloads THEN call.dst ELSE Region] = promised
  BY <1>1, CopyFacts DEF CommandsInv, CommandsTypes, Achieved
<1>3. Projected = memory
  BY <1>2, ProjectedMemory
<1>4. pending' \in Seq(Commands) /\ issued' \in Nat /\ Projected'[call.dst] = promised
  <2>1. CASE Downloads
    BY <1>1, <1>2, <1>3, <2>1, QueueProjected DEF CommandsInv
  <2>2. CASE ~Downloads
    BY <1>1, <1>2, <1>3, <2>2, QueueProjected DEF CommandsInv
  <2> QED
    BY <2>1, <2>2
<1>5. CommandsTypes' /\ Stages'
  BY <1>1, <1>4 DEF CommandsInv, CommandsTypes, Stages
<1>6. Achieved'
  BY <1>1, <1>4 DEF Achieved, Delivered
<1> QED
  BY <1>5, <1>6 DEF CommandsInv

(* The wait for the unmap ends the copy, or its error is ignored.          *)
LEMMA WaitStep == ASSUME CommandsInv, Wait PROVE CommandsInv'
<1>1. /\ at = "wait" /\ at' = "idle" /\ error' = FALSE
      /\ (pending = <<>> /\ UNCHANGED ignored) \/ ignored' = TRUE
      /\ UNCHANGED <<memory, pending, issued, event, args, call, null, promised, calls>>
  BY DEF Wait, Return
<1>2. ~call.asks
  BY <1>1, CopyFacts
<1>3. Projected' = Projected
  BY <1>1, SameProjected
<1>4. CommandsTypes' /\ Stages'
  BY <1>1 DEF CommandsInv, CommandsTypes, Stages
<1>5. Achieved'
  BY <1>1, <1>2, <1>3 DEF CommandsInv, Achieved, Delivered
<1> QED
  BY <1>4, <1>5 DEF CommandsInv

(* A functor: its arguments are set unless an error was ignored.           *)
LEMMA SetArgStep == ASSUME CommandsInv, NEW k \in {1, 2}, SetArg(k) PROVE CommandsInv'
<1>1. /\ at = IF k = 1 THEN "arg1" ELSE "arg2"
      /\ at' = IF k = 1 THEN "arg2" ELSE "launch"
      /\ \/ args' = [args EXCEPT ![k] = IF k = 1 THEN call.src ELSE call.dst] /\ UNCHANGED ignored
         \/ ignored' = TRUE /\ UNCHANGED args
      /\ UNCHANGED <<memory, pending, issued, event, call, null, error, promised, calls>>
  BY DEF SetArg, Proceed
<1>2. call.f = "functor" /\ call.src \in Buffers /\ call.dst \in Buffers
  BY <1>1 DEF CommandsInv, Stages, CommandsTypes, CommandOK
<1>3. Projected' = Projected
  BY <1>1, SameProjected
<1>4. /\ args' \in (Buffers \cup {Nowhere}) \X (Buffers \cup {Nowhere})
      /\ ignored' \/ (/\ ~ignored
                      /\ k = 1 => args'[1] = call.src
                      /\ k = 2 => args'[1] = args[1] /\ args'[2] = call.dst)
  BY <1>1, <1>2 DEF CommandsInv, CommandsTypes
<1>5. CommandsTypes' /\ Stages'
  BY <1>1, <1>2, <1>4 DEF CommandsInv, CommandsTypes, Stages
<1>6. Achieved'
  BY <1>1, <1>3, <1>4 DEF CommandsInv, Achieved, Sought
<1> QED
  BY <1>5, <1>6 DEF CommandsInv

(* The kernel moves its arguments, which are the call's.                   *)
LEMMA LaunchStep == ASSUME CommandsInv, Launch, ~Refused PROVE CommandsInv'
<1>1. /\ at = "launch" /\ at' = "idle" /\ error' = FALSE
      /\ Queue(args[1], args[2]) /\ Notify
      /\ UNCHANGED <<memory, args, call, null, ignored, promised, calls>>
  BY DEF Launch, Return
<1>2. args[1] \in Places /\ args[2] \in Places /\ call.f = "functor" /\ ~call.blocking /\ call.asks \in BOOLEAN
  BY <1>1 DEF CommandsInv, CommandsTypes, Stages, CommandOK, Places, MemoryObjects
<1>3. pending' \in Seq(Commands) /\ issued' \in Nat /\ Projected'[args[2]] = Projected[args[1]]
  BY <1>1, <1>2, QueueProjected DEF CommandsInv
<1>4. CommandsTypes' /\ Stages'
  BY <1>1, <1>2, <1>3 DEF CommandsInv, CommandsTypes, Stages, Notify
<1>5. ~ignored => Delivered'
  BY <1>1, <1>3 DEF CommandsInv, Achieved, Sought, Delivered
<1>6. Achieved'
  BY <1>1, <1>2, <1>5 DEF Achieved, Notify
<1> QED
  BY <1>4, <1>6 DEF CommandsInv

(* The device executes a command between any two steps of the host.        *)
LEMMA ExecuteStep == ASSUME CommandsInv, Execute PROVE CommandsInv'
<1>1. UNCHANGED <<issued, event, args, call, at, null, error, ignored, promised, calls>>
  BY DEF Execute
<1>2. memory' \in Contents /\ pending' \in Seq(Commands) /\ Projected' = Projected /\ pending # <<>>
  BY ExecuteProjected DEF CommandsInv
<1>3. CommandsTypes' /\ Stages'
  BY <1>1, <1>2 DEF CommandsInv, CommandsTypes, Stages
<1>4. Achieved'
  BY <1>1, <1>2 DEF CommandsInv, Achieved, Sought, Delivered, Downloads
<1> QED
  BY <1>3, <1>4 DEF CommandsInv

(* Every step keeps the invariant.                                         *)
LEMMA CommandsInvNext == CommandsInv /\ [CommandsNext]_commandVars => CommandsInv'
<1> SUFFICES ASSUME CommandsInv, [CommandsNext]_commandVars, ~Refused PROVE CommandsInv'
  BY RefusedStep
<1>1. CASE UNCHANGED commandVars
  BY <1>1, SameProjected DEF commandVars, CommandsInv, CommandsTypes, Stages, Achieved, Sought, Delivered, Downloads
<1>2. CASE CommandsNext
  BY <1>1, <1>2, InvokeStep, GetDefaultStep, EnqueueStep, BlockStep, MapBufferStep, StdCopyStep, UnmapStep, WaitStep,
     CreateStep, SetArgStep, LaunchStep, ExecuteStep DEF CommandsNext, FinishFails, Over
<1> QED
  BY <1>1, <1>2

(* It is an invariant of the commands.                                     *)
LEMMA CommandsInvHolds == CommandsSpec => []CommandsInv
BY CommandsStart, CommandsInvNext, PTL DEF CommandsSpec

(* A call that reports success has done its work, whatever was under way   *)
(* before and whatever failed in calls before, unless it drops an error.   *)
THEOREM SuccessMeansDoneHolds == CommandsSpec => []SuccessMeansDone
<1>1. CommandsInv => SuccessMeansDone
  <2> SUFFICES ASSUME CommandsInv, at = "idle", calls > 0, ~error, ~ignored
               PROVE  /\ Projected[call.dst] = promised
                      /\ call.blocking => memory[call.dst] = promised
                      /\ call.asks => event = issued
    BY DEF SuccessMeansDone
  <2>1. Delivered /\ (call.blocking => pending = <<>>) /\ (call.asks => event = issued)
    BY DEF CommandsInv, Achieved
  <2>2. call.blocking => Projected = memory
    BY <2>1, ProjectedMemory DEF CommandsInv, CommandsTypes
  <2> QED
    BY <2>1, <2>2 DEF Delivered
<1> QED
  BY <1>1, CommandsInvHolds, PTL
=============================================================================
