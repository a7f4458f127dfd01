----------------------------- MODULE CLDefaults -----------------------------
(***************************************************************************)
(* The default platform, context, device and command queue of cl2.hpp.     *)
(* getDefault() and setDefault() of each class go through std::call_once:  *)
(* the first thread makes the default, which asks for the defaults of      *)
(* other classes on the way, and threads that come meanwhile wait for it.  *)
(*                                                                         *)
(* A thread's stack holds the calls it is in, the innermost first.  Every  *)
(* default_, every local variable and every variable of a user is a handle *)
(* of CLHandles, and every step is a step of a handle or changes none.     *)
(***************************************************************************)
EXTENDS CLHandles, Sequences

CONSTANTS Callers,
          Asked      \* the classes whose default each thread asks for or sets

Kinds == {"Platform", "Context", "Device", "Queue"}

\* Whose default each makeDefault asks for, in this order.
Needs == [Platform |-> <<>>, Context |-> <<"Platform">>,
          Device |-> <<"Context">>, Queue |-> <<"Context", "Device">>]

DefaultOf(k) == <<"default", k, k>>
User(t, k) == <<t, "user", k>>
Local(t, k, needed) == <<t, k, needed>>
Temporary(t, k) == <<t, k, k>>

\* The variables of a thread: its user's, those of a makeDefault for the
\* defaults that it needs, and what it has just created.
Locals(t, k) == {Local(t, k, Needs[k][i]) : i \in 1 .. Len(Needs[k])}
Frame(t) == {User(t, k) : k \in Asked[t]} \cup {Temporary(t, k) : k \in Kinds}
              \cup UNION {Locals(t, k) : k \in Kinds}

DefaultHandles == {DefaultOf(k) : k \in Kinds} \cup UNION {Frame(t) : t \in Callers}

ASSUME DefaultsAssumption == /\ DefaultHandles = Handles
                            /\ Asked \in [Callers -> SUBSET Kinds]
                            /\ Callers \cap {"default", "never", "done"} = {}

VARIABLES once,    \* default_initialized_: "never", "done", or who is in it
          stack    \* the calls of each thread

defaultVars == <<object, source, refs, once, stack>>

Call(k, set) == [kind |-> k, set |-> set, next |-> 1]

Top(t) == Head(stack[t])
Busy(t) == stack[t] # <<>>
Inside(t) == Busy(t) /\ once[Top(t).kind] = t
Continue(t, n) == stack' = [stack EXCEPT ![t] = <<[Top(t) EXCEPT !.next = n]>> \o Tail(@)]

\* Where the caller wants the result of the innermost call.
Result(t) == IF Len(stack[t]) = 1 THEN User(t, Top(t).kind)
                                  ELSE Local(t, stack[t][2].kind, Top(t).kind)

\* The second half of a copy; NULL is not retained.
Counted(h) == IF source[h] # NULL THEN Retain(h) ELSE UNCHANGED handleVars

\* A default that makeDefault asked for was not there.
Missing(t) == \E i \in 1 .. Len(Needs[Top(t).kind]) :
                 i < Top(t).next /\ object[Local(t, Top(t).kind, Needs[Top(t).kind][i])] = NULL

-----------------------------------------------------------------------------
DefaultsInit == /\ HandlesInit
                /\ once = [k \in Kinds |-> "never"]
                /\ stack = [t \in Callers |-> <<>>]

\* A user creates an object of its own, or lets go of a handle.
UserCreates(t, k) == /\ ~Busy(t) /\ object[User(t, k)] = NULL
                     /\ \E o \in Countable : Adopt(User(t, k), o)
                     /\ UNCHANGED <<once, stack>>
UserDrops(t, k) == /\ ~Busy(t) /\ Destroy(User(t, k))
                   /\ UNCHANGED <<once, stack>>

getDefault(t, k) == /\ ~Busy(t)
                    /\ stack' = [stack EXCEPT ![t] = <<Call(k, FALSE)>>]
                    /\ UNCHANGED <<handleVars, once>>
setDefault(t, k) == /\ ~Busy(t)
                    /\ stack' = [stack EXCEPT ![t] = <<Call(k, TRUE)>>]
                    /\ UNCHANGED <<handleVars, once>>

\* call_once runs its function; the others wait until it has returned.
EnterOnce(t) == /\ Busy(t) /\ once[Top(t).kind] = "never"
                /\ once' = [once EXCEPT ![Top(t).kind] = t]
                /\ UNCHANGED <<handleVars, stack>>

\* makeDefault calls getDefault of another class.
AskForNeed(t) ==
  /\ Inside(t) /\ ~Top(t).set /\ ~Missing(t) /\ Top(t).next <= Len(Needs[Top(t).kind])
  /\ stack' = [stack EXCEPT ![t] = <<Call(Needs[Top(t).kind][Top(t).next], FALSE)>> \o @]
  /\ UNCHANGED <<handleVars, once>>

\* makeDefault creates an object.  That may fail, and when something is missing
\* it does; then default_ stays NULL, with the error beside it.
Make(t) ==
  LET k == Top(t).kind IN
  /\ Inside(t) /\ ~Top(t).set
  /\ Top(t).next = Len(Needs[k]) + 1 \/ (Missing(t) /\ Top(t).next <= Len(Needs[k]))
  /\ \/ /\ ~Missing(t)
        /\ \E o \in Objects : (o \in Countable <=> k \in {"Context", "Queue"})
                                 /\ Adopt(Temporary(t, k), o)
     \/ UNCHANGED handleVars
  /\ Continue(t, Len(Needs[k]) + 2)
  /\ UNCHANGED once

\* default_ = Context(...)
Place(t) ==
  /\ Inside(t) /\ ~Top(t).set /\ Top(t).next = Len(Needs[Top(t).kind]) + 2
  /\ Move(DefaultOf(Top(t).kind), Temporary(t, Top(t).kind))
  /\ Continue(t, Top(t).next + 1)
  /\ UNCHANGED once

\* makeDefault returns: its variables go, one by one, then call_once does.
LeaveMake(t) ==
  LET k == Top(t).kind
      held == {n \in {Needs[k][i] : i \in 1 .. Len(Needs[k])} : object[Local(t, k, n)] # NULL} IN
  /\ Inside(t) /\ ~Top(t).set /\ Top(t).next = Len(Needs[k]) + 3
  /\ IF held # {}
     THEN /\ \E n \in held : Destroy(Local(t, k, n))
          /\ UNCHANGED once
     ELSE /\ once' = [once EXCEPT ![k] = "done"]
          /\ UNCHANGED handleVars
  /\ UNCHANGED stack

\* Mutation of Provide: setDefault assigns whether or not there is a default.
ProvideAnyway(t) ==
  LET k == Top(t).kind IN
  /\ Busy(t) /\ Top(t).set /\ Top(t).next < 3
  /\ IF Top(t).next = 1 THEN Copy(DefaultOf(k), User(t, k)) ELSE Counted(DefaultOf(k))
  /\ Continue(t, Top(t).next + 1)
  /\ once' = [once EXCEPT ![k] = IF Top(t).next = 1 THEN t ELSE "done"]

\* makeDefaultProvided: default_ = what the user gave, which may be NULL.
Provide(t) ==
  LET k == Top(t).kind IN
  /\ Inside(t) /\ Top(t).set
  /\ IF Top(t).next = 1 THEN Copy(DefaultOf(k), User(t, k)) ELSE Counted(DefaultOf(k))
  /\ Continue(t, 2)
  /\ once' = [once EXCEPT ![k] = IF Top(t).next = 1 THEN t ELSE "done"]

\* return default_, copied to where the caller wants it.
Fetch(t) == /\ Busy(t) /\ once[Top(t).kind] = "done" /\ Top(t).next # 9
            /\ Copy(Result(t), DefaultOf(Top(t).kind))
            /\ Continue(t, 9)
            /\ UNCHANGED once

Advanced(call) == [call EXCEPT !.next = @ + 1]

\* The copy is counted, and the caller goes on.
HandBack(t) ==
  /\ Busy(t) /\ Top(t).next = 9
  /\ Counted(Result(t))
  /\ stack' = [stack EXCEPT ![t] = IF Len(@) = 1 THEN <<>>
                                   ELSE <<Advanced(@[2])>> \o Tail(Tail(@))]
  /\ UNCHANGED once

Work(t) == \/ EnterOnce(t) \/ AskForNeed(t) \/ Make(t) \/ Place(t) \/ LeaveMake(t)
           \/ Provide(t) \/ Fetch(t) \/ HandBack(t)

DefaultsNext == \E t \in Callers :
                   \/ Work(t)
                   \/ \E k \in Asked[t] : UserCreates(t, k) \/ UserDrops(t, k)
                                          \/ getDefault(t, k) \/ setDefault(t, k)

\* A thread that is in a call is scheduled.
DefaultsSpec == /\ DefaultsInit /\ [][DefaultsNext]_defaultVars
                /\ \A t \in Callers : WF_defaultVars(Work(t))

-----------------------------------------------------------------------------
DefaultsTypeOK == /\ HandlesTypeOK
          /\ once \in [Kinds -> {"never", "done"} \cup Callers]
          /\ \A t \in Callers : /\ Len(stack[t]) <= Cardinality(Kinds)
                                /\ \A i \in 1 .. Len(stack[t]) : stack[t][i].kind \in Kinds

(* The default is what the one initialisation left: it does not change     *)
(* any more, whoever sets or asks for it, so that all threads share it.    *)
DefaultStands ==
  [][\A k \in Kinds : once[k] = "done" => /\ once'[k] = "done"
                                          /\ object'[DefaultOf(k)] = object[DefaultOf(k)]]_defaultVars

(* The initialisations wait for each other, but never in a circle: every   *)
(* call comes back.                                                        *)
CallsReturn == \A t \in Callers : Busy(t) ~> ~Busy(t)
=============================================================================
