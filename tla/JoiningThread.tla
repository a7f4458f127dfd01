--------------------------- MODULE JoiningThread ---------------------------
(***************************************************************************)
(* c++new-features/joining_thread.h: a thread that is joined when its      *)
(* owner is destroyed or is given another thread.  One thread uses the     *)
(* owners; the threads they own run and end on their own.                  *)
(***************************************************************************)
EXTENDS Naturals

CONSTANTS Owners, Threads, None

VARIABLES owned,     \* the std::thread member t of each owner
          state,     \* of each thread: "new", "running", "ended"
          detached,  \* threads that were let go
          joining    \* the assignment or destruction that waits in join():
                     \* the owner, and the owner or thread it gets then

vars == <<owned, state, detached, joining>>

Nobody == [owner |-> None, gets |-> None]

Init == /\ owned = [w \in Owners |-> None]
        /\ state = [t \in Threads |-> "new"]
        /\ detached = {}
        /\ joining = Nobody

Joinable(w) == owned[w] # None
Free == joining = Nobody

\* The constructor that takes a callable.
Construct(w, t) == /\ Free /\ ~Joinable(w) /\ state[t] = "new"
                   /\ owned' = [owned EXCEPT ![w] = t]
                   /\ state' = [state EXCEPT ![t] = "running"]
                   /\ UNCHANGED <<detached, joining>>

\* The move constructor.
MoveConstruct(w, other) == /\ Free /\ ~Joinable(w) /\ w # other
                           /\ owned' = [owned EXCEPT ![w] = owned[other], ![other] = None]
                           /\ UNCHANGED <<state, detached, joining>>

\* Both assignments: if (joinable()) join(); t = std::move(...)
Assign(w, other) == /\ Free
                    /\ joining' = [owner |-> w, gets |-> other]
                    /\ UNCHANGED <<owned, state, detached>>

\* Mutation of Joined: the thread is replaced while it runs.
Replaced == /\ ~Free
            /\ LET w == joining.owner other == joining.gets
               IN  owned' = IF other = None THEN [owned EXCEPT ![w] = None]
                            ELSE [owned EXCEPT ![other] = None, ![w] = owned[other]]
            /\ joining' = Nobody
            /\ UNCHANGED <<state, detached>>

\* join() returns when the thread has ended; then the owner gets the other's
\* thread, which is none when the owner is assigned to itself.
Joined == /\ ~Free
          /\ Joinable(joining.owner) => state[owned[joining.owner]] = "ended"
          /\ LET w == joining.owner other == joining.gets
             IN  owned' = IF other \in {None, w} THEN [owned EXCEPT ![w] = None]
                          ELSE [owned EXCEPT ![w] = owned[other], ![other] = None]
          /\ joining' = Nobody
          /\ UNCHANGED <<state, detached>>

\* The destructor, and join(): afterwards there is no thread to own.  join()
\* and detach() of an owner without a thread throw std::system_error and
\* leave all as it is, which is no step of the model.
Destroy(w) == /\ Free /\ Joinable(w)
              /\ joining' = [owner |-> w, gets |-> None]
              /\ UNCHANGED <<owned, state, detached>>

Detach(w) == /\ Free /\ Joinable(w)
             /\ detached' = detached \cup {owned[w]}
             /\ owned' = [owned EXCEPT ![w] = None]
             /\ UNCHANGED <<state, joining>>

swap(w, other) == /\ Free
                  /\ owned' = [owned EXCEPT ![w] = owned[other], ![other] = owned[w]]
                  /\ UNCHANGED <<state, detached, joining>>

\* A thread's function returns.
End(t) == /\ state[t] = "running"
          /\ state' = [state EXCEPT ![t] = "ended"]
          /\ UNCHANGED <<owned, detached, joining>>

Next == \/ \E w \in Owners :
             \/ \E t \in Threads : Construct(w, t)
             \/ \E other \in Owners : MoveConstruct(w, other) \/ Assign(w, other) \/ swap(w, other)
             \/ Destroy(w) \/ Detach(w)
        \/ Joined
        \/ \E t \in Threads : End(t)

Fairness == WF_vars(Joined) /\ \A t \in Threads : WF_vars(End(t))

-----------------------------------------------------------------------------
TypeOK == /\ owned \in [Owners -> Threads \cup {None}]
          /\ joining \in [owner : Owners \cup {None}, gets : Owners \cup {None}]

(* A running thread has exactly one owner, unless it was detached on       *)
(* purpose: no owner lets go of a thread that runs, however the owners are *)
(* moved, swapped, assigned and destroyed.                                 *)
NoneRunsUnowned ==
  \A t \in Threads :
    /\ state[t] = "running" /\ t \notin detached => \E w \in Owners : owned[w] = t
    /\ \A v, w \in Owners : owned[v] = t /\ owned[w] = t => v = w

(* Who waits for a thread gets on in the end.                              *)
JoinsReturn == ~Free ~> Free
=============================================================================
