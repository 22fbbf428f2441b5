------------------------------ MODULE RunLoop ------------------------------
(* BTstack's run loop on RT-Thread: the list of callback registrations that   *)
(* other threads append to (btstack_linked_list.c, btstack_run_loop.c) and    *)
(* the semaphore that wakes the loop (btstack_run_loop_embedded.c).  Neither  *)
(* takes a lock, so a list operation is modelled one access to a next pointer *)
(* at a time, as the project's build without optimisation makes them, and     *)
(* the module that extends this one says which thread may take the next step. *)
EXTENDS Naturals

CONSTANTS Thread,      \* the threads that use the run loop
          Node,        \* the callback registrations
          List, Nil,   \* btstack_run_loop_base_callbacks, and NULL
          MaxSignals   \* the semaphore's count is followed up to here

ASSUME NodeAssumption ==
    /\ List # Nil
    /\ Node \cap {List, Nil} = {}
ASSUME SignalAssumption == MaxSignals \in Nat \ {0}

VARIABLES next,     \* the next pointer of the list and of every registration
          signals,  \* count of the semaphore btloop
          call,     \* the list operation each thread is inside
          owed,     \* registrations appended and not yet taken off (history)
          torn,     \* list operations of two threads have overlapped, or a
                    \* registration on the list was written to (history)
          fault     \* a walk went on through NULL, or around for ever

loopVars == <<next, signals, call, owed, torn, fault>>

NoCall == [op |-> "none", at |-> Nil, node |-> Nil]
Ops == {"none", "test", "same", "advance", "clear", "link", "notify", "store"}

LoopTypeOK ==
    /\ next \in [Node \union {List} -> Node \union {Nil}]
    /\ signals \in 0..MaxSignals
    /\ call \in [Thread -> [op : Ops, at : Node \union {List, Nil}, node : Node \union {Nil}]]
    /\ owed \subseteq Node
    /\ torn \in BOOLEAN /\ fault \in BOOLEAN

LoopInit ==
    /\ next = [n \in Node \union {List} |-> Nil]
    /\ signals = 0
    /\ call = [t \in Thread |-> NoCall]
    /\ owed = {}
    /\ torn = FALSE /\ fault = FALSE

Free(t) == call[t].op = "none"

----------------------------------------------------------------------------
(* What the list holds.                                                     *)

\* S holds what the list points to, and what its members point to.
Holds(nx, S) == \A m \in S \union {List} : nx[m] \in S \union {Nil}

\* The registrations reached by following next from the list: the least such set.
Reached(nx) == {n \in Node : \A S \in SUBSET Node : Holds(nx, S) => n \in S}

Listed == Reached(next)

\* Where following next from the list comes to NULL, if it does.
Last(nx) == CHOOSE m \in Reached(nx) \union {List} : nx[m] = Nil
Ends(nx) == \E m \in Reached(nx) \union {List} : nx[m] = Nil

\* t has looked at the list and will still look at it or write to it.
Inside(t) ==
    \/ call[t].op \in {"same", "advance", "clear", "link", "store"}
    \/ call[t].op = "test" /\ call[t].at # List

\* A write of t to the list falls into an operation of another thread.
Tears(t) == torn' = (torn \/ \E u \in Thread \ {t} : Inside(u))

----------------------------------------------------------------------------
(* btstack_run_loop_execute_on_main_thread: append, then notify.            *)

Signalled == IF signals < MaxSignals THEN signals + 1 ELSE signals

\* The append of a thread nobody can interrupt, after registration.item = NULL.
\* On a list that does not end the walk does not either.
PostAtOnce(t, n) ==
    LET nx == [next EXCEPT ![n] = Nil]
    IN  IF Ends(nx)
        THEN /\ next' = IF n \in Reached(nx) THEN nx ELSE [nx EXCEPT ![Last(nx)] = n]
             /\ owed' = owed \union {n}
             /\ Tears(t)
             /\ signals' = Signalled
             /\ UNCHANGED <<call, fault>>
        ELSE fault' = TRUE /\ UNCHANGED <<next, signals, call, owed, torn>>

\* t begins an append, of a registration as it is or after item = NULL.
Begin(t, n) == call' = [call EXCEPT ![t] = [op |-> "test", at |-> List, node |-> n]]

Post(t, n) == Begin(t, n) /\ UNCHANGED <<next, signals, owed, torn, fault>>

PostCleared(t, n) ==
    /\ Begin(t, n)
    /\ next' = [next EXCEPT ![n] = Nil]
    /\ torn' = (torn \/ n \in Listed)
    /\ UNCHANGED <<signals, owed, fault>>

To(t, op) == call' = [call EXCEPT ![t].op = op]

\* `it->next != NULL`; with it = NULL this reads whatever is at address 0.
Test(t) ==
    /\ call[t].op = "test"
    /\ IF call[t].at = Nil
       THEN fault' = TRUE /\ UNCHANGED call
       ELSE UNCHANGED fault /\ To(t, IF next[call[t].at] = Nil THEN "clear" ELSE "same")
    /\ UNCHANGED <<next, signals, owed, torn>>

\* Mutant: the registration is not looked for.
SameNever(t) ==
    /\ call[t].op = "same"
    /\ To(t, "advance")
    /\ UNCHANGED <<next, signals, owed, torn, fault>>

\* `if (it->next == item) return false`: already registered.
Same(t) ==
    /\ call[t].op = "same"
    /\ To(t, IF next[call[t].at] = call[t].node THEN "notify" ELSE "advance")
    /\ UNCHANGED <<next, signals, owed, torn, fault>>

Advance(t) ==
    /\ call[t].op = "advance"
    /\ call' = [call EXCEPT ![t].op = "test", ![t].at = next[@]]
    /\ UNCHANGED <<next, signals, owed, torn, fault>>

\* `item->next = 0`.
Clear(t) ==
    /\ call[t].op = "clear"
    /\ next' = [next EXCEPT ![call[t].node] = Nil]
    /\ To(t, "link")
    /\ UNCHANGED <<signals, owed, torn, fault>>

\* `it->next = item`.
Link(t) ==
    /\ call[t].op = "link"
    /\ next' = [next EXCEPT ![call[t].at] = call[t].node]
    /\ owed' = owed \union {call[t].node}
    /\ Tears(t)
    /\ To(t, "notify")
    /\ UNCHANGED <<signals, fault>>

\* rt_sem_release.
Notify(t) ==
    /\ call[t].op = "notify"
    /\ signals' = Signalled
    /\ call' = [call EXCEPT ![t] = NoCall]
    /\ UNCHANGED <<next, owed, torn, fault>>

----------------------------------------------------------------------------
(* btstack_linked_list_pop, called by the loop.                             *)

\* `item = *list`, when there is one, and `item->next`: an append by a more
\* urgent thread between the two reads is one before the first.
Load(t) ==
    /\ next[List] # Nil
    /\ call' = [call EXCEPT ![t] = [op |-> "store", at |-> next[next[List]], node |-> next[List]]]
    /\ UNCHANGED <<next, signals, owed, torn, fault>>

\* ... and becomes `*list`.  The registration keeps its own next pointer.
Store(t) ==
    /\ call[t].op = "store"
    /\ next' = [next EXCEPT ![List] = call[t].at]
    /\ owed' = owed \ {call[t].node}
    /\ Tears(t)
    /\ call' = [call EXCEPT ![t] = NoCall]
    /\ UNCHANGED <<signals, fault>>

----------------------------------------------------------------------------
\* A thread goes on with the append it is in.
Append(t) ==
    Test(t) \/ Same(t) \/ Advance(t) \/ Clear(t) \/ Link(t) \/ Notify(t)
=============================================================================
