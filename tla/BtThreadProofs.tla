--------------------------- MODULE BtThreadProofs ---------------------------
(* Theorems about BtThread, for every capacity, every assignment of           *)
(* priorities and every set of profiles.                                      *)
EXTENDS BtThread, TLAPS

----------------------------------------------------------------------------
(* The list under the operations, a step of a thread at a time: its invariant.*)

\* No two registrations on the list point to the same one.
OnePredecessor(nx) ==
    \A m, p \in Reached(nx) \union {List} : nx[m] = nx[p] /\ nx[m] # Nil => m = p

IsList(nx) == Ends(nx) /\ OnePredecessor(nx)

Walking == {"test", "same", "advance", "clear", "link"}

\* What an operation has at hand, even on a list that is torn.
CallTyped(t) ==
    /\ ~Free(t) => call[t].node \in Node
    /\ call[t].op \in {"same", "advance", "clear", "link"} => call[t].at \in Node \union {List}
    /\ call[t].op = "store" => call[t].at \in Node \union {Nil}

\* An append has come past S, which its registration is not in.
Seen(t, S) ==
    /\ S \subseteq Listed
    /\ call[t].node \notin S
    /\ call[t].at \in S \union {List}
    /\ \A m \in (S \union {List}) \ {call[t].at} : next[m] \in S

\* What an operation has read is still so.
CallFits(t) ==
    /\ call[t].op \in Walking => \E S \in SUBSET Node : Seen(t, S)
    /\ call[t].op \in {"same", "advance"} => next[call[t].at] # Nil
    /\ call[t].op = "advance" => next[call[t].at] # call[t].node
    /\ call[t].op \in {"clear", "link"} => next[call[t].at] = Nil
    /\ call[t].op = "link" => next[call[t].node] = Nil
    /\ call[t].op = "store" => next[List] = call[t].node /\ next[call[t].node] = call[t].at

Whole ==
    /\ IsList(next) /\ Listed = owed
    /\ ~fault
    /\ \A t \in Thread : CallFits(t)

LoopInv ==
    /\ LoopTypeOK
    /\ \A t \in Thread : CallTyped(t)
    /\ ~torn => Whole

----------------------------------------------------------------------------
(* Reached is the least set that holds what the list leads to.                *)

Pointers == [Node \union {List} -> Node \union {Nil}]

LEMMA ReachedHolds ==
    ASSUME NEW nx \in Pointers
    PROVE  Reached(nx) \subseteq Node /\ Holds(nx, Reached(nx))
<1>1. Reached(nx) \subseteq Node
  BY DEF Reached
<1>2. ASSUME NEW m \in Reached(nx) \union {List}, nx[m] # Nil
      PROVE  nx[m] \in Reached(nx)
  <2>1. nx[m] \in Node
    BY <1>1, <1>2 DEF Pointers
  <2>2. ASSUME NEW S \in SUBSET Node, Holds(nx, S) PROVE nx[m] \in S
    <3>1. m \in S \union {List}
      BY <2>2 DEF Reached
    <3> QED BY <3>1, <2>2, <1>2 DEF Holds
  <2> QED BY <2>1, <2>2 DEF Reached
<1> QED BY <1>1, <1>2 DEF Holds

LEMMA ReachedLeast ==
    ASSUME NEW nx, NEW S \in SUBSET Node, Holds(nx, S)
    PROVE  Reached(nx) \subseteq S
BY DEF Reached

\* A registration that is not on the list may be written to.
LEMMA ReachedCleared ==
    ASSUME NEW nx \in Pointers, NEW n \in Node \ Reached(nx),
           NEW px, px = [nx EXCEPT ![n] = Nil]
    PROVE  /\ px \in Pointers /\ Reached(px) = Reached(nx)
           /\ IsList(nx) => IsList(px)
<1>1. px \in Pointers /\ px[n] = Nil /\ \A m \in (Node \union {List}) \ {n} : px[m] = nx[m]
  BY NodeAssumption DEF Pointers
<1>2. Reached(px) \subseteq Reached(nx)
  <2>1. Holds(px, Reached(nx))
    BY <1>1, ReachedHolds, NodeAssumption DEF Holds
  <2> QED BY <2>1, ReachedHolds, ReachedLeast
<1>3. Reached(nx) \subseteq Reached(px)
  <2>1. Reached(px) \subseteq Node /\ Holds(px, Reached(px))
    BY <1>1, ReachedHolds
  <2>2. Holds(nx, Reached(px))
    BY <1>1, <1>2, <2>1, NodeAssumption DEF Holds
  <2> QED BY <2>1, <2>2, ReachedLeast
<1>4. \A m \in Reached(nx) \union {List} : px[m] = nx[m]
  BY <1>1, ReachedHolds, NodeAssumption
<1>5. Reached(px) = Reached(nx)
  BY <1>2, <1>3
<1>6. IsList(nx) => IsList(px)
  <2> SUFFICES ASSUME Ends(nx), OnePredecessor(nx) PROVE Ends(px) /\ OnePredecessor(px)
    BY DEF IsList
  <2>1. Ends(px)
    BY <1>4, <1>5 DEF Ends
  <2>2. OnePredecessor(px)
    BY <1>4, <1>5 DEF OnePredecessor
  <2> QED BY <2>1, <2>2
<1> QED BY <1>1, <1>5, <1>6

\* A registration that is linked behind the last one.
LEMMA ReachedLinked ==
    ASSUME NEW nx \in Pointers, IsList(nx), NEW n \in Node \ Reached(nx), nx[n] = Nil,
           NEW last \in Reached(nx) \union {List}, nx[last] = Nil,
           NEW px, px = [nx EXCEPT ![last] = n]
    PROVE  px \in Pointers /\ Reached(px) = Reached(nx) \union {n} /\ IsList(px)
<1>1. Reached(nx) \subseteq Node /\ Holds(nx, Reached(nx))
  BY ReachedHolds
<1>2. /\ px \in Pointers /\ px[last] = n /\ px[n] = Nil /\ n # last
      /\ \A m \in (Node \union {List}) \ {last} : px[m] = nx[m]
  BY <1>1, NodeAssumption DEF Pointers
<1>3. Reached(px) \subseteq Node /\ Holds(px, Reached(px))
  BY <1>2, ReachedHolds
<1>4. Reached(px) \subseteq Reached(nx) \union {n}
  <2>1. Holds(px, Reached(nx) \union {n})
    BY <1>1, <1>2 DEF Holds
  <2> QED BY <1>1, <2>1, ReachedLeast
<1>5. Reached(nx) \subseteq Reached(px)
  <2>1. Holds(nx, Reached(px))
    BY <1>2, <1>3 DEF Holds
  <2> QED BY <1>3, <2>1, ReachedLeast
<1>6. n \in Reached(px)
  <2>1. px[last] \in Reached(px) \union {Nil}
    BY <1>3, <1>5 DEF Holds
  <2> QED BY <1>2, <2>1, NodeAssumption
<1>7. Ends(px)
  BY <1>2, <1>6 DEF Ends
<1>8. ASSUME NEW m \in Reached(nx) \union {List} PROVE nx[m] # n
  BY <1>1, NodeAssumption DEF Holds
<1>9. OnePredecessor(px)
  <2> SUFFICES ASSUME NEW m \in Reached(px) \union {List}, NEW p \in Reached(px) \union {List},
                      px[m] = px[p], px[m] # Nil
               PROVE  m = p
    BY DEF OnePredecessor
  <2>1. m \in Reached(nx) \union {List} /\ p \in Reached(nx) \union {List}
    BY <1>2, <1>4
  <2>2. CASE m # last /\ p # last
    <3>1. nx[m] = nx[p] /\ nx[m] # Nil
      BY <1>1, <1>2, <2>1, <2>2
    <3> QED BY <2>1, <3>1 DEF OnePredecessor, IsList
  <2>3. CASE m = last /\ p # last
    BY <1>1, <1>2, <1>8, <2>1, <2>3
  <2>4. CASE m # last /\ p = last
    BY <1>1, <1>2, <1>8, <2>1, <2>4
  <2> QED BY <2>2, <2>3, <2>4
<1> QED BY <1>2, <1>4, <1>5, <1>6, <1>7, <1>9 DEF IsList

\* The first registration is taken off.
LEMMA ReachedPopped ==
    ASSUME NEW nx \in Pointers, IsList(nx), NEW n \in Node, nx[List] = n,
           NEW px, px = [nx EXCEPT ![List] = nx[n]]
    PROVE  px \in Pointers /\ Reached(px) = Reached(nx) \ {n} /\ IsList(px)
<1>1. Reached(nx) \subseteq Node /\ Holds(nx, Reached(nx))
  BY ReachedHolds
<1>2. n \in Reached(nx)
  BY <1>1, NodeAssumption DEF Holds
<1>3. /\ px \in Pointers /\ px[List] = nx[n]
      /\ \A m \in Node : px[m] = nx[m]
  BY NodeAssumption DEF Pointers
<1>4. Reached(px) \subseteq Node /\ Holds(px, Reached(px))
  BY <1>3, ReachedHolds
<1>5. Reached(px) \subseteq Reached(nx) \ {n}
  <2>1. ASSUME NEW m \in Reached(nx) PROVE nx[m] # n
    <3>1. m # List /\ n # Nil
      BY <1>1, NodeAssumption
    <3> QED BY <3>1 DEF IsList, OnePredecessor
  <2>2. Holds(px, Reached(nx) \ {n})
    BY <1>1, <1>2, <1>3, <2>1 DEF Holds
  <2> QED BY <1>1, <2>2, ReachedLeast
<1>6. Reached(nx) \subseteq Reached(px) \union {n}
  <2>1. Holds(nx, Reached(px) \union {n})
    BY <1>3, <1>4 DEF Holds
  <2> QED BY <1>4, <2>1, ReachedLeast
<1>7. Ends(px)
  <2>1. PICK m \in Reached(nx) \union {List} : nx[m] = Nil
    BY DEF IsList, Ends
  <2>2. m # List
    BY <2>1, NodeAssumption
  <2>3. CASE m = n
    BY <1>3, <2>1, <2>3 DEF Ends
  <2>4. CASE m # n
    BY <1>1, <1>3, <1>6, <2>1, <2>2, <2>4 DEF Ends
  <2> QED BY <2>3, <2>4
<1>8. OnePredecessor(px)
  <2> SUFFICES ASSUME NEW m \in Reached(px) \union {List}, NEW p \in Reached(px) \union {List},
                      px[m] = px[p], px[m] # Nil
               PROVE  m = p
    BY DEF OnePredecessor
  <2> DEFINE at(q) == IF q = List THEN n ELSE q
  <2>1. at(m) \in Reached(nx) /\ at(p) \in Reached(nx)
    BY <1>2, <1>5
  <2>2. nx[at(m)] = px[m] /\ nx[at(p)] = px[p]
    BY <1>1, <1>3, <1>5
  <2>3. at(m) = at(p)
    BY <2>1, <2>2 DEF OnePredecessor, IsList
  <2> QED BY <1>5, <2>3
<1> QED BY <1>3, <1>5, <1>6, <1>7, <1>8 DEF IsList
----------------------------------------------------------------------------
(* What a step leaves as it was.                                              *)

LEMMA PointersTyped == LoopInv => next \in Pointers /\ Listed \subseteq Node
BY ReachedHolds DEF LoopInv, LoopTypeOK, Pointers, Listed

\* A thread whose operation has looked at nothing yet does not mind a write.
LEMMA OutsideFits ==
    ASSUME LoopInv, NEW t \in Thread, CallFits(t), ~Inside(t), call'[t] = call[t]
    PROVE  CallFits(t)'
<1>1. /\ call[t].op \notin {"same", "advance", "clear", "link", "store"}
      /\ call[t].op = "test" => call[t].at = List
  BY DEF Inside
<1>2. call[t].op = "test" => Seen(t, {})'
  BY <1>1 DEF Seen
<1> QED BY <1>1, <1>2 DEF CallFits, Walking

\* Nor does any thread mind a write to a registration that is not on the list.
LEMMA ClearedFits ==
    ASSUME LoopInv, NEW n \in Node \ Listed, next' = [next EXCEPT ![n] = Nil],
           NEW t \in Thread, CallFits(t), call'[t] = call[t]
    PROVE  CallFits(t)'
<1>1. next \in Pointers /\ Listed \subseteq Node /\ CallTyped(t)
  BY PointersTyped DEF LoopInv
<1>2. Listed' = Listed
  BY <1>1, ReachedCleared DEF Listed
<1>3. /\ \A m \in Listed \union {List} : next'[m] = next[m]
      /\ \A m \in Node : next[m] = Nil => next'[m] = Nil
  BY <1>1, NodeAssumption DEF Pointers
<1>4. ASSUME NEW S \in SUBSET Node, Seen(t, S)
      PROVE  Seen(t, S)' /\ next'[call[t].at] = next[call[t].at]
  BY <1>2, <1>3, <1>4 DEF Seen
<1>5. call[t].op = "store" => next[List] = call[t].node /\ next[call[t].node] = call[t].at
  BY DEF CallFits
<1>6. call[t].op = "store" => next'[List] = call[t].node /\ next'[call[t].node] = call[t].at
  <2> SUFFICES ASSUME call[t].op = "store"
               PROVE  next'[List] = call[t].node /\ next'[call[t].node] = call[t].at
    OBVIOUS
  <2>1. call[t].node \in Node
    BY <1>1 DEF CallTyped, Free
  <2>2. call[t].node \in Listed
    BY <1>1, <1>5, <2>1, ReachedHolds, NodeAssumption DEF Holds, Listed
  <2> QED BY <1>3, <1>5, <2>2
<1>7. call[t].op = "link" => next'[call[t].node] = Nil
  BY <1>1, <1>3 DEF CallFits, CallTyped, Free
<1>8. ASSUME call[t].op \in Walking
      PROVE  /\ \E S \in SUBSET Node : Seen(t, S)'
             /\ next'[call[t].at] = next[call[t].at]
  BY <1>4, <1>8 DEF CallFits
<1> QED BY <1>6, <1>7, <1>8 DEF CallFits, Walking

----------------------------------------------------------------------------
(* Appends.                                                                   *)

\* A thread begins an append, of a registration as it is ...
LEMMA PostStep ==
    ASSUME LoopInv, NEW t \in Thread, NEW n \in Node, Free(t), Post(t, n)
    PROVE  LoopInv'
<1>1. /\ call' = [call EXCEPT ![t] = [op |-> "test", at |-> List, node |-> n]]
      /\ UNCHANGED <<next, signals, owed, torn, fault>>
  BY DEF Post, Begin
<1>2. LoopTypeOK'
  BY <1>1 DEF LoopInv, LoopTypeOK, Ops
<1>3. /\ call'[t] = [op |-> "test", at |-> List, node |-> n]
      /\ \A u \in Thread \ {t} : call'[u] = call[u]
  BY <1>1 DEF LoopInv, LoopTypeOK
<1>4. \A u \in Thread : CallTyped(u)'
  BY <1>3 DEF LoopInv, CallTyped, Free
<1>5. ASSUME ~torn PROVE Whole'
  <2>1. CallFits(t)'
    <3>1. Seen(t, {})'
      BY <1>3 DEF Seen
    <3> QED BY <1>3, <3>1 DEF CallFits, Walking
  <2>2. ASSUME NEW u \in Thread \ {t} PROVE CallFits(u)'
    <3>1. CallFits(u)
      BY <1>5 DEF LoopInv, Whole
    <3> QED BY <1>1, <1>3, <3>1 DEF CallFits, Seen, Listed
  <2> QED BY <1>1, <1>5, <2>1, <2>2 DEF LoopInv, Whole, Listed
<1> QED BY <1>1, <1>2, <1>4, <1>5 DEF LoopInv

\* ... or after its next pointer was cleared.
LEMMA PostClearedStep ==
    ASSUME LoopInv, NEW t \in Thread, NEW n \in Node, Free(t), PostCleared(t, n)
    PROVE  LoopInv'
<1>1. /\ call' = [call EXCEPT ![t] = [op |-> "test", at |-> List, node |-> n]]
      /\ next' = [next EXCEPT ![n] = Nil]
      /\ torn' = (torn \/ n \in Listed)
      /\ UNCHANGED <<signals, owed, fault>>
  BY DEF PostCleared, Begin
<1>2. LoopTypeOK'
  BY <1>1 DEF LoopInv, LoopTypeOK, Ops
<1>3. /\ call'[t] = [op |-> "test", at |-> List, node |-> n]
      /\ \A u \in Thread \ {t} : call'[u] = call[u]
  BY <1>1 DEF LoopInv, LoopTypeOK
<1>4. \A u \in Thread : CallTyped(u)'
  BY <1>3 DEF LoopInv, CallTyped, Free
<1>5. ASSUME ~torn' PROVE Whole'
  <2>1. ~torn /\ n \in Node \ Listed
    BY <1>1, <1>5
  <2>2. Whole
    BY <2>1 DEF LoopInv
  <2>3. CallFits(t)'
    <3>1. Seen(t, {})'
      BY <1>3 DEF Seen
    <3> QED BY <1>3, <3>1 DEF CallFits, Walking
  <2>4. \A u \in Thread \ {t} : CallFits(u)'
    BY <1>1, <1>3, <2>1, <2>2, ClearedFits DEF Whole
  <2>5. IsList(next') /\ Reached(next') = Listed
    BY <1>1, <2>1, <2>2, PointersTyped, ReachedCleared DEF Whole, Listed
  <2> QED BY <1>1, <2>2, <2>3, <2>4, <2>5 DEF Whole, Listed
<1> QED BY <1>2, <1>4, <1>5 DEF LoopInv

\* A write while another thread is inside an operation shows in torn.
LEMMA NobodyInside ==
    ASSUME NEW t \in Thread, Tears(t), ~torn'
    PROVE  ~torn /\ \A u \in Thread \ {t} : ~Inside(u)
BY DEF Tears

\* The append of a thread nobody interrupts, of a registration that is not listed.
LEMMA PostAtOnceStep ==
    ASSUME LoopInv, NEW t \in Thread, NEW n \in Node, Free(t), ~torn => n \notin owed,
           PostAtOnce(t, n)
    PROVE  /\ LoopInv' /\ call' = call
           /\ ~torn' => ~torn /\ owed' = owed \union {n} /\ signals' = Signalled
<1> DEFINE nx == [next EXCEPT ![n] = Nil]
<1>1. next \in Pointers /\ Listed \subseteq Node /\ nx \in Pointers
  BY PointersTyped DEF Pointers
<1>2. \/ /\ Ends(nx)
         /\ next' = IF n \in Reached(nx) THEN nx ELSE [nx EXCEPT ![Last(nx)] = n]
         /\ owed' = owed \union {n} /\ Tears(t) /\ signals' = Signalled
         /\ UNCHANGED <<call, fault>>
      \/ ~Ends(nx) /\ fault' = TRUE /\ UNCHANGED <<next, signals, call, owed, torn>>
  BY DEF PostAtOnce
<1>3. ~torn => Ends(nx) /\ IsList(nx) /\ Reached(nx) = Listed /\ n \notin Listed
  <2> SUFFICES ASSUME ~torn PROVE Ends(nx) /\ IsList(nx) /\ Reached(nx) = Listed /\ n \notin Listed
    OBVIOUS
  <2>1. Whole /\ n \notin Listed
    BY DEF LoopInv, Whole
  <2>2. IsList(nx) /\ Reached(nx) = Listed
    BY <1>1, <2>1, ReachedCleared DEF Whole, Listed
  <2> QED BY <2>1, <2>2 DEF IsList
<1>4. call' = call
  BY <1>2
<1>5. LoopTypeOK'
  <2>1. next' \in Pointers
    BY <1>1, <1>2 DEF Pointers
  <2>2. torn' \in BOOLEAN
    BY <1>2 DEF Tears, LoopInv, LoopTypeOK
  <2>3. signals' \in 0 .. MaxSignals
    BY <1>2, SignalAssumption DEF Signalled, LoopInv, LoopTypeOK
  <2> QED BY <1>2, <2>1, <2>2, <2>3 DEF LoopInv, LoopTypeOK, Pointers
<1>6. \A u \in Thread : CallTyped(u)'
  BY <1>4 DEF LoopInv, CallTyped, Free
<1>7. ASSUME ~torn' PROVE Whole' /\ ~torn /\ owed' = owed \union {n} /\ signals' = Signalled
  <2>1. ~torn
    BY <1>2, <1>7, NobodyInside
  <2>2. /\ next' = [nx EXCEPT ![Last(nx)] = n] /\ Tears(t)
        /\ owed' = owed \union {n} /\ signals' = Signalled /\ fault' = fault
    BY <1>2, <1>3, <2>1
  <2>3. Last(nx) \in Reached(nx) \union {List} /\ nx[Last(nx)] = Nil
    BY <1>3, <2>1 DEF Last, Ends
  <2>4. nx[n] = Nil
    BY <1>1 DEF Pointers
  <2>5. Reached(next') = Reached(nx) \union {n} /\ IsList(next')
    BY <1>1, <1>3, <2>1, <2>2, <2>3, <2>4, ReachedLinked
  <2>6. ASSUME NEW u \in Thread PROVE CallFits(u)'
    <3>1. CallFits(u) /\ call'[u] = call[u]
      BY <1>4, <2>1 DEF LoopInv, Whole
    <3>2. ~Inside(u)
      BY <1>7, <2>2, NobodyInside DEF Free, Inside
    <3> QED BY <3>1, <3>2, OutsideFits
  <2> QED BY <1>3, <2>1, <2>2, <2>5, <2>6 DEF LoopInv, Whole, Listed
<1> QED BY <1>4, <1>5, <1>6, <1>7 DEF LoopInv
----------------------------------------------------------------------------
(* The steps of an append.                                                    *)

\* The list is not written to: the other threads do not mind.
LEMMA OthersFit ==
    ASSUME NEW u \in Thread, CallFits(u), next' = next, call'[u] = call[u]
    PROVE  CallFits(u)'
BY DEF CallFits, Seen, Listed

\* An append keeps what it has seen when it writes to its own registration.
LEMMA ClearedSeen ==
    ASSUME LoopInv, NEW n \in Node \ Listed, next' = [next EXCEPT ![n] = Nil],
           NEW t \in Thread, NEW S \in SUBSET Node, Seen(t, S),
           call'[t].at = call[t].at, call'[t].node = call[t].node
    PROVE  Seen(t, S)' /\ next'[call[t].at] = next[call[t].at]
<1>1. next \in Pointers /\ Listed \subseteq Node
  BY PointersTyped
<1>2. Listed' = Listed
  BY <1>1, ReachedCleared DEF Listed
<1>3. \A m \in Listed \union {List} : next'[m] = next[m]
  BY <1>1, NodeAssumption DEF Pointers
<1> QED BY <1>2, <1>3 DEF Seen

\* At the end of the list an append has seen all of it.
LEMMA AllSeen ==
    ASSUME LoopInv, NEW t \in Thread, NEW S \in SUBSET Node, Seen(t, S),
           next[call[t].at] = Nil
    PROVE  Listed \subseteq S /\ call[t].node \notin Listed
<1>1. Holds(next, S)
  BY DEF Seen, Holds
<1> QED BY <1>1, ReachedLeast DEF Seen, Listed

LEMMA TestStep ==
    ASSUME LoopInv, NEW t \in Thread, Test(t)
    PROVE  LoopInv'
<1>1. /\ call[t].op = "test"
      /\ UNCHANGED <<next, signals, owed, torn>>
      /\ \/ call[t].at = Nil /\ fault' = TRUE /\ call' = call
         \/ /\ call[t].at # Nil /\ fault' = fault
            /\ call' = [call EXCEPT ![t].op = IF next[call[t].at] = Nil THEN "clear" ELSE "same"]
  BY DEF Test, To
<1>2. LoopTypeOK'
  BY <1>1 DEF LoopInv, LoopTypeOK, Ops
<1>3. \A u \in Thread \ {t} : call'[u] = call[u]
  BY <1>1 DEF LoopInv, LoopTypeOK
<1>4. \A u \in Thread : CallTyped(u)'
  BY <1>1, <1>3 DEF LoopInv, LoopTypeOK, CallTyped, Free
<1>5. ASSUME ~torn PROVE Whole'
  <2>1. Whole /\ CallFits(t)
    BY <1>5 DEF LoopInv, Whole
  <2>2. PICK S \in SUBSET Node : Seen(t, S)
    BY <1>1, <2>1 DEF CallFits, Walking
  <2>3. call[t].at # Nil
    BY <2>2, NodeAssumption DEF Seen
  <2>4. CallFits(t)'
    <3>1. /\ call'[t].at = call[t].at /\ call'[t].node = call[t].node
          /\ call'[t].op = IF next[call[t].at] = Nil THEN "clear" ELSE "same"
      BY <1>1, <2>3 DEF LoopInv, LoopTypeOK
    <3>2. Seen(t, S)'
      BY <1>1, <2>2, <3>1 DEF Seen, Listed
    <3> QED BY <1>1, <3>1, <3>2 DEF CallFits
  <2>5. \A u \in Thread \ {t} : CallFits(u)'
    BY <1>1, <1>3, <2>1, OthersFit DEF Whole
  <2> QED BY <1>1, <2>1, <2>3, <2>4, <2>5 DEF Whole, Listed
<1> QED BY <1>1, <1>2, <1>4, <1>5 DEF LoopInv

LEMMA SameStep ==
    ASSUME LoopInv, NEW t \in Thread, Same(t)
    PROVE  LoopInv'
<1>1. /\ call[t].op = "same"
      /\ UNCHANGED <<next, signals, owed, torn, fault>>
      /\ call' = [call EXCEPT ![t].op = IF next[call[t].at] = call[t].node
                                        THEN "notify" ELSE "advance"]
  BY DEF Same, To
<1>2. LoopTypeOK'
  BY <1>1 DEF LoopInv, LoopTypeOK, Ops
<1>3. /\ \A u \in Thread \ {t} : call'[u] = call[u]
      /\ call'[t].at = call[t].at /\ call'[t].node = call[t].node
      /\ call'[t].op = IF next[call[t].at] = call[t].node THEN "notify" ELSE "advance"
  BY <1>1 DEF LoopInv, LoopTypeOK
<1>4. \A u \in Thread : CallTyped(u)'
  BY <1>1, <1>3 DEF LoopInv, LoopTypeOK, CallTyped, Free
<1>5. ASSUME ~torn PROVE Whole'
  <2>1. Whole /\ CallFits(t)
    BY <1>5 DEF LoopInv, Whole
  <2>2. PICK S \in SUBSET Node : Seen(t, S)
    BY <1>1, <2>1 DEF CallFits, Walking
  <2>3. Seen(t, S)'
    BY <1>1, <1>3, <2>2 DEF Seen, Listed
  <2>4. CallFits(t)'
    BY <1>1, <1>3, <2>1, <2>3 DEF CallFits, Walking
  <2>5. \A u \in Thread \ {t} : CallFits(u)'
    BY <1>1, <1>3, <2>1, OthersFit DEF Whole
  <2> QED BY <1>1, <2>1, <2>4, <2>5 DEF Whole, Listed
<1> QED BY <1>1, <1>2, <1>4, <1>5 DEF LoopInv

LEMMA AdvanceStep ==
    ASSUME LoopInv, NEW t \in Thread, Advance(t)
    PROVE  LoopInv'
<1> DEFINE to == next[call[t].at]
<1>1. /\ call[t].op = "advance"
      /\ UNCHANGED <<next, signals, owed, torn, fault>>
      /\ call' = [call EXCEPT ![t].op = "test", ![t].at = to]
  BY DEF Advance
<1>2. call[t] \in [op : Ops, at : Node \union {List, Nil}, node : Node \union {Nil}]
  BY DEF LoopInv, LoopTypeOK
<1>3. to \in Node \union {Nil}
  BY <1>1 DEF LoopInv, LoopTypeOK, CallTyped
<1>4. /\ \A u \in Thread \ {t} : call'[u] = call[u]
      /\ call'[t] = [op |-> "test", at |-> to, node |-> call[t].node]
  BY <1>1, <1>2 DEF LoopInv, LoopTypeOK
<1>5. LoopTypeOK'
  <2>1. \A u \in Thread : call'[u] \in [op : Ops, at : Node \union {List, Nil},
                                        node : Node \union {Nil}]
    BY <1>2, <1>3, <1>4 DEF LoopInv, LoopTypeOK, Ops
  <2>2. call' \in [Thread -> [op : Ops, at : Node \union {List, Nil}, node : Node \union {Nil}]]
    BY <1>1, <2>1 DEF LoopInv, LoopTypeOK
  <2> QED BY <1>1, <2>2 DEF LoopInv, LoopTypeOK
<1>6. \A u \in Thread : CallTyped(u)'
  <2>1. CallTyped(t)'
    <3>1. call[t].node \in Node
      BY <1>1 DEF LoopInv, CallTyped, Free
    <3> QED BY <1>4, <3>1 DEF CallTyped
  <2>2. ASSUME NEW u \in Thread \ {t} PROVE CallTyped(u)'
    BY <1>4 DEF LoopInv, CallTyped, Free
  <2> QED BY <2>1, <2>2
<1>7. ASSUME ~torn PROVE Whole'
  <2>1. Whole /\ CallFits(t)
    BY <1>7 DEF LoopInv, Whole
  <2>2. PICK S \in SUBSET Node : Seen(t, S)
    BY <1>1, <2>1 DEF CallFits, Walking
  <2>3. to \in Listed
    BY <1>1, <2>1, <2>2, PointersTyped, ReachedHolds DEF CallFits, Seen, Holds, Listed
  <2>4. to # call[t].node
    BY <1>1, <2>1 DEF CallFits
  <2>5. PICK T \in SUBSET Node : T = S \union {to}
    BY <2>3, PointersTyped
  <2>6. Seen(t, T)'
    <3>1. /\ call'[t].at = to /\ call'[t].node = call[t].node
          /\ next' = next /\ Listed' = Listed
      BY <1>1, <1>4 DEF Listed
    <3>2. \A m \in (T \union {List}) \ {to} : next[m] \in T
      BY <2>2, <2>5 DEF Seen
    <3>3. T \subseteq Listed /\ call[t].node \notin T
      BY <2>2, <2>3, <2>4, <2>5 DEF Seen
    <3>4. to \in T
      BY <2>5
    <3> HIDE DEF to
    <3> QED BY <3>1, <3>2, <3>3, <3>4 DEF Seen
  <2>7. CallFits(t)'
    <3>1. call'[t].op = "test"
      BY <1>4
    <3> QED BY <2>6, <3>1 DEF CallFits
  <2>8. \A u \in Thread \ {t} : CallFits(u)'
    BY <1>1, <1>4, <2>1, OthersFit DEF Whole
  <2> QED BY <1>1, <2>1, <2>7, <2>8 DEF Whole, Listed
<1> QED BY <1>1, <1>5, <1>6, <1>7 DEF LoopInv

LEMMA ClearStep ==
    ASSUME LoopInv, NEW t \in Thread, Clear(t)
    PROVE  LoopInv'
<1>1. /\ call[t].op = "clear"
      /\ UNCHANGED <<signals, owed, torn, fault>>
      /\ next' = [next EXCEPT ![call[t].node] = Nil]
      /\ call' = [call EXCEPT ![t].op = "link"]
  BY DEF Clear, To
<1>2. LoopTypeOK'
  BY <1>1 DEF LoopInv, LoopTypeOK, Ops
<1>3. /\ \A u \in Thread \ {t} : call'[u] = call[u]
      /\ call'[t].at = call[t].at /\ call'[t].node = call[t].node /\ call'[t].op = "link"
  BY <1>1 DEF LoopInv, LoopTypeOK
<1>4. call[t].node \in Node
  BY <1>1 DEF LoopInv, CallTyped, Free
<1>5. \A u \in Thread : CallTyped(u)'
  BY <1>1, <1>3 DEF LoopInv, LoopTypeOK, CallTyped, Free
<1>6. ASSUME ~torn PROVE Whole'
  <2>1. Whole /\ CallFits(t)
    BY <1>6 DEF LoopInv, Whole
  <2>2. PICK S \in SUBSET Node : Seen(t, S)
    BY <1>1, <2>1 DEF CallFits, Walking
  <2>3. next[call[t].at] = Nil
    BY <1>1, <2>1 DEF CallFits
  <2>4. call[t].node \in Node \ Listed
    BY <1>4, <2>2, <2>3, AllSeen
  <2>5. Seen(t, S)' /\ next'[call[t].at] = Nil
    BY <1>1, <1>3, <2>2, <2>3, <2>4, ClearedSeen
  <2>6. next'[call[t].node] = Nil
    BY <1>1, <1>4 DEF LoopInv, LoopTypeOK
  <2>7. CallFits(t)'
    BY <1>3, <2>5, <2>6 DEF CallFits
  <2>8. \A u \in Thread \ {t} : CallFits(u)'
    BY <1>1, <1>3, <2>1, <2>4, ClearedFits DEF Whole
  <2>9. IsList(next') /\ Reached(next') = Listed
    <3>1. next \in Pointers /\ IsList(next) /\ call[t].node \in Node \ Reached(next)
      BY <2>1, <2>4, PointersTyped DEF Whole, Listed
    <3>2. PICK n \in Node \ Reached(next) : n = call[t].node
      BY <3>1
    <3>3. next' = [next EXCEPT ![n] = Nil]
      BY <1>1, <3>2
    <3> QED BY <3>1, <3>3, ReachedCleared DEF Listed
  <2> QED BY <1>1, <2>1, <2>7, <2>8, <2>9 DEF Whole, Listed
<1> QED BY <1>1, <1>2, <1>5, <1>6 DEF LoopInv

LEMMA LinkStep ==
    ASSUME LoopInv, NEW t \in Thread, Link(t)
    PROVE  LoopInv'
<1>1. /\ call[t].op = "link"
      /\ UNCHANGED <<signals, fault>>
      /\ next' = [next EXCEPT ![call[t].at] = call[t].node]
      /\ owed' = owed \union {call[t].node}
      /\ Tears(t)
      /\ call' = [call EXCEPT ![t].op = "notify"]
  BY DEF Link, To
<1>2. call[t].node \in Node /\ call[t].at \in Node \union {List}
  BY <1>1 DEF LoopInv, CallTyped, Free
<1>3. LoopTypeOK'
  BY <1>1, <1>2 DEF LoopInv, LoopTypeOK, Ops, Tears
<1>4. /\ \A u \in Thread \ {t} : call'[u] = call[u]
      /\ call'[t].node = call[t].node /\ call'[t].op = "notify"
  BY <1>1 DEF LoopInv, LoopTypeOK
<1>5. \A u \in Thread : CallTyped(u)'
  BY <1>1, <1>4 DEF LoopInv, LoopTypeOK, CallTyped, Free
<1>6. ASSUME ~torn' PROVE Whole'
  <2>1. ~torn /\ \A u \in Thread \ {t} : ~Inside(u)
    BY <1>1, <1>6, NobodyInside
  <2>2. Whole /\ CallFits(t)
    BY <2>1 DEF LoopInv, Whole
  <2>3. PICK S \in SUBSET Node : Seen(t, S)
    BY <1>1, <2>2 DEF CallFits, Walking
  <2>4. next[call[t].at] = Nil /\ next[call[t].node] = Nil
    BY <1>1, <2>2 DEF CallFits
  <2>5. call[t].node \in Node \ Listed /\ call[t].at \in Listed \union {List}
    BY <1>2, <2>3, <2>4, AllSeen DEF Seen
  <2>6. Reached(next') = Listed \union {call[t].node} /\ IsList(next')
    <3>1. /\ next \in Pointers /\ IsList(next)
          /\ call[t].node \in Node \ Reached(next)
          /\ call[t].at \in Reached(next) \union {List}
      BY <2>2, <2>5, PointersTyped DEF Whole, Listed
    <3>2. PICK n \in Node \ Reached(next) : n = call[t].node
      BY <3>1
    <3>3. PICK last \in Reached(next) \union {List} : last = call[t].at
      BY <3>1
    <3>4. next' = [next EXCEPT ![last] = n] /\ next[n] = Nil /\ next[last] = Nil
      BY <1>1, <2>4, <3>2, <3>3
    <3>5. Reached(next') = Reached(next) \union {n} /\ IsList(next')
      BY <3>1, <3>4, ReachedLinked
    <3> QED BY <3>2, <3>5 DEF Listed
  <2>7. CallFits(t)'
    BY <1>4 DEF CallFits, Walking
  <2>8. \A u \in Thread \ {t} : CallFits(u)'
    BY <1>4, <2>1, <2>2, OutsideFits DEF Whole
  <2> QED BY <1>1, <2>2, <2>6, <2>7, <2>8 DEF Whole, Listed
<1> QED BY <1>3, <1>5, <1>6 DEF LoopInv

LEMMA NotifyStep ==
    ASSUME LoopInv, NEW t \in Thread, Notify(t)
    PROVE  LoopInv'
<1>1. /\ call' = [call EXCEPT ![t] = NoCall]
      /\ signals' = Signalled
      /\ UNCHANGED <<next, owed, torn, fault>>
  BY DEF Notify
<1>2. LoopTypeOK'
  <2>1. signals' \in 0 .. MaxSignals
    BY <1>1, SignalAssumption DEF Signalled, LoopInv, LoopTypeOK
  <2> QED BY <1>1, <2>1 DEF LoopInv, LoopTypeOK, NoCall, Ops
<1>3. call'[t] = NoCall /\ \A u \in Thread \ {t} : call'[u] = call[u]
  BY <1>1 DEF LoopInv, LoopTypeOK
<1>4. \A u \in Thread : CallTyped(u)'
  BY <1>3 DEF LoopInv, CallTyped, Free, NoCall
<1>5. ASSUME ~torn PROVE Whole'
  <2>1. Whole
    BY <1>5 DEF LoopInv
  <2>2. CallFits(t)'
    BY <1>3 DEF CallFits, NoCall, Walking
  <2>3. \A u \in Thread \ {t} : CallFits(u)'
    BY <1>1, <1>3, <2>1, OthersFit DEF Whole
  <2> QED BY <1>1, <2>1, <2>2, <2>3 DEF Whole, Listed
<1> QED BY <1>1, <1>2, <1>4, <1>5 DEF LoopInv

\* An append goes on.
LEMMA AppendStep ==
    ASSUME LoopInv, NEW t \in Thread, Append(t)
    PROVE  LoopInv'
BY TestStep, SameStep, AdvanceStep, ClearStep, LinkStep, NotifyStep DEF Append

----------------------------------------------------------------------------
(* The loop takes a registration off.                                         *)

LEMMA LoadStep ==
    ASSUME LoopInv, NEW t \in Thread, Load(t)
    PROVE  LoopInv'
<1> DEFINE first == next[List]
<1>1. /\ first # Nil
      /\ call' = [call EXCEPT ![t] = [op |-> "store", at |-> next[first], node |-> first]]
      /\ UNCHANGED <<next, signals, owed, torn, fault>>
  BY DEF Load
<1>2. first \in Node /\ next[first] \in Node \union {Nil}
  BY <1>1 DEF LoopInv, LoopTypeOK
<1>3. LoopTypeOK'
  BY <1>1, <1>2 DEF LoopInv, LoopTypeOK, Ops
<1>4. /\ call'[t] = [op |-> "store", at |-> next[first], node |-> first]
      /\ \A u \in Thread \ {t} : call'[u] = call[u]
  BY <1>1 DEF LoopInv, LoopTypeOK
<1>5. \A u \in Thread : CallTyped(u)'
  BY <1>2, <1>4 DEF LoopInv, CallTyped, Free
<1>6. ASSUME ~torn PROVE Whole'
  <2>1. Whole
    BY <1>6 DEF LoopInv
  <2>2. CallFits(t)'
    BY <1>1, <1>4 DEF CallFits, Walking
  <2>3. \A u \in Thread \ {t} : CallFits(u)'
    BY <1>1, <1>4, <2>1, OthersFit DEF Whole
  <2> QED BY <1>1, <2>1, <2>2, <2>3 DEF Whole, Listed
<1> QED BY <1>1, <1>3, <1>5, <1>6 DEF LoopInv

LEMMA StoreStep ==
    ASSUME LoopInv, NEW t \in Thread, Store(t)
    PROVE  LoopInv'
<1>1. /\ call[t].op = "store"
      /\ next' = [next EXCEPT ![List] = call[t].at]
      /\ owed' = owed \ {call[t].node}
      /\ Tears(t)
      /\ call' = [call EXCEPT ![t] = NoCall]
      /\ UNCHANGED <<signals, fault>>
  BY DEF Store
<1>2. call[t].node \in Node /\ call[t].at \in Node \union {Nil}
  BY <1>1 DEF LoopInv, CallTyped, Free
<1>3. LoopTypeOK'
  BY <1>1, <1>2 DEF LoopInv, LoopTypeOK, Ops, Tears, NoCall
<1>4. call'[t] = NoCall /\ \A u \in Thread \ {t} : call'[u] = call[u]
  BY <1>1 DEF LoopInv, LoopTypeOK
<1>5. \A u \in Thread : CallTyped(u)'
  BY <1>4 DEF LoopInv, CallTyped, Free, NoCall
<1>6. ASSUME ~torn' PROVE Whole'
  <2>1. ~torn /\ \A u \in Thread \ {t} : ~Inside(u)
    BY <1>1, <1>6, NobodyInside
  <2>2. Whole /\ CallFits(t)
    BY <2>1 DEF LoopInv, Whole
  <2>3. next[List] = call[t].node /\ next[call[t].node] = call[t].at
    BY <1>1, <2>2 DEF CallFits
  <2>4. Reached(next') = Listed \ {call[t].node} /\ IsList(next')
    BY <1>1, <1>2, <2>2, <2>3, PointersTyped, ReachedPopped DEF Whole, Listed
  <2>5. CallFits(t)'
    BY <1>4 DEF CallFits, Walking, NoCall
  <2>6. \A u \in Thread \ {t} : CallFits(u)'
    BY <1>4, <2>1, <2>2, OutsideFits DEF Whole
  <2> QED BY <1>1, <2>2, <2>4, <2>5, <2>6 DEF Whole, Listed
<1> QED BY <1>3, <1>5, <1>6 DEF LoopInv
----------------------------------------------------------------------------
(* What a step of an append is to the threads.                                *)

LEMMA AppendCalls ==
    ASSUME LoopInv, NEW t \in Thread, Append(t)
    PROVE  /\ call[t].op \in Walking \union {"notify"}
           /\ \A u \in Thread \ {t} : call'[u] = call[u]
           /\ call'[t].op \in Walking \union {"notify", "none"}
           /\ call'[t].op # "none" => call'[t].node = call[t].node
<1>1. call \in [Thread -> [op : Ops, at : Node \union {List, Nil}, node : Node \union {Nil}]]
  BY DEF LoopInv, LoopTypeOK
<1>2. CASE Test(t)
  BY <1>1, <1>2 DEF Test, To, Walking
<1>3. CASE Same(t)
  BY <1>1, <1>3 DEF Same, To, Walking
<1>4. CASE Advance(t)
  BY <1>1, <1>4 DEF Advance, Walking
<1>5. CASE Clear(t)
  BY <1>1, <1>5 DEF Clear, To, Walking
<1>6. CASE Link(t)
  BY <1>1, <1>6 DEF Link, To, Walking
<1>7. CASE Notify(t)
  BY <1>1, <1>7 DEF Notify, NoCall, Walking
<1> QED BY <1>2, <1>3, <1>4, <1>5, <1>6, <1>7 DEF Append

\* An append leaves its registration on the list.
LEMMA AppendOwes ==
    ASSUME LoopInv, NEW t \in Thread, Append(t)
    PROVE  /\ owed' \in {owed, owed \union {call[t].node}}
           /\ ~torn' => ~torn
           /\ ~torn' /\ call[t].op \in Walking =>
                 call'[t].op \in Walking \/ call[t].node \in owed'
<1>1. call \in [Thread -> [op : Ops, at : Node \union {List, Nil}, node : Node \union {Nil}]]
  BY DEF LoopInv, LoopTypeOK
<1>2. CASE Test(t)
  BY <1>1, <1>2 DEF Test, To, Walking
<1>3. CASE Same(t)
  <2>1. /\ UNCHANGED <<owed, torn>> /\ call[t].op = "same"
        /\ call'[t].op = IF next[call[t].at] = call[t].node THEN "notify" ELSE "advance"
    BY <1>1, <1>3 DEF Same, To
  <2>2. ASSUME ~torn, next[call[t].at] = call[t].node PROVE call[t].node \in owed
    <3>1. Whole /\ CallFits(t)
      BY <2>2 DEF LoopInv, Whole
    <3>2. PICK S \in SUBSET Node : Seen(t, S)
      BY <2>1, <3>1 DEF CallFits, Walking
    <3>3. next[call[t].at] # Nil /\ call[t].at \in Listed \union {List}
      BY <2>1, <3>1, <3>2 DEF CallFits, Seen
    <3>4. next[call[t].at] \in Listed
      BY <3>3, PointersTyped, ReachedHolds DEF Holds, Listed
    <3> QED BY <2>2, <3>1, <3>4 DEF Whole
  <2> QED BY <2>1, <2>2 DEF Walking
<1>4. CASE Advance(t)
  BY <1>1, <1>4 DEF Advance, Walking
<1>5. CASE Clear(t)
  BY <1>1, <1>5 DEF Clear, To, Walking
<1>6. CASE Link(t)
  BY <1>1, <1>6 DEF Link, To, Walking, Tears
<1>7. CASE Notify(t)
  BY <1>1, <1>7 DEF Notify, NoCall, Walking
<1> QED BY <1>2, <1>3, <1>4, <1>5, <1>6, <1>7 DEF Append

\* An append that puts something on an empty list goes on to signal it.
LEMMA AppendWakes ==
    ASSUME LoopInv, NEW t \in Thread, Append(t)
    PROVE  \/ signals' = Signalled
           \/ signals' = signals /\ call'[t].op = "notify"
           \/ /\ signals' = signals /\ call[t].op # "notify"
              /\ next'[List] = next[List]
<1>1. call \in [Thread -> [op : Ops, at : Node \union {List, Nil}, node : Node \union {Nil}]]
  BY DEF LoopInv, LoopTypeOK
<1>2. CASE Test(t) \/ Same(t) \/ Advance(t)
  BY <1>2 DEF Test, Same, Advance
<1>3. CASE Clear(t)
  <2>1. call[t].node \in Node /\ next' = [next EXCEPT ![call[t].node] = Nil]
    BY <1>3 DEF Clear, LoopInv, CallTyped, Free
  <2>2. next'[List] = next[List]
    BY <2>1, NodeAssumption, PointersTyped DEF Pointers
  <2> QED BY <1>3, <2>2 DEF Clear
<1>4. CASE Link(t)
  BY <1>1, <1>4 DEF Link, To
<1>5. CASE Notify(t)
  BY <1>5 DEF Notify
<1> QED BY <1>2, <1>3, <1>4, <1>5 DEF Append

\* What the loop takes off is owed.
LEMMA StoreTakes ==
    ASSUME LoopInv, NEW t \in Thread, Store(t)
    PROVE  /\ call[t].node \in Node
           /\ ~torn' => ~torn /\ call[t].node \in owed
<1>1. call[t].op = "store" /\ (~torn' => ~torn)
  BY DEF Store, Tears
<1>2. call[t].node \in Node
  BY <1>1 DEF LoopInv, CallTyped, Free
<1>3. ASSUME ~torn PROVE call[t].node \in owed
  <2>1. Whole /\ next[List] = call[t].node
    BY <1>1, <1>3 DEF LoopInv, Whole, CallFits
  <2>2. call[t].node \in Listed
    BY <1>2, <2>1, PointersTyped, ReachedHolds, NodeAssumption DEF Holds, Listed
  <2> QED BY <2>1, <2>2 DEF Whole
<1> QED BY <1>1, <1>2, <1>3

\* A signal is taken: the list does not mind.
LEMMA SignalTaken ==
    ASSUME LoopInv, UNCHANGED <<next, call, owed, torn, fault>>,
           signals' \in 0 .. MaxSignals
    PROVE  LoopInv'
BY DEF LoopInv, LoopTypeOK, CallTyped, Free, Whole, IsList, Ends, OnePredecessor, Reached,
       Holds, Listed, CallFits, Seen

----------------------------------------------------------------------------
(* The invariant of the threads.                                              *)

\* Which thread is in an operation on the list, and that bt_h4_rx never is.
Calls ==
    /\ Free("h4")
    /\ call["bt"].op = IF bt = "pop" THEN "store" ELSE "none"
    /\ ~Free("ota") => call["ota"].node = "spp"
    /\ ~Free("ctl") => call["ctl"].node \in {"cmd", "vol"}
    /\ ctl # "idle" => Free("ctl")
    /\ bt \in {"rx", "tx", "cmd", "vol"} => job = bt
    /\ bt = "arm" => job = "rx"

\* The loop is on its way to its semaphore, with no look at the list before.
GoesToSleep == bt = "sleep" \/ (job = "timer" /\ bt \in {"stack", "nap", "spp", "send"})

Wakes ==
    GoesToSleep /\ signals = 0 /\ next[List] # Nil =>
        \E t \in Thread : call[t].op = "notify"

\* A block the H4 parser got, and what it does with it.
Handles == job = "rx" /\ bt \in {"stack", "nap", "arm", "spp", "send"}

\* A block is asked for, on its way or handled, and only one of them; the
\* callbacks of the UART are listed only while they are marked pending.
UartInv ==
    /\ uart.active => ~uart.rxPending /\ uart.ring < uart.need
    /\ uart.rxPending <=> "rx" \in owed \/ bt = "rx"
    /\ ~uart.active /\ ~uart.rxPending <=> Handles
    /\ "tx" \in owed \/ bt = "tx" => uart.txPending
    /\ bt \in {"rx", "tx"} => bt \notin owed

\* A thread is in an append of n that has not come to its end.
Walks(n) == \E t \in Thread : call[t].op \in Walking /\ call[t].node = n

Coming(n) == n \in owed \/ Walks(n) \/ bt = n

\* What waits has its callback marked pending, and what is marked is coming.
KeysInv ==
    /\ avrcp.cmds > 0 => avrcp.pending
    /\ avrcp.pending => Coming("cmd")
    /\ avrcp.delta # 0 => avrcp.volPending
    /\ avrcp.volPending => Coming("vol")

IInv ==
    /\ LoopInv
    /\ TypeOK
    /\ Calls
    /\ Wakes
    /\ ~torn => UartInv /\ KeysInv
----------------------------------------------------------------------------
(* What a step of the threads leaves as it was.                               *)

\* The list, the semaphore and the threads' operations.
LEMMA LoopKept ==
    ASSUME LoopInv, UNCHANGED loopVars
    PROVE  LoopInv' /\ LoopTypeOK'
BY DEF loopVars, LoopInv, LoopTypeOK, CallTyped, Free, Whole, IsList, Ends, OnePredecessor,
       Reached, Holds, Listed, CallFits, Seen

\* A command or a volume change that is coming.
LEMMA KeysKept ==
    ASSUME KeysInv, UNCHANGED <<call, owed, avrcp>>,
           bt \notin {"cmd", "vol"} \/ bt' = bt
    PROVE  KeysInv'
BY DEF KeysInv, Coming, Walks

\* The UART's bookkeeping.
LEMMA UartKept ==
    ASSUME UartInv, UNCHANGED <<owed, uart>>, Handles' <=> Handles,
           bt' = bt \/ (bt \notin {"rx", "tx"} /\ bt' \notin {"rx", "tx"})
    PROVE  UartInv'
<1>1. CASE bt' = bt
  BY <1>1 DEF UartInv
<1>2. CASE bt \notin {"rx", "tx"} /\ bt' \notin {"rx", "tx"}
  BY <1>2 DEF UartInv
<1> QED BY <1>1, <1>2

ChannelType == [open : BOOLEAN, tx : 0 .. TxRing, scheduled : BOOLEAN,
                wanted : BOOLEAN, credit : BOOLEAN]
PortType == [ring : 0 .. RxRing, need : 1 .. MaxNeed, active : BOOLEAN,
             rxPending : BOOLEAN, txPending : BOOLEAN, busy : BOOLEAN]
KeysType == [linked : BOOLEAN, absolute : BOOLEAN, cmds : 0 .. Commands, pending : BOOLEAN,
             delta : -MaxDelta .. MaxDelta, volPending : BOOLEAN]

\* Where the loop's thread is busy with a callback of its own.
Busy == {"pop", "rx", "tx", "cmd", "vol"}

\* A step of the loop's thread between handlers, which posts nothing.
LEMMA BetweenHandlers ==
    ASSUME IInv, TypeOK', UNCHANGED <<loopVars, uart, avrcp, ctl>>,
           bt \notin Busy, bt' \notin Busy, bt' = "arm" => job' = "rx",
           Handles' <=> Handles,
           GoesToSleep' => GoesToSleep \/ next[List] = Nil
    PROVE  IInv'
<1>1. LoopInv'
  BY LoopKept DEF IInv
<1>2. Calls'
  BY DEF IInv, Calls, Busy, loopVars, Free
<1>3. Wakes'
  BY DEF IInv, Wakes, loopVars
<1>4. torn' = torn /\ UNCHANGED <<call, owed>>
  BY DEF loopVars
<1>5. ASSUME ~torn PROVE UartInv' /\ KeysInv'
  BY <1>4, <1>5, UartKept, KeysKept DEF IInv, Busy
<1> QED BY <1>1, <1>2, <1>3, <1>4, <1>5 DEF IInv

----------------------------------------------------------------------------
(* The stack's actions and the kick.                                          *)

LEMMA StackStep ==
    ASSUME IInv,
           \/ StackNaps \/ NapOver \/ CanSendNow \/ PeerCredits \/ Opened \/ Closed
           \/ StackReturns
    PROVE  IInv'
<1> USE DEF InStack, GoesToSleep, Handles, Busy
<1>1. CASE StackNaps \/ NapOver
  <2>1. TypeOK'
    BY <1>1 DEF StackNaps, NapOver, IInv, TypeOK, loopVars, LoopTypeOK
  <2> QED BY <1>1, <2>1, BetweenHandlers DEF StackNaps, NapOver
<1>2. CASE CanSendNow \/ PeerCredits
  <2>1. TypeOK'
    BY <1>2 DEF CanSendNow, PeerCredits, IInv, TypeOK, loopVars, LoopTypeOK
  <2> QED BY <1>2, <2>1, BetweenHandlers DEF CanSendNow, PeerCredits
<1>3. CASE Opened \/ Closed
  <2>1. /\ \E o \in BOOLEAN : spp' = [open |-> o, tx |-> 0, scheduled |-> FALSE,
                                   wanted |-> FALSE, credit |-> o]
        /\ UNCHANGED <<loopVars, bt, job, uart, ctl, avrcp, profiles>>
        /\ bt = "stack" /\ stranded' = FALSE
    BY <1>3 DEF Opened, Closed
  <2>2. 0 \in 0 .. TxRing
    BY SizeAssumption
  <2>3. spp' \in ChannelType
    BY <2>1, <2>2 DEF ChannelType
  <2>4. LoopTypeOK'
    BY <2>1, LoopKept DEF IInv
  <2>5. TypeOK'
    BY <2>1, <2>3, <2>4 DEF IInv, TypeOK, ChannelType
  <2> QED BY <2>1, <2>5, BetweenHandlers DEF Calls, IInv
<1>4. CASE StackReturns
  <2>1. TypeOK'
    BY <1>4 DEF StackReturns, IInv, TypeOK, loopVars, LoopTypeOK
  <2> QED BY <1>4, <2>1, BetweenHandlers DEF StackReturns
<1> QED BY <1>1, <1>2, <1>3, <1>4

LEMMA KickStep ==
    ASSUME IInv, KickNothing \/ KickLater \/ KickTakes \/ SendFails
    PROVE  IInv'
<1> USE DEF Kicker, GoesToSleep, Handles, Busy
<1>1. CASE KickNothing \/ KickLater
  <2>1. TypeOK'
    BY <1>1 DEF KickNothing, KickLater, IInv, TypeOK, loopVars, LoopTypeOK
  <2> QED BY <1>1, <2>1, BetweenHandlers DEF KickNothing, KickLater
<1>2. CASE KickTakes
  <2>1. spp \in ChannelType
    BY DEF IInv, TypeOK, ChannelType
  <2>2. (IF spp.tx < Frame THEN 0 ELSE spp.tx - Frame) \in 0 .. TxRing
    BY <2>1, SizeAssumption DEF ChannelType
  <2>3. spp' \in ChannelType
    BY <1>2, <2>1, <2>2 DEF KickTakes, ChannelType
  <2>4. TypeOK'
    BY <1>2, <2>3, LoopKept DEF KickTakes, IInv, TypeOK, ChannelType
  <2> QED BY <1>2, <2>4, BetweenHandlers DEF KickTakes
<1>3. CASE SendFails
  <2>1. TypeOK'
    BY <1>3 DEF SendFails, IInv, TypeOK, loopVars, LoopTypeOK
  <2> QED BY <1>3, <2>1, BetweenHandlers DEF SendFails
<1> QED BY <1>1, <1>2, <1>3

----------------------------------------------------------------------------
(* The loop itself.                                                           *)

\* The list is empty, or a timer is due.
LEMMA DrainNoneStep ==
    ASSUME IInv, DrainNone \/ TimerDue
    PROVE  IInv'
<1>1. TypeOK'
  BY DEF DrainNone, TimerDue, IInv, TypeOK, loopVars, LoopTypeOK
<1> QED BY <1>1, BetweenHandlers DEF DrainNone, TimerDue, GoesToSleep, Handles, Busy
----------------------------------------------------------------------------
(* Posts that are made at once.                                               *)

\* Of the loop's thread or a more urgent one, in a state of the rest of the
\* system that fits what is posted.
LEMMA PostedAtOnce ==
    ASSUME IInv, TypeOK', NEW t \in {"h4", "bt"}, NEW n \in {"rx", "tx"},
           PostAtOnce(t, n), Free(t), ~torn => n \notin owed,
           UNCHANGED <<ctl, avrcp, job>>,
           bt' = bt \/ (bt \notin Busy \ {"cmd"} /\ bt' \notin Busy),
           bt = "cmd" => bt' = bt, bt' # bt => bt' # "arm",
           GoesToSleep' => GoesToSleep,
           ~torn /\ owed' = owed \union {n} => UartInv'
    PROVE  IInv'
<1>1. t \in Thread /\ n \in Node
  BY ThreadAssumption, RegistrationAssumption
<1>2. /\ LoopInv' /\ call' = call
      /\ ~torn' => ~torn /\ owed' = owed \union {n} /\ signals' = Signalled
  BY <1>1, PostAtOnceStep DEF IInv
<1>3. Calls'
  BY <1>2 DEF IInv, Calls, Free, Busy
<1>4. Wakes'
  <2>1. signals' = Signalled \/ (signals' = signals /\ next' = next)
    BY DEF PostAtOnce
  <2>2. Signalled # 0
    BY SignalAssumption DEF Signalled, IInv, TypeOK, LoopTypeOK
  <2>3. CASE signals' = Signalled
    BY <2>2, <2>3 DEF Wakes
  <2>4. CASE signals' = signals /\ next' = next
    BY <1>2, <2>4 DEF IInv, Wakes
  <2> QED BY <2>1, <2>3, <2>4
<1>5. ASSUME ~torn' PROVE UartInv' /\ KeysInv'
  <2>1. ~torn /\ owed' = owed \union {n} /\ KeysInv /\ UartInv'
    BY <1>2, <1>5 DEF IInv
  <2> QED BY <1>2, <2>1 DEF KeysInv, Coming, Walks, Busy
<1> QED BY <1>2, <1>3, <1>4, <1>5 DEF IInv

\* The port's bookkeeping when a block is delivered.
LEMMA DeliveredTyped ==
    ASSUME NEW u \in PortType, Deliverable(u)
    PROVE  Delivered(u) \in PortType
<1>1. u.ring - u.need \in 0 .. RxRing
  BY SizeAssumption DEF PortType, Deliverable
<1> QED BY <1>1 DEF PortType, Delivered

LEMMA PutStep ==
    ASSUME IInv, Put
    PROVE  IInv'
<1> DEFINE u == [uart EXCEPT !.ring = IF @ < RxRing THEN @ + 1 ELSE @]
<1>1. /\ \/ Deliverable(u) /\ uart' = Delivered(u) /\ PostAtOnce("h4", "rx")
         \/ ~Deliverable(u) /\ uart' = u /\ UNCHANGED loopVars
      /\ UNCHANGED <<bt, job, spp, ctl, avrcp, profiles, stranded>>
  BY DEF Put
<1>2. uart \in PortType /\ u \in PortType
  BY SizeAssumption DEF IInv, TypeOK, PortType
<1>3. /\ u.active = uart.active /\ u.rxPending = uart.rxPending
      /\ u.need = uart.need /\ u.txPending = uart.txPending
  BY <1>2 DEF PortType
<1>4. CASE Deliverable(u) /\ uart' = Delivered(u) /\ PostAtOnce("h4", "rx")
  <2>1. uart.active /\ ~uart.rxPending
    BY <1>3, <1>4 DEF Deliverable
  <2>2. Free("h4") /\ (~torn => "rx" \notin owed /\ UartInv)
    BY <2>1 DEF IInv, Calls, UartInv
  <2>3. TypeOK'
    <3>1. LoopTypeOK'
      BY <1>4, <2>2, ThreadAssumption, RegistrationAssumption, PostAtOnceStep DEF IInv, LoopInv
    <3>2. uart' \in PortType
      BY <1>2, <1>4, DeliveredTyped
    <3> QED BY <1>1, <3>1, <3>2 DEF IInv, TypeOK, PortType
  <2>4. ~uart'.active /\ uart'.rxPending /\ uart'.txPending = uart.txPending
    BY <1>2, <1>3, <1>4 DEF Delivered, PortType
  <2>5. ~torn /\ owed' = owed \union {"rx"} => UartInv'
    BY <1>1, <2>1, <2>2, <2>4 DEF UartInv, Handles
  <2>6. UNCHANGED <<ctl, avrcp, job>> /\ bt' = bt /\ (GoesToSleep' => GoesToSleep)
    BY <1>1 DEF GoesToSleep
  <2> QED BY <1>4, <2>2, <2>3, <2>5, <2>6, PostedAtOnce
<1>5. CASE ~Deliverable(u) /\ uart' = u /\ UNCHANGED loopVars
  <2>1. LoopInv' /\ LoopTypeOK'
    BY <1>5, LoopKept DEF IInv
  <2>2. TypeOK'
    BY <1>1, <1>2, <1>5, <2>1 DEF IInv, TypeOK, PortType
  <2>3. Calls' /\ Wakes'
    BY <1>1, <1>5 DEF IInv, Calls, Free, Wakes, GoesToSleep, loopVars
  <2>4. ASSUME ~torn PROVE UartInv' /\ KeysInv'
    <3>1. UartInv /\ KeysInv
      BY <2>4 DEF IInv
    <3>2. uart.active => u.ring < u.need
      BY <1>2, <1>3, <1>5, <3>1 DEF Deliverable, UartInv, PortType
    <3>3. UartInv'
      BY <1>1, <1>3, <1>5, <3>1, <3>2 DEF UartInv, Handles, loopVars
    <3> QED BY <1>1, <1>5, <3>1, <3>3, KeysKept DEF loopVars
  <2>5. torn' = torn
    BY <1>5 DEF loopVars
  <2> QED BY <2>1, <2>2, <2>3, <2>4, <2>5 DEF IInv
<1> QED BY <1>1, <1>4, <1>5

LEMMA ArmStep ==
    ASSUME IInv, Arm
    PROVE  IInv'
<1>1. PICK need \in 1 .. MaxNeed :
          LET u == [uart EXCEPT !.need = need, !.active = TRUE]
          IN  IF Deliverable(u)
              THEN uart' = Delivered(u) /\ PostAtOnce("bt", "rx")
              ELSE uart' = u /\ UNCHANGED loopVars
  BY DEF Arm
<1> DEFINE u == [uart EXCEPT !.need = need, !.active = TRUE]
<1>2. /\ bt = "arm" /\ bt' = "drain"
      /\ UNCHANGED <<job, spp, ctl, avrcp, profiles, stranded>>
      /\ \/ Deliverable(u) /\ uart' = Delivered(u) /\ PostAtOnce("bt", "rx")
         \/ ~Deliverable(u) /\ uart' = u /\ UNCHANGED loopVars
  BY <1>1 DEF Arm
<1>3. uart \in PortType /\ u \in PortType
  BY DEF IInv, TypeOK, PortType
<1>4. /\ u.active /\ u.rxPending = uart.rxPending /\ u.txPending = uart.txPending
      /\ u.ring = uart.ring /\ u.need = need
  BY <1>3 DEF PortType
<1>5. Free("bt")
  BY <1>2 DEF IInv, Calls, Free
<1>6. ~torn => UartInv /\ KeysInv
  BY DEF IInv
<1>7. CASE Deliverable(u) /\ uart' = Delivered(u) /\ PostAtOnce("bt", "rx")
  <2>1. ~uart.rxPending
    BY <1>4, <1>7 DEF Deliverable
  <2>2. ~torn => "rx" \notin owed
    BY <1>6, <2>1 DEF UartInv
  <2>3. TypeOK'
    <3>1. LoopTypeOK'
      BY <1>5, <1>7, <2>2, ThreadAssumption, RegistrationAssumption, PostAtOnceStep
         DEF IInv, LoopInv
    <3>2. uart' \in PortType
      BY <1>3, <1>7, DeliveredTyped
    <3> QED BY <1>2, <3>1, <3>2 DEF IInv, TypeOK, PortType
  <2>4. ~uart'.active /\ uart'.rxPending /\ uart'.txPending = uart.txPending
    BY <1>3, <1>4, <1>7 DEF Delivered, PortType
  <2>5. ~torn /\ owed' = owed \union {"rx"} => UartInv'
    BY <1>2, <1>6, <2>1, <2>4 DEF UartInv, Handles
  <2>6. ~GoesToSleep' /\ bt \notin Busy /\ bt' \notin Busy
    BY <1>2 DEF GoesToSleep, Busy
  <2> QED BY <1>2, <1>5, <1>7, <2>2, <2>3, <2>5, <2>6, PostedAtOnce DEF Busy
<1>8. CASE ~Deliverable(u) /\ uart' = u /\ UNCHANGED loopVars
  <2>1. LoopInv' /\ LoopTypeOK'
    BY <1>8, LoopKept DEF IInv
  <2>2. TypeOK'
    BY <1>2, <1>3, <1>8, <2>1 DEF IInv, TypeOK, PortType
  <2>3. Calls' /\ Wakes'
    BY <1>2, <1>8 DEF IInv, Calls, Free, Wakes, GoesToSleep, loopVars
  <2>4. ASSUME ~torn PROVE UartInv' /\ KeysInv'
    <3>1. UartInv /\ KeysInv
      BY <2>4 DEF IInv
    <3>2. KeysInv'
      BY <1>2, <1>8, <3>1, KeysKept DEF loopVars
    <3>3. Handles
      BY <1>2 DEF IInv, Calls, Handles
    <3>4. UartInv'
      <4>1. ~uart.rxPending
        BY <3>1, <3>3 DEF UartInv
      <4>2. u.ring < u.need
        BY <1>3, <1>4, <1>8, <4>1 DEF Deliverable, PortType
      <4> QED BY <1>2, <1>4, <1>8, <3>1, <4>1, <4>2 DEF UartInv, Handles, loopVars
    <3> QED BY <3>2, <3>4
  <2>5. torn' = torn
    BY <1>8 DEF loopVars
  <2> QED BY <2>1, <2>2, <2>3, <2>4, <2>5 DEF IInv
<1> QED BY <1>2, <1>7, <1>8
\* The loop's thread hands a packet to the UART; then it may return from a kick.
LEMMA SendBlockStep ==
    ASSUME IInv, SendBlock, UNCHANGED <<job, ctl, avrcp, profiles>>,
           spp' \in ChannelType, stranded' \in BOOLEAN,
           \/ bt \in {"stack", "cmd"} /\ bt' = bt
           \/ bt = "send" /\ bt' = Kicker
    PROVE  IInv'
<1>1. /\ uart' = [uart EXCEPT !.busy = TRUE, !.txPending = TRUE]
      /\ IF uart.txPending THEN UNCHANGED loopVars ELSE PostAtOnce("bt", "tx")
  BY DEF SendBlock
<1>2. uart \in PortType
  BY DEF IInv, TypeOK, PortType
<1>3. /\ uart' \in PortType /\ uart'.txPending
      /\ uart'.active = uart.active /\ uart'.rxPending = uart.rxPending
      /\ uart'.ring = uart.ring /\ uart'.need = uart.need
  BY <1>1, <1>2 DEF PortType
<1>4. Free("bt") /\ "bt" \in Thread /\ "tx" \in Node
  BY ThreadAssumption, RegistrationAssumption DEF IInv, Calls, Free
<1>5. ~torn => UartInv /\ KeysInv
  BY DEF IInv
<1>6. /\ bt' \in {"stack", "cmd", "drain"} /\ bt \in {"stack", "cmd", "send"}
      /\ bt' # "drain" => (Handles' <=> Handles)
      /\ bt' = "drain" => ~Handles /\ ~Handles'
      /\ GoesToSleep' => GoesToSleep
      /\ bt' # bt => bt = "send" /\ bt' \in {"stack", "drain"}
  BY DEF Kicker, Handles, GoesToSleep
<1>7. CASE uart.txPending
  <2>1. LoopInv' /\ LoopTypeOK'
    BY <1>1, <1>7, LoopKept DEF IInv
  <2>2. TypeOK'
    BY <1>3, <1>6, <2>1 DEF IInv, TypeOK, PortType, ChannelType
  <2>3. Calls' /\ Wakes'
    BY <1>1, <1>6, <1>7 DEF IInv, Calls, Free, Wakes, loopVars
  <2>4. ASSUME ~torn PROVE UartInv' /\ KeysInv'
    <3>1. UartInv'
      BY <1>1, <1>3, <1>5, <1>6, <1>7, <2>4 DEF UartInv, loopVars
    <3>2. KeysInv'
      BY <1>1, <1>5, <1>6, <1>7, <2>4, KeysKept DEF loopVars
    <3> QED BY <3>1, <3>2
  <2>5. torn' = torn
    BY <1>1, <1>7 DEF loopVars
  <2> QED BY <2>1, <2>2, <2>3, <2>4, <2>5 DEF IInv
<1>8. CASE ~uart.txPending
  <2>1. PostAtOnce("bt", "tx") /\ (~torn => "tx" \notin owed)
    BY <1>1, <1>5, <1>8 DEF UartInv
  <2>2. TypeOK'
    <3>1. LoopTypeOK'
      BY <1>4, <2>1, PostAtOnceStep DEF IInv, LoopInv
    <3> QED BY <1>3, <1>6, <3>1 DEF IInv, TypeOK, PortType, ChannelType
  <2>3. ~torn /\ owed' = owed \union {"tx"} => UartInv'
    BY <1>3, <1>5, <1>6 DEF UartInv
  <2> QED BY <1>4, <1>6, <2>1, <2>2, <2>3, PostedAtOnce DEF Busy
<1> QED BY <1>7, <1>8

LEMMA SendStep ==
    ASSUME IInv, StackSends \/ SendFrame
    PROVE  IInv'
<1>1. spp \in ChannelType /\ stranded \in BOOLEAN
  BY DEF IInv, TypeOK, ChannelType
<1>2. CASE StackSends
  BY <1>1, <1>2, SendBlockStep DEF StackSends
<1>3. CASE SendFrame
  <2>1. PICK credit \in BOOLEAN : spp' = [spp EXCEPT !.wanted = spp.tx > 0, !.credit = credit]
    BY <1>3 DEF SendFrame
  <2>2. ASSUME spp.tx > 0 PROVE spp' \in ChannelType
    <3>1. spp' = [spp EXCEPT !.wanted = TRUE, !.credit = credit]
      BY <2>1, <2>2
    <3> QED BY <1>1, <3>1 DEF ChannelType
  <2>3. ASSUME ~(spp.tx > 0) PROVE spp' \in ChannelType
    <3>1. (spp.tx > 0) = FALSE
      BY <2>3
    <3>2. spp' = [spp EXCEPT !.wanted = FALSE, !.credit = credit]
      BY <2>1, <3>1
    <3> QED BY <1>1, <3>2 DEF ChannelType
  <2>4. spp' \in ChannelType
    BY <2>2, <2>3
  <2> QED BY <1>1, <1>3, <2>4, SendBlockStep DEF SendFrame
<1> QED BY <1>2, <1>3
----------------------------------------------------------------------------
(* Callbacks of the UART, commands and volume changes.                        *)

\* A step that posts nothing: what is left to show.
LEMMA Posted ==
    ASSUME IInv, TypeOK', UNCHANGED <<loopVars, ctl>>,
           bt # "pop", bt' # "pop",
           bt' \in {"rx", "tx", "cmd", "vol"} => job' = bt',
           bt' = "arm" => job' = "rx",
           GoesToSleep' => GoesToSleep,
           ~torn => UartInv' /\ KeysInv'
    PROVE  IInv'
<1>1. LoopInv'
  BY LoopKept DEF IInv
<1>2. Calls'
  BY DEF IInv, Calls, loopVars, Free
<1>3. Wakes'
  BY DEF IInv, Wakes, loopVars
<1>4. torn' = torn
  BY DEF loopVars
<1> QED BY <1>1, <1>2, <1>3, <1>4 DEF IInv

LEMMA UartStep ==
    ASSUME IInv, RxDone \/ TxDone
    PROVE  IInv'
<1>1. /\ UNCHANGED <<loopVars, job, spp, ctl, avrcp, profiles, stranded>>
      /\ bt' = "stack" /\ bt \in {"rx", "tx"} /\ job = bt /\ job' = job
  BY DEF RxDone, TxDone, IInv, Calls
<1>2. LoopTypeOK' /\ UNCHANGED <<call, owed>>
  BY <1>1, LoopKept DEF IInv, loopVars
<1>3. uart \in PortType
  BY DEF IInv, TypeOK, PortType
<1>4. ~torn => UartInv /\ KeysInv'
  BY <1>1, <1>2, KeysKept DEF IInv
<1>5. CASE RxDone
  <2>1. uart' = [uart EXCEPT !.rxPending = FALSE] /\ bt = "rx"
    BY <1>5 DEF RxDone
  <2>2. /\ uart' \in PortType /\ ~uart'.rxPending
        /\ uart'.active = uart.active /\ uart'.txPending = uart.txPending
    BY <1>3, <2>1 DEF PortType
  <2>3. TypeOK'
    BY <1>1, <1>2, <2>2 DEF IInv, TypeOK, PortType
  <2>4. ASSUME ~torn PROVE UartInv'
    <3>1. UartInv /\ uart.rxPending /\ ~uart.active /\ "rx" \notin owed
      BY <1>4, <2>1, <2>4 DEF UartInv
    <3> QED BY <1>1, <1>2, <2>1, <2>2, <3>1 DEF UartInv, Handles
  <2> QED BY <1>1, <1>4, <2>3, <2>4, Posted DEF GoesToSleep
<1>6. CASE TxDone
  <2>1. uart' = [uart EXCEPT !.txPending = FALSE, !.busy = FALSE] /\ bt = "tx"
    BY <1>6 DEF TxDone
  <2>2. /\ uart' \in PortType
        /\ uart'.active = uart.active /\ uart'.rxPending = uart.rxPending
        /\ uart'.ring = uart.ring /\ uart'.need = uart.need
    BY <1>3, <2>1 DEF PortType
  <2>3. TypeOK'
    BY <1>1, <1>2, <2>2 DEF IInv, TypeOK, PortType
  <2>4. ASSUME ~torn PROVE UartInv'
    <3>1. UartInv /\ "tx" \notin owed
      BY <1>4, <2>1, <2>4 DEF UartInv
    <3> QED BY <1>1, <1>2, <2>1, <2>2, <3>1 DEF UartInv, Handles
  <2> QED BY <1>1, <1>4, <2>3, <2>4, Posted DEF GoesToSleep
<1> QED BY <1>5, <1>6

LEMMA RunKeysStep ==
    ASSUME IInv, RunCommand \/ RunDelta
    PROVE  IInv'
<1>1. /\ UNCHANGED <<loopVars, uart, spp, ctl, profiles, stranded>>
      /\ bt \in {"cmd", "vol"} /\ job = bt
  BY DEF RunCommand, RunDelta, IInv, Calls
<1>2. LoopTypeOK' /\ UNCHANGED <<call, owed>>
  BY <1>1, LoopKept DEF IInv, loopVars
<1>3. avrcp \in KeysType /\ avrcp.cmds \in 0 .. Commands
  BY DEF IInv, TypeOK, KeysType
<1>4. CASE RunCommand
  <2>1. bt = "cmd"
    BY <1>4 DEF RunCommand
  <2>2. /\ avrcp' \in KeysType
        /\ avrcp'.delta = avrcp.delta /\ avrcp'.volPending = avrcp.volPending
        /\ \/ avrcp'.pending = avrcp.pending /\ UNCHANGED <<bt, job>> /\ avrcp.cmds > 0
           \/ ~avrcp'.pending /\ avrcp'.cmds = 0 /\ bt' = "drain" /\ job' = "timer"
    <3>1. CASE avrcp.cmds > 0
      <4>1. avrcp' = [avrcp EXCEPT !.cmds = @ - 1] /\ UNCHANGED <<bt, job>>
        BY <1>4, <3>1 DEF RunCommand
      <4>2. avrcp.cmds - 1 \in 0 .. Commands
        BY <1>3, <3>1, SizeAssumption
      <4> QED BY <1>3, <3>1, <4>1, <4>2 DEF KeysType
    <3>2. CASE ~(avrcp.cmds > 0)
      <4>1. /\ avrcp' = [avrcp EXCEPT !.pending = FALSE] /\ bt' = "drain" /\ job' = "timer"
            /\ avrcp.cmds = 0
        BY <1>3, <1>4, <3>2, SizeAssumption DEF RunCommand
      <4> QED BY <1>3, <4>1 DEF KeysType
    <3> QED BY <3>1, <3>2
  <2>3. TypeOK'
    BY <1>1, <1>2, <2>1, <2>2 DEF IInv, TypeOK, KeysType
  <2>4. ASSUME ~torn PROVE UartInv' /\ KeysInv'
    <3>1. UartInv /\ KeysInv
      BY <2>4 DEF IInv
    <3>2. UartInv'
      BY <1>1, <1>2, <2>1, <2>2, <3>1, UartKept DEF Handles
    <3>3. Coming("vol") => Coming("vol")'
      BY <1>2, <2>1 DEF Coming, Walks
    <3>4. avrcp.pending => Coming("cmd")
      BY <3>1 DEF KeysInv
    <3>5. CASE avrcp'.pending = avrcp.pending /\ UNCHANGED <<bt, job>> /\ avrcp.cmds > 0
      <4>1. avrcp.pending /\ Coming("cmd")'
        BY <1>2, <2>1, <3>1, <3>5 DEF KeysInv, Coming
      <4> QED BY <2>2, <3>1, <3>2, <3>3, <3>5, <4>1 DEF KeysInv
    <3>6. CASE ~avrcp'.pending /\ avrcp'.cmds = 0
      BY <2>2, <3>1, <3>2, <3>3, <3>6 DEF KeysInv
    <3> QED BY <2>2, <3>5, <3>6
  <2>5. bt' \in {"cmd", "drain"} /\ (bt' = "cmd" => job' = "cmd") /\ ~GoesToSleep'
    BY <1>1, <2>1, <2>2 DEF GoesToSleep
  <2> QED BY <1>1, <2>1, <2>3, <2>4, <2>5, Posted
<1>5. CASE RunDelta
  <2>1. /\ bt = "vol" /\ bt' = "stack" /\ job' = job
        /\ avrcp' = [avrcp EXCEPT !.delta = 0, !.volPending = FALSE]
    BY <1>5 DEF RunDelta
  <2>2. 0 \in -MaxDelta .. MaxDelta
    BY SizeAssumption
  <2>3. /\ avrcp' \in KeysType /\ avrcp'.delta = 0 /\ ~avrcp'.volPending
        /\ avrcp'.cmds = avrcp.cmds /\ avrcp'.pending = avrcp.pending
    BY <1>3, <2>1, <2>2 DEF KeysType
  <2>4. TypeOK'
    BY <1>1, <1>2, <2>1, <2>3 DEF IInv, TypeOK, KeysType
  <2>5. ASSUME ~torn PROVE UartInv' /\ KeysInv'
    <3>1. UartInv /\ KeysInv
      BY <2>5 DEF IInv
    <3>2. UartInv'
      BY <1>1, <1>2, <2>1, <3>1, UartKept DEF Handles
    <3>3. Coming("cmd") => Coming("cmd")'
      BY <1>2, <2>1 DEF Coming, Walks
    <3> QED BY <2>3, <3>1, <3>2, <3>3 DEF KeysInv
  <2> QED BY <1>1, <2>1, <2>4, <2>5, Posted DEF GoesToSleep
<1> QED BY <1>4, <1>5
LEMMA LinkLayerStep ==
    ASSUME IInv, AvrcpLinks \/ AvrcpReleased
    PROVE  IInv'
<1>1. /\ UNCHANGED <<loopVars, job, uart, spp, ctl, profiles, stranded>>
      /\ bt = "stack" /\ bt' \in {"stack", "arm"} /\ job = "rx"
  BY DEF AvrcpLinks, AvrcpReleased, InStack
<1>2. LoopTypeOK' /\ UNCHANGED <<call, owed>>
  BY <1>1, LoopKept DEF IInv, loopVars
<1>3. avrcp \in KeysType
  BY DEF IInv, TypeOK, KeysType
<1>4. /\ avrcp' \in KeysType
      /\ avrcp'.cmds = avrcp.cmds /\ avrcp'.pending = avrcp.pending
      /\ \/ avrcp'.delta = avrcp.delta /\ avrcp'.volPending = avrcp.volPending
         \/ avrcp'.delta = 0 /\ ~avrcp'.volPending
  <2>1. CASE AvrcpLinks
    BY <1>3, <2>1 DEF AvrcpLinks, KeysType
  <2>2. CASE AvrcpReleased
    <3>1. 0 \in -MaxDelta .. MaxDelta
      BY SizeAssumption
    <3> QED BY <1>3, <2>2, <3>1 DEF AvrcpReleased, KeysType
  <2> QED BY <2>1, <2>2
<1>5. TypeOK'
  BY <1>1, <1>2, <1>4 DEF IInv, TypeOK, KeysType
<1>6. ASSUME ~torn PROVE UartInv' /\ KeysInv'
  <2>1. UartInv /\ KeysInv
    BY <1>6 DEF IInv
  <2>2. UartInv'
    BY <1>1, <1>2, <2>1, UartKept DEF Handles
  <2>3. \A n \in {"cmd", "vol"} : Coming(n) => Coming(n)'
    BY <1>1, <1>2 DEF Coming, Walks
  <2>4. KeysInv'
    BY <1>4, <2>1, <2>3 DEF KeysInv
  <2> QED BY <2>2, <2>4
<1> QED BY <1>1, <1>5, <1>6, Posted DEF GoesToSleep

----------------------------------------------------------------------------
(* Threads that begin an append.                                              *)

\* A thread other than the loop's, which is free, begins to append n.
LEMMA Begun ==
    ASSUME IInv, TypeOK', NEW t \in {"ota", "ctl"}, Free(t),
           NEW n \in {"spp", "cmd", "vol"}, t = "ota" <=> n = "spp",
           Post(t, n) \/ PostCleared(t, n),
           UNCHANGED <<bt, job, uart>>, t = "ctl" => ctl' = "idle", t = "ota" => ctl' = ctl,
           ~torn /\ Coming(n)' /\ (\A k \in {"cmd", "vol"} : Coming(k) => Coming(k)') => KeysInv'
    PROVE  IInv'
<1>1. t \in Thread /\ n \in Node /\ t # "bt" /\ t # "h4"
  BY ThreadAssumption, RegistrationAssumption
<1>2. LoopInv'
  BY <1>1, PostStep, PostClearedStep DEF IInv
<1>3. /\ call' = [call EXCEPT ![t] = [op |-> "test", at |-> List, node |-> n]]
      /\ UNCHANGED <<signals, owed>>
      /\ ~torn' => ~torn
      /\ next'[List] = next[List]
  <2>1. next' = next \/ next' = [next EXCEPT ![n] = Nil]
    BY DEF Post, PostCleared
  <2>2. next'[List] = next[List]
    BY <1>1, <2>1, NodeAssumption, PointersTyped DEF Pointers, IInv
  <2>3. UNCHANGED <<signals, owed>> /\ (~torn' => ~torn)
    <3>1. CASE Post(t, n)
      BY <3>1 DEF Post
    <3>2. CASE PostCleared(t, n)
      BY <3>2 DEF PostCleared
    <3> QED BY <3>1, <3>2
  <2> QED BY <2>2, <2>3 DEF Post, PostCleared, Begin
<1>4. /\ call'[t] = [op |-> "test", at |-> List, node |-> n]
      /\ \A u \in Thread \ {t} : call'[u] = call[u]
  BY <1>1, <1>3 DEF IInv, LoopInv, LoopTypeOK
<1>5. Calls'
  BY <1>1, <1>4, ThreadAssumption DEF IInv, Calls, Free
<1>6. Wakes'
  <2> SUFFICES ASSUME GoesToSleep, signals = 0, next[List] # Nil
               PROVE  \E u \in Thread : call'[u].op = "notify"
    BY <1>3 DEF Wakes, GoesToSleep
  <2>1. PICK u \in Thread : call[u].op = "notify"
    BY DEF IInv, Wakes
  <2> QED BY <1>4, <2>1 DEF Free
<1>7. ASSUME ~torn' PROVE UartInv' /\ KeysInv'
  <2>1. ~torn /\ UartInv
    BY <1>3, <1>7 DEF IInv
  <2>2. Coming(n)'
    BY <1>1, <1>4 DEF Coming, Walks, Walking
  <2>3. ASSUME NEW k \in {"cmd", "vol"}, Coming(k) PROVE Coming(k)'
    <3>1. CASE Walks(k)
      <4>1. PICK u \in Thread : call[u].op \in Walking /\ call[u].node = k
        BY <3>1 DEF Walks
      <4>2. u # t
        BY <4>1 DEF Free, Walking
      <4> QED BY <1>4, <4>1, <4>2 DEF Coming, Walks
    <3> QED BY <1>3, <2>3, <3>1 DEF Coming
  <2>4. UartInv'
    BY <1>3, <2>1, UartKept DEF Handles
  <2> QED BY <2>1, <2>2, <2>3, <2>4
<1> QED BY <1>2, <1>5, <1>6, <1>7 DEF IInv

LEMMA TxWriteStep ==
    ASSUME IInv, TxWrite
    PROVE  IInv'
<1>1. PICK n \in 1 .. (TxRing - spp.tx) :
          spp' = [spp EXCEPT !.tx = @ + n, !.scheduled = TRUE]
  BY DEF TxWrite
<1>2. /\ UNCHANGED <<bt, job, uart, ctl, avrcp, profiles, stranded>>
      /\ IF spp.scheduled THEN UNCHANGED loopVars ELSE Post("ota", "spp")
      /\ Free("ota")
  BY DEF TxWrite
<1>3. spp \in ChannelType /\ spp' \in ChannelType
  <2>1. spp \in ChannelType
    BY DEF IInv, TypeOK, ChannelType
  <2>2. spp.tx + n \in 0 .. TxRing
    BY <2>1, SizeAssumption DEF ChannelType
  <2> QED BY <1>1, <2>1, <2>2 DEF ChannelType
<1>4. CASE spp.scheduled
  <2>1. LoopInv' /\ LoopTypeOK'
    BY <1>2, <1>4, LoopKept DEF IInv
  <2>2. TypeOK'
    BY <1>2, <1>3, <2>1 DEF IInv, TypeOK, ChannelType
  <2>3. Calls' /\ Wakes' /\ torn' = torn
    BY <1>2, <1>4 DEF IInv, Calls, Free, Wakes, GoesToSleep, loopVars
  <2>4. ~torn => UartInv' /\ KeysInv'
    BY <1>2, <1>4, UartKept, KeysKept DEF IInv, Handles, loopVars
  <2> QED BY <2>1, <2>2, <2>3, <2>4 DEF IInv
<1>5. CASE ~spp.scheduled
  <2>1. Post("ota", "spp") /\ "ota" \in Thread /\ "spp" \in Node
    BY <1>2, <1>5, ThreadAssumption, RegistrationAssumption
  <2>2. LoopTypeOK'
    BY <1>2, <2>1, PostStep DEF IInv, LoopInv
  <2>3. TypeOK'
    BY <1>2, <1>3, <2>2 DEF IInv, TypeOK, ChannelType
  <2>4. ~torn /\ (\A k \in {"cmd", "vol"} : Coming(k) => Coming(k)') => KeysInv'
    BY <1>2 DEF IInv, KeysInv
  <2> QED BY <1>2, <2>1, <2>3, <2>4, Begun
<1> QED BY <1>4, <1>5

LEMMA KeyStep ==
    ASSUME IInv, Key
    PROVE  IInv'
<1>1. /\ UNCHANGED <<loopVars, bt, job, uart, spp, avrcp, profiles, stranded>>
      /\ Free("ctl") /\ ctl' \in {"command", "volume"}
  BY DEF Key
<1>2. LoopInv' /\ LoopTypeOK'
  BY <1>1, LoopKept DEF IInv
<1>3. TypeOK'
  BY <1>1, <1>2 DEF IInv, TypeOK
<1>4. Calls' /\ Wakes' /\ torn' = torn
  BY <1>1 DEF IInv, Calls, Free, Wakes, GoesToSleep, loopVars
<1>5. ~torn => UartInv' /\ KeysInv'
  BY <1>1, UartKept, KeysKept DEF IInv, Handles, loopVars
<1> QED BY <1>2, <1>3, <1>4, <1>5 DEF IInv
\* bt_avrcp_ct_post_command and bt_avrcp_ct_post_abs_volume_delta.
LEMMA PostKeyStep ==
    ASSUME IInv, PostCommand \/ PostDelta
    PROVE  IInv'
<1>1. /\ UNCHANGED <<bt, job, uart, spp, profiles, stranded>>
      /\ ctl # "idle" /\ ctl' = "idle" /\ Free("ctl")
      /\ "ctl" \in Thread /\ {"cmd", "vol"} \subseteq Node
  BY ThreadAssumption, RegistrationAssumption DEF PostCommand, PostDelta, IInv, Calls
<1>2. avrcp \in KeysType /\ avrcp.cmds \in 0 .. Commands
  BY DEF IInv, TypeOK, KeysType
<1>3. ASSUME UNCHANGED loopVars, avrcp' \in KeysType, ~torn => KeysInv'
      PROVE  IInv'
  <2>1. LoopInv' /\ LoopTypeOK'
    BY <1>3, LoopKept DEF IInv
  <2>2. TypeOK'
    BY <1>1, <1>3, <2>1 DEF IInv, TypeOK, KeysType
  <2>3. Calls' /\ Wakes' /\ torn' = torn
    BY <1>1, <1>3 DEF IInv, Calls, Free, Wakes, GoesToSleep, loopVars
  <2>4. ~torn => UartInv'
    BY <1>1, <1>3, UartKept DEF IInv, Handles, loopVars
  <2> QED BY <1>3, <2>1, <2>2, <2>3, <2>4 DEF IInv
<1>4. ASSUME NEW n \in {"cmd", "vol"}, PostCleared("ctl", n), avrcp' \in KeysType,
             ~torn /\ Coming(n)' /\ (\A k \in {"cmd", "vol"} : Coming(k) => Coming(k)')
                 => KeysInv'
      PROVE  IInv'
  <2>1. LoopTypeOK'
    BY <1>1, <1>4, PostClearedStep DEF IInv, LoopInv
  <2>2. TypeOK'
    BY <1>1, <1>4, <2>1 DEF IInv, TypeOK, KeysType
  <2> QED BY <1>1, <1>4, <2>2, Begun
<1>5. CASE PostCommand
  <2>1. CASE avrcp.cmds >= Commands
    <3>1. UNCHANGED <<loopVars, avrcp>>
      BY <1>5, <2>1 DEF PostCommand
    <3>2. ~torn => KeysInv'
      BY <1>1, <3>1, KeysKept DEF IInv, loopVars
    <3> QED BY <1>2, <1>3, <3>1, <3>2
  <2>2. CASE ~(avrcp.cmds >= Commands)
    <3>1. /\ avrcp' = [avrcp EXCEPT !.cmds = @ + 1, !.pending = TRUE]
          /\ IF avrcp.pending THEN UNCHANGED loopVars ELSE PostCleared("ctl", "cmd")
      BY <1>5, <2>2 DEF PostCommand
    <3>2. avrcp.cmds + 1 \in 0 .. Commands
      BY <1>2, <2>2, SizeAssumption
    <3>3. /\ avrcp' \in KeysType /\ avrcp'.pending
          /\ avrcp'.delta = avrcp.delta /\ avrcp'.volPending = avrcp.volPending
      BY <1>2, <3>1, <3>2 DEF KeysType
    <3>4. CASE avrcp.pending
      <4>1. ~torn => KeysInv'
        <5>1. \A k \in {"cmd", "vol"} : Coming(k)' <=> Coming(k)
          BY <1>1, <3>1, <3>4 DEF Coming, Walks, loopVars
        <5> QED BY <3>3, <3>4, <5>1 DEF IInv, KeysInv
      <4> QED BY <1>3, <3>1, <3>3, <3>4, <4>1
    <3>5. CASE ~avrcp.pending
      <4>1. ~torn /\ Coming("cmd")' /\ (\A k \in {"cmd", "vol"} : Coming(k) => Coming(k)')
               => KeysInv'
        BY <3>3 DEF IInv, KeysInv
      <4> QED BY <1>4, <3>1, <3>3, <3>5, <4>1
    <3> QED BY <3>4, <3>5
  <2> QED BY <2>1, <2>2
<1>6. CASE PostDelta
  <2>1. PICK d \in {-1, 1} :
           avrcp' = [avrcp EXCEPT !.delta = Clamp(@ + d), !.volPending = TRUE]
    BY <1>6 DEF PostDelta
  <2>2. IF avrcp.volPending THEN UNCHANGED loopVars ELSE PostCleared("ctl", "vol")
    BY <1>6 DEF PostDelta
  <2>3. Clamp(avrcp.delta + d) \in -MaxDelta .. MaxDelta
    <3>1. avrcp.delta \in -MaxDelta .. MaxDelta
      BY <1>2 DEF KeysType
    <3> QED BY <3>1, SizeAssumption DEF Clamp
  <2>4. /\ avrcp' \in KeysType /\ avrcp'.volPending
        /\ avrcp'.cmds = avrcp.cmds /\ avrcp'.pending = avrcp.pending
    BY <1>2, <2>1, <2>3 DEF KeysType
  <2>5. CASE avrcp.volPending
    <3>1. ~torn => KeysInv'
      <4>1. \A k \in {"cmd", "vol"} : Coming(k)' <=> Coming(k)
        BY <1>1, <2>2, <2>5 DEF Coming, Walks, loopVars
      <4> QED BY <2>4, <2>5, <4>1 DEF IInv, KeysInv
    <3> QED BY <1>3, <2>2, <2>4, <2>5, <3>1
  <2>6. CASE ~avrcp.volPending
    <3>1. ~torn /\ Coming("vol")' /\ (\A k \in {"cmd", "vol"} : Coming(k) => Coming(k)')
             => KeysInv'
      BY <2>4 DEF IInv, KeysInv
    <3> QED BY <1>4, <2>2, <2>4, <2>6, <3>1
  <2> QED BY <2>5, <2>6
<1> QED BY <1>5, <1>6

----------------------------------------------------------------------------
(* The list under the loop and under the appends of the threads.              *)

\* The loop's thread wakes up.
LEMMA WakeUpStep ==
    ASSUME IInv, WakeUp
    PROVE  IInv'
<1>1. /\ bt = "sleep" /\ bt' = "drain" /\ signals > 0 /\ signals' = signals - 1
      /\ UNCHANGED <<next, call, owed, torn, fault>>
      /\ UNCHANGED <<job, uart, spp, ctl, avrcp, profiles, stranded>>
  BY DEF WakeUp
<1>2. signals' \in 0 .. MaxSignals
  BY <1>1, SignalAssumption DEF IInv, TypeOK, LoopTypeOK
<1>3. LoopInv' /\ LoopTypeOK'
  BY <1>1, <1>2, SignalTaken DEF IInv, LoopInv
<1>4. TypeOK'
  BY <1>1, <1>3 DEF IInv, TypeOK
<1>5. Calls' /\ Wakes'
  BY <1>1 DEF IInv, Calls, Free, Wakes, GoesToSleep
<1>6. ~torn => UartInv' /\ KeysInv'
  BY <1>1, UartKept, KeysKept DEF IInv, Handles
<1> QED BY <1>1, <1>3, <1>4, <1>5, <1>6 DEF IInv

\* It reads the first registration of the list, ...
LEMMA DrainSomeStep ==
    ASSUME IInv, DrainSome
    PROVE  IInv'
<1>1. /\ bt = "drain" /\ bt' = "pop" /\ Load("bt") /\ "bt" \in Thread
      /\ UNCHANGED <<job, uart, spp, ctl, avrcp, profiles, stranded>>
  BY ThreadAssumption DEF DrainSome
<1>2. /\ UNCHANGED <<next, signals, owed, torn, fault>>
      /\ call'["bt"].op = "store" /\ \A u \in Thread \ {"bt"} : call'[u] = call[u]
  BY <1>1 DEF Load, IInv, LoopInv, LoopTypeOK
<1>3. LoopInv' /\ LoopTypeOK'
  BY <1>1, LoadStep DEF IInv, LoopInv
<1>4. TypeOK'
  BY <1>1, <1>3 DEF IInv, TypeOK
<1>5. Calls' /\ Wakes'
  BY <1>1, <1>2, ThreadAssumption DEF IInv, Calls, Free, Wakes, GoesToSleep
<1>6. ASSUME ~torn PROVE UartInv' /\ KeysInv'
  <2>1. UartInv'
    BY <1>1, <1>2, <1>6, UartKept DEF IInv, Handles
  <2>2. call["bt"].op = "none"
    BY <1>1 DEF IInv, Calls
  <2>3. ASSUME NEW k \in {"cmd", "vol"}, Coming(k) PROVE Coming(k)'
    <3>1. CASE Walks(k)
      <4>1. PICK u \in Thread : call[u].op \in Walking /\ call[u].node = k
        BY <3>1 DEF Walks
      <4>2. u # "bt"
        BY <2>2, <4>1 DEF Walking
      <4> QED BY <1>2, <4>1, <4>2 DEF Coming, Walks
    <3> QED BY <1>1, <1>2, <2>3, <3>1 DEF Coming
  <2> QED BY <1>1, <1>6, <2>1, <2>3 DEF IInv, KeysInv
<1> QED BY <1>2, <1>3, <1>4, <1>5, <1>6 DEF IInv

\* ... takes it off and calls it.
LEMMA PopStoreStep ==
    ASSUME IInv, PopStore
    PROVE  IInv'
<1> DEFINE n == call["bt"].node
<1>1. /\ bt = "pop" /\ bt' = n /\ job' = n /\ Store("bt") /\ "bt" \in Thread
      /\ UNCHANGED <<uart, spp, ctl, avrcp, profiles, stranded>>
  BY ThreadAssumption DEF PopStore
<1>2. /\ owed' = owed \ {n} /\ call["bt"].op = "store" /\ call'["bt"].op = "none"
      /\ \A u \in Thread \ {"bt"} : call'[u] = call[u]
  BY <1>1 DEF Store, NoCall, IInv, LoopInv, LoopTypeOK
<1>3. n \in {"rx", "tx", "spp", "cmd", "vol"} /\ (~torn' => ~torn /\ n \in owed)
  BY <1>1, StoreTakes, RegistrationAssumption DEF IInv
<1>4. LoopInv' /\ LoopTypeOK'
  BY <1>1, StoreStep DEF IInv, LoopInv
<1>5. TypeOK'
  BY <1>1, <1>3, <1>4, RegistrationAssumption DEF IInv, TypeOK
<1>6. Calls' /\ Wakes'
  BY <1>1, <1>2, <1>3, ThreadAssumption DEF IInv, Calls, Free, Wakes, GoesToSleep
<1>7. ASSUME ~torn' PROVE UartInv' /\ KeysInv'
  <2>1. UartInv /\ KeysInv /\ n \in owed
    BY <1>3, <1>7 DEF IInv
  <2>2. ~Handles /\ ~Handles'
    BY <1>1, <1>3 DEF Handles
  <2>3. UartInv'
    BY <1>1, <1>2, <1>3, <2>1, <2>2 DEF UartInv
  <2>4. ASSUME NEW k \in {"cmd", "vol"}, Coming(k) PROVE Coming(k)'
    <3>1. CASE Walks(k)
      <4>1. PICK u \in Thread : call[u].op \in Walking /\ call[u].node = k
        BY <3>1 DEF Walks
      <4>2. u # "bt"
        BY <1>2, <4>1 DEF Walking
      <4> QED BY <1>2, <4>1, <4>2 DEF Coming, Walks
    <3> QED BY <1>1, <1>2, <2>4, <3>1 DEF Coming
  <2>5. KeysInv'
    BY <1>1, <2>1, <2>4 DEF KeysInv
  <2> QED BY <2>3, <2>5
<1> QED BY <1>4, <1>5, <1>6, <1>7 DEF IInv

\* A thread goes on with its append.
LEMMA AppendsStep ==
    ASSUME IInv, NEW t \in Thread, Appends(t)
    PROVE  IInv'
<1>1. Append(t) /\ LoopInv
  BY DEF Appends, IInv
<1>2. UNCHANGED <<bt, job, uart, spp, ctl, avrcp, profiles, stranded>>
  BY DEF Appends, ioVars
<1>3. LoopInv' /\ LoopTypeOK'
  BY <1>1, AppendStep DEF LoopInv
<1>4. TypeOK'
  BY <1>2, <1>3 DEF IInv, TypeOK
<1>5. /\ call[t].op \in Walking \union {"notify"}
      /\ \A u \in Thread \ {t} : call'[u] = call[u]
      /\ call'[t].op \in Walking \union {"notify", "none"}
      /\ call'[t].op # "none" => call'[t].node = call[t].node
  BY <1>1, AppendCalls
<1>6. t \in {"ota", "ctl"} /\ call[t].node \in {"spp", "cmd", "vol"}
  <2>1. ~Free(t) /\ call[t].op # "store"
    BY <1>5 DEF Free, Walking
  <2> QED BY <2>1, ThreadAssumption DEF IInv, Calls, Free
<1>7. Calls'
  BY <1>2, <1>5, <1>6, ThreadAssumption DEF IInv, Calls, Free, Walking
<1>8. Wakes'
  <2> SUFFICES ASSUME GoesToSleep, signals' = 0, next'[List] # Nil
               PROVE  \E u \in Thread : call'[u].op = "notify"
    BY <1>2 DEF Wakes, GoesToSleep
  <2>1. Signalled # 0
    BY SignalAssumption DEF Signalled, IInv, TypeOK, LoopTypeOK
  <2>2. CASE call'[t].op = "notify"
    BY <2>2
  <2>3. CASE signals' = signals /\ call[t].op # "notify" /\ next'[List] = next[List]
    <3>1. PICK u \in Thread : call[u].op = "notify"
      BY <2>3 DEF IInv, Wakes
    <3>2. u # t
      BY <2>3, <3>1
    <3> QED BY <1>5, <3>1, <3>2
  <2> QED BY <1>1, <2>1, <2>2, <2>3, AppendWakes
<1>9. ASSUME ~torn' PROVE UartInv' /\ KeysInv'
  <2>1. /\ owed' \in {owed, owed \union {call[t].node}}
        /\ ~torn
        /\ call[t].op \in Walking => call'[t].op \in Walking \/ call[t].node \in owed'
    BY <1>1, <1>9, AppendOwes
  <2>2. UartInv /\ KeysInv
    BY <2>1 DEF IInv
  <2>3. ("rx" \in owed' <=> "rx" \in owed) /\ ("tx" \in owed' <=> "tx" \in owed)
    BY <1>6, <2>1
  <2>4. UartInv'
    BY <1>2, <2>2, <2>3 DEF UartInv, Handles
  <2>5. ASSUME NEW k \in {"cmd", "vol"}, Coming(k) PROVE Coming(k)'
    <3>1. CASE Walks(k)
      <4>1. PICK u \in Thread : call[u].op \in Walking /\ call[u].node = k
        BY <3>1 DEF Walks
      <4>2. CASE u = t
        BY <1>5, <2>1, <4>1, <4>2 DEF Coming, Walks, Walking
      <4>3. CASE u # t
        BY <1>5, <4>1, <4>3 DEF Coming, Walks
      <4> QED BY <4>2, <4>3
    <3> QED BY <1>2, <2>1, <2>5, <3>1 DEF Coming
  <2>6. KeysInv'
    BY <1>2, <2>2, <2>5 DEF KeysInv
  <2> QED BY <2>4, <2>6
<1> QED BY <1>3, <1>4, <1>7, <1>8, <1>9 DEF IInv
----------------------------------------------------------------------------
(* The invariant holds in every behaviour.                                    *)

LEMMA InitInv == Init => IInv
<1> SUFFICES ASSUME Init PROVE IInv
  OBVIOUS
<1>1. /\ next = [n \in Node \union {List} |-> Nil] /\ signals = 0
      /\ call = [t \in Thread |-> NoCall] /\ owed = {} /\ torn = FALSE /\ fault = FALSE
  BY DEF Init, LoopInit
<1>2. \A t \in Thread : call[t].op = "none"
  BY <1>1 DEF NoCall
<1>3. LoopTypeOK
  <2>1. 0 \in 0 .. MaxSignals
    BY SignalAssumption
  <2> QED BY <1>1, <2>1 DEF LoopTypeOK, NoCall, Ops
<1>4. LoopInv
  <2>1. \A t \in Thread : CallTyped(t)
    BY <1>2 DEF CallTyped, Free
  <2>2. \A t \in Thread : CallFits(t)
    BY <1>2 DEF CallFits, Walking
  <2>3. Reached(next) = {}
    <3>1. Holds(next, {})
      BY <1>1 DEF Holds
    <3> QED BY <3>1, ReachedLeast
  <2>4. IsList(next) /\ Listed = owed
    BY <1>1, <2>3 DEF IsList, Ends, OnePredecessor, Listed
  <2> QED BY <1>1, <1>3, <2>1, <2>2, <2>4 DEF LoopInv, Whole
<1>5. /\ bt = "drain" /\ job = "timer" /\ ctl = "idle"
      /\ uart = [ring |-> 0, need |-> 1, active |-> TRUE,
                 rxPending |-> FALSE, txPending |-> FALSE, busy |-> FALSE]
      /\ avrcp = [linked |-> FALSE, absolute |-> FALSE, cmds |-> 0, pending |-> FALSE,
                  delta |-> 0, volPending |-> FALSE]
  BY DEF Init
<1>6. TypeOK
  <2>1. /\ 0 \in 0 .. RxRing /\ 1 \in 1 .. MaxNeed /\ 0 \in 0 .. TxRing
        /\ 0 \in 0 .. Commands /\ 0 \in -MaxDelta .. MaxDelta
    BY SizeAssumption
  <2>2. uart \in PortType /\ avrcp \in KeysType
    <3>1. uart \in PortType
      BY <1>5, <2>1 DEF PortType
    <3>2. avrcp \in KeysType
      BY <1>5, <2>1 DEF KeysType
    <3> QED BY <3>1, <3>2
  <2>3. spp \in ChannelType
    <3>1. spp = [open |-> FALSE, tx |-> 0, scheduled |-> FALSE,
                 wanted |-> FALSE, credit |-> FALSE]
      BY DEF Init
    <3> QED BY <2>1, <3>1 DEF ChannelType
  <2>4. profiles \in Profiles /\ stranded \in BOOLEAN
    BY DEF Init
  <2> QED BY <1>3, <1>5, <2>2, <2>3, <2>4 DEF TypeOK, PortType, KeysType, ChannelType
<1>7. Calls
  BY <1>2, <1>5, ThreadAssumption DEF Calls, Free
<1>8. Wakes
  BY <1>5 DEF Wakes, GoesToSleep
<1>9. UartInv /\ KeysInv
  BY <1>1, <1>5 DEF UartInv, KeysInv, Handles
<1> QED BY <1>4, <1>6, <1>7, <1>8, <1>9 DEF IInv

\* Nothing changes.
LEMMA StutterStep == IInv /\ UNCHANGED vars => IInv'
<1> SUFFICES ASSUME IInv, UNCHANGED vars PROVE IInv'
  OBVIOUS
<1>1. UNCHANGED <<loopVars, bt, job, uart, spp, ctl, avrcp, profiles, stranded>>
  BY DEF vars, ioVars
<1>2. LoopInv' /\ LoopTypeOK'
  BY <1>1, LoopKept DEF IInv
<1>3. TypeOK'
  BY <1>1, <1>2 DEF IInv, TypeOK
<1>4. Calls' /\ Wakes' /\ torn' = torn
  BY <1>1 DEF IInv, Calls, Free, Wakes, GoesToSleep, loopVars
<1>5. ~torn => UartInv' /\ KeysInv'
  BY <1>1, UartKept, KeysKept DEF IInv, Handles, loopVars
<1> QED BY <1>2, <1>3, <1>4, <1>5 DEF IInv

LEMMA NextInv == IInv /\ [Next]_vars => IInv'
<1> SUFFICES ASSUME IInv, [Next]_vars PROVE IInv'
  OBVIOUS
<1>1. CASE \E t \in Thread : Appends(t)
  BY <1>1, AppendsStep
<1>2. CASE Put
  BY <1>2, PutStep
<1>3. CASE Loop
  BY <1>3, DrainSomeStep, PopStoreStep, DrainNoneStep, WakeUpStep, UartStep, ArmStep,
     KickStep, SendStep, RunKeysStep DEF Loop
<1>4. CASE Stack
  BY <1>4, SendStep, StackStep, LinkLayerStep DEF Stack
<1>5. CASE TimerDue \/ NapOver \/ SendFails
  BY <1>5, DrainNoneStep, StackStep, KickStep
<1>6. CASE TxWrite \/ Key \/ PostCommand \/ PostDelta
  BY <1>6, TxWriteStep, KeyStep, PostKeyStep
<1>7. CASE Halted \/ UNCHANGED vars
  BY <1>7, StutterStep DEF Halted
<1> QED BY <1>1, <1>2, <1>3, <1>4, <1>5, <1>6, <1>7 DEF Next

LEMMA Invariance == Spec => []IInv
BY InitInv, NextInv, PTL DEF Spec

----------------------------------------------------------------------------
(* The theorems.                                                              *)

\* The type invariant holds for every capacity and every set of profiles.
THEOREM TypeCorrect == Spec => []TypeOK
<1>1. IInv => TypeOK
  BY DEF IInv
<1> QED BY <1>1, Invariance, PTL

\* The loop never sleeps on work, even past a torn list and whatever the
\* threads' priorities (btstack_run_loop_embedded_execute).
THEOREM WakeupIsKept == Spec => []WakeupKept
<1>1. IInv => WakeupKept
  BY DEF IInv, Wakes, GoesToSleep, WakeupKept
<1> QED BY <1>1, Invariance, PTL

\* Until two operations overlap, the list ends and holds what was appended and
\* not taken (btstack_linked_list_add_tail, btstack_linked_list_pop).
THEOREM ListHoldsWhatIsOwed == Spec => []ListIsOwed
<1>1. IInv => ListIsOwed
  BY DEF IInv, LoopInv, Whole, IsList, ListIsOwed
<1> QED BY <1>1, Invariance, PTL

\* ... and no walk along it goes through NULL or around for ever.
THEOREM WalksEnd == Spec => [](fault => torn)
<1>1. IInv => (fault => torn)
  BY DEF IInv, LoopInv, Whole
<1> QED BY <1>1, Invariance, PTL

\* The HCI receiver never stops, for every size of its ring and of the blocks
\* (btstack_uart_rtthread_try_deliver_rx_locked, receive_block).
THEOREM HciIsRead == Spec => []HciKeepsReading
<1>1. IInv => HciKeepsReading
  BY DEF IInv, UartInv, Handles, Calls, HciKeepsReading
<1> QED BY <1>1, Invariance, PTL

\* A command or a volume change that waits has its callback coming, for every
\* length of the queue (bt_avrcp_ct_post_command, bt_avrcp_ct_post_abs_volume_delta).
THEOREM KeysAreNotForgotten == Spec => []KeysNotForgotten
<1>1. IInv => KeysNotForgotten
  <2> SUFFICES ASSUME IInv, ~torn PROVE KeysNotForgotten
    BY DEF KeysNotForgotten
  <2>1. \A n \in {"cmd", "vol"} : Coming(n) => n \in owed \/ Posts(n) \/ bt = n
    BY DEF Coming, Walks, Walking, Posts, Free
  <2>2. (avrcp.cmds > 0 => Coming("cmd")) /\ (avrcp.delta # 0 => Coming("vol"))
    BY DEF IInv, KeysInv
  <2> QED BY <2>1, <2>2 DEF KeysNotForgotten
<1> QED BY <1>1, Invariance, PTL
=============================================================================
