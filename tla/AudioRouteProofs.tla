-------------------------- MODULE AudioRouteProofs --------------------------
(* What holds of the users of the codec for every choice of the priorities,   *)
(* the call rates and the failures: the programs of the threads keep a        *)
(* discipline of locks and error returns, each step keeps it, and whoever     *)
(* owns the mixer's mutex is therefore on its way to release it.              *)
(* Before that, proof outlines for the programs of Threads: what may be       *)
(* assumed between the steps of a program, with its calls and error returns.  *)
(* An assertion is a set of states; what a state is, and what a step that is  *)
(* not a call does with one, is said by the modules that use the outlines.    *)
EXTENDS AudioRoute, SequenceTheorems, WellFoundedInduction, TLAPS

----------------------------------------------------------------------------
(* A mode says where a thread stands in its program: the states it may find   *)
(* (at), and those in which the nearest call that looks at a result may find  *)
(* an error (guard; empty if there is none).                                  *)

Mk(at, guard) == [at |-> at, guard |-> guard]
ModesOver(A) == [at : A, guard : A]

\* Where b may be assumed, a may be.
Within(a, b) == a.at \subseteq b.at /\ a.guard = b.guard

----------------------------------------------------------------------------
(* Programs over a set T of triples: a step, the mode before, the mode after. *)

Programs(T) == Seq({x[1] : x \in T})

\* The step r leads from a to b, or to what is within b.
Takes(M, T, r, a, b) == \E k \in M : <<r, a, k>> \in T /\ Within(k, b)

\* The program s leads from m to n.
Outline(M, T, s, m, n) ==
    /\ s \in Programs(T)
    /\ \E f \in [1 .. Len(s) + 1 -> M] :
         /\ Within(m, f[1]) /\ Within(f[Len(s) + 1], n)
         /\ \A i \in 1 .. Len(s) : Takes(M, T, s[i], f[i], f[i + 1])

\* A call that ends in mode m goes on to n, whatever its result.
Resumes(M, T, ok, err, m, n) ==
    /\ Outline(M, T, ok, Mk(m.at, n.guard), n)
    /\ m.guard # {} => Outline(M, T, err, Mk(m.guard, n.guard), n)

\* T with the calls of programs over T.
CallsIn(M, T) ==
    {x \in [do : {"Call"}, body : Programs(T), ok : Programs(T), err : Programs(T)] \X M \X M :
        /\ x[3].guard = x[2].guard
        /\ \E b \in M : /\ Outline(M, T, x[1].body, Mk(x[2].at, b.guard), b)
                        /\ Resumes(M, T, x[1].ok, x[1].err, b, x[3])}
ReturnsIn(M, T) ==
    {x \in [do : {"Return"}, ok : Programs(T), err : Programs(T)] \X M \X M :
        Resumes(M, T, x[1].ok, x[1].err, x[2], x[3])}
Deeper(M, P, T) == P \union CallsIn(M, T) \union ReturnsIn(M, T)

\* Calls nest up to three deep over the plain steps P.
Deep1(M, P) == Deeper(M, P, P)
Deep2(M, P) == Deeper(M, P, Deep1(M, P))
Deep3(M, P) == Deeper(M, P, Deep2(M, P))

\* Plain steps are no calls and stay inside the same one.
PlainOver(M, P) ==
    \A x \in P : /\ x = <<x[1], x[2], x[3]>> /\ x[2] \in M /\ x[3] \in M
                 /\ x[1].do \notin {"Call", "Return"} /\ x[3].guard = x[2].guard

----------------------------------------------------------------------------
(* Programs in general.                                                       *)

\* Positions in a concatenation.
LEMMA Positions ==
    ASSUME NEW a \in Nat, NEW b \in Nat, NEW i \in 1 .. a + b, i > a
    PROVE  i - a \in 1 .. b /\ i + 1 - a = (i - a) + 1 /\ i + 1 - a \in 1 .. b + 1
OBVIOUS

LEMMA WithinTransitive ==
    ASSUME NEW a, NEW b, NEW c, Within(a, b), Within(b, c)
    PROVE  Within(a, c)
BY DEF Within

LEMMA EmptyOutline ==
    ASSUME NEW M, NEW T, NEW m \in M, NEW n, Within(m, n)
    PROVE  Outline(M, T, <<>>, m, n)
<1> DEFINE f == [i \in 1 .. 1 |-> m]
<1>1. <<>> \in Programs(T) /\ Len(<<>>) = 0
  BY EmptySeq DEF Programs
<1>2. f \in [1 .. 1 -> M] /\ f[1] = m
  OBVIOUS
<1>3. Within(m, m)
  BY DEF Within
<1> HIDE DEF f
<1>4. \A i \in 1 .. 0 : Takes(M, T, <<>>[i], f[i], f[i + 1])
  OBVIOUS
<1> QED BY <1>1, <1>2, <1>3, <1>4 DEF Outline

LEMMA StepOutline ==
    ASSUME NEW M, NEW T, NEW m \in M, NEW n \in M, NEW r, <<r, m, n>> \in T
    PROVE  Outline(M, T, <<r>>, m, n)
<1> DEFINE f == [i \in 1 .. 2 |-> IF i = 1 THEN m ELSE n]
<1>1. r \in {x[1] : x \in T}
  OBVIOUS
<1>2. <<r>> \in Programs(T) /\ Len(<<r>>) = 1 /\ <<r>>[1] = r
  BY <1>1 DEF Programs
<1>3. f \in [1 .. 2 -> M] /\ f[1] = m /\ f[2] = n
  OBVIOUS
<1>4. Within(m, m) /\ Within(n, n)
  BY DEF Within
<1>5. Takes(M, T, r, m, n)
  BY <1>4 DEF Takes
<1> HIDE DEF f
<1>6. \A i \in 1 .. 1 : Takes(M, T, <<r>>[i], f[i], f[i + 1])
  BY <1>2, <1>3, <1>5
<1> QED BY <1>2, <1>3, <1>4, <1>6 DEF Outline

LEMMA WeakenOutline ==
    ASSUME NEW M, NEW T, NEW s, NEW m, NEW n, NEW a, NEW b,
           Outline(M, T, s, m, n), Within(a, m), Within(n, b)
    PROVE  Outline(M, T, s, a, b)
<1>1. PICK f \in [1 .. Len(s) + 1 -> M] :
         /\ Within(m, f[1]) /\ Within(f[Len(s) + 1], n)
         /\ \A i \in 1 .. Len(s) : Takes(M, T, s[i], f[i], f[i + 1])
  BY DEF Outline
<1>2. Within(a, f[1]) /\ Within(f[Len(s) + 1], b)
  BY <1>1, WithinTransitive
<1> QED BY <1>1, <1>2 DEF Outline

LEMMA TakesMore ==
    ASSUME NEW M, NEW T, NEW r, NEW a, NEW b, NEW c, Takes(M, T, r, a, b), Within(b, c)
    PROVE  Takes(M, T, r, a, c)
BY WithinTransitive DEF Takes

\* One program after another.
LEMMA ThenOutline ==
    ASSUME NEW M, NEW T, NEW p, NEW q, NEW m, NEW n, NEW o,
           Outline(M, T, p, m, n), Outline(M, T, q, n, o)
    PROVE  Outline(M, T, p \o q, m, o)
<1>1. PICK f \in [1 .. Len(p) + 1 -> M] :
         /\ Within(m, f[1]) /\ Within(f[Len(p) + 1], n)
         /\ \A i \in 1 .. Len(p) : Takes(M, T, p[i], f[i], f[i + 1])
  BY DEF Outline
<1>2. PICK g \in [1 .. Len(q) + 1 -> M] :
         /\ Within(n, g[1]) /\ Within(g[Len(q) + 1], o)
         /\ \A i \in 1 .. Len(q) : Takes(M, T, q[i], g[i], g[i + 1])
  BY DEF Outline
<1>3. p \in Programs(T) /\ q \in Programs(T)
  BY DEF Outline
<1>4. /\ p \o q \in Programs(T)
      /\ Len(p \o q) = Len(p) + Len(q)
      /\ \A i \in 1 .. Len(p) + Len(q) :
            (p \o q)[i] = IF i <= Len(p) THEN p[i] ELSE q[i - Len(p)]
  BY <1>3, ConcatProperties DEF Programs
<1>5. Len(p) \in Nat /\ Len(q) \in Nat
  BY <1>3, LenProperties DEF Programs
<1>6. Within(f[Len(p) + 1], g[1])
  BY <1>1, <1>2, WithinTransitive
<1> DEFINE h == [i \in 1 .. Len(p) + Len(q) + 1 |->
                    IF i <= Len(p) THEN f[i] ELSE g[i - Len(p)]]
<1>7. h \in [1 .. Len(p) + Len(q) + 1 -> M]
  <2> SUFFICES ASSUME NEW i \in 1 .. Len(p) + Len(q) + 1
               PROVE  (IF i <= Len(p) THEN f[i] ELSE g[i - Len(p)]) \in M
    OBVIOUS
  <2>1. CASE i <= Len(p)
    BY <2>1, <1>5
  <2>2. CASE ~(i <= Len(p))
    <3>1. i - Len(p) \in 1 .. Len(q) + 1
      BY <2>2, <1>5
    <3> QED BY <3>1, <2>2
  <2> QED BY <2>1, <2>2
<1>8. Within(m, h[1]) /\ Within(h[Len(p) + Len(q) + 1], o)
  <2>1. 1 \in 1 .. Len(p) + Len(q) + 1 /\ Len(p) + Len(q) + 1 \in 1 .. Len(p) + Len(q) + 1
    BY <1>5
  <2>2. Len(p) + Len(q) + 1 - Len(p) = Len(q) + 1 /\ ~(Len(p) + Len(q) + 1 <= Len(p))
    BY <1>5
  <2>3. Within(m, h[1])
    <3>1. CASE Len(p) = 0
      <4>1. h[1] = g[1]
        BY <3>1, <2>1
      <4>2. Within(m, f[1]) /\ Within(f[1], g[1])
        BY <3>1, <1>1, <1>6
      <4> HIDE DEF h
      <4> QED BY <4>1, <4>2, WithinTransitive
    <3>2. CASE Len(p) # 0
      <4>1. h[1] = f[1]
        BY <3>2, <2>1, <1>5
      <4> HIDE DEF h
      <4> QED BY <4>1, <1>1
    <3> QED BY <3>1, <3>2
  <2>4. h[Len(p) + Len(q) + 1] = g[Len(q) + 1]
    BY <2>1, <2>2
  <2> HIDE DEF h
  <2> QED BY <2>3, <2>4, <1>2
<1>9. ASSUME NEW i \in 1 .. Len(p) + Len(q)
      PROVE  Takes(M, T, (p \o q)[i], h[i], h[i + 1])
  <2>1. /\ i \in 1 .. Len(p) + Len(q) + 1 /\ i + 1 \in 1 .. Len(p) + Len(q) + 1
    BY <1>5
  <2>2. CASE i < Len(p)
    <3>1. h[i] = f[i] /\ h[i + 1] = f[i + 1] /\ (p \o q)[i] = p[i] /\ i \in 1 .. Len(p)
      BY <2>1, <2>2, <1>4, <1>5
    <3> HIDE DEF h
    <3> QED BY <3>1, <1>1
  <2>3. CASE i = Len(p)
    <3>1. /\ h[i] = f[i] /\ h[i + 1] = g[i + 1 - Len(p)]
          /\ (p \o q)[i] = p[i] /\ i \in 1 .. Len(p) /\ i + 1 - Len(p) = 1
      BY <2>1, <2>3, <1>4, <1>5
    <3>2. Takes(M, T, p[i], f[i], g[1])
      BY <3>1, <2>3, <1>1, <1>6, TakesMore
    <3> HIDE DEF h
    <3> QED BY <3>1, <3>2
  <2>4. CASE i > Len(p)
    <3>1. /\ h[i] = g[i - Len(p)] /\ h[i + 1] = g[i + 1 - Len(p)]
          /\ (p \o q)[i] = q[i - Len(p)]
      BY <2>1, <2>4, <1>4, <1>5
    <3>2. i - Len(p) \in 1 .. Len(q) /\ i + 1 - Len(p) = (i - Len(p)) + 1
      BY <2>4, <1>5, Positions
    <3> HIDE DEF h
    <3> QED BY <3>1, <3>2, <1>2
  <2>5. i < Len(p) \/ i = Len(p) \/ i > Len(p)
    BY <1>5
  <2> HIDE DEF h
  <2> QED BY <2>2, <2>3, <2>4, <2>5
<1> HIDE DEF h
<1> QED BY <1>4, <1>7, <1>8, <1>9 DEF Outline

\* What follows the step at position k.
LEMMA SuffixOutline ==
    ASSUME NEW M, NEW T, NEW s \in Programs(T), NEW o,
           NEW f \in [1 .. Len(s) + 1 -> M], Within(f[Len(s) + 1], o),
           \A i \in 1 .. Len(s) : Takes(M, T, s[i], f[i], f[i + 1]),
           NEW k \in 1 .. Len(s)
    PROVE  Outline(M, T, SubSeq(s, k + 1, Len(s)), f[k + 1], o)
<1> DEFINE q == SubSeq(s, k + 1, Len(s))
           g == [i \in 1 .. Len(s) - k + 1 |-> f[i + k]]
<1>1. k + 1 \in Int /\ Len(s) \in Nat
  BY LenProperties DEF Programs
<1>2. \A i \in k + 1 .. Len(s) : s[i] \in {x[1] : x \in T}
  <2>1. \A i \in 1 .. Len(s) : s[i] \in {x[1] : x \in T}
    BY ElementOfSeq DEF Programs
  <2> QED BY <2>1, <1>1
<1>3. /\ q \in Programs(T)
      /\ Len(q) = IF k + 1 <= Len(s) THEN Len(s) - (k + 1) + 1 ELSE 0
      /\ \A i \in 1 .. Len(s) - (k + 1) + 1 : q[i] = s[(k + 1) + i - 1]
  BY <1>1, <1>2, SubSeqProperties DEF Programs
<1>4. Len(q) = Len(s) - k
  BY <1>3, <1>1
<1>5. g \in [1 .. Len(s) - k + 1 -> M] /\ g[1] = f[k + 1]
      /\ g[Len(s) - k + 1] = f[Len(s) + 1]
  <2>1. \A i \in 1 .. Len(s) - k + 1 : i + k \in 1 .. Len(s) + 1
    BY <1>1
  <2>2. 1 \in 1 .. Len(s) - k + 1 /\ Len(s) - k + 1 \in 1 .. Len(s) - k + 1
        /\ 1 + k = k + 1 /\ (Len(s) - k + 1) + k = Len(s) + 1
    BY <1>1
  <2> QED BY <2>1, <2>2
<1>6. ASSUME NEW i \in 1 .. Len(s) - k PROVE Takes(M, T, q[i], g[i], g[i + 1])
  <2>1. /\ i \in 1 .. Len(s) - (k + 1) + 1 /\ (k + 1) + i - 1 = i + k
        /\ i + k \in 1 .. Len(s) /\ (i + 1) + k = (i + k) + 1
        /\ i \in 1 .. Len(s) - k + 1 /\ i + 1 \in 1 .. Len(s) - k + 1
    BY <1>1
  <2>2. q[i] = s[i + k] /\ g[i] = f[i + k] /\ g[i + 1] = f[(i + k) + 1]
    BY <2>1, <1>3
  <2> HIDE DEF q, g
  <2> QED BY <2>1, <2>2
<1>7. Within(f[k + 1], f[k + 1])
  BY DEF Within
<1> HIDE DEF q, g
<1>8. Outline(M, T, q, f[k + 1], o)
  BY <1>3, <1>4, <1>5, <1>6, <1>7 DEF Outline
<1> QED BY <1>8 DEF q

\* A program with its first step taken.
LEMMA RestOutline ==
    ASSUME NEW M, NEW T, NEW s, NEW m, NEW o, Outline(M, T, s, m, o), s # <<>>
    PROVE  \E a \in M, n \in M : /\ Within(m, a) /\ <<Head(s), a, n>> \in T
                                 /\ Outline(M, T, Tail(s), n, o)
<1>1. PICK f \in [1 .. Len(s) + 1 -> M] :
         /\ Within(m, f[1]) /\ Within(f[Len(s) + 1], o)
         /\ \A i \in 1 .. Len(s) : Takes(M, T, s[i], f[i], f[i + 1])
  BY DEF Outline
<1>2. s \in Programs(T)
  BY DEF Outline
<1>3. Len(s) \in Nat \ {0}
  BY <1>2, EmptySeq DEF Programs
<1>4. 1 \in 1 .. Len(s) /\ 1 + 1 = 2 /\ 1 \in 1 .. Len(s) + 1
  BY <1>3
<1>5. Tail(s) = SubSeq(s, 2, Len(s)) /\ Head(s) = s[1]
  BY <1>2, <1>3, TailIsSubSeq DEF Programs
<1>6. Outline(M, T, Tail(s), f[2], o)
  BY <1>1, <1>2, <1>4, <1>5, SuffixOutline
<1>7. PICK n \in M : <<Head(s), f[1], n>> \in T /\ Within(n, f[2])
  <2>1. Takes(M, T, s[1], f[1], f[1 + 1])
    BY <1>1, <1>4
  <2> QED BY <2>1, <1>4, <1>5 DEF Takes
<1>8. Within(o, o)
  BY DEF Within
<1>9. Outline(M, T, Tail(s), n, o)
  BY <1>6, <1>7, <1>8, WeakenOutline
<1>10. f[1] \in M
  BY <1>1, <1>4
<1> QED BY <1>1, <1>7, <1>9, <1>10

\* With more steps allowed, what was a program is one.
LEMMA MoreOutline ==
    ASSUME NEW M, NEW T, NEW U, T \subseteq U, NEW s, NEW m, NEW n, Outline(M, T, s, m, n)
    PROVE  Outline(M, U, s, m, n)
<1>1. {x[1] : x \in T} \subseteq {x[1] : x \in U}
  OBVIOUS
<1>2. Programs(T) \subseteq Programs(U)
  BY <1>1, SeqMonotonic DEF Programs
<1>3. ASSUME NEW r, NEW a, NEW b, Takes(M, T, r, a, b) PROVE Takes(M, U, r, a, b)
  BY <1>3 DEF Takes
<1>4. PICK f \in [1 .. Len(s) + 1 -> M] :
         /\ Within(m, f[1]) /\ Within(f[Len(s) + 1], n)
         /\ \A i \in 1 .. Len(s) : Takes(M, T, s[i], f[i], f[i + 1])
  BY DEF Outline
<1>5. \A i \in 1 .. Len(s) : Takes(M, U, s[i], f[i], f[i + 1])
  BY <1>3, <1>4
<1>6. s \in Programs(U)
  BY <1>2 DEF Outline
<1> QED BY <1>4, <1>5, <1>6 DEF Outline

LEMMA MoreCallsIn ==
    ASSUME NEW M, NEW P, NEW T, NEW U, T \subseteq U
    PROVE  Deeper(M, P, T) \subseteq Deeper(M, P, U)
<1>1. Programs(T) \subseteq Programs(U)
  <2>1. {x[1] : x \in T} \subseteq {x[1] : x \in U}
    OBVIOUS
  <2> QED BY <2>1, SeqMonotonic DEF Programs
<1>2. ASSUME NEW ok, NEW err, NEW m, NEW n, Resumes(M, T, ok, err, m, n)
      PROVE  Resumes(M, U, ok, err, m, n)
  BY <1>2, MoreOutline DEF Resumes
<1>3. CallsIn(M, T) \subseteq CallsIn(M, U)
  <2> SUFFICES ASSUME NEW x \in CallsIn(M, T) PROVE x \in CallsIn(M, U)
    OBVIOUS
  <2>1. PICK b \in M : /\ Outline(M, T, x[1].body, Mk(x[2].at, b.guard), b)
                       /\ Resumes(M, T, x[1].ok, x[1].err, b, x[3])
    BY DEF CallsIn
  <2>2. /\ Outline(M, U, x[1].body, Mk(x[2].at, b.guard), b)
        /\ Resumes(M, U, x[1].ok, x[1].err, b, x[3])
    BY <2>1, <1>2, MoreOutline
  <2>3. [do : {"Call"}, body : Programs(T), ok : Programs(T), err : Programs(T)]
          \subseteq [do : {"Call"}, body : Programs(U), ok : Programs(U), err : Programs(U)]
    BY <1>1
  <2> QED BY <2>2, <2>3 DEF CallsIn
<1>4. ReturnsIn(M, T) \subseteq ReturnsIn(M, U)
  <2>1. [do : {"Return"}, ok : Programs(T), err : Programs(T)]
          \subseteq [do : {"Return"}, ok : Programs(U), err : Programs(U)]
    BY <1>1
  <2> QED BY <2>1, <1>2 DEF ReturnsIn
<1> QED BY <1>3, <1>4 DEF Deeper

LEMMA Depths ==
    ASSUME NEW M, NEW P
    PROVE  P \subseteq Deep1(M, P) /\ Deep1(M, P) \subseteq Deep2(M, P)
           /\ Deep2(M, P) \subseteq Deep3(M, P)
<1>1. P \subseteq Deep1(M, P)
  BY DEF Deep1, Deeper
<1>2. Deep1(M, P) \subseteq Deep2(M, P)
  BY <1>1, MoreCallsIn DEF Deep1, Deep2
<1> QED BY <1>1, <1>2, MoreCallsIn DEF Deep2, Deep3

LEMMA DeepOutline ==
    ASSUME NEW M, NEW P, NEW s, NEW m, NEW n,
           \/ Outline(M, P, s, m, n) \/ Outline(M, Deep1(M, P), s, m, n)
           \/ Outline(M, Deep2(M, P), s, m, n)
    PROVE  Outline(M, Deep3(M, P), s, m, n)
BY Depths, MoreOutline

----------------------------------------------------------------------------
(* Steps of a program.                                                        *)

\* A step that is not a call is plain; a call and its return are as they should.
LEMMA StepOf ==
    ASSUME NEW M, NEW P, PlainOver(M, P), NEW r, NEW m, NEW n, <<r, m, n>> \in Deep3(M, P)
    PROVE  /\ m \in M /\ n \in M
           /\ r.do \notin {"Call", "Return"} => <<r, m, n>> \in P
           /\ r.do = "Call" =>
                /\ r.body \in Programs(Deep2(M, P)) /\ r.ok \in Programs(Deep2(M, P))
                /\ r.err \in Programs(Deep2(M, P))
                /\ \E b \in M : /\ Outline(M, Deep2(M, P), r.body, Mk(m.at, b.guard), b)
                                /\ Resumes(M, Deep2(M, P), r.ok, r.err, b, n)
           /\ r.do = "Return" => Resumes(M, Deep2(M, P), r.ok, r.err, m, n)
           /\ r.do # "Return" => n.guard = m.guard
<1> DEFINE T == Deep2(M, P)
<1>1. CASE <<r, m, n>> \in P
  BY <1>1 DEF PlainOver
<1>2. CASE <<r, m, n>> \in CallsIn(M, T)
  <2> HIDE DEF T
  <2>1. /\ r \in [do : {"Call"}, body : Programs(T), ok : Programs(T), err : Programs(T)]
        /\ m \in M /\ n \in M /\ n.guard = m.guard
        /\ \E b \in M : /\ Outline(M, T, r.body, Mk(m.at, b.guard), b)
                        /\ Resumes(M, T, r.ok, r.err, b, n)
    BY <1>2 DEF CallsIn
  <2> QED BY <2>1 DEF T
<1>3. CASE <<r, m, n>> \in ReturnsIn(M, T)
  <2> HIDE DEF T
  <2>1. /\ r \in [do : {"Return"}, ok : Programs(T), err : Programs(T)]
        /\ m \in M /\ n \in M /\ Resumes(M, T, r.ok, r.err, m, n)
    BY <1>3 DEF ReturnsIn
  <2> QED BY <2>1 DEF T
<1> QED BY <1>1, <1>2, <1>3 DEF Deep3, Deeper

\* Every non-empty set of positions has a first one.
LEMMA FirstPosition ==
    ASSUME NEW S \in SUBSET Nat, S # {}
    PROVE  Min(S) \in S /\ \A i \in S : Min(S) <= i
<1> DEFINE Before == {ss \in Nat \X Nat : ss[1] < ss[2]}
<1>1. IsWellFoundedOn(Before, Nat)
  BY NatLessThanWellFounded, Zenon DEF OpToRel
<1>2. \E k \in S : \A i \in S : ~(<<i, k>> \in Before)
  <2> HIDE DEF Before
  <2> QED BY <1>1, WFMin
<1>3. PICK k \in S : \A i \in S : ~(<<i, k>> \in Before)
  BY <1>2
<1>4. \A i \in S : i \in Nat /\ k \in Nat /\ ~(i < k)
  BY <1>3
<1>5. \A i \in S : k <= i
  BY <1>4
<1> QED BY <1>5 DEF Min

\* An error return finds the call that looks at it, and what follows ends well.
LEMMA ErrorOutline ==
    ASSUME NEW M, NEW P, PlainOver(M, P), NEW s, NEW m, NEW o,
           Outline(M, Deep3(M, P), s, m, o), o.guard = {}, m.guard # {}
    PROVE  \E n \in M : Outline(M, Deep3(M, P), Unwound(s), Mk(m.guard, n.guard), o)
<1> DEFINE T == Deep3(M, P)
<1>1. PICK f \in [1 .. Len(s) + 1 -> M] :
         /\ Within(m, f[1]) /\ Within(f[Len(s) + 1], o)
         /\ \A i \in 1 .. Len(s) : Takes(M, T, s[i], f[i], f[i + 1])
  BY DEF Outline
<1>2. s \in Programs(T) /\ Len(s) \in Nat
  BY LenProperties DEF Outline, Programs
<1> DEFINE Left == {i \in 1 .. Len(s) + 1 : f[i].guard # m.guard}
           Ends == {i \in 1 .. Len(s) : s[i].do = "Return"}
<1> HIDE DEF T
<1>3. f[Len(s) + 1].guard # m.guard /\ f[1].guard = m.guard
  BY <1>1 DEF Within
<1>4. Left \in SUBSET Nat /\ Len(s) + 1 \in Left
  BY <1>2, <1>3
<1>5. PICK j \in Left : \A i \in Left : j <= i
  BY <1>4, FirstPosition
<1>6. j - 1 \in 1 .. Len(s) /\ j - 1 \notin Left
  BY <1>2, <1>3, <1>5
<1>7. j - 1 \in Ends
  <2>1. Takes(M, T, s[j - 1], f[j - 1], f[(j - 1) + 1]) /\ (j - 1) + 1 = j
    BY <1>1, <1>6, <1>2
  <2>2. PICK k \in M : <<s[j - 1], f[j - 1], k>> \in T /\ Within(k, f[j])
    BY <2>1 DEF Takes
  <2>3. f[j - 1].guard = m.guard /\ k.guard # m.guard
    BY <2>2, <1>5, <1>6, <1>2 DEF Within
  <2> QED BY <2>2, <2>3, <1>6, StepOf DEF T
<1>8. PICK k \in Ends : k = Min(Ends) /\ k <= j - 1
  <2>1. Ends \in SUBSET Nat
    BY <1>2
  <2> QED BY <2>1, <1>7, FirstPosition
<1>9. f[k].guard = m.guard
  BY <1>8, <1>5, <1>2
<1>10. PICK n \in M : /\ Resumes(M, Deep2(M, P), s[k].ok, s[k].err, f[k], n)
                      /\ Within(n, f[k + 1])
  <2>1. Takes(M, T, s[k], f[k], f[k + 1]) /\ s[k].do = "Return"
    BY <1>1, <1>8
  <2>2. PICK n \in M : <<s[k], f[k], n>> \in T /\ Within(n, f[k + 1])
    BY <2>1 DEF Takes
  <2> QED BY <2>1, <2>2, StepOf DEF T
<1>11. Outline(M, T, s[k].err, Mk(m.guard, n.guard), f[k + 1])
  <2>1. Outline(M, Deep2(M, P), s[k].err, Mk(m.guard, n.guard), n)
    BY <1>10, <1>9 DEF Resumes
  <2>2. Outline(M, T, s[k].err, Mk(m.guard, n.guard), n)
    BY <2>1, DeepOutline DEF T
  <2>3. Within(Mk(m.guard, n.guard), Mk(m.guard, n.guard))
    BY DEF Within
  <2> QED BY <2>2, <2>3, <1>10, WeakenOutline
<1>12. Outline(M, T, SubSeq(s, k + 1, Len(s)), f[k + 1], o)
  BY <1>1, <1>2, <1>8, SuffixOutline
<1>13. Unwound(s) = s[k].err \o SubSeq(s, k + 1, Len(s))
  BY <1>8 DEF Unwound
<1>14. Outline(M, T, Unwound(s), Mk(m.guard, n.guard), o)
  BY <1>11, <1>12, <1>13, ThenOutline
<1> QED BY <1>14 DEF T

\* A call of body, in front of what looks at its result.
LEMMA TryOutline ==
    ASSUME NEW M, NEW P, NEW T, NEW body, NEW ok, NEW err,
           NEW m \in M, NEW n \in M, n.guard = m.guard, NEW b \in M,
           Outline(M, T, body, Mk(m.at, b.guard), b),
           Outline(M, T, ok, Mk(b.at, m.guard), n),
           b.guard # {} => Outline(M, T, err, Mk(b.guard, m.guard), n),
           err \in Programs(T)
    PROVE  Outline(M, Deeper(M, P, T), Try(body, ok, err), m, n)
<1> DEFINE c == [do |-> "Call", body |-> body, ok |-> ok, err |-> err]
<1>1. Resumes(M, T, ok, err, b, n)
  BY DEF Resumes
<1>2. c \in [do : {"Call"}, body : Programs(T), ok : Programs(T), err : Programs(T)]
  BY DEF Outline
<1>3. <<c, m, n>> \in CallsIn(M, T)
  <2>1. c.body = body /\ c.ok = ok /\ c.err = err
    OBVIOUS
  <2> HIDE DEF c
  <2> QED BY <1>1, <1>2, <2>1 DEF CallsIn
<1>4. <<c, m, n>> \in Deeper(M, P, T)
  BY <1>3 DEF Deeper
<1> HIDE DEF c
<1>5. Outline(M, Deeper(M, P, T), <<c>>, m, n)
  BY <1>4, StepOutline
<1> QED BY <1>5 DEF c, Try

----------------------------------------------------------------------------
(* Steps of a thread.                                                         *)

LEMMA GoOutline ==
    ASSUME NEW M, NEW T, NEW X, todo \in [Thread -> X], NEW t \in Thread,
           NEW p, Go(t, p), NEW k, NEW n, NEW o,
           Outline(M, T, p, k, n), Outline(M, T, Tail(todo[t]), n, o)
    PROVE  Outline(M, T, todo'[t], k, o)
<1>1. todo'[t] = p \o Tail(todo[t])
  BY DEF Go
<1> QED BY <1>1, ThenOutline

LEMMA RaiseOutline ==
    ASSUME NEW M, NEW P, PlainOver(M, P), NEW X, todo \in [Thread -> X], NEW t \in Thread,
           Raise(t), NEW n, NEW o, o.guard = {}, n.guard # {},
           Outline(M, Deep3(M, P), Tail(todo[t]), n, o)
    PROVE  \E k \in M : Outline(M, Deep3(M, P), todo'[t], Mk(n.guard, k.guard), o)
<1>1. todo'[t] = Unwound(Tail(todo[t]))
  BY DEF Raise
<1> QED BY <1>1, ErrorOutline

\* A call begins, or has come back.
LEMMA CallOutline ==
    ASSUME NEW M, NEW P, PlainOver(M, P), NEW X, todo \in [Thread -> X], NEW t \in Thread,
           \A a, b \in M : Mk(a.at, b.guard) \in M,
           Call(t) \/ Return(t), NEW m, NEW o, Outline(M, Deep3(M, P), todo[t], m, o)
    PROVE  \E n \in M : m.at \subseteq n.at /\ Outline(M, Deep3(M, P), todo'[t], n, o)
<1> DEFINE T == Deep3(M, P)
           U == Deep2(M, P)
           c == Head(todo[t])
<1>1. todo[t] # <<>> /\ c.do \in {"Call", "Return"}
  BY DEF Call, Return, At
<1>2. PICK a \in M, n \in M : /\ Within(m, a) /\ <<c, a, n>> \in T
                              /\ Outline(M, T, Tail(todo[t]), n, o)
  BY <1>1, RestOutline
<1>3. CASE Call(t)
  <2> DEFINE ret == [do |-> "Return", ok |-> c.ok, err |-> c.err]
  <2>1. c.do = "Call"
    BY <1>3 DEF Call, At
  <2>2. todo'[t] = Append(c.body, ret) \o Tail(todo[t])
    BY <1>3 DEF Call, Go
  <2> HIDE DEF c, T
  <2>3. /\ c.ok \in Programs(U) /\ c.err \in Programs(U) /\ c.body \in Programs(U)
        /\ \E b \in M : /\ Outline(M, U, c.body, Mk(a.at, b.guard), b)
                        /\ Resumes(M, U, c.ok, c.err, b, n)
    BY <1>2, <2>1, StepOf DEF T
  <2>4. PICK b \in M : /\ Outline(M, U, c.body, Mk(a.at, b.guard), b)
                       /\ Resumes(M, U, c.ok, c.err, b, n)
    BY <2>3
  <2>5. <<ret, b, n>> \in T
    <3>1. ret \in [do : {"Return"}, ok : Programs(U), err : Programs(U)]
      BY <2>3
    <3>2. ret.ok = c.ok /\ ret.err = c.err
      OBVIOUS
    <3> HIDE DEF ret, U
    <3>3. <<ret, b, n>> \in ReturnsIn(M, U)
      BY <3>1, <3>2, <2>4 DEF ReturnsIn
    <3> QED BY <3>3 DEF T, U, Deep3, Deeper
  <2> HIDE DEF ret
  <2>6. Outline(M, T, <<ret>>, b, n)
    BY <2>5, StepOutline
  <2>7. Outline(M, T, c.body, Mk(a.at, b.guard), b)
    BY <2>4, DeepOutline DEF T, U
  <2>8. Append(c.body, ret) = c.body \o <<ret>>
    <3> DEFINE S == {x[1] : x \in T} \union {ret}
    <3>1. {x[1] : x \in T} \subseteq S /\ ret \in S
      OBVIOUS
    <3>2. c.body \in Seq({x[1] : x \in T})
      BY <2>7 DEF Outline, Programs
    <3> HIDE DEF S
    <3>3. c.body \in Seq(S)
      BY <3>1, <3>2, SeqMonotonic
    <3> QED BY <3>1, <3>3, AppendIsConcat
  <2>9. Outline(M, T, todo'[t], Mk(a.at, b.guard), o)
    BY <2>2, <2>6, <2>7, <2>8, <1>2, ThenOutline
  <2>10. m.at \subseteq Mk(a.at, b.guard).at /\ Mk(a.at, b.guard) \in M
    BY <1>2 DEF Within, Mk
  <2> QED BY <2>9, <2>10 DEF T
<1>4. CASE Return(t)
  <2>1. c.do = "Return"
    BY <1>4 DEF Return, At
  <2>2. todo'[t] = c.ok \o Tail(todo[t])
    BY <1>4 DEF Return, Go
  <2> HIDE DEF c, T
  <2>3. Outline(M, U, c.ok, Mk(a.at, n.guard), n)
    BY <1>2, <2>1, StepOf DEF T, Resumes
  <2>4. Outline(M, T, todo'[t], Mk(a.at, n.guard), o)
    BY <2>2, <2>3, <1>2, DeepOutline, ThenOutline DEF T
  <2>5. m.at \subseteq Mk(a.at, n.guard).at /\ Mk(a.at, n.guard) \in M
    BY <1>2 DEF Within, Mk
  <2> QED BY <2>4, <2>5 DEF T
<1> QED BY <1>3, <1>4

----------------------------------------------------------------------------
(* Outlines whose assertions are the sets in A, and whose steps are given by  *)
(* a table Q: <<r, a, e, b>> says that the step r leads from a to b, or to an *)
(* error in e.                                                                *)

PlainTable(A, Q) ==
    \A q \in Q : /\ q = <<q[1], q[2], q[3], q[4]>>
                 /\ q[2] \in A /\ q[3] \in A /\ q[4] \in A
                 /\ q[1].do \notin {"Call", "Return"}

RowsOf(A, Q) ==
    {x \in {q[1] : q \in Q} \X ModesOver(A) \X ModesOver(A) :
        /\ x[3].guard = x[2].guard
        /\ \E e \in A : e \subseteq x[2].guard /\ <<x[1], x[2].at, e, x[3].at>> \in Q}

\* Calls nest up to three deep.
AllOf(A, Q) == Deep3(ModesOver(A), RowsOf(A, Q))

\* The program p leads from a to b, or to an error in e.
PathIn(A, T, p, a, e, b) ==
    \A g \in A : e \subseteq g => Outline(ModesOver(A), T, p, Mk(a, g), Mk(b, g))

\* t goes on in the state z within b, or its step returns an error within e.
Goes(A, T, t, z, e, b) ==
    \/ Go(t, <<>>) /\ z \in b
    \/ Raise(t) /\ z \in e
    \/ \E p, a : a \in A /\ Go(t, p) /\ z \in a /\ PathIn(A, T, p, a, e, b)

\* In the state s, the program p has an outline that ends in b.
OutlinedIn(A, T, p, s, b) ==
    \E m \in ModesOver(A) : s \in m.at /\ Outline(ModesOver(A), T, p, m, Mk(b, {}))

LEMMA ModeOf ==
    ASSUME NEW A
    PROVE  /\ \A a, g \in A : Mk(a, g) \in ModesOver(A)
           /\ \A a, g : Mk(a, g).at = a /\ Mk(a, g).guard = g
           /\ \A m \in ModesOver(A) : m = Mk(m.at, m.guard) /\ m.at \in A /\ m.guard \in A
           /\ \A m, n \in ModesOver(A) : Mk(m.at, n.guard) \in ModesOver(A)
BY DEF Mk, ModesOver

LEMMA TablePlain ==
    ASSUME NEW A, NEW Q, PlainTable(A, Q)
    PROVE  PlainOver(ModesOver(A), RowsOf(A, Q))
<1> SUFFICES ASSUME NEW x \in RowsOf(A, Q)
             PROVE  /\ x = <<x[1], x[2], x[3]>> /\ x[2] \in ModesOver(A) /\ x[3] \in ModesOver(A)
                    /\ x[1].do \notin {"Call", "Return"} /\ x[3].guard = x[2].guard
  BY DEF PlainOver
<1>1. x \in {q[1] : q \in Q} \X ModesOver(A) \X ModesOver(A) /\ x[3].guard = x[2].guard
  BY DEF RowsOf
<1>2. PICK q \in Q : x[1] = q[1]
  BY <1>1
<1> QED BY <1>1, <1>2 DEF PlainTable

LEMMA RowIn ==
    ASSUME NEW A, NEW Q, NEW r, NEW a \in A, NEW e \in A, NEW b \in A, <<r, a, e, b>> \in Q
    PROVE  PathIn(A, RowsOf(A, Q), <<r>>, a, e, b)
<1> SUFFICES ASSUME NEW g \in A, e \subseteq g
             PROVE  Outline(ModesOver(A), RowsOf(A, Q), <<r>>, Mk(a, g), Mk(b, g))
  BY DEF PathIn
<1>1. Mk(a, g) \in ModesOver(A) /\ Mk(b, g) \in ModesOver(A)
      /\ Mk(a, g).at = a /\ Mk(a, g).guard = g /\ Mk(b, g).at = b /\ Mk(b, g).guard = g
  BY ModeOf
<1>2. r \in {q[1] : q \in Q}
  <2>1. <<r, a, e, b>>[1] = r
    OBVIOUS
  <2> QED BY <2>1
<1>3. <<r, Mk(a, g), Mk(b, g)>> \in RowsOf(A, Q)
  BY <1>1, <1>2 DEF RowsOf
<1> QED BY <1>1, <1>3, StepOutline

LEMMA EmptyIn ==
    ASSUME NEW A, NEW T, NEW a \in A, NEW b, a \subseteq b, NEW e
    PROVE  PathIn(A, T, <<>>, a, e, b)
<1> SUFFICES ASSUME NEW g \in A
             PROVE  Outline(ModesOver(A), T, <<>>, Mk(a, g), Mk(b, g))
  BY DEF PathIn
<1>1. Mk(a, g) \in ModesOver(A)
  BY ModeOf
<1>2. Within(Mk(a, g), Mk(b, g))
  BY DEF Within, Mk
<1> QED BY <1>1, <1>2, EmptyOutline

LEMMA WeakenIn ==
    ASSUME NEW A, NEW T, NEW p, NEW a, NEW b, NEW c, NEW d, NEW e, NEW e1,
           PathIn(A, T, p, b, e1, c), a \subseteq b, c \subseteq d, e1 \subseteq e
    PROVE  PathIn(A, T, p, a, e, d)
<1> SUFFICES ASSUME NEW g \in A, e \subseteq g
             PROVE  Outline(ModesOver(A), T, p, Mk(a, g), Mk(d, g))
  BY DEF PathIn
<1>1. Outline(ModesOver(A), T, p, Mk(b, g), Mk(c, g))
  BY DEF PathIn
<1>2. Within(Mk(a, g), Mk(b, g)) /\ Within(Mk(c, g), Mk(d, g))
  BY DEF Within, Mk
<1> QED BY <1>1, <1>2, WeakenOutline

LEMMA ThenIn ==
    ASSUME NEW A, NEW T, NEW p, NEW q, NEW a, NEW b, NEW c, NEW d, NEW e, NEW e1, NEW e2,
           PathIn(A, T, p, a, e1, b), PathIn(A, T, q, c, e2, d), b \subseteq c,
           e1 \subseteq e, e2 \subseteq e
    PROVE  PathIn(A, T, p \o q, a, e, d)
<1> SUFFICES ASSUME NEW g \in A, e \subseteq g
             PROVE  Outline(ModesOver(A), T, p \o q, Mk(a, g), Mk(d, g))
  BY DEF PathIn
<1>1. /\ Outline(ModesOver(A), T, p, Mk(a, g), Mk(b, g))
      /\ Outline(ModesOver(A), T, q, Mk(c, g), Mk(d, g))
  BY DEF PathIn
<1>2. Within(Mk(b, g), Mk(c, g)) /\ Within(Mk(d, g), Mk(d, g))
  BY DEF Within, Mk
<1>3. Outline(ModesOver(A), T, q, Mk(b, g), Mk(d, g))
  BY <1>1, <1>2, WeakenOutline
<1> QED BY <1>1, <1>3, ThenOutline

LEMMA ProgramIn ==
    ASSUME NEW A, NEW T, NEW p, NEW a, NEW e \in A, NEW b, PathIn(A, T, p, a, e, b)
    PROVE  p \in Programs(T)
BY DEF PathIn, Outline

LEMMA TryIn ==
    ASSUME NEW A, NEW P, NEW T, NEW body, NEW ok, NEW err, NEW a \in A, NEW e1 \in A,
           NEW b \in A, NEW e, NEW c \in A,
           PathIn(A, T, body, a, e1, b), PathIn(A, T, ok, b, e, c),
           e1 # {} => PathIn(A, T, err, e1, e, c), err \in Programs(T)
    PROVE  PathIn(A, Deeper(ModesOver(A), P, T), Try(body, ok, err), a, e, c)
<1> SUFFICES ASSUME NEW g \in A, e \subseteq g
             PROVE  Outline(ModesOver(A), Deeper(ModesOver(A), P, T), Try(body, ok, err),
                            Mk(a, g), Mk(c, g))
  BY DEF PathIn
<1> DEFINE M == ModesOver(A)
<1>1. /\ Outline(M, T, body, Mk(a, e1), Mk(b, e1))
      /\ Outline(M, T, ok, Mk(b, g), Mk(c, g))
      /\ e1 # {} => Outline(M, T, err, Mk(e1, g), Mk(c, g))
  BY DEF PathIn
<1>2. /\ Mk(a, g) \in M /\ Mk(c, g) \in M /\ Mk(b, e1) \in M
      /\ Mk(a, g).at = a /\ Mk(a, g).guard = g /\ Mk(c, g).guard = g
      /\ Mk(b, e1).at = b /\ Mk(b, e1).guard = e1
  BY ModeOf
<1> HIDE DEF M
<1>3. Outline(M, Deeper(M, P, T), Try(body, ok, err), Mk(a, g), Mk(c, g))
  BY <1>1, <1>2, TryOutline
<1> QED BY <1>3 DEF M

LEMMA LiftIn ==
    ASSUME NEW A, NEW P, NEW p, NEW a, NEW e, NEW b
    PROVE  /\ PathIn(A, P, p, a, e, b) => PathIn(A, Deep1(ModesOver(A), P), p, a, e, b)
           /\ PathIn(A, Deep1(ModesOver(A), P), p, a, e, b)
                => PathIn(A, Deep2(ModesOver(A), P), p, a, e, b)
           /\ PathIn(A, Deep2(ModesOver(A), P), p, a, e, b)
                => PathIn(A, Deep3(ModesOver(A), P), p, a, e, b)
BY Depths, MoreOutline DEF PathIn

----------------------------------------------------------------------------
(* A thread that has an outline keeps it.                                     *)

LEMMA PathHolds ==
    ASSUME NEW A, {} \in A, NEW T, NEW p, NEW a \in A, NEW s \in a, NEW b, NEW c,
           PathIn(A, T, p, a, {}, b), b \subseteq c
    PROVE  OutlinedIn(A, T, p, s, c)
<1>1. Outline(ModesOver(A), T, p, Mk(a, {}), Mk(b, {}))
  BY DEF PathIn
<1>2. Within(Mk(b, {}), Mk(c, {})) /\ Within(Mk(a, {}), Mk(a, {}))
  BY DEF Within, Mk
<1>3. Outline(ModesOver(A), T, p, Mk(a, {}), Mk(c, {}))
  BY <1>1, <1>2, WeakenOutline
<1>4. Mk(a, {}) \in ModesOver(A) /\ s \in Mk(a, {}).at
  BY DEF Mk, ModesOver
<1> QED BY <1>3, <1>4 DEF OutlinedIn

LEMMA IdleHolds ==
    ASSUME NEW A, NEW T, NEW s, NEW b, OutlinedIn(A, T, <<>>, s, b)
    PROVE  s \in b
<1>1. PICK m \in ModesOver(A) : s \in m.at /\ Outline(ModesOver(A), T, <<>>, m, Mk(b, {}))
  BY DEF OutlinedIn
<1>2. PICK f \in [1 .. Len(<<>>) + 1 -> ModesOver(A)] :
          Within(m, f[1]) /\ Within(f[Len(<<>>) + 1], Mk(b, {}))
  BY <1>1 DEF Outline
<1>3. Within(m, f[1]) /\ Within(f[1], Mk(b, {}))
  BY <1>2
<1> QED BY <1>1, <1>3 DEF Within, Mk

\* What holds of the states of every assertion goes on to.
LEMMA StableHolds ==
    ASSUME NEW A, NEW T, NEW p, NEW s, NEW z, NEW b, OutlinedIn(A, T, p, s, b),
           \A a \in A : s \in a => z \in a
    PROVE  OutlinedIn(A, T, p, z, b)
BY ModeOf DEF OutlinedIn

LEMMA HeadRow ==
    ASSUME NEW A, NEW Q, PlainTable(A, Q), NEW p, NEW s, NEW b,
           OutlinedIn(A, AllOf(A, Q), p, s, b), p # <<>>, Head(p).do \notin {"Call", "Return"}
    PROVE  \E a \in A, n \in ModesOver(A) :
              /\ s \in a
              /\ Outline(ModesOver(A), AllOf(A, Q), Tail(p), n, Mk(b, {}))
              /\ \E e \in A : e \subseteq n.guard /\ <<Head(p), a, e, n.at>> \in Q
<1>1. PICK m \in ModesOver(A) :
          s \in m.at /\ Outline(ModesOver(A), AllOf(A, Q), p, m, Mk(b, {}))
  BY DEF OutlinedIn
<1>2. PICK a \in ModesOver(A), n \in ModesOver(A) :
          /\ Within(m, a) /\ <<Head(p), a, n>> \in AllOf(A, Q)
          /\ Outline(ModesOver(A), AllOf(A, Q), Tail(p), n, Mk(b, {}))
  BY <1>1, RestOutline
<1>3. <<Head(p), a, n>> \in RowsOf(A, Q)
  BY <1>2, StepOf, TablePlain DEF AllOf
<1>4. /\ n.guard = a.guard
      /\ \E e \in A : e \subseteq a.guard /\ <<Head(p), a.at, e, n.at>> \in Q
  BY <1>3 DEF RowsOf
<1>5. s \in a.at /\ a.at \in A
  BY <1>1, <1>2, ModeOf DEF Within
<1> QED BY <1>2, <1>4, <1>5

LEMMA StepHolds ==
    ASSUME NEW A, {} \in A, NEW Q, PlainTable(A, Q), NEW X, todo \in [Thread -> X],
           NEW t \in Thread, NEW s, NEW z, NEW b,
           OutlinedIn(A, AllOf(A, Q), todo[t], s, b), todo[t] # <<>>,
           Head(todo[t]).do \notin {"Call", "Return"},
           \A a, e, c \in A : <<Head(todo[t]), a, e, c>> \in Q /\ s \in a
                                 => Goes(A, AllOf(A, Q), t, z, e, c)
    PROVE  /\ OutlinedIn(A, AllOf(A, Q), todo'[t], z, b)
           /\ \A u \in Thread \ {t} : todo'[u] = todo[u]
<1> DEFINE M == ModesOver(A)
           T == AllOf(A, Q)
           o == Mk(b, {})
<1>1. PICK a \in A, n \in M, e \in A :
          /\ s \in a /\ Outline(M, T, Tail(todo[t]), n, o)
          /\ e \subseteq n.guard /\ <<Head(todo[t]), a, e, n.at>> \in Q
  BY HeadRow
<1>2. n = Mk(n.at, n.guard) /\ n.at \in A /\ n.guard \in A
  BY ModeOf
<1>3. Goes(A, T, t, z, e, n.at)
  BY <1>1, <1>2
<1> HIDE DEF T
<1>4. CASE Go(t, <<>>) /\ z \in n.at
  <2>1. Outline(M, T, <<>>, n, n)
    BY EmptyOutline DEF Within
  <2>2. Outline(M, T, todo'[t], n, o)
    BY <1>1, <1>4, <2>1, GoOutline
  <2>3. OutlinedIn(A, T, todo'[t], z, b)
    BY <1>4, <2>2 DEF OutlinedIn
  <2> QED BY <1>4, <2>3 DEF Go, T
<1>5. CASE Raise(t) /\ z \in e
  <2>1. z \in n.guard /\ n.guard # {} /\ o.guard = {}
    BY <1>1, <1>5 DEF Mk
  <2>2. PICK k \in M : Outline(M, T, todo'[t], Mk(n.guard, k.guard), o)
    BY <1>1, <1>5, <2>1, RaiseOutline, TablePlain DEF T, AllOf
  <2>3. k.guard \in A
    BY ModeOf
  <2>4. Mk(n.guard, k.guard) \in M /\ Mk(n.guard, k.guard).at = n.guard
    BY <1>2, <2>3, ModeOf
  <2>5. OutlinedIn(A, T, todo'[t], z, b)
    BY <2>1, <2>2, <2>4 DEF OutlinedIn
  <2> QED BY <1>5, <2>5 DEF Raise, T
<1>6. ASSUME NEW p, NEW c \in A, Go(t, p), z \in c, PathIn(A, T, p, c, e, n.at)
      PROVE  /\ OutlinedIn(A, T, todo'[t], z, b)
             /\ \A u \in Thread \ {t} : todo'[u] = todo[u]
  <2>1. Outline(M, T, p, Mk(c, n.guard), n)
    BY <1>1, <1>2, <1>6 DEF PathIn
  <2>2. Outline(M, T, todo'[t], Mk(c, n.guard), o)
    BY <1>1, <1>6, <2>1, GoOutline
  <2>3. Mk(c, n.guard) \in M /\ Mk(c, n.guard).at = c
    BY <1>2, ModeOf
  <2>4. OutlinedIn(A, T, todo'[t], z, b)
    BY <1>6, <2>2, <2>3 DEF OutlinedIn
  <2> QED BY <1>6, <2>4 DEF Go
<1>7. \/ Go(t, <<>>) /\ z \in n.at
      \/ Raise(t) /\ z \in e
      \/ \E p, c : c \in A /\ Go(t, p) /\ z \in c /\ PathIn(A, T, p, c, e, n.at)
  BY <1>3 DEF Goes
<1>8. CASE \E p, c : c \in A /\ Go(t, p) /\ z \in c /\ PathIn(A, T, p, c, e, n.at)
  BY <1>6, <1>8 DEF T
<1> QED BY <1>4, <1>5, <1>7, <1>8

LEMMA CallHolds ==
    ASSUME NEW A, NEW Q, PlainTable(A, Q), NEW X, todo \in [Thread -> X], NEW t \in Thread,
           Call(t) \/ Return(t), NEW s, NEW b, OutlinedIn(A, AllOf(A, Q), todo[t], s, b)
    PROVE  /\ OutlinedIn(A, AllOf(A, Q), todo'[t], s, b)
           /\ \A u \in Thread \ {t} : todo'[u] = todo[u]
<1>1. PICK m \in ModesOver(A) :
          s \in m.at /\ Outline(ModesOver(A), AllOf(A, Q), todo[t], m, Mk(b, {}))
  BY DEF OutlinedIn
<1>2. PICK n \in ModesOver(A) :
          m.at \subseteq n.at /\ Outline(ModesOver(A), AllOf(A, Q), todo'[t], n, Mk(b, {}))
  BY <1>1, ModeOf, TablePlain, CallOutline DEF AllOf
<1>3. \A u \in Thread \ {t} : todo'[u] = todo[u]
  BY DEF Call, Return, Go
<1> QED BY <1>1, <1>2, <1>3 DEF OutlinedIn

----------------------------------------------------------------------------
(* Modes: between two steps of a program the thread owns the mutex or not     *)
(* (lock), and the call it is inside looks at the result (guard): with the    *)
(* lock the error return finds, or with "none" when nothing may fail.         *)

Locks == {"free", "held"}
Guards == Locks \union {"none"}
Mode == [lock : Locks, guard : Guards]
In(l, g) == [lock |-> l, guard |-> g]
Done == In("free", "none")

----------------------------------------------------------------------------
(* The steps that are not calls.                                              *)

\* They change flags only, or decide what comes next.
Calm == {"DacOff", "AdcOff", "PlayingOff", "PlaybackDmaOff", "CapturingOff",
         "DuplexDmaOff", "CapturingOn", "DmaOff", "CallFlagsOn", "CallFlagsOff",
         "NotifyIfReady", "ReadStream", "UartStop", "ReplyOn", "ReplyOff", "CloseUart"}

\* They may return an error.
Risky == {"Fail", "DacOn", "AdcOn", "CodecRate", "PlaybackDmaOn", "DuplexDmaOn",
          "CallCheck", "SyncDac", "SyncAdc", "StartPlayback", "ArmPlayback",
          "StartCapture", "Notify", "UartStart", "WaitReplyDone"}
RiskyWith == {"Reconfigure", "RestartDma", "SetRenderer", "Activate", "StartSink"}

\* They take the mutex, or wait for another thread.
FreeOnly == {"ReadStream", "WriteFrames", "WaitQuiet", "WaitReplyDone"}

\* They change the mixer's sessions, or look at them to change the sink.
HeldOnly == {"Activate", "StartSink", "Rollback", "Deactivate", "NotifyIfReady"}

LockBound == FreeOnly \union HeldOnly

Bare == Calm \union Risky \union {"Lock", "Unlock"}

PlainStep ==
    [do : Bare]
    \union [do : {"Reconfigure", "RateBack", "SetCallRate"}, arg : Rates]
    \union [do : {"RestartDma"}, arg : {"stopped", "playback", "duplex"}]
    \union [do : {"SetRunMode"}, arg : {"idle", "playback", "capture", "duplex"}]
    \union [do : {"SetRenderer"}, arg : {"mixer", "hfp"}]
    \union [do : {"Activate", "StartSink", "Rollback", "WriteFrames"}, arg : Sources]
    \union [do : {"Deactivate"}, arg : SUBSET Sources]
    \union [do : {"Enable", "Allow", "SetCapturing", "SetVoice"}, arg : BOOLEAN]
    \union [do : {"WaitQuiet"}, arg : Nat]

MayFail(r) == r.do \in Risky \union RiskyWith \/ (r.do = "SetRunMode" /\ r.arg # "idle")

\* The step r may be taken in mode m and leaves n.
Fits(r, m, n) ==
    \/ r.do = "Lock" /\ m.lock = "free" /\ n = [m EXCEPT !.lock = "held"]
    \/ r.do = "Unlock" /\ m.lock = "held" /\ n = [m EXCEPT !.lock = "free"]
    \/ /\ r.do \notin {"Lock", "Unlock"} /\ n = m
       /\ MayFail(r) => m.guard = m.lock
       /\ r.do \in FreeOnly => m.lock = "free"
       /\ r.do \in HeldOnly => m.lock = "held"

Plain == {x \in PlainStep \X Mode \X Mode : Fits(x[1], x[2], x[3])}

----------------------------------------------------------------------------
(* Programs over a set T of steps with the modes around them.                 *)

\* The program s leads from mode m to n.
Leads(T, s, m, n) ==
    /\ s \in Programs(T)
    /\ \E f \in [1 .. Len(s) + 1 -> Mode] :
         /\ f[1] = m /\ f[Len(s) + 1] = n
         /\ \A i \in 1 .. Len(s) : <<s[i], f[i], f[i + 1]>> \in T

\* A call that ends in mode m goes on to n, whatever the result it may have.
Returns(T, ok, err, m, n) ==
    /\ Leads(T, ok, In(m.lock, n.guard), n)
    /\ m.guard # "none" =>
          m.guard = m.lock /\ Leads(T, err, In(m.lock, n.guard), n)

Catches(T, c, m, n) ==
    /\ n.guard = m.guard
    /\ \E g \in Guards :
         /\ Leads(T, c.body, In(m.lock, g), In(m.lock, g))
         /\ Returns(T, c.ok, c.err, In(m.lock, g), n)

\* T with the calls of programs over T.
CallsOf(T) ==
    {x \in [do : {"Call"}, body : Programs(T), ok : Programs(T), err : Programs(T)]
           \X Mode \X Mode : Catches(T, x[1], x[2], x[3])}
ReturnsOf(T) ==
    {x \in [do : {"Return"}, ok : Programs(T), err : Programs(T)] \X Mode \X Mode :
        Returns(T, x[1].ok, x[1].err, x[2], x[3])}
WithCalls(T) == Plain \union CallsOf(T) \union ReturnsOf(T)

\* The code nests calls up to three deep.
Once   == WithCalls(Plain)
Twice  == WithCalls(Once)
Thrice == WithCalls(Twice)

\* What a thread still has to do ends without the mutex, and with no error.
LockOf(t) == IF mutex = t THEN "held" ELSE "free"
Disciplined(t) == \E g \in Guards : Leads(Thrice, todo[t], In(LockOf(t), g), Done)

AllDisciplined ==
    /\ todo \in [Thread -> Programs(Thrice)]
    /\ \A t \in Thread : Disciplined(t)

IInv == TypeOK /\ AllDisciplined

----------------------------------------------------------------------------
(* Programs in general.                                                       *)

LEMMA ModeTyped == \A l \in Locks, g \in Guards : In(l, g) \in Mode
BY DEF Mode, In

LEMMA NothingLeads ==
    ASSUME NEW T, NEW m \in Mode
    PROVE  Leads(T, <<>>, m, m)
<1> DEFINE f == [i \in 1 .. 1 |-> m]
<1>1. <<>> \in Programs(T) /\ Len(<<>>) = 0
  BY EmptySeq DEF Programs
<1>2. f \in [1 .. 1 -> Mode] /\ f[1] = m
  OBVIOUS
<1> HIDE DEF f
<1>3. \A i \in 1 .. 0 : <<<<>>[i], f[i], f[i + 1]>> \in T
  OBVIOUS
<1> QED BY <1>1, <1>2, <1>3 DEF Leads

LEMMA StepLeads ==
    ASSUME NEW T, NEW m \in Mode, NEW n \in Mode, NEW r, <<r, m, n>> \in T
    PROVE  Leads(T, <<r>>, m, n)
<1> DEFINE f == [i \in 1 .. 2 |-> IF i = 1 THEN m ELSE n]
<1>1. r \in {x[1] : x \in T}
  OBVIOUS
<1>2. <<r>> \in Programs(T) /\ Len(<<r>>) = 1 /\ <<r>>[1] = r
  BY <1>1 DEF Programs
<1>3. f \in [1 .. 2 -> Mode] /\ f[1] = m /\ f[2] = n
  OBVIOUS
<1> HIDE DEF f
<1>4. \A i \in 1 .. 1 : <<<<r>>[i], f[i], f[i + 1]>> \in T
  BY <1>2, <1>3
<1> QED BY <1>2, <1>3, <1>4 DEF Leads

\* One program after another.
LEMMA ThenLeads ==
    ASSUME NEW T, NEW p, NEW q, NEW m, NEW n, NEW o,
           Leads(T, p, m, n), Leads(T, q, n, o)
    PROVE  Leads(T, p \o q, m, o)
<1>1. PICK f \in [1 .. Len(p) + 1 -> Mode] :
         /\ f[1] = m /\ f[Len(p) + 1] = n
         /\ \A i \in 1 .. Len(p) : <<p[i], f[i], f[i + 1]>> \in T
  BY DEF Leads
<1>2. PICK g \in [1 .. Len(q) + 1 -> Mode] :
         /\ g[1] = n /\ g[Len(q) + 1] = o
         /\ \A i \in 1 .. Len(q) : <<q[i], g[i], g[i + 1]>> \in T
  BY DEF Leads
<1>3. p \in Programs(T) /\ q \in Programs(T)
  BY DEF Leads
<1>4. /\ p \o q \in Programs(T)
      /\ Len(p \o q) = Len(p) + Len(q)
      /\ \A i \in 1 .. Len(p) + Len(q) :
            (p \o q)[i] = IF i <= Len(p) THEN p[i] ELSE q[i - Len(p)]
  BY <1>3, ConcatProperties DEF Programs
<1>5. Len(p) \in Nat /\ Len(q) \in Nat
  BY <1>3, LenProperties DEF Programs
<1> DEFINE h == [i \in 1 .. Len(p) + Len(q) + 1 |->
                    IF i <= Len(p) THEN f[i] ELSE g[i - Len(p)]]
<1>6. h \in [1 .. Len(p) + Len(q) + 1 -> Mode]
  <2> SUFFICES ASSUME NEW i \in 1 .. Len(p) + Len(q) + 1
               PROVE  (IF i <= Len(p) THEN f[i] ELSE g[i - Len(p)]) \in Mode
    OBVIOUS
  <2>1. CASE i <= Len(p)
    BY <2>1, <1>5
  <2>2. CASE ~(i <= Len(p))
    <3>1. i - Len(p) \in 1 .. Len(q) + 1
      BY <2>2, <1>5
    <3> QED BY <3>1, <2>2
  <2> QED BY <2>1, <2>2
<1>7. h[1] = m /\ h[Len(p) + Len(q) + 1] = o
  <2>1. 1 \in 1 .. Len(p) + Len(q) + 1 /\ Len(p) + Len(q) + 1 \in 1 .. Len(p) + Len(q) + 1
    BY <1>5
  <2>2. Len(p) + Len(q) + 1 - Len(p) = Len(q) + 1 /\ ~(Len(p) + Len(q) + 1 <= Len(p))
    BY <1>5
  <2>3. h[1] = m
    <3>1. CASE Len(p) = 0
      BY <3>1, <2>1, <1>1, <1>2
    <3>2. CASE Len(p) # 0
      BY <3>2, <2>1, <1>1, <1>5
    <3> QED BY <3>1, <3>2
  <2> QED BY <2>1, <2>2, <2>3, <1>2
<1>8. ASSUME NEW i \in 1 .. Len(p) + Len(q)
      PROVE  <<(p \o q)[i], h[i], h[i + 1]>> \in T
  <2>1. /\ i \in 1 .. Len(p) + Len(q) + 1 /\ i + 1 \in 1 .. Len(p) + Len(q) + 1
    BY <1>5
  <2>2. CASE i < Len(p)
    <3>1. h[i] = f[i] /\ h[i + 1] = f[i + 1] /\ (p \o q)[i] = p[i] /\ i \in 1 .. Len(p)
      BY <2>1, <2>2, <1>4, <1>5
    <3> QED BY <3>1, <1>1
  <2>3. CASE i = Len(p)
    <3>1. /\ h[i] = f[i] /\ h[i + 1] = g[i + 1 - Len(p)]
          /\ (p \o q)[i] = p[i] /\ i \in 1 .. Len(p) /\ i + 1 - Len(p) = 1
      BY <2>1, <2>3, <1>4, <1>5
    <3> QED BY <3>1, <2>3, <1>1, <1>2
  <2>4. CASE i > Len(p)
    <3>1. /\ h[i] = g[i - Len(p)] /\ h[i + 1] = g[i + 1 - Len(p)]
          /\ (p \o q)[i] = q[i - Len(p)]
      BY <2>1, <2>4, <1>4, <1>5
    <3>2. i - Len(p) \in 1 .. Len(q) /\ i + 1 - Len(p) = (i - Len(p)) + 1
      BY <2>4, <1>5, Positions
    <3> QED BY <3>1, <3>2, <1>2
  <2>5. i < Len(p) \/ i = Len(p) \/ i > Len(p)
    BY <1>5
  <2> HIDE DEF h
  <2> QED BY <2>2, <2>3, <2>4, <2>5
<1> HIDE DEF h
<1> QED BY <1>4, <1>6, <1>7, <1>8 DEF Leads

\* A program with its first step taken.
LEMMA RestLeads ==
    ASSUME NEW T, NEW s, NEW m, NEW o, Leads(T, s, m, o), s # <<>>
    PROVE  \E n \in Mode : <<Head(s), m, n>> \in T /\ Leads(T, Tail(s), n, o)
<1>1. PICK f \in [1 .. Len(s) + 1 -> Mode] :
         /\ f[1] = m /\ f[Len(s) + 1] = o
         /\ \A i \in 1 .. Len(s) : <<s[i], f[i], f[i + 1]>> \in T
  BY DEF Leads
<1>2. s \in Programs(T)
  BY DEF Leads
<1>3. Len(s) \in Nat \ {0}
  BY <1>2, EmptySeq DEF Programs
<1>4. /\ Tail(s) \in Programs(T) /\ Len(Tail(s)) = Len(s) - 1
      /\ \A i \in 1 .. Len(Tail(s)) : Tail(s)[i] = s[i + 1]
  BY <1>2, HeadTailProperties DEF Programs
<1>5. Head(s) = s[1]
  BY <1>2, <1>3 DEF Programs
<1> DEFINE g == [i \in 1 .. Len(s) |-> f[i + 1]]
<1>6. g \in [1 .. Len(s) -> Mode] /\ g[1] = f[2] /\ g[Len(s)] = o
  BY <1>1, <1>3
<1>7. ASSUME NEW i \in 1 .. Len(s) - 1
      PROVE  <<Tail(s)[i], g[i], g[i + 1]>> \in T
  <2>1. i + 1 \in 1 .. Len(s) /\ i \in 1 .. Len(s) /\ i \in 1 .. Len(Tail(s))
    BY <1>3, <1>4
  <2>2. Tail(s)[i] = s[i + 1] /\ g[i] = f[i + 1] /\ g[i + 1] = f[(i + 1) + 1]
    BY <2>1, <1>4
  <2> HIDE DEF g
  <2> QED BY <2>1, <2>2, <1>1
<1> HIDE DEF g
<1>8. Leads(T, Tail(s), g[1], o)
  <2>1. Len(Tail(s)) + 1 = Len(s)
    BY <1>3, <1>4
  <2>2. \A i \in 1 .. Len(Tail(s)) : <<Tail(s)[i], g[i], g[i + 1]>> \in T
    BY <1>4, <1>7
  <2> QED BY <2>1, <2>2, <1>4, <1>6 DEF Leads
<1>9. <<Head(s), m, g[1]>> \in T /\ g[1] \in Mode
  <2>1. 1 \in 1 .. Len(s) /\ 1 + 1 = 2
    BY <1>3
  <2>2. <<s[1], f[1], f[2]>> \in T
    BY <2>1, <1>1
  <2> QED BY <2>1, <2>2, <1>1, <1>5, <1>6
<1> QED BY <1>8, <1>9

\* With more steps allowed, what was a program is one.
LEMMA MoreLeads ==
    ASSUME NEW T, NEW U, T \subseteq U, NEW s, NEW m, NEW n, Leads(T, s, m, n)
    PROVE  Leads(U, s, m, n)
<1>1. {x[1] : x \in T} \subseteq {x[1] : x \in U}
  OBVIOUS
<1>2. Programs(T) \subseteq Programs(U)
  BY <1>1, SeqMonotonic DEF Programs
<1> QED BY <1>2 DEF Leads

LEMMA MoreCalls ==
    ASSUME NEW T, NEW U, T \subseteq U
    PROVE  WithCalls(T) \subseteq WithCalls(U)
<1>1. Programs(T) \subseteq Programs(U)
  <2>1. {x[1] : x \in T} \subseteq {x[1] : x \in U}
    OBVIOUS
  <2> QED BY <2>1, SeqMonotonic DEF Programs
<1>2. ASSUME NEW ok, NEW err, NEW m, NEW n, Returns(T, ok, err, m, n)
      PROVE  Returns(U, ok, err, m, n)
  BY <1>2, MoreLeads DEF Returns
<1>3. ASSUME NEW c, NEW m, NEW n, Catches(T, c, m, n)
      PROVE  Catches(U, c, m, n)
  <2>1. PICK g \in Guards :
          /\ Leads(T, c.body, In(m.lock, g), In(m.lock, g))
          /\ Returns(T, c.ok, c.err, In(m.lock, g), n)
    BY <1>3 DEF Catches
  <2>2. /\ Leads(U, c.body, In(m.lock, g), In(m.lock, g))
        /\ Returns(U, c.ok, c.err, In(m.lock, g), n)
    BY <2>1, <1>2, MoreLeads
  <2> QED BY <1>3, <2>2 DEF Catches
<1>4. CallsOf(T) \subseteq CallsOf(U)
  <2>1. [do : {"Call"}, body : Programs(T), ok : Programs(T), err : Programs(T)]
          \subseteq [do : {"Call"}, body : Programs(U), ok : Programs(U), err : Programs(U)]
    BY <1>1
  <2> QED BY <2>1, <1>3 DEF CallsOf
<1>5. ReturnsOf(T) \subseteq ReturnsOf(U)
  <2>1. [do : {"Return"}, ok : Programs(T), err : Programs(T)]
          \subseteq [do : {"Return"}, ok : Programs(U), err : Programs(U)]
    BY <1>1
  <2> QED BY <2>1, <1>2 DEF ReturnsOf
<1> QED BY <1>4, <1>5 DEF WithCalls

LEMMA Levels == Plain \subseteq Once /\ Once \subseteq Twice /\ Twice \subseteq Thrice
<1>1. Plain \subseteq Once
  BY DEF Once, WithCalls
<1>2. Once \subseteq Twice
  BY <1>1, MoreCalls DEF Once, Twice
<1> QED BY <1>1, <1>2, MoreCalls DEF Twice, Thrice

----------------------------------------------------------------------------
(* Steps of a program of the code.                                            *)

\* A step that is not a call is plain; a call and its return are as they should.
LEMMA StepFacts ==
    ASSUME NEW r, NEW m, NEW n, <<r, m, n>> \in Thrice
    PROVE  /\ m \in Mode /\ n \in Mode
           /\ r.do \notin {"Call", "Return"} => r \in PlainStep /\ Fits(r, m, n)
           /\ r.do = "Call" =>
                /\ Catches(Twice, r, m, n)
                /\ r.body \in Programs(Twice) /\ r.ok \in Programs(Twice)
                /\ r.err \in Programs(Twice)
           /\ r.do = "Return" => Returns(Twice, r.ok, r.err, m, n)
           /\ r.do # "Return" => n.guard = m.guard
<1>1. CASE <<r, m, n>> \in Plain
  <2>1. r \in PlainStep /\ m \in Mode /\ n \in Mode /\ Fits(r, m, n)
    BY <1>1 DEF Plain
  <2>2. r.do \notin {"Call", "Return"}
    BY <2>1 DEF PlainStep, Bare, Calm, Risky
  <2>3. n.guard = m.guard
    BY <2>1 DEF Fits, Mode
  <2> QED BY <2>1, <2>2, <2>3
<1>2. CASE <<r, m, n>> \in CallsOf(Twice)
  <2>1. /\ r \in [do : {"Call"}, body : Programs(Twice), ok : Programs(Twice),
                  err : Programs(Twice)]
        /\ m \in Mode /\ n \in Mode /\ Catches(Twice, r, m, n)
    BY <1>2 DEF CallsOf
  <2> QED BY <2>1 DEF Catches
<1>3. CASE <<r, m, n>> \in ReturnsOf(Twice)
  <2>1. /\ r \in [do : {"Return"}, ok : Programs(Twice), err : Programs(Twice)]
        /\ m \in Mode /\ n \in Mode /\ Returns(Twice, r.ok, r.err, m, n)
    BY <1>3 DEF ReturnsOf
  <2> QED BY <2>1
<1> QED BY <1>1, <1>2, <1>3 DEF Thrice, WithCalls

\* An error return finds the call that looks at it, and what follows ends well.
LEMMA ErrorIsCaught ==
    ASSUME NEW s, NEW m \in Mode, Leads(Thrice, s, m, Done), m.guard = m.lock
    PROVE  /\ \E i \in 1 .. Len(s) : s[i].do = "Return"
           /\ \E g \in Guards : Leads(Thrice, Unwound(s), In(m.lock, g), Done)
<1>1. PICK f \in [1 .. Len(s) + 1 -> Mode] :
         /\ f[1] = m /\ f[Len(s) + 1] = Done
         /\ \A i \in 1 .. Len(s) : <<s[i], f[i], f[i + 1]>> \in Thrice
  BY DEF Leads
<1>2. s \in Programs(Thrice) /\ Len(s) \in Nat
  BY LenProperties DEF Leads, Programs
<1>3. m.lock \in Locks /\ m.guard # "none" /\ Done.guard = "none"
  BY DEF Mode, Locks, Done, In
<1> DEFINE Left == {i \in 1 .. Len(s) + 1 : f[i].guard # m.guard}
           Ends == {i \in 1 .. Len(s) : s[i].do = "Return"}
<1>4. Left \in SUBSET Nat /\ Len(s) + 1 \in Left
  BY <1>1, <1>2, <1>3
<1>5. PICK j \in Left : \A i \in Left : j <= i
  BY <1>4, FirstPosition
<1>6. j - 1 \in 1 .. Len(s) /\ j - 1 \notin Left
  BY <1>1, <1>2, <1>5
<1>7. j - 1 \in Ends
  <2>1. <<s[j - 1], f[j - 1], f[(j - 1) + 1]>> \in Thrice /\ (j - 1) + 1 = j
    BY <1>1, <1>6, <1>2
  <2>2. f[j - 1].guard = m.guard /\ f[j].guard # m.guard
    BY <1>5, <1>6, <1>2
  <2> QED BY <2>1, <2>2, <1>6, StepFacts
<1>8. PICK k \in Ends : k = Min(Ends) /\ k <= j - 1
  <2>1. Ends \in SUBSET Nat
    BY <1>2
  <2> QED BY <2>1, <1>7, FirstPosition
<1>9. f[k].guard = m.guard
  BY <1>8, <1>5, <1>2
<1>10. Returns(Twice, s[k].ok, s[k].err, f[k], f[k + 1]) /\ f[k + 1] \in Mode
  <2>1. <<s[k], f[k], f[k + 1]>> \in Thrice
    BY <1>1, <1>8
  <2> QED BY <2>1, <1>8, StepFacts
<1>11. Leads(Thrice, s[k].err, In(m.lock, f[k + 1].guard), f[k + 1])
  <2>1. Leads(Twice, s[k].err, In(f[k].lock, f[k + 1].guard), f[k + 1]) /\ f[k].lock = m.lock
    BY <1>10, <1>9, <1>3 DEF Returns
  <2> QED BY <2>1, Levels, MoreLeads
<1>12. Leads(Thrice, SubSeq(s, k + 1, Len(s)), f[k + 1], Done)
  <2> DEFINE q == SubSeq(s, k + 1, Len(s))
             g == [i \in 1 .. Len(s) - k + 1 |-> f[i + k]]
  <2>1. k \in 1 .. Len(s) /\ k + 1 \in Int /\ Len(s) \in Int
    BY <1>8, <1>2
  <2>2. \A i \in k + 1 .. Len(s) : s[i] \in {x[1] : x \in Thrice}
    <3>1. \A i \in 1 .. Len(s) : s[i] \in {x[1] : x \in Thrice}
      BY <1>2, ElementOfSeq DEF Programs
    <3> QED BY <3>1, <2>1
  <2>3. /\ q \in Programs(Thrice)
        /\ Len(q) = IF k + 1 <= Len(s) THEN Len(s) - (k + 1) + 1 ELSE 0
        /\ \A i \in 1 .. Len(s) - (k + 1) + 1 : q[i] = s[(k + 1) + i - 1]
    BY <2>1, <2>2, SubSeqProperties DEF Programs
  <2>4. Len(q) = Len(s) - k
    BY <2>3, <2>1, <1>2
  <2>5. g \in [1 .. Len(s) - k + 1 -> Mode] /\ g[1] = f[k + 1] /\ g[Len(s) - k + 1] = Done
    <3>1. \A i \in 1 .. Len(s) - k + 1 : i + k \in 1 .. Len(s) + 1
      BY <2>1, <1>2
    <3>2. 1 \in 1 .. Len(s) - k + 1 /\ Len(s) - k + 1 \in 1 .. Len(s) - k + 1
          /\ 1 + k = k + 1 /\ (Len(s) - k + 1) + k = Len(s) + 1
      BY <2>1, <1>2
    <3> QED BY <3>1, <3>2, <1>1
  <2>6. ASSUME NEW i \in 1 .. Len(s) - k PROVE <<q[i], g[i], g[i + 1]>> \in Thrice
    <3>1. /\ i \in 1 .. Len(s) - (k + 1) + 1 /\ (k + 1) + i - 1 = i + k
          /\ i + k \in 1 .. Len(s) /\ (i + 1) + k = (i + k) + 1
          /\ i \in 1 .. Len(s) - k + 1 /\ i + 1 \in 1 .. Len(s) - k + 1
      BY <2>1, <1>2
    <3>2. q[i] = s[i + k] /\ g[i] = f[i + k] /\ g[i + 1] = f[(i + k) + 1]
      BY <3>1, <2>3
    <3> HIDE DEF q, g
    <3> QED BY <3>1, <3>2, <1>1
  <2> HIDE DEF q, g
  <2>7. Leads(Thrice, q, f[k + 1], Done)
    BY <2>3, <2>4, <2>5, <2>6 DEF Leads
  <2> QED BY <2>7 DEF q
<1>13. Unwound(s) = s[k].err \o SubSeq(s, k + 1, Len(s))
  BY <1>8 DEF Unwound
<1>14. f[k + 1].guard \in Guards
  BY <1>10 DEF Mode
<1> QED BY <1>8, <1>11, <1>12, <1>13, <1>14, ThenLeads

----------------------------------------------------------------------------
(* How programs are put together.                                             *)

LEMMA PlainLeads ==
    ASSUME NEW T, Plain \subseteq T, NEW r \in PlainStep,
           NEW m \in Mode, NEW n \in Mode, Fits(r, m, n)
    PROVE  Leads(T, <<r>>, m, n)
<1>1. <<r, m, n>> \in T
  BY DEF Plain
<1> QED BY <1>1, StepLeads

LEMMA DoLeads ==
    ASSUME NEW T, Plain \subseteq T, NEW d \in Calm \ LockBound, NEW m \in Mode
    PROVE  Leads(T, Do(d), m, m)
<1>1. [do |-> d] \in PlainStep
  BY DEF PlainStep, Bare
<1>2. Fits([do |-> d], m, m)
  BY DEF Fits, MayFail, Calm, Risky, RiskyWith, LockBound
<1> QED BY <1>1, <1>2, PlainLeads DEF Do

LEMMA RiskLeads ==
    ASSUME NEW T, Plain \subseteq T, NEW d \in Risky \ LockBound,
           NEW m \in Mode, m.guard = m.lock
    PROVE  Leads(T, Do(d), m, m)
<1>1. [do |-> d] \in PlainStep
  BY DEF PlainStep, Bare
<1>2. Fits([do |-> d], m, m)
  BY DEF Fits, MayFail, Risky, LockBound
<1> QED BY <1>1, <1>2, PlainLeads DEF Do

LEMMA WithLeads ==
    ASSUME NEW T, Plain \subseteq T, NEW d, NEW x, [do |-> d, arg |-> x] \in PlainStep,
           d \notin {"Lock", "Unlock"}, NEW m \in Mode,
           MayFail([do |-> d, arg |-> x]) => m.guard = m.lock,
           d \in FreeOnly => m.lock = "free", d \in HeldOnly => m.lock = "held"
    PROVE  Leads(T, With(d, x), m, m)
<1>1. Fits([do |-> d, arg |-> x], m, m)
  BY DEF Fits
<1> QED BY <1>1, PlainLeads DEF With

LEMMA ModeIs == \A m \in Mode : /\ m = In(m.lock, m.guard)
                                /\ m.lock \in Locks /\ m.guard \in Guards
BY DEF Mode, In

LEMMA InIs ==
    \A l \in Locks, g \in Guards : In(l, g).lock = l /\ In(l, g).guard = g /\ l \in Guards
BY DEF In, Guards

\* A call whose body, and both ways on, are programs.
LEMMA TryLeads ==
    ASSUME NEW T, NEW m \in Mode, NEW body, NEW ok, NEW err,
           Leads(T, body, In(m.lock, m.lock), In(m.lock, m.lock)),
           Leads(T, ok, m, m), Leads(T, err, m, m)
    PROVE  Leads(WithCalls(T), Try(body, ok, err), m, m)
<1> DEFINE c == [do |-> "Call", body |-> body, ok |-> ok, err |-> err]
<1>1. m.lock \in Locks /\ m.lock \in Guards /\ m = In(m.lock, m.guard)
  BY ModeIs, InIs
<1>2. Returns(T, ok, err, In(m.lock, m.lock), m)
  BY <1>1, InIs DEF Returns
<1>3. c \in [do : {"Call"}, body : Programs(T), ok : Programs(T), err : Programs(T)]
  BY DEF Leads
<1>4. Catches(T, c, m, m)
  BY <1>1, <1>2 DEF Catches
<1>5. <<c, m, m>> \in WithCalls(T)
  BY <1>3, <1>4 DEF WithCalls, CallsOf
<1> HIDE DEF c
<1>6. Leads(WithCalls(T), <<c>>, m, m)
  BY <1>5, StepLeads
<1> QED BY <1>6 DEF c, Try

\* A program under the mutex: with no error to return, or inside a call that
\* looks at it.
LEMMA LockedLeads ==
    ASSUME NEW T, Plain \subseteq T, NEW p, NEW g \in Guards,
           NEW h \in {"none", "held"}, h = "held" => g = "free",
           Leads(T, p, In("held", h), In("held", h))
    PROVE  Leads(WithCalls(T), Locked(p), In("free", g), In("free", g))
<1> DEFINE lock == [do |-> "Lock"]
           unlock == [do |-> "Unlock"]
           c == [do |-> "Call", body |-> p, ok |-> Do("Unlock"),
                 err |-> Do("Unlock") \o Do("Fail")]
<1>1. /\ g \in Guards /\ h \in Guards
      /\ In("free", g) \in Mode /\ In("held", g) \in Mode /\ In("free", "free") \in Mode
  BY ModeTyped DEF Guards, Locks
<1>2. Plain \subseteq WithCalls(T)
  BY DEF WithCalls
<1>3. lock \in PlainStep /\ unlock \in PlainStep
  BY DEF PlainStep, Bare
<1>4. Fits(lock, In("free", g), In("held", g)) /\ Fits(unlock, In("held", g), In("free", g))
  BY DEF Fits, In
<1>5. Leads(WithCalls(T), Do("Lock"), In("free", g), In("held", g))
  BY <1>1, <1>2, <1>3, <1>4, PlainLeads DEF Do
<1>6. Leads(T, Do("Unlock"), In("held", g), In("free", g))
  BY <1>1, <1>3, <1>4, PlainLeads DEF Do
<1>7. /\ Do("Unlock") \o Do("Fail") \in Programs(T)
      /\ h = "held" => Leads(T, Do("Unlock") \o Do("Fail"), In("held", g), In("free", g))
  <2>1. Leads(T, Do("Fail"), In("free", "free"), In("free", "free"))
    BY <1>1, RiskLeads DEF In, Risky, FreeOnly, HeldOnly, LockBound
  <2>2. Do("Unlock") \in Programs(T) /\ Do("Fail") \in Programs(T)
    BY <2>1, <1>6 DEF Leads
  <2>3. Do("Unlock") \o Do("Fail") \in Programs(T)
    BY <2>2, ConcatProperties DEF Programs
  <2> QED BY <2>1, <2>3, <1>6, ThenLeads
<1>8. Returns(T, Do("Unlock"), Do("Unlock") \o Do("Fail"), In("held", h), In("free", g))
  BY <1>1, <1>6, <1>7 DEF Returns, In
<1>9. Catches(T, c, In("held", g), In("free", g))
  BY <1>1, <1>8 DEF Catches, In
<1>10. c \in [do : {"Call"}, body : Programs(T), ok : Programs(T), err : Programs(T)]
  BY <1>6, <1>7 DEF Leads
<1>11. <<c, In("held", g), In("free", g)>> \in WithCalls(T)
  BY <1>1, <1>9, <1>10 DEF WithCalls, CallsOf
<1> HIDE DEF c
<1>12. Leads(WithCalls(T), <<c>>, In("held", g), In("free", g))
  BY <1>1, <1>11, StepLeads
<1>13. Leads(WithCalls(T), Do("Lock") \o <<c>>, In("free", g), In("free", g))
  BY <1>5, <1>12, ThenLeads
<1> QED BY <1>13 DEF c, Locked, Try

----------------------------------------------------------------------------
(* The programs of es8311_audio.c.                                            *)

LEMMA Lifted ==
    ASSUME NEW p, NEW m, NEW n,
           \/ Leads(Plain, p, m, n) \/ Leads(Once, p, m, n) \/ Leads(Twice, p, m, n)
    PROVE  Leads(Thrice, p, m, n)
BY Levels, MoreLeads

LEMMA StopsLead ==
    ASSUME NEW T, Plain \subseteq T, NEW m \in Mode
    PROVE  /\ Leads(T, StopPlayback, m, m)
           /\ Leads(T, StopCapture, m, m)
           /\ Leads(T, GoIdle, m, m)
<1>1. {"PlayingOff", "DacOff", "PlaybackDmaOff", "CapturingOff", "AdcOff", "DuplexDmaOff"}
        \subseteq Calm \ LockBound
  BY DEF Calm, FreeOnly, HeldOnly, LockBound
<1>2. /\ Leads(T, Do("PlayingOff"), m, m) /\ Leads(T, Do("DacOff"), m, m)
      /\ Leads(T, Do("PlaybackDmaOff"), m, m) /\ Leads(T, Do("CapturingOff"), m, m)
      /\ Leads(T, Do("AdcOff"), m, m) /\ Leads(T, Do("DuplexDmaOff"), m, m)
  BY <1>1, DoLeads
<1>3. Leads(T, StopPlayback, m, m) /\ Leads(T, StopCapture, m, m)
  BY <1>2, ThenLeads DEF StopPlayback, StopCapture
<1> QED BY <1>3, ThenLeads DEF GoIdle

\* Where an error is returned after a calm step.
LEMMA FailsLead ==
    ASSUME NEW T, Plain \subseteq T, NEW m \in Mode, m.guard = m.lock,
           NEW d \in Calm \ LockBound
    PROVE  Leads(T, Do(d) \o Do("Fail"), m, m)
<1>1. Leads(T, Do("Fail"), m, m)
  BY RiskLeads DEF Risky, FreeOnly, HeldOnly, LockBound
<1> QED BY <1>1, DoLeads, ThenLeads

\* A call of one risky step.
LEMMA RiskyTryLeads ==
    ASSUME NEW m \in Mode, NEW d \in Risky \ LockBound, NEW ok, NEW err,
           Leads(Plain, ok, m, m), Leads(Plain, err, m, m)
    PROVE  Leads(Once, Try(Do(d), ok, err), m, m)
<1>1. In(m.lock, m.lock) \in Mode /\ In(m.lock, m.lock).guard = In(m.lock, m.lock).lock
  BY ModeIs, InIs, ModeTyped
<1>2. Leads(Plain, Do(d), In(m.lock, m.lock), In(m.lock, m.lock))
  BY <1>1, RiskLeads
<1> QED BY <1>2, TryLeads DEF Once

LEMMA StartCallLeads ==
    ASSUME NEW m \in Mode, m.guard = m.lock
    PROVE  Leads(Once, StartCallDuplex, m, m)
<1>1. /\ {"CallCheck", "DacOn", "AdcOn", "DuplexDmaOn", "Fail"} \subseteq Risky \ LockBound
      /\ {"CallFlagsOn", "CallFlagsOff", "AdcOff", "DacOff"} \subseteq Calm \ LockBound
  BY DEF Risky, Calm, FreeOnly, HeldOnly, LockBound
<1>2. Plain \subseteq Plain /\ Plain \subseteq Once
  BY Levels
<1>3. /\ Leads(Once, Do("CallCheck"), m, m) /\ Leads(Once, Do("DacOn"), m, m)
      /\ Leads(Once, Do("CallFlagsOn"), m, m)
  BY <1>1, <1>2, RiskLeads, DoLeads
<1>4. /\ Leads(Plain, <<>>, m, m)
      /\ Leads(Plain, Do("DacOff") \o Do("Fail"), m, m)
      /\ Leads(Plain, Do("CallFlagsOff"), m, m) /\ Leads(Plain, Do("AdcOff"), m, m)
      /\ Leads(Plain, Do("DacOff"), m, m) /\ Leads(Plain, Do("Fail"), m, m)
  BY <1>1, <1>2, NothingLeads, FailsLead, DoLeads, RiskLeads
<1>5. Leads(Plain, Do("CallFlagsOff") \o Do("AdcOff") \o Do("DacOff") \o Do("Fail"), m, m)
  BY <1>4, ThenLeads
<1>6. /\ Leads(Once, Try(Do("AdcOn"), <<>>, Do("DacOff") \o Do("Fail")), m, m)
      /\ Leads(Once, Try(Do("DuplexDmaOn"), <<>>,
                Do("CallFlagsOff") \o Do("AdcOff") \o Do("DacOff") \o Do("Fail")), m, m)
  BY <1>1, <1>4, <1>5, RiskyTryLeads
<1> QED BY <1>3, <1>6, ThenLeads DEF StartCallDuplex

LEMMA ReconfigureLeads ==
    ASSUME NEW T, Plain \subseteq T, NEW rate \in Rates, NEW m \in Mode, m.guard = m.lock
    PROVE  Leads(T, With("Reconfigure", rate), m, m)
<1>1. [do |-> "Reconfigure", arg |-> rate] \in PlainStep
  BY DEF PlainStep
<1> QED BY <1>1, WithLeads DEF FreeOnly, HeldOnly, LockBound

LEMMA EnterModeLeads ==
    ASSUME NEW T, Plain \subseteq T, NEW rate \in Rates, NEW start,
           NEW m \in Mode, m.guard = m.lock, Leads(T, start, m, m)
    PROVE  Leads(T, EnterMode(rate, start), m, m)
BY StopsLead, ReconfigureLeads, ThenLeads DEF EnterMode

\* es8311_audio_i2s_reconfigure, once the I2S is switched.
LEMMA RateLeads ==
    ASSUME NEW m \in Mode, m.guard = m.lock, NEW rate \in Rates,
           NEW dma \in {"stopped", "playback", "duplex"}
    PROVE  Leads(Once, Try(Do("CodecRate") \o Do("SyncDac") \o Do("SyncAdc")
                             \o With("RestartDma", dma),
                           <<>>, With("RateBack", rate) \o Do("Fail")), m, m)
<1> DEFINE b == In(m.lock, m.lock)
<1>1. b \in Mode /\ b.guard = b.lock
  BY ModeIs, InIs, ModeTyped
<1>2. {"CodecRate", "SyncDac", "SyncAdc", "Fail"} \subseteq Risky \ LockBound
  BY DEF Risky, FreeOnly, HeldOnly, LockBound
<1>3. [do |-> "RestartDma", arg |-> dma] \in PlainStep
  BY DEF PlainStep
<1>4. [do |-> "RateBack", arg |-> rate] \in PlainStep
  BY DEF PlainStep
<1>5. ~MayFail([do |-> "RateBack", arg |-> rate])
  BY DEF MayFail, Risky, RiskyWith
<1> HIDE DEF b
<1>6. Leads(Plain, Do("CodecRate") \o Do("SyncDac") \o Do("SyncAdc")
                     \o With("RestartDma", dma), b, b)
  <2>1. Leads(Plain, With("RestartDma", dma), b, b)
    BY <1>1, <1>3, WithLeads DEF FreeOnly, HeldOnly, LockBound
  <2>2. /\ Leads(Plain, Do("CodecRate"), b, b) /\ Leads(Plain, Do("SyncDac"), b, b)
        /\ Leads(Plain, Do("SyncAdc"), b, b)
    BY <1>1, <1>2, RiskLeads
  <2> QED BY <2>1, <2>2, ThenLeads
<1>7. Leads(Plain, With("RateBack", rate) \o Do("Fail"), m, m)
  <2>1. Leads(Plain, With("RateBack", rate), m, m)
    BY <1>4, <1>5, WithLeads DEF FreeOnly, HeldOnly, LockBound
  <2>2. Leads(Plain, Do("Fail"), m, m)
    BY <1>2, RiskLeads
  <2> QED BY <2>1, <2>2, ThenLeads
<1>8. Leads(Plain, <<>>, m, m)
  BY NothingLeads
<1> QED BY <1>6, <1>7, <1>8, TryLeads DEF b, Once

----------------------------------------------------------------------------
(* The steps of es8311_audio.c.                                               *)

\* What the arguments of the steps are.
LEMMA Arguments ==
    ASSUME NEW r \in PlainStep
    PROVE  /\ r.do \in {"Reconfigure", "RateBack", "SetCallRate"} => r.arg \in Rates
           /\ r.do = "RestartDma" => r.arg \in {"stopped", "playback", "duplex"}
           /\ r.do = "SetRunMode" => r.arg \in {"idle", "playback", "capture", "duplex"}
           /\ r.do = "SetRenderer" => r.arg \in {"mixer", "hfp"}
           /\ r.do \in {"Activate", "StartSink", "Rollback", "WriteFrames"} => r.arg \in Sources
           /\ r.do \in {"Enable", "Allow", "SetCapturing", "SetVoice"} => r.arg \in BOOLEAN
           /\ r.do = "WaitQuiet" => r.arg \in Nat
BY DEF PlainStep, Bare, Calm, Risky

\* t goes on with a program of its mode, or its step returns an error in a mode
\* in which one is looked at.
GoesOn(t, m) ==
    \/ \E p : Go(t, p) /\ Leads(Thrice, p, m, m)
    \/ Raise(t) /\ m.guard = m.lock

LEMMA NothingFollows ==
    ASSUME NEW t, NEW m \in Mode, Go(t, <<>>)
    PROVE  GoesOn(t, m)
BY NothingLeads DEF GoesOn

\* Steps that only set the codec's paths.
LEMMA PathsGoOn ==
    ASSUME NEW t, NEW m \in Mode, Head(todo[t]) \in PlainStep, Fits(Head(todo[t]), m, m),
           DacOn(t) \/ DacOff(t) \/ AdcOn(t) \/ AdcOff(t) \/ CodecRate(t)
    PROVE  GoesOn(t, m)
<1>1. CASE Go(t, <<>>)
  BY <1>1, NothingFollows
<1>2. CASE CodecFails(t)
  <2>1. \/ Head(todo[t]).do \in {"DacOn", "AdcOn", "CodecRate"} /\ Raise(t)
        \/ Go(t, <<>>)
    BY <1>2 DEF DacOn, DacOff, AdcOn, AdcOff, CodecRate, CodecFails, At
  <2>2. CASE Go(t, <<>>)
    BY <2>2, NothingFollows
  <2>3. CASE Head(todo[t]).do \in {"DacOn", "AdcOn", "CodecRate"} /\ Raise(t)
    <3>1. m.guard = m.lock
      BY <2>3 DEF Fits, MayFail, Risky
    <3> QED BY <2>3, <3>1 DEF GoesOn
  <2> QED BY <2>1, <2>2, <2>3
<1> QED BY <1>1, <1>2 DEF DacOn, DacOff, AdcOn, AdcOff, CodecRate

\* Steps that only set flags and the DMA.
LEMMA FlagsGoOn ==
    ASSUME NEW t, NEW m \in Mode, Head(todo[t]) \in PlainStep, Fits(Head(todo[t]), m, m),
           \/ PlayingOff(t) \/ PlaybackDmaOff(t) \/ CapturingOff(t) \/ DuplexDmaOff(t)
           \/ CapturingOn(t) \/ DmaOff(t) \/ PlaybackDmaOn(t) \/ DuplexDmaOn(t)
           \/ CallCheck(t) \/ CallFlagsOn(t) \/ CallFlagsOff(t) \/ RateBack(t)
           \/ SetRenderer(t) \/ SetCallRate(t)
    PROVE  GoesOn(t, m)
<1>1. CASE Go(t, <<>>)
  BY <1>1, NothingFollows
<1>2. CASE ~Go(t, <<>>)
  <2>1. /\ Head(todo[t]).do \in {"PlaybackDmaOn", "DuplexDmaOn", "CallCheck", "SetRenderer"}
        /\ Raise(t)
    BY <1>2 DEF PlayingOff, PlaybackDmaOff, CapturingOff, DuplexDmaOff, CapturingOn, DmaOff,
       PlaybackDmaOn, DuplexDmaOn, DmaOn, CallCheck, CallFlagsOn, CallFlagsOff, RateBack,
       SetRenderer, SetCallRate, Set, Refuse, At
  <2>2. m.guard = m.lock
    BY <2>1 DEF Fits, MayFail, Risky, RiskyWith
  <2> QED BY <2>1, <2>2 DEF GoesOn
<1> QED BY <1>1, <1>2

\* A rate change, and what it does to the codec's paths and the DMA.
LEMMA RateGoesOn ==
    ASSUME NEW t, NEW m \in Mode, Head(todo[t]) \in PlainStep, Fits(Head(todo[t]), m, m),
           CoreTypeOK, Reconfigure(t) \/ SyncDac(t) \/ SyncAdc(t) \/ RestartDma(t)
    PROVE  GoesOn(t, m)
<1>1. Head(todo[t]).do \in {"Reconfigure", "SyncDac", "SyncAdc", "RestartDma"}
  BY DEF Reconfigure, SyncDac, SyncAdc, RestartDma, At
<1>2. m.guard = m.lock
  BY <1>1 DEF Fits, MayFail, Risky, RiskyWith
<1>3. CASE Go(t, <<>>)
  BY <1>3, NothingFollows
<1>4. CASE Reconfigure(t) /\ ~Go(t, <<>>)
  <2>1. /\ route.rate \in Rates /\ route.dma \in {"stopped", "playback", "duplex"}
        /\ Go(t, Try(Do("CodecRate") \o Do("SyncDac") \o Do("SyncAdc")
                       \o With("RestartDma", route.dma),
                     <<>>, With("RateBack", route.rate) \o Do("Fail")))
    BY <1>4 DEF Reconfigure, Keep, Set, CoreTypeOK
  <2>2. PICK rate \in Rates, dma \in {"stopped", "playback", "duplex"} :
          Go(t, Try(Do("CodecRate") \o Do("SyncDac") \o Do("SyncAdc")
                      \o With("RestartDma", dma), <<>>, With("RateBack", rate) \o Do("Fail")))
    BY <2>1
  <2> QED BY <2>2, <1>2, RateLeads, Lifted DEF GoesOn
<1>5. CASE SyncDac(t) \/ SyncAdc(t)
  <2>1. \E d \in {"DacOn", "DacOff", "AdcOn", "AdcOff"} : Go(t, Do(d))
    BY <1>5 DEF SyncDac, SyncAdc, Keep, Set
  <2>2. PICK d \in {"DacOn", "DacOff", "AdcOn", "AdcOff"} : Go(t, Do(d))
    BY <2>1
  <2>3. d \in (Risky \ LockBound) \union (Calm \ LockBound)
    BY DEF Risky, Calm, FreeOnly, HeldOnly, LockBound
  <2>4. Leads(Plain, Do(d), m, m)
    BY <2>3, <1>2, RiskLeads, DoLeads
  <2> QED BY <2>2, <2>4, Lifted DEF GoesOn
<1>6. CASE RestartDma(t)
  <2>1. Go(t, <<>>) \/ Go(t, Do("Fail"))
    BY <1>6 DEF RestartDma, Keep, Set
  <2>2. Leads(Plain, Do("Fail"), m, m)
    BY <1>2, RiskLeads DEF Risky, FreeOnly, HeldOnly, LockBound
  <2> QED BY <2>1, <2>2, <1>3, Lifted DEF GoesOn
<1> QED BY <1>3, <1>4, <1>5, <1>6

LEMMA PlaybackGoesOn ==
    ASSUME NEW t, NEW m \in Mode, Head(todo[t]) \in PlainStep, Fits(Head(todo[t]), m, m),
           StartPlayback(t) \/ ArmPlayback(t) \/ Notify(t)
    PROVE  GoesOn(t, m)
<1>1. Head(todo[t]).do \in {"StartPlayback", "ArmPlayback", "Notify"}
  BY DEF StartPlayback, ArmPlayback, Notify, At
<1>2. m.guard = m.lock
  BY <1>1 DEF Fits, MayFail, Risky
<1>3. CASE Go(t, <<>>)
  BY <1>3, NothingFollows
<1>4. CASE StartPlayback(t)
  <2>1. Leads(Plain, Do("ArmPlayback"), m, m)
    BY <1>2, RiskLeads DEF Risky, FreeOnly, HeldOnly, LockBound
  <2>2. Leads(Plain, StopCapture \o Do("ArmPlayback"), m, m)
    BY <2>1, StopsLead, ThenLeads
  <2>3. Leads(Plain, <<>> \o Do("ArmPlayback"), m, m)
    BY <2>1, NothingLeads, ThenLeads
  <2>4. Go(t, StopCapture \o Do("ArmPlayback")) \/ Go(t, <<>> \o Do("ArmPlayback"))
    BY <1>4 DEF StartPlayback, Keep, Set
  <2> QED BY <2>2, <2>3, <2>4, Lifted DEF GoesOn
<1>5. CASE (ArmPlayback(t) \/ Notify(t)) /\ ~Go(t, <<>>)
  <2>1. PICK d \in {"DacOn", "PlaybackDmaOn"} :
          Go(t, Try(Do(d), <<>>, Do("PlayingOff") \o Do("Fail")))
    BY <1>5 DEF ArmPlayback, Notify, Keep, Set
  <2>2. d \in Risky \ LockBound /\ "PlayingOff" \in Calm \ LockBound
    BY DEF Risky, Calm, FreeOnly, HeldOnly, LockBound
  <2>3. Leads(Once, Try(Do(d), <<>>, Do("PlayingOff") \o Do("Fail")), m, m)
    BY <1>2, <2>2, NothingLeads, FailsLead, RiskyTryLeads
  <2> QED BY <2>1, <2>3, Lifted DEF GoesOn
<1> QED BY <1>3, <1>4, <1>5

LEMMA CaptureGoesOn ==
    ASSUME NEW t, NEW m \in Mode, Head(todo[t]) \in PlainStep, Fits(Head(todo[t]), m, m),
           StartCapture(t)
    PROVE  GoesOn(t, m)
<1>1. m.guard = m.lock
  BY DEF StartCapture, At, Fits, MayFail, Risky
<1>2. CASE Raise(t)
  BY <1>1, <1>2 DEF GoesOn
<1>3. CASE ~Raise(t)
  <2> DEFINE on == Try(Do("AdcOn"), Do("CapturingOn"), Do("DmaOff") \o Do("Fail"))
  <2>1. Go(t, Do("DuplexDmaOn") \o on) \/ Go(t, <<>> \o on)
    BY <1>3 DEF StartCapture, Refuse, Keep, Set
  <2>2. /\ {"AdcOn", "DuplexDmaOn"} \subseteq Risky \ LockBound
        /\ {"CapturingOn", "DmaOff"} \subseteq Calm \ LockBound
        /\ Plain \subseteq Once
    BY Levels DEF Risky, Calm, FreeOnly, HeldOnly, LockBound
  <2>3. Leads(Once, on, m, m)
    BY <1>1, <2>2, DoLeads, FailsLead, RiskyTryLeads
  <2> HIDE DEF on
  <2>4. Leads(Once, Do("DuplexDmaOn"), m, m) /\ Leads(Once, <<>>, m, m)
    BY <1>1, <2>2, RiskLeads, NothingLeads
  <2>5. Leads(Once, Do("DuplexDmaOn") \o on, m, m) /\ Leads(Once, <<>> \o on, m, m)
    BY <2>3, <2>4, ThenLeads
  <2> QED BY <2>1, <2>5, Lifted DEF GoesOn
<1> QED BY <1>2, <1>3

LEMMA RunModeGoesOn ==
    ASSUME NEW t, NEW m \in Mode, Head(todo[t]) \in PlainStep, Fits(Head(todo[t]), m, m),
           CoreTypeOK, SetRunMode(t)
    PROVE  GoesOn(t, m)
<1>1. Head(todo[t]).do = "SetRunMode" /\ Arg(t) = Head(todo[t]).arg
  BY DEF SetRunMode, At, Arg
<1>2. Arg(t) # "idle" => m.guard = m.lock
  BY <1>1 DEF Fits, MayFail
<1>3. MusicRate \in Rates /\ route.callRate \in Rates
  BY DEF Rates, CoreTypeOK
<1>4. \/ Go(t, GoIdle) \/ Go(t, <<>>)
      \/ Arg(t) # "idle" /\ Go(t, EnterMode(MusicRate, Do("StartPlayback")))
      \/ Arg(t) # "idle" /\ Go(t, EnterMode(MusicRate, Do("StartCapture")))
      \/ Arg(t) # "idle" /\ Go(t, EnterMode(route.callRate, StartCallDuplex))
  BY DEF SetRunMode, Keep, Set
<1>5. Leads(Plain, GoIdle, m, m)
  BY StopsLead
<1>6. ASSUME m.guard = m.lock, NEW rate \in Rates
      PROVE  /\ Leads(Once, EnterMode(rate, Do("StartPlayback")), m, m)
             /\ Leads(Once, EnterMode(rate, Do("StartCapture")), m, m)
             /\ Leads(Once, EnterMode(rate, StartCallDuplex), m, m)
  <2>1. {"StartPlayback", "StartCapture"} \subseteq Risky \ LockBound /\ Plain \subseteq Once
    BY Levels DEF Risky, FreeOnly, HeldOnly, LockBound
  <2>2. /\ Leads(Once, Do("StartPlayback"), m, m)
        /\ Leads(Once, Do("StartCapture"), m, m)
        /\ Leads(Once, StartCallDuplex, m, m)
    BY <1>6, <2>1, RiskLeads, StartCallLeads
  <2> QED BY <1>6, <2>1, <2>2, EnterModeLeads
<1>7. CASE Arg(t) = "idle"
  BY <1>4, <1>5, <1>7, NothingFollows, Lifted DEF GoesOn
<1>8. CASE Arg(t) # "idle"
  <2>1. PICK rate \in Rates : route.callRate = rate
    BY <1>3
  <2>2. m.guard = m.lock
    BY <1>8, <1>2
  <2>3. \/ Go(t, GoIdle) \/ Go(t, <<>>)
        \/ Go(t, EnterMode(MusicRate, Do("StartPlayback")))
        \/ Go(t, EnterMode(MusicRate, Do("StartCapture")))
        \/ Go(t, EnterMode(rate, StartCallDuplex))
    BY <1>4, <2>1
  <2> QED BY <2>2, <2>3, <1>3, <1>5, <1>6, NothingFollows, Lifted DEF GoesOn
<1> QED BY <1>7, <1>8

LEMMA CoreGoesOn ==
    ASSUME NEW t, NEW m \in Mode, Head(todo[t]) \in PlainStep, Fits(Head(todo[t]), m, m),
           CoreTypeOK, CoreStep(t)
    PROVE  GoesOn(t, m)
BY PathsGoOn, FlagsGoOn, RateGoesOn, PlaybackGoesOn, CaptureGoesOn, RunModeGoesOn DEF CoreStep

\* The types of the core.
LEMMA CoreTyped ==
    ASSUME NEW t, Head(todo[t]) \in PlainStep, CoreTypeOK, CoreStep(t)
    PROVE  CoreTypeOK'
<1>1. CASE DacOn(t) \/ DacOff(t) \/ AdcOn(t) \/ AdcOff(t) \/ CodecRate(t)
  <2>1. CASE CodecFails(t)
    <3>1. faults + 1 \in 0 .. MaxFaults
      BY <2>1, FaultsAssumption DEF CodecFails, CoreTypeOK
    <3> QED BY <2>1, <3>1 DEF CodecFails, CoreTypeOK
  <2>2. CASE ~CodecFails(t)
    <3>1. route.rate \in Rates
      BY DEF CoreTypeOK
    <3>2. UNCHANGED <<route, faults>> /\ hw' \in [i2s : Rates, codec : Rates, dac : BOOLEAN, adc : BOOLEAN]
      BY <1>1, <2>2, <3>1 DEF DacOn, DacOff, AdcOn, AdcOff, CodecRate, CoreTypeOK
    <3> QED BY <3>2 DEF CoreTypeOK
  <2> QED BY <2>1, <2>2
<1>2. CASE \/ PlayingOff(t) \/ PlaybackDmaOff(t) \/ CapturingOff(t) \/ DuplexDmaOff(t)
           \/ CapturingOn(t) \/ DmaOff(t)
  BY <1>2 DEF CoreTypeOK, PlayingOff, PlaybackDmaOff, CapturingOff, DuplexDmaOff,
     CapturingOn, DmaOff, Set
<1>3. CASE PlaybackDmaOn(t) \/ DuplexDmaOn(t)
  BY <1>3 DEF CoreTypeOK, PlaybackDmaOn, DuplexDmaOn, DmaOn, Set, Refuse, coreVars
<1>4. CASE CallCheck(t) \/ CallFlagsOn(t) \/ CallFlagsOff(t)
  BY <1>4 DEF CoreTypeOK, CallCheck, CallFlagsOn, CallFlagsOff, Set, Refuse, coreVars
<1>5. CASE Reconfigure(t)
  <2>1. Arg(t) \in Rates
    BY <1>5, Arguments DEF Reconfigure, At, Arg
  <2> QED BY <1>5, <2>1 DEF CoreTypeOK, Reconfigure, Keep, Set
<1>6. CASE RateBack(t) \/ SetCallRate(t)
  <2>1. Arg(t) \in Rates
    BY <1>6, Arguments DEF RateBack, SetCallRate, At, Arg
  <2> QED BY <1>6, <2>1 DEF CoreTypeOK, RateBack, SetCallRate, Set
<1>7. CASE SetRenderer(t)
  <2>1. Arg(t) \in {"mixer", "hfp"}
    BY <1>7, Arguments DEF SetRenderer, At, Arg
  <2> QED BY <1>7, <2>1 DEF CoreTypeOK, SetRenderer, Set, Refuse, coreVars
<1>8. CASE RestartDma(t)
  <2>1. Arg(t) \in {"stopped", "playback", "duplex"}
    BY <1>8, Arguments DEF RestartDma, At, Arg
  <2> QED BY <1>8, <2>1 DEF CoreTypeOK, RestartDma, Keep, Set
<1>9. CASE SyncDac(t) \/ SyncAdc(t) \/ StartPlayback(t) \/ StartCapture(t) \/ SetRunMode(t)
  BY <1>9 DEF CoreTypeOK, SyncDac, SyncAdc, StartPlayback, StartCapture, SetRunMode,
     Keep, Set, Refuse, coreVars
<1>10. CASE ArmPlayback(t) \/ Notify(t)
  BY <1>10 DEF CoreTypeOK, ArmPlayback, Notify, Keep, Set
<1> QED BY <1>1, <1>2, <1>3, <1>4, <1>5, <1>6, <1>7, <1>8, <1>9, <1>10 DEF CoreStep

----------------------------------------------------------------------------
(* The programs of the mixer and of its users.                                *)

\* Arguments that are given in the text.
LEMMA WithFacts ==
    /\ \A s \in Sources, d \in {"Activate", "StartSink", "Rollback", "WriteFrames"} :
          [do |-> d, arg |-> s] \in PlainStep
    /\ \A S \in SUBSET Sources : [do |-> "Deactivate", arg |-> S] \in PlainStep
    /\ \A b \in BOOLEAN, d \in {"Enable", "Allow", "SetCapturing", "SetVoice"} :
          [do |-> d, arg |-> b] \in PlainStep
    /\ \A rate \in Rates : [do |-> "SetCallRate", arg |-> rate] \in PlainStep
    /\ \A rate \in Rates : [do |-> "Reconfigure", arg |-> rate] \in PlainStep
    /\ \A k \in Nat : [do |-> "WaitQuiet", arg |-> k] \in PlainStep
    /\ \A w \in {"idle", "playback", "capture", "duplex"} :
          [do |-> "SetRunMode", arg |-> w] \in PlainStep
    /\ \A w \in {"mixer", "hfp"} : [do |-> "SetRenderer", arg |-> w] \in PlainStep
BY DEF PlainStep

\* Those that never fail.
LEMMA SafeLeads ==
    ASSUME NEW T, Plain \subseteq T, NEW m \in Mode, NEW x,
           NEW d \in {"Rollback", "WriteFrames", "Deactivate", "Enable", "Allow",
                      "SetCapturing", "SetVoice", "SetCallRate", "WaitQuiet"},
           [do |-> d, arg |-> x] \in PlainStep,
           d \in FreeOnly => m.lock = "free", d \in HeldOnly => m.lock = "held"
    PROVE  Leads(T, With(d, x), m, m)
<1>1. ~MayFail([do |-> d, arg |-> x]) /\ d \notin {"Lock", "Unlock"}
  BY DEF MayFail, Risky, RiskyWith
<1> QED BY <1>1, WithLeads

LEMMA FlagLeads ==
    ASSUME NEW T, Plain \subseteq T, NEW m \in Mode, NEW b \in BOOLEAN,
           NEW d \in {"Enable", "Allow", "SetCapturing", "SetVoice"}
    PROVE  Leads(T, With(d, b), m, m)
<1>1. [do |-> d, arg |-> b] \in PlainStep
  BY WithFacts
<1> QED BY <1>1, SafeLeads DEF FreeOnly, HeldOnly, LockBound

LEMMA RunModeLeads ==
    ASSUME NEW T, Plain \subseteq T, NEW m \in Mode,
           NEW w \in {"idle", "playback", "capture", "duplex"},
           w # "idle" => m.guard = m.lock
    PROVE  Leads(T, With("SetRunMode", w), m, m)
<1>1. [do |-> "SetRunMode", arg |-> w] \in PlainStep
  BY WithFacts
<1>2. MayFail([do |-> "SetRunMode", arg |-> w]) => m.guard = m.lock
  BY DEF MayFail, Risky, RiskyWith
<1> QED BY <1>1, <1>2, WithLeads DEF FreeOnly, HeldOnly, LockBound

LEMMA RendererLeads ==
    ASSUME NEW T, Plain \subseteq T, NEW m \in Mode, m.guard = m.lock,
           NEW w \in {"mixer", "hfp"}
    PROVE  Leads(T, With("SetRenderer", w), m, m)
BY WithFacts, WithLeads DEF FreeOnly, HeldOnly, LockBound

LEMMA FreeLeads ==
    ASSUME NEW T, Plain \subseteq T, NEW m \in Mode, m.lock = "free"
    PROVE  /\ Leads(T, Do("ReadStream"), m, m)
           /\ m.guard = "free" => Leads(T, Do("WaitReplyDone"), m, m)
           /\ \A s \in Sources : Leads(T, With("WriteFrames", s), m, m)
           /\ \A k \in Nat : Leads(T, With("WaitQuiet", k), m, m)
<1>1. Leads(T, Do("ReadStream"), m, m)
  <2>1. [do |-> "ReadStream"] \in PlainStep
    BY DEF PlainStep, Bare, Calm
  <2>2. Fits([do |-> "ReadStream"], m, m)
    BY DEF Fits, MayFail, Risky, RiskyWith, HeldOnly
  <2> QED BY <2>1, <2>2, PlainLeads DEF Do
<1>2. ASSUME m.guard = "free" PROVE Leads(T, Do("WaitReplyDone"), m, m)
  <2>1. [do |-> "WaitReplyDone"] \in PlainStep
    BY DEF PlainStep, Bare, Risky
  <2>2. Fits([do |-> "WaitReplyDone"], m, m)
    BY <1>2 DEF Fits, HeldOnly
  <2> QED BY <2>1, <2>2, PlainLeads DEF Do
<1>3. \A s \in Sources : Leads(T, With("WriteFrames", s), m, m)
  BY WithFacts, SafeLeads DEF HeldOnly
<1>4. \A k \in Nat : Leads(T, With("WaitQuiet", k), m, m)
  BY WithFacts, SafeLeads DEF HeldOnly
<1> QED BY <1>1, <1>2, <1>3, <1>4

LEMMA FreeModes ==
    /\ In("free", "free") \in Mode /\ Done \in Mode
    /\ In("held", "held") \in Mode /\ In("held", "none") \in Mode
    /\ In("free", "free").lock = "free" /\ In("free", "free").guard = "free"
    /\ Done.lock = "free" /\ Done.guard = "none"
    /\ In("held", "held").lock = "held" /\ In("held", "held").guard = "held"
    /\ \A m \in Mode : m.lock = "free" => m = In("free", m.guard)
    /\ Sources \in SUBSET Sources /\ \A s \in Sources : {s} \in SUBSET Sources
BY DEF In, Done, Mode, Locks, Guards

LEMMA SessionsLead ==
    ASSUME NEW m \in Mode, m.lock = "free"
    PROVE  /\ \A s \in Sources : Leads(Once, SourceStop(s), m, m)
           /\ Leads(Once, StopAll, m, m)
           /\ Leads(Once, Locked(Do("NotifyIfReady")), m, m)
           /\ m.guard = "free" => \A s \in Sources : Leads(Once, SourceStart(s), m, m)
<1> DEFINE h == In("held", "none")
<1>1. /\ h \in Mode /\ h.lock = "held" /\ m = In("free", m.guard) /\ m.guard \in Guards
  BY FreeModes, ModeIs, InIs DEF In
<1>2. \A S \in SUBSET Sources : Leads(Plain, With("Deactivate", S), h, h)
  BY <1>1, WithFacts, SafeLeads DEF FreeOnly, HeldOnly, LockBound
<1>3. Leads(Plain, With("Deactivate", Sources) \o StopPlayback, h, h)
  BY <1>1, <1>2, FreeModes, StopsLead, ThenLeads
<1>4. Leads(Plain, Do("NotifyIfReady"), h, h)
  <2>1. [do |-> "NotifyIfReady"] \in PlainStep
    BY DEF PlainStep, Bare, Calm
  <2>2. Fits([do |-> "NotifyIfReady"], h, h)
    BY <1>1 DEF Fits, MayFail, Risky, RiskyWith, FreeOnly
  <2> QED BY <1>1, <2>1, <2>2, PlainLeads DEF Do
<1>5. \A p : Leads(Plain, p, h, h) => Leads(Once, Locked(p), m, m)
  BY <1>1, LockedLeads DEF Once
<1>6. \A s \in Sources : Leads(Once, SourceStop(s), m, m)
  BY <1>2, <1>5, FreeModes DEF SourceStop
<1>7. Leads(Once, StopAll, m, m) /\ Leads(Once, Locked(Do("NotifyIfReady")), m, m)
  BY <1>3, <1>4, <1>5 DEF StopAll
<1>8. ASSUME m.guard = "free", NEW s \in Sources
      PROVE  Leads(Once, SourceStart(s), m, m)
  <2> DEFINE k == In("held", "held")
  <2>1. k \in Mode /\ k.lock = "held" /\ k.guard = "held"
    BY FreeModes
  <2>2. Leads(Plain, With("Activate", s), k, k)
    BY <2>1, WithFacts, WithLeads DEF FreeOnly, HeldOnly, LockBound
  <2> QED BY <1>1, <1>8, <2>2, LockedLeads DEF Once, SourceStart
<1> QED BY <1>6, <1>7, <1>8

\* bt_a2dp_sink_app.c: arming the stream, the media gate.
LEMMA ArmLeads ==
    ASSUME NEW m \in Mode, m.lock = "free"
    PROVE  /\ Leads(Twice, Arm, m, m)
           /\ Leads(Thrice, Ignore(Arm), m, m)
<1>1. ASSUME NEW n \in Mode, n.lock = "free" PROVE Leads(Twice, Arm, n, n)
  <2>1. Leads(Once, SourceStart("background"), In(n.lock, n.lock), In(n.lock, n.lock))
    BY <1>1, FreeModes, SessionsLead DEF Sources
  <2>2. Leads(Once, With("Allow", TRUE), n, n) /\ Leads(Once, With("Allow", FALSE), n, n)
    BY Levels, FlagLeads
  <2> QED BY <2>1, <2>2, TryLeads DEF Arm, Twice
<1>2. Leads(Twice, Arm, In(m.lock, m.lock), In(m.lock, m.lock))
  BY <1>1, FreeModes
<1>3. Leads(Thrice, Ignore(Arm), m, m)
  BY <1>2, NothingLeads, TryLeads DEF Ignore, Thrice
<1> QED BY <1>1, <1>3

LEMMA GateLeads ==
    ASSUME NEW m \in Mode, m.lock = "free"
    PROVE  /\ Leads(Once, CloseGate, m, m)
           /\ \A T : Plain \subseteq T => Leads(T, OpenGate, m, m)
<1>1. Leads(Once, CloseGate, m, m)
  <2>1. /\ Leads(Once, With("Enable", FALSE), m, m)
        /\ Leads(Once, With("Allow", FALSE), m, m)
    BY Levels, FlagLeads
  <2>2. Leads(Once, SourceStop("background"), m, m)
    BY SessionsLead DEF Sources
  <2> QED BY <2>1, <2>2, ThenLeads DEF CloseGate
<1>2. ASSUME NEW T, Plain \subseteq T PROVE Leads(T, OpenGate, m, m)
  <2>1. Leads(T, With("Enable", TRUE), m, m) /\ Leads(T, Do("ReadStream"), m, m)
    BY <1>2, FlagLeads, FreeLeads
  <2> QED BY <2>1, ThenLeads DEF OpenGate
<1> QED BY <1>1, <1>2

\* A call of one step with an argument.
LEMMA TryWithLeads ==
    ASSUME NEW T, Plain \subseteq T, NEW m \in Mode, NEW d, NEW x, NEW ok, NEW err,
           [do |-> d, arg |-> x] \in PlainStep, d \notin LockBound \union {"Lock", "Unlock"},
           Leads(T, ok, m, m), Leads(T, err, m, m)
    PROVE  Leads(WithCalls(T), Try(With(d, x), ok, err), m, m)
<1>1. In(m.lock, m.lock) \in Mode /\ In(m.lock, m.lock).guard = In(m.lock, m.lock).lock
  BY ModeIs, InIs, ModeTyped
<1>2. Leads(T, With(d, x), In(m.lock, m.lock), In(m.lock, m.lock))
  BY <1>1, WithLeads DEF LockBound
<1> QED BY <1>2, TryLeads

\* bt_hfp_hf_app.c
LEMMA CallsLead ==
    ASSUME NEW m \in Mode
    PROVE  /\ \A rate \in Rates : Leads(Thrice, EnterCall(rate), m, m)
           /\ Leads(Twice, LeaveCall, m, m)
<1>1. /\ \A w \in {"mixer", "hfp"} : [do |-> "SetRenderer", arg |-> w] \in PlainStep
      /\ \A w \in {"playback", "duplex"} : [do |-> "SetRunMode", arg |-> w] \in PlainStep
      /\ {"SetRenderer", "SetRunMode"} \cap (LockBound \union {"Lock", "Unlock"}) = {}
  BY WithFacts DEF FreeOnly, HeldOnly, LockBound
<1>2. /\ Plain \subseteq Once /\ Plain \subseteq Twice /\ Plain \subseteq Thrice
      /\ \A T : Leads(T, <<>>, m, m)
  BY Levels, NothingLeads
<1>3. /\ Leads(Once, Ignore(With("SetRenderer", "mixer")), m, m)
      /\ Leads(Once, Ignore(With("SetRunMode", "playback")), m, m)
  BY <1>1, <1>2, TryWithLeads DEF Ignore, Once
<1>4. ASSUME NEW T, Plain \subseteq T PROVE Leads(T, With("SetRunMode", "idle"), m, m)
  BY <1>4, RunModeLeads
<1>5. Leads(Twice, Try(With("SetRunMode", "duplex"), <<>>,
                       Ignore(With("SetRenderer", "mixer"))
                         \o Ignore(With("SetRunMode", "playback"))), m, m)
  <2>1. Leads(Once, Ignore(With("SetRenderer", "mixer"))
                      \o Ignore(With("SetRunMode", "playback")), m, m)
    BY <1>3, ThenLeads
  <2> QED BY <2>1, <1>1, <1>2, TryWithLeads DEF Twice
<1>6. ASSUME NEW rate \in Rates PROVE Leads(Thrice, EnterCall(rate), m, m)
  <2>1. Leads(Twice, With("SetCallRate", rate), m, m)
    BY <1>2, WithFacts, SafeLeads DEF FreeOnly, HeldOnly, LockBound
  <2> DEFINE ok == With("SetCallRate", rate)
                     \o Try(With("SetRunMode", "duplex"), <<>>,
                            Ignore(With("SetRenderer", "mixer"))
                              \o Ignore(With("SetRunMode", "playback")))
  <2>2. Leads(Twice, ok, m, m)
    BY <2>1, <1>5, ThenLeads
  <2> HIDE DEF ok
  <2>3. Leads(Thrice, Try(With("SetRenderer", "hfp"), ok, <<>>), m, m)
    BY <2>2, <1>1, <1>2, TryWithLeads DEF Thrice
  <2>4. Leads(Thrice, With("SetRunMode", "idle"), m, m)
    BY <1>2, <1>4
  <2> QED BY <2>3, <2>4, ThenLeads DEF EnterCall, ok
<1>7. Leads(Twice, LeaveCall, m, m)
  <2>1. Leads(Twice, Try(With("SetRenderer", "mixer"),
                         Ignore(With("SetRunMode", "playback")), <<>>), m, m)
    BY <1>1, <1>2, <1>3, TryWithLeads DEF Twice
  <2> QED BY <2>1, <1>2, <1>4, ThenLeads DEF LeaveCall
<1> QED BY <1>6, <1>7

\* control_app.c, on the thread's own.
LEMMA TalkLeads == Leads(Twice, PttStart, Done, Done) /\ Leads(Plain, PttStop, Done, Done)
<1> DEFINE k == In("free", "free")
<1>1. /\ Done \in Mode /\ Done.lock = "free" /\ k \in Mode /\ k.lock = "free"
      /\ k.guard = "free" /\ k = In(Done.lock, Done.lock)
  BY FreeModes
<1>2. Plain \subseteq Once /\ Plain \subseteq Twice /\ Once \subseteq Twice
  BY Levels
<1>3. {"UartStop", "ReplyOn", "ReplyOff"} \subseteq Calm \ LockBound
  BY DEF Calm, FreeOnly, HeldOnly, LockBound
<1> HIDE DEF k
<1>4. Leads(Once, PttCapture, Done, Done)
  <2>1. Leads(Plain, Do("UartStop") \o OpenGate, Done, Done)
    BY <1>1, <1>3, DoLeads, GateLeads, ThenLeads
  <2>2. Leads(Plain, With("SetCapturing", TRUE), Done, Done)
    BY <1>1, FlagLeads
  <2>3. [do |-> "SetRunMode", arg |-> "capture"] \in PlainStep
    BY WithFacts
  <2>4. Leads(Once, Try(With("SetRunMode", "capture"), With("SetCapturing", TRUE),
                        Do("UartStop") \o OpenGate), Done, Done)
    BY <1>1, <2>1, <2>2, <2>3, TryWithLeads DEF Once, FreeOnly, HeldOnly, LockBound
  <2>5. Leads(Once, StopAll, Done, Done)
    BY <1>1, SessionsLead
  <2> QED BY <2>4, <2>5, ThenLeads DEF PttCapture
<1>5. Leads(Once, Do("WaitReplyDone") \o Do("UartStart"), k, k)
  <2>1. Leads(Once, Do("WaitReplyDone"), k, k)
    BY <1>1, <1>2, FreeLeads
  <2>2. Leads(Once, Do("UartStart"), k, k)
    BY <1>1, <1>2, RiskLeads DEF Risky, FreeOnly, HeldOnly, LockBound
  <2> QED BY <2>1, <2>2, ThenLeads
<1>6. Leads(Twice, Try(Do("WaitReplyDone") \o Do("UartStart"), PttCapture, OpenGate),
            Done, Done)
  <2>1. Leads(Once, OpenGate, Done, Done)
    BY <1>1, <1>2, GateLeads
  <2> QED BY <2>1, <1>1, <1>4, <1>5, TryLeads DEF Twice
<1>7. Leads(Twice, PttStart, Done, Done)
  <2>1. Leads(Twice, With("WaitQuiet", QuietRounds), Done, Done)
    BY <1>1, <1>2, RoundsAssumption, FreeLeads
  <2>2. Leads(Twice, CloseGate, Done, Done)
    BY <1>1, <1>2, GateLeads, MoreLeads
  <2>3. Leads(Twice, Do("ReplyOff"), Done, Done)
    BY <1>1, <1>2, <1>3, DoLeads
  <2> QED BY <2>1, <2>2, <2>3, <1>6, ThenLeads DEF PttStart
<1>8. Leads(Plain, PttStop, Done, Done)
  <2>1. /\ Leads(Plain, With("SetCapturing", FALSE), Done, Done)
        /\ Leads(Plain, StopCapture, Done, Done)
        /\ Leads(Plain, Do("UartStop"), Done, Done)
        /\ Leads(Plain, With("SetRunMode", "idle"), Done, Done)
        /\ Leads(Plain, OpenGate, Done, Done)
        /\ Leads(Plain, Do("ReplyOn"), Done, Done)
    BY <1>1, <1>3, FlagLeads, StopsLead, DoLeads, RunModeLeads, GateLeads
  <2> QED BY <2>1, ThenLeads DEF PttStop
<1> QED BY <1>7, <1>8

\* uart_send_pcm.c: the reply receiver.
LEMMA RepliesLead ==
    /\ Leads(Plain, Speak, Done, Done)
    /\ Leads(Once, Hush, Done, Done)
    /\ Leads(Twice, Try(SourceStart("voice"), With("SetVoice", TRUE) \o Speak, <<>>), Done, Done)
<1>1. /\ Done \in Mode /\ Done.lock = "free" /\ "voice" \in Sources
      /\ In("free", "free") \in Mode
      /\ In("free", "free").lock = "free" /\ In("free", "free").guard = "free"
  BY FreeModes DEF Sources
<1>2. Plain \subseteq Once /\ Plain \subseteq Twice
  BY Levels
<1>3. Leads(Plain, Speak, Done, Done) /\ Leads(Once, Speak, Done, Done)
  BY <1>1, <1>2, FreeLeads DEF Speak
<1>4. Leads(Once, Hush, Done, Done)
  BY <1>1, <1>2, SessionsLead, FlagLeads, ThenLeads DEF Hush
<1>5. Leads(Once, With("SetVoice", TRUE) \o Speak, Done, Done)
  BY <1>1, <1>2, <1>3, FlagLeads, ThenLeads
<1>6. Leads(Once, SourceStart("voice"), In("free", "free"), In("free", "free"))
  BY <1>1, SessionsLead
<1>7. Leads(Twice, Try(SourceStart("voice"), With("SetVoice", TRUE) \o Speak, <<>>), Done, Done)
  BY <1>1, <1>5, <1>6, NothingLeads, TryLeads DEF Twice
<1> QED BY <1>3, <1>4, <1>7

----------------------------------------------------------------------------
(* The steps of the mixer and of its users.                                   *)

LEMMA MixGoesOn ==
    ASSUME NEW t, NEW m \in Mode, Head(todo[t]) \in PlainStep, Fits(Head(todo[t]), m, m),
           MixStep(t)
    PROVE  GoesOn(t, m)
<1>1. Plain \subseteq Plain /\ Plain \subseteq Once /\ MusicRate \in Rates
  BY Levels DEF Rates
<1>2. CASE Go(t, <<>>)
  BY <1>2, NothingFollows
<1>3. CASE Activate(t)
  <2>1. m.guard = m.lock /\ m.lock = "held"
    BY <1>3 DEF Activate, At, Fits, MayFail, RiskyWith, HeldOnly
  <2>2. PICK s \in Sources : Arg(t) = s
    BY <1>3, Arguments DEF Activate, At, Arg
  <2>3. Leads(Plain, With("StartSink", s), m, m)
    BY <2>1, WithFacts, WithLeads DEF FreeOnly, HeldOnly, LockBound
  <2>4. Raise(t) \/ Go(t, With("StartSink", s))
    BY <1>3, <2>2 DEF Activate
  <2> QED BY <2>1, <2>3, <2>4, Lifted DEF GoesOn
<1>4. CASE StartSink(t) /\ ~Go(t, <<>>)
  <2>1. m.guard = m.lock /\ m.lock = "held"
    BY <1>4 DEF StartSink, At, Fits, MayFail, RiskyWith, HeldOnly
  <2>2. PICK s \in Sources : Arg(t) = s
    BY <1>4, Arguments DEF StartSink, At, Arg
  <2> DEFINE body == With("Reconfigure", MusicRate) \o Do("StartPlayback")
             err == With("Rollback", s) \o Do("Fail")
             b == In(m.lock, m.lock)
  <2>3. b \in Mode /\ b.guard = b.lock
    BY ModeIs, InIs, ModeTyped
  <2>4. Leads(Plain, body, b, b)
    <3> HIDE DEF b
    <3>1. "StartPlayback" \in Risky \ LockBound
      BY DEF Risky, FreeOnly, HeldOnly, LockBound
    <3>2. Leads(Plain, Do("StartPlayback"), b, b)
      BY <2>3, <3>1, RiskLeads
    <3>3. Leads(Plain, With("Reconfigure", MusicRate), b, b)
      BY <1>1, <2>3, ReconfigureLeads
    <3> QED BY <3>2, <3>3, ThenLeads
  <2>5. Leads(Plain, err, m, m)
    <3>1. Leads(Plain, With("Rollback", s), m, m)
      BY <2>1, WithFacts, SafeLeads DEF FreeOnly
    <3>2. Leads(Plain, Do("Fail"), m, m)
      BY <2>1, RiskLeads DEF Risky, FreeOnly, HeldOnly, LockBound
    <3> QED BY <3>1, <3>2, ThenLeads
  <2>6. Go(t, Try(body, <<>>, err))
    BY <1>4, <2>2 DEF StartSink
  <2> HIDE DEF body, err
  <2>7. Leads(Once, Try(body, <<>>, err), m, m)
    BY <2>4, <2>5, NothingLeads, TryLeads DEF Once
  <2> QED BY <2>6, <2>7, Lifted DEF GoesOn
<1>5. CASE Rollback(t)
  BY <1>2, <1>5 DEF Rollback
<1>6. CASE Deactivate(t)
  <2>1. Go(t, <<>>) \/ Go(t, StopPlayback)
    BY <1>6 DEF Deactivate
  <2> QED BY <2>1, <1>2, StopsLead, Lifted DEF GoesOn
<1>7. CASE WriteFrames(t)
  <2>1. m.lock = "free"
    BY <1>7 DEF WriteFrames, At, Fits, FreeOnly, HeldOnly, LockBound
  <2>2. Go(t, <<>>) \/ Go(t, Locked(Do("NotifyIfReady")))
    BY <1>7 DEF WriteFrames
  <2> QED BY <2>1, <2>2, <1>2, SessionsLead, Lifted DEF GoesOn
<1>8. CASE NotifyIfReady(t)
  <2>1. "Notify" \in Risky \ LockBound
    BY DEF Risky, FreeOnly, HeldOnly, LockBound
  <2>2. Leads(Once, Ignore(Do("Notify")), m, m)
    BY <2>1, NothingLeads, RiskyTryLeads DEF Ignore
  <2>3. Go(t, <<>>) \/ Go(t, Ignore(Do("Notify")))
    BY <1>8 DEF NotifyIfReady
  <2> QED BY <2>2, <2>3, <1>2, Lifted DEF GoesOn
<1> QED BY <1>2, <1>3, <1>4, <1>5, <1>6, <1>7, <1>8 DEF MixStep

LEMMA UserGoesOn ==
    ASSUME NEW t, NEW m \in Mode, Head(todo[t]) \in PlainStep, Fits(Head(todo[t]), m, m),
           UserStep(t)
    PROVE  GoesOn(t, m)
<1>1. CASE Go(t, <<>>)
  BY <1>1, NothingFollows
<1>2. CASE UartStart(t) \/ WaitReplyDone(t)
  <2>1. m.guard = m.lock
    BY <1>2 DEF UartStart, WaitReplyDone, At, Fits, MayFail, Risky
  <2>2. Go(t, <<>>) \/ Raise(t)
    BY <1>2 DEF UartStart, WaitReplyDone
  <2> QED BY <2>1, <2>2, <1>1 DEF GoesOn
<1>3. CASE ReadStream(t)
  <2>1. m.lock = "free"
    BY <1>3 DEF ReadStream, At, Fits, FreeOnly, HeldOnly, LockBound
  <2>2. Leads(Plain, With("Allow", FALSE), m, m)
    BY FlagLeads
  <2>3. Go(t, Ignore(Arm)) \/ Go(t, With("Allow", FALSE))
    BY <1>3 DEF ReadStream
  <2> QED BY <2>1, <2>2, <2>3, ArmLeads, Lifted DEF GoesOn
<1>4. CASE WaitQuiet(t)
  <2>1. m.lock = "free"
    BY <1>4 DEF WaitQuiet, At, Fits, FreeOnly, HeldOnly, LockBound
  <2>2. PICK k \in Nat : Arg(t) = k
    BY <1>4, Arguments DEF WaitQuiet, At, Arg
  <2>3. PICK p \in {<<>>, StopAll}, q \in {<<>>, With("WaitQuiet", k - 1)} :
          Go(t, p \o q) /\ (k = 0 => q = <<>>)
    BY <1>4, <2>2 DEF WaitQuiet
  <2>4. Leads(Once, p, m, m)
    BY <2>1, <2>3, SessionsLead, NothingLeads
  <2>5. Leads(Once, q, m, m)
    <3>1. CASE k = 0
      BY <2>3, <3>1, NothingLeads
    <3>2. CASE k # 0
      <4>1. k - 1 \in Nat
        BY <3>2
      <4> QED BY <4>1, <2>1, <2>3, Levels, FreeLeads, NothingLeads
    <3> QED BY <3>1, <3>2
  <2>6. Leads(Once, p \o q, m, m)
    BY <2>4, <2>5, ThenLeads
  <2> QED BY <2>3, <2>6, Lifted DEF GoesOn
<1>5. CASE \/ Enable(t) \/ Allow(t) \/ SetCapturing(t) \/ UartStop(t) \/ ReplyOn(t)
           \/ ReplyOff(t) \/ SetVoice(t) \/ CloseUart(t)
  BY <1>1, <1>5 DEF Enable, Allow, SetCapturing, UartStop, ReplyOn, ReplyOff, SetVoice,
     CloseUart, SetReply
<1> QED BY <1>2, <1>3, <1>4, <1>5 DEF UserStep

\* The types of the mixer's and the users' variables.
MixTyped == active \subseteq Sources /\ ready \subseteq active
UserTyped ==
    /\ a2dp \in [stream : BOOLEAN, enabled : BOOLEAN, allowed : BOOLEAN]
    /\ sco \in CallRates \union {"none"}
    /\ reply \in [enabled : BOOLEAN, done : BOOLEAN, open : BOOLEAN, voice : BOOLEAN]
    /\ ptt \in [held : BOOLEAN, capturing : BOOLEAN]

LEMMA MixStepTyped ==
    ASSUME NEW t, Head(todo[t]) \in PlainStep, MixTyped, MixStep(t)
    PROVE  MixTyped'
<1>1. CASE Activate(t)
  <2>1. Arg(t) \in Sources
    BY <1>1, Arguments DEF Activate, At, Arg
  <2> QED BY <1>1, <2>1 DEF MixTyped, Activate, mixVars
<1>2. CASE StartSink(t) \/ NotifyIfReady(t)
  BY <1>2 DEF MixTyped, StartSink, NotifyIfReady, mixVars
<1>3. CASE Rollback(t) \/ Deactivate(t)
  BY <1>3 DEF MixTyped, Rollback, Deactivate
<1>4. CASE WriteFrames(t)
  BY <1>4 DEF MixTyped, WriteFrames
<1> QED BY <1>1, <1>2, <1>3, <1>4 DEF MixStep

LEMMA UserStepTyped ==
    ASSUME NEW t, Head(todo[t]) \in PlainStep, UserTyped, UserStep(t)
    PROVE  UserTyped'
<1>1. CASE Enable(t) \/ Allow(t)
  <2>1. Arg(t) \in BOOLEAN
    BY <1>1, Arguments DEF Enable, Allow, At, Arg
  <2> QED BY <1>1, <2>1 DEF UserTyped, Enable, Allow
<1>2. CASE ReadStream(t) \/ WaitQuiet(t) \/ UartStart(t) \/ UartStop(t) \/ WaitReplyDone(t)
  BY <1>2 DEF UserTyped, ReadStream, WaitQuiet, UartStart, UartStop, WaitReplyDone, userVars
<1>3. CASE SetCapturing(t)
  <2>1. Arg(t) \in BOOLEAN
    BY <1>3, Arguments DEF SetCapturing, At, Arg
  <2> QED BY <1>3, <2>1 DEF UserTyped, SetCapturing
<1>4. CASE SetVoice(t)
  <2>1. Arg(t) \in BOOLEAN
    BY <1>4, Arguments DEF SetVoice, At, Arg
  <2> QED BY <1>4, <2>1 DEF UserTyped, SetVoice, SetReply
<1>5. CASE ReplyOn(t) \/ ReplyOff(t) \/ CloseUart(t)
  BY <1>5 DEF UserTyped, ReplyOn, ReplyOff, CloseUart, SetReply
<1> QED BY <1>1, <1>2, <1>3, <1>4, <1>5 DEF UserStep

----------------------------------------------------------------------------
(* Every step keeps the discipline.                                           *)

LEMMA AtStep ==
    ASSUME AllDisciplined, NEW t \in Thread, todo[t] # <<>>
    PROVE  \E m \in Mode, n \in Mode :
              /\ m.lock = LockOf(t)
              /\ <<Head(todo[t]), m, n>> \in Thrice
              /\ Leads(Thrice, Tail(todo[t]), n, Done)
<1>1. PICK g \in Guards : Leads(Thrice, todo[t], In(LockOf(t), g), Done)
  BY DEF AllDisciplined, Disciplined, LockOf
<1>2. In(LockOf(t), g) \in Mode /\ In(LockOf(t), g).lock = LockOf(t)
  BY DEF LockOf, In, Mode, Locks
<1> QED BY <1>1, <1>2, RestLeads

LEMMA TodoKeeps ==
    ASSUME AllDisciplined, NEW t \in Thread, NEW s, todo' = [todo EXCEPT ![t] = s],
           NEW m \in Mode, Leads(Thrice, s, m, Done), m.lock = LockOf(t)',
           \A u \in Thread \ {t} : LockOf(u)' = LockOf(u)
    PROVE  AllDisciplined'
<1>1. s \in Programs(Thrice)
  BY DEF Leads
<1>2. todo' \in [Thread -> Programs(Thrice)] /\ todo'[t] = s
      /\ \A u \in Thread \ {t} : todo'[u] = todo[u]
  BY <1>1 DEF AllDisciplined
<1>3. Disciplined(t)'
  <2>1. m = In(m.lock, m.guard) /\ m.guard \in Guards
    BY ModeIs
  <2>2. Leads(Thrice, todo'[t], In(LockOf(t)', m.guard), Done)
    BY <1>2, <2>1
  <2> QED BY <2>1, <2>2 DEF Disciplined, LockOf
<1>4. ASSUME NEW u \in Thread \ {t} PROVE Disciplined(u)'
  <2>1. PICK g \in Guards : Leads(Thrice, todo[u], In(LockOf(u), g), Done)
    BY DEF AllDisciplined, Disciplined, LockOf
  <2>2. Leads(Thrice, todo'[u], In(LockOf(u)', g), Done)
    BY <1>2, <2>1
  <2> QED BY <2>2 DEF Disciplined, LockOf
<1> QED BY <1>2, <1>3, <1>4 DEF AllDisciplined

\* A step that is not of the call's or the mutex's.
LEMMA PlainStepKeeps ==
    ASSUME AllDisciplined, NEW t \in Thread, todo[t] # <<>>, UNCHANGED mutex,
           Head(todo[t]).do \notin {"Call", "Return", "Lock", "Unlock"},
           \A m \in Mode : Head(todo[t]) \in PlainStep /\ Fits(Head(todo[t]), m, m)
                              => GoesOn(t, m)
    PROVE  AllDisciplined' /\ Head(todo[t]) \in PlainStep
<1>1. PICK m \in Mode, n \in Mode :
              /\ m.lock = LockOf(t)
              /\ <<Head(todo[t]), m, n>> \in Thrice
              /\ Leads(Thrice, Tail(todo[t]), n, Done)
  BY AtStep
<1>2. Head(todo[t]) \in PlainStep /\ Fits(Head(todo[t]), m, n)
  BY <1>1, StepFacts
<1>3. n = m
  BY <1>2 DEF Fits
<1>4. GoesOn(t, m)
  BY <1>2, <1>3
<1>5. \A u \in Thread : LockOf(u)' = LockOf(u)
  BY DEF LockOf
<1>6. CASE \E p : Go(t, p) /\ Leads(Thrice, p, m, m)
  <2>1. PICK p : Go(t, p) /\ Leads(Thrice, p, m, m)
    BY <1>6
  <2>2. Leads(Thrice, p \o Tail(todo[t]), m, Done)
    BY <2>1, <1>1, <1>3, ThenLeads
  <2>3. todo' = [todo EXCEPT ![t] = p \o Tail(todo[t])]
    BY <2>1 DEF Go
  <2> QED BY <2>2, <2>3, <1>1, <1>2, <1>5, TodoKeeps
<1>7. CASE Raise(t) /\ m.guard = m.lock
  <2>1. PICK g \in Guards : Leads(Thrice, Unwound(Tail(todo[t])), In(m.lock, g), Done)
    BY <1>1, <1>3, <1>7, ErrorIsCaught
  <2>2. In(m.lock, g) \in Mode /\ In(m.lock, g).lock = m.lock
    BY ModeIs, ModeTyped, InIs
  <2>3. todo' = [todo EXCEPT ![t] = Unwound(Tail(todo[t]))]
    BY <1>7 DEF Raise
  <2> QED BY <2>1, <2>2, <2>3, <1>1, <1>2, <1>5, TodoKeeps
<1> QED BY <1>4, <1>6, <1>7 DEF GoesOn

LEMMA MutexStepKeeps ==
    ASSUME AllDisciplined, NEW t \in Thread, mutex \in Thread \union {"none"},
           Lock(t) \/ Unlock(t)
    PROVE  AllDisciplined' /\ mutex' \in Thread \union {"none"}
<1>1. todo[t] # <<>> /\ Head(todo[t]).do \in {"Lock", "Unlock"}
  BY DEF Lock, Unlock, At
<1>2. PICK m \in Mode, n \in Mode :
              /\ m.lock = LockOf(t)
              /\ <<Head(todo[t]), m, n>> \in Thrice
              /\ Leads(Thrice, Tail(todo[t]), n, Done)
  BY <1>1, AtStep
<1>3. Fits(Head(todo[t]), m, n)
  BY <1>1, <1>2, StepFacts
<1>4. "none" \notin Thread
  BY ThreadAssumption
<1>5. Tail(todo[t]) \in Programs(Thrice) /\ <<>> \o Tail(todo[t]) = Tail(todo[t])
  <2>1. Tail(todo[t]) \in Programs(Thrice)
    BY <1>2 DEF Leads
  <2> QED BY <2>1, ConcatEmptySeq DEF Programs
<1>6. todo' = [todo EXCEPT ![t] = Tail(todo[t])]
  BY <1>5 DEF Lock, Unlock, Go
<1>7. n.lock = LockOf(t)' /\ \A u \in Thread \ {t} : LockOf(u)' = LockOf(u)
  <2>1. CASE Lock(t)
    BY <2>1, <1>2, <1>3, <1>4 DEF Lock, At, Fits, LockOf, Mode
  <2>2. CASE Unlock(t)
    BY <2>2, <1>2, <1>3, <1>4 DEF Unlock, At, Fits, LockOf, Mode
  <2> QED BY <2>1, <2>2
<1>8. mutex' \in Thread \union {"none"}
  BY DEF Lock, Unlock
<1> QED BY <1>2, <1>6, <1>7, <1>8, TodoKeeps

LEMMA CallStepKeeps ==
    ASSUME AllDisciplined, NEW t \in Thread, Call(t) \/ Return(t)
    PROVE  AllDisciplined'
<1>1. todo[t] # <<>> /\ Head(todo[t]).do \in {"Call", "Return"} /\ UNCHANGED mutex
  BY DEF Call, Return, At
<1>2. PICK m \in Mode, n \in Mode :
              /\ m.lock = LockOf(t)
              /\ <<Head(todo[t]), m, n>> \in Thrice
              /\ Leads(Thrice, Tail(todo[t]), n, Done)
  BY <1>1, AtStep
<1>3. \A u \in Thread : LockOf(u)' = LockOf(u)
  BY <1>1 DEF LockOf
<1> DEFINE c == Head(todo[t])
<1>4. CASE Call(t)
  <2>1. c.do = "Call"
    BY <1>4 DEF Call, At
  <2>2. /\ Catches(Twice, c, m, n)
        /\ c.body \in Programs(Twice) /\ c.ok \in Programs(Twice) /\ c.err \in Programs(Twice)
    BY <1>2, <2>1, StepFacts
  <2> DEFINE ret == [do |-> "Return", ok |-> c.ok, err |-> c.err]
  <2> HIDE DEF c
  <2>3. PICK g \in Guards :
          /\ Leads(Twice, c.body, In(m.lock, g), In(m.lock, g))
          /\ Returns(Twice, c.ok, c.err, In(m.lock, g), n)
    BY <2>2 DEF Catches
  <2>4. In(m.lock, g) \in Mode /\ In(m.lock, g).lock = m.lock
    BY ModeIs, ModeTyped, InIs
  <2>5. <<ret, In(m.lock, g), n>> \in Thrice
    BY <2>2, <2>3, <2>4, <1>2 DEF Thrice, WithCalls, ReturnsOf
  <2> HIDE DEF ret
  <2>6. Leads(Thrice, <<ret>>, In(m.lock, g), n)
    BY <2>4, <2>5, <1>2, StepLeads
  <2>7. Leads(Thrice, c.body, In(m.lock, g), In(m.lock, g))
    BY <2>3, Lifted
  <2>8. Append(c.body, ret) = c.body \o <<ret>>
    <3>1. c.body \in Seq({x[1] : x \in Thrice} \union {ret})
      BY <2>7, SeqMonotonic DEF Leads, Programs
    <3> QED BY <3>1, AppendIsConcat
  <2>9. Leads(Thrice, Append(c.body, ret) \o Tail(todo[t]), In(m.lock, g), Done)
    BY <2>6, <2>7, <2>8, <1>2, ThenLeads
  <2>10. todo' = [todo EXCEPT ![t] = Append(c.body, ret) \o Tail(todo[t])]
    BY <1>4 DEF Call, Go, c, ret
  <2> QED BY <2>4, <2>9, <2>10, <1>2, <1>3, TodoKeeps
<1>5. CASE Return(t)
  <2>1. c.do = "Return"
    BY <1>5 DEF Return, At
  <2>2. Returns(Twice, c.ok, c.err, m, n)
    BY <1>2, <2>1, StepFacts
  <2>3. Leads(Thrice, c.ok, In(m.lock, n.guard), n)
    BY <2>2, Lifted DEF Returns
  <2>4. In(m.lock, n.guard) \in Mode /\ In(m.lock, n.guard).lock = m.lock
    BY ModeIs, ModeTyped, InIs
  <2>5. Leads(Thrice, c.ok \o Tail(todo[t]), In(m.lock, n.guard), Done)
    BY <2>3, <1>2, ThenLeads
  <2>6. todo' = [todo EXCEPT ![t] = c.ok \o Tail(todo[t])]
    BY <1>5 DEF Return, Go
  <2> QED BY <2>4, <2>5, <2>6, <1>2, <1>3, TodoKeeps
<1> QED BY <1>4, <1>5

\* The steps by their names.
LEMMA StepNames ==
    ASSUME NEW t, Fail(t) \/ CoreStep(t) \/ MixStep(t) \/ UserStep(t)
    PROVE  todo[t] # <<>> /\ Head(todo[t]).do \notin {"Call", "Return", "Lock", "Unlock"}
<1>1. CASE Fail(t)
  BY <1>1 DEF Fail, At
<1>2. CASE CoreStep(t)
  BY <1>2 DEF CoreStep, DacOn, DacOff, AdcOn, AdcOff, CodecRate, PlayingOff, PlaybackDmaOff,
     CapturingOff, DuplexDmaOff, CapturingOn, DmaOff, PlaybackDmaOn, DuplexDmaOn, DmaOn,
     CallCheck, CallFlagsOn, CallFlagsOff, Reconfigure, SyncDac, SyncAdc, RestartDma, RateBack,
     StartPlayback, ArmPlayback, StartCapture, SetRunMode, SetRenderer, SetCallRate, Notify, At
<1>3. CASE MixStep(t)
  BY <1>3 DEF MixStep, Activate, StartSink, Rollback, Deactivate, WriteFrames, NotifyIfReady, At
<1>4. CASE UserStep(t)
  BY <1>4 DEF UserStep, Enable, Allow, ReadStream, WaitQuiet, SetCapturing, UartStart,
     UartStop, ReplyOn, ReplyOff, WaitReplyDone, SetVoice, CloseUart, At
<1> QED BY <1>1, <1>2, <1>3, <1>4

----------------------------------------------------------------------------
(* Events.                                                                    *)

\* Who waits for an event does not own the mutex.
LEMMA IdleIsFree ==
    ASSUME AllDisciplined, NEW t \in Thread, Idle(t)
    PROVE  mutex # t
<1>1. PICK g \in Guards : Leads(Thrice, <<>>, In(LockOf(t), g), Done)
  BY DEF AllDisciplined, Disciplined, Idle
<1>2. PICK f \in [1 .. Len(<<>>) + 1 -> Mode] :
          f[1] = In(LockOf(t), g) /\ f[Len(<<>>) + 1] = Done
  BY <1>1 DEF Leads
<1>3. In(LockOf(t), g) = Done
  BY <1>2
<1> QED BY <1>3 DEF In, Done, LockOf

LEMMA BeginKeeps ==
    ASSUME AllDisciplined, NEW t \in Thread, NEW p, Begin(t, p), UNCHANGED mutex,
           Leads(Thrice, p, Done, Done)
    PROVE  AllDisciplined'
<1>1. Done \in Mode /\ Done.lock = LockOf(t)'
  BY IdleIsFree, FreeModes DEF Begin, LockOf
<1>2. todo' = [todo EXCEPT ![t] = p] /\ \A u \in Thread \ {t} : LockOf(u)' = LockOf(u)
  BY DEF Begin, LockOf
<1> QED BY <1>1, <1>2, TodoKeeps

\* Nobody begins or takes the mutex.
LEMMA NobodyBegins ==
    ASSUME AllDisciplined, UNCHANGED <<todo, mutex>>
    PROVE  AllDisciplined'
BY DEF AllDisciplined, Disciplined, LockOf

LEMMA EventKeeps ==
    ASSUME AllDisciplined, UserTyped, UNCHANGED mutex, BtEvent \/ RxEvent \/ CtlEvent
    PROVE  AllDisciplined' /\ UserTyped'
<1>1. {"bt", "rx", "ctl"} \subseteq Thread /\ Done \in Mode /\ Done.lock = "free"
      /\ Plain \subseteq Once /\ "background" \in Sources
  BY ThreadAssumption, FreeModes, Levels DEF Sources
<1>2. CASE StreamStarted \/ StreamEnded \/ MediaPacket
  <2>1. Leads(Thrice, Arm, Done, Done)
    BY <1>1, ArmLeads, Lifted
  <2>2. Leads(Thrice, With("Allow", FALSE), Done, Done)
    BY <1>1, FlagLeads, Lifted
  <2>3. Leads(Thrice, SourceStop("background"), Done, Done)
    BY <1>1, SessionsLead, Lifted
  <2>4. Leads(Thrice, With("WriteFrames", "background"), Done, Done)
    BY <1>1, FreeLeads, Lifted
  <2>5. \E p : Begin("bt", p) /\ Leads(Thrice, p, Done, Done)
    BY <1>2, <2>1, <2>2, <2>3, <2>4 DEF StreamStarted, StreamEnded, MediaPacket
  <2>6. UserTyped'
    BY <1>2 DEF StreamStarted, StreamEnded, MediaPacket, UserTyped, userVars
  <2> QED BY <1>1, <2>5, <2>6, BeginKeeps
<1>3. CASE (\E rate \in CallRates : ScoEstablished(rate)) \/ ScoReleased
  <2>1. \A rate \in CallRates : Leads(Thrice, EnterCall(rate), Done, Done)
    BY <1>1, CallsLead DEF Rates
  <2>2. Leads(Thrice, LeaveCall, Done, Done)
    BY <1>1, CallsLead, Lifted
  <2>3. \E p : Begin("bt", p) /\ Leads(Thrice, p, Done, Done)
    BY <1>3, <2>1, <2>2 DEF ScoEstablished, ScoReleased
  <2>4. UserTyped'
    BY <1>3 DEF ScoEstablished, ScoReleased, UserTyped
  <2> QED BY <1>1, <2>3, <2>4, BeginKeeps
<1>4. CASE CtlEvent
  <2>1. /\ Leads(Thrice, PttStart, Done, Done) /\ Leads(Thrice, PttStop, Done, Done)
        /\ Leads(Thrice, <<>>, Done, Done)
    BY <1>1, TalkLeads, NothingLeads, Lifted
  <2>2. \E p : Begin("ctl", p) /\ Leads(Thrice, p, Done, Done)
    BY <1>4, <2>1 DEF CtlEvent, Press, Release
  <2>3. UserTyped'
    BY <1>4 DEF CtlEvent, Press, Release, UserTyped
  <2> QED BY <1>1, <2>2, <2>3, BeginKeeps
<1>5. CASE ReplyPark \/ ReplyOpen
  <2>1. UserTyped'
    BY <1>5 DEF ReplyPark, ReplyOpen, UserTyped
  <2> QED BY <2>1, <1>5, NobodyBegins DEF ReplyPark, ReplyOpen
<1>6. CASE ReplyData \/ ReplyIdle \/ ReplyClose
  <2>1. /\ Leads(Thrice, Speak, Done, Done) /\ Leads(Thrice, Hush, Done, Done)
        /\ Leads(Thrice, Try(SourceStart("voice"), With("SetVoice", TRUE) \o Speak, <<>>),
                 Done, Done)
    BY RepliesLead, Lifted
  <2>2. /\ Leads(Thrice, Hush \o Do("CloseUart"), Done, Done)
        /\ Leads(Thrice, <<>> \o Do("CloseUart"), Done, Done)
    <3>1. "CloseUart" \in Calm \ LockBound
      BY DEF Calm, FreeOnly, HeldOnly, LockBound
    <3>2. Leads(Thrice, Do("CloseUart"), Done, Done)
      BY <1>1, <3>1, DoLeads, Lifted
    <3>3. Leads(Thrice, <<>>, Done, Done)
      BY <1>1, NothingLeads
    <3> QED BY <2>1, <3>2, <3>3, ThenLeads
  <2>3. \E p : Begin("rx", p) /\ Leads(Thrice, p, Done, Done)
    BY <1>6, <2>1, <2>2 DEF ReplyData, ReplyIdle, ReplyClose
  <2>4. UserTyped'
    BY <1>6 DEF ReplyData, ReplyIdle, ReplyClose, UserTyped, userVars
  <2> QED BY <1>1, <2>3, <2>4, BeginKeeps
<1> QED BY <1>2, <1>3, <1>4, <1>5, <1>6 DEF BtEvent, RxEvent

----------------------------------------------------------------------------
(* The theorems.                                                              *)

LEMMA TypeParts == TypeOK <=> CoreTypeOK /\ mutex \in Thread \union {"none"} /\ MixTyped /\ UserTyped
BY DEF TypeOK, MixTyped, UserTyped

LEMMA InvNext ==
    ASSUME AllDisciplined', CoreTypeOK', mutex' \in Thread \union {"none"},
           MixTyped', UserTyped'
    PROVE  IInv'
BY DEF IInv, TypeOK, MixTyped, UserTyped

LEMMA InitInv == Init => IInv
<1> SUFFICES ASSUME Init PROVE IInv
  OBVIOUS
<1>1. TypeOK
  <2>1. 0 \in 0 .. MaxFaults /\ MusicRate \in Rates
    BY FaultsAssumption DEF Rates
  <2>2. CoreTypeOK
    BY <2>1 DEF Init, CoreInit, CoreTypeOK
  <2>3. MixTyped /\ UserTyped /\ mutex \in Thread \union {"none"}
    BY UsersAssumption DEF Init, MixTyped, UserTyped
  <2> QED BY <2>2, <2>3, TypeParts
<1>2. AllDisciplined
  <2>1. Done \in Mode /\ "none" \notin Thread
    BY FreeModes, ThreadAssumption
  <2>2. Leads(Thrice, <<>>, Done, Done)
    BY <2>1, NothingLeads
  <2>3. \A t \in Thread : todo[t] = <<>> /\ LockOf(t) = "free"
    BY <2>1 DEF Init, LockOf
  <2>4. <<>> \in Programs(Thrice) /\ "none" \in Guards
    BY <2>2 DEF Leads, Guards
  <2> QED BY <2>2, <2>3, <2>4 DEF AllDisciplined, Disciplined, Init, Done
<1> QED BY <1>1, <1>2 DEF IInv

LEMMA StepInv ==
    ASSUME IInv, NEW t \in Thread, Step(t)
    PROVE  IInv'
<1>1. AllDisciplined /\ CoreTypeOK /\ mutex \in Thread \union {"none"} /\ MixTyped /\ UserTyped
  BY TypeParts DEF IInv
<1>2. CASE (Lock(t) \/ Unlock(t)) /\ UNCHANGED <<coreVars, mixVars, userVars>>
  <2>1. AllDisciplined' /\ mutex' \in Thread \union {"none"}
    BY <1>1, <1>2, MutexStepKeeps
  <2>2. CoreTypeOK' /\ MixTyped' /\ UserTyped'
    BY <1>1, <1>2 DEF CoreTypeOK, MixTyped, UserTyped, coreVars, mixVars, userVars
  <2> QED BY <2>1, <2>2, InvNext
<1>3. CASE (Call(t) \/ Return(t)) /\ UNCHANGED <<coreVars, mixVars, userVars>>
  <2>1. AllDisciplined' /\ mutex' = mutex
    BY <1>1, <1>3, CallStepKeeps DEF Call, Return
  <2>2. CoreTypeOK' /\ MixTyped' /\ UserTyped'
    BY <1>1, <1>3 DEF CoreTypeOK, MixTyped, UserTyped, coreVars, mixVars, userVars
  <2> QED BY <1>1, <2>1, <2>2, InvNext
<1>4. CASE Fail(t) /\ UNCHANGED <<coreVars, mixVars, userVars>>
  <2>1. \A m \in Mode : Fits(Head(todo[t]), m, m) => GoesOn(t, m)
    BY <1>4 DEF Fail, At, Fits, MayFail, Risky, GoesOn
  <2>2. AllDisciplined' /\ mutex' = mutex
    BY <1>1, <1>4, <2>1, StepNames, PlainStepKeeps DEF Fail
  <2>3. CoreTypeOK' /\ MixTyped' /\ UserTyped'
    BY <1>1, <1>4 DEF CoreTypeOK, MixTyped, UserTyped, coreVars, mixVars, userVars
  <2> QED BY <1>1, <2>2, <2>3, InvNext
<1>5. CASE CoreStep(t) /\ UNCHANGED <<mutex, mixVars, userVars>>
  <2>1. AllDisciplined' /\ Head(todo[t]) \in PlainStep
    BY <1>1, <1>5, StepNames, CoreGoesOn, PlainStepKeeps
  <2>2. CoreTypeOK'
    BY <1>1, <1>5, <2>1, CoreTyped
  <2>3. MixTyped' /\ UserTyped' /\ mutex' = mutex
    BY <1>1, <1>5 DEF MixTyped, UserTyped, mixVars, userVars
  <2> QED BY <1>1, <2>1, <2>2, <2>3, InvNext
<1>6. CASE MixStep(t) /\ UNCHANGED <<coreVars, userVars>>
  <2>1. UNCHANGED mutex
    BY <1>6 DEF MixStep
  <2>2. AllDisciplined' /\ Head(todo[t]) \in PlainStep
    BY <1>1, <1>6, <2>1, StepNames, MixGoesOn, PlainStepKeeps
  <2>3. MixTyped'
    BY <1>1, <1>6, <2>2, MixStepTyped
  <2>4. CoreTypeOK' /\ UserTyped'
    BY <1>1, <1>6 DEF CoreTypeOK, UserTyped, coreVars, userVars
  <2> QED BY <1>1, <2>1, <2>2, <2>3, <2>4, InvNext
<1>7. CASE UserStep(t) /\ UNCHANGED <<coreVars, mixVars>>
  <2>1. UNCHANGED mutex
    BY <1>7 DEF UserStep
  <2>2. AllDisciplined' /\ Head(todo[t]) \in PlainStep
    BY <1>1, <1>7, <2>1, StepNames, UserGoesOn, PlainStepKeeps
  <2>3. UserTyped'
    BY <1>1, <1>7, <2>2, UserStepTyped
  <2>4. CoreTypeOK' /\ MixTyped'
    BY <1>1, <1>7 DEF CoreTypeOK, MixTyped, coreVars, mixVars
  <2> QED BY <1>1, <2>1, <2>2, <2>3, <2>4, InvNext
<1> QED BY <1>2, <1>3, <1>4, <1>5, <1>6, <1>7 DEF Step

LEMMA NextInv == IInv /\ [Next]_vars => IInv'
<1> SUFFICES ASSUME IInv, [Next]_vars PROVE IInv'
  OBVIOUS
<1>1. AllDisciplined /\ CoreTypeOK /\ mutex \in Thread \union {"none"} /\ MixTyped /\ UserTyped
  BY TypeParts DEF IInv
<1>2. CASE \E t \in Thread : Step(t)
  BY <1>2, StepInv
<1>3. CASE Event("bt", BtEvent) \/ Event("rx", RxEvent) \/ Event("ctl", CtlEvent)
  <2>1. (BtEvent \/ RxEvent \/ CtlEvent) /\ UNCHANGED <<mutex, coreVars, mixVars>>
    BY <1>3 DEF Event
  <2>2. AllDisciplined' /\ UserTyped'
    BY <1>1, <2>1, EventKeeps
  <2>3. CoreTypeOK' /\ MixTyped' /\ mutex' = mutex
    BY <1>1, <2>1 DEF CoreTypeOK, MixTyped, coreVars, mixVars
  <2> QED BY <1>1, <2>2, <2>3, InvNext
<1>4. CASE Render /\ UNCHANGED <<coreVars, userVars>>
  <2>1. AllDisciplined'
    BY <1>1, <1>4, NobodyBegins DEF Render
  <2>2. CoreTypeOK' /\ UserTyped' /\ mutex' = mutex
    BY <1>1, <1>4 DEF CoreTypeOK, UserTyped, coreVars, userVars, Render
  <2>3. MixTyped'
    BY <1>1, <1>4 DEF MixTyped, Render
  <2> QED BY <1>1, <2>1, <2>2, <2>3, InvNext
<1>5. CASE UNCHANGED vars
  <2>1. AllDisciplined'
    BY <1>1, <1>5, NobodyBegins DEF vars
  <2>2. TypeOK'
    BY <1>5 DEF IInv, TypeOK, CoreTypeOK, vars
  <2> QED BY <2>1, <2>2 DEF IInv
<1> QED BY <1>2, <1>3, <1>4, <1>5 DEF Next

LEMMA Invariance == Spec => []IInv
BY InitInv, NextInv, PTL DEF Spec

\* The type invariant holds for every choice of rates, failures and priorities.
THEOREM TypeCorrect == Spec => []TypeOK
<1>1. IInv => TypeOK
  BY DEF IInv
<1> QED BY <1>1, Invariance, PTL

\* Whoever holds the mixer's mutex has a step to take that is neither the wait
\* for it nor the wait for another thread, and does not come to its end with it
\* (audio_mixer_source_start and the other users of g_mixer_session_mutex).
THEOREM OwnerIsOnItsWay == Spec => []OwnerMovesOn
<1>1. IInv => OwnerMovesOn
  <2> SUFFICES ASSUME IInv, mutex # "none"
               PROVE  ~Idle(mutex) /\ ~At(mutex, "Lock") /\ ~At(mutex, "WaitReplyDone")
    BY DEF OwnerMovesOn
  <2>1. AllDisciplined /\ mutex \in Thread
    BY TypeParts DEF IInv
  <2>2. PICK t \in Thread : t = mutex
    BY <2>1
  <2>3. ~Idle(t)
    BY <2>1, <2>2, IdleIsFree
  <2>4. PICK m \in Mode, n \in Mode :
              m.lock = LockOf(t) /\ <<Head(todo[t]), m, n>> \in Thrice
    BY <2>1, <2>3, AtStep DEF Idle
  <2>5. m.lock = "held"
    BY <2>2, <2>4 DEF LockOf
  <2>6. Head(todo[t]).do \in {"Lock", "WaitReplyDone"} => m.lock = "free"
    BY <2>4, StepFacts DEF Fits, FreeOnly, HeldOnly, LockBound
  <2> QED BY <2>2, <2>3, <2>5, <2>6 DEF At
<1> QED BY <1>1, Invariance, PTL

\* Nobody is about to change the mixer's sessions, to start or stop the sink for
\* them, or to release the mutex, but the mutex's owner.
SessionsUnderMutex ==
    \A t \in Thread :
        todo[t] # <<>> /\ Head(todo[t]).do \in HeldOnly \union {"Unlock"} => mutex = t

LEMMA HeldByOwner == IInv => SessionsUnderMutex
<1> SUFFICES ASSUME IInv, NEW t \in Thread, todo[t] # <<>>,
                    Head(todo[t]).do \in HeldOnly \union {"Unlock"}
             PROVE  mutex = t
  BY DEF SessionsUnderMutex
<1>1. PICK m \in Mode, n \in Mode :
            m.lock = LockOf(t) /\ <<Head(todo[t]), m, n>> \in Thrice
  BY AtStep DEF IInv
<1>2. m.lock = "held"
  BY <1>1, StepFacts DEF Fits, HeldOnly
<1> QED BY <1>1, <1>2 DEF LockOf

\* The state of the mixer's sessions is only worked on, and the mutex only
\* released, by its owner, on every path of the code with all its error returns.
THEOREM SessionsAreLocked == Spec => []SessionsUnderMutex
BY HeldByOwner, Invariance, PTL

\* So every change of the set of sessions is a step of the mutex's owner: a start
\* on one thread and a stop on another never interleave inside a session change.
THEOREM OwnerChangesSessions ==
    Spec => [][active' # active => \E t \in Thread : mutex = t /\ Step(t)]_vars
<1>1. IInv /\ [Next]_vars => (active' # active => \E t \in Thread : mutex = t /\ Step(t))
  <2> SUFFICES ASSUME IInv, [Next]_vars, active' # active
               PROVE  \E t \in Thread : mutex = t /\ Step(t)
    OBVIOUS
  <2>1. PICK t \in Thread : Step(t)
    BY DEF Next, Event, Render, mixVars, vars
  <2>2. MixStep(t)
    BY <2>1 DEF Step, mixVars
  <2>3. todo[t] # <<>> /\ Head(todo[t]).do \in HeldOnly
    BY <2>2 DEF MixStep, Activate, StartSink, Rollback, Deactivate, WriteFrames,
                NotifyIfReady, mixVars, At, HeldOnly
  <2> QED BY <2>1, <2>3, HeldByOwner DEF SessionsUnderMutex
<1> QED BY <1>1, Invariance, PTL DEF Spec

\* A step that may return an error is inside a call that looks at the result.
ErrorsHaveACaller ==
    \A t \in Thread :
        todo[t] # <<>> /\ MayFail(Head(todo[t])) =>
            \E i \in 1 .. Len(Tail(todo[t])) : Tail(todo[t])[i].do = "Return"

\* No error return is lost at the bottom of a thread (es8311_audio.c's results).
THEOREM ErrorsAreLookedAt == Spec => []ErrorsHaveACaller
<1>1. IInv => ErrorsHaveACaller
  <2> SUFFICES ASSUME IInv, NEW t \in Thread, todo[t] # <<>>, MayFail(Head(todo[t]))
               PROVE  \E i \in 1 .. Len(Tail(todo[t])) : Tail(todo[t])[i].do = "Return"
    BY DEF ErrorsHaveACaller
  <2>1. PICK m \in Mode, n \in Mode :
              <<Head(todo[t]), m, n>> \in Thrice /\ Leads(Thrice, Tail(todo[t]), n, Done)
    BY AtStep DEF IInv
  <2>2. Head(todo[t]).do \notin {"Call", "Return", "Lock", "Unlock"}
    BY DEF MayFail, Risky, RiskyWith
  <2>3. n = m /\ m.guard = m.lock
    BY <2>1, <2>2, StepFacts DEF Fits
  <2> QED BY <2>1, <2>3, ErrorIsCaught
<1> QED BY <1>1, Invariance, PTL
=============================================================================
