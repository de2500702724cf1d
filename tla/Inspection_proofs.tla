-------------------------- MODULE Inspection_proofs --------------------------
(***************************************************************************)
(* Proofs about Inspection and what it is made of, for every request,      *)
(* chain of detectors and policy: the passes over a string and the walk    *)
(* over a payload (Redaction), the choice of the primary detection, the    *)
(* BOLA detector (Bola), and the events that come out of them.             *)
(*                                                                         *)
(* Recursive functions are dealt with in three steps: a function that      *)
(* satisfies the equation is shown to exist, so the one that is defined    *)
(* satisfies it, and then a least counterexample (LeastNumber) refutes     *)
(* what is claimed of it.                                                  *)
(***************************************************************************)
EXTENDS Inspection, SequenceTheorems, FiniteSetTheorems, WellFoundedInduction,
        TLAPS

-----------------------------------------------------------------------------
(* Numbers and sequences                                                   *)

(* The order of the natural numbers, as a set of pairs.                    *)
Below == {p \in Nat \X Nat : p[1] < p[2]}

(* It is well founded.                                                     *)
LEMMA BelowIsWellFounded == IsWellFoundedOn(Below, Nat)
<1>1. Below = OpToRel(<, Nat)
  BY Zenon DEF OpToRel, Below
<1>2. QED
  BY <1>1, NatLessThanWellFounded, Zenon

(* A set of numbers that is not empty has a least one, which is what the   *)
(* proofs below put in the place of inductions.                            *)
LEMMA LeastNumber ==
    ASSUME NEW T \in SUBSET Nat, T # {}
    PROVE  \E n \in T : \A m \in T : n <= m
<1>1. PICK n \in T : \A m \in T : <<m, n>> \notin Below
  BY BelowIsWellFounded, WFMin
<1>2. ASSUME NEW m \in T PROVE n <= m
  <2>1. n \in Nat /\ m \in Nat /\ <<m, n>> \notin Below
    BY <1>1
  <2>2. QED
    BY <2>1 DEF Below
<1>3. QED
  BY <1>2

(* A set of numbers with 0 in it and the successor of each has them all.   *)
LEMMA SetInduction ==
    ASSUME NEW T \in SUBSET Nat, 0 \in T, \A n \in T : n + 1 \in T
    PROVE  T = Nat
<1>1. SUFFICES ASSUME Nat \ T # {} PROVE FALSE
  OBVIOUS
<1>2. PICK n \in Nat \ T : \A m \in Nat \ T : n <= m
  <2>1. Nat \ T \in SUBSET Nat
    OBVIOUS
  <2>2. QED
    BY <1>1, <2>1, LeastNumber
<1>3. n - 1 \in T
  <2>1. n # 0
    BY <1>2
  <2>2. n - 1 \in Nat /\ ~(n <= n - 1)
    BY <1>2, <2>1
  <2>3. QED
    BY <1>2, <2>2
<1>4. n = (n - 1) + 1
  BY <1>2
<1>5. QED
  BY <1>2, <1>3, <1>4

(* A value that starts as first is updated by the other steps.             *)
Iterates(f, n, first, step) ==
    \A i \in 1 .. n : f[i] = IF i = 1 THEN first ELSE step[i][f[i - 1]]

(* There is such a sequence of values.                                     *)
LEMMA Iteration ==
    ASSUME NEW V, NEW first \in V, NEW step \in [Nat -> [V -> V]], NEW n \in Nat
    PROVE  \E f \in [1 .. n -> V] : Iterates(f, n, first, step)
<1> DEFINE T == {m \in Nat : \E f \in [1 .. m -> V] : Iterates(f, m, first, step)}
<1>1. 0 \in T
  <2>1. [i \in 1 .. 0 |-> first] \in [1 .. 0 -> V]
    OBVIOUS
  <2>2. Iterates([i \in 1 .. 0 |-> first], 0, first, step)
    BY DEF Iterates
  <2>3. QED
    BY <2>1, <2>2
<1>2. ASSUME NEW m \in Nat, NEW f \in [1 .. m -> V], Iterates(f, m, first, step)
      PROVE  m + 1 \in T
  <2> DEFINE last == IF m = 0 THEN first ELSE step[m + 1][f[m]]
             g == [i \in 1 .. m + 1 |-> IF i = m + 1 THEN last ELSE f[i]]
  <2>1. last \in V
    <3>1. CASE m = 0
      BY <3>1
    <3>2. CASE m # 0
      <4>1. m \in 1 .. m
        BY <3>2
      <4>2. f[m] \in V
        BY <4>1
      <4>3. step[m + 1] \in [V -> V]
        OBVIOUS
      <4>4. step[m + 1][f[m]] \in V
        BY <4>2, <4>3
      <4>5. QED
        BY <3>2, <4>4
    <3>3. QED
      BY <3>1, <3>2
  <2>2. (m = 0 => last = first) /\ (m # 0 => last = step[m + 1][f[m]])
    OBVIOUS
  <2> HIDE DEF last
  <2>3. g \in [1 .. m + 1 -> V]
    BY <2>1
  <2>4. g[m + 1] = last /\ \A i \in 1 .. m : g[i] = f[i]
    OBVIOUS
  <2> HIDE DEF g
  <2>5. m # 0 => g[m] = f[m]
    <3>1. m # 0 => m \in 1 .. m
      OBVIOUS
    <3>2. QED
      BY <2>4, <3>1
  <2>6. ASSUME NEW i \in 1 .. m + 1
        PROVE  g[i] = IF i = 1 THEN first ELSE step[i][g[i - 1]]
    <3>1. CASE i = m + 1
      <4>1. i - 1 = m
        BY <3>1
      <4>2. g[i] = last /\ (i = 1 <=> m = 0)
        BY <2>4, <3>1
      <4>3. CASE m = 0
        BY <2>2, <4>2, <4>3
      <4>4. CASE m # 0
        <5>1. g[i] = step[i][f[m]] /\ g[i - 1] = f[m]
          BY <2>2, <2>5, <3>1, <4>1, <4>2, <4>4
        <5>2. QED
          BY <4>2, <4>4, <5>1
      <4>5. QED
        BY <4>3, <4>4
    <3>2. CASE i # m + 1
      <4>1. i \in 1 .. m /\ (i # 1 => i - 1 \in 1 .. m)
        BY <3>2
      <4>2. QED
        BY <1>2, <2>4, <4>1 DEF Iterates
    <3>3. QED
      BY <3>1, <3>2
  <2>7. Iterates(g, m + 1, first, step)
    BY <2>6 DEF Iterates
  <2>8. QED
    BY <2>3, <2>7
<1>3. T = Nat
  <2> HIDE DEF T
  <2>1. T \in SUBSET Nat
    BY DEF T
  <2>2. \A m \in T : m + 1 \in T
    BY <1>2 DEF T
  <2>3. QED
    BY <1>1, <2>1, <2>2, SetInduction
<1>4. QED
  BY <1>3

(* A path with a step in front.                                            *)
LEMMA ConsFacts ==
    ASSUME NEW S, NEW k \in S, NEW q \in Seq(S)
    PROVE  /\ <<k>> \o q \in Seq(S) /\ <<k>> \o q # <<>>
           /\ Head(<<k>> \o q) = k /\ Tail(<<k>> \o q) = q
           /\ Len(<<k>> \o q) = Len(q) + 1 /\ (<<k>> \o q)[1] = k
           /\ SubSeq(<<k>> \o q, 1, 0) = <<>>
           /\ \A i \in 1 .. Len(q) :
                /\ (<<k>> \o q)[i + 1] = q[i]
                /\ SubSeq(<<k>> \o q, 1, i) = <<k>> \o SubSeq(q, 1, i - 1)
<1> DEFINE p == <<k>> \o q
<1>1. p \in Seq(S) /\ Len(p) = Len(q) + 1 /\ p # <<>>
  OBVIOUS
<1>2. p[1] = k /\ Head(p) = k
  OBVIOUS
<1>3. Tail(p) = q
  OBVIOUS
<1>4. SubSeq(p, 1, 0) = <<>>
  OBVIOUS
<1>5. \A i \in 1 .. Len(q) : p[i + 1] = q[i]
  OBVIOUS
<1>6. \A i \in 1 .. Len(q) : SubSeq(p, 1, i) = <<k>> \o SubSeq(q, 1, i - 1)
  OBVIOUS
<1>7. QED
  BY <1>1, <1>2, <1>3, <1>4, <1>5, <1>6

(* A path without its last step.                                           *)
LEMMA FrontFacts ==
    ASSUME NEW S, NEW p \in Seq(S), p # <<>>
    PROVE  /\ Len(p) \in Nat \ {0} /\ Len(Front(p)) = Len(p) - 1
           /\ Front(p) = SubSeq(p, 1, Len(p) - 1) /\ Front(p) \in Seq(S)
           /\ \A i \in 1 .. Len(p) - 1 : Front(p)[i] = p[i]
           /\ \A i \in 0 .. Len(p) - 1 : SubSeq(Front(p), 1, i) = SubSeq(p, 1, i)
<1>1. Len(p) \in Nat \ {0} /\ Front(p) = SubSeq(p, 1, Len(p) - 1)
  BY DEF Front
<1>2. /\ SubSeq(p, 1, Len(p) - 1) \in Seq(S) /\ Len(SubSeq(p, 1, Len(p) - 1)) = Len(p) - 1
      /\ \A i \in 1 .. Len(p) - 1 : SubSeq(p, 1, Len(p) - 1)[i] = p[i]
  <2>1. Len(p) - 1 \in 0 .. Len(p) /\ 1 \in 1 .. Len(p) + 1
    BY <1>1
  <2>2. /\ SubSeq(p, 1, Len(p) - 1) \in Seq(S)
        /\ Len(SubSeq(p, 1, Len(p) - 1)) = Len(p) - 1
    <3>1. \A i \in 1 .. Len(p) - 1 : p[i] \in S
      OBVIOUS
    <3> DEFINE m == Len(p) - 1
    <3>2. m \in Nat
      BY <2>1
    <3> HIDE DEF m
    <3>3. /\ SubSeq(p, 1, m) \in Seq(S)
          /\ Len(SubSeq(p, 1, m)) = IF 1 <= m THEN m - 1 + 1 ELSE 0
      BY <3>1, <3>2, SubSeqProperties DEF m
    <3>4. Len(SubSeq(p, 1, m)) = m
      BY <3>2, <3>3
    <3>5. QED
      BY <3>3, <3>4 DEF m
  <2>3. ASSUME NEW i \in 1 .. Len(p) - 1 PROVE SubSeq(p, 1, Len(p) - 1)[i] = p[i]
    BY <2>1
  <2>4. QED
    BY <2>2, <2>3
<1>3. \A i \in 0 .. Len(p) - 1 : SubSeq(SubSeq(p, 1, Len(p) - 1), 1, i) = SubSeq(p, 1, i)
  BY <1>1
<1>4. QED
  BY <1>1, <1>2, <1>3

(* The first steps of a path.                                              *)
LEMMA PrefixFacts ==
    ASSUME NEW S, NEW p \in Seq(S), NEW i \in 0 .. Len(p)
    PROVE  /\ SubSeq(p, 1, i) \in Seq(S) /\ Len(SubSeq(p, 1, i)) = i
           /\ \A j \in 1 .. i : SubSeq(p, 1, i)[j] = p[j]
           /\ \A j \in 0 .. i : SubSeq(SubSeq(p, 1, i), 1, j) = SubSeq(p, 1, j)
           /\ SubSeq(p, 1, Len(p)) = p
           /\ IsPrefix(SubSeq(p, 1, i), p)
<1>1. SubSeq(p, 1, i) \in Seq(S) /\ Len(SubSeq(p, 1, i)) = i
  <2>1. i \in Nat /\ \A j \in 1 .. i : p[j] \in S
    OBVIOUS
  <2>2. /\ SubSeq(p, 1, i) \in Seq(S)
        /\ Len(SubSeq(p, 1, i)) = IF 1 <= i THEN i - 1 + 1 ELSE 0
    BY <2>1, SubSeqProperties
  <2>3. QED
    BY <2>1, <2>2
<1>2. /\ \A j \in 1 .. i : SubSeq(p, 1, i)[j] = p[j]
      /\ \A j \in 0 .. i : SubSeq(SubSeq(p, 1, i), 1, j) = SubSeq(p, 1, j)
      /\ SubSeq(p, 1, Len(p)) = p
  OBVIOUS
<1>3. IsPrefix(SubSeq(p, 1, i), p)
  <2>1. SubSeq(SubSeq(p, 1, i), 1, i) = SubSeq(p, 1, i)
    BY <1>2
  <2>2. QED
    BY <1>1, <2>1 DEF IsPrefix
<1>4. QED
  BY <1>1, <1>2, <1>3

(* Where the elements of the sequences are in their concatenation.         *)
Placed(seqs, n, flat, start) ==
    /\ \A d \in 1 .. n : \A h \in 1 .. Len(seqs[d]) :
          start[d] + h \in 1 .. Len(flat) /\ flat[start[d] + h] = seqs[d][h]
    /\ \A k \in 1 .. Len(flat) :
          \E d \in 1 .. n : \E h \in 1 .. Len(seqs[d]) : k = start[d] + h
    /\ \A d, e \in 1 .. n : d < e => start[d] + Len(seqs[d]) <= start[e]
    /\ \A d \in 1 .. n : start[d] + Len(seqs[d]) <= Len(flat)

(* One sequence more is put behind the others.                             *)
LEMMA PlacedStep ==
    ASSUME NEW S, NEW n \in Nat, NEW seqs, \A d \in 1 .. n + 1 : seqs[d] \in Seq(S),
           NEW flat \in Seq(S), NEW start \in [1 .. n -> Nat],
           Placed(seqs, n, flat, start)
    PROVE  \E begin \in [1 .. n + 1 -> Nat] :
              Placed(seqs, n + 1, flat \o seqs[n + 1], begin)
<1> DEFINE begin == [d \in 1 .. n + 1 |-> IF d = n + 1 THEN Len(flat) ELSE start[d]]
           l == Len(flat)
           s == seqs[n + 1]
           m == Len(s)
           both == flat \o s
<1>1. s \in Seq(S) /\ m \in Nat /\ l \in Nat
  OBVIOUS
<1>2. /\ both \in Seq(S) /\ Len(both) = l + m
      /\ \A i \in 1 .. l : both[i] = flat[i]
      /\ \A i \in 1 .. m : both[l + i] = s[i]
  BY <1>1
<1>3. /\ begin \in [1 .. n + 1 -> Nat] /\ begin[n + 1] = l
      /\ \A d \in 1 .. n : begin[d] = start[d] /\ begin[d] \in Nat
  BY <1>1
<1>4. \A d \in 1 .. n : Len(seqs[d]) \in Nat
  <2>1. \A d \in 1 .. n : d \in 1 .. n + 1
    OBVIOUS
  <2>2. QED
    BY <2>1
<1>5. /\ \A d \in 1 .. n : \A h \in 1 .. Len(seqs[d]) :
            start[d] + h \in 1 .. l /\ flat[start[d] + h] = seqs[d][h]
      /\ \A k \in 1 .. l :
            \E d \in 1 .. n : \E h \in 1 .. Len(seqs[d]) : k = start[d] + h
      /\ \A d, e \in 1 .. n : d < e => start[d] + Len(seqs[d]) <= start[e]
      /\ \A d \in 1 .. n : start[d] + Len(seqs[d]) <= l
  BY Zenon DEF Placed
<1> HIDE DEF begin, l, m, both, s
<1>6. \A d \in 1 .. n + 1 : d \in 1 .. n \/ d = n + 1
  OBVIOUS
<1>7. ASSUME NEW d \in 1 .. n + 1, NEW h \in 1 .. Len(seqs[d])
      PROVE  begin[d] + h \in 1 .. Len(both) /\ both[begin[d] + h] = seqs[d][h]
  <2>1. CASE d = n + 1
    <3>1. h \in 1 .. m
      BY <2>1 DEF m, s
    <3>2. QED
      BY <1>1, <1>2, <1>3, <2>1, <3>1 DEF s
  <2>2. CASE d \in 1 .. n
    <3>1. begin[d] + h \in 1 .. l /\ flat[begin[d] + h] = seqs[d][h]
      BY <1>3, <1>5, <2>2
    <3>2. QED
      BY <1>1, <1>2, <3>1
  <2>3. QED
    BY <1>6, <2>1, <2>2
<1>8. ASSUME NEW k \in 1 .. Len(both)
      PROVE  \E d \in 1 .. n + 1 : \E h \in 1 .. Len(seqs[d]) : k = begin[d] + h
  <2>1. CASE k \in 1 .. l
    <3>1. PICK d \in 1 .. n : \E h \in 1 .. Len(seqs[d]) : k = start[d] + h
      BY <1>5, <2>1
    <3>2. d \in 1 .. n + 1 /\ begin[d] = start[d]
      BY <1>3
    <3>3. QED
      BY <3>1, <3>2
  <2>2. CASE k \notin 1 .. l
    <3>1. k - l \in 1 .. m /\ k = l + (k - l)
      BY <1>1, <1>2, <2>2
    <3>2. n + 1 \in 1 .. n + 1
      OBVIOUS
    <3>3. QED
      BY <1>3, <3>1, <3>2 DEF m, s
  <2>3. QED
    BY <2>1, <2>2
<1>9. ASSUME NEW d \in 1 .. n + 1, NEW e \in 1 .. n + 1, d < e
      PROVE  begin[d] + Len(seqs[d]) <= begin[e]
  <2>1. d \in 1 .. n
    BY <1>9
  <2>2. QED
    BY <1>3, <1>5, <1>6, <1>9, <2>1
<1>10. ASSUME NEW d \in 1 .. n + 1
       PROVE  begin[d] + Len(seqs[d]) <= Len(both)
  <2>1. CASE d = n + 1
    BY <1>1, <1>2, <1>3, <2>1 DEF m, s
  <2>2. CASE d \in 1 .. n
    <3>1. begin[d] + Len(seqs[d]) <= l /\ begin[d] \in Nat /\ Len(seqs[d]) \in Nat
      BY <1>3, <1>4, <1>5, <2>2
    <3>2. QED
      BY <1>1, <1>2, <3>1
  <2>3. QED
    BY <1>6, <2>1, <2>2
<1>11. Placed(seqs, n + 1, both, begin)
  BY <1>7, <1>8, <1>9, <1>10, Zenon DEF Placed
<1>12. QED
  BY <1>3, <1>11 DEF both, s

(* Every element of the sequences is in their concatenation, in order, and *)
(* nothing else is.                                                        *)
LEMMA FlattenPlaces ==
    ASSUME NEW S, NEW n \in Nat, NEW seqs \in [1 .. n -> Seq(S)]
    PROVE  /\ FlattenSeq(seqs) \in Seq(S)
           /\ \E start \in [1 .. n -> Nat] : Placed(seqs, n, FlattenSeq(seqs), start)
<1>0. seqs \in Seq(Seq(S)) /\ Len(seqs) = n
  OBVIOUS
<1>1. CASE n = 0
  <2>1. FlattenSeq(seqs) = seqs /\ seqs = <<>>
    BY <1>0, <1>1 DEF FlattenSeq
  <2>2. [d \in 1 .. n |-> 0] \in [1 .. n -> Nat]
    OBVIOUS
  <2>3. /\ \A d \in 1 .. n : FALSE
        /\ \A k \in 1 .. Len(<<>>) : FALSE
    BY <1>1
  <2>4. Placed(seqs, n, <<>>, [d \in 1 .. n |-> 0])
    BY <2>3 DEF Placed
  <2>5. QED
    BY <2>1, <2>2, <2>4
<1>2. CASE n # 0
  <2> DEFINE flatten == CHOOSE f : f = [i \in 1 .. Len(seqs) |->
                          IF i = 1 THEN seqs[i] ELSE f[i - 1] \o seqs[i]]
             V == Seq(S)
             first == seqs[1]
             step == [i \in Nat |-> [x \in V |-> IF i \in 1 .. n THEN x \o seqs[i] ELSE x]]
  <2>1. FlattenSeq(seqs) = flatten[n]
    BY <1>0, <1>2 DEF FlattenSeq
  <2>2. seqs[1] \in Seq(S) /\ 1 \in 1 .. n
    BY <1>2
  <2>3. step \in [Nat -> [V -> V]]
    OBVIOUS
  <2>4. \A i \in 1 .. n, x \in V : step[i][x] = x \o seqs[i]
    OBVIOUS
  <2> HIDE DEF step, V, first
  <2>5. PICK f \in [1 .. n -> V] : Iterates(f, n, first, step)
    BY <2>2, <2>3, Iteration DEF V, first
  <2>6. ASSUME NEW i \in 1 .. n
        PROVE  f[i] = IF i = 1 THEN seqs[i] ELSE f[i - 1] \o seqs[i]
    <3>1. CASE i = 1
      BY <2>5, <3>1 DEF Iterates, first
    <3>2. CASE i # 1
      <4>1. i - 1 \in 1 .. n
        BY <3>2
      <4>2. QED
        BY <2>4, <2>5, <3>2, <4>1 DEF Iterates
    <3>3. QED
      BY <3>1, <3>2
  <2>7. f = [i \in 1 .. Len(seqs) |-> IF i = 1 THEN seqs[i] ELSE f[i - 1] \o seqs[i]]
    BY <1>0, <2>6
  <2>8. flatten = [i \in 1 .. n |-> IF i = 1 THEN seqs[i] ELSE flatten[i - 1] \o seqs[i]]
    BY <1>0, <2>7
  <2> HIDE DEF flatten
  <2> DEFINE T == {m \in Nat : m + 1 \in 1 .. n =>
                     /\ flatten[m + 1] \in Seq(S)
                     /\ \E start \in [1 .. m + 1 -> Nat] :
                          Placed(seqs, m + 1, flatten[m + 1], start)}
  <2>9. 0 \in T
    <3>1. flatten[1] = seqs[1]
      BY <2>2, <2>8
    <3> DEFINE start == [d \in 1 .. 1 |-> 0]
    <3>2. start \in [1 .. 1 -> Nat] /\ start[1] = 0 /\ \A d \in 1 .. 1 : d = 1
      OBVIOUS
    <3> HIDE DEF start
    <3>3. Placed(seqs, 1, seqs[1], start)
      <4>1. Len(seqs[1]) \in Nat /\ 1 \in 1 .. 1
        BY <2>2
      <4> DEFINE c == Len(seqs[1])
      <4> HIDE DEF c
      <4>2. /\ \A d \in 1 .. 1 : \A h \in 1 .. Len(seqs[d]) :
                 start[d] + h \in 1 .. c /\ seqs[1][start[d] + h] = seqs[d][h]
            /\ \A k \in 1 .. c :
                 \E d \in 1 .. 1 : \E h \in 1 .. Len(seqs[d]) : k = start[d] + h
        BY <3>2, <4>1 DEF c
      <4>3. \A d, e \in 1 .. 1 : ~(d < e)
        BY <3>2
      <4>4. \A d \in 1 .. 1 : start[d] + Len(seqs[d]) <= c
        BY <3>2, <4>1 DEF c
      <4>5. QED
        BY <4>2, <4>3, <4>4, Zenon DEF Placed, c
    <3>4. 0 + 1 = 1
      OBVIOUS
    <3>5. QED
      BY <2>2, <3>1, <3>2, <3>3, <3>4
  <2>10. ASSUME NEW m \in T PROVE m + 1 \in T
    <3> DEFINE k == m + 1
    <3>1. m \in Nat /\ k \in Nat \ {0} /\ (k + 1) - 1 = k /\ k + 1 # 1
      OBVIOUS
    <3>2. k \in 1 .. n =>
            /\ flatten[k] \in Seq(S)
            /\ \E start \in [1 .. k -> Nat] : Placed(seqs, k, flatten[k], start)
      BY DEF T
    <3> HIDE DEF k
    <3>3. ASSUME k + 1 \in 1 .. n
          PROVE  /\ flatten[k + 1] \in Seq(S)
                 /\ \E start \in [1 .. k + 1 -> Nat] : Placed(seqs, k + 1, flatten[k + 1], start)
      <4>1. k \in 1 .. n
        BY <3>1, <3>3
      <4>2. flatten[k + 1] = flatten[k] \o seqs[k + 1]
        BY <2>8, <3>1, <3>3
      <4>3. flatten[k] \in Seq(S)
        BY <3>2, <4>1
      <4>4. PICK start \in [1 .. k -> Nat] : Placed(seqs, k, flatten[k], start)
        BY <3>2, <4>1
      <4>5. \A d \in 1 .. k + 1 : seqs[d] \in Seq(S)
        BY <3>1, <3>3
      <4>6. flatten[k + 1] \in Seq(S)
        BY <3>3, <4>2, <4>3
      <4>7. \E begin \in [1 .. k + 1 -> Nat] :
              Placed(seqs, k + 1, flatten[k] \o seqs[k + 1], begin)
        BY <3>1, <4>3, <4>4, <4>5, PlacedStep
      <4>8. QED
        BY <4>2, <4>6, <4>7
    <3>4. QED
      BY <3>1, <3>3 DEF T, k
  <2>11. T = Nat
    <3>1. T \in SUBSET Nat
      BY DEF T
    <3>2. \A m \in T : m + 1 \in T
      BY <2>10
    <3> HIDE DEF T
    <3>3. QED
      BY <2>9, <3>1, <3>2, SetInduction
  <2>12. /\ flatten[n] \in Seq(S)
         /\ \E start \in [1 .. n -> Nat] : Placed(seqs, n, flatten[n], start)
    <3> DEFINE m == n - 1
    <3>1. m \in Nat /\ m + 1 = n /\ n \in 1 .. n
      BY <1>2
    <3> HIDE DEF m
    <3>2. m \in T
      BY <2>11, <3>1
    <3>3. QED
      BY <3>1, <3>2
  <2>13. QED
    BY <2>1, <2>12
<1>3. QED
  BY <1>1, <1>2

-----------------------------------------------------------------------------
(* Digits                                                                  *)

(* A set of numbers that has a bound and is not empty has a greatest one.  *)
LEMMA GreatestNumber ==
    ASSUME NEW n \in Nat, NEW S \in SUBSET (1 .. n), S # {}
    PROVE  Max(S) \in S /\ \A x \in S : x <= Max(S)
<1> DEFINE T == {n - x : x \in S}
<1>1. T \in SUBSET Nat /\ T # {}
  <2>1. \A x \in S : x \in Nat /\ n - x \in Nat
    OBVIOUS
  <2>2. PICK x \in S : TRUE
    OBVIOUS
  <2>3. n - x \in T
    OBVIOUS
  <2>4. QED
    BY <2>1, <2>3
<1>2. PICK m \in T : \A k \in T : m <= k
  BY <1>1, LeastNumber
<1>3. PICK y \in S : m = n - y
  BY <1>2
<1>4. \A x \in S : y >= x
  <2> SUFFICES ASSUME NEW x \in S PROVE y >= x
    OBVIOUS
  <2>1. n - x \in T /\ x \in Nat /\ y \in Nat
    BY <1>3
  <2>2. QED
    BY <1>2, <1>3, <2>1
<1>5. \E x \in S : \A z \in S : x >= z
  BY <1>4
<1>6. Max(S) \in S /\ \A x \in S : Max(S) >= x
  BY <1>5 DEF Max
<1>7. QED
  BY <1>6

(* A group of digits.                                                      *)
GroupShape == [word : Nat, size : 1 .. 16, joined : BOOLEAN]

LEMMA GroupFacts ==
    ASSUME NEW gs \in Seq(GroupShape), NEW g \in 1 .. Len(gs)
    PROVE  gs[g].size \in Nat /\ gs[g].size >= 1
<1>1. gs[g] \in GroupShape
  OBVIOUS
<1>2. gs[g].size \in 1 .. 16
  BY <1>1 DEF GroupShape
<1>3. QED
  BY <1>2

(* The numbers of digits add up.                                           *)
LEMMA DigitsAddUp ==
    ASSUME NEW gs \in Seq(GroupShape)
    PROVE  \A g \in 1 .. Len(gs) :
              /\ DigitsUpTo(gs)[g] \in Nat
              /\ DigitsUpTo(gs)[g] =
                   gs[g].size + IF g = 1 THEN 0 ELSE DigitsUpTo(gs)[g - 1]
<1> DEFINE n == Len(gs)
           upTo == CHOOSE f : f = [g \in DOMAIN gs |->
                     gs[g].size + IF g = 1 THEN 0 ELSE f[g - 1]]
           first == IF n = 0 THEN 0 ELSE gs[1].size
           step == [g \in Nat |-> [x \in Nat |-> IF g \in 1 .. n THEN gs[g].size + x ELSE x]]
<1>1. DigitsUpTo(gs) = upTo
  BY DEF DigitsUpTo
<1>2. n \in Nat /\ DOMAIN gs = 1 .. n /\ \A g \in 1 .. n : gs[g].size \in Nat
  BY GroupFacts
<1>3. first \in Nat /\ (n # 0 => first = gs[1].size)
  BY <1>2
<1>4. /\ step \in [Nat -> [Nat -> Nat]]
      /\ \A g \in 1 .. n : \A x \in Nat : step[g][x] = gs[g].size + x
  BY <1>2
<1> HIDE DEF first, step
<1>5. PICK f \in [1 .. n -> Nat] : Iterates(f, n, first, step)
  BY <1>2, <1>3, <1>4, Iteration
<1>6. \A g \in 1 .. n : f[g] = gs[g].size + IF g = 1 THEN 0 ELSE f[g - 1]
  <2> SUFFICES ASSUME NEW g \in 1 .. n
               PROVE  f[g] = gs[g].size + IF g = 1 THEN 0 ELSE f[g - 1]
    OBVIOUS
  <2>1. f[g] = IF g = 1 THEN first ELSE step[g][f[g - 1]]
    BY <1>5 DEF Iterates
  <2>2. CASE g = 1
    BY <1>2, <1>3, <2>1, <2>2
  <2>3. CASE g # 1
    <3>1. g - 1 \in 1 .. n
      BY <1>2, <2>3
    <3>2. f[g - 1] \in Nat
      BY <1>5, <3>1
    <3>3. QED
      BY <1>4, <2>1, <2>3, <3>2
  <2>4. QED
    BY <2>2, <2>3
<1>7. f = [g \in DOMAIN gs |-> gs[g].size + IF g = 1 THEN 0 ELSE f[g - 1]]
  BY <1>2, <1>5, <1>6
<1>8. upTo = [g \in DOMAIN gs |-> gs[g].size + IF g = 1 THEN 0 ELSE upTo[g - 1]]
  BY <1>7
<1> HIDE DEF upTo
<1> DEFINE Bad == {g \in 1 .. n : upTo[g] \notin Nat}
<1>9. Bad = {}
  <2> SUFFICES ASSUME Bad # {} PROVE FALSE
    OBVIOUS
  <2>1. PICK g \in Bad : \A h \in Bad : g <= h
    <3>1. Bad \in SUBSET Nat
      BY <1>2
    <3>2. QED
      BY <3>1, LeastNumber
  <2>2. upTo[g] = gs[g].size + IF g = 1 THEN 0 ELSE upTo[g - 1]
    BY <1>2, <1>8, <2>1
  <2>3. g \in 1 .. n /\ (g # 1 => g - 1 \in 1 .. n /\ g - 1 \notin Bad)
    BY <1>2, <2>1
  <2>4. QED
    BY <1>2, <2>1, <2>2, <2>3
<1>10. QED
  BY <1>1, <1>2, <1>8, <1>9

(* So they do not go down.                                                 *)
LEMMA DigitsGrow ==
    ASSUME NEW gs \in Seq(GroupShape), NEW g \in 1 .. Len(gs),
           NEW h \in g .. Len(gs)
    PROVE  DigitsUpTo(gs)[g] <= DigitsUpTo(gs)[h]
<1> DEFINE n == Len(gs)
           upTo == DigitsUpTo(gs)
           Bad == {k \in g .. n : ~(upTo[g] <= upTo[k])}
<1>1. /\ n \in Nat /\ g \in 1 .. n
      /\ \A k \in 1 .. n : gs[k].size \in Nat
  BY GroupFacts
<1>2. \A k \in 1 .. n : /\ upTo[k] \in Nat
                        /\ k # 1 => upTo[k] = gs[k].size + upTo[k - 1]
  BY DigitsAddUp
<1> HIDE DEF n, upTo
<1>3. Bad = {}
  <2> SUFFICES ASSUME Bad # {} PROVE FALSE
    OBVIOUS
  <2>1. PICK k \in Bad : \A m \in Bad : k <= m
    <3>1. Bad \in SUBSET Nat
      BY <1>1
    <3>2. QED
      BY <3>1, LeastNumber
  <2>2. k \in 1 .. n /\ k # g /\ k # 1 /\ k - 1 \in g .. n /\ k - 1 \in 1 .. n
    BY <1>1, <1>2, <2>1
  <2>3. upTo[g] <= upTo[k - 1]
    <3>1. k - 1 \notin Bad
      BY <2>1, <2>2
    <3>2. QED
      BY <2>2, <3>1
  <2>4. upTo[k] = gs[k].size + upTo[k - 1] /\ gs[k].size \in Nat
    BY <1>1, <1>2, <2>2
  <2>5. upTo[g] \in Nat /\ upTo[k - 1] \in Nat
    BY <1>1, <1>2, <2>2
  <2>6. ~(upTo[g] <= upTo[k])
    BY <2>1
  <2>7. QED
    BY <2>3, <2>4, <2>5, <2>6
<1>4. QED
  BY <1>1, <1>3 DEF n, upTo

(* A match lies within the string.                                         *)
LEMMA EndsWithin ==
    ASSUME NEW gs, NEW re, NEW g
    PROVE  MatchEnds(gs, re, g) \subseteq g .. Len(gs)
BY DEF MatchEnds

(* The scan goes on from one group to the next: a match that begins before *)
(* and reaches this group stands, a match that begins here is as long as   *)
(* possible.                                                               *)
ScanStep(gs, re, g, earlier) ==
    IF earlier >= g \/ MatchEnds(gs, re, g) = {} THEN earlier
                                                 ELSE Max(MatchEnds(gs, re, g))

LEMMA ScanSteps ==
    ASSUME NEW gs \in Seq(GroupShape), NEW re
    PROVE  LET last == Scan(gs, re) IN
           \A g \in 1 .. Len(gs) :
              /\ last[g] \in 0 .. Len(gs)
              /\ last[g] = ScanStep(gs, re, g, IF g = 1 THEN 0 ELSE last[g - 1])
<1> DEFINE n == Len(gs)
           V == 0 .. n
           last == CHOOSE f : f = [g \in DOMAIN gs |->
                     LET earlier == IF g = 1 THEN 0 ELSE f[g - 1]
                         ends == MatchEnds(gs, re, g)
                     IN  IF earlier >= g \/ ends = {} THEN earlier ELSE Max(ends)]
           first == IF n = 0 THEN 0 ELSE ScanStep(gs, re, 1, 0)
           step == [g \in Nat |-> [x \in V |->
                     IF g \in 1 .. n THEN ScanStep(gs, re, g, x) ELSE x]]
<1>1. Scan(gs, re) = last
  BY DEF Scan
<1>2. n \in Nat /\ DOMAIN gs = 1 .. n
  OBVIOUS
<1>3. ASSUME NEW g \in 1 .. n, NEW x \in V
      PROVE  ScanStep(gs, re, g, x) \in V
  <2> DEFINE E == MatchEnds(gs, re, g)
  <2>1. E \in SUBSET (1 .. n)
    BY <1>2, EndsWithin
  <2> HIDE DEF E
  <2>2. E # {} => Max(E) \in V
    <3>1. E # {} => Max(E) \in 1 .. n
      BY <1>2, <2>1, GreatestNumber
    <3>2. QED
      BY <1>2, <3>1
  <2>3. QED
    BY <2>2 DEF ScanStep, E
<1>4. first \in V /\ (n # 0 => first = ScanStep(gs, re, 1, 0))
  <2>1. 0 \in V /\ (n # 0 => 1 \in 1 .. n)
    BY <1>2
  <2>2. QED
    BY <1>3, <2>1
<1>5. /\ step \in [Nat -> [V -> V]]
      /\ \A g \in 1 .. n : \A x \in V : step[g][x] = ScanStep(gs, re, g, x)
  <2>1. \A g \in 1 .. n : g \in Nat
    BY <1>2
  <2> HIDE DEF V
  <2>2. \A g \in Nat : [x \in V |-> IF g \in 1 .. n THEN ScanStep(gs, re, g, x) ELSE x]
                          \in [V -> V]
    BY <1>3
  <2>3. QED
    BY <2>1, <2>2
<1> HIDE DEF first, step
<1>6. PICK f \in [1 .. n -> V] : Iterates(f, n, first, step)
  <2> HIDE DEF V
  <2>1. QED
    BY <1>2, <1>4, <1>5, Iteration
<1> DEFINE Step(f_, g) == ScanStep(gs, re, g, IF g = 1 THEN 0 ELSE f_[g - 1])
<1>7. \A g \in 1 .. n : f[g] = Step(f, g)
  <2> SUFFICES ASSUME NEW g \in 1 .. n PROVE f[g] = Step(f, g)
    OBVIOUS
  <2>1. f[g] = IF g = 1 THEN first ELSE step[g][f[g - 1]]
    BY <1>6 DEF Iterates
  <2>2. CASE g = 1
    BY <1>2, <1>4, <2>1, <2>2
  <2>3. CASE g # 1
    <3>1. g - 1 \in 1 .. n
      BY <1>2, <2>3
    <3>2. f[g - 1] \in V
      BY <1>6, <3>1
    <3>3. QED
      BY <1>5, <2>1, <2>3, <3>2
  <2>4. QED
    BY <2>2, <2>3
<1>8. f = [g \in DOMAIN gs |->
             LET earlier == IF g = 1 THEN 0 ELSE f[g - 1]
                 ends == MatchEnds(gs, re, g)
             IN  IF earlier >= g \/ ends = {} THEN earlier ELSE Max(ends)]
  BY <1>2, <1>6, <1>7 DEF ScanStep
<1>9. last = [g \in DOMAIN gs |->
                LET earlier == IF g = 1 THEN 0 ELSE last[g - 1]
                    ends == MatchEnds(gs, re, g)
                IN  IF earlier >= g \/ ends = {} THEN earlier ELSE Max(ends)]
  BY <1>8
<1> HIDE DEF last
<1>10. \A g \in 1 .. n : last[g] = Step(last, g)
  BY <1>2, <1>9 DEF ScanStep
<1> HIDE DEF Step
<1> DEFINE Bad == {g \in 1 .. n : last[g] \notin V}
<1>11. Bad = {}
  <2> SUFFICES ASSUME Bad # {} PROVE FALSE
    OBVIOUS
  <2>1. PICK g \in Bad : \A h \in Bad : g <= h
    <3>1. Bad \in SUBSET Nat
      BY <1>2
    <3>2. QED
      BY <3>1, LeastNumber
  <2>2. g \in 1 .. n /\ (g # 1 => g - 1 \in 1 .. n /\ g - 1 \notin Bad)
    BY <1>2, <2>1
  <2>3. (IF g = 1 THEN 0 ELSE last[g - 1]) \in V
    BY <1>2, <2>2
  <2>4. Step(last, g) \in V
    <3> HIDE DEF V
    <3>1. QED
      BY <1>3, <2>2, <2>3 DEF Step
  <2>5. QED
    BY <1>10, <2>1, <2>2, <2>4
<1>12. QED
  BY <1>1, <1>10, <1>11 DEF Step

(* What the scan has reached at a group is where a match ends that begins  *)
(* there or before.                                                        *)
LEMMA ScanOrigin ==
    ASSUME NEW gs \in Seq(GroupShape), NEW re, NEW g \in 1 .. Len(gs),
           Scan(gs, re)[g] # 0
    PROVE  \E h \in 1 .. g : Scan(gs, re)[g] \in MatchEnds(gs, re, h)
<1> DEFINE n == Len(gs)
           last == Scan(gs, re)
           Bad == {k \in 1 .. n : last[k] # 0 /\
                     ~ \E h \in 1 .. k : last[k] \in MatchEnds(gs, re, h)}
<1>1. n \in Nat
  OBVIOUS
<1>2. \A k \in 1 .. n : last[k] = ScanStep(gs, re, k, IF k = 1 THEN 0 ELSE last[k - 1])
  BY ScanSteps
<1> HIDE DEF last
<1>3. Bad = {}
  <2> SUFFICES ASSUME Bad # {} PROVE FALSE
    OBVIOUS
  <2>1. PICK k \in Bad : \A m \in Bad : k <= m
    <3>1. Bad \in SUBSET Nat
      BY <1>1
    <3>2. QED
      BY <3>1, LeastNumber
  <2>2. k \in 1 .. n /\ k \in 1 .. k /\ last[k] # 0
    BY <1>1, <2>1
  <2>3. CASE last[k] = IF k = 1 THEN 0 ELSE last[k - 1]
    <3>1. k - 1 \in 1 .. n /\ k - 1 \notin Bad /\ last[k - 1] = last[k]
      BY <1>1, <2>1, <2>2, <2>3
    <3>2. PICK h \in 1 .. k - 1 : last[k] \in MatchEnds(gs, re, h)
      BY <2>2, <3>1
    <3>3. h \in 1 .. k
      BY <2>2
    <3>4. QED
      BY <2>1, <3>2, <3>3
  <2>4. CASE /\ MatchEnds(gs, re, k) # {}
             /\ last[k] = Max(MatchEnds(gs, re, k))
    <3>1. MatchEnds(gs, re, k) \in SUBSET (1 .. n)
      BY <2>2, EndsWithin
    <3>2. last[k] \in MatchEnds(gs, re, k)
      BY <1>1, <2>4, <3>1, GreatestNumber
    <3>3. QED
      BY <2>1, <2>2, <3>2
  <2>5. QED
    BY <1>2, <2>2, <2>3, <2>4 DEF ScanStep
<1>4. QED
  BY <1>3 DEF last

-----------------------------------------------------------------------------
(* Words                                                                   *)

(* A word as it comes.                                                     *)
FreshWord == [shape : Shapes, as : Stands, state : {"whole"}, glued : {FALSE}]

(* What a pass makes of a word: it stays the same kind of word where it    *)
(* stood, and nothing that is gone comes back.                             *)
Kept(v, w) ==
    /\ w \in WordShape /\ w.shape = v.shape /\ w.as = v.as
    /\ w.state = "whole" => v.state = "whole"

(* Masking by a pattern.                                                   *)
LEMMA MaskAllWord ==
    ASSUME NEW n \in Nat, NEW words \in [1 .. n -> WordShape], NEW shapes
    PROVE  /\ MaskAll(words, shapes) \in [1 .. n -> WordShape]
           /\ \A i \in 1 .. n :
                LET w == MaskAll(words, shapes)[i]
                IN  /\ Kept(words[i], w) /\ w.glued = words[i].glued
                    /\ w = words[i] \/ w.state = "masked"
                    /\ words[i].shape \notin shapes => w = words[i]
                    /\ w.state = "whole" =>
                         w = words[i] /\ (w.shape \in shapes => w.glued)
<1>1. ASSUME NEW i \in 1 .. n
      PROVE  LET w == MaskAll(words, shapes)[i]
             IN  /\ Kept(words[i], w) /\ w.glued = words[i].glued
                 /\ w = words[i] \/ w.state = "masked"
                 /\ words[i].shape \notin shapes => w = words[i]
                 /\ w.state = "whole" =>
                      w = words[i] /\ (w.shape \in shapes => w.glued)
  <2> DEFINE v == words[i]
             w == MaskAll(words, shapes)[i]
  <2>1. v \in WordShape /\ DOMAIN words = 1 .. n
    OBVIOUS
  <2>2. w = IF v.shape \in shapes /\ v.state = "whole" /\ ~v.glued
            THEN Masked(v) ELSE v
    BY <2>1 DEF MaskAll
  <2>3. /\ Masked(v) \in WordShape /\ Masked(v).state = "masked"
        /\ Masked(v).shape = v.shape /\ Masked(v).as = v.as
        /\ Masked(v).glued = v.glued
    BY <2>1 DEF Masked, WordShape
  <2> HIDE DEF v, w
  <2>4. CASE w = Masked(v) /\ v.shape \in shapes
    BY <2>3, <2>4 DEF Kept, v, w
  <2>5. CASE w = v /\ ~(v.shape \in shapes /\ v.state = "whole" /\ ~v.glued)
    BY <2>1, <2>5 DEF Kept, v, w
  <2>6. QED
    BY <2>2, <2>4, <2>5
<1>2. MaskAll(words, shapes) = [i \in 1 .. n |-> MaskAll(words, shapes)[i]]
  BY DEF MaskAll
<1>3. \A i \in 1 .. n : MaskAll(words, shapes)[i] \in WordShape
  BY <1>1 DEF Kept
<1>4. QED
  BY <1>1, <1>2, <1>3

(* Scrubbing SQL leaves bare words alone, and breaks assigned ones only.   *)
LEMMA ScrubSqlWord ==
    ASSUME NEW n \in Nat, NEW words \in [1 .. n -> WordShape]
    PROVE  /\ ScrubSql(words) \in [1 .. n -> WordShape]
           /\ \A i \in 1 .. n :
                LET w == ScrubSql(words)[i]
                IN  /\ Kept(words[i], w) /\ w.glued = words[i].glued
                    /\ w.as = "bare" \/ w.state = "whole" => w = words[i]
                    /\ \/ w = words[i]
                       \/ w.state = "masked"
                       \/ w.state = "part" /\ w.as = "assigned" /\ w.shape # "card"
<1>1. ASSUME NEW i \in 1 .. n
      PROVE  LET w == ScrubSql(words)[i]
             IN  /\ Kept(words[i], w) /\ w.glued = words[i].glued
                 /\ w.as = "bare" \/ w.state = "whole" => w = words[i]
                 /\ \/ w = words[i]
                    \/ w.state = "masked"
                    \/ w.state = "part" /\ w.as = "assigned" /\ w.shape # "card"
  <2> DEFINE v == words[i]
             w == ScrubSql(words)[i]
  <2>1. v \in WordShape /\ DOMAIN words = 1 .. n
    OBVIOUS
  <2>2. \/ w = v
        \/ w = Masked(v) /\ v.as \in {"quoted", "assigned"}
        \/ w = Broken(v) /\ v.as = "assigned" /\ v.shape # "card"
    BY <2>1 DEF ScrubSql, IpShapes
  <2>3. /\ Masked(v) \in WordShape /\ Masked(v).state = "masked"
        /\ Masked(v).shape = v.shape /\ Masked(v).as = v.as
        /\ Masked(v).glued = v.glued
        /\ Broken(v) \in WordShape /\ Broken(v).state = "part"
        /\ Broken(v).shape = v.shape /\ Broken(v).as = v.as
        /\ Broken(v).glued = v.glued
    BY <2>1 DEF Masked, Broken, WordShape
  <2> HIDE DEF v, w
  <2>4. QED
    BY <2>1, <2>2, <2>3 DEF Kept, v, w
<1>2. ScrubSql(words) = [i \in 1 .. n |-> ScrubSql(words)[i]]
  BY DEF ScrubSql
<1>3. \A i \in 1 .. n : ScrubSql(words)[i] \in WordShape
  BY <1>1 DEF Kept
<1>4. QED
  BY <1>1, <1>2, <1>3

(* The blank in front of a word belongs to the card before it.             *)
AfterCut(words, i) == Touch(words, i - 1) /\ i - 1 \in CardsFound(words)

(* Cards are masked, or left as they are.                                  *)
LEMMA CutCardsWord ==
    ASSUME NEW n \in Nat, NEW words \in [1 .. n -> WordShape],
           \A i \in 1 .. n : ~words[i].glued
    PROVE  /\ CutCards(words) \in [1 .. n -> WordShape]
           /\ \A i \in 1 .. n :
                LET w == CutCards(words)[i]
                IN  /\ Kept(words[i], w)
                    /\ i \in CardsFound(words) => w = Masked(words[i]) /\ w.state = "masked"
                    /\ i \notin CardsFound(words) =>
                         /\ w = [words[i] EXCEPT !.glued = AfterCut(words, i)]
                         /\ w.state = words[i].state
                         /\ w.glued <=> AfterCut(words, i)
<1> DEFINE found == CardsFound(words)
<1>1. ASSUME NEW i \in 1 .. n
      PROVE  LET w == CutCards(words)[i]
             IN  /\ Kept(words[i], w)
                 /\ i \in found => w = Masked(words[i]) /\ w.state = "masked"
                 /\ i \notin found =>
                      /\ w = [words[i] EXCEPT !.glued = AfterCut(words, i)]
                      /\ w.state = words[i].state
                      /\ w.glued <=> AfterCut(words, i)
  <2> DEFINE v == words[i]
             w == CutCards(words)[i]
             after == AfterCut(words, i)
  <2>1. v \in WordShape /\ DOMAIN words = 1 .. n /\ after \in BOOLEAN
    BY DEF AfterCut, Touch
  <2>2. w = IF i \in found THEN Masked(v) ELSE [v EXCEPT !.glued = after]
    BY <2>1 DEF CutCards, CutOut, AfterCut
  <2> HIDE DEF v, w, after, found
  <2>3. /\ Masked(v) \in WordShape /\ Masked(v).state = "masked"
        /\ Masked(v).shape = v.shape /\ Masked(v).as = v.as
    BY <2>1 DEF Masked, WordShape
  <2>4. LET g == [v EXCEPT !.glued = after]
        IN  /\ g \in WordShape /\ g.shape = v.shape /\ g.as = v.as
            /\ g.state = v.state /\ g.glued = after
    BY <2>1 DEF WordShape
  <2>5. CASE i \in found
    BY <2>2, <2>3, <2>5 DEF Kept, v, w
  <2>6. CASE i \notin found
    BY <2>2, <2>4, <2>6 DEF Kept, v, w, after
  <2>7. QED
    BY <2>5, <2>6
<1>2. CutCards(words) = [i \in 1 .. n |-> CutCards(words)[i]]
  BY DEF CutCards, CutOut
<1>3. \A i \in 1 .. n : CutCards(words)[i] \in WordShape
  BY <1>1 DEF Kept
<1>4. QED
  BY <1>1, <1>2, <1>3

(* The pass for SINs changes a word that has a digit in a match, and no    *)
(* other.                                                                  *)
LEMMA MaskSinsWord ==
    ASSUME NEW n \in Nat, NEW words \in [1 .. n -> WordShape]
    PROVE  /\ MaskSins(words) \in [1 .. n -> WordShape]
           /\ \A i \in 1 .. n :
                LET w == MaskSins(words)[i]
                IN  /\ Kept(words[i], w) /\ w.glued = words[i].glued
                    /\ w = words[i] \/ w.state # "whole"
                    /\ (\E g \in DOMAIN Groups(words) :
                          /\ Groups(words)[g].word = i
                          /\ Scan(Groups(words), SinRe)[g] >= g)
                         => w.state # "whole"
<1>1. ASSUME NEW i \in 1 .. n
      PROVE  LET w == MaskSins(words)[i]
             IN  /\ Kept(words[i], w) /\ w.glued = words[i].glued
                 /\ w = words[i] \/ w.state # "whole"
                 /\ (\E g \in DOMAIN Groups(words) :
                       /\ Groups(words)[g].word = i
                       /\ Scan(Groups(words), SinRe)[g] >= g)
                      => w.state # "whole"
  <2> DEFINE v == words[i]
             w == MaskSins(words)[i]
             matched == {g \in {h \in DOMAIN Groups(words) : Groups(words)[h].word = i} :
                           Scan(Groups(words), SinRe)[g] >= g}
  <2>1. v \in WordShape /\ DOMAIN words = 1 .. n
    OBVIOUS
  <2>2. IF matched = {} THEN w = v ELSE w = Masked(v) \/ w = Broken(v)
    BY <2>1 DEF MaskSins, MaskMatched
  <2>3. (\E g \in DOMAIN Groups(words) :
           Groups(words)[g].word = i /\ Scan(Groups(words), SinRe)[g] >= g)
          => matched # {}
    OBVIOUS
  <2>4. /\ Masked(v) \in WordShape /\ Masked(v).state = "masked"
        /\ Masked(v).shape = v.shape /\ Masked(v).as = v.as
        /\ Masked(v).glued = v.glued
        /\ Broken(v) \in WordShape /\ Broken(v).state = "part"
        /\ Broken(v).shape = v.shape /\ Broken(v).as = v.as
        /\ Broken(v).glued = v.glued
    BY <2>1 DEF Masked, Broken, WordShape
  <2> HIDE DEF v, w, matched
  <2>5. CASE matched = {}
    BY <2>1, <2>2, <2>3, <2>5 DEF Kept, v, w
  <2>6. CASE matched # {}
    BY <2>1, <2>2, <2>4, <2>6 DEF Kept, v, w
  <2>7. QED
    BY <2>5, <2>6
<1>2. MaskSins(words) = [i \in 1 .. n |-> MaskSins(words)[i]]
  BY DEF MaskSins, MaskMatched
<1>3. \A i \in 1 .. n : MaskSins(words)[i] \in WordShape
  BY <1>1 DEF Kept
<1>4. QED
  BY <1>1, <1>2, <1>3

-----------------------------------------------------------------------------
(* Groups of digits                                                        *)

LEMMA SizesFacts ==
    ASSUME NEW s \in Shapes
    PROVE  /\ Sizes(s) \in Seq(1 .. 16)
           /\ s \in Cards \cup {"sin", "reference"} =>
                \A k \in 1 .. Len(Sizes(s)) : Sizes(s)[k] >= 4
           /\ s = "card" => Sizes(s) = <<16>>
           /\ s = "groupedCard" => Sizes(s) = <<4, 4, 4, 4>>
           /\ s = "sin" => Sizes(s) = <<9>>
           /\ s = "dashedSin" => Sizes(s) = <<3, 3, 3>>
           /\ s \notin {"card", "groupedCard", "sin", "dashedSin", "ip", "ipv6",
                        "reference", "number"} => Sizes(s) = <<>>
<1>1. CASE s = "card"
  BY <1>1 DEF Sizes, Cards
<1>2. CASE s = "groupedCard"
  <2>1. Sizes(s) = <<4, 4, 4, 4>>
    BY <1>2 DEF Sizes
  <2>2. <<4, 4, 4, 4>> \in Seq(1 .. 16) /\ \A k \in 1 .. 4 : <<4, 4, 4, 4>>[k] >= 4
    OBVIOUS
  <2>3. QED
    BY <1>2, <2>1, <2>2
<1>3. CASE s = "sin"
  BY <1>3 DEF Sizes, Cards
<1>4. CASE s = "dashedSin"
  BY <1>4 DEF Sizes, Cards
<1>5. CASE s = "ip"
  BY <1>5 DEF Sizes, Cards
<1>6. CASE s = "ipv6"
  BY <1>6 DEF Sizes, Cards
<1>7. CASE s = "reference"
  BY <1>7 DEF Sizes, Cards
<1>8. CASE s = "number"
  BY <1>8 DEF Sizes, Cards
<1>9. CASE s \notin {"card", "groupedCard", "sin", "dashedSin", "ip", "ipv6",
                     "reference", "number"}
  BY <1>9 DEF Sizes, Cards
<1>10. QED
  BY <1>1, <1>2, <1>3, <1>4, <1>5, <1>6, <1>7, <1>8, <1>9

(* The groups of a word have at most 16 digits, those of some at least 4.  *)
LEMMA DigitsFacts ==
    ASSUME NEW w \in WordShape
    PROVE  /\ Digits(w) \in Seq(1 .. 16)
           /\ w.shape \in Cards \cup {"sin", "reference"} =>
                \A k \in 1 .. Len(Digits(w)) : Digits(w)[k] >= 4
           /\ w.state = "whole" /\ ~w.glued => Digits(w) = Sizes(w.shape)
           /\ Digits(w) # <<>> =>
                /\ w.state # "masked"
                /\ w.shape \in {"card", "groupedCard", "sin", "dashedSin", "ip",
                                "ipv6", "reference", "number"}
<1> DEFINE s == Sizes(w.shape)
           m == Len(s)
           rest == SubSeq(s, 2, m)
<1>1. /\ s \in Seq(1 .. 16) /\ m \in Nat
      /\ w.shape \in Cards \cup {"sin", "reference"} => \A k \in 1 .. m : s[k] >= 4
      /\ w.shape \notin {"card", "groupedCard", "sin", "dashedSin", "ip", "ipv6",
                         "reference", "number"} => s = <<>>
  BY SizesFacts DEF WordShape
<1>2. Digits(w) = IF w.state = "masked" THEN <<>>
                  ELSE IF w.state = "part" \/ w.glued THEN rest ELSE s
  BY DEF Digits
<1>3. w.state \in {"whole", "part", "masked"}
  BY DEF WordShape
<1> HIDE DEF s
<1>4. \A k \in 2 .. m : s[k] \in 1 .. 16
  BY <1>1
<1>5. /\ rest \in Seq(1 .. 16) /\ Len(rest) = (IF 2 <= m THEN m - 2 + 1 ELSE 0)
      /\ \A k \in 1 .. m - 2 + 1 : rest[k] = s[2 + k - 1]
  BY <1>1, <1>4, SubSeqProperties
<1> HIDE DEF rest
<1>6. \A k \in 1 .. Len(rest) : k + 1 \in 1 .. m /\ rest[k] = s[k + 1]
  <2> SUFFICES ASSUME NEW k \in 1 .. Len(rest)
               PROVE  k + 1 \in 1 .. m /\ rest[k] = s[k + 1]
    OBVIOUS
  <2>1. 2 <= m /\ k \in 1 .. m - 2 + 1
    BY <1>1, <1>5
  <2>2. 2 + k - 1 = k + 1 /\ k + 1 \in 1 .. m
    BY <1>1, <2>1
  <2>3. QED
    BY <1>5, <2>1, <2>2
<1>7. s = <<>> => rest = <<>>
  <2>1. s = <<>> => m = 0
    BY <1>1 DEF m
  <2>2. m = 0 => Len(rest) = 0
    BY <1>5
  <2>3. QED
    BY <1>5, <2>1, <2>2
<1> HIDE DEF m
<1>8. CASE Digits(w) = <<>>
  <2>1. w.state = "whole" /\ ~w.glued => Digits(w) = s
    BY <1>2
  <2>2. QED
    BY <1>8, <2>1 DEF s
<1>9. CASE Digits(w) = rest /\ (w.state = "part" \/ w.glued) /\ w.state # "masked"
  <2>1. w.shape \in Cards \cup {"sin", "reference"} =>
          \A k \in 1 .. Len(rest) : rest[k] >= 4
    BY <1>1, <1>6
  <2>2. rest # <<>> => w.shape \in {"card", "groupedCard", "sin", "dashedSin",
                                    "ip", "ipv6", "reference", "number"}
    BY <1>1, <1>7
  <2>3. QED
    BY <1>5, <1>9, <2>1, <2>2
<1>10. CASE Digits(w) = s /\ w.state # "masked"
  BY <1>1, <1>10 DEF s, m
<1>11. QED
  BY <1>2, <1>3, <1>8, <1>9, <1>10

(* Where the groups of the words are among all groups.                     *)
GroupsAt(words, n, gs, start) ==
    /\ \A i \in 1 .. n : \A k \in 1 .. Len(Digits(words[i])) :
         /\ start[i] + k \in 1 .. Len(gs)
         /\ gs[start[i] + k].word = i
         /\ gs[start[i] + k].size = Digits(words[i])[k]
         /\ gs[start[i] + k].joined <=>
              IF k = 1 THEN Touch(words, i - 1) /\ Digits(words[i - 1]) # <<>>
                       ELSE words[i].shape \notin IpShapes
    /\ \A g \in 1 .. Len(gs) :
         \E i \in 1 .. n : \E k \in 1 .. Len(Digits(words[i])) : g = start[i] + k
    /\ \A i, j \in 1 .. n : i < j => start[i] + Len(Digits(words[i])) <= start[j]

LEMMA GroupsPlaced ==
    ASSUME NEW n \in Nat, NEW words \in [1 .. n -> WordShape]
    PROVE  /\ Groups(words) \in Seq(GroupShape)
           /\ \E start \in [1 .. n -> Nat] : GroupsAt(words, n, Groups(words), start)
<1> DEFINE d(i) == Digits(words[i])
           joined(i, k) == IF k = 1 THEN Touch(words, i - 1) /\ d(i - 1) # <<>>
                                    ELSE words[i].shape \notin IpShapes
           group(i, k) == [word |-> i, size |-> d(i)[k], joined |-> joined(i, k)]
           seqs == [i \in 1 .. n |-> [k \in DOMAIN d(i) |-> group(i, k)]]
<1>1. \A i \in 1 .. n : /\ d(i) \in Seq(1 .. 16) /\ Len(d(i)) \in Nat
                        /\ DOMAIN d(i) = 1 .. Len(d(i))
                        /\ \A k \in 1 .. Len(d(i)) : d(i)[k] \in 1 .. 16
  BY DigitsFacts
<1>2. Groups(words) = FlattenSeq(seqs)
  <2>1. DOMAIN words = 1 .. n
    OBVIOUS
  <2>2. QED
    BY <2>1 DEF Groups
<1> HIDE DEF d
<1>3. \A i \in 1 .. n : \A k \in 1 .. Len(d(i)) : joined(i, k) \in BOOLEAN
  BY DEF Touch
<1>4. \A i \in 1 .. n : \A k \in 1 .. Len(d(i)) :
        /\ group(i, k) \in GroupShape /\ group(i, k).word = i
        /\ group(i, k).size = d(i)[k] /\ group(i, k).joined = joined(i, k)
  <2> HIDE DEF joined
  <2>1. QED
    BY <1>1, <1>3 DEF GroupShape
<1> HIDE DEF group
<1>5. \A i \in 1 .. n : /\ seqs[i] \in Seq(GroupShape) /\ Len(seqs[i]) = Len(d(i))
                        /\ \A k \in 1 .. Len(d(i)) : seqs[i][k] = group(i, k)
  <2> SUFFICES ASSUME NEW i \in 1 .. n
               PROVE  /\ seqs[i] \in Seq(GroupShape) /\ Len(seqs[i]) = Len(d(i))
                      /\ \A k \in 1 .. Len(d(i)) : seqs[i][k] = group(i, k)
    OBVIOUS
  <2>1. seqs[i] = [k \in 1 .. Len(d(i)) |-> group(i, k)]
    BY <1>1
  <2>2. Len(d(i)) \in Nat /\ seqs[i] \in [1 .. Len(d(i)) -> GroupShape]
    BY <1>1, <1>4, <2>1
  <2>3. QED
    BY <2>1, <2>2
<1>6. seqs \in [1 .. n -> Seq(GroupShape)]
  BY <1>5
<1> HIDE DEF seqs
<1> DEFINE gs == FlattenSeq(seqs)
<1>7. gs \in Seq(GroupShape) /\ \E start \in [1 .. n -> Nat] : Placed(seqs, n, gs, start)
  BY <1>6, FlattenPlaces
<1>8. PICK start \in [1 .. n -> Nat] : Placed(seqs, n, gs, start)
  BY <1>7
<1> HIDE DEF gs
<1>9. ASSUME NEW i \in 1 .. n, NEW k \in 1 .. Len(d(i))
      PROVE  /\ start[i] + k \in 1 .. Len(gs)
             /\ gs[start[i] + k].word = i
             /\ gs[start[i] + k].size = d(i)[k]
             /\ gs[start[i] + k].joined <=> joined(i, k)
  <2>1. k \in 1 .. Len(seqs[i])
    BY <1>5
  <2>2. start[i] + k \in 1 .. Len(gs) /\ gs[start[i] + k] = seqs[i][k]
    BY <1>8, <2>1, Zenon DEF Placed
  <2>3. gs[start[i] + k] = group(i, k)
    BY <1>5, <2>2
  <2> HIDE DEF joined
  <2>4. QED
    BY <1>4, <2>2, <2>3
<1>10. \A g \in 1 .. Len(gs) :
         \E i \in 1 .. n : \E k \in 1 .. Len(d(i)) : g = start[i] + k
  <2> SUFFICES ASSUME NEW g \in 1 .. Len(gs)
               PROVE  \E i \in 1 .. n : \E k \in 1 .. Len(d(i)) : g = start[i] + k
    OBVIOUS
  <2>1. PICK i \in 1 .. n : \E k \in 1 .. Len(seqs[i]) : g = start[i] + k
    BY <1>8, Zenon DEF Placed
  <2>2. QED
    BY <1>5, <2>1
<1>11. \A i, j \in 1 .. n : i < j => start[i] + Len(d(i)) <= start[j]
  <2>1. \A i, j \in 1 .. n : i < j => start[i] + Len(seqs[i]) <= start[j]
    BY <1>8, Zenon DEF Placed
  <2>2. QED
    BY <1>5, <2>1
<1>12. GroupsAt(words, n, gs, start)
  BY <1>9, <1>10, <1>11 DEF GroupsAt, d
<1>13. QED
  BY <1>2, <1>7, <1>12 DEF gs

(* The group after the last one of a word, if it is joined, is the first   *)
(* of the next word, and only a blank is between them.                     *)
LEMMA NextGroup ==
    ASSUME NEW n \in Nat, NEW words \in [1 .. n -> WordShape],
           NEW start \in [1 .. n -> Nat],
           GroupsAt(words, n, Groups(words), start),
           NEW i \in 1 .. n, NEW g \in 1 .. Len(Groups(words)),
           g = start[i] + Len(Digits(words[i])) + 1, Groups(words)[g].joined
    PROVE  /\ Touch(words, i) /\ i + 1 \in 1 .. n /\ Digits(words[i + 1]) # <<>>
           /\ Groups(words)[g].size = Digits(words[i + 1])[1]
<1> DEFINE gs == Groups(words)
           l(j) == Len(Digits(words[j]))
           t == start[i] + Len(Digits(words[i]))
<1>1. \A j \in 1 .. n : l(j) \in Nat /\ start[j] \in Nat
  BY DigitsFacts
<1>2. \A j \in 1 .. n : Digits(words[j]) # <<>> => l(j) # 0
  BY DigitsFacts
<1>3. PICK j \in 1 .. n : \E k \in 1 .. l(j) : g = start[j] + k
  BY DEF GroupsAt
<1>4. PICK k \in 1 .. l(j) : g = start[j] + k
  BY <1>3
<1>5. /\ gs[start[j] + k].size = Digits(words[j])[k]
      /\ gs[start[j] + k].joined <=>
           IF k = 1 THEN Touch(words, j - 1) /\ Digits(words[j - 1]) # <<>>
                    ELSE words[j].shape \notin IpShapes
  BY DEF GroupsAt
<1>6. \A a, b \in 1 .. n : a < b => start[a] + l(a) <= start[b]
  BY DEF GroupsAt
<1>7. /\ t = start[i] + l(i) /\ g = t + 1
      /\ k \in Nat /\ k >= 1 /\ k <= l(j)
  BY <1>1
<1> HIDE DEF l, gs, t
<1>8. i < j /\ k = 1 /\ start[j] = t
  <2>1. /\ start[i] \in Nat /\ start[j] \in Nat /\ l(i) \in Nat /\ l(j) \in Nat
        /\ i \in Nat /\ j \in Nat
    BY <1>1
  <2>2. ~(j < i)
    <3> SUFFICES ASSUME j < i PROVE FALSE
      OBVIOUS
    <3> DEFINE a == start[i]
               b == start[j]
               c == l(i)
               d == l(j)
    <3>1. /\ b + d <= a /\ t = a + c /\ t + 1 = b + k /\ k <= d /\ k \in Nat
          /\ a \in Nat /\ b \in Nat /\ c \in Nat /\ d \in Nat
      BY <1>4, <1>6, <1>7, <2>1
    <3> HIDE DEF a, b, c, d
    <3>2. QED
      BY <3>1
  <2>3. j # i
    BY <1>4, <1>7, <2>1
  <2>4. i < j
    BY <2>1, <2>2, <2>3
  <2>5. start[i] + l(i) <= start[j]
    BY <1>6, <2>4
  <2>6. k = 1 /\ start[j] = t
    <3> DEFINE b == start[j]
    <3>1. t <= b
      BY <1>7, <2>5
    <3>2. t + 1 = b + k
      BY <1>4, <1>7
    <3>3. k >= 1 /\ k \in Nat /\ b \in Nat
      BY <1>7, <2>1
    <3> HIDE DEF b
    <3>4. t \in Nat
      BY <1>7, <2>1
    <3>5. k = 1 /\ b = t
      BY <3>1, <3>2, <3>3, <3>4
    <3>6. QED
      BY <3>5 DEF b
  <2>7. QED
    BY <2>4, <2>6
<1>9. Touch(words, j - 1) /\ Digits(words[j - 1]) # <<>>
  BY <1>4, <1>5, <1>8 DEF gs
<1>10. j - 1 \in 1 .. n /\ l(j - 1) # 0
  <2>1. j - 1 \in 1 .. n
    BY <1>8
  <2>2. QED
    BY <1>2, <1>9, <2>1
<1>11. j - 1 = i
  <2> SUFFICES ASSUME i < j - 1 PROVE FALSE
    BY <1>8
  <2>1. start[i] + l(i) <= start[j - 1] /\ start[j - 1] + l(j - 1) <= start[j]
    BY <1>6, <1>10
  <2>2. start[i] + l(i) = start[j] /\ l(j - 1) \in Nat /\ start[j - 1] \in Nat
    BY <1>1, <1>7, <1>8, <1>10
  <2>3. start[j] \in Nat
    BY <1>1
  <2>4. l(j - 1) >= 1
    BY <1>10, <2>2
  <2> HIDE DEF l
  <2>5. QED
    BY <2>1, <2>2, <2>3, <2>4
<1>12. j = i + 1
  BY <1>11
<1>13. l(j) # 0
  BY <1>7, <1>8
<1>14. Digits(words[j]) # <<>>
  BY <1>13 DEF l
<1>15. QED
  BY <1>4, <1>5, <1>8, <1>9, <1>11, <1>12, <1>14 DEF gs

(* The group before the first one of a word, if that is joined, is the     *)
(* last of the word before, and only a blank is between them.              *)
LEMMA PreviousGroup ==
    ASSUME NEW n \in Nat, NEW words \in [1 .. n -> WordShape],
           NEW start \in [1 .. n -> Nat],
           GroupsAt(words, n, Groups(words), start),
           NEW i \in 1 .. n, Digits(words[i]) # <<>>,
           Groups(words)[start[i] + 1].joined
    PROVE  /\ Touch(words, i - 1) /\ i - 1 \in 1 .. n /\ Digits(words[i - 1]) # <<>>
           /\ start[i] \in 1 .. Len(Groups(words))
           /\ start[i] = start[i - 1] + Len(Digits(words[i - 1]))
           /\ Groups(words)[start[i]].size
                = Digits(words[i - 1])[Len(Digits(words[i - 1]))]
<1> DEFINE gs == Groups(words)
           l(j) == Len(Digits(words[j]))
<1>1. \A j \in 1 .. n : l(j) \in Nat /\ start[j] \in Nat
  BY DigitsFacts
<1>2. \A j \in 1 .. n : Digits(words[j]) # <<>> => l(j) # 0
  BY DigitsFacts
<1>3. 1 \in 1 .. l(i)
  BY <1>1, <1>2
<1>4. /\ start[i] + 1 \in 1 .. Len(gs)
      /\ gs[start[i] + 1].joined <=> Touch(words, i - 1) /\ Digits(words[i - 1]) # <<>>
  BY <1>3 DEF GroupsAt
<1>5. Touch(words, i - 1) /\ Digits(words[i - 1]) # <<>>
  BY <1>4
<1>6. i - 1 \in 1 .. n
  BY <1>5 DEF Touch
<1>7. \A a, b \in 1 .. n : a < b => start[a] + l(a) <= start[b]
  BY DEF GroupsAt
<1>8. start[i - 1] + l(i - 1) <= start[i] /\ l(i - 1) \in Nat \ {0}
  BY <1>1, <1>2, <1>5, <1>6, <1>7
<1>9. start[i] \in 1 .. Len(gs)
  <2>1. Groups(words) \in Seq(GroupShape)
    BY GroupsPlaced
  <2>2. Len(gs) \in Nat
    BY <2>1
  <2>3. start[i] >= 1 /\ start[i] \in Nat
    BY <1>1, <1>6, <1>8
  <2> HIDE DEF gs
  <2>4. QED
    BY <1>4, <2>2, <2>3
<1>10. PICK j \in 1 .. n : \E k \in 1 .. l(j) : start[i] = start[j] + k
  BY <1>9 DEF GroupsAt
<1>11. PICK k \in 1 .. l(j) : start[i] = start[j] + k
  BY <1>10
<1>12. gs[start[j] + k].size = Digits(words[j])[k]
  BY DEF GroupsAt
<1> HIDE DEF l, gs
<1>13. k \in Nat /\ k >= 1 /\ k <= l(j)
  BY <1>1
<1>14. j = i - 1
  <2>1. ~(i <= j)
    BY <1>1, <1>7, <1>11, <1>13
  <2>2. ~(j < i - 1)
    <3> SUFFICES ASSUME j < i - 1 PROVE FALSE
      OBVIOUS
    <3>1. start[j] + l(j) <= start[i - 1]
      BY <1>6, <1>7
    <3>2. start[j] \in Nat /\ l(j) \in Nat /\ start[i - 1] \in Nat
      BY <1>1, <1>6
    <3>3. QED
      BY <1>8, <1>11, <1>13, <3>1, <3>2
  <2>3. QED
    BY <1>6, <2>1, <2>2
<1>15. k = l(i - 1)
  <2>1. start[i - 1] \in Nat
    BY <1>1, <1>6
  <2>2. QED
    BY <1>8, <1>11, <1>13, <1>14, <2>1
<1>16. QED
  BY <1>5, <1>6, <1>9, <1>11, <1>12, <1>14, <1>15 DEF l, gs

(* A card or a SIN is a match by itself.                                   *)
LEMMA WordMatches ==
    ASSUME NEW n \in Nat, NEW words \in [1 .. n -> WordShape],
           NEW start \in [1 .. n -> Nat],
           GroupsAt(words, n, Groups(words), start),
           NEW i \in 1 .. n, words[i].state = "whole", ~words[i].glued, NEW re,
           \/ words[i].shape \in Cards /\ re = CardRe
           \/ words[i].shape \in {"sin", "dashedSin"} /\ re = SinRe
    PROVE  LET gs == Groups(words)
               s == start[i] + 1
               t == start[i] + Len(Digits(words[i]))
           IN  /\ s \in 1 .. Len(gs) /\ t \in s .. Len(gs)
               /\ gs[s].word = i /\ gs[t].word = i
               /\ t \in MatchEnds(gs, re, s)
               /\ re = CardRe =>
                    /\ DigitsUpTo(gs)[t] - DigitsUpTo(gs)[s] + gs[s].size = 16
                    /\ IF words[i].shape = "card" THEN s = t /\ gs[s].size = 16
                                                  ELSE t = s + 3
<1> DEFINE gs == Groups(words)
           s == start[i] + 1
           d == Digits(words[i])
           upTo == DigitsUpTo(gs)
           shape == words[i].shape
<1>1. words[i] \in WordShape /\ shape \in Shapes
  BY DEF WordShape
<1>2. d = Sizes(shape)
  BY <1>1, DigitsFacts
<1>3. /\ shape = "card" => d = <<16>>
      /\ shape = "groupedCard" => d = <<4, 4, 4, 4>>
      /\ shape = "sin" => d = <<9>>
      /\ shape = "dashedSin" => d = <<3, 3, 3>>
  BY <1>1, <1>2, SizesFacts
<1>4. gs \in Seq(GroupShape) /\ Len(gs) \in Nat
  <2>1. gs \in Seq(GroupShape)
    BY GroupsPlaced
  <2>2. QED
    BY <2>1
<1>5. \A k \in 1 .. Len(d) :
        /\ start[i] + k \in 1 .. Len(gs) /\ gs[start[i] + k].word = i
        /\ gs[start[i] + k].size = d[k]
        /\ k # 1 /\ shape \notin IpShapes => gs[start[i] + k].joined
  BY DEF GroupsAt
<1>6. \A g \in 1 .. Len(gs) :
        /\ upTo[g] \in Nat /\ (g # 1 => upTo[g] = gs[g].size + upTo[g - 1])
  BY <1>4, DigitsAddUp
<1>7. start[i] \in Nat
  OBVIOUS
<1> HIDE DEF gs, d, upTo, shape
<1>8. \A e \in s .. Len(gs) :
         /\ upTo[e] - upTo[s] + gs[s].size \in re.digits
         /\ \A k \in s .. e : gs[k].size \in re.sizes
         /\ \A k \in s + 1 .. e : gs[k].joined
         => e \in MatchEnds(gs, re, s)
  BY DEF MatchEnds, upTo
<1>9. CASE shape = "card"
  <2>1. Len(d) = 1 /\ d[1] = 16 /\ re = CardRe
    BY <1>3, <1>9 DEF shape
  <2>2. s \in 1 .. Len(gs) /\ gs[s].word = i /\ gs[s].size = 16
    BY <1>5, <2>1
  <2>3. upTo[s] - upTo[s] + gs[s].size = 16
    BY <1>6, <2>2
  <2>4. s \in MatchEnds(gs, re, s)
    <3>1. s \in s .. Len(gs) /\ \A k \in s .. s : k = s
      BY <1>4, <1>7, <2>2
    <3>2. \A k \in s + 1 .. s : FALSE
      BY <1>7
    <3>3. 16 \in re.sizes /\ 16 \in re.digits
      BY <2>1 DEF CardRe
    <3>4. QED
      BY <1>8, <2>2, <2>3, <3>1, <3>2, <3>3
  <2>5. start[i] + Len(d) = s /\ s \in s .. Len(gs)
    BY <1>4, <1>7, <2>1, <2>2
  <2>6. QED
    BY <1>9, <2>1, <2>2, <2>3, <2>4, <2>5 DEF gs, d, upTo, shape
<1>10. CASE shape = "sin"
  <2>1. Len(d) = 1 /\ d[1] = 9 /\ re = SinRe
    BY <1>3, <1>10 DEF shape, Cards
  <2>2. s \in 1 .. Len(gs) /\ gs[s].word = i /\ gs[s].size = 9
    BY <1>5, <2>1
  <2>3. upTo[s] - upTo[s] + gs[s].size = 9
    BY <1>6, <2>2
  <2>4. s \in MatchEnds(gs, re, s)
    <3>1. s \in s .. Len(gs) /\ \A k \in s .. s : k = s
      BY <1>4, <1>7, <2>2
    <3>2. \A k \in s + 1 .. s : FALSE
      BY <1>7
    <3>3. QED
      BY <1>8, <2>1, <2>2, <2>3, <3>1, <3>2 DEF SinRe
  <2>5. start[i] + Len(d) = s /\ s \in s .. Len(gs)
    BY <1>4, <1>7, <2>1, <2>2
  <2>6. re # CardRe
    <3>1. 9 \in {9} /\ 13 \notin {9} /\ 13 \in 13 .. 19
      OBVIOUS
    <3>2. SinRe.digits = {9} /\ CardRe.digits = 13 .. 19
      BY DEF SinRe, CardRe
    <3>3. QED
      BY <2>1, <3>1, <3>2
  <2>7. QED
    BY <2>1, <2>2, <2>4, <2>5, <2>6 DEF gs, d
<1>11. CASE shape = "groupedCard"
  <2>1. Len(d) = 4 /\ \A k \in 1 .. 4 : d[k] = 4 /\ re = CardRe
    BY <1>3, <1>11 DEF shape
  <2>2. re = CardRe
    BY <1>11 DEF shape
  <2>3. /\ 1 \in 1 .. Len(d) /\ 2 \in 1 .. Len(d) /\ 3 \in 1 .. Len(d) /\ 4 \in 1 .. Len(d)
        /\ d[1] = 4 /\ d[2] = 4 /\ d[3] = 4 /\ d[4] = 4
    BY <2>1
  <2>4. /\ s \in 1 .. Len(gs) /\ gs[s].word = i /\ gs[s].size = 4
        /\ start[i] + 2 \in 1 .. Len(gs) /\ gs[start[i] + 2].size = 4
        /\ start[i] + 3 \in 1 .. Len(gs) /\ gs[start[i] + 3].size = 4
        /\ start[i] + 4 \in 1 .. Len(gs) /\ gs[start[i] + 4].size = 4
        /\ gs[start[i] + 4].word = i
    BY <1>5, <2>3
  <2>5. gs[start[i] + 2].joined /\ gs[start[i] + 3].joined /\ gs[start[i] + 4].joined
    BY <1>5, <1>11, <2>3 DEF IpShapes
  <2>6. /\ upTo[start[i] + 2] = 4 + upTo[s] /\ upTo[start[i] + 3] = 4 + upTo[start[i] + 2]
        /\ upTo[start[i] + 4] = 4 + upTo[start[i] + 3]
    <3>1. /\ start[i] + 2 # 1 /\ (start[i] + 2) - 1 = s
          /\ start[i] + 3 # 1 /\ (start[i] + 3) - 1 = start[i] + 2
          /\ start[i] + 4 # 1 /\ (start[i] + 4) - 1 = start[i] + 3
      BY <1>7
    <3>2. upTo[start[i] + 2] = 4 + upTo[s]
      BY <1>6, <2>4, <3>1
    <3>3. upTo[start[i] + 3] = 4 + upTo[start[i] + 2]
      BY <1>6, <2>4, <3>1
    <3>4. upTo[start[i] + 4] = 4 + upTo[start[i] + 3]
      BY <1>6, <2>4, <3>1
    <3>5. QED
      BY <3>2, <3>3, <3>4
  <2> DEFINE t == start[i] + 4
  <2>7. upTo[t] - upTo[s] + gs[s].size = 16
    <3>1. /\ upTo[s] \in Nat /\ upTo[start[i] + 2] \in Nat
          /\ upTo[start[i] + 3] \in Nat /\ upTo[start[i] + 4] \in Nat
      BY <1>6, <2>4
    <3> DEFINE a == upTo[s]
               b == upTo[start[i] + 2]
               c == upTo[start[i] + 3]
               e == upTo[start[i] + 4]
    <3>2. b = 4 + a /\ c = 4 + b /\ e = 4 + c
      BY <2>6
    <3>3. a \in Nat /\ b \in Nat /\ c \in Nat /\ e \in Nat
      BY <3>1
    <3>4. upTo[t] = e /\ upTo[s] = a
      OBVIOUS
    <3> HIDE DEF a, b, c, e, t, s
    <3>5. e - a + 4 = 16
      BY <3>2, <3>3
    <3>6. QED
      BY <2>4, <3>4, <3>5
  <2>8. t \in s .. Len(gs) /\ t = s + 3 /\ t = start[i] + Len(d)
    BY <1>4, <1>7, <2>1, <2>4
  <2>9. \A k \in s .. t : k \in {s, start[i] + 2, start[i] + 3, t}
    <3>1. \A x \in Nat : \A k \in x + 1 .. x + 4 : k \in {x + 1, x + 2, x + 3, x + 4}
      OBVIOUS
    <3>2. QED
      BY <1>7, <3>1
  <2>10. \A k \in s + 1 .. t : k \in {start[i] + 2, start[i] + 3, t}
    <3>1. \A x \in Nat : \A k \in (x + 1) + 1 .. x + 4 : k \in {x + 2, x + 3, x + 4}
      OBVIOUS
    <3>2. QED
      BY <1>7, <3>1
  <2> HIDE DEF t
  <2>11. t \in MatchEnds(gs, re, s)
    <3>1. \A k \in s .. t : gs[k].size \in re.sizes
      <4>1. 4 \in re.sizes
        BY <2>2 DEF CardRe
      <4>2. \A k \in s .. t : gs[k].size = 4
        BY <2>4, <2>9 DEF t
      <4>3. QED
        BY <4>1, <4>2
    <3>2. \A k \in s + 1 .. t : gs[k].joined
      BY <2>5, <2>10 DEF t
    <3>3. upTo[t] - upTo[s] + gs[s].size \in re.digits
      BY <2>2, <2>7 DEF CardRe
    <3>4. QED
      BY <1>8, <2>8, <3>1, <3>2, <3>3
  <2>12. gs[t].word = i
    BY <2>4 DEF t
  <2>13. QED
    BY <1>11, <2>4, <2>7, <2>8, <2>11, <2>12 DEF gs, d, upTo, shape
<1>12. CASE shape = "dashedSin"
  <2>1. Len(d) = 3 /\ d[1] = 3 /\ d[2] = 3 /\ d[3] = 3
    BY <1>3, <1>12
  <2>2. re = SinRe
    BY <1>12 DEF shape, Cards
  <2>3. 1 \in 1 .. Len(d) /\ 2 \in 1 .. Len(d) /\ 3 \in 1 .. Len(d)
    BY <2>1
  <2>4. /\ s \in 1 .. Len(gs) /\ gs[s].word = i /\ gs[s].size = 3
        /\ start[i] + 2 \in 1 .. Len(gs) /\ gs[start[i] + 2].size = 3
        /\ start[i] + 3 \in 1 .. Len(gs) /\ gs[start[i] + 3].size = 3
        /\ gs[start[i] + 3].word = i
    BY <1>5, <2>1, <2>3
  <2>5. gs[start[i] + 2].joined /\ gs[start[i] + 3].joined
    BY <1>5, <1>12, <2>3 DEF IpShapes
  <2>6. /\ upTo[start[i] + 2] = 3 + upTo[s]
        /\ upTo[start[i] + 3] = 3 + upTo[start[i] + 2]
    <3>1. /\ start[i] + 2 # 1 /\ (start[i] + 2) - 1 = s
          /\ start[i] + 3 # 1 /\ (start[i] + 3) - 1 = start[i] + 2
      BY <1>7
    <3>2. upTo[start[i] + 2] = 3 + upTo[s]
      BY <1>6, <2>4, <3>1
    <3>3. upTo[start[i] + 3] = 3 + upTo[start[i] + 2]
      BY <1>6, <2>4, <3>1
    <3>4. QED
      BY <3>2, <3>3
  <2> DEFINE t == start[i] + 3
  <2>7. upTo[t] - upTo[s] + gs[s].size = 9
    <3>1. /\ upTo[s] \in Nat /\ upTo[start[i] + 2] \in Nat
          /\ upTo[start[i] + 3] \in Nat
      BY <1>6, <2>4
    <3> DEFINE a == upTo[s]
               b == upTo[start[i] + 2]
               c == upTo[start[i] + 3]
    <3>2. b = 3 + a /\ c = 3 + b
      BY <2>6
    <3>3. a \in Nat /\ b \in Nat /\ c \in Nat
      BY <3>1
    <3>4. upTo[t] = c /\ upTo[s] = a
      OBVIOUS
    <3> HIDE DEF a, b, c, t, s
    <3>5. c - a + 3 = 9
      BY <3>2, <3>3
    <3>6. QED
      BY <2>4, <3>4, <3>5
  <2>8. t \in s .. Len(gs) /\ t = start[i] + Len(d)
    BY <1>4, <1>7, <2>1, <2>4
  <2>9. \A k \in s .. t : k \in {s, start[i] + 2, t}
    <3>1. \A x \in Nat : \A k \in x + 1 .. x + 3 : k \in {x + 1, x + 2, x + 3}
      OBVIOUS
    <3>2. QED
      BY <1>7, <3>1
  <2>10. \A k \in s + 1 .. t : k \in {start[i] + 2, t}
    <3>1. \A x \in Nat : \A k \in (x + 1) + 1 .. x + 3 : k \in {x + 2, x + 3}
      OBVIOUS
    <3>2. QED
      BY <1>7, <3>1
  <2> HIDE DEF t
  <2>11. t \in MatchEnds(gs, re, s)
    <3>1. \A k \in s .. t : gs[k].size \in re.sizes
      <4>1. 3 \in re.sizes
        BY <2>2 DEF SinRe
      <4>2. \A k \in s .. t : gs[k].size = 3
        BY <2>4, <2>9 DEF t
      <4>3. QED
        BY <4>1, <4>2
    <3>2. \A k \in s + 1 .. t : gs[k].joined
      BY <2>5, <2>10 DEF t
    <3>3. upTo[t] - upTo[s] + gs[s].size \in re.digits
      BY <2>2, <2>7 DEF SinRe
    <3>4. QED
      BY <1>8, <2>8, <3>1, <3>2, <3>3
  <2>12. gs[t].word = i
    BY <2>4 DEF t
  <2>13. re # CardRe
    <3>1. SinRe.digits = {9} /\ CardRe.digits = 13 .. 19 /\ 13 \in 13 .. 19 /\ 13 \notin {9}
      BY DEF SinRe, CardRe
    <3>2. QED
      BY <2>2, <3>1
  <2>14. QED
    BY <2>4, <2>8, <2>11, <2>12, <2>13 DEF gs, d
<1>13. QED
  BY <1>9, <1>10, <1>11, <1>12 DEF shape, Cards

(* If a match can begin at a group, the scan reaches that group.           *)
LEMMA ScanReaches ==
    ASSUME NEW gs \in Seq(GroupShape), NEW re, NEW g \in 1 .. Len(gs),
           MatchEnds(gs, re, g) # {}
    PROVE  /\ Scan(gs, re)[g] >= g
           /\ (g = 1 \/ Scan(gs, re)[g - 1] < g) =>
                Scan(gs, re)[g] = Max(MatchEnds(gs, re, g))
<1> DEFINE last == Scan(gs, re)
           earlier == IF g = 1 THEN 0 ELSE last[g - 1]
           E == MatchEnds(gs, re, g)
<1>1. last[g] = ScanStep(gs, re, g, earlier)
  BY ScanSteps
<1>2. earlier \in Nat
  <2>1. Len(gs) \in Nat /\ \A k \in 1 .. Len(gs) : last[k] \in 0 .. Len(gs)
    BY ScanSteps
  <2>2. g # 1 => g - 1 \in 1 .. Len(gs)
    BY <2>1
  <2> HIDE DEF last
  <2>3. QED
    BY <2>1, <2>2
<1>3. E \in SUBSET (1 .. Len(gs)) /\ Len(gs) \in Nat /\ \A e \in E : e >= g
  BY EndsWithin
<1> HIDE DEF last, E
<1>4. Max(E) >= g
  <2>1. Max(E) \in E
    BY <1>3, GreatestNumber DEF E
  <2>2. QED
    BY <1>3, <2>1
<1>5. last[g] = IF earlier >= g THEN earlier ELSE Max(E)
  BY <1>1 DEF ScanStep, E
<1> DEFINE early == earlier
<1>6. (g = 1 \/ last[g - 1] < g) => ~(earlier >= g)
  BY <1>2
<1> HIDE DEF earlier
<1>7. QED
  BY <1>2, <1>4, <1>5, <1>6 DEF last, E

(* A SIN has a digit in a match of SIN_RE.                                 *)
LEMMA SinIsMatched ==
    ASSUME NEW n \in Nat, NEW words \in [1 .. n -> WordShape], NEW i \in 1 .. n,
           words[i].shape \in {"sin", "dashedSin"}, words[i].state = "whole",
           ~words[i].glued
    PROVE  \E g \in DOMAIN Groups(words) :
              /\ Groups(words)[g].word = i
              /\ Scan(Groups(words), SinRe)[g] >= g
<1>1. PICK start \in [1 .. n -> Nat] : GroupsAt(words, n, Groups(words), start)
  BY GroupsPlaced
<1> DEFINE s == start[i] + 1
<1>2. Groups(words) \in Seq(GroupShape)
  BY GroupsPlaced
<1>3. /\ s \in 1 .. Len(Groups(words)) /\ Groups(words)[s].word = i
      /\ MatchEnds(Groups(words), SinRe, s) # {}
  BY <1>1, WordMatches
<1>4. Scan(Groups(words), SinRe)[s] >= s
  BY <1>2, <1>3, ScanReaches
<1>5. s \in DOMAIN Groups(words)
  BY <1>2, <1>3
<1>6. QED
  BY <1>3, <1>4, <1>5

(* What comes between the first and the last group of a match counts: it   *)
(* has at least the digits of two neighbouring groups in it.               *)
LEMMA SpanAtLeast ==
    ASSUME NEW gs \in Seq(GroupShape), NEW s \in 2 .. Len(gs),
           NEW h \in 1 .. s - 1, NEW e \in s .. Len(gs)
    PROVE  LET upTo == DigitsUpTo(gs) IN
           upTo[e] - upTo[h] + gs[h].size >= gs[s - 1].size + gs[s].size
<1> DEFINE upTo == DigitsUpTo(gs)
           n == Len(gs)
<1>1. /\ n \in Nat /\ s \in 1 .. n /\ s - 1 \in 1 .. n /\ s # 1
      /\ h \in 1 .. n /\ e \in 1 .. n
  OBVIOUS
<1>2. \A g \in 1 .. n : /\ upTo[g] \in Nat
                        /\ g # 1 => upTo[g] = gs[g].size + upTo[g - 1]
  BY DigitsAddUp
<1>3. \A g \in 1 .. n : gs[g].size \in Nat
  BY GroupFacts
<1>4. upTo[s] <= upTo[e]
  BY <1>1, DigitsGrow
<1>5. upTo[s] = gs[s].size + upTo[s - 1]
  BY <1>1, <1>2
<1>6. upTo[s - 1] - upTo[h] + gs[h].size >= gs[s - 1].size
  <2>1. CASE h = s - 1
    <3>1. upTo[h] \in Nat /\ gs[h].size \in Nat
      BY <1>1, <1>2, <1>3
    <3> HIDE DEF upTo
    <3>2. QED
      BY <2>1, <3>1
  <2>2. CASE h # s - 1
    <3>1. /\ s - 1 # 1 /\ (s - 1) - 1 = s - 2 /\ s - 2 \in 1 .. n
          /\ s - 2 \in h .. n
      BY <1>1, <2>2
    <3>2. upTo[h] <= upTo[s - 2]
      BY <1>1, <3>1, DigitsGrow
    <3>3. upTo[s - 1] = gs[s - 1].size + upTo[s - 2]
      BY <1>1, <1>2, <3>1
    <3>4. /\ upTo[h] \in Nat /\ upTo[s - 2] \in Nat /\ upTo[s - 1] \in Nat
          /\ gs[h].size \in Nat /\ gs[s - 1].size \in Nat
      BY <1>1, <1>2, <1>3, <3>1
    <3> DEFINE a == upTo[h]
               b == upTo[s - 2]
               c == upTo[s - 1]
               x == gs[h].size
               y == gs[s - 1].size
    <3>5. a <= b /\ c = y + b /\ a \in Nat /\ b \in Nat /\ x \in Nat /\ y \in Nat
      BY <3>2, <3>3, <3>4
    <3> HIDE DEF a, b, c, x, y
    <3>6. c - a + x >= y
      BY <3>5
    <3>7. QED
      BY <3>6 DEF a, c, x, y
  <2>3. QED
    BY <2>1, <2>2
<1>7. /\ upTo[s] \in Nat /\ upTo[e] \in Nat /\ upTo[s - 1] \in Nat /\ upTo[h] \in Nat
      /\ gs[s].size \in Nat /\ gs[s - 1].size \in Nat /\ gs[h].size \in Nat
  BY <1>1, <1>2, <1>3
<1>8. upTo[e] - upTo[h] + gs[h].size >= gs[s - 1].size + gs[s].size
  <2> DEFINE a == upTo[h]
             b == upTo[s - 1]
             c == upTo[s]
             d == upTo[e]
             x == gs[h].size
             y == gs[s - 1].size
             z == gs[s].size
  <2>1. /\ c <= d /\ c = z + b /\ b - a + x >= y
        /\ a \in Nat /\ b \in Nat /\ c \in Nat /\ d \in Nat
        /\ x \in Nat /\ y \in Nat /\ z \in Nat
    BY <1>4, <1>5, <1>6, <1>7
  <2> HIDE DEF a, b, c, d, x, y, z
  <2>2. d - a + x >= y + z
    BY <2>1
  <2>3. QED
    BY <2>2 DEF a, d, x, y, z
<1>9. QED
  BY <1>8 DEF upTo

(* Words as they are when the cards are looked for: what is quoted or      *)
(* assigned may be masked or, but for a card, broken.                      *)
Untouched(words, n) ==
    \A i \in 1 .. n :
        /\ ~words[i].glued
        /\ words[i].state = "part" =>
             words[i].as = "assigned" /\ words[i].shape # "card"

(* A match that begins with a card ends with it: a joined group that       *)
(* follows has four digits or more, and 16 and four are too many.          *)
LEMMA CardIsLongest ==
    ASSUME NEW n \in Nat, NEW words \in [1 .. n -> WordShape],
           Untouched(words, n), ~RunsTogether(words),
           NEW start \in [1 .. n -> Nat],
           GroupsAt(words, n, Groups(words), start),
           NEW i \in 1 .. n, words[i].shape \in Cards, words[i].state = "whole"
    PROVE  Max(MatchEnds(Groups(words), CardRe, start[i] + 1))
             = start[i] + Len(Digits(words[i]))
<1> DEFINE gs == Groups(words)
           s == start[i] + 1
           t == start[i] + Len(Digits(words[i]))
           E == MatchEnds(gs, CardRe, s)
           upTo == DigitsUpTo(gs)
<1>1. gs \in Seq(GroupShape) /\ Len(gs) \in Nat
  <2>1. gs \in Seq(GroupShape)
    BY GroupsPlaced
  <2>2. QED
    BY <2>1
<1>2. /\ s \in 1 .. Len(gs) /\ t \in s .. Len(gs) /\ t \in E
      /\ upTo[t] - upTo[s] + gs[s].size = 16
  BY WordMatches DEF Untouched
<1>3. E \in SUBSET (1 .. Len(gs))
  BY <1>2, EndsWithin
<1>4. ASSUME NEW e \in E, e > t PROVE FALSE
  <2>1. /\ e \in s .. Len(gs)
        /\ \A k \in s + 1 .. e : gs[k].joined
        /\ upTo[e] - upTo[s] + gs[s].size \in 13 .. 19
    BY DEF MatchEnds, CardRe
  <2>2. /\ t \in Nat /\ s \in Nat /\ e \in Nat
        /\ t + 1 \in s + 1 .. e /\ t + 1 \in 1 .. Len(gs) /\ e \in t + 1 .. Len(gs)
    <3> HIDE DEF t, s, gs
    <3>1. QED
      BY <1>1, <1>2, <1>4, <2>1
  <2>3. gs[t + 1].joined
    BY <2>1, <2>2
  <2>4. /\ Touch(words, i) /\ i + 1 \in 1 .. n /\ Digits(words[i + 1]) # <<>>
        /\ gs[t + 1].size = Digits(words[i + 1])[1]
    <3> DEFINE g == t + 1
    <3>1. g = start[i] + Len(Digits(words[i])) + 1
      OBVIOUS
    <3>2. g \in 1 .. Len(gs) /\ gs[g].joined
      BY <2>2, <2>3
    <3> HIDE DEF g
    <3>3. /\ Touch(words, i) /\ i + 1 \in 1 .. n /\ Digits(words[i + 1]) # <<>>
          /\ gs[g].size = Digits(words[i + 1])[1]
      BY <3>1, <3>2, NextGroup
    <3>4. QED
      BY <3>3 DEF g
  <2>5. gs[t + 1].size >= 4
    <3> DEFINE v == words[i + 1]
    <3>1. v \in WordShape /\ v.shape \in Shapes
      BY <2>4 DEF WordShape
    <3>2. v.as = "bare"
      BY <2>4 DEF Touch
    <3>3. /\ v.state # "masked"
          /\ v.shape \in {"card", "groupedCard", "sin", "dashedSin", "ip", "ipv6",
                          "reference", "number"}
      BY <2>4, <3>1, DigitsFacts
    <3>4. v.state = "whole" /\ ~v.glued
      BY <2>4, <3>1, <3>2, <3>3 DEF Untouched, WordShape
    <3>5. Digits(v) = Sizes(v.shape)
      BY <3>1, <3>4, DigitsFacts
    <3>6. v.shape \notin {"number", "ip", "dashedSin"}
      <4>1. i \in DOMAIN words
        OBVIOUS
      <4>2. QED
        BY <2>4, <4>1 DEF RunsTogether
    <3>7. v.shape \in {"card", "groupedCard", "sin", "ipv6", "reference"}
      BY <3>3, <3>6
    <3> HIDE DEF v
    <3>8. Sizes(v.shape)[1] >= 4
      BY <3>7 DEF Sizes
    <3>9. QED
      BY <2>4, <3>5, <3>8 DEF v
  <2>6. upTo[t + 1] <= upTo[e]
    BY <1>1, <2>2, DigitsGrow
  <2>7. upTo[t + 1] = gs[t + 1].size + upTo[t]
    <3>1. t + 1 # 1 /\ (t + 1) - 1 = t
      <4>1. t >= s /\ s >= 1 /\ t \in Nat /\ s \in Nat
        BY <1>1, <1>2, <2>2
      <4> HIDE DEF t, s
      <4>2. QED
        BY <4>1
    <3>2. QED
      BY <1>1, <2>2, <3>1, DigitsAddUp
  <2>8. /\ upTo[s] \in Nat /\ upTo[t] \in Nat /\ upTo[t + 1] \in Nat /\ upTo[e] \in Nat
        /\ gs[s].size \in Nat /\ gs[t + 1].size \in Nat
    <3>1. t \in 1 .. Len(gs) /\ e \in 1 .. Len(gs)
      <4> HIDE DEF t, s, gs
      <4>1. QED
        BY <1>1, <1>2, <2>1
    <3>2. QED
      BY <1>1, <1>2, <2>2, <3>1, DigitsAddUp, GroupFacts
  <2>9. upTo[e] - upTo[s] + gs[s].size >= 20
    <3> DEFINE a == upTo[s]
               b == upTo[t]
               c == upTo[t + 1]
               d == upTo[e]
               x == gs[s].size
               y == gs[t + 1].size
    <3>1. /\ b - a + x = 16 /\ y >= 4 /\ c <= d /\ c = y + b
          /\ a \in Nat /\ b \in Nat /\ c \in Nat /\ d \in Nat
          /\ x \in Nat /\ y \in Nat
      BY <1>2, <2>5, <2>6, <2>7, <2>8
    <3> HIDE DEF a, b, c, d, x, y
    <3>2. d - a + x >= 20
      BY <3>1
    <3>3. QED
      BY <3>2 DEF a, d, x
  <2> HIDE DEF upTo, gs, s, t, E
  <2>10. upTo[e] - upTo[s] + gs[s].size <= 19
    BY <2>1
  <2>11. upTo[e] - upTo[s] + gs[s].size \in Int
    BY <2>8
  <2>12. QED
    BY <2>9, <2>10, <2>11
<1> HIDE DEF E
<1>5. Max(E) \in E /\ Max(E) >= t
  BY <1>1, <1>2, <1>3, GreatestNumber
<1>6. Max(E) = t
  <2>1. t \in Nat /\ Max(E) \in Nat
    <3> HIDE DEF t, gs, s
    <3>1. t \in Nat
      BY <1>1, <1>2
    <3>2. Max(E) \in 1 .. Len(gs)
      BY <1>3, <1>5
    <3>3. QED
      BY <1>1, <3>1, <3>2
  <2>2. ~(Max(E) > t)
    BY <1>4, <1>5
  <2> HIDE DEF t
  <2>3. QED
    BY <1>5, <2>1, <2>2
<1>7. QED
  BY <1>6 DEF E

(* The scan does not pass over a card: of what may be in front of it, only *)
(* another card can have four digits or more and end a match before them.  *)
LEMMA CardIsReached ==
    ASSUME NEW n \in Nat, NEW words \in [1 .. n -> WordShape],
           Untouched(words, n), ~RunsTogether(words),
           NEW start \in [1 .. n -> Nat],
           GroupsAt(words, n, Groups(words), start),
           NEW i \in 1 .. n, words[i].shape \in Cards, words[i].state = "whole"
    PROVE  \/ start[i] + 1 = 1
           \/ Scan(Groups(words), CardRe)[start[i]] < start[i] + 1
<1> DEFINE gs == Groups(words)
           last == Scan(gs, CardRe)
           IsCard(j) == words[j].shape \in Cards /\ words[j].state = "whole"
           Reached(j) == start[j] + 1 = 1 \/ last[start[j]] < start[j] + 1
           Bad == {j \in 1 .. n : IsCard(j) /\ ~Reached(j)}
<1>1. gs \in Seq(GroupShape) /\ Len(gs) \in Nat
  <2>1. gs \in Seq(GroupShape)
    BY GroupsPlaced
  <2>2. QED
    BY <2>1
<1>2. \A g \in 1 .. Len(gs) :
         /\ last[g] \in 0 .. Len(gs)
         /\ last[g] = ScanStep(gs, CardRe, g, IF g = 1 THEN 0 ELSE last[g - 1])
  BY <1>1, ScanSteps
<1>3. SUFFICES ASSUME Bad # {} PROVE FALSE
  OBVIOUS
<1>4. PICK j \in Bad : \A m \in Bad : j <= m
  <2>1. Bad \in SUBSET Nat
    OBVIOUS
  <2>2. QED
    BY <1>3, <2>1, LeastNumber
<1> DEFINE s == start[j] + 1
           v == words[j - 1]
<1>5. j \in 1 .. n /\ IsCard(j) /\ ~Reached(j) /\ start[j] \in Nat
  BY <1>4
<1>6. /\ s \in 1 .. Len(gs)
      /\ words[j].shape = "card" => gs[s].size = 16
  BY <1>5, WordMatches DEF Untouched
<1>7. start[j] \in 1 .. Len(gs) /\ start[j] # 0
  BY <1>1, <1>5, <1>6
<1>8. last[start[j]] \in Nat /\ last[start[j]] >= s
  <2>1. last[start[j]] \in 0 .. Len(gs)
    BY <1>2, <1>7
  <2> HIDE DEF last, gs
  <2>2. QED
    BY <1>1, <1>5, <2>1
<1> DEFINE e == last[start[j]]
<1>9. PICK h \in 1 .. start[j] : e \in MatchEnds(gs, CardRe, h)
  <2>1. e # 0
    BY <1>5, <1>8
  <2>2. QED
    BY <1>1, <1>7, <2>1, ScanOrigin
<1>10. /\ e \in h .. Len(gs)
       /\ \A k \in h + 1 .. e : gs[k].joined
       /\ DigitsUpTo(gs)[e] - DigitsUpTo(gs)[h] + gs[h].size \in 13 .. 19
  BY <1>9 DEF MatchEnds, CardRe
<1>11. gs[s].joined
  <2>1. s \in h + 1 .. e
    <3> HIDE DEF last, gs
    <3>1. QED
      BY <1>5, <1>8, <1>9
  <2>2. QED
    BY <1>10, <2>1
<1>12. Digits(words[j]) # <<>>
  <2>1. words[j] \in WordShape /\ words[j].shape \in Shapes
    BY <1>5 DEF WordShape
  <2>2. Digits(words[j]) = Sizes(words[j].shape)
    BY <1>5, <2>1, DigitsFacts DEF Untouched
  <2>3. Sizes(words[j].shape) = <<16>> \/ Sizes(words[j].shape) = <<4, 4, 4, 4>>
    BY <1>5, <2>1, SizesFacts DEF Cards
  <2>4. <<16>> # <<>> /\ <<4, 4, 4, 4>> # <<>>
    OBVIOUS
  <2>5. QED
    BY <2>2, <2>3, <2>4
<1>13. /\ Touch(words, j - 1) /\ j - 1 \in 1 .. n /\ Digits(v) # <<>>
       /\ start[j] = start[j - 1] + Len(Digits(v))
       /\ gs[start[j]].size = Digits(v)[Len(Digits(v))]
  BY <1>5, <1>11, <1>12, PreviousGroup
<1>14. (j - 1) + 1 = j
  BY <1>5
<1>15. v \in WordShape /\ v.state # "masked"
       /\ v.shape \in Cards \cup {"sin", "reference"}
  <2>1. v \in WordShape
    BY <1>13
  <2>2. /\ v.state # "masked"
        /\ v.shape \in {"card", "groupedCard", "sin", "dashedSin", "ip", "ipv6",
                        "reference", "number"}
    BY <1>13, <2>1, DigitsFacts
  <2>3. v.shape \notin {"number", "ip", "ipv6", "dashedSin"}
    <3>1. j - 1 \in DOMAIN words
      BY <1>13
    <3>2. QED
      BY <1>5, <1>13, <1>14, <3>1 DEF RunsTogether
  <2>4. QED
    BY <2>1, <2>2, <2>3 DEF Cards
<1>16. CASE words[j].shape = "card"
  <2>1. Digits(v)[Len(Digits(v))] >= 4
    <3>1. Digits(v) \in Seq(1 .. 16) /\ \A k \in 1 .. Len(Digits(v)) : Digits(v)[k] >= 4
      BY <1>15, DigitsFacts
    <3>2. Len(Digits(v)) \in 1 .. Len(Digits(v))
      BY <1>13, <3>1
    <3>3. QED
      BY <3>1, <3>2
  <2>2. DigitsUpTo(gs)[e] - DigitsUpTo(gs)[h] + gs[h].size >= gs[s - 1].size + gs[s].size
    <3>1. s \in 2 .. Len(gs) /\ h \in 1 .. s - 1 /\ e \in s .. Len(gs)
      <4> HIDE DEF last, gs
      <4>1. QED
        BY <1>1, <1>5, <1>6, <1>7, <1>8, <1>9, <1>10
    <3> HIDE DEF s, e, gs
    <3>2. QED
      BY <1>1, <3>1, SpanAtLeast
  <2>3. s - 1 = start[j]
    BY <1>5
  <2>4. gs[s - 1].size >= 4 /\ gs[s].size = 16
    BY <1>6, <1>13, <1>16, <2>1, <2>3
  <2>5. gs[s - 1].size \in Nat
    BY <1>1, <1>7, <2>3, GroupFacts
  <2> DEFINE digits == DigitsUpTo(gs)[e] - DigitsUpTo(gs)[h] + gs[h].size
  <2>6. digits \in 13 .. 19
    BY <1>10
  <2>7. digits >= gs[s - 1].size + gs[s].size
    BY <2>2
  <2> DEFINE y == gs[s - 1].size
             z == gs[s].size
  <2>8. digits >= y + z /\ y >= 4 /\ y \in Nat /\ z = 16
    BY <2>4, <2>5, <2>7
  <2> HIDE DEF digits, y, z
  <2>9. QED
    BY <2>6, <2>8
<1>17. CASE words[j].shape # "card"
  <2>1. words[j].shape = "groupedCard"
    BY <1>5, <1>17 DEF Cards
  <2>2. v.shape \in Cards /\ (v.shape = "groupedCard" => v.as # "assigned")
    <3>1. j - 1 \in DOMAIN words
      BY <1>13
    <3>2. QED
      BY <1>13, <1>14, <1>15, <2>1, <3>1 DEF RunsTogether
  <2>3. v.state = "whole"
    BY <1>13, <1>15, <2>2 DEF Untouched, WordShape, Cards
  <2>4. Reached(j - 1)
    <3>1. j - 1 \notin Bad
      BY <1>4, <1>5, <1>13
    <3>2. QED
      BY <1>13, <2>2, <2>3, <3>1
  <2> DEFINE s1 == start[j - 1] + 1
  <2>5. /\ s1 \in 1 .. Len(gs) /\ start[j] \in MatchEnds(gs, CardRe, s1)
        /\ start[j] = s1 \/ start[j] = s1 + 3
    <3> DEFINE t1 == start[j - 1] + Len(Digits(words[j - 1]))
    <3>1. ~words[j - 1].glued
      BY <1>13 DEF Untouched
    <3>2. /\ s1 \in 1 .. Len(gs) /\ t1 \in MatchEnds(gs, CardRe, s1)
          /\ t1 = s1 \/ t1 = s1 + 3
      BY <1>13, <2>2, <2>3, <3>1, WordMatches
    <3>3. start[j] = t1
      BY <1>13
    <3> HIDE DEF t1, s1, gs
    <3>4. QED
      BY <3>2, <3>3
  <2>6. Max(MatchEnds(gs, CardRe, s1)) = start[j]
    BY <1>13, <2>2, <2>3, CardIsLongest
  <2>7. last[s1] = start[j]
    <3>1. start[j - 1] \in Nat /\ s1 - 1 = start[j - 1]
      BY <1>13
    <3>2. s1 = 1 \/ last[s1 - 1] < s1
      BY <2>4, <3>1
    <3> HIDE DEF s1, last
    <3>3. QED
      BY <1>1, <2>5, <2>6, <3>2, ScanReaches DEF last
  <2>8. ASSUME NEW g \in 1 .. Len(gs), s1 < g, g <= start[j], last[g - 1] = start[j]
        PROVE  last[g] = start[j]
    <3>1. g # 1
      BY <2>5, <2>8
    <3>2. start[j] >= g
      BY <1>5, <2>8
    <3> HIDE DEF last, gs
    <3>3. last[g] = ScanStep(gs, CardRe, g, start[j])
      BY <1>2, <2>8, <3>1
    <3>4. QED
      BY <3>2, <3>3 DEF ScanStep
  <2>9. last[start[j]] = start[j]
    <3>1. CASE start[j] = s1
      BY <2>7, <3>1
    <3>2. CASE start[j] = s1 + 3
      <4>1. /\ s1 + 1 \in 1 .. Len(gs) /\ s1 + 2 \in 1 .. Len(gs) /\ s1 + 3 \in 1 .. Len(gs)
            /\ (s1 + 1) - 1 = s1 /\ (s1 + 2) - 1 = s1 + 1 /\ (s1 + 3) - 1 = s1 + 2
            /\ s1 < s1 + 1 /\ s1 < s1 + 2 /\ s1 < s1 + 3
            /\ s1 + 1 <= start[j] /\ s1 + 2 <= start[j] /\ s1 + 3 <= start[j]
        <5> HIDE DEF s1, gs
        <5>1. QED
          BY <1>1, <1>7, <2>5, <3>2
      <4> HIDE DEF s1, gs, last
      <4>2. last[s1 + 1] = start[j]
        BY <2>7, <2>8, <4>1
      <4>3. last[s1 + 2] = start[j]
        BY <2>8, <4>1, <4>2
      <4>4. last[s1 + 3] = start[j]
        BY <2>8, <4>1, <4>3
      <4>5. QED
        BY <3>2, <4>4
    <3>3. QED
      BY <2>5, <3>1, <3>2
  <2>10. QED
    BY <1>5, <2>9
<1>18. QED
  BY <1>16, <1>17

(* A card that is whole when the cards are looked for is found.            *)
LEMMA CardsAreFound ==
    ASSUME NEW n \in Nat, NEW words \in [1 .. n -> WordShape],
           Untouched(words, n), ~RunsTogether(words),
           NEW i \in 1 .. n, words[i].shape \in Cards, words[i].state = "whole"
    PROVE  i \in CardsFound(words)
<1> DEFINE gs == Groups(words)
           last == Scan(gs, CardRe)
<1>1. PICK start \in [1 .. n -> Nat] : GroupsAt(words, n, gs, start)
  BY GroupsPlaced
<1>2. gs \in Seq(GroupShape)
  BY GroupsPlaced
<1> DEFINE s == start[i] + 1
           t == start[i] + Len(Digits(words[i]))
<1>3. /\ s \in 1 .. Len(gs) /\ t \in s .. Len(gs) /\ gs[s].word = i /\ gs[t].word = i
      /\ t \in MatchEnds(gs, CardRe, s)
  BY <1>1, WordMatches DEF Untouched
<1>4. s = 1 \/ last[s - 1] < s
  <2>1. s - 1 = start[i]
    OBVIOUS
  <2>2. QED
    BY <1>1, <2>1, CardIsReached
<1>5. Max(MatchEnds(gs, CardRe, s)) = t
  BY <1>1, CardIsLongest
<1>6. last[s] >= s /\ last[s] = t
  <2> HIDE DEF s, t, gs, last
  <2>1. QED
    BY <1>2, <1>3, <1>4, <1>5, ScanReaches DEF last
<1>7. s \in DOMAIN gs /\ i \in DOMAIN words
  BY <1>2, <1>3
<1> HIDE DEF s, t
<1>8. QED
  BY <1>3, <1>4, <1>6, <1>7 DEF CardsFound, CardsAmong

-----------------------------------------------------------------------------
(* Strings                                                                 *)

(* The passes before the one for cards.                                    *)
Scrubbed(words) ==
    MaskAll(ScrubSql(MaskAll(words, {"credential"})), {"email"})

LEMMA ScrubbedWords ==
    ASSUME NEW n \in Nat, NEW words \in [1 .. n -> FreshWord]
    PROVE  /\ Scrubbed(words) \in [1 .. n -> WordShape]
           /\ \A i \in 1 .. n :
                LET w == Scrubbed(words)[i]
                IN  /\ w.shape = words[i].shape /\ w.as = words[i].as /\ ~w.glued
                    /\ w.state = "whole" => w.shape \notin {"credential", "email"}
                    /\ w.state = "part" => w.as = "assigned" /\ w.shape # "card"
<1> DEFINE a == MaskAll(words, {"credential"})
           b == ScrubSql(a)
           e == MaskAll(b, {"email"})
<1>1. /\ words \in [1 .. n -> WordShape]
      /\ \A i \in 1 .. n : ~words[i].glued /\ words[i].state = "whole"
  <2>1. FreshWord \subseteq WordShape
    BY DEF FreshWord, WordShape
  <2>2. \A w \in FreshWord : ~w.glued /\ w.state = "whole"
    BY DEF FreshWord
  <2>3. QED
    BY <2>1, <2>2
<1>2. /\ a \in [1 .. n -> WordShape]
      /\ \A i \in 1 .. n :
           /\ a[i].shape = words[i].shape /\ a[i].as = words[i].as /\ ~a[i].glued
           /\ a[i].state = "whole" => a[i].shape # "credential"
           /\ a[i].state # "part"
  BY <1>1, MaskAllWord DEF Kept
<1> HIDE DEF a
<1>3. /\ b \in [1 .. n -> WordShape]
      /\ \A i \in 1 .. n :
           /\ b[i].shape = a[i].shape /\ b[i].as = a[i].as /\ ~b[i].glued
           /\ b[i].state = "whole" => a[i].state = "whole"
           /\ b[i].state = "part" => b[i].as = "assigned" /\ b[i].shape # "card"
  BY <1>2, ScrubSqlWord DEF Kept
<1> HIDE DEF b
<1>4. /\ e \in [1 .. n -> WordShape]
      /\ \A i \in 1 .. n :
           /\ e[i].shape = b[i].shape /\ e[i].as = b[i].as /\ ~e[i].glued
           /\ e[i].state = "whole" => b[i].state = "whole" /\ e[i].shape # "email"
           /\ e[i].state = "part" => b[i].state = "part"
  <2>1. e \in [1 .. n -> WordShape]
    BY <1>3, MaskAllWord
  <2>2. ASSUME NEW i \in 1 .. n
        PROVE  /\ e[i].shape = b[i].shape /\ e[i].as = b[i].as /\ ~e[i].glued
               /\ e[i].state = "whole" => b[i].state = "whole" /\ e[i].shape # "email"
               /\ e[i].state = "part" => b[i].state = "part"
    <3>1. /\ Kept(b[i], e[i]) /\ e[i].glued = b[i].glued
          /\ e[i] = b[i] \/ e[i].state = "masked"
          /\ e[i].state = "whole" => (e[i].shape \in {"email"} => e[i].glued)
      BY <1>3, MaskAllWord
    <3>2. QED
      BY <1>3, <3>1 DEF Kept
  <2>3. QED
    BY <2>1, <2>2
<1> HIDE DEF e
<1>5. Scrubbed(words) = e
  BY DEF Scrubbed, e, b, a
<1>6. QED
  BY <1>2, <1>3, <1>4, <1>5

(* What the passes leave whole was whole before the cards were looked for, *)
(* is no card that was found, and was hidden from the pass for its shape   *)
(* by one, if there is such a pass.                                        *)
LEMMA PassesWord ==
    ASSUME NEW n \in Nat, NEW words \in [1 .. n -> FreshWord], NEW ipMode
    PROVE  LET e == Scrubbed(words)
               f == Passes(words, ipMode)
           IN  /\ f \in [1 .. n -> WordShape]
               /\ \A i \in 1 .. n :
                    /\ f[i].shape = words[i].shape /\ f[i].as = words[i].as
                    /\ f[i].state = "whole" =>
                         /\ e[i].state = "whole" /\ i \notin CardsFound(e)
                         /\ f[i].glued <=> AfterCut(e, i)
                         /\ f[i].shape \in {"ramq", "ohip", "sin", "dashedSin"}
                              => AfterCut(e, i)
                         /\ f[i].shape = "ip" /\ ipMode # "passthrough"
                              => AfterCut(e, i)
<1> DEFINE e == Scrubbed(words)
           c == CutCards(e)
           d == MaskAll(c, {"ramq", "ohip"})
           s == MaskSins(d)
           f == Passes(words, ipMode)
<1>1. /\ e \in [1 .. n -> WordShape]
      /\ \A i \in 1 .. n :
           e[i].shape = words[i].shape /\ e[i].as = words[i].as /\ ~e[i].glued
  BY ScrubbedWords
<1>2. f = MaskAll(s, IF ipMode = "passthrough" THEN {} ELSE {"ip"})
  BY DEF Passes, Scrubbed
<1> HIDE DEF e, f
<1>3. /\ c \in [1 .. n -> WordShape]
      /\ \A i \in 1 .. n :
           /\ c[i].shape = e[i].shape /\ c[i].as = e[i].as
           /\ c[i].state = "whole" => e[i].state = "whole" /\ i \notin CardsFound(e)
           /\ c[i].state = "whole" => (c[i].glued <=> AfterCut(e, i))
  <2>1. c \in [1 .. n -> WordShape]
    BY <1>1, CutCardsWord
  <2>2. ASSUME NEW i \in 1 .. n
        PROVE  /\ c[i].shape = e[i].shape /\ c[i].as = e[i].as
               /\ c[i].state = "whole" => e[i].state = "whole" /\ i \notin CardsFound(e)
               /\ c[i].state = "whole" => (c[i].glued <=> AfterCut(e, i))
    <3>1. /\ Kept(e[i], c[i])
          /\ i \in CardsFound(e) => c[i].state = "masked"
          /\ i \notin CardsFound(e) => (c[i].glued <=> AfterCut(e, i))
      BY <1>1, CutCardsWord
    <3>2. QED
      BY <3>1 DEF Kept
  <2>3. QED
    BY <2>1, <2>2
<1> HIDE DEF c
<1>4. /\ d \in [1 .. n -> WordShape]
      /\ \A i \in 1 .. n :
           /\ d[i].shape = c[i].shape /\ d[i].as = c[i].as
           /\ d[i].state = "whole" =>
                d[i] = c[i] /\ (d[i].shape \in {"ramq", "ohip"} => d[i].glued)
  BY <1>3, MaskAllWord DEF Kept
<1> HIDE DEF d
<1>5. /\ s \in [1 .. n -> WordShape]
      /\ \A i \in 1 .. n :
           /\ s[i].shape = d[i].shape /\ s[i].as = d[i].as
           /\ s[i].state = "whole" => s[i] = d[i]
           /\ s[i].state = "whole" => (s[i].shape \in {"sin", "dashedSin"} => s[i].glued)
  <2>1. s \in [1 .. n -> WordShape]
    BY <1>4, MaskSinsWord
  <2>2. ASSUME NEW i \in 1 .. n
        PROVE  /\ s[i].shape = d[i].shape /\ s[i].as = d[i].as
               /\ s[i].state = "whole" => s[i] = d[i]
               /\ s[i].state = "whole" => (s[i].shape \in {"sin", "dashedSin"} => s[i].glued)
    <3>1. /\ Kept(d[i], s[i])
          /\ s[i] = d[i] \/ s[i].state # "whole"
          /\ (\E g \in DOMAIN Groups(d) :
                Groups(d)[g].word = i /\ Scan(Groups(d), SinRe)[g] >= g)
               => s[i].state # "whole"
      BY <1>4, MaskSinsWord
    <3>2. ASSUME s[i].state = "whole", s[i].shape \in {"sin", "dashedSin"}, ~s[i].glued
          PROVE  FALSE
      <4>1. s[i] = d[i]
        BY <3>1, <3>2
      <4>2. \E g \in DOMAIN Groups(d) :
              Groups(d)[g].word = i /\ Scan(Groups(d), SinRe)[g] >= g
        BY <1>4, <3>2, <4>1, SinIsMatched
      <4>3. QED
        BY <3>1, <3>2, <4>2
    <3>3. s[i].shape = d[i].shape /\ s[i].as = d[i].as
      BY <3>1 DEF Kept
    <3>4. s[i].state = "whole" => s[i] = d[i]
      BY <3>1
    <3>5. s[i].state = "whole" => (s[i].shape \in {"sin", "dashedSin"} => s[i].glued)
      BY <3>2, Zenon
    <3>6. QED
      BY <3>3, <3>4, <3>5
  <2>3. QED
    BY <2>1, <2>2
<1> HIDE DEF s
<1>6. /\ f \in [1 .. n -> WordShape]
      /\ \A i \in 1 .. n :
           /\ f[i].shape = s[i].shape /\ f[i].as = s[i].as
           /\ f[i].state = "whole" =>
                f[i] = s[i] /\ (f[i].shape = "ip" /\ ipMode # "passthrough" => f[i].glued)
  <2>1. CASE ipMode = "passthrough"
    <3>1. f = MaskAll(s, {})
      BY <1>2, <2>1
    <3>2. QED
      BY <1>5, <2>1, <3>1, MaskAllWord DEF Kept
  <2>2. CASE ipMode # "passthrough"
    <3>1. f = MaskAll(s, {"ip"})
      BY <1>2, <2>2
    <3>2. QED
      BY <1>5, <3>1, MaskAllWord DEF Kept
  <2>3. QED
    BY <2>1, <2>2
<1>7. ASSUME NEW i \in 1 .. n
      PROVE  /\ f[i].shape = words[i].shape /\ f[i].as = words[i].as
             /\ f[i].state = "whole" =>
                  /\ e[i].state = "whole" /\ i \notin CardsFound(e)
                  /\ f[i].glued <=> AfterCut(e, i)
                  /\ f[i].shape \in {"ramq", "ohip", "sin", "dashedSin"} => f[i].glued
                  /\ f[i].shape = "ip" /\ ipMode # "passthrough" => f[i].glued
  <2>1. f[i].shape = words[i].shape /\ f[i].as = words[i].as
    BY <1>1, <1>3, <1>4, <1>5, <1>6
  <2>2. ASSUME f[i].state = "whole"
        PROVE  /\ e[i].state = "whole" /\ i \notin CardsFound(e)
               /\ f[i].glued <=> AfterCut(e, i)
               /\ f[i].shape \in {"ramq", "ohip", "sin", "dashedSin"} => f[i].glued
               /\ f[i].shape = "ip" /\ ipMode # "passthrough" => f[i].glued
    <3>1. f[i] = s[i] /\ s[i] = d[i] /\ d[i] = c[i] /\ c[i].state = "whole"
      BY <1>4, <1>5, <1>6, <2>2
    <3>2. QED
      BY <1>3, <1>4, <1>5, <1>6, <2>2, <3>1
  <2>3. QED
    BY <2>1, <2>2
<1>8. QED
  BY <1>6, <1>7 DEF e, f

(* Nothing sensitive stays whole, with the exceptions that the property    *)
(* names.                                                                  *)
LEMMA PassesMask ==
    ASSUME NEW n \in Nat, NEW words \in [1 .. n -> FreshWord], NEW ipMode,
           ~RunsTogether(words), NEW i \in 1 .. n,
           Passes(words, ipMode)[i].shape \in Sensitive,
           Passes(words, ipMode)[i].state = "whole"
    PROVE  LET w == Passes(words, ipMode)[i]
           IN  (w.shape = "ip" /\ ipMode = "passthrough") \/ w.shape = "ipv6"
<1> DEFINE e == Scrubbed(words)
           w == Passes(words, ipMode)[i]
<1>1. /\ e \in [1 .. n -> WordShape]
      /\ \A j \in 1 .. n :
           /\ e[j].shape = words[j].shape /\ e[j].as = words[j].as /\ ~e[j].glued
           /\ e[j].state = "whole" => e[j].shape \notin {"credential", "email"}
           /\ e[j].state = "part" => e[j].as = "assigned" /\ e[j].shape # "card"
  BY ScrubbedWords
<1>2. /\ w.shape = words[i].shape /\ e[i].state = "whole" /\ i \notin CardsFound(e)
      /\ w.shape \in {"ramq", "ohip", "sin", "dashedSin"} => AfterCut(e, i)
      /\ w.shape = "ip" /\ ipMode # "passthrough" => AfterCut(e, i)
  BY PassesWord
<1> HIDE DEF e
<1>3. DOMAIN e = 1 .. n /\ DOMAIN words = 1 .. n
  BY <1>1
<1>4. \A j : Touch(e, j) <=> Touch(words, j)
  BY <1>1, <1>3 DEF Touch
<1>5. ~RunsTogether(e)
  <2> SUFFICES ASSUME RunsTogether(e) PROVE FALSE
    OBVIOUS
  <2>1. PICK j \in 1 .. n :
          LET here == e[j].shape
              next == e[j + 1].shape
          IN  /\ Touch(e, j)
              /\ \/ here \in Cards /\ next \in {"number", "ip", "dashedSin"}
                 \/ here \in Cards /\ next \in {"sin", "ramq", "ohip"}
                 \/ here \in {"number", "ip", "ipv6", "dashedSin"} /\ next \in Cards
                 \/ here \in {"sin", "reference"} /\ next = "groupedCard"
                 \/ /\ here = "groupedCard" /\ next = "groupedCard"
                    /\ e[j].as = "assigned"
    BY <1>3 DEF RunsTogether
  <2>2. Touch(words, j) /\ j + 1 \in 1 .. n
    BY <1>3, <1>4, <2>1 DEF Touch
  <2>3. e[j].shape = words[j].shape /\ e[j].as = words[j].as
        /\ e[j + 1].shape = words[j + 1].shape
    BY <1>1, <2>2
  <2>4. QED
    BY <1>3, <2>1, <2>2, <2>3 DEF RunsTogether
<1>6. w.shape \notin Cards
  <2>1. Untouched(e, n)
    BY <1>1 DEF Untouched
  <2>2. e[i].shape \in Cards => i \in CardsFound(e)
    BY <1>1, <1>2, <1>5, <2>1, CardsAreFound
  <2>3. QED
    BY <1>1, <1>2, <2>2
<1>7. ASSUME w.shape \in {"ramq", "ohip", "sin", "dashedSin", "ip"} PROVE ~AfterCut(e, i)
  <2> SUFFICES ASSUME AfterCut(e, i) PROVE FALSE
    OBVIOUS
  <2>1. Touch(e, i - 1) /\ i - 1 \in 1 .. n /\ e[i - 1].shape \in Cards
    BY <1>3 DEF AfterCut, CardsFound, CardsAmong
  <2>2. (i - 1) + 1 = i /\ e[i].shape = w.shape
    BY <1>1, <1>2
  <2>3. QED
    BY <1>3, <1>5, <1>7, <2>1, <2>2 DEF RunsTogether
<1>8. w.shape \notin {"credential", "email"}
  BY <1>1, <1>2
<1>9. w.shape \in Sensitive
  OBVIOUS
<1> HIDE DEF w
<1>10. (w.shape = "ip" /\ ipMode = "passthrough") \/ w.shape = "ipv6"
  BY <1>2, <1>6, <1>7, <1>8, <1>9 DEF Sensitive, IpShapes
<1>11. QED
  BY <1>10 DEF w

(* No word changes unless the state of one does.                           *)
LEMMA PassesTell ==
    ASSUME NEW n \in Nat, NEW words \in [1 .. n -> FreshWord], NEW ipMode,
           ~Differ(words, Passes(words, ipMode))
    PROVE  Passes(words, ipMode) = words
<1> DEFINE e == Scrubbed(words)
           f == Passes(words, ipMode)
<1>1. /\ f \in [1 .. n -> WordShape]
      /\ \A i \in 1 .. n :
           /\ f[i].shape = words[i].shape /\ f[i].as = words[i].as
           /\ f[i].state = "whole" =>
                i \notin CardsFound(e) /\ (f[i].glued <=> AfterCut(e, i))
  BY PassesWord
<1>2. DOMAIN e = 1 .. n
  BY ScrubbedWords
<1> HIDE DEF e, f
<1>3. \A i \in 1 .. n : words[i].state = "whole" /\ words[i].glued = FALSE
  BY DEF FreshWord
<1>4. \A i \in 1 .. n : f[i].state = "whole"
  BY <1>3 DEF Differ, f
<1>5. ASSUME NEW i \in 1 .. n PROVE f[i] = words[i]
  <2>1. ~AfterCut(e, i)
    BY <1>1, <1>2, <1>4 DEF AfterCut, Touch
  <2>2. f[i] \in WordShape /\ words[i] \in FreshWord
    BY <1>1
  <2>3. f[i].glued = FALSE
    BY <1>1, <1>4, <2>1, <2>2 DEF WordShape
  <2>4. f[i] = [shape |-> f[i].shape, as |-> f[i].as, state |-> f[i].state,
                glued |-> f[i].glued]
    BY <2>2 DEF WordShape
  <2>5. words[i] = [shape |-> words[i].shape, as |-> words[i].as,
                    state |-> words[i].state, glued |-> words[i].glued]
    BY <2>2 DEF FreshWord
  <2>6. QED
    BY <1>1, <1>3, <1>4, <2>3, <2>4, <2>5
<1>6. f = words
  BY <1>1, <1>5
<1>7. QED
  BY <1>6 DEF f

(* A string tells that it was redacted exactly when it was changed.        *)
LEMMA RedactTextTells ==
    ASSUME NEW text \in FreshText, NEW ipMode
    PROVE  RedactText(text, ipMode).redacted <=> RedactText(text, ipMode).text # text
<1> DEFINE words == Passes(text.words, ipMode)
<1>1. /\ text = [words |-> text.words, oversized |-> text.oversized]
      /\ text.words \in Seq(FreshWord) /\ text.oversized \in BOOLEAN
  BY DEF FreshText, FreshWord
<1>2. Differ(text.words, words) <=> words # text.words
  <2>1. PICK n \in Nat : text.words \in [1 .. n -> FreshWord]
    BY <1>1
  <2>2. ~Differ(text.words, words) => words = text.words
    BY <2>1, PassesTell
  <2>3. QED
    BY <2>2 DEF Differ
<1>3. /\ RedactText(text, ipMode).text = [words |-> words, oversized |-> FALSE]
      /\ RedactText(text, ipMode).redacted = (text.oversized \/ Differ(text.words, words))
  BY DEF RedactText
<1> HIDE DEF words
<1>4. [words |-> words, oversized |-> FALSE] = text
        <=> words = text.words /\ text.oversized = FALSE
  BY <1>1
<1>5. QED
  BY <1>1, <1>2, <1>3, <1>4

-----------------------------------------------------------------------------
(* Payloads                                                                *)

(* The steps of the paths: keys, and indices.                              *)
Steps(keys) == keys \cup Nat

(* What may be at a path.                                                  *)
Nodes == [kind : {"leaf"}, text : FreshText]
         \cup [kind : {"object", "array", "constant"}]

(* A payload whose keys are among these: what lies above a part of it is   *)
(* an object or an array.                                                  *)
IsPayload(value, keys) ==
    /\ DOMAIN value \subseteq Seq(Steps(keys)) /\ <<>> \in DOMAIN value
    /\ \A p \in DOMAIN value :
         /\ value[p] \in Nodes
         /\ \A i \in 1 .. Len(p) :
              /\ SubSeq(p, 1, i - 1) \in DOMAIN value
              /\ value[SubSeq(p, 1, i - 1)].kind \in {"object", "array"}
              /\ IsKey(value, p, i) => p[i] \in keys

(* A leaf is a payload.                                                    *)
LEMMA RootPayload ==
    ASSUME NEW keys, NEW node \in Nodes
    PROVE  IsPayload(Root(node), keys)
BY DEF IsPayload, Root

(* The parts of a tree lie below their keys or indices.                    *)
IsTree(tree, kind, parts) ==
    /\ <<>> \in DOMAIN tree /\ tree[<<>>] = [kind |-> kind]
    /\ \A k \in DOMAIN parts : \A q \in DOMAIN parts[k] :
         <<k>> \o q \in DOMAIN tree /\ tree[<<k>> \o q] = parts[k][q]
    /\ \A p \in DOMAIN tree :
         \/ p = <<>>
         \/ \E k \in DOMAIN parts : \E q \in DOMAIN parts[k] : p = <<k>> \o q

(* So do the parts of a tree that is put together from payloads,           *)
LEMMA TreeParts ==
    ASSUME NEW keys, NEW kind, NEW parts, DOMAIN parts \subseteq Steps(keys),
           \A k \in DOMAIN parts : IsPayload(parts[k], keys)
    PROVE  IsTree(Tree(kind, parts), kind, parts)
<1> DEFINE tree == Tree(kind, parts)
<1> DEFINE D == {<<>>} \cup UNION {{<<k>> \o q : q \in DOMAIN parts[k]} : k \in DOMAIN parts}
<1>1. tree = [p \in D |-> IF p = <<>> THEN [kind |-> kind] ELSE parts[Head(p)][Tail(p)]]
  BY DEF Tree
<1>2. ASSUME NEW k \in DOMAIN parts, NEW q \in DOMAIN parts[k]
      PROVE  <<k>> \o q \in D /\ k \in Steps(keys) /\ q \in Seq(Steps(keys))
  BY DEF IsPayload
<1>3. \A p \in D : \/ p = <<>>
                   \/ \E k \in DOMAIN parts : \E q \in DOMAIN parts[k] : p = <<k>> \o q
  OBVIOUS
<1>4. <<>> \in D
  OBVIOUS
<1> HIDE DEF D, tree
<1>5. ASSUME NEW k \in DOMAIN parts, NEW q \in DOMAIN parts[k]
      PROVE  tree[<<k>> \o q] = parts[k][q]
  <2>1. /\ <<k>> \o q \in D /\ <<k>> \o q # <<>>
        /\ Head(<<k>> \o q) = k /\ Tail(<<k>> \o q) = q
    BY <1>2, ConsFacts
  <2>2. QED
    BY <1>1, <2>1
<1>6. QED
  BY <1>1, <1>2, <1>3, <1>4, <1>5 DEF tree, IsTree

(* which is a payload.                                                     *)
LEMMA TreePayload ==
    ASSUME NEW keys, NEW kind \in {"object", "array"},
           NEW parts, DOMAIN parts \subseteq Steps(keys),
           \A k \in DOMAIN parts : IsPayload(parts[k], keys),
           kind = "object" => DOMAIN parts \subseteq keys
    PROVE  IsPayload(Tree(kind, parts), keys)
<1> DEFINE tree == Tree(kind, parts)
<1>0. IsTree(tree, kind, parts)
  BY TreeParts
<1> HIDE DEF tree
<1>1. /\ <<>> \in DOMAIN tree /\ tree[<<>>] = [kind |-> kind]
      /\ \A k \in DOMAIN parts : \A q \in DOMAIN parts[k] :
           <<k>> \o q \in DOMAIN tree /\ tree[<<k>> \o q] = parts[k][q]
      /\ \A p \in DOMAIN tree :
           \/ p = <<>>
           \/ \E k \in DOMAIN parts : \E q \in DOMAIN parts[k] : p = <<k>> \o q
  BY <1>0, Zenon DEF IsTree
<1>4. tree[<<>>].kind = kind
  BY <1>1
<1>2. ASSUME NEW p \in DOMAIN tree
      PROVE  /\ p \in Seq(Steps(keys)) /\ tree[p] \in Nodes
             /\ \A i \in 1 .. Len(p) :
                  /\ SubSeq(p, 1, i - 1) \in DOMAIN tree
                  /\ tree[SubSeq(p, 1, i - 1)].kind \in {"object", "array"}
                  /\ IsKey(tree, p, i) => p[i] \in keys
  <2>1. CASE p = <<>>
    BY <1>1, <2>1 DEF Nodes
  <2>2. CASE p # <<>>
    <3>0. PICK k \in DOMAIN parts : \E q \in DOMAIN parts[k] : p = <<k>> \o q
      BY <1>1, <2>2
    <3>1. PICK q \in DOMAIN parts[k] : p = <<k>> \o q
      BY <3>0
    <3>2. k \in Steps(keys) /\ q \in Seq(Steps(keys)) /\ IsPayload(parts[k], keys)
      BY DEF IsPayload
    <3>3. p \in Seq(Steps(keys)) /\ tree[p] \in Nodes /\ Len(p) = Len(q) + 1
      BY <1>1, <3>1, <3>2, ConsFacts DEF IsPayload
    <3>4. ASSUME NEW i \in 1 .. Len(p)
          PROVE  /\ SubSeq(p, 1, i - 1) \in DOMAIN tree
                 /\ tree[SubSeq(p, 1, i - 1)].kind \in {"object", "array"}
                 /\ IsKey(tree, p, i) => p[i] \in keys
      <4>1. CASE i = 1
        <5>1. SubSeq(p, 1, i - 1) = <<>> /\ p[i] = k
          BY <3>1, <3>2, <4>1, ConsFacts
        <5>2. IsKey(tree, p, i) => kind = "object"
          BY <1>4, <5>1 DEF IsKey
        <5>3. tree[SubSeq(p, 1, i - 1)].kind = kind
          BY <1>4, <5>1
        <5>4. QED
          BY <1>1, <5>1, <5>2, <5>3
      <4>2. CASE i # 1
        <5> DEFINE j == i - 1
        <5>1. j \in 1 .. Len(q) /\ i = j + 1
          BY <3>2, <3>3, <4>2
        <5> HIDE DEF j
        <5>2. p[j + 1] = q[j] /\ SubSeq(p, 1, j) = <<k>> \o SubSeq(q, 1, j - 1)
          BY <3>1, <3>2, <5>1
        <5>3. /\ SubSeq(q, 1, j - 1) \in DOMAIN parts[k]
              /\ parts[k][SubSeq(q, 1, j - 1)].kind \in {"object", "array"}
              /\ IsKey(parts[k], q, j) => q[j] \in keys
          BY <3>2, <5>1 DEF IsPayload
        <5>4. /\ SubSeq(p, 1, j) \in DOMAIN tree
              /\ tree[SubSeq(p, 1, j)] = parts[k][SubSeq(q, 1, j - 1)]
          BY <1>1, <5>2, <5>3
        <5>5. QED
          BY <5>2, <5>3, <5>4 DEF IsKey, j
      <4>3. QED
        BY <4>1, <4>2
    <3>5. QED
      BY <3>3, <3>4
  <2>3. QED
    BY <2>1, <2>2
<1>3. QED
  BY <1>1, <1>2 DEF IsPayload, tree

(* What is above a part is a part.                                         *)
LEMMA PayloadPrefix ==
    ASSUME NEW keys, NEW value, IsPayload(value, keys), NEW p \in DOMAIN value,
           NEW i \in 0 .. Len(p)
    PROVE  /\ SubSeq(p, 1, i) \in DOMAIN value
           /\ i < Len(p) => value[SubSeq(p, 1, i)].kind \in {"object", "array"}
<1> DEFINE n == Len(p)
<1>1. p \in Seq(Steps(keys)) /\ SubSeq(p, 1, n) = p /\ n \in Nat
  <2>1. p \in Seq(Steps(keys))
    BY DEF IsPayload
  <2>2. QED
    BY <2>1
<1>2. \A j \in 1 .. n :
        /\ SubSeq(p, 1, j - 1) \in DOMAIN value
        /\ value[SubSeq(p, 1, j - 1)].kind \in {"object", "array"}
  BY DEF IsPayload
<1>7. i \in 0 .. n
  OBVIOUS
<1> HIDE DEF n
<1>3. CASE i = n
  <2>1. SubSeq(p, 1, i) = p
    BY <1>1, <1>3, Zenon
  <2>2. ~(i < n)
    BY <1>1, <1>3
  <2>3. QED
    BY <2>1, <2>2 DEF n
<1>4. CASE i < n
  <2>1. i \in Nat /\ i + 1 \in 1 .. n /\ (i + 1) - 1 = i
    BY <1>1, <1>4
  <2>2. QED
    BY <1>2, <2>1 DEF n
<1>5. i = n \/ i < n
  BY <1>1, <1>7
<1>6. QED
  BY <1>3, <1>4, <1>5

(* Keys are the same in a prefix.                                          *)
LEMMA PrefixKeys ==
    ASSUME NEW S, NEW p \in Seq(S), NEW value, NEW i \in 1 .. Len(p), NEW j \in 1 .. i
    PROVE  /\ IsKey(value, SubSeq(p, 1, i), j) <=> IsKey(value, p, j)
           /\ SubSeq(p, 1, i)[j] = p[j]
           /\ Len(SubSeq(p, 1, i)) = i /\ SubSeq(p, 1, i) # <<>>
           /\ Last(SubSeq(p, 1, i)) = p[i]
<1>1. /\ Len(SubSeq(p, 1, i)) = i
      /\ \A k \in 1 .. i : SubSeq(p, 1, i)[k] = p[k]
      /\ \A k \in 0 .. i : SubSeq(SubSeq(p, 1, i), 1, k) = SubSeq(p, 1, k)
  BY PrefixFacts
<1>2. SubSeq(SubSeq(p, 1, i), 1, j - 1) = SubSeq(p, 1, j - 1)
  <2>1. j - 1 \in 0 .. i
    OBVIOUS
  <2>2. QED
    BY <1>1, <2>1
<1>3. SubSeq(p, 1, i) # <<>>
  BY <1>1
<1>4. IsKey(value, SubSeq(p, 1, i), j) <=> IsKey(value, p, j)
  BY <1>2 DEF IsKey
<1>5. Last(SubSeq(p, 1, i)) = p[i] /\ SubSeq(p, 1, i)[j] = p[j]
  BY <1>1 DEF Last
<1>6. QED
  BY <1>1, <1>3, <1>4, <1>5

-----------------------------------------------------------------------------
(* The walk over a payload                                                 *)

(* A key on the way to a part is approved.                                 *)
ApprovedAt(engine, value, p) ==
    \E i \in 1 .. Len(p) : IsKey(value, p, i) /\ ApprovedKey(engine, p[i])

(* What becomes of a part if the walk gets there.                          *)
Fate(engine, value, p) ==
    IF p = <<>> \/ ~IsKey(value, p, Len(p)) THEN "walked"
    ELSE IF Drops(engine, Last(p), ApprovedAt(engine, value, p)) THEN "dropped"
    ELSE IF Denied(engine, Last(p)) THEN "blanked"
    ELSE "walked"

(* The walk does not get there: it has ended above.                        *)
CutOff(engine, value, p) ==
    \E i \in 1 .. Len(p) - 1 : Fate(engine, value, SubSeq(p, 1, i)) # "walked"

(* What walk() makes of a part, described by what is above it.             *)
Outcome(engine, value, p) ==
    [approved |-> ApprovedAt(engine, value, p),
     fate |-> IF CutOff(engine, value, p) THEN "unreached" ELSE Fate(engine, value, p)]

(* The walk leaves a part out, replaces it or goes on.                     *)
LEMMA FateCases ==
    \A engine, value, p : Fate(engine, value, p) \in {"walked", "dropped", "blanked"}
BY DEF Fate

(* One call of walk() does to a part what the description says, if the     *)
(* call for what is above it has done so.                                  *)
LEMMA OutcomeStep ==
    ASSUME NEW keys, NEW value, IsPayload(value, keys), NEW engine, NEW visit,
           NEW p \in DOMAIN value,
           p # <<>> => visit[Front(p)] = Outcome(engine, value, Front(p))
    PROVE  Visit(engine, value, visit, p) = Outcome(engine, value, p)
<1>1. CASE p = <<>>
  <2>1. ApprovedAt(engine, value, p) = FALSE /\ CutOff(engine, value, p) = FALSE
    BY <1>1 DEF ApprovedAt, CutOff
  <2>2. QED
    BY <1>1, <2>1 DEF Visit, Outcome, Fate
<1>2. CASE p # <<>>
  <2> DEFINE f == Front(p)
             n == Len(p)
             above == Outcome(engine, value, f)
             key == IsKey(value, p, n)
             approved == ApprovedAt(engine, value, p)
  <2>1. p \in Seq(Steps(keys))
    BY DEF IsPayload
  <2>2. /\ n \in Nat \ {0} /\ Len(f) = n - 1 /\ f = SubSeq(p, 1, n - 1)
        /\ \A i \in 1 .. n - 1 : f[i] = p[i]
        /\ \A i \in 0 .. n - 1 : SubSeq(f, 1, i) = SubSeq(p, 1, i)
    BY <1>2, <2>1, FrontFacts
  <2> HIDE DEF f, n
  <2>3. \A i \in 1 .. n - 1 : IsKey(value, f, i) <=> IsKey(value, p, i)
    <3> SUFFICES ASSUME NEW i \in 1 .. n - 1
                 PROVE  IsKey(value, f, i) <=> IsKey(value, p, i)
      OBVIOUS
    <3>1. i - 1 \in 0 .. n - 1
      BY <2>2
    <3>2. SubSeq(f, 1, i - 1) = SubSeq(p, 1, i - 1)
      BY <2>2, <3>1
    <3>3. QED
      BY <3>2 DEF IsKey
  <2>4. ApprovedAt(engine, value, f)
          <=> \E i \in 1 .. n - 1 : IsKey(value, p, i) /\ ApprovedKey(engine, p[i])
    BY <2>2, <2>3 DEF ApprovedAt
  <2>5. approved <=> ApprovedAt(engine, value, f) \/ (key /\ ApprovedKey(engine, Last(p)))
    BY <2>2, <2>4 DEF ApprovedAt, Last, n
  <2>6. CutOff(engine, value, f)
          <=> \E i \in 1 .. n - 2 : Fate(engine, value, SubSeq(p, 1, i)) # "walked"
    <3>1. \A i \in 1 .. n - 2 : SubSeq(f, 1, i) = SubSeq(p, 1, i)
      BY <2>2
    <3>2. Len(f) - 1 = n - 2
      BY <2>2
    <3>3. QED
      BY <3>1, <3>2 DEF CutOff
  <2>7. above.fate # "walked" <=> CutOff(engine, value, p)
    <3>1. above.fate = IF CutOff(engine, value, f) THEN "unreached" ELSE Fate(engine, value, f)
      BY DEF Outcome
    <3>2. CASE n = 1
      <4>1. f = <<>> /\ ~CutOff(engine, value, f) /\ ~CutOff(engine, value, p)
        BY <2>2, <2>6, <3>2 DEF CutOff, n
      <4>2. QED
        BY <3>1, <4>1 DEF Fate
    <3>3. CASE n # 1
      <4>1. CutOff(engine, value, p)
              <=> CutOff(engine, value, f) \/ Fate(engine, value, f) # "walked"
        BY <2>2, <2>6, <3>3 DEF CutOff, n
      <4>2. QED
        BY <3>1, <4>1
    <3>4. QED
      BY <3>2, <3>3
  <2>8. above.approved = ApprovedAt(engine, value, f)
    BY DEF Outcome
  <2>9. approved = (above.approved \/ (key /\ ApprovedKey(engine, Last(p))))
    BY <2>5, <2>8 DEF ApprovedAt
  <2>10. Visit(engine, value, visit, p) =
           [approved |-> approved,
            fate |-> IF above.fate # "walked" THEN "unreached"
                     ELSE IF key /\ Drops(engine, Last(p), approved) THEN "dropped"
                     ELSE IF key /\ Denied(engine, Last(p)) THEN "blanked"
                     ELSE "walked"]
    BY <1>2, <2>9 DEF Visit, f, n
  <2>11. Fate(engine, value, p) = IF key /\ Drops(engine, Last(p), approved) THEN "dropped"
                     ELSE IF key /\ Denied(engine, Last(p)) THEN "blanked"
                     ELSE "walked"
    BY <1>2 DEF Fate, n
  <2>12. QED
    BY <2>7, <2>10, <2>11 DEF Outcome
<1>3. QED
  BY <1>1, <1>2

(* The walk ends at the same parts whichever way it is described: call by  *)
(* call, as the code does it, or by what is above a part.                  *)
THEOREM WalkOutcome ==
    ASSUME NEW keys, NEW value, IsPayload(value, keys), NEW engine
    PROVE  \A p \in DOMAIN value : Walk(engine, value)[p] = Outcome(engine, value, p)
<1> DEFINE D == DOMAIN value
           form == [p \in D |-> Outcome(engine, value, p)]
           walk == Walk(engine, value)
<1>1. \A p \in D : p # <<>> =>
        /\ Front(p) \in D /\ Len(Front(p)) = Len(p) - 1
        /\ p \in Seq(Steps(keys)) /\ Len(p) \in Nat \ {0}
  <2> SUFFICES ASSUME NEW p \in D, p # <<>>
               PROVE  /\ Front(p) \in D /\ Len(Front(p)) = Len(p) - 1
                      /\ p \in Seq(Steps(keys)) /\ Len(p) \in Nat \ {0}
    OBVIOUS
  <2>1. p \in Seq(Steps(keys))
    BY DEF IsPayload
  <2>2. /\ Len(p) \in Nat \ {0} /\ Len(Front(p)) = Len(p) - 1
        /\ Front(p) = SubSeq(p, 1, Len(p) - 1)
    BY <2>1, FrontFacts
  <2>3. Front(p) \in D
    BY <2>2 DEF IsPayload
  <2>4. QED
    BY <2>1, <2>2, <2>3
<1>2. form = [p \in D |-> Visit(engine, value, form, p)]
  BY <1>1, OutcomeStep
<1>3. walk = [p \in D |-> Visit(engine, value, walk, p)]
  <2>1. walk = CHOOSE visit : visit = [p \in D |-> Visit(engine, value, visit, p)]
    BY DEF Walk
  <2> HIDE DEF form, walk
  <2>2. QED
    BY <1>2, <2>1
<1> HIDE DEF form, walk
<1>4. SUFFICES ASSUME \E p \in D : walk[p] # Outcome(engine, value, p) PROVE FALSE
  BY DEF walk
<1> DEFINE T == {Len(p) : p \in {q \in D : walk[q] # Outcome(engine, value, q)}}
<1>5. T \subseteq Nat /\ T # {}
  <2>1. \A p \in D : Len(p) \in Nat
    BY DEF IsPayload
  <2>2. QED
    BY <1>4, <2>1
<1>6. PICK n \in T : \A m \in T : n <= m
  BY <1>5, LeastNumber
<1>7. PICK p \in D : walk[p] # Outcome(engine, value, p) /\ n = Len(p)
  BY <1>6
<1>8. p # <<>> => walk[Front(p)] = Outcome(engine, value, Front(p))
  BY <1>1, <1>6, <1>7
<1>9. walk[p] = Outcome(engine, value, p)
  BY <1>3, <1>8, OutcomeStep
<1>10. QED
  BY <1>7, <1>9

(* The fate of a part.                                                     *)
Ends(engine, value, p) == Outcome(engine, value, p).fate

(* What becomes of a part above another one.                               *)
LEMMA FateOfPrefix ==
    ASSUME NEW S, NEW p \in Seq(S), NEW value, NEW engine, NEW i \in 1 .. Len(p)
    PROVE  Fate(engine, value, SubSeq(p, 1, i)) =
             IF ~IsKey(value, p, i) THEN "walked"
             ELSE IF Drops(engine, p[i], ApprovedAt(engine, value, SubSeq(p, 1, i)))
             THEN "dropped"
             ELSE IF Denied(engine, p[i]) THEN "blanked" ELSE "walked"
<1> DEFINE q == SubSeq(p, 1, i)
<1>1. /\ Len(q) = i /\ q # <<>> /\ Last(q) = p[i]
      /\ IsKey(value, q, i) <=> IsKey(value, p, i)
  <2>1. i \in 1 .. i
    OBVIOUS
  <2>2. QED
    BY <2>1, PrefixKeys
<1> HIDE DEF q
<1>2. QED
  BY <1>1 DEF Fate, q

(* redact(), described by the fates.                                       *)
LEMMA RedactFacts ==
    ASSUME NEW keys, NEW value, IsPayload(value, keys), NEW engine
    PROVE  LET result == Redact(engine, value)
           IN  /\ DOMAIN result.value =
                    {p \in DOMAIN value : Ends(engine, value, p) \in {"walked", "blanked"}}
               /\ \A p \in DOMAIN result.value :
                    result.value[p] = Redacted(engine, value[p], Ends(engine, value, p))
               /\ result.fields =
                    {p \in DOMAIN value :
                       \/ Ends(engine, value, p) \in {"dropped", "blanked"}
                       \/ Ends(engine, value, p) = "walked" /\ Redactable(engine, value[p])}
<1> DEFINE walk == Walk(engine, value)
<1>1. \A p \in DOMAIN value : walk[p].fate = Ends(engine, value, p)
  BY WalkOutcome DEF Ends
<1> HIDE DEF walk
<1> DEFINE kept == {p \in DOMAIN value : walk[p].fate \in {"walked", "blanked"}}
<1>2. Redact(engine, value) =
        [value |-> [p \in kept |-> Redacted(engine, value[p], walk[p].fate)],
         fields |-> {p \in DOMAIN value :
                       \/ walk[p].fate \in {"dropped", "blanked"}
                       \/ walk[p].fate = "walked" /\ Redactable(engine, value[p])}]
  BY DEF Redact, walk
<1>3. QED
  BY <1>1, <1>2

(* The list of redacted fields, for any payload and engine.                *)
ListIsExact(raw, sent, fields) ==
    /\ \A p \in fields : p \in DOMAIN raw /\ At(sent, p) # raw[p]
    /\ \A p \in DOMAIN raw :
         LET listed == {q \in fields : IsPrefix(q, p)}
         IN  /\ \A q, s \in listed : q = s
             /\ listed = {} => At(sent, p) = raw[p]

(* The list of redacted fields is exact, for any payload and engine.       *)
THEOREM RedactedFieldsAreExact ==
    ASSUME NEW keys, NEW value, IsPayload(value, keys), NEW engine
    PROVE  LET result == Redact(engine, value)
           IN  ListIsExact(value, result.value, result.fields)
<1> DEFINE sent == Redact(engine, value).value
           fields == Redact(engine, value).fields
           ends(p) == Ends(engine, value, p)
<1>1. /\ DOMAIN sent = {p \in DOMAIN value : ends(p) \in {"walked", "blanked"}}
      /\ \A p \in DOMAIN sent : sent[p] = Redacted(engine, value[p], ends(p))
      /\ fields = {p \in DOMAIN value :
                     \/ ends(p) \in {"dropped", "blanked"}
                     \/ ends(p) = "walked" /\ Redactable(engine, value[p])}
  BY RedactFacts
<1> HIDE DEF sent, fields
<1>2. \A p \in DOMAIN value :
        /\ p \in Seq(Steps(keys)) /\ value[p] \in Nodes
        /\ ends(p) = IF CutOff(engine, value, p) THEN "unreached" ELSE Fate(engine, value, p)
        /\ Fate(engine, value, p) \in {"walked", "dropped", "blanked"}
  BY FateCases DEF IsPayload, Ends, Outcome
<1> HIDE DEF ends
<1>3. \A node \in Nodes : node.kind = "leaf" =>
        /\ node.text \in FreshText
        /\ Redactable(engine, node) <=>
             [node EXCEPT !.text = RedactText(node.text, engine.ipMode).text] # node
  <2> SUFFICES ASSUME NEW node \in Nodes, node.kind = "leaf"
               PROVE  /\ node.text \in FreshText
                      /\ Redactable(engine, node) <=>
                           [node EXCEPT !.text = RedactText(node.text, engine.ipMode).text] # node
    OBVIOUS
  <2>1. node \in [kind : {"leaf"}, text : FreshText]
    BY DEF Nodes
  <2>2. RedactText(node.text, engine.ipMode).redacted
          <=> RedactText(node.text, engine.ipMode).text # node.text
    BY <2>1, RedactTextTells
  <2> DEFINE t == RedactText(node.text, engine.ipMode).text
  <2>3. Redactable(engine, node) <=> t # node.text
    BY <2>2 DEF Redactable
  <2> HIDE DEF t
  <2>4. [node EXCEPT !.text = t] # node <=> t # node.text
    BY <2>1
  <2>5. QED
    BY <2>1, <2>3, <2>4 DEF t
<1>4. ASSUME NEW p \in fields PROVE p \in DOMAIN value /\ At(sent, p) # value[p]
  <2>1. p \in DOMAIN value /\ value[p] \in Nodes
    BY <1>1, <1>2
  <2>2. value[p].kind \notin {"absent", "blank"}
    BY <2>1 DEF Nodes
  <2>3. CASE ends(p) = "dropped"
    BY <1>1, <2>1, <2>2, <2>3 DEF At
  <2>4. CASE ends(p) = "blanked"
    <3>1. At(sent, p) = Redacted(engine, value[p], "blanked")
      BY <1>1, <2>1, <2>4 DEF At
    <3>2. Redacted(engine, value[p], "blanked").kind = "blank"
      BY DEF Redacted, Blank
    <3>3. QED
      BY <2>1, <2>2, <3>1, <3>2
  <2>5. CASE ends(p) = "walked" /\ Redactable(engine, value[p])
    <3>1. At(sent, p) = Redacted(engine, value[p], "walked")
      BY <1>1, <2>1, <2>5 DEF At
    <3>2. QED
      BY <1>3, <2>1, <2>5, <3>1 DEF Redacted, Redactable
  <2>6. QED
    BY <1>1, <2>1, <2>3, <2>4, <2>5
<1>5. ASSUME NEW p \in DOMAIN value, NEW q \in fields, IsPrefix(q, p)
      PROVE  /\ q \in DOMAIN value /\ q \in Seq(Steps(keys))
             /\ Len(q) \in 0 .. Len(p) /\ q = SubSeq(p, 1, Len(q))
  <2>1. q \in DOMAIN value /\ q \in Seq(Steps(keys))
    BY <1>1, <1>2
  <2>2. SubSeq(q, 1, Len(q)) = q /\ Len(q) \in Nat /\ Len(p) \in Nat
    BY <1>2, <2>1
  <2>3. QED
    BY <1>5, <2>1, <2>2 DEF IsPrefix
<1>6. ASSUME NEW p \in DOMAIN value, NEW q \in fields, NEW s \in fields,
             IsPrefix(q, p), IsPrefix(s, p), Len(q) < Len(s)
      PROVE  FALSE
  <2> DEFINE n == Len(q)
  <2>1. /\ q \in DOMAIN value /\ s \in DOMAIN value /\ p \in Seq(Steps(keys))
        /\ n \in 0 .. Len(p) /\ q = SubSeq(p, 1, n)
        /\ Len(s) \in 0 .. Len(p) /\ s = SubSeq(p, 1, Len(s))
    BY <1>2, <1>5, <1>6
  <2>2. n \in 0 .. Len(s) /\ n < Len(s)
    BY <1>6, <2>1
  <2>3. q = SubSeq(s, 1, n)
    BY <2>1, <2>2, PrefixFacts
  <2>4. value[q].kind \in {"object", "array"}
    BY <2>1, <2>2, <2>3, PayloadPrefix
  <2>5. ~Redactable(engine, value[q])
    BY <2>4 DEF Redactable
  <2>6. ends(q) # "walked" /\ ends(q) = Fate(engine, value, q)
    BY <1>1, <1>2, <2>1, <2>5
  <2>7. q # <<>>
    BY <2>6 DEF Fate
  <2>8. n \in 1 .. Len(s) - 1
    <3>1. n # 0
      BY <2>1, <2>7
    <3>2. Len(s) \in Nat
      BY <2>1
    <3>3. QED
      BY <2>2, <3>1, <3>2
  <2>9. CutOff(engine, value, s)
    BY <2>3, <2>6, <2>8 DEF CutOff
  <2>10. QED
    BY <1>1, <1>2, <2>1, <2>9
<1>7. ASSUME NEW p \in DOMAIN value, NEW q \in fields, NEW s \in fields,
             IsPrefix(q, p), IsPrefix(s, p)
      PROVE  q = s
  <2>1. /\ Len(q) \in Nat /\ q = SubSeq(p, 1, Len(q))
        /\ Len(s) \in Nat /\ s = SubSeq(p, 1, Len(s))
    BY <1>5, <1>7
  <2> DEFINE m == Len(q)
             n == Len(s)
  <2>2. ~(m < n) /\ ~(n < m) /\ m \in Nat /\ n \in Nat
    BY <1>6, <1>7, <2>1
  <2> HIDE DEF m, n
  <2>3. m = n
    BY <2>2
  <2>4. QED
    BY <2>1, <2>3 DEF m, n
<1>8. ASSUME NEW p \in DOMAIN value, \A q \in fields : ~IsPrefix(q, p)
      PROVE  At(sent, p) = value[p]
  <2> DEFINE C == {i \in 1 .. Len(p) - 1 : Fate(engine, value, SubSeq(p, 1, i)) # "walked"}
  <2>1. p \in Seq(Steps(keys)) /\ Len(p) \in Nat
    BY <1>2
  <2>2. C = {}
    <3>1. SUFFICES ASSUME C # {} PROVE FALSE
      OBVIOUS
    <3>2. C \in SUBSET Nat
      BY <2>1
    <3>3. PICK i \in C : \A j \in C : i <= j
      BY <3>1, <3>2, LeastNumber
    <3> DEFINE q == SubSeq(p, 1, i)
    <3>4. i \in 0 .. Len(p) /\ i \in 1 .. Len(p) - 1 /\ Fate(engine, value, q) # "walked"
      BY <2>1, <3>3
    <3>5. /\ q \in DOMAIN value /\ Len(q) = i /\ IsPrefix(q, p)
          /\ \A j \in 0 .. i : SubSeq(q, 1, j) = SubSeq(p, 1, j)
      BY <2>1, <3>4, PayloadPrefix, PrefixFacts
    <3> HIDE DEF q
    <3>6. ~CutOff(engine, value, q)
      <4> SUFFICES ASSUME NEW j \in 1 .. i - 1, Fate(engine, value, SubSeq(q, 1, j)) # "walked"
                   PROVE  FALSE
        BY <3>5 DEF CutOff
      <4>1. j \in 0 .. i /\ j \in 1 .. Len(p) - 1
        BY <2>1, <3>4
      <4>2. j \in C
        BY <3>5, <4>1
      <4>3. QED
        BY <3>3, <3>4, <4>2
    <3>7. q \in fields
      BY <1>1, <1>2, <3>4, <3>5, <3>6
    <3>8. QED
      BY <1>8, <3>5, <3>7
  <2>3. ~CutOff(engine, value, p)
    BY <2>2 DEF CutOff
  <2>4. IsPrefix(p, p)
    <3>1. Len(p) \in 0 .. Len(p)
      BY <2>1
    <3>2. QED
      BY <2>1, <3>1, PrefixFacts
  <2>5. ends(p) = "walked" /\ ~Redactable(engine, value[p])
    BY <1>1, <1>2, <1>8, <2>3, <2>4
  <2>6. At(sent, p) = Redacted(engine, value[p], "walked")
    BY <1>1, <2>5 DEF At
  <2>7. QED
    BY <1>2, <1>3, <2>5, <2>6 DEF Redacted
<1>9. QED
  BY <1>4, <1>7, <1>8 DEF ListIsExact, sent, fields

(* Nothing sensitive is left in one piece, for any payload and engine.     *)
NothingWhole(engine, raw, sent) ==
    \A p \in DOMAIN sent :
        LET before == raw[p]
            after == sent[p]
        IN  /\ \A i \in DOMAIN p :
                  IsKey(raw, p, i) /\ p[i] \in engine.denied => after = Blank
            /\ after.kind = "leaf" /\ ~RunsTogether(before.text.words) =>
                  \A i \in DOMAIN after.text.words :
                     LET w == after.text.words[i]
                     IN  w.shape \in Sensitive /\ w.state = "whole" =>
                           \/ w.shape = "ip" /\ engine.ipMode = "passthrough"
                           \/ w.shape = "ipv6"

(* What redact() leaves, for any payload and engine.                       *)
THEOREM SecretsAreMasked ==
    ASSUME NEW keys, NEW value, IsPayload(value, keys), NEW engine
    PROVE  NothingWhole(engine, value, Redact(engine, value).value)
<1> DEFINE sent == Redact(engine, value).value
<1>1. ASSUME NEW p \in DOMAIN sent
      PROVE  /\ p \in DOMAIN value /\ p \in Seq(Steps(keys)) /\ value[p] \in Nodes
             /\ ~CutOff(engine, value, p)
             /\ Fate(engine, value, p) \in {"walked", "blanked"}
             /\ sent[p] = Redacted(engine, value[p], Fate(engine, value, p))
  <2>1. /\ p \in DOMAIN value /\ Ends(engine, value, p) \in {"walked", "blanked"}
        /\ sent[p] = Redacted(engine, value[p], Ends(engine, value, p))
    BY RedactFacts
  <2>2. Ends(engine, value, p) =
          IF CutOff(engine, value, p) THEN "unreached" ELSE Fate(engine, value, p)
    BY DEF Ends, Outcome
  <2>3. QED
    BY <2>1, <2>2 DEF IsPayload
<1> HIDE DEF sent
<1>2. ASSUME NEW p \in DOMAIN sent, NEW i \in DOMAIN p,
             IsKey(value, p, i), p[i] \in engine.denied
      PROVE  sent[p] = Blank
  <2> DEFINE n == Len(p)
  <2>1. p \in Seq(Steps(keys)) /\ i \in 1 .. n /\ n \in Nat /\ SubSeq(p, 1, n) = p
    BY <1>1
  <2>2. Fate(engine, value, SubSeq(p, 1, i)) \in {"dropped", "blanked"}
    BY <1>2, <2>1, FateOfPrefix DEF Denied
  <2>3. ~(i \in 1 .. n - 1)
    BY <1>1, <2>2 DEF CutOff
  <2> HIDE DEF n
  <2>4. i = n
    BY <2>1, <2>3
  <2>5. Fate(engine, value, p) = "blanked"
    BY <1>1, <2>1, <2>2, <2>4
  <2>6. QED
    BY <1>1, <2>5 DEF Redacted
<1>3. ASSUME NEW p \in DOMAIN sent, sent[p].kind = "leaf",
             ~RunsTogether(value[p].text.words),
             NEW i \in DOMAIN sent[p].text.words,
             sent[p].text.words[i].shape \in Sensitive,
             sent[p].text.words[i].state = "whole"
      PROVE  \/ sent[p].text.words[i].shape = "ip" /\ engine.ipMode = "passthrough"
             \/ sent[p].text.words[i].shape = "ipv6"
  <2> DEFINE words == value[p].text.words
             text == RedactText(value[p].text, engine.ipMode).text
  <2>1. Fate(engine, value, p) = "walked"
    BY <1>1, <1>3 DEF Redacted, Blank
  <2>2. value[p].kind = "leaf"
    BY <1>1, <1>3, <2>1 DEF Redacted
  <2>3. value[p] \in [kind : {"leaf"}, text : FreshText]
    BY <1>1, <2>2 DEF Nodes
  <2>4. sent[p] = [value[p] EXCEPT !.text = text]
    BY <1>1, <2>1, <2>2 DEF Redacted
  <2>5. text.words = Passes(words, engine.ipMode)
    BY DEF RedactText
  <2> HIDE DEF text
  <2>6. sent[p].text = text
    BY <2>3, <2>4
  <2>7. words \in Seq(FreshWord)
    BY <2>3 DEF FreshText, FreshWord
  <2> HIDE DEF words
  <2>8. PICK n \in Nat : words \in [1 .. n -> FreshWord]
    BY <2>7
  <2>9. i \in 1 .. n
    <3>1. DOMAIN Passes(words, engine.ipMode) = 1 .. n
      BY <2>8, PassesWord
    <3>2. QED
      BY <1>3, <2>5, <2>6, <3>1
  <2>10. /\ Passes(words, engine.ipMode)[i].shape \in Sensitive
         /\ Passes(words, engine.ipMode)[i].state = "whole"
         /\ ~RunsTogether(words)
    BY <1>3, <2>5, <2>6 DEF words
  <2>11. QED
    BY <2>5, <2>6, <2>8, <2>9, <2>10, PassesMask
<1>4. QED
  BY <1>2, <1>3 DEF NothingWhole, sent

(* What the walk gets to without a key that it drops or blanks is kept, and *)
(* stays what it is unless its own key is denied.                          *)
LEMMA WalkedIsKept ==
    ASSUME NEW keys, NEW value, IsPayload(value, keys), NEW engine,
           NEW p \in DOMAIN value,
           \A i \in 1 .. Len(p) - 1 : IsKey(value, p, i) => p[i] \notin engine.denied,
           \A i \in 1 .. Len(p) : IsKey(value, p, i) =>
             p[i] \in ContainerKeys \/ ApprovedAt(engine, value, SubSeq(p, 1, i))
    PROVE  LET sent == Redact(engine, value).value
           IN  /\ p \in DOMAIN sent
               /\ p = <<>> \/ ~IsKey(value, p, Len(p)) \/ p[Len(p)] \notin engine.denied
                    => sent[p] = Redacted(engine, value[p], "walked")
<1> DEFINE n == Len(p)
           last == p = <<>> \/ ~IsKey(value, p, n) \/ p[n] \notin engine.denied
<1>1. p \in Seq(Steps(keys)) /\ SubSeq(p, 1, n) = p /\ n \in Nat
  <2>1. p \in Seq(Steps(keys))
    BY DEF IsPayload
  <2>2. QED
    BY <2>1
<1>2. \A i \in 1 .. n - 1 : i \in 1 .. n
  BY <1>1
<1>3. \A i \in 1 .. n - 1 : Fate(engine, value, SubSeq(p, 1, i)) = "walked"
  BY <1>1, <1>2, FateOfPrefix DEF Drops, Denied
<1>4. ~CutOff(engine, value, p)
  BY <1>3 DEF CutOff
<1>5. /\ Fate(engine, value, p) \in {"walked", "blanked"}
      /\ last => Fate(engine, value, p) = "walked"
  <2>1. CASE p = <<>>
    BY <2>1 DEF Fate
  <2>2. CASE p # <<>>
    <3>1. n \in 1 .. n
      BY <1>1, <2>2
    <3>2. Fate(engine, value, p) = IF ~IsKey(value, p, n) THEN "walked"
                                   ELSE IF Denied(engine, p[n]) THEN "blanked"
                                   ELSE "walked"
      <4>1. IsKey(value, p, n) =>
              p[n] \in ContainerKeys \/ ApprovedAt(engine, value, SubSeq(p, 1, n))
        BY <3>1
      <4>2. Fate(engine, value, SubSeq(p, 1, n)) =
              IF ~IsKey(value, p, n) THEN "walked"
              ELSE IF Drops(engine, p[n], ApprovedAt(engine, value, SubSeq(p, 1, n)))
              THEN "dropped"
              ELSE IF Denied(engine, p[n]) THEN "blanked" ELSE "walked"
        BY <1>1, <3>1, FateOfPrefix
      <4> HIDE DEF n
      <4>3. Fate(engine, value, SubSeq(p, 1, n)) =
              IF ~IsKey(value, p, n) THEN "walked"
              ELSE IF Denied(engine, p[n]) THEN "blanked" ELSE "walked"
        BY <4>1, <4>2 DEF Drops
      <4>4. QED
        BY <1>1, <4>3
    <3>3. QED
      BY <2>2, <3>2 DEF Denied
  <2>3. QED
    BY <2>1, <2>2
<1>6. Ends(engine, value, p) = Fate(engine, value, p)
  BY <1>4 DEF Ends, Outcome
<1>7. p \in DOMAIN Redact(engine, value).value
  BY <1>5, <1>6, RedactFacts
<1>8. last => Redact(engine, value).value[p] = Redacted(engine, value[p], "walked")
  BY <1>5, <1>6, <1>7, RedactFacts
<1>9. QED
  BY <1>7, <1>8

(* The envelope survives, for any payload and engine, below keys that are  *)
(* not denied: structural fields at the top and in containers, and the     *)
(* containers.                                                             *)
THEOREM EnvelopeSurvives ==
    ASSUME NEW keys, NEW value, IsPayload(value, keys), NEW engine,
           NEW p \in DOMAIN value,
           \A j \in 1 .. Len(p) - 1 : IsKey(value, p, j) => p[j] \notin engine.denied
    PROVE  LET sent == Redact(engine, value).value
           IN  /\ (\E i \in DOMAIN p :
                     /\ IsKey(value, p, i) /\ p[i] \in StructuralKeys
                     /\ \A j \in 1 .. i - 1 :
                          IsKey(value, p, j) /\ p[j] \in ContainerKeys)
                    => p \in DOMAIN sent
               /\ (\A j \in DOMAIN p :
                     IsKey(value, p, j) /\ p[j] \in ContainerKeys \ engine.denied)
                    => p \in DOMAIN sent /\ sent[p].kind = value[p].kind
<1> DEFINE n == Len(p)
           sent == Redact(engine, value).value
<1>1. p \in Seq(Steps(keys)) /\ DOMAIN p = 1 .. n /\ n \in Nat
  <2>1. p \in Seq(Steps(keys))
    BY DEF IsPayload
  <2>2. QED
    BY <2>1
<1>2. ASSUME NEW i \in 1 .. n, IsKey(value, p, i), p[i] \in StructuralKeys,
             \A j \in 1 .. i - 1 : IsKey(value, p, j) /\ p[j] \in ContainerKeys
      PROVE  p \in DOMAIN sent
  <2>1. ASSUME NEW k \in 1 .. n, ~(k < i)
        PROVE  ApprovedAt(engine, value, SubSeq(p, 1, k))
    <3>1. i \in 1 .. k
      BY <1>1, <2>1
    <3>2. /\ IsKey(value, SubSeq(p, 1, k), i) <=> IsKey(value, p, i)
          /\ SubSeq(p, 1, k)[i] = p[i] /\ Len(SubSeq(p, 1, k)) = k
      BY <1>1, <3>1, PrefixKeys
    <3>3. QED
      BY <1>2, <3>1, <3>2 DEF ApprovedAt, ApprovedKey
  <2>2. \A k \in 1 .. n : k < i => p[k] \in ContainerKeys
    BY <1>2
  <2>3. \A k \in 1 .. n : IsKey(value, p, k) =>
          p[k] \in ContainerKeys \/ ApprovedAt(engine, value, SubSeq(p, 1, k))
    BY <2>1, <2>2
  <2>4. QED
    BY <2>3, WalkedIsKept
<1>3. ASSUME \A j \in 1 .. n :
               IsKey(value, p, j) /\ p[j] \in ContainerKeys \ engine.denied
      PROVE  p \in DOMAIN sent /\ sent[p].kind = value[p].kind
  <2>1. p = <<>> \/ p[n] \notin engine.denied
    BY <1>1, <1>3
  <2>2. p \in DOMAIN sent /\ sent[p] = Redacted(engine, value[p], "walked")
    BY <1>3, <2>1, WalkedIsKept
  <2>3. Redacted(engine, value[p], "walked").kind = value[p].kind
    <3>1. value[p] \in Nodes
      BY DEF IsPayload
    <3>2. QED
      BY <3>1 DEF Redacted, Nodes
  <2>4. QED
    BY <2>2, <2>3
<1>4. QED
  BY <1>1, <1>2, <1>3

-----------------------------------------------------------------------------
(* The detector chain                                                      *)

(* The first of the most severe hits.                                      *)
FirstWorst(matches, n, k) ==
    \A j \in 1 .. n :
        /\ Rank(matches[j].severity) <= Rank(matches[k].severity)
        /\ j < k => Rank(matches[j].severity) < Rank(matches[k].severity)

(* pickPrimaryDetection returns the first of the most severe hits.         *)
LEMMA PrimaryIsFirstWorst ==
    ASSUME NEW matches \in Seq(HitShape), matches # <<>>
    PROVE  \E k \in DOMAIN matches :
             /\ PickPrimary(matches) = matches[k]
             /\ FirstWorst(matches, Len(matches), k)
<1> DEFINE n == Len(matches)
           primary == CHOOSE f : f = [i \in DOMAIN matches |->
                        IF i = 1 THEN matches[1] ELSE Better(matches[i], f[i - 1])]
           step == [i \in Nat |-> [x \in HitShape |->
                      IF i \in 1 .. n THEN Better(matches[i], x) ELSE x]]
           first == matches[1]
           rank(h) == Rank(h.severity)
<1>1. /\ n \in Nat \ {0} /\ DOMAIN matches = 1 .. n
      /\ \A i \in 1 .. n : matches[i] \in HitShape
      /\ 1 \in 1 .. n
  OBVIOUS
<1>2. PickPrimary(matches) = primary[n]
  BY DEF PickPrimary
<1>3. \A h \in HitShape : rank(h) \in Int
  BY DEF HitShape, Severities, Rank
<1> HIDE DEF n, rank
<1>4. step \in [Nat -> [HitShape -> HitShape]]
  BY <1>1 DEF Better
<1>5. \A i \in 1 .. n, x \in HitShape : step[i][x] = Better(matches[i], x)
  OBVIOUS
<1>6. first \in HitShape
  BY <1>1
<1> HIDE DEF step, first
<1>7. PICK f \in [1 .. n -> HitShape] : Iterates(f, n, first, step)
  BY <1>1, <1>4, <1>6, Iteration
<1>8. f = [i \in DOMAIN matches |->
             IF i = 1 THEN matches[1] ELSE Better(matches[i], f[i - 1])]
  <2>1. ASSUME NEW i \in 1 .. n
        PROVE  f[i] = IF i = 1 THEN matches[1] ELSE Better(matches[i], f[i - 1])
    <3>1. CASE i = 1
      BY <1>7, <3>1 DEF Iterates, first
    <3>2. CASE i # 1
      <4>1. i - 1 \in 1 .. n
        BY <1>1, <3>2
      <4>2. QED
        BY <1>5, <1>7, <3>2, <4>1 DEF Iterates
    <3>3. QED
      BY <3>1, <3>2
  <2>2. QED
    BY <1>1, <2>1
<1>9. primary = [i \in DOMAIN matches |->
             IF i = 1 THEN matches[1] ELSE Better(matches[i], primary[i - 1])]
  BY <1>8
<1> HIDE DEF primary
<1> DEFINE T == {m \in Nat : m + 1 \in 1 .. n =>
                   \E k \in 1 .. m + 1 : /\ primary[m + 1] = matches[k]
                                         /\ FirstWorst(matches, m + 1, k)}
<1>10. 0 \in T
  <2>1. primary[1] = matches[1]
    BY <1>1, <1>9
  <2>2. FirstWorst(matches, 1, 1)
    BY <1>1, <1>3 DEF FirstWorst, rank
  <2>3. 0 + 1 = 1 /\ 1 \in 1 .. 1
    OBVIOUS
  <2>4. QED
    BY <2>1, <2>2, <2>3
<1>11. ASSUME NEW m \in T PROVE m + 1 \in T
  <2> DEFINE b == m + 1
  <2>1. m \in Nat /\ b \in Nat \ {0} /\ (b + 1) - 1 = b /\ b + 1 # 1
    OBVIOUS
  <2>2. b \in 1 .. n => \E k \in 1 .. b : primary[b] = matches[k] /\ FirstWorst(matches, b, k)
    BY DEF T
  <2> HIDE DEF b
  <2>3. ASSUME b + 1 \in 1 .. n
        PROVE  \E k \in 1 .. b + 1 : /\ primary[b + 1] = matches[k]
                                     /\ FirstWorst(matches, b + 1, k)
    <3>1. b \in 1 .. n
      BY <1>1, <2>1, <2>3
    <3>2. PICK k \in 1 .. b : primary[b] = matches[k] /\ FirstWorst(matches, b, k)
      BY <2>2, <3>1
    <3>3. primary[b + 1] = IF rank(matches[b + 1]) > rank(matches[k])
                           THEN matches[b + 1] ELSE matches[k]
      BY <1>1, <1>9, <2>1, <2>3, <3>2 DEF Better, rank
    <3>4. k \in 1 .. n /\ \A j \in 1 .. b + 1 : j \in 1 .. n /\ (j \in 1 .. b \/ j = b + 1)
      BY <1>1, <2>1, <2>3
    <3>5. /\ rank(matches[k]) \in Int
          /\ \A j \in 1 .. b + 1 : rank(matches[j]) \in Int
      BY <1>1, <1>3, <3>4
    <3>6. \A j \in 1 .. b : /\ rank(matches[j]) <= rank(matches[k])
                            /\ j < k => rank(matches[j]) < rank(matches[k])
      BY <3>2 DEF FirstWorst, rank
    <3>7. CASE rank(matches[b + 1]) > rank(matches[k])
      <4>1. \A j \in 1 .. b + 1 :
              /\ rank(matches[j]) <= rank(matches[b + 1])
              /\ j < b + 1 => rank(matches[j]) < rank(matches[b + 1])
        BY <2>1, <3>4, <3>5, <3>6, <3>7
      <4>2. FirstWorst(matches, b + 1, b + 1)
        BY <4>1 DEF FirstWorst, rank
      <4>3. b + 1 \in 1 .. b + 1
        BY <2>1
      <4>4. QED
        BY <3>3, <3>7, <4>2, <4>3
    <3>8. CASE ~(rank(matches[b + 1]) > rank(matches[k]))
      <4>1. rank(matches[b + 1]) <= rank(matches[k])
        BY <2>1, <3>5, <3>8
      <4>2. \A j \in 1 .. b + 1 :
              /\ rank(matches[j]) <= rank(matches[k])
              /\ j < k => rank(matches[j]) < rank(matches[k])
        BY <2>1, <3>4, <3>6, <4>1
      <4>3. FirstWorst(matches, b + 1, k)
        BY <4>2 DEF FirstWorst, rank
      <4>4. k \in 1 .. b + 1
        BY <2>1
      <4>5. QED
        BY <3>3, <3>8, <4>3, <4>4
    <3>9. QED
      BY <3>7, <3>8
  <2>4. QED
    BY <2>1, <2>3 DEF T, b
<1>12. T = Nat
  <2>1. T \in SUBSET Nat
    BY DEF T
  <2>2. \A m \in T : m + 1 \in T
    BY <1>11
  <2> HIDE DEF T
  <2>3. QED
    BY <1>10, <2>1, <2>2, SetInduction
<1>13. \E k \in 1 .. n : primary[n] = matches[k] /\ FirstWorst(matches, n, k)
  <2> DEFINE m == n - 1
  <2>1. m \in Nat /\ m + 1 = n /\ n \in 1 .. n
    BY <1>1
  <2> HIDE DEF m
  <2>2. m \in T
    BY <1>12, <2>1
  <2>3. QED
    BY <2>1, <2>2
<1>14. QED
  BY <1>1, <1>2, <1>13 DEF n

(* The matches are the hits of the detectors that do not throw, in their   *)
(* order.                                                                  *)
HitsOf(result) == IF result.throws THEN <<>> ELSE result.hits

(* inspect() collects them all.                                            *)
LEMMA MatchesPlaces ==
    ASSUME NEW n \in Nat, NEW chain \in [1 .. n -> ResultShape]
    PROVE  /\ Matches(chain) \in Seq(HitShape)
           /\ \E start \in [1 .. n -> Nat] :
                Placed([d \in 1 .. n |-> HitsOf(chain[d])], n, Matches(chain), start)
<1> DEFINE seqs == [d \in 1 .. n |-> HitsOf(chain[d])]
<1>1. seqs \in [1 .. n -> Seq(HitShape)]
  <2>1. ASSUME NEW d \in 1 .. n PROVE HitsOf(chain[d]) \in Seq(HitShape)
    <3>1. chain[d] \in ResultShape /\ <<>> \in Seq(HitShape)
      OBVIOUS
    <3>2. chain[d].hits \in Seq(HitShape)
      BY <3>1 DEF ResultShape
    <3>3. QED
      BY <3>1, <3>2 DEF HitsOf
  <2>2. QED
    BY <2>1
<1>2. Matches(chain) = FlattenSeq(seqs)
  BY DEF Matches, HitsOf
<1> HIDE DEF seqs
<1>3. QED
  BY <1>1, <1>2, FlattenPlaces DEF seqs

(* The first of the most severe of all that is reported.                   *)
WorstOf(chain, primary) ==
    LET hits(d) == IF chain[d].throws THEN {} ELSE DOMAIN chain[d].hits
        rank(d, h) == Rank(chain[d].hits[h].severity)
    IN  \E d \in DOMAIN chain : \E h \in hits(d) :
          /\ primary = chain[d].hits[h]
          /\ \A e \in DOMAIN chain : \A i \in hits(e) :
                /\ rank(e, i) <= rank(d, h)
                /\ e < d \/ (e = d /\ i < h) => rank(e, i) < rank(d, h)

(* So the detection that pickPrimaryDetection returns is that one, for any *)
(* chain.                                                                  *)
THEOREM PrimaryIsWorst ==
    ASSUME NEW chain \in Seq(ResultShape), Matches(chain) # <<>>
    PROVE  WorstOf(chain, PickPrimary(Matches(chain)))
<1> DEFINE hits(d) == IF chain[d].throws THEN {} ELSE DOMAIN chain[d].hits
           rank(d, h) == Rank(chain[d].hits[h].severity)
           matches == Matches(chain)
           worst == Rank(PickPrimary(matches).severity)
<1>1. PICK n \in Nat : chain \in [1 .. n -> ResultShape]
  OBVIOUS
<1> DEFINE seqs == [d \in 1 .. n |-> HitsOf(chain[d])]
<1>2. matches \in Seq(HitShape)
  BY <1>1, MatchesPlaces
<1>3. PICK start \in [1 .. n -> Nat] : Placed(seqs, n, matches, start)
  BY <1>1, MatchesPlaces
<1>4. PICK k \in DOMAIN matches : /\ PickPrimary(matches) = matches[k]
                                  /\ FirstWorst(matches, Len(matches), k)
  BY <1>2, PrimaryIsFirstWorst
<1> HIDE DEF matches
<1>5. DOMAIN matches = 1 .. Len(matches) /\ Len(matches) \in Nat
  BY <1>2
<1>6. ASSUME NEW d \in 1 .. n
      PROVE  /\ hits(d) = 1 .. Len(seqs[d]) /\ Len(seqs[d]) \in Nat
             /\ \A h \in hits(d) : seqs[d][h] = chain[d].hits[h]
  <2>1. chain[d] \in ResultShape /\ seqs[d] = HitsOf(chain[d])
    BY <1>1
  <2>2. chain[d].hits \in Seq(HitShape)
    BY <2>1 DEF ResultShape
  <2>3. QED
    BY <2>1, <2>2 DEF HitsOf
<1> HIDE DEF seqs, hits
<1>7. /\ \A d \in 1 .. n : \A h \in 1 .. Len(seqs[d]) :
            start[d] + h \in 1 .. Len(matches) /\ matches[start[d] + h] = seqs[d][h]
      /\ \A j \in 1 .. Len(matches) :
            \E d \in 1 .. n : \E h \in 1 .. Len(seqs[d]) : j = start[d] + h
      /\ \A d, e \in 1 .. n : d < e => start[d] + Len(seqs[d]) <= start[e]
  BY <1>3, Zenon DEF Placed
<1>8. PICK d \in 1 .. n : \E h \in hits(d) : k = start[d] + h
  BY <1>5, <1>6, <1>7
<1>9. PICK h \in hits(d) : k = start[d] + h
  BY <1>8
<1>10. PickPrimary(matches) = chain[d].hits[h]
  BY <1>4, <1>6, <1>7, <1>9
<1>11. ASSUME NEW e \in 1 .. n, NEW i \in hits(e)
       PROVE  /\ rank(e, i) <= rank(d, h)
              /\ e < d \/ (e = d /\ i < h) => rank(e, i) < rank(d, h)
  <2> DEFINE j == start[e] + i
  <2>1. j \in 1 .. Len(matches) /\ matches[j] = chain[e].hits[i]
    <3>1. i \in 1 .. Len(seqs[e]) /\ seqs[e][i] = chain[e].hits[i]
      BY <1>6
    <3>2. QED
      BY <1>7, <3>1
  <2>2. /\ rank(e, i) <= rank(d, h)
        /\ j < k => rank(e, i) < rank(d, h)
    BY <1>4, <1>10, <2>1 DEF FirstWorst
  <2>3. /\ start[e] \in Nat /\ start[d] \in Nat /\ Len(seqs[e]) \in Nat
        /\ i \in 1 .. Len(seqs[e]) /\ h \in 1 .. Len(seqs[d]) /\ Len(seqs[d]) \in Nat
    BY <1>3, <1>6
  <2>4. e < d => j < k
    <3>1. e < d => start[e] + Len(seqs[e]) <= start[d]
      BY <1>7
    <3>2. QED
      BY <1>9, <2>3, <3>1
  <2>5. e = d /\ i < h => j < k
    BY <1>9, <2>3
  <2>6. QED
    BY <2>2, <2>4, <2>5
<1>12. DOMAIN chain = 1 .. n
  BY <1>1
<1>13. QED
  BY <1>10, <1>11, <1>12 DEF WorstOf, hits, matches

-----------------------------------------------------------------------------
(* The BOLA detector                                                       *)

(* So few that they raise no alarm.                                        *)
Small(S) == IsFiniteSet(S) /\ Cardinality(S) <= Threshold

(* When the window of an address was opened.                               *)
Opened(a) == ipState[a].start

(* The ids of the requests that raised no alarm, before and in the last    *)
(* window of an address.                                                   *)
Before(a) == IdsOf({s \in seen : s.addr = a /\ ~s.flagged /\ s.at < Opened(a)})
Within(a) == IdsOf({s \in seen : s.addr = a /\ ~s.flagged /\ s.at >= Opened(a)})

(* What an address' window says about the requests that were seen from it: *)
(* it covers all of the last ones, so those before it belong to one window *)
(* more at most, and in each of the two few of them raised no alarm.       *)
WindowAccounts(a) ==
    /\ Opened(a) <= now
    /\ IsFiniteSet(ipState[a].ids)
    /\ IsFiniteSet(IdsOf(Recent(a)))
    /\ ipState[a] = NoState => \A s \in seen : s.addr # a
    /\ \A s \in seen : s.addr = a =>
         s.at <= Opened(a) + Window /\ (s.at >= Opened(a) => s.id \in ipState[a].ids)
    /\ now - Opened(a) <= Window => \A i \in ipState[a].ids :
         \E s \in seen : s.addr = a /\ s.id = i /\ s.at >= Opened(a)
    /\ Small(Before(a)) /\ Small(Within(a))

(* A window that is kept is as old as the next pruning allows.             *)
PrunedInTime ==
    pruneAt # Never =>
        /\ now <= pruneAt /\ pruneAt <= now + PrunePeriod
        /\ \A a \in Addresses :
             ipState[a] # NoState => Opened(a) >= pruneAt - PrunePeriod - 2 * Window

(* The verdict was given in a window that is open.                         *)
VerdictInWindow ==
    verdict = "enumeration" => \E a \in Addresses :
        now - Opened(a) <= Window /\ Flags(ipState[a].ids)

(* The inductive invariant of the detector.                                *)
BolaIInv ==
    /\ BolaTypeOK
    /\ \A s \in seen : s.at <= now /\ now - s.at <= Window
    /\ \A a \in Addresses : WindowAccounts(a)
    /\ PrunedInTime
    /\ VerdictInWindow

(* A part of few is few.                                                   *)
LEMMA SmallSubset ==
    ASSUME NEW S, NEW T, Small(S), T \subseteq S
    PROVE  Small(T)
<1>1. IsFiniteSet(T) /\ Cardinality(T) <= Cardinality(S)
  BY FS_Subset DEF Small
<1>2. Cardinality(T) \in Nat /\ Cardinality(S) \in Nat
  BY <1>1, FS_CardinalityType DEF Small
<1>3. QED
  BY <1>1, <1>2, ThresholdAssumption DEF Small

(* And so is nothing.                                                      *)
LEMMA SmallEmpty == Small({})
BY FS_EmptySet, ThresholdAssumption DEF Small

(* A new detector has seen nothing.                                        *)
LEMMA BolaInitIInv == BolaInit => BolaIInv
<1> SUFFICES ASSUME BolaInit PROVE BolaIInv
  OBVIOUS
<1>1. /\ now = 0 /\ verdict = "none" /\ seen = {}
      /\ ipState = [a \in Addresses |-> NoState]
      /\ pruneAt = PrunePeriod \/ pruneAt = Never
  BY DEF BolaInit
<1>2. BolaTypeOK
  BY <1>1, WindowAssumption DEF BolaTypeOK, NoState
<1>3. ASSUME NEW a \in Addresses PROVE WindowAccounts(a)
  <2>1. ipState[a] = NoState /\ Opened(a) = 0
    BY <1>1 DEF Opened, NoState
  <2>2. Before(a) = {} /\ Within(a) = {} /\ IdsOf(Recent(a)) = {}
    BY <1>1 DEF Before, Within, Recent, IdsOf
  <2>3. QED
    BY <1>1, <2>1, <2>2, SmallEmpty, FS_EmptySet DEF WindowAccounts, NoState
<1>4. PrunedInTime
  BY <1>1, WindowAssumption DEF PrunedInTime
<1>5. QED
  BY <1>1, <1>2, <1>3, <1>4 DEF BolaIInv, VerdictInWindow

(* Fewer requests, the same windows: time has passed, or nothing happened. *)
LEMMA ForgettingAccounts ==
    ASSUME BolaTypeOK, BolaTypeOK', NEW a \in Addresses, WindowAccounts(a),
           ipState'[a] = ipState[a], now <= now',
           seen' \subseteq seen,
           \A s \in seen \ seen' : now' - s.at > Window
    PROVE  WindowAccounts(a)'
<1>1. Opened(a)' = Opened(a) /\ Opened(a) \in Nat /\ now \in Nat /\ now' \in Nat
  BY DEF Opened, BolaTypeOK
<1>2. Before(a)' \subseteq Before(a) /\ Within(a)' \subseteq Within(a)
  BY <1>1 DEF Before, Within, IdsOf
<1>3. IdsOf(Recent(a))' \subseteq IdsOf(Recent(a))
  BY DEF IdsOf, Recent
<1>4. IsFiniteSet(IdsOf(Recent(a))')
  BY <1>3, FS_Subset DEF WindowAccounts
<1>5. Small(Before(a)') /\ Small(Within(a)')
  BY <1>2, SmallSubset DEF WindowAccounts
<1>6. ASSUME now' - Opened(a)' <= Window, NEW i \in ipState'[a].ids
      PROVE  \E s \in seen' : s.addr = a /\ s.id = i /\ s.at >= Opened(a)'
  <2>1. now - Opened(a) <= Window
    BY <1>1, <1>6, WindowAssumption
  <2>2. PICK s \in seen : s.addr = a /\ s.id = i /\ s.at >= Opened(a)
    BY <1>6, <2>1 DEF WindowAccounts
  <2>3. s.at \in Nat
    BY DEF BolaTypeOK, Tracked
  <2>4. now' - s.at <= Window /\ ~(now' - s.at > Window)
    BY <1>1, <1>6, <2>2, <2>3, WindowAssumption
  <2>5. s \in seen'
    BY <2>4
  <2>6. QED
    BY <1>1, <2>2, <2>5
<1>7. QED
  BY <1>1, <1>4, <1>5, <1>6 DEF WindowAccounts, Small

(* What a tracked request does to its address: it joins the window that is *)
(* open or opens a new one, and then what was seen before and is not       *)
(* forgotten belongs to the old one.                                       *)
LEMMA JoinAccounts ==
    ASSUME BolaIInv, NEW a \in Addresses,
           NEW w \in [start : Nat, ids : SUBSET ObjectIds],
           \/ /\ w = [start |-> now, ids |-> {}]
              /\ ipState[a] = NoState \/ now - Opened(a) > Window
           \/ /\ w = ipState[a]
              /\ ipState[a] # NoState /\ now - Opened(a) <= Window,
           NEW id \in ObjectIds, NEW ids, ids = w.ids \cup {id},
           NEW e, e.addr = a, e.id = id, e.at = now, e.flagged = Flags(ids),
           Opened(a)' = w.start, ipState'[a].ids = ids,
           seen' = seen \cup {e}, now' = now
    PROVE  WindowAccounts(a)'
<1>1. /\ now \in Nat /\ w.start \in Nat /\ Opened(a) \in Nat
      /\ \A s \in seen : s.at \in Nat /\ s.at <= now /\ now - s.at <= Window
      /\ WindowAccounts(a)
  BY DEF BolaIInv, BolaTypeOK, Tracked, Opened
<1>2. w = ipState[a] => w.start = Opened(a)
  BY DEF Opened
<1>3. w.start <= now /\ now - w.start <= Window
  BY <1>1, <1>2, WindowAssumption DEF WindowAccounts
<1>4. IsFiniteSet(ids) /\ id \in ids /\ w.ids \subseteq ids
  <2>1. w.ids = {} \/ w.ids = ipState[a].ids
    OBVIOUS
  <2>2. IsFiniteSet(w.ids)
    BY <1>1, <2>1, FS_EmptySet DEF WindowAccounts
  <2>3. QED
    BY <2>2, FS_AddElement
<1>5. IsFiniteSet(IdsOf(Recent(a))')
  <2>1. IdsOf(Recent(a))' = IdsOf(Recent(a)) \cup {id}
    BY DEF IdsOf, Recent
  <2>2. QED
    BY <1>1, <2>1, FS_AddElement DEF WindowAccounts
(* The requests seen from the address, old and new, and its window.        *)
<1>6. ASSUME NEW s \in seen, s.addr = a
      PROVE  /\ s.at <= w.start + Window
             /\ s.at >= w.start => s.id \in ids
             /\ w # ipState[a] => s.at < w.start /\ s.at >= Opened(a)
  <2>1. /\ ipState[a] # NoState
        /\ s.at <= Opened(a) + Window
        /\ s.at >= Opened(a) => s.id \in ipState[a].ids
    BY <1>1, <1>6 DEF WindowAccounts
  <2>2. CASE w = ipState[a]
    BY <1>2, <1>4, <2>1, <2>2
  <2>3. CASE w # ipState[a]
    <3>1. w.start = now /\ now - Opened(a) > Window
      BY <2>1, <2>3
    <3>2. QED
      BY <1>1, <2>1, <2>3, <3>1, WindowAssumption
  <2>4. QED
    BY <2>2, <2>3
<1>7. \A s \in seen' : s.addr = a =>
        s.at <= w.start + Window /\ (s.at >= w.start => s.id \in ids)
  BY <1>1, <1>3, <1>4, <1>6, WindowAssumption
<1>8. \A i \in ids : \E s \in seen' : s.addr = a /\ s.id = i /\ s.at >= w.start
  <2>1. e \in seen' /\ e.at >= w.start
    BY <1>3
  <2>2. ASSUME NEW i \in w.ids
        PROVE  \E s \in seen : s.addr = a /\ s.id = i /\ s.at >= w.start
    BY <1>1, <1>2, <2>2 DEF WindowAccounts
  <2>3. QED
    BY <2>1, <2>2
(* Few of them raised no alarm, before the window and in it.               *)
<1>9. Small(Before(a)')
  <2>1. CASE w = ipState[a]
    <3>1. \A s \in seen' : s.at < w.start => s \in seen
      BY <1>1, <1>3
    <3>2. Before(a)' \subseteq Before(a)
      BY <1>2, <2>1, <3>1 DEF Before, IdsOf
    <3>3. QED
      BY <1>1, <3>2, SmallSubset DEF WindowAccounts
  <2>2. CASE w # ipState[a]
    <3>1. \A s \in seen' : s.at < w.start /\ s.addr = a => s \in seen /\ s.at >= Opened(a)
      BY <1>1, <1>3, <1>6, <2>2
    <3>2. Before(a)' \subseteq Within(a)
      BY <3>1 DEF Before, Within, IdsOf
    <3>3. QED
      BY <1>1, <3>2, SmallSubset DEF WindowAccounts
  <2>3. QED
    BY <2>1, <2>2
<1>10. Small(Within(a)')
  <2>1. CASE Flags(ids)
    <3>1. \A s \in seen' : ~s.flagged => s \in seen
      BY <2>1
    <3>2. CASE w = ipState[a]
      <4>1. Within(a)' \subseteq Within(a)
        BY <1>2, <3>1, <3>2 DEF Within, IdsOf
      <4>2. QED
        BY <1>1, <4>1, SmallSubset DEF WindowAccounts
    <3>3. CASE w # ipState[a]
      <4>1. \A s \in seen : s.addr = a => ~(s.at >= w.start)
        BY <1>1, <1>6, <3>3
      <4>2. Within(a)' = {}
        BY <3>1, <4>1 DEF Within, IdsOf
      <4>3. QED
        BY <4>2, SmallEmpty
    <3>4. QED
      BY <3>2, <3>3
  <2>2. CASE ~Flags(ids)
    <3>1. Cardinality(ids) \in Nat
      BY <1>4, FS_CardinalityType
    <3>2. Small(ids)
      BY <1>4, <2>2, <3>1, ThresholdAssumption DEF Small, Flags
    <3>3. Within(a)' \subseteq ids
      BY <1>7 DEF Within, IdsOf
    <3>4. QED
      BY <3>2, <3>3, SmallSubset
  <2>3. QED
    BY <2>1, <2>2
<1>11. ipState'[a] # NoState
  BY <1>4 DEF NoState
<1>12. QED
  BY <1>3, <1>4, <1>5, <1>7, <1>8, <1>9, <1>10, <1>11 DEF WindowAccounts, Small

(* The window that a request joins, or opens.                              *)
LEMMA WindowOfCases ==
    ASSUME BolaIInv, NEW a \in Addresses
    PROVE  /\ WindowOf(a) \in [start : Nat, ids : SUBSET ObjectIds]
           /\ now - WindowOf(a).start <= Window
           /\ \/ /\ WindowOf(a) = [start |-> now, ids |-> {}]
                 /\ ipState[a] = NoState \/ now - Opened(a) > Window
              \/ /\ WindowOf(a) = ipState[a]
                 /\ ipState[a] # NoState /\ now - Opened(a) <= Window
<1>1. now \in Nat /\ ipState[a] \in [start : Nat, ids : SUBSET ObjectIds]
  BY DEF BolaIInv, BolaTypeOK
<1>2. CASE ipState[a] = NoState \/ now - ipState[a].start > Window
  <2>1. WindowOf(a) = [start |-> now, ids |-> {}]
    BY <1>2 DEF WindowOf
  <2>2. QED
    BY <1>1, <1>2, <2>1, WindowAssumption DEF Opened
<1>3. CASE ~(ipState[a] = NoState \/ now - ipState[a].start > Window)
  <2>1. WindowOf(a) = ipState[a]
    BY <1>3 DEF WindowOf
  <2>2. QED
    BY <1>1, <1>3, <2>1, WindowAssumption DEF Opened
<1>4. QED
  BY <1>2, <1>3

(* detect() keeps the account of every address.                            *)
LEMMA TrackIInv ==
    ASSUME BolaIInv, NEW addr \in Addresses, NEW id \in ObjectIds, Track(addr, id),
           UNCHANGED <<now, pruneAt>>
    PROVE  BolaIInv'
<1> DEFINE w == WindowOf(addr)
           ids == w.ids \cup {id}
           e == [addr |-> addr, id |-> id, at |-> now, flagged |-> Flags(ids)]
<1>1. /\ ipState' = [ipState EXCEPT ![addr] = [w EXCEPT !.ids = ids]]
      /\ seen' = seen \cup {e}
      /\ verdict' = IF Flags(ids) THEN "enumeration" ELSE "none"
  BY DEF Track
<1>2. /\ now \in Nat
      /\ ipState \in [Addresses -> [start : Nat, ids : SUBSET ObjectIds]]
      /\ \A s \in seen : s.at <= now /\ now - s.at <= Window
  BY DEF BolaIInv, BolaTypeOK
<1>3. /\ w \in [start : Nat, ids : SUBSET ObjectIds]
      /\ now - w.start <= Window
      /\ \/ /\ w = [start |-> now, ids |-> {}]
            /\ ipState[addr] = NoState \/ now - Opened(addr) > Window
         \/ /\ w = ipState[addr]
            /\ ipState[addr] # NoState /\ now - Opened(addr) <= Window
  BY WindowOfCases
<1>4. /\ e \in Tracked /\ e.addr = addr /\ e.id = id /\ e.at = now
      /\ e.flagged = Flags(ids)
  BY <1>2 DEF Tracked, Flags
<1> HIDE DEF w, e
<1>5. \A a \in Addresses : ipState'[a] = IF a = addr THEN [start |-> w.start, ids |-> ids]
                                                     ELSE ipState[a]
  BY <1>1, <1>2, <1>3
<1>6. ids \in SUBSET ObjectIds
  BY <1>3
<1> HIDE DEF ids
<1>7. BolaTypeOK'
  <2>1. ipState' \in [Addresses -> [start : Nat, ids : SUBSET ObjectIds]]
    <3>1. [w EXCEPT !.ids = ids] \in [start : Nat, ids : SUBSET ObjectIds]
      BY <1>3, <1>6
    <3>2. QED
      BY <1>1, <1>2, <3>1
  <2>2. QED
    BY <1>1, <1>4, <2>1 DEF BolaIInv, BolaTypeOK
<1>8. ASSUME NEW a \in Addresses PROVE WindowAccounts(a)'
  <2>1. CASE a = addr
    <3>1. Opened(a)' = w.start /\ ipState'[a].ids = ids
      BY <1>5, <2>1 DEF Opened
    <3>2. ids = w.ids \cup {id}
      BY DEF ids
    <3>3. QED
      BY <1>1, <1>3, <1>4, <2>1, <3>1, <3>2, JoinAccounts
  <2>2. CASE a # addr
    <3>1. ipState'[a] = ipState[a] /\ Opened(a)' = Opened(a) /\ WindowAccounts(a)
      BY <1>5, <2>2 DEF Opened, BolaIInv
    <3>2. \A s \in seen' : s.addr = a <=> s \in seen /\ s.addr = a
      BY <1>1, <1>4, <2>2
    <3>3. /\ Before(a)' = Before(a) /\ Within(a)' = Within(a)
          /\ IdsOf(Recent(a))' = IdsOf(Recent(a))
      BY <1>1, <3>1, <3>2 DEF Before, Within, IdsOf, Recent
    <3>4. /\ Opened(a)' <= now /\ IsFiniteSet(ipState'[a].ids)
          /\ IsFiniteSet(IdsOf(Recent(a))')
          /\ Small(Before(a)') /\ Small(Within(a)')
      BY <3>1, <3>3 DEF WindowAccounts
    <3>5. /\ ipState'[a] = NoState => \A s \in seen' : s.addr # a
          /\ \A s \in seen' : s.addr = a =>
               s.at <= Opened(a)' + Window /\ (s.at >= Opened(a)' => s.id \in ipState'[a].ids)
      BY <3>1, <3>2 DEF WindowAccounts
    <3>6. ASSUME now - Opened(a)' <= Window, NEW i \in ipState'[a].ids
          PROVE  \E s \in seen' : s.addr = a /\ s.id = i /\ s.at >= Opened(a)'
      <4>1. PICK s \in seen : s.addr = a /\ s.id = i /\ s.at >= Opened(a)
        BY <3>1, <3>6 DEF WindowAccounts
      <4>2. QED
        BY <1>1, <3>1, <4>1
    <3>7. QED
      BY <1>1, <3>4, <3>5, <3>6 DEF WindowAccounts, Small
  <2>3. QED
    BY <2>1, <2>2
<1>9. \A s \in seen' : s.at <= now' /\ now' - s.at <= Window
  BY <1>1, <1>2, <1>4, WindowAssumption
<1>10. PrunedInTime'
  <2> SUFFICES ASSUME pruneAt # Never, NEW a \in Addresses, ipState'[a] # NoState
               PROVE  Opened(a)' >= pruneAt - PrunePeriod - 2 * Window
    BY DEF PrunedInTime, BolaIInv
  <2>1. /\ pruneAt \in Nat /\ now <= pruneAt /\ pruneAt <= now + PrunePeriod
        /\ ipState[a] # NoState => Opened(a) >= pruneAt - PrunePeriod - 2 * Window
    BY DEF BolaIInv, BolaTypeOK, PrunedInTime
  <2>2. Opened(a)' = now \/ (ipState[a] # NoState /\ Opened(a)' = Opened(a))
    BY <1>3, <1>5 DEF Opened
  <2>3. QED
    BY <1>2, <2>1, <2>2, WindowAssumption
<1>11. VerdictInWindow'
  <2> SUFFICES ASSUME verdict' = "enumeration"
               PROVE  now - Opened(addr)' <= Window /\ Flags(ipState'[addr].ids)
    BY DEF VerdictInWindow, Flags
  <2>1. Flags(ids)
    BY <1>1
  <2>2. QED
    BY <1>3, <1>5, <2>1 DEF Opened
<1>12. QED
  BY <1>7, <1>8, <1>9, <1>10, <1>11 DEF BolaIInv

(* Pruning an address whose window is long over: all that was seen from it *)
(* is forgotten already.                                                   *)
LEMMA PruneIInv == ASSUME BolaIInv, Prune PROVE BolaIInv'
<1>1. /\ pruneAt = now /\ pruneAt' = now + PrunePeriod
      /\ \A a \in Addresses :
           ipState'[a] = IF Stale(ipState[a].start) THEN NoState ELSE ipState[a]
      /\ UNCHANGED <<now, verdict, seen>>
  BY DEF Prune
<1>2. /\ now \in Nat
      /\ ipState \in [Addresses -> [start : Nat, ids : SUBSET ObjectIds]]
      /\ \A s \in seen : s.at \in Nat /\ now - s.at <= Window
      /\ \A a \in Addresses : WindowAccounts(a)
  BY DEF BolaIInv, BolaTypeOK, Tracked
<1>3. BolaTypeOK'
  <2>1. NoState \in [start : Nat, ids : SUBSET ObjectIds]
    BY DEF NoState
  <2>2. ipState' \in [Addresses -> [start : Nat, ids : SUBSET ObjectIds]]
    BY <1>2, <2>1 DEF Prune
  <2>3. QED
    BY <1>1, <1>2, <2>2, WindowAssumption DEF BolaIInv, BolaTypeOK
<1>4. ASSUME NEW a \in Addresses PROVE WindowAccounts(a)'
  <2>1. CASE Stale(ipState[a].start)
    <3>1. ipState'[a] = NoState /\ Opened(a)' = 0
      BY <1>1, <2>1 DEF Opened, NoState
    <3>2. \A s \in seen : s.addr # a
      BY <1>2, <2>1, WindowAssumption DEF WindowAccounts, Opened, Stale
    <3>3. Before(a)' = {} /\ Within(a)' = {} /\ IdsOf(Recent(a))' = {}
      BY <1>1, <3>2 DEF Before, Within, Recent, IdsOf
    <3>4. QED
      BY <1>1, <1>2, <3>1, <3>2, <3>3, SmallEmpty, FS_EmptySet
         DEF WindowAccounts, NoState, Small
  <2>2. CASE ~Stale(ipState[a].start)
    <3>1. ipState'[a] = ipState[a]
      BY <1>1, <2>2
    <3>2. QED
      BY <1>1, <1>2, <1>3, <3>1, ForgettingAccounts DEF BolaIInv
  <2>3. QED
    BY <2>1, <2>2
<1>5. PrunedInTime'
  <2>1. ASSUME NEW a \in Addresses, ipState'[a] # NoState
        PROVE  Opened(a)' >= pruneAt' - PrunePeriod - 2 * Window
    <3>1. ipState'[a] = ipState[a] /\ ~Stale(ipState[a].start)
      BY <1>1, <2>1
    <3>2. QED
      BY <1>1, <1>2, <3>1, WindowAssumption DEF Opened, Stale
  <2>2. now' <= pruneAt' /\ pruneAt' <= now' + PrunePeriod
    BY <1>1, <1>2, WindowAssumption
  <2>3. QED
    BY <2>1, <2>2 DEF PrunedInTime
<1>6. VerdictInWindow'
  <2> SUFFICES ASSUME verdict = "enumeration" PROVE VerdictInWindow'
    BY <1>1 DEF VerdictInWindow
  <2>1. PICK a \in Addresses : now - Opened(a) <= Window /\ Flags(ipState[a].ids)
    BY DEF BolaIInv, VerdictInWindow
  <2>2. ipState'[a] = ipState[a]
    BY <1>1, <1>2, <2>1, WindowAssumption DEF Opened, Stale
  <2>3. QED
    BY <1>1, <2>1, <2>2 DEF VerdictInWindow, Opened, Flags
<1>7. QED
  BY <1>1, <1>3, <1>4, <1>5, <1>6 DEF BolaIInv

(* Time passes: requests are forgotten, windows stay.                      *)
LEMMA TickIInv == ASSUME BolaIInv, Tick PROVE BolaIInv'
<1>1. /\ pruneAt # now /\ now' = now + 1 /\ verdict' = "none"
      /\ seen' = {s \in seen : now' - s.at <= Window}
      /\ UNCHANGED <<ipState, pruneAt>>
  BY DEF Tick
<1>2. now \in Nat /\ \A s \in seen : s.at \in Nat /\ s.at <= now
  BY DEF BolaIInv, BolaTypeOK, Tracked
<1>3. BolaTypeOK'
  BY <1>1 DEF BolaIInv, BolaTypeOK
<1>4. ASSUME NEW a \in Addresses PROVE WindowAccounts(a)'
  <2>1. \A s \in seen \ seen' : now' - s.at > Window
    BY <1>1, <1>2, WindowAssumption
  <2>2. QED
    BY <1>1, <1>2, <1>3, <2>1, ForgettingAccounts DEF BolaIInv
<1>5. PrunedInTime'
  BY <1>1, <1>2, WindowAssumption
     DEF BolaIInv, BolaTypeOK, PrunedInTime, Opened
<1>6. QED
  BY <1>1, <1>2, <1>3, <1>4, <1>5 DEF BolaIInv, VerdictInWindow

(* Nothing is tracked, seen or pruned.                                     *)
LEMMA IdleIInv ==
    ASSUME BolaIInv, UNCHANGED <<now, ipState, seen>>,
           verdict' \in {verdict, "none", "mismatch"}, pruneAt' \in {pruneAt, Never}
    PROVE  BolaIInv'
<1>1. BolaTypeOK'
  BY DEF BolaIInv, BolaTypeOK
<1>2. \A a \in Addresses : WindowAccounts(a)'
  <2> SUFFICES ASSUME NEW a \in Addresses PROVE WindowAccounts(a)'
    OBVIOUS
  <2>1. now \in Nat
    BY DEF BolaIInv, BolaTypeOK
  <2>2. QED
    BY <1>1, <2>1, ForgettingAccounts DEF BolaIInv
<1>3. PrunedInTime' /\ VerdictInWindow'
  BY DEF BolaIInv, PrunedInTime, VerdictInWindow, Opened, Flags
<1>4. QED
  BY <1>1, <1>2, <1>3 DEF BolaIInv

(* Every step of the detector preserves its invariant.                     *)
LEMMA BolaNextIInv == BolaIInv /\ [BolaNext]_bolaVars => BolaIInv'
<1> SUFFICES ASSUME BolaIInv, [BolaNext]_bolaVars PROVE BolaIInv'
  OBVIOUS
<1>1. CASE Prune
  BY <1>1, PruneIInv
<1>2. CASE Stop
  BY <1>2, IdleIInv DEF Stop
<1>3. CASE Tick
  BY <1>3, TickIInv
<1>4. ASSUME NEW addr \in Addresses \cup {NoAddress}, NEW id \in ObjectIds \cup {NoId},
             NEW sub \in ObjectIds \cup {NoId}, Detect(addr, id, sub)
      PROVE  BolaIInv'
  <2>1. CASE UNCHANGED <<ipState, seen>> /\ verdict' \in {"none", "mismatch"}
    BY <1>4, <2>1, IdleIInv DEF Detect
  <2>2. CASE id # NoId /\ addr # NoAddress /\ Track(addr, id)
    BY <1>4, <2>2, TrackIInv DEF Detect
  <2>3. QED
    BY <1>4, <2>1, <2>2 DEF Detect
<1>5. CASE UNCHANGED bolaVars
  BY <1>5, IdleIInv DEF bolaVars
<1>6. QED
  BY <1>1, <1>2, <1>3, <1>4, <1>5 DEF BolaNext

(* What the windows say holds in every reachable state of the detector.    *)
THEOREM BolaInvariance == BolaSpec => []BolaIInv
BY BolaInitIInv, BolaNextIInv, PTL DEF BolaSpec

-----------------------------------------------------------------------------

(* Pruning keeps the detector's memory bounded.                            *)
THEOREM WindowsArePruned == BolaSpec => []MemoryBounded
<1>1. BolaIInv => MemoryBounded
  <2> SUFFICES ASSUME BolaIInv, pruneAt # Never, NEW a \in Addresses, ipState[a] # NoState
               PROVE  now - ipState[a].start <= 2 * Window + PrunePeriod
    BY DEF MemoryBounded
  <2>1. /\ now \in Nat /\ pruneAt \in Nat /\ Opened(a) \in Nat
        /\ now <= pruneAt /\ Opened(a) >= pruneAt - PrunePeriod - 2 * Window
    BY DEF BolaIInv, BolaTypeOK, PrunedInTime, Opened
  <2>2. QED
    BY <2>1, WindowAssumption DEF Opened
<1>2. QED
  BY <1>1, BolaInvariance, PTL

(* An enumeration is only reported where there was one.                    *)
THEOREM AlarmsAreJustified == BolaSpec => []AlarmJustified
<1>1. BolaIInv => AlarmJustified
  <2> SUFFICES ASSUME BolaIInv, verdict = "enumeration"
               PROVE  \E a \in Addresses : Cardinality(IdsOf(Recent(a))) > Threshold
    BY DEF AlarmJustified
  <2>1. PICK a \in Addresses : now - Opened(a) <= Window /\ Flags(ipState[a].ids)
    BY DEF BolaIInv, VerdictInWindow
  <2>2. ipState[a].ids \subseteq IdsOf(Recent(a)) /\ IsFiniteSet(IdsOf(Recent(a)))
    BY <2>1 DEF BolaIInv, WindowAccounts, IdsOf, Recent
  <2>3. /\ Cardinality(ipState[a].ids) <= Cardinality(IdsOf(Recent(a)))
        /\ Cardinality(ipState[a].ids) \in Nat /\ Cardinality(IdsOf(Recent(a))) \in Nat
    BY <2>2, FS_Subset, FS_CardinalityType
  <2>4. QED
    BY <2>1, <2>3, ThresholdAssumption DEF Flags
<1>2. QED
  BY <1>1, BolaInvariance, PTL

(* Twice the threshold within any span of a window is always noticed: the  *)
(* span meets at most two windows, and each is noticed beyond Threshold.   *)
THEOREM BurstsAreNoticed == BolaSpec => []BurstNoticed
<1>1. BolaIInv => BurstNoticed
  <2> SUFFICES ASSUME BolaIInv, NEW a \in Addresses,
                      \A s \in Recent(a) : ~s.flagged
               PROVE  ~(Cardinality(IdsOf(Recent(a))) > 2 * Threshold)
    BY DEF BurstNoticed
  <2>1. \A s \in seen : s.at \in Nat
    BY DEF BolaIInv, BolaTypeOK, Tracked
  <2>2. Opened(a) \in Nat
    BY DEF BolaIInv, BolaTypeOK, Opened
  <2>3. IdsOf(Recent(a)) = Before(a) \cup Within(a)
    BY <2>1, <2>2 DEF IdsOf, Recent, Before, Within
  <2>4. Small(Before(a)) /\ Small(Within(a))
    BY DEF BolaIInv, WindowAccounts
  <2>5. /\ Cardinality(IdsOf(Recent(a))) = Cardinality(Before(a)) + Cardinality(Within(a))
                                             - Cardinality(Before(a) \cap Within(a))
        /\ IsFiniteSet(Before(a) \cap Within(a))
    BY <2>3, <2>4, FS_Union, FS_Subset DEF Small
  <2>6. /\ Cardinality(Before(a)) \in Nat /\ Cardinality(Within(a)) \in Nat
        /\ Cardinality(Before(a) \cap Within(a)) \in Nat
    BY <2>4, <2>5, FS_CardinalityType DEF Small
  <2>7. QED
    BY <2>4, <2>5, <2>6, ThresholdAssumption DEF Small
<1>2. QED
  BY <1>1, BolaInvariance, PTL

(* The number of elements is the same in both specifications.              *)
LEMMA SameCardinality == \A S : Windows!Cardinality(S) = Cardinality(S)
BY DEF Windows!Cardinality, Cardinality, Windows!IsFiniteSet, IsFiniteSet

(* Nobody can tell when the detector was pruned, or whether: it raises the *)
(* alarms of windows that are kept exactly while they are open.            *)
THEOREM PruningIsInvisible == BolaSpec => WindowSpec
<1> DEFINE live == [a \in Addresses |-> IF now - ipState[a].start > Window
                                        THEN NoState ELSE ipState[a]]
<1>1. BolaInit => Windows!Init
  <2> SUFFICES ASSUME BolaInit PROVE Windows!Init
    OBVIOUS
  <2>1. live = [a \in Addresses |-> NoState]
    BY DEF BolaInit, NoState
  <2>2. QED
    BY <2>1 DEF BolaInit, Windows!Init, Windows!NoWindow, NoState
<1>2. ASSUME BolaIInv, [BolaNext]_bolaVars PROVE [Windows!Next]_(Windows!vars)
  <2>1. /\ now \in Nat
        /\ ipState \in [Addresses -> [start : Nat, ids : SUBSET ObjectIds]]
    BY <1>2 DEF BolaIInv, BolaTypeOK
  <2>2. CASE Prune
    <3>1. now' = now /\ verdict' = verdict
      BY <2>2 DEF Prune
    <3>2. ASSUME NEW a \in Addresses PROVE live'[a] = live[a]
      <4>1. ipState'[a] = IF Stale(ipState[a].start) THEN NoState ELSE ipState[a]
        BY <2>2 DEF Prune
      <4>2. CASE Stale(ipState[a].start)
        <5>1. now - ipState[a].start > Window
          BY <2>1, <4>2, WindowAssumption DEF Stale
        <5>2. QED
          BY <3>1, <4>1, <4>2, <5>1
      <4>3. CASE ~Stale(ipState[a].start)
        BY <3>1, <4>1, <4>3
      <4>4. QED
        BY <4>2, <4>3
    <3>3. live' = live
      BY <3>2
    <3>4. QED
      BY <3>1, <3>3 DEF Windows!vars
  <2>3. CASE Stop \/ UNCHANGED bolaVars
    BY <2>3 DEF Stop, bolaVars, Windows!vars
  <2>4. CASE Tick
    <3>1. now' = now + 1 /\ ipState' = ipState /\ verdict' = "none"
      BY <2>4 DEF Tick
    <3>2. ASSUME NEW a \in Addresses
          PROVE  live'[a] = IF now' - live[a].start > Window THEN NoState ELSE live[a]
      BY <2>1, <3>1, WindowAssumption DEF NoState
    <3>3. live' = [a \in Addresses |->
                     IF now' - live[a].start > Window THEN NoState ELSE live[a]]
      BY <3>2
    <3>4. Windows!Pass
      BY <3>1, <3>3 DEF Windows!Pass, Windows!NoWindow, NoState
    <3>5. QED
      BY <3>4 DEF Windows!Next
  <2>5. ASSUME NEW addr \in Addresses \cup {NoAddress}, NEW id \in ObjectIds \cup {NoId},
               NEW sub \in ObjectIds \cup {NoId}, Detect(addr, id, sub)
        PROVE  Windows!Next
    <3>1. CASE UNCHANGED <<ipState, seen>> /\ verdict' \in {"none", "mismatch"}
      BY <2>5, <3>1 DEF Detect, Windows!Next, Windows!Ignore
    <3>2. CASE id # NoId /\ addr # NoAddress /\ Track(addr, id)
      <4> DEFINE w == WindowOf(addr)
                 ids == w.ids \cup {id}
      <4>1. addr \in Addresses /\ id \in ObjectIds /\ now' = now
        BY <2>5, <3>2 DEF Detect
      <4>2. /\ ipState' = [ipState EXCEPT ![addr] = [w EXCEPT !.ids = ids]]
            /\ verdict' = IF Flags(ids) THEN "enumeration" ELSE "none"
        BY <3>2 DEF Track
      <4>3. /\ w \in [start : Nat, ids : SUBSET ObjectIds]
            /\ now - w.start <= Window
            /\ \/ /\ w = [start |-> now, ids |-> {}]
                  /\ ipState[addr] = NoState \/ now - ipState[addr].start > Window
               \/ /\ w = ipState[addr]
                  /\ ipState[addr] # NoState /\ now - ipState[addr].start <= Window
        BY <1>2, <4>1, WindowOfCases DEF Opened
      <4> HIDE DEF w
      <4> DEFINE v == IF live[addr] = NoState THEN [start |-> now, ids |-> {id}]
                                              ELSE [live[addr] EXCEPT !.ids = @ \cup {id}]
      <4>4. [w EXCEPT !.ids = ids] = [start |-> w.start, ids |-> ids]
        BY <4>3
      <4>5. v = [w EXCEPT !.ids = ids]
        <5>1. CASE w = [start |-> now, ids |-> {}] /\ live[addr] = NoState
          <6>1. v = [start |-> now, ids |-> {id}]
            BY <5>1
          <6>2. ids = {id}
            BY <5>1
          <6>3. w.start = now
            BY <5>1
          <6>4. QED
            BY <4>4, <6>1, <6>2, <6>3
        <5>2. CASE w = ipState[addr] /\ live[addr] = ipState[addr] /\ ipState[addr] # NoState
          BY <5>2
        <5>3. live[addr] = IF now - ipState[addr].start > Window THEN NoState ELSE ipState[addr]
          BY <4>1
        <5>4. QED
          BY <2>1, <4>1, <4>3, <5>1, <5>2, <5>3, WindowAssumption
      <4>6. ASSUME NEW a \in Addresses
            PROVE  live'[a] = IF a = addr THEN v ELSE live[a]
        <5>1. ipState'[a] = IF a = addr THEN v ELSE ipState[a]
          BY <2>1, <4>2, <4>5
        <5>2. v.start = w.start
          BY <4>4, <4>5
        <5> HIDE DEF v
        <5>3. CASE a = addr
          BY <2>1, <4>1, <4>3, <5>1, <5>2, <5>3, WindowAssumption
        <5>4. CASE a # addr
          BY <4>1, <5>1, <5>4
        <5>5. QED
          BY <5>3, <5>4
      <4>7. v.ids = ids
        BY <4>4, <4>5
      <4> HIDE DEF v, ids
      <4>8. live' = [live EXCEPT ![addr] = v]
        BY <4>6
      <4>9. Windows!Observe(addr, id)
        <5>1. verdict' = IF Windows!Cardinality(v.ids) > Threshold THEN "enumeration"
                                                                  ELSE "none"
          BY <4>2, <4>7, SameCardinality DEF Flags
        <5>2. QED
          BY <4>1, <4>8, <5>1 DEF Windows!Observe, Windows!NoWindow, NoState, v
      <4>10. QED
        BY <4>1, <4>9 DEF Windows!Next
    <3>3. QED
      BY <2>5, <3>1, <3>2 DEF Detect
  <2>6. QED
    BY <1>2, <2>2, <2>3, <2>4, <2>5 DEF BolaNext
<1>3. QED
  BY <1>1, <1>2, BolaInvariance, PTL DEF BolaSpec, WindowSpec, Windows!Spec

-----------------------------------------------------------------------------
(* Inspection                                                              *)

(* The verdicts of the BOLA detector.                                      *)
Verdicts == {"none", "mismatch", "enumeration"}

(* A harmless text is a text.                                              *)
LEMMA PlainText == Plain \in FreshText
BY DEF Plain, FreshText, Word, Shapes, Stands

(* An address is a word as it comes.                                       *)
LEMMA AddressIsFresh == \A addr : AddressWord(addr) \in FreshWord
<1> SUFFICES ASSUME NEW addr PROVE AddressWord(addr) \in FreshWord
  OBVIOUS
<1>1. \/ AddressWord(addr) = Word("ip", "bare")
      \/ AddressWord(addr) = Word("ipv6", "bare")
  BY DEF AddressWord
<1>2. \A s \in {"ip", "ipv6"} : Word(s, "bare") \in FreshWord
  BY DEF Word, FreshWord, Shapes, Stands, Sensitive, IpShapes
<1>3. QED
  BY <1>1, <1>2

(* The BOLA detector returns results.                                      *)
LEMMA BolaResultShape ==
    ASSUME NEW v \in Verdicts, NEW addr
    PROVE  BolaResult(v, addr) \in ResultShape
<1> DEFINE text == [words |-> <<Word("text", "bare"), AddressWord(addr)>>,
                    oversized |-> FALSE]
<1>1. text \in FreshText /\ Plain \in FreshText
  <2>1. AddressWord(addr) \in FreshWord /\ Word("text", "bare") \in FreshWord
    BY AddressIsFresh DEF FreshWord, Word, Shapes, Stands
  <2>2. <<Word("text", "bare"), AddressWord(addr)>> \in Seq(FreshWord)
    BY <2>1
  <2>3. QED
    BY <2>2, PlainText DEF FreshText, FreshWord
<1> HIDE DEF text
<1>2. /\ Hit("bola", "high", text) \in HitShape
      /\ Hit("bola", "high", Plain) \in HitShape
  BY <1>1, NamesAssumption DEF Hit, HitShape, Severities
<1> DEFINE one == <<Hit("bola", "high", Plain)>>
           two == <<Hit("bola", "high", text)>>
<1>3. one \in Seq(HitShape) /\ two \in Seq(HitShape) /\ <<>> \in Seq(HitShape)
  BY <1>2
<1>4. \/ BolaResult(v, addr) = [throws |-> FALSE, hits |-> <<>>]
      \/ BolaResult(v, addr) = [throws |-> FALSE, hits |-> one]
      \/ BolaResult(v, addr) = [throws |-> FALSE, hits |-> two]
  <2>1. CASE v = "none"
    BY <2>1 DEF BolaResult
  <2>2. CASE v = "mismatch"
    BY <2>2 DEF BolaResult
  <2>3. CASE v = "enumeration"
    BY <2>3 DEF BolaResult, text
  <2>4. QED
    BY <2>1, <2>2, <2>3 DEF Verdicts
<1> HIDE DEF one, two
<1>5. \A h \in Seq(HitShape) : [throws |-> FALSE, hits |-> h] \in ResultShape
  BY DEF ResultShape
<1>6. QED
  BY <1>3, <1>4, <1>5

(* So do the custom rules.                                                 *)
LEMMA RulesResultShape ==
    ASSUME NEW rules \in Seq(RuleShape)
    PROVE  RulesResult(rules) \in ResultShape
<1> DEFINE n == Len(rules)
           hit(i) == IF Compiled(rules[i]) /\ rules[i].matches
                     THEN <<RuleHit(rules[i])>> ELSE <<>>
           seqs == [i \in DOMAIN rules |-> hit(i)]
<1>1. n \in Nat /\ DOMAIN rules = 1 .. n
  OBVIOUS
<1>2. ASSUME NEW i \in 1 .. n PROVE hit(i) \in Seq(HitShape)
  <2>1. rules[i] \in RuleShape
    OBVIOUS
  <2>2. RuleHit(rules[i]) \in HitShape
    BY <2>1 DEF RuleHit, Hit, HitShape, RuleShape, Severities
  <2> DEFINE h == RuleHit(rules[i])
  <2> HIDE DEF h
  <2>3. <<h>> \in Seq(HitShape) /\ <<>> \in Seq(HitShape)
    BY <2>2 DEF h
  <2>4. QED
    BY <2>3 DEF h
<1>3. seqs \in [1 .. n -> Seq(HitShape)]
  BY <1>1, <1>2
<1>4. RulesResult(rules) = [throws |-> FALSE, hits |-> FlattenSeq(seqs)]
  BY DEF RulesResult
<1> HIDE DEF seqs, n
<1>5. FlattenSeq(seqs) \in Seq(HitShape)
  BY <1>1, <1>3, FlattenPlaces
<1> DEFINE flat == FlattenSeq(seqs)
<1> HIDE DEF flat
<1>6. QED
  BY <1>4, <1>5 DEF ResultShape, flat

(* So does the chain.                                                      *)
LEMMA ChainShape ==
    ASSUME NEW r \in RequestShape, NEW v \in Verdicts
    PROVE  Chain(r, v) \in Seq(ResultShape)
<1>1. /\ r.builtIn \in Seq(ResultShape) /\ r.extra \in ResultShape
      /\ r.rules \in Seq(RuleShape)
  BY DEF RequestShape
<1> DEFINE b == BolaResult(v, r.addr)
           c == RulesResult(r.rules)
<1>2. b \in ResultShape /\ c \in ResultShape
  BY <1>1, BolaResultShape, RulesResultShape
<1> HIDE DEF b, c
<1>3. <<b, c, r.extra>> \in Seq(ResultShape)
  BY <1>1, <1>2
<1> DEFINE s == <<b, c, r.extra>>
<1> HIDE DEF s
<1>4. r.builtIn \o s \in Seq(ResultShape)
  BY <1>1, <1>3 DEF s
<1>5. QED
  BY <1>4 DEF Chain, s, b, c

(* A request that concerns the BOLA detector alone is a request.           *)
LEMMA PlainRequestShape ==
    ASSUME NEW addr \in Addresses \cup {NoAddress},
           NEW id \in ObjectIds \cup {NoId}, NEW sub \in ObjectIds \cup {NoId}
    PROVE  PlainRequest(addr, id, sub) \in RequestShape
<1>1. DefaultConfig \in ConfigShape
  BY DEF DefaultConfig, ConfigShape, IpModes
<1>2. Quiet \in ResultShape
  BY DEF Quiet, ResultShape
<1> HIDE DEF DefaultConfig, Quiet
<1>3. QED
  BY <1>1, <1>2, PlainText DEF PlainRequest, RequestShape

(* The keys of an event.                                                   *)
EventKeys ==
    {"eventType", "severity", "path", "sourceIp", "metadata", "redacted",
     "matchedRule", "matchedRules", "detectorDescription", "id"}

(* An event is a payload, with an object for its metadata.                 *)
LEMMA RawEventPayload ==
    ASSUME NEW r \in RequestShape, NEW primary, primary.description \in FreshText,
           NEW matches \in Seq(HitShape)
    PROVE  /\ IsPayload(RawEvent(r, primary, matches), EventKeys)
           /\ <<"metadata">> \in DOMAIN RawEvent(r, primary, matches)
           /\ RawEvent(r, primary, matches)[<<"metadata">>].kind = "object"
<1>1. Plain \in FreshText
  BY DEF Plain, FreshText, Word, Shapes, Stands
<1>2. \A text \in FreshText : IsPayload(Leaf(text), EventKeys)
  BY RootPayload DEF Leaf, Nodes
<1>3. IsPayload(Constant, EventKeys)
  BY RootPayload DEF Constant, Nodes
<1>4. DOMAIN matches \subseteq Steps(EventKeys)
  BY DEF Steps
<1> DEFINE rule == [id |-> Leaf(Plain), severity |-> Leaf(Plain)]
           rules == [i \in DOMAIN matches |-> Object(rule)]
           metadata == [redacted |-> Constant, matchedRule |-> Leaf(Plain),
                        matchedRules |-> List(rules),
                        detectorDescription |-> Leaf(primary.description)]
           address == IF r.addr = NoAddress THEN Constant
                      ELSE Leaf([words |-> <<AddressWord(r.addr)>>, oversized |-> FALSE])
           top == [eventType |-> Leaf(Plain), severity |-> Leaf(Plain),
                   path |-> Leaf(r.path), sourceIp |-> address,
                   metadata |-> Object(metadata)]
<1>5. RawEvent(r, primary, matches) = Object(top)
  BY DEF RawEvent
<1>6. IsPayload(address, EventKeys)
  <2>1. [words |-> <<AddressWord(r.addr)>>, oversized |-> FALSE] \in FreshText
    <3>1. AddressWord(r.addr) \in FreshWord
      BY AddressIsFresh
    <3>2. <<AddressWord(r.addr)>> \in Seq(FreshWord)
      BY <3>1
    <3>3. QED
      BY <3>2 DEF FreshText, FreshWord
  <2>2. QED
    BY <1>2, <1>3, <2>1
<1> HIDE DEF address
<1>7. IsPayload(Object(rule), EventKeys)
  <2>1. /\ DOMAIN rule = {"id", "severity"}
        /\ rule["id"] = Leaf(Plain) /\ rule["severity"] = Leaf(Plain)
    OBVIOUS
  <2> HIDE DEF rule
  <2>2. QED
    BY <1>1, <1>2, <2>1, TreePayload DEF Object, EventKeys, Steps
<1> HIDE DEF rule
<1>8. IsPayload(List(rules), EventKeys)
  <2>1. DOMAIN rules = DOMAIN matches /\ \A i \in DOMAIN rules : rules[i] = Object(rule)
    OBVIOUS
  <2> HIDE DEF rules
  <2>2. QED
    BY <1>4, <1>7, <2>1, TreePayload DEF List
<1> HIDE DEF rules
<1>9. IsPayload(Object(metadata), EventKeys)
  <2>1. /\ DOMAIN metadata = {"redacted", "matchedRule", "matchedRules", "detectorDescription"}
        /\ metadata["redacted"] = Constant /\ metadata["matchedRule"] = Leaf(Plain)
        /\ metadata["matchedRules"] = List(rules)
        /\ metadata["detectorDescription"] = Leaf(primary.description)
    OBVIOUS
  <2> HIDE DEF metadata
  <2>2. \A k \in DOMAIN metadata : IsPayload(metadata[k], EventKeys)
    BY <1>1, <1>2, <1>3, <1>8, <2>1
  <2>3. QED
    BY <2>1, <2>2, TreePayload DEF Object, EventKeys, Steps
<1> HIDE DEF metadata
<1>10. /\ DOMAIN top = {"eventType", "severity", "path", "sourceIp", "metadata"}
       /\ top["eventType"] = Leaf(Plain) /\ top["severity"] = Leaf(Plain)
       /\ top["path"] = Leaf(r.path) /\ top["sourceIp"] = address
       /\ top["metadata"] = Object(metadata)
  OBVIOUS
<1> HIDE DEF top
<1>11. \A k \in DOMAIN top : IsPayload(top[k], EventKeys)
  BY <1>1, <1>2, <1>6, <1>9, <1>10 DEF RequestShape
<1>12. IsPayload(Object(top), EventKeys)
  BY <1>10, <1>11, TreePayload DEF Object, EventKeys, Steps
<1>13. <<"metadata">> \in DOMAIN Object(top) /\ Object(top)[<<"metadata">>].kind = "object"
  <2>1. <<>> \in DOMAIN Object(metadata) /\ Object(metadata)[<<>>].kind = "object"
    BY DEF Object, Tree
  <2>2. <<"metadata">> \o <<>> = <<"metadata">>
    OBVIOUS
  <2>3. DOMAIN top \subseteq Steps(EventKeys)
    BY <1>10 DEF Steps, EventKeys
  <2>4. IsTree(Object(top), "object", top)
    BY <1>11, <2>3, TreeParts DEF Object
  <2> DEFINE k == "metadata"
  <2> HIDE DEF k
  <2>5. \A q \in DOMAIN top[k] :
          <<k>> \o q \in DOMAIN Object(top) /\ Object(top)[<<k>> \o q] = top[k][q]
    BY <1>10, <2>4 DEF IsTree, k
  <2>6. /\ <<k>> \o <<>> \in DOMAIN Object(top)
        /\ Object(top)[<<k>> \o <<>>] = Object(metadata)[<<>>]
    BY <1>10, <2>1, <2>5 DEF k
  <2>7. QED
    BY <2>1, <2>2, <2>6 DEF k
<1>14. QED
  BY <1>5, <1>12, <1>13

(* Inspection uses the BOLA detector as it is, whatever else the chain     *)
(* does: the steps of the detector are those of Bola.                      *)
THEOREM ImplementsBola == InspectionSpec => BolaSpec
<1>1. InspectionInit => BolaInit
  BY DEF InspectionInit
<1>2. ASSUME [InspectionNext]_inspectionVars PROVE [BolaNext]_bolaVars
  <2>1. CASE UNCHANGED inspectionVars
    BY <2>1 DEF inspectionVars
  <2>2. ASSUME NEW r \in RequestShape, Inspect(r) PROVE BolaNext
    <3>1. r.addr \in Addresses \cup {NoAddress} /\ {r.id, r.sub} \subseteq ObjectIds \cup {NoId}
      BY DEF RequestShape
    <3>2. QED
      BY <2>2, <3>1 DEF Inspect, BolaNext
  <2>3. ASSUME NEW addr \in Callers, NEW id \in ObjectIds \cup {NoId},
               NEW sub \in Subjects \cup {NoId}, Inspect(PlainRequest(addr, id, sub))
        PROVE  BolaNext
    BY <2>2, <2>3, PlainRequestShape, CallersAssumption, SubjectsAssumption
  <2>4. ASSUME NEW r \in Requests, Inspect(r) PROVE BolaNext
    BY <2>2, <2>4, RequestsAssumption
  <2>5. CASE Prune \/ Stop \/ Tick
    BY <2>5 DEF BolaNext
  <2>6. QED
    BY <1>2, <2>1, <2>3, <2>4, <2>5 DEF InspectionNext
<1>3. QED
  BY <1>1, <1>2, PTL DEF InspectionSpec, BolaSpec

(* So what is proved of Bola holds of Inspection: pruning bounds the       *)
(* detector's memory and cannot be noticed, no alarm is false, and bursts  *)
(* are noticed.                                                            *)
THEOREM DetectorOnThePath ==
    InspectionSpec => /\ []MemoryBounded /\ []AlarmJustified
                      /\ []BurstNoticed /\ WindowSpec
BY ImplementsBola, WindowsArePruned, AlarmsAreJustified, BurstsAreNoticed,
   PruningIsInvisible, PTL

(* An event comes from a request and from detectors that found something.  *)
FromRequest(e) ==
    \E r \in RequestShape : \E chain \in Seq(ResultShape) :
        Matches(chain) # <<>> /\ e = Handled(r, chain)

(* The inductive invariant.                                                *)
InspectionIInv == event = NoEvent \/ FromRequest(event)

(* What inspect() hands to the buffer comes from a request.                *)
LEMMA InspectIInv ==
    ASSUME BolaTypeOK', NEW r \in RequestShape, Inspect(r)
    PROVE  InspectionIInv'
<1> DEFINE chain == Chain(r, verdict')
<1>1. chain \in Seq(ResultShape)
  <2>1. verdict' \in Verdicts
    BY DEF BolaTypeOK, Verdicts
  <2>2. QED
    BY <2>1, ChainShape
<1>2. event' = IF Matches(chain) = <<>> THEN NoEvent ELSE Handled(r, chain)
  BY DEF Inspect
<1> HIDE DEF chain
<1>3. QED
  BY <1>1, <1>2 DEF InspectionIInv, FromRequest

(* The inductive invariant holds in every reachable state.                 *)
LEMMA InspectionInvariance == InspectionSpec => []InspectionIInv
<1>1. InspectionInit => InspectionIInv
  BY DEF InspectionInit, InspectionIInv
<1>2. ASSUME BolaTypeOK', InspectionIInv, [InspectionNext]_inspectionVars
      PROVE  InspectionIInv'
  <2>1. CASE UNCHANGED inspectionVars
    BY <1>2, <2>1 DEF inspectionVars, InspectionIInv, FromRequest
  <2>2. ASSUME NEW addr \in Callers, NEW id \in ObjectIds \cup {NoId},
               NEW sub \in Subjects \cup {NoId}, Inspect(PlainRequest(addr, id, sub))
        PROVE  InspectionIInv'
    <3>1. PlainRequest(addr, id, sub) \in RequestShape
      BY PlainRequestShape, CallersAssumption, SubjectsAssumption
    <3>2. QED
      BY <1>2, <2>2, <3>1, InspectIInv
  <2>3. ASSUME NEW r \in Requests, Inspect(r) PROVE InspectionIInv'
    BY <1>2, <2>3, InspectIInv, RequestsAssumption
  <2>4. CASE event' = NoEvent
    BY <2>4 DEF InspectionIInv
  <2>5. QED
    BY <1>2, <2>1, <2>2, <2>3, <2>4 DEF InspectionNext
<1>3. BolaIInv => BolaTypeOK
  BY DEF BolaIInv
<1>4. QED
  BY <1>1, <1>2, <1>3, ImplementsBola, BolaInvariance, PTL DEF InspectionSpec

(* What handleDetection() makes of a request and its matches.              *)
LEMMA HandledFacts ==
    ASSUME NEW r \in RequestShape, NEW chain \in Seq(ResultShape), Matches(chain) # <<>>
    PROVE  LET e == Handled(r, chain)
               engine == FromConfig(e.config)
           IN  /\ e # NoEvent
               /\ IsPayload(e.raw, EventKeys)
               /\ <<"metadata">> \in DOMAIN e.raw /\ e.raw[<<"metadata">>].kind = "object"
               /\ e.raw[<<>>].kind = "object"
               /\ e.chain = chain /\ e.primary = PickPrimary(Matches(chain))
               /\ e.sent = Redact(engine, e.raw).value
               /\ e.redactedFields = Redact(engine, e.raw).fields
               /\ e.outcome = IF At(e.sent, <<"metadata">>).kind = "object"
                              THEN "enqueued" ELSE "lost"
<1> DEFINE matches == Matches(chain)
           primary == PickPrimary(matches)
           raw == RawEvent(r, primary, matches)
           result == Redact(FromConfig(r.config), raw)
           e == Handled(r, chain)
<1>1. matches \in Seq(HitShape)
  <2>1. PICK n \in Nat : chain \in [1 .. n -> ResultShape]
    OBVIOUS
  <2>2. QED
    BY <2>1, MatchesPlaces
<1>2. primary.description \in FreshText
  <2>1. PICK k \in DOMAIN matches : primary = matches[k]
    BY <1>1, PrimaryIsFirstWorst
  <2>2. primary \in HitShape
    BY <1>1, <2>1
  <2>3. QED
    BY <2>2 DEF HitShape
<1> HIDE DEF primary, matches
<1>3. /\ IsPayload(raw, EventKeys)
      /\ <<"metadata">> \in DOMAIN raw /\ raw[<<"metadata">>].kind = "object"
  BY <1>1, <1>2, RawEventPayload
<1>4. raw[<<>>].kind = "object"
  BY DEF RawEvent, Object, Tree
<1>5. e = [outcome |-> IF At(result.value, <<"metadata">>).kind = "object"
                       THEN "enqueued" ELSE "lost",
           chain |-> chain, primary |-> primary, config |-> r.config,
           raw |-> raw, redactedFields |-> result.fields, sent |-> result.value]
  BY DEF Handled, primary, matches
<1> HIDE DEF raw, e, result
<1>6. e # NoEvent
  BY <1>5 DEF NoEvent
<1>7. QED
  BY <1>3, <1>4, <1>5, <1>6 DEF e, result, primary, matches

(* The event of a state is redacted as its policy asks for.                *)
LEMMA EventFacts ==
    ASSUME InspectionIInv, event # NoEvent
    PROVE  /\ IsPayload(event.raw, EventKeys)
           /\ <<"metadata">> \in DOMAIN event.raw
           /\ event.raw[<<"metadata">>].kind = "object" /\ event.raw[<<>>].kind = "object"
           /\ event.sent = Redact(FromConfig(event.config), event.raw).value
           /\ event.redactedFields = Redact(FromConfig(event.config), event.raw).fields
           /\ event.outcome = IF At(event.sent, <<"metadata">>).kind = "object"
                              THEN "enqueued" ELSE "lost"
<1>1. PICK r \in RequestShape : \E chain \in Seq(ResultShape) :
        Matches(chain) # <<>> /\ event = Handled(r, chain)
  BY DEF InspectionIInv, FromRequest
<1>2. PICK chain \in Seq(ResultShape) : Matches(chain) # <<>> /\ event = Handled(r, chain)
  BY <1>1
<1>3. QED
  BY <1>2, HandledFacts

(* Whatever the detectors of the chain report, however many there are and  *)
(* whichever of them throw, the detection that is acted upon is the first  *)
(* of the most severe.                                                     *)
THEOREM PrimaryIsAlwaysMostSevere == InspectionSpec => []PrimaryIsMostSevere
<1>1. ASSUME InspectionIInv, event # NoEvent PROVE WorstOf(event.chain, event.primary)
  <2>1. PICK r \in RequestShape : \E chain \in Seq(ResultShape) :
          Matches(chain) # <<>> /\ event = Handled(r, chain)
    BY <1>1 DEF InspectionIInv, FromRequest
  <2>2. PICK chain \in Seq(ResultShape) : Matches(chain) # <<>> /\ event = Handled(r, chain)
    BY <2>1
  <2>3. event.chain = chain /\ event.primary = PickPrimary(Matches(chain))
    BY <2>2, HandledFacts
  <2>4. QED
    BY <2>2, <2>3, PrimaryIsWorst
<1>2. InspectionIInv => PrimaryIsMostSevere
  BY <1>1 DEF PrimaryIsMostSevere, WorstOf
<1>3. QED
  BY <1>2, InspectionInvariance, PTL

(* Whatever the path, the descriptions and the policy, nothing below a     *)
(* denied key leaves, and no string with a sensitive word in one piece,    *)
(* except for IPv6 addresses, those of IPv4 if they may pass, and words    *)
(* that run together.                                                      *)
THEOREM SecretsDoNotLeave == InspectionSpec => []NoWholeSecretLeaves
<1>1. ASSUME InspectionIInv, event # NoEvent
      PROVE  NothingWhole(FromConfig(event.config), event.raw, event.sent)
  BY <1>1, EventFacts, SecretsAreMasked
<1>2. InspectionIInv => NoWholeSecretLeaves
  BY <1>1 DEF NoWholeSecretLeaves, NothingWhole
<1>3. QED
  BY <1>2, InspectionInvariance, PTL

(* The audit line is exact for every event and policy: no path is listed   *)
(* that did not change, and what changed is at or below exactly one listed *)
(* path.                                                                   *)
THEOREM FieldsAreExact == InspectionSpec => []FieldsExact
<1>1. ASSUME InspectionIInv, event # NoEvent
      PROVE  ListIsExact(event.raw, event.sent, event.redactedFields)
  BY <1>1, EventFacts, RedactedFieldsAreExact
<1>2. InspectionIInv => FieldsExact
  BY <1>1 DEF FieldsExact, ListIsExact
<1>3. QED
  BY <1>2, InspectionInvariance, PTL

(* Whatever a policy denies, structural fields of events are lost below    *)
(* the denied keys only, in either mode, and an event is lost for want of  *)
(* metadata exactly if the policy denies the metadata.                     *)
THEOREM EnvelopeStays == InspectionSpec => []EnvelopeIntact
<1>1. ASSUME InspectionIInv, event # NoEvent
      PROVE  LET denied == FromConfig(event.config).denied
             IN  /\ event.outcome = "lost" <=> "metadata" \in denied
                 /\ \A p \in DOMAIN event.raw :
                      /\ \E i \in DOMAIN p :
                            /\ IsKey(event.raw, p, i) /\ p[i] \in StructuralKeys
                            /\ \A j \in 1 .. i - 1 :
                                 IsKey(event.raw, p, j) /\ p[j] \in ContainerKeys
                      /\ \A j \in 1 .. Len(p) - 1 :
                            IsKey(event.raw, p, j) => p[j] \notin denied
                      => p \in DOMAIN event.sent
  <2> DEFINE engine == FromConfig(event.config)
             p == <<"metadata">>
  <2>1. /\ IsPayload(event.raw, EventKeys) /\ event.sent = Redact(engine, event.raw).value
        /\ p \in DOMAIN event.raw
        /\ event.raw[p].kind = "object" /\ event.raw[<<>>].kind = "object"
        /\ event.outcome = IF At(event.sent, p).kind = "object"
                           THEN "enqueued" ELSE "lost"
    BY <1>1, EventFacts
  <2> HIDE DEF engine
  <2>2. DOMAIN p = {1} /\ Len(p) = 1 /\ p[1] = "metadata" /\ SubSeq(p, 1, 0) = <<>>
    OBVIOUS
  <2>3. IsKey(event.raw, p, 1) /\ p[1] \in ContainerKeys
    <3>1. 1 - 1 = 0
      OBVIOUS
    <3>2. QED
      BY <2>1, <2>2, <3>1 DEF IsKey, ContainerKeys
  <2> HIDE DEF p
  <2>4. ASSUME "metadata" \notin engine.denied PROVE event.outcome = "enqueued"
    <3>1. \A j \in DOMAIN p :
            IsKey(event.raw, p, j) /\ p[j] \in ContainerKeys \ engine.denied
      BY <2>2, <2>3, <2>4
    <3>2. \A j \in 1 .. Len(p) - 1 : FALSE
      BY <2>2
    <3>3. p \in DOMAIN event.sent /\ event.sent[p].kind = event.raw[p].kind
      BY <2>1, <3>1, <3>2, EnvelopeSurvives
    <3>4. QED
      BY <2>1, <3>3 DEF At
  <2>5. ASSUME "metadata" \in engine.denied PROVE event.outcome = "lost"
    <3>1. p \in DOMAIN event.sent => event.sent[p] = Blank
      <4>1. NothingWhole(engine, event.raw, event.sent)
        BY <2>1, SecretsAreMasked
      <4>2. 1 \in DOMAIN p /\ IsKey(event.raw, p, 1) /\ p[1] \in engine.denied
        BY <2>2, <2>3, <2>5
      <4>3. QED
        BY <4>1, <4>2 DEF NothingWhole
    <3>2. At(event.sent, p).kind # "object"
      BY <3>1 DEF At, Blank
    <3>3. QED
      BY <2>1, <3>2
  <2>6. event.outcome = "lost" <=> "metadata" \in engine.denied
    BY <2>4, <2>5
  <2>7. \A q \in DOMAIN event.raw :
          /\ \E i \in DOMAIN q :
                /\ IsKey(event.raw, q, i) /\ q[i] \in StructuralKeys
                /\ \A j \in 1 .. i - 1 :
                     IsKey(event.raw, q, j) /\ q[j] \in ContainerKeys
          /\ \A j \in 1 .. Len(q) - 1 :
                IsKey(event.raw, q, j) => q[j] \notin engine.denied
          => q \in DOMAIN event.sent
    BY <2>1, EnvelopeSurvives
  <2>8. QED
    BY <2>6, <2>7 DEF engine
<1>2. InspectionIInv => EnvelopeIntact
  BY <1>1 DEF EnvelopeIntact
<1>3. QED
  BY <1>2, InspectionInvariance, PTL
=============================================================================
