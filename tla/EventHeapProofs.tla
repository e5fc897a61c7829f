-------------------------- MODULE EventHeapProofs --------------------------
(***************************************************************************)
(* The array of EventHeap.tla is a heap whatever it holds, and implements  *)
(* EventQueue.tla, for every value of the constants and any number of      *)
(* events.                                                                 *)
(*                                                                         *)
(* The sift loops and the loop over the parents are recursive functions.   *)
(* What they return is proved by induction, with the induction stated      *)
(* about the set of the numbers a claim holds of (CourseOfValues).  The    *)
(* facts about the queue that the proof needs are those proved in          *)
(* EventQueueProofs.tla, of the set of the events in the array (QP).       *)
(***************************************************************************)
EXTENDS EventHeap, SequenceTheorems, WellFoundedInduction, TLAPS

Below == {p \in Nat \X Nat : p[1] < p[2]}

LEMMA LeastNumber == ASSUME NEW T \in SUBSET Nat, T # {}
                     PROVE  \E n \in T : \A m \in T : n <= m
  <1>1. IsWellFoundedOn(Below, Nat)
    BY NatLessThanWellFounded DEF OpToRel, Below
  <1>2. PICK n \in T : \A m \in T : <<m, n>> \notin Below
    <2>. HIDE DEF Below
    <2>. QED BY <1>1, WFMin
  <1>3. ASSUME NEW m \in T PROVE n <= m
    <2>1. m \in Nat /\ n \in Nat /\ ~ m < n
      BY <1>2 DEF Below
    <2>. QED BY <2>1
  <1>. QED BY <1>3

\* Induction, with the claim as the set of the numbers it holds of.
LEMMA CourseOfValues ==
    ASSUME NEW S, \A n \in Nat : (\A m \in Nat : m < n => m \in S) => n \in S
    PROVE  \A n \in Nat : n \in S
  <1>. SUFFICES ASSUME Nat \ S # {} PROVE FALSE
    OBVIOUS
  <1>1. PICK n \in Nat \ S : \A m \in Nat \ S : n <= m
    BY LeastNumber
  <1>2. \A m \in Nat : m < n => m \in S
    BY <1>1
  <1>. QED BY <1>1, <1>2

LEMMA StepByStep ==
    ASSUME NEW S, 0 \in S, \A n \in Nat : n \in S => n + 1 \in S
    PROVE  \A n \in Nat : n \in S
  <1>1. ASSUME NEW n \in Nat, \A m \in Nat : m < n => m \in S PROVE n \in S
    <2>1. CASE n = 0
      BY <2>1
    <2>2. CASE n # 0
      <3>1. n - 1 \in Nat /\ n - 1 < n /\ n = (n - 1) + 1
        BY <2>2
      <3>. QED BY <1>1, <3>1
    <2>. QED BY <2>1, <2>2
  <1>. QED BY <1>1, CourseOfValues
-----------------------------------------------------------------------------
\* The arrays of n events out of E, and a write to a slot.
Array(n, E) == [1 .. n -> E]

Write(h, i, x) == [h EXCEPT ![i] = x]

\* The slots hold different events.
Distinct(h) == \A i, j \in DOMAIN h : h[i].sequence = h[j].sequence => i = j

\* g holds what h holds, in some order.
Permutes(g, h) == /\ DOMAIN g = DOMAIN h
                  /\ ToSet(g) = ToSet(h)
                  /\ Distinct(h) => Distinct(g)

LEMMA ArrayDomain == ASSUME NEW n, NEW E, NEW h \in Array(n, E)
                     PROVE  DOMAIN h = 1 .. n /\ \A i \in 1 .. n : h[i] \in E
  BY DEF Array

LEMMA WriteArray == ASSUME NEW n, NEW E, NEW h \in Array(n, E), NEW i, NEW x \in E
                    PROVE  /\ Write(h, i, x) \in Array(n, E)
                           /\ \A j \in 1 .. n : Write(h, i, x)[j] = IF j = i THEN x ELSE h[j]
  BY DEF Array, Write

LEMMA WritesCommute == ASSUME NEW n, NEW E, NEW h \in Array(n, E), NEW i, NEW j, i # j,
                              NEW x, NEW y
                       PROVE  Write(Write(h, i, x), j, y) = Write(Write(h, j, y), i, x)
  BY DEF Array, Write

\* The event e in the free slot i changes place with the event in slot j.
LEMMA ExchangePermutes ==
    ASSUME NEW n, NEW E, NEW h \in Array(n, E), NEW e \in E, NEW i \in 1 .. n, NEW j \in 1 .. n,
           i # j
    PROVE  Permutes(Write(Write(h, i, h[j]), j, e), Write(h, i, e))
  <1>. DEFINE f == Write(h, i, e)
              g == Write(Write(h, i, h[j]), j, e)
  <1>1. /\ DOMAIN f = 1 .. n /\ DOMAIN g = 1 .. n
        /\ \A k \in 1 .. n : f[k] = IF k = i THEN e ELSE h[k]
        /\ \A k \in 1 .. n : g[k] = IF k = j THEN e ELSE IF k = i THEN h[j] ELSE h[k]
    BY ArrayDomain, WriteArray
  <1>. HIDE DEF f, g
  <1>2. ASSUME NEW k \in 1 .. n PROVE g[k] = f[IF k = j THEN i ELSE IF k = i THEN j ELSE k]
    BY <1>1
  <1>3. ASSUME NEW k \in 1 .. n PROVE f[k] = g[IF k = j THEN i ELSE IF k = i THEN j ELSE k]
    BY <1>1
  <1>4. ToSet(g) \subseteq ToSet(f)
    BY <1>1, <1>2 DEF ToSet
  <1>5. ToSet(f) \subseteq ToSet(g)
    BY <1>1, <1>3 DEF ToSet
  <1>6. Distinct(f) => Distinct(g)
    BY <1>1, <1>2 DEF Distinct
  <1>. QED BY <1>1, <1>4, <1>5, <1>6 DEF Permutes, f, g

LEMMA PermutesTransitive == ASSUME NEW f, NEW g, NEW h, Permutes(f, g), Permutes(g, h)
                            PROVE  Permutes(f, h)
  BY DEF Permutes
-----------------------------------------------------------------------------
\* The body of the recursion in sift_up.
Risen(h, e, f, k) == IF k > 1 /\ event_less(e, h[k \div 2])
                     THEN Write(f[k \div 2], k, h[k \div 2])
                     ELSE Write(h, k, e)

\* The recursion ends: there is a function it defines.
LEMMA SiftUpDefined == ASSUME NEW h, NEW e, NEW n \in Nat
                       PROVE  \E f : f = [k \in 1 .. n |-> Risen(h, e, f, k)]
  <1>. DEFINE S == {m \in Nat : \E f : f = [k \in 1 .. m |-> Risen(h, e, f, k)]}
  <1>1. 0 \in S
    <2>. DEFINE f == [k \in 1 .. 0 |-> 0]
    <2>1. f = [k \in 1 .. 0 |-> Risen(h, e, f, k)]
      OBVIOUS
    <2>. QED BY <2>1
  <1>2. ASSUME NEW m \in Nat, m \in S PROVE m + 1 \in S
    <2>1. PICK f : f = [k \in 1 .. m |-> Risen(h, e, f, k)]
      BY <1>2
    <2>2. \A k \in 1 .. m : f[k] = Risen(h, e, f, k)
      BY <2>1
    <2>. DEFINE g == [k \in 1 .. m + 1 |-> IF k = m + 1 THEN Risen(h, e, f, k) ELSE f[k]]
    <2>3. ASSUME NEW k \in 1 .. m + 1 PROVE g[k] = Risen(h, e, g, k)
      <3>1. k > 1 => k \div 2 \in 1 .. m /\ g[k \div 2] = f[k \div 2]
        OBVIOUS
      <3>2. Risen(h, e, g, k) = Risen(h, e, f, k)
        <4>. HIDE DEF g
        <4>. QED BY <3>1 DEF Risen
      <3>3. k # m + 1 => k \in 1 .. m
        OBVIOUS
      <3>. QED BY <2>2, <3>2, <3>3
    <2>4. g = [k \in 1 .. m + 1 |-> Risen(h, e, g, k)]
      <3>1. g = [k \in 1 .. m + 1 |-> g[k]]
        OBVIOUS
      <3>. HIDE DEF g
      <3>. QED BY <2>3, <3>1
    <2>. HIDE DEF g
    <2>. QED BY <2>4
  <1>3. n \in S
    <2>. HIDE DEF S
    <2>. QED BY <1>1, <1>2, StepByStep
  <1>. QED BY <1>3

\* The array after one turn of the loop.
LEMMA SiftUpStep ==
    ASSUME NEW n \in Nat, NEW h, DOMAIN h = 1 .. n, NEW e, NEW i \in 1 .. n
    PROVE  sift_up(h, i, e) = IF i > 1 /\ event_less(e, h[i \div 2])
                              THEN Write(sift_up(h, i \div 2, e), i, h[i \div 2])
                              ELSE Write(h, i, e)
  <1>. DEFINE f == CHOOSE g : g = [k \in DOMAIN h |-> Risen(h, e, g, k)]
  <1>1. PICK g : g = [k \in 1 .. n |-> Risen(h, e, g, k)]
    BY SiftUpDefined
  <1>2. g = [k \in DOMAIN h |-> Risen(h, e, g, k)]
    BY <1>1, Zenon
  <1>3. f = [k \in DOMAIN h |-> Risen(h, e, f, k)]
    BY <1>2, Zenon
  <1>4. sift_up(h, i, e) = f[i] /\ sift_up(h, i \div 2, e) = f[i \div 2]
    BY DEF sift_up, Risen, Write
  <1>. HIDE DEF f
  <1>5. f[i] = Risen(h, e, f, i)
    BY <1>3
  <1>. QED BY <1>4, <1>5 DEF Risen

\* What is in a slot after i does not matter to a rise from i, and stays there.
LEMMA SiftUpApart ==
    ASSUME NEW n \in Nat, NEW E, NEW h \in Array(n, E), NEW e \in E, NEW x \in E, NEW k \in 1 .. n
    PROVE  \A i \in 1 .. n : i < k =>
             /\ sift_up(h, i, e) \in Array(n, E)
             /\ sift_up(Write(h, k, x), i, e) = Write(sift_up(h, i, e), k, x)
  <1>. DEFINE g == Write(h, k, x)
              Apart(i) == /\ sift_up(h, i, e) \in Array(n, E)
                          /\ sift_up(g, i, e) = Write(sift_up(h, i, e), k, x)
              S == {i \in Nat : i \in 1 .. n /\ i < k => Apart(i)}
  <1>1. /\ DOMAIN h = 1 .. n /\ DOMAIN g = 1 .. n
        /\ \A j \in 1 .. n : h[j] \in E /\ (j # k => g[j] = h[j])
    BY WriteArray, ArrayDomain
  <1>2. ASSUME NEW i \in Nat, \A m \in Nat : m < i => m \in S PROVE i \in S
    <2>. SUFFICES ASSUME i \in 1 .. n, i < k PROVE Apart(i)
      OBVIOUS
    <2>. DEFINE p == i \div 2
    <2>1. i > 1 => p \in 1 .. n /\ p < i /\ p < k /\ p \in Nat
      OBVIOUS
    <2>. HIDE DEF g
    <2>2. i > 1 => g[p] = h[p] /\ h[p] \in E
      BY <1>1, <2>1
    <2>3. sift_up(h, i, e) = IF i > 1 /\ event_less(e, h[p])
                             THEN Write(sift_up(h, p, e), i, h[p]) ELSE Write(h, i, e)
      BY <1>1, SiftUpStep
    <2>4. sift_up(g, i, e) = IF i > 1 /\ event_less(e, g[p])
                             THEN Write(sift_up(g, p, e), i, g[p]) ELSE Write(g, i, e)
      BY <1>1, SiftUpStep
    <2>. HIDE DEF p
    <2>5. CASE i > 1 /\ event_less(e, h[p])
      <3>1. Apart(p)
        BY <1>2, <2>1, <2>5
      <3>2. /\ sift_up(h, i, e) = Write(sift_up(h, p, e), i, h[p])
            /\ sift_up(g, i, e) = Write(sift_up(g, p, e), i, h[p])
        BY <2>2, <2>3, <2>4, <2>5
      <3>. QED BY <2>2, <2>5, <3>1, <3>2, WriteArray, WritesCommute
    <2>6. CASE ~(i > 1 /\ event_less(e, h[p]))
      <3>1. /\ sift_up(h, i, e) = Write(h, i, e)
            /\ sift_up(g, i, e) = Write(g, i, e)
        BY <2>2, <2>3, <2>4, <2>6
      <3>. QED BY <3>1, WriteArray, WritesCommute DEF g
    <2>. QED BY <2>5, <2>6
  <1>. HIDE DEF S
  <1>3. \A i \in Nat : i \in S
    BY <1>2, CourseOfValues
  <1>4. \A i \in 1 .. n : i < k => Apart(i)
    BY <1>3 DEF S
  <1>. QED BY <1>4

\* One turn of the loop moves the parent down and goes on from its slot.
LEMMA SiftUpMoves ==
    ASSUME NEW n \in Nat, NEW E, NEW h \in Array(n, E), NEW e \in E, NEW i \in 1 .. n
    PROVE  sift_up(h, i, e) = IF i > 1 /\ event_less(e, h[i \div 2])
                              THEN sift_up(Write(h, i, h[i \div 2]), i \div 2, e)
                              ELSE Write(h, i, e)
  <1>1. DOMAIN h = 1 .. n /\ \A j \in 1 .. n : h[j] \in E
    BY ArrayDomain
  <1>2. i > 1 => i \div 2 \in 1 .. n /\ i \div 2 < i
    OBVIOUS
  <1>. QED BY <1>1, <1>2, SiftUpStep, SiftUpApart
-----------------------------------------------------------------------------
\* A relation on events that event_less keeps to without having to be it: the
\* pairs it holds of are those the heap is in order for.
Keeps(R, E) ==
    /\ \A a, b, c \in E : <<a, b>> \in R /\ <<b, c>> \in R => <<a, c>> \in R
    /\ \A a, b \in E : IF event_less(a, b) THEN <<a, b>> \in R ELSE <<b, a>> \in R

LEMMA KeepsLess ==
    ASSUME NEW E, NEW R, Keeps(R, E), NEW a \in E, NEW b \in E, event_less(a, b)
    PROVE  <<a, b>> \in R
  BY DEF Keeps

LEMMA KeepsThrough ==
    ASSUME NEW E, NEW R, Keeps(R, E), NEW a \in E, NEW b \in E, NEW c \in E,
           <<a, b>> \in R, <<b, c>> \in R \/ c = b
    PROVE  <<a, c>> \in R
  BY DEF Keeps

\* Every parent from slot lo on is in order with its children.
HeapFrom(h, n, lo, R) ==
    \A j \in 2 .. n : j \div 2 >= lo => <<h[j \div 2], h[j]>> \in R

Heap(h, n, R) == HeapFrom(h, n, 1, R)

\* The free slot k may be given to e, as far as the slots below it say.
MayRise(h, n, k, e, R) ==
    /\ \A j \in 2 .. n : j # k /\ j \div 2 # k => <<h[j \div 2], h[j]>> \in R
    /\ \A j \in 2 .. n : j \div 2 = k => /\ <<e, h[j]>> \in R
                                         /\ k > 1 => <<h[k \div 2], h[j]>> \in R

LEMMA SiftUpHeap ==
    ASSUME NEW n \in Nat, NEW E, NEW e \in E, NEW R, Keeps(R, E)
    PROVE  \A k \in 1 .. n : \A h \in Array(n, E) :
             /\ sift_up(h, k, e) \in Array(n, E)
             /\ Permutes(sift_up(h, k, e), Write(h, k, e))
             /\ MayRise(h, n, k, e, R) => Heap(sift_up(h, k, e), n, R)
  <1>. DEFINE Good(k, h) == /\ sift_up(h, k, e) \in Array(n, E)
                            /\ Permutes(sift_up(h, k, e), Write(h, k, e))
                            /\ MayRise(h, n, k, e, R) => Heap(sift_up(h, k, e), n, R)
              S == {k \in Nat : k \in 1 .. n => \A h \in Array(n, E) : Good(k, h)}
  <1>1. ASSUME NEW k \in Nat, \A m \in Nat : m < k => m \in S PROVE k \in S
    <2>. SUFFICES ASSUME k \in 1 .. n, NEW h \in Array(n, E) PROVE Good(k, h)
      OBVIOUS
    <2>. DEFINE p == k \div 2
                g == Write(h, k, h[p])
    <2>0. \A j \in 1 .. n : h[j] \in E
      BY ArrayDomain
    <2>1. CASE k > 1 /\ event_less(e, h[p])
      <3>1. p \in Nat /\ p < k /\ p \in 1 .. n /\ h[p] \in E
        BY <2>0, <2>1
      <3>2. g \in Array(n, E) /\ \A j \in 1 .. n : g[j] = IF j = k THEN h[p] ELSE h[j]
        BY <3>1, WriteArray
      <3>3. Good(p, g)
        BY <1>1, <3>1, <3>2
      <3>4. sift_up(h, k, e) = sift_up(g, p, e)
        BY <2>1, SiftUpMoves
      <3>5. Permutes(Write(g, p, e), Write(h, k, e))
        BY <3>1, ExchangePermutes
      <3>6. ASSUME MayRise(h, n, k, e, R) PROVE MayRise(g, n, p, e, R)
        <4>. HIDE DEF g
        <4>1. <<e, h[p]>> \in R
          BY <2>1, <3>1, KeepsLess
        <4>2. ASSUME NEW j \in 2 .. n, j # p, j \div 2 # p PROVE <<g[j \div 2], g[j]>> \in R
          <5>1. j \div 2 \in 1 .. n /\ j # k /\ j \in 1 .. n
            BY <4>2
          <5>2. CASE j \div 2 = k
            BY <3>2, <3>6, <5>1, <5>2, <2>1 DEF MayRise
          <5>3. CASE j \div 2 # k
            BY <3>2, <3>6, <5>1, <5>3 DEF MayRise
          <5>. QED BY <5>2, <5>3
        <4>3. p > 1 => p \div 2 \in 1 .. n /\ p \div 2 # k /\ <<h[p \div 2], h[p]>> \in R
          <5>1. p > 1 => p \in 2 .. n /\ p \div 2 \in 1 .. n /\ p \div 2 # k /\ p # k
            BY <3>1
          <5>. QED BY <3>6, <5>1 DEF MayRise
        <4>4. ASSUME NEW j \in 2 .. n, j \div 2 = p
              PROVE  <<h[p], g[j]>> \in R \/ g[j] = h[p]
          <5>1. j \div 2 # k /\ j \in 1 .. n
            BY <3>1, <4>4
          <5>. QED BY <3>2, <3>6, <4>4, <5>1 DEF MayRise
        <4>5. ASSUME NEW j \in 2 .. n, j \div 2 = p
              PROVE  <<e, g[j]>> \in R /\ (p > 1 => <<g[p \div 2], g[j]>> \in R)
          <5>1. j \in 1 .. n /\ g[j] \in E
            BY <3>2, ArrayDomain
          <5>2. p > 1 => g[p \div 2] = h[p \div 2] /\ h[p \div 2] \in E
            BY <2>0, <3>2, <4>3
          <5>0. <<h[p], g[j]>> \in R \/ g[j] = h[p]
            BY <4>4, <4>5
          <5>. HIDE DEF p, Good
          <5>3. <<e, g[j]>> \in R
            BY <3>1, <4>1, <5>0, <5>1, KeepsThrough
          <5>4. p > 1 => <<g[p \div 2], g[j]>> \in R
            BY <3>1, <4>3, <5>0, <5>1, <5>2, KeepsThrough
          <5>. QED BY <5>3, <5>4
        <4>. HIDE DEF p
        <4>. QED BY <4>2, <4>5 DEF MayRise
      <3>. HIDE DEF g, p
      <3>. QED BY <3>3, <3>4, <3>5, <3>6, PermutesTransitive
    <2>2. CASE ~(k > 1 /\ event_less(e, h[p]))
      <3>. DEFINE r == Write(h, k, e)
      <3>1. sift_up(h, k, e) = r
        BY <2>2, SiftUpMoves
      <3>2. r \in Array(n, E) /\ \A j \in 1 .. n : r[j] = IF j = k THEN e ELSE h[j]
        BY WriteArray
      <3>. HIDE DEF r
      <3>3. Permutes(r, r)
        BY DEF Permutes
      <3>4. ASSUME MayRise(h, n, k, e, R), NEW j \in 2 .. n PROVE <<r[j \div 2], r[j]>> \in R
        <4>1. j \div 2 \in 1 .. n /\ j \in 1 .. n /\ j \div 2 # j
          OBVIOUS
        <4>2. CASE j = k
          <5>1. h[p] \in E /\ ~event_less(e, h[p])
            BY <2>0, <2>2, <4>1, <4>2
          <5>2. <<h[p], e>> \in R
            BY <5>1 DEF Keeps
          <5>. QED BY <3>2, <4>1, <4>2, <5>2
        <4>3. CASE j # k
          BY <3>2, <3>4, <4>1, <4>3 DEF MayRise
        <4>. QED BY <4>2, <4>3
      <3>5. MayRise(h, n, k, e, R) => Heap(r, n, R)
        BY <3>4 DEF Heap, HeapFrom
      <3>. QED BY <3>1, <3>2, <3>3, <3>5 DEF r
    <2>. QED BY <2>1, <2>2
  <1>. HIDE DEF S
  <1>2. \A k \in Nat : k \in S
    BY <1>1, CourseOfValues
  <1>3. \A k \in 1 .. n : \A h \in Array(n, E) : Good(k, h)
    BY <1>2 DEF S
  <1>. QED BY <1>3
-----------------------------------------------------------------------------
LEMMA ArrayLength == ASSUME NEW n \in Nat, NEW E, NEW h \in Array(n, E)
                     PROVE  Len(h) = n /\ h \in Seq(E)
  BY DEF Array

LEMMA SequenceArray == ASSUME NEW E, NEW h \in Seq(E)
                       PROVE  h \in Array(Len(h), E) /\ Len(h) \in Nat
  BY LenProperties DEF Array

\* The child that is looked at comes no later than the other one.
LEMMA FirstChildIsChild ==
    ASSUME NEW n \in Nat, NEW h, Len(h) = n, NEW i \in 1 .. n, 2 * i <= n
    PROVE  /\ FirstChild(h, i) \in 2 .. n
           /\ FirstChild(h, i) \div 2 = i
           /\ FirstChild(h, i) > i
  BY DEF FirstChild

LEMMA FirstChildIsFirst ==
    ASSUME NEW n \in Nat, NEW E, NEW h \in Array(n, E), NEW R, Keeps(R, E),
           NEW i \in 1 .. n, NEW j \in 2 .. n, j \div 2 = i
    PROVE  <<h[FirstChild(h, i)], h[j]>> \in R
  <1>1. Len(h) = n
    BY ArrayLength
  <1>2. j = 2 * i \/ j = 2 * i + 1
    OBVIOUS
  <1>3. ASSUME NEW k \in 1 .. n PROVE h[k] \in E
    BY ArrayDomain
  <1>4. \A a, b \in E : IF event_less(a, b) THEN <<a, b>> \in R ELSE <<b, a>> \in R
    BY DEF Keeps
  <1>5. CASE 2 * i + 1 <= n /\ event_less(h[2 * i + 1], h[2 * i])
    <2>1. FirstChild(h, i) = 2 * i + 1
      BY <1>1, <1>5 DEF FirstChild
    <2>2. h[2 * i] \in E /\ h[2 * i + 1] \in E
      BY <1>3, <1>5
    <2>3. <<h[2 * i + 1], h[2 * i]>> \in R
      BY <1>4, <1>5, <2>2
    <2>4. <<h[2 * i + 1], h[2 * i + 1]>> \in R
      BY <1>4, <2>2
    <2>. QED BY <1>2, <2>1, <2>3, <2>4
  <1>6. CASE ~(2 * i + 1 <= n /\ event_less(h[2 * i + 1], h[2 * i]))
    <2>1. FirstChild(h, i) = 2 * i
      BY <1>1, <1>6 DEF FirstChild
    <2>2. h[2 * i] \in E /\ h[j] \in E
      BY <1>2, <1>3
    <2>3. <<h[2 * i], h[2 * i]>> \in R
      BY <1>4, <2>2
    <2>4. j = 2 * i + 1 => ~event_less(h[j], h[2 * i])
      BY <1>6
    <2>. QED BY <1>2, <1>4, <2>1, <2>2, <2>3, <2>4
  <1>. QED BY <1>5, <1>6

\* The body of the recursion in sift_down.
Sunk(h, e, f, k) == IF 2 * k <= Len(h) /\ event_less(h[FirstChild(h, k)], e)
                    THEN Write(f[FirstChild(h, k)], k, h[FirstChild(h, k)])
                    ELSE Write(h, k, e)

LEMMA SiftDownDefined ==
    ASSUME NEW n \in Nat, NEW h, Len(h) = n, NEW e
    PROVE  \E f : f = [k \in 1 .. n |-> Sunk(h, e, f, k)]
  <1>. DEFINE S == {m \in Nat : m <= n =>
                      \E f : f = [k \in n - m + 1 .. n |-> Sunk(h, e, f, k)]}
  <1>1. 0 \in S
    <2>. DEFINE f == [k \in n - 0 + 1 .. n |-> 0]
    <2>1. f = [k \in n - 0 + 1 .. n |-> Sunk(h, e, f, k)]
      OBVIOUS
    <2>. QED BY <2>1
  <1>2. ASSUME NEW m \in Nat, m \in S PROVE m + 1 \in S
    <2>. SUFFICES ASSUME m + 1 <= n
                  PROVE  \E f : f = [k \in n - (m + 1) + 1 .. n |-> Sunk(h, e, f, k)]
      OBVIOUS
    <2>. DEFINE l == n - m
    <2>0. l \in Nat /\ l + 1 = n - m + 1 /\ l = n - (m + 1) + 1 /\ l >= 1
      OBVIOUS
    <2>1. PICK f : f = [k \in n - m + 1 .. n |-> Sunk(h, e, f, k)]
      BY <1>2
    <2>2. \A k \in l + 1 .. n : f[k] = Sunk(h, e, f, k)
      BY <2>0, <2>1
    <2>. HIDE DEF l
    <2>. DEFINE g == [k \in l .. n |-> IF k = l THEN Sunk(h, e, f, k) ELSE f[k]]
    <2>3. ASSUME NEW k \in l .. n PROVE g[k] = Sunk(h, e, g, k)
      <3>1. 2 * k <= n => FirstChild(h, k) \in l + 1 .. n
        BY <2>0, FirstChildIsChild
      <3>2. \A j \in l + 1 .. n : g[j] = f[j]
        BY <2>0
      <3>3. Sunk(h, e, g, k) = Sunk(h, e, f, k)
        <4>. HIDE DEF g
        <4>. QED BY <3>1, <3>2 DEF Sunk
      <3>4. k # l => k \in l + 1 .. n
        BY <2>0
      <3>. QED BY <2>2, <3>3, <3>4
    <2>4. g = [k \in l .. n |-> Sunk(h, e, g, k)]
      <3>1. g = [k \in l .. n |-> g[k]]
        OBVIOUS
      <3>. HIDE DEF g
      <3>. QED BY <2>3, <3>1
    <2>. HIDE DEF g
    <2>5. \E f_1 : f_1 = [k \in l .. n |-> Sunk(h, e, f_1, k)]
      BY <2>4
    <2>. QED BY <2>0, <2>5, Zenon
  <1>3. n \in S
    <2>. HIDE DEF S
    <2>. QED BY <1>1, <1>2, StepByStep
  <1>4. PICK f : f = [k \in n - n + 1 .. n |-> Sunk(h, e, f, k)]
    BY <1>3
  <1>5. n - n + 1 = 1
    OBVIOUS
  <1>6. f = [k \in 1 .. n |-> Sunk(h, e, f, k)]
    BY <1>4, <1>5, Zenon
  <1>. QED BY <1>6

LEMMA SiftDownStep ==
    ASSUME NEW n \in Nat, NEW h, DOMAIN h = 1 .. n, Len(h) = n, NEW e, NEW i \in 1 .. n
    PROVE  sift_down(h, i, e) = IF 2 * i <= n /\ event_less(h[FirstChild(h, i)], e)
                                THEN Write(sift_down(h, FirstChild(h, i), e), i, h[FirstChild(h, i)])
                                ELSE Write(h, i, e)
  <1>. DEFINE f == CHOOSE g : g = [k \in DOMAIN h |-> Sunk(h, e, g, k)]
  <1>1. PICK g : g = [k \in 1 .. n |-> Sunk(h, e, g, k)]
    BY SiftDownDefined
  <1>2. g = [k \in DOMAIN h |-> Sunk(h, e, g, k)]
    BY <1>1, Zenon
  <1>3. f = [k \in DOMAIN h |-> Sunk(h, e, f, k)]
    BY <1>2, Zenon
  <1>4. sift_down(h, i, e) = f[i] /\ sift_down(h, FirstChild(h, i), e) = f[FirstChild(h, i)]
    BY DEF sift_down, Sunk, Write
  <1>. HIDE DEF f
  <1>5. f[i] = Sunk(h, e, f, i)
    BY <1>3
  <1>. QED BY <1>4, <1>5 DEF Sunk

\* What is in a slot before i does not matter to a fall from i, and stays there.
LEMMA SiftDownApart ==
    ASSUME NEW n \in Nat, NEW E, NEW h \in Array(n, E), NEW e \in E, NEW x \in E, NEW k \in 1 .. n
    PROVE  \A i \in 1 .. n : i > k =>
             /\ sift_down(h, i, e) \in Array(n, E)
             /\ sift_down(Write(h, k, x), i, e) = Write(sift_down(h, i, e), k, x)
  <1>. DEFINE g == Write(h, k, x)
              Apart(i) == /\ sift_down(h, i, e) \in Array(n, E)
                          /\ sift_down(g, i, e) = Write(sift_down(h, i, e), k, x)
              S == {m \in Nat : \A i \in 1 .. n : i = n - m /\ i > k => Apart(i)}
  <1>0. g \in Array(n, E)
    BY WriteArray
  <1>1. /\ DOMAIN h = 1 .. n /\ DOMAIN g = 1 .. n /\ Len(h) = n /\ Len(g) = n
        /\ \A j \in 1 .. n : h[j] \in E /\ (j # k => g[j] = h[j])
    BY <1>0, WriteArray, ArrayDomain, ArrayLength
  <1>2. ASSUME NEW m \in Nat, \A l \in Nat : l < m => l \in S PROVE m \in S
    <2>. SUFFICES ASSUME NEW i \in 1 .. n, i = n - m, i > k PROVE Apart(i)
      OBVIOUS
    <2>. DEFINE c == FirstChild(h, i)
    <2>. HIDE DEF g
    <2>0. 2 * i <= n => c \in 2 .. n /\ c > i
      <3>. HIDE DEF Apart, S
      <3>. QED BY <1>1, FirstChildIsChild
    <2>1. 2 * i <= n => /\ c \in 1 .. n /\ c > k
                        /\ n - c \in Nat /\ n - c < m /\ c = n - (n - c)
      <3>. HIDE DEF Apart, S, c
      <3>. QED BY <2>0
    <2>2. 2 * i <= n => FirstChild(g, i) = c
      BY <1>1 DEF FirstChild
    <2>3. 2 * i <= n => g[c] = h[c] /\ h[c] \in E
      BY <1>1, <2>1
    <2>4. sift_down(h, i, e) = IF 2 * i <= n /\ event_less(h[c], e)
                               THEN Write(sift_down(h, c, e), i, h[c]) ELSE Write(h, i, e)
      BY <1>1, SiftDownStep
    <2>5. sift_down(g, i, e) = IF 2 * i <= n /\ event_less(g[c], e)
                               THEN Write(sift_down(g, c, e), i, g[c]) ELSE Write(g, i, e)
      BY <1>1, <2>2, SiftDownStep
    <2>. HIDE DEF c
    <2>6. CASE 2 * i <= n /\ event_less(h[c], e)
      <3>1. Apart(c)
        BY <1>2, <2>1, <2>6
      <3>2. /\ sift_down(h, i, e) = Write(sift_down(h, c, e), i, h[c])
            /\ sift_down(g, i, e) = Write(sift_down(g, c, e), i, h[c])
        BY <2>3, <2>4, <2>5, <2>6
      <3>. QED BY <2>3, <2>6, <3>1, <3>2, WriteArray, WritesCommute
    <2>7. CASE ~(2 * i <= n /\ event_less(h[c], e))
      <3>1. /\ sift_down(h, i, e) = Write(h, i, e)
            /\ sift_down(g, i, e) = Write(g, i, e)
        BY <2>3, <2>4, <2>5, <2>7
      <3>. QED BY <3>1, WriteArray, WritesCommute DEF g
    <2>. QED BY <2>6, <2>7
  <1>. HIDE DEF S
  <1>3. \A m \in Nat : m \in S
    BY <1>2, CourseOfValues
  <1>4. ASSUME NEW i \in 1 .. n, i > k PROVE Apart(i)
    <2>1. n - i \in Nat /\ i = n - (n - i)
      OBVIOUS
    <2>2. n - i \in S
      BY <1>3, <2>1
    <2>. QED BY <1>4, <2>1, <2>2 DEF S
  <1>. QED BY <1>4

\* One turn of the loop moves the first child up and goes on from its slot.
LEMMA SiftDownMoves ==
    ASSUME NEW n \in Nat, NEW E, NEW h \in Array(n, E), NEW e \in E, NEW i \in 1 .. n
    PROVE  sift_down(h, i, e) = IF 2 * i <= n /\ event_less(h[FirstChild(h, i)], e)
                                THEN sift_down(Write(h, i, h[FirstChild(h, i)]), FirstChild(h, i), e)
                                ELSE Write(h, i, e)
  <1>1. DOMAIN h = 1 .. n /\ Len(h) = n /\ \A j \in 1 .. n : h[j] \in E
    BY ArrayDomain, ArrayLength
  <1>2. 2 * i <= n => FirstChild(h, i) \in 1 .. n /\ FirstChild(h, i) > i
    BY <1>1, FirstChildIsChild
  <1>. QED BY <1>1, <1>2, SiftDownStep, SiftDownApart

\* The free slot k may be given to e, as far as the slots above it say.
MaySink(h, n, k, e, lo, R) ==
    /\ \A j \in 2 .. n : j # k /\ j \div 2 # k /\ j \div 2 >= lo => <<h[j \div 2], h[j]>> \in R
    /\ k \div 2 >= lo => /\ <<h[k \div 2], e>> \in R
                         /\ \A j \in 2 .. n : j \div 2 = k => <<h[k \div 2], h[j]>> \in R

LEMMA SiftDownHeap ==
    ASSUME NEW n \in Nat, NEW E, NEW e \in E, NEW R, Keeps(R, E), NEW lo \in 1 .. n
    PROVE  \A k \in lo .. n : \A h \in Array(n, E) :
             /\ sift_down(h, k, e) \in Array(n, E)
             /\ Permutes(sift_down(h, k, e), Write(h, k, e))
             /\ MaySink(h, n, k, e, lo, R) => HeapFrom(sift_down(h, k, e), n, lo, R)
  <1>. DEFINE Good(k, h) == /\ sift_down(h, k, e) \in Array(n, E)
                            /\ Permutes(sift_down(h, k, e), Write(h, k, e))
                            /\ MaySink(h, n, k, e, lo, R)
                                 => HeapFrom(sift_down(h, k, e), n, lo, R)
              S == {m \in Nat : \A k \in lo .. n : k = n - m => \A h \in Array(n, E) : Good(k, h)}
  <1>1. ASSUME NEW m \in Nat, \A l \in Nat : l < m => l \in S PROVE m \in S
    <2>. SUFFICES ASSUME NEW k \in lo .. n, k = n - m, NEW h \in Array(n, E) PROVE Good(k, h)
      OBVIOUS
    <2>. DEFINE c == FirstChild(h, k)
                g == Write(h, k, h[c])
    <2>1. k \in 1 .. n /\ Len(h) = n /\ \A j \in 1 .. n : h[j] \in E
      BY ArrayDomain, ArrayLength
    <2>2. CASE 2 * k <= n /\ event_less(h[c], e)
      <3>1. /\ c \in 2 .. n /\ c \div 2 = k /\ c > k /\ c \in lo .. n /\ h[c] \in E
            /\ n - c \in Nat /\ n - c < m /\ c = n - (n - c)
        BY <2>1, <2>2, FirstChildIsChild
      <3>2. \A j \in 2 .. n : j \div 2 = k => <<h[c], h[j]>> \in R
        BY <2>1, FirstChildIsFirst
      <3>. HIDE DEF c
      <3>3. g \in Array(n, E) /\ \A j \in 1 .. n : g[j] = IF j = k THEN h[c] ELSE h[j]
        BY <3>1, WriteArray
      <3>4. Good(c, g)
        BY <1>1, <3>1, <3>3
      <3>5. sift_down(h, k, e) = sift_down(g, c, e)
        BY <2>1, <2>2, SiftDownMoves DEF c
      <3>6. Permutes(Write(g, c, e), Write(h, k, e))
        BY <2>1, <3>1, ExchangePermutes
      <3>7. ASSUME MaySink(h, n, k, e, lo, R) PROVE MaySink(g, n, c, e, lo, R)
        <4>. HIDE DEF g
        <4>1. <<h[c], e>> \in R
          BY <2>2, <3>1 DEF Keeps
        <4>2. ASSUME NEW j \in 2 .. n, j # c, j \div 2 # c, j \div 2 >= lo
              PROVE  <<g[j \div 2], g[j]>> \in R
          <5>1. j \div 2 \in 1 .. n /\ j \in 1 .. n /\ j \div 2 # j
            OBVIOUS
          <5>2. CASE j = k
            BY <3>1, <3>3, <3>7, <4>2, <5>1, <5>2 DEF MaySink
          <5>3. CASE j # k /\ j \div 2 = k
            BY <3>2, <3>3, <5>1, <5>3
          <5>4. CASE j # k /\ j \div 2 # k
            BY <3>3, <3>7, <4>2, <5>1, <5>4 DEF MaySink
          <5>. QED BY <5>2, <5>3, <5>4
        <4>3. g[c \div 2] = h[c]
          BY <2>1, <3>1, <3>3
        <4>4. ASSUME NEW j \in 2 .. n, j \div 2 = c PROVE <<h[c], g[j]>> \in R
          <5>1. j # k /\ j \div 2 # k /\ j \in 1 .. n /\ j \div 2 >= lo
            BY <3>1, <4>4
          <5>. QED BY <3>3, <3>7, <4>4, <5>1 DEF MaySink
        <4>. HIDE DEF c
        <4>. QED BY <4>1, <4>2, <4>3, <4>4 DEF MaySink
      <3>. HIDE DEF g
      <3>. QED BY <3>4, <3>5, <3>6, <3>7, PermutesTransitive
    <2>3. CASE ~(2 * k <= n /\ event_less(h[c], e))
      <3>. DEFINE r == Write(h, k, e)
      <3>1. sift_down(h, k, e) = r
        <4>1. sift_down(h, k, e) = IF 2 * k <= n /\ event_less(h[c], e)
                                   THEN sift_down(Write(h, k, h[c]), c, e) ELSE r
          BY <2>1, SiftDownMoves
        <4>. HIDE DEF r, c
        <4>. QED BY <2>3, <4>1
      <3>2. r \in Array(n, E) /\ \A j \in 1 .. n : r[j] = IF j = k THEN e ELSE h[j]
        BY WriteArray
      <3>. HIDE DEF r
      <3>3. Permutes(r, r)
        BY DEF Permutes
      <3>4. ASSUME MaySink(h, n, k, e, lo, R), NEW j \in 2 .. n, j \div 2 >= lo
            PROVE  <<r[j \div 2], r[j]>> \in R
        <4>1. j \div 2 \in 1 .. n /\ j \in 1 .. n /\ j \div 2 # j
          OBVIOUS
        <4>2. CASE j = k
          BY <3>2, <3>4, <4>1, <4>2 DEF MaySink
        <4>3. CASE j # k /\ j \div 2 = k
          <5>1. 2 * k <= n
            BY <4>3
          <5>2. h[c] \in E /\ ~event_less(h[c], e)
            BY <2>1, <2>3, <5>1, FirstChildIsChild
          <5>3. <<e, h[c]>> \in R
            BY <5>2 DEF Keeps
          <5>4. <<h[c], h[j]>> \in R
            BY <2>1, <4>3, FirstChildIsFirst
          <5>5. h[j] \in E
            BY <2>1, <4>1
          <5>. HIDE DEF c
          <5>6. <<e, h[j]>> \in R
            BY <5>2, <5>3, <5>4, <5>5 DEF Keeps
          <5>. QED BY <3>2, <4>1, <4>3, <5>6
        <4>4. CASE j # k /\ j \div 2 # k
          BY <3>2, <3>4, <4>1, <4>4 DEF MaySink
        <4>. QED BY <4>2, <4>3, <4>4
      <3>5. MaySink(h, n, k, e, lo, R) => HeapFrom(r, n, lo, R)
        BY <3>4 DEF HeapFrom
      <3>. QED BY <3>1, <3>2, <3>3, <3>5 DEF r
    <2>. QED BY <2>2, <2>3
  <1>. HIDE DEF S
  <1>2. \A m \in Nat : m \in S
    BY <1>1, CourseOfValues
  <1>3. ASSUME NEW k \in lo .. n, NEW h \in Array(n, E) PROVE Good(k, h)
    <2>1. n - k \in Nat /\ k = n - (n - k)
      OBVIOUS
    <2>2. n - k \in S
      BY <1>2, <2>1
    <2>. QED BY <2>1, <2>2 DEF S
  <1>. QED BY <1>3
-----------------------------------------------------------------------------
\* Nothing in a heap comes before its root.
LEMMA HeapRoot ==
    ASSUME NEW n \in Nat, NEW E, NEW h \in Array(n, E), NEW R, Keeps(R, E), Heap(h, n, R)
    PROVE  \A j \in 1 .. n : <<h[1], h[j]>> \in R
  <1>. DEFINE S == {j \in Nat : j \in 1 .. n => <<h[1], h[j]>> \in R}
  <1>1. \A j \in 1 .. n : h[j] \in E
    BY ArrayDomain
  <1>2. ASSUME NEW j \in Nat, \A m \in Nat : m < j => m \in S PROVE j \in S
    <2>. SUFFICES ASSUME j \in 1 .. n PROVE <<h[1], h[j]>> \in R
      OBVIOUS
    <2>1. CASE j = 1
      BY <1>1, <2>1 DEF Keeps
    <2>2. CASE j # 1
      <3>1. j \in 2 .. n /\ j \div 2 \in 1 .. n /\ j \div 2 \in Nat /\ j \div 2 < j /\ 1 \in 1 .. n
        BY <2>2
      <3>2. <<h[j \div 2], h[j]>> \in R
        BY <3>1 DEF Heap, HeapFrom
      <3>3. <<h[1], h[j \div 2]>> \in R
        BY <1>2, <3>1
      <3>. QED BY <1>1, <3>1, <3>2, <3>3 DEF Keeps
    <2>. QED BY <2>1, <2>2
  <1>. HIDE DEF S
  <1>3. \A j \in Nat : j \in S
    BY <1>2, CourseOfValues
  <1>. QED BY <1>3 DEF S

\* Giving a slot the event it holds changes nothing.
LEMMA WriteBack == ASSUME NEW n, NEW E, NEW h \in Array(n, E), NEW i \in 1 .. n
                   PROVE  Write(h, i, h[i]) = h
  BY DEF Array, Write

\* The body of the recursion in dspic33_reorder_events.
Ordered(h, f, p) == IF p = Len(h) \div 2 THEN h ELSE sift_down(f[p + 1], p + 1, f[p + 1][p + 1])

LEMMA ReorderDefined ==
    ASSUME NEW h, Len(h) \in Nat
    PROVE  \E f : f = [p \in 0 .. Len(h) \div 2 |-> Ordered(h, f, p)]
  <1>. DEFINE n == Len(h) \div 2
              S == {m \in Nat : m <= n => \E f : f = [p \in n - m .. n |-> Ordered(h, f, p)]}
  <1>0. n \in Nat
    OBVIOUS
  <1>. HIDE DEF n
  <1>1. 0 \in S
    <2>. DEFINE f == [p \in n - 0 .. n |-> h]
    <2>1. ASSUME NEW p \in n - 0 .. n PROVE Ordered(h, f, p) = h
      BY <1>0 DEF Ordered, n
    <2>2. f = [p \in n - 0 .. n |-> Ordered(h, f, p)]
      BY <2>1
    <2>. QED BY <2>2
  <1>2. ASSUME NEW m \in Nat, m \in S PROVE m + 1 \in S
    <2>. SUFFICES ASSUME m + 1 <= n
                  PROVE  \E f : f = [p \in n - (m + 1) .. n |-> Ordered(h, f, p)]
      OBVIOUS
    <2>. DEFINE l == n - (m + 1)
    <2>0. l \in Nat /\ l + 1 = n - m /\ l < n
      BY <1>0
    <2>1. PICK f : f = [p \in n - m .. n |-> Ordered(h, f, p)]
      BY <1>0, <1>2
    <2>2. \A p \in l + 1 .. n : f[p] = Ordered(h, f, p)
      BY <2>0, <2>1
    <2>. HIDE DEF l
    <2>. DEFINE g == [p \in l .. n |-> IF p = l THEN Ordered(h, f, p) ELSE f[p]]
    <2>3. ASSUME NEW p \in l .. n PROVE g[p] = Ordered(h, g, p)
      <3>1. p # n => p + 1 \in l + 1 .. n /\ g[p + 1] = f[p + 1]
        BY <1>0, <2>0
      <3>2. Ordered(h, g, p) = Ordered(h, f, p)
        <4>. HIDE DEF g
        <4>. QED BY <3>1 DEF Ordered, n
      <3>3. p # l => p \in l + 1 .. n
        BY <1>0, <2>0
      <3>. QED BY <2>2, <3>2, <3>3
    <2>4. g = [p \in l .. n |-> Ordered(h, g, p)]
      <3>1. g = [p \in l .. n |-> g[p]]
        OBVIOUS
      <3>. HIDE DEF g
      <3>. QED BY <2>3, <3>1
    <2>. HIDE DEF g
    <2>. QED BY <2>4 DEF l
  <1>3. n \in S
    <2>. HIDE DEF S
    <2>. QED BY <1>0, <1>1, <1>2, StepByStep
  <1>4. PICK f : f = [p \in n - n .. n |-> Ordered(h, f, p)]
    BY <1>0, <1>3
  <1>5. n - n = 0
    BY <1>0
  <1>6. f = [p \in 0 .. n |-> Ordered(h, f, p)]
    BY <1>4, <1>5, Zenon
  <1>. QED BY <1>6 DEF n

LEMMA ReorderHeap ==
    ASSUME NEW n \in Nat, NEW E, NEW h \in Array(n, E), NEW R, Keeps(R, E)
    PROVE  /\ dspic33_reorder_events(h) \in Array(n, E)
           /\ Permutes(dspic33_reorder_events(h), h)
           /\ Heap(dspic33_reorder_events(h), n, R)
  <1>. DEFINE f == CHOOSE g : g = [p \in 0 .. Len(h) \div 2 |-> Ordered(h, g, p)]
              half == n \div 2
              Good(p) == /\ f[p] \in Array(n, E)
                         /\ Permutes(f[p], h)
                         /\ HeapFrom(f[p], n, p + 1, R)
              S == {m \in Nat : m <= half => Good(half - m)}
  <1>1. Len(h) = n /\ half \in Nat /\ half <= n
    BY ArrayLength
  <1>2. f = [p \in 0 .. Len(h) \div 2 |-> Ordered(h, f, p)]
    <2>1. \E g : g = [p \in 0 .. Len(h) \div 2 |-> Ordered(h, g, p)]
      BY <1>1, ReorderDefined
    <2>. QED BY <2>1, Zenon
  <1>3. dspic33_reorder_events(h) = f[0]
    BY DEF dspic33_reorder_events, Ordered
  <1>. HIDE DEF f
  <1>4. \A p \in 0 .. half : f[p] = IF p = half THEN h
                                    ELSE sift_down(f[p + 1], p + 1, f[p + 1][p + 1])
    BY <1>1, <1>2 DEF Ordered
  <1>5. \A j \in 2 .. n : ~(j \div 2 >= half + 1)
    OBVIOUS
  <1>. HIDE DEF half
  <1>6. 0 \in S
    <2>1. half - 0 = half /\ half \in 0 .. half
      BY <1>1
    <2>2. f[half] = h
      BY <1>4, <2>1
    <2>3. Good(half)
      BY <1>5, <2>2 DEF Permutes, HeapFrom
    <2>. QED BY <2>1, <2>3
  <1>7. ASSUME NEW m \in Nat, m \in S PROVE m + 1 \in S
    <2>. SUFFICES ASSUME m + 1 <= half PROVE Good(half - (m + 1))
      OBVIOUS
    <2>. DEFINE p == half - (m + 1)
                k == p + 1
                g == f[k]
    <2>1. p \in 0 .. half /\ p # half /\ k \in 1 .. n /\ k = half - m /\ k + 1 = p + 2
      BY <1>1
    <2>2. Good(k)
      BY <1>1, <1>7, <2>1
    <2>3. f[p] = sift_down(g, k, g[k])
      BY <1>4, <2>1
    <2>4. g[k] \in E
      BY <2>1, <2>2, ArrayDomain
    <2>5. MaySink(g, n, k, g[k], k, R)
      <3>1. ~(k \div 2 >= k)
        BY <2>1
      <3>2. ASSUME NEW j \in 2 .. n, j # k, j \div 2 # k, j \div 2 >= k
            PROVE  <<g[j \div 2], g[j]>> \in R
        <4>1. j \div 2 >= k + 1
          BY <2>1, <3>2
        <4>. HIDE DEF g, k
        <4>. QED BY <2>2, <4>1 DEF HeapFrom, g
      <3>. HIDE DEF g, k, p
      <3>. QED BY <3>1, <3>2 DEF MaySink
    <2>6. k \in k .. n /\ g \in Array(n, E)
      BY <2>1, <2>2
    <2>. HIDE DEF p, k, g
    <2>7. /\ f[p] \in Array(n, E)
          /\ Permutes(f[p], Write(g, k, g[k]))
          /\ HeapFrom(f[p], n, k, R)
      BY <2>1, <2>3, <2>4, <2>5, <2>6, SiftDownHeap
    <2>8. Write(g, k, g[k]) = g
      BY <2>1, <2>6, WriteBack
    <2>9. Permutes(f[p], h)
      BY <2>2, <2>7, <2>8, PermutesTransitive DEF g
    <2>. QED BY <2>7, <2>9 DEF p, k
  <1>8. \A m \in Nat : m \in S
    <2>. HIDE DEF S
    <2>. QED BY <1>6, <1>7, StepByStep
  <1>9. Good(0)
    <2>1. half - half = 0
      BY <1>1
    <2>. QED BY <1>1, <1>8, <2>1
  <1>. QED BY <1>3, <1>9 DEF Heap

\* What an operation is to leave: an array in order of n different events, those of F.
Holds(h, n, E, F, R) == /\ h \in Array(n, E)
                        /\ ToSet(h) = F
                        /\ Distinct(h)
                        /\ Heap(h, n, R)

LEMMA PushHolds ==
    ASSUME NEW n \in Nat, NEW E, NEW R, Keeps(R, E), NEW F, NEW h, Holds(h, n, E, F, R),
           NEW e \in E, \A d \in F : d.sequence # e.sequence
    PROVE  Holds(push(h, e), n + 1, E, F \union {e}, R)
  <1>. DEFINE g == Append(h, e)
  <1>1. h \in Array(n, E) /\ Len(h) = n /\ h \in Seq(E) /\ ToSet(h) = F
    BY ArrayLength DEF Holds
  <1>2. /\ g \in Array(n + 1, E)
        /\ \A i \in 1 .. n : g[i] = h[i]
        /\ g[n + 1] = e
    <2>1. /\ g \in Seq(E) /\ Len(g) = n + 1
          /\ \A i \in 1 .. n : g[i] = h[i]
          /\ g[n + 1] = e
      BY <1>1, AppendProperties
    <2>. QED BY <2>1, SequenceArray
  <1>. HIDE DEF g
  <1>3. DOMAIN g = 1 .. n + 1 /\ DOMAIN h = 1 .. n
    BY <1>1, <1>2, ArrayDomain
  <1>4. ToSet(g) = F \union {e}
    <2>1. ASSUME NEW i \in 1 .. n + 1 PROVE g[i] \in F \union {e}
      <3>1. i = n + 1 \/ i \in 1 .. n
        OBVIOUS
      <3>. QED BY <1>1, <1>2, <1>3, <3>1 DEF ToSet
    <2>2. ASSUME NEW d \in F PROVE \E i \in 1 .. n + 1 : g[i] = d
      <3>1. PICK i \in 1 .. n : h[i] = d
        BY <1>1, <1>3 DEF ToSet
      <3>. QED BY <1>2, <3>1
    <2>3. n + 1 \in 1 .. n + 1
      OBVIOUS
    <2>. QED BY <1>2, <1>3, <2>1, <2>2, <2>3 DEF ToSet
  <1>5. Distinct(g)
    <2>. SUFFICES ASSUME NEW i \in 1 .. n + 1, NEW j \in 1 .. n + 1,
                         g[i].sequence = g[j].sequence
                  PROVE  i = j
      BY <1>3 DEF Distinct
    <2>1. (i = n + 1 \/ i \in 1 .. n) /\ (j = n + 1 \/ j \in 1 .. n)
      OBVIOUS
    <2>2. \A k \in 1 .. n : h[k].sequence # e.sequence
      BY <1>1, <1>3 DEF ToSet
    <2>3. \A k, l \in 1 .. n : h[k].sequence = h[l].sequence => k = l
      BY <1>3 DEF Holds, Distinct
    <2>. QED BY <1>2, <2>1, <2>2, <2>3
  <1>6. MayRise(g, n + 1, n + 1, e, R)
    <2>1. ASSUME NEW j \in 2 .. n + 1 PROVE j \div 2 # n + 1
      OBVIOUS
    <2>2. ASSUME NEW j \in 2 .. n + 1, j # n + 1 PROVE <<g[j \div 2], g[j]>> \in R
      <3>1. j \in 2 .. n /\ j \in 1 .. n /\ j \div 2 \in 1 .. n /\ j \div 2 >= 1
        BY <2>2
      <3>. QED BY <1>2, <3>1 DEF Holds, Heap, HeapFrom
    <2>. QED BY <2>1, <2>2 DEF MayRise
  <1>7. push(h, e) = sift_up(g, n + 1, e)
    BY <1>1 DEF push, g
  <1>8. Write(g, n + 1, e) = g
    BY <1>2, WriteBack
  <1>9. n + 1 \in Nat /\ n + 1 \in 1 .. n + 1
    OBVIOUS
  <1>10. /\ push(h, e) \in Array(n + 1, E)
         /\ Permutes(push(h, e), g)
         /\ Heap(push(h, e), n + 1, R)
    BY <1>2, <1>6, <1>7, <1>8, <1>9, SiftUpHeap
  <1>. QED BY <1>4, <1>5, <1>10 DEF Holds, Permutes

LEMMA PopHolds ==
    ASSUME NEW n \in Nat, n # 0, NEW E, NEW R, Keeps(R, E), NEW F, NEW h, Holds(h, n, E, F, R)
    PROVE  Holds(event_pop(h), n - 1, E, F \ {h[1]}, R)
  <1>1. /\ h \in Array(n, E) /\ Len(h) = n /\ h \in Seq(E) /\ ToSet(h) = F
        /\ DOMAIN h = 1 .. n /\ \A i \in 1 .. n : h[i] \in E
    BY ArrayLength, ArrayDomain DEF Holds
  <1>2. \A k, l \in 1 .. n : h[k].sequence = h[l].sequence => k = l
    BY <1>1 DEF Holds, Distinct
  <1>3. \A k \in 2 .. n : h[k] # h[1]
    BY <1>2
  <1>4. CASE n = 1
    <2>1. event_pop(h) = << >>
      BY <1>1, <1>4 DEF event_pop
    <2>2. F \ {h[1]} = {}
      BY <1>1, <1>4 DEF ToSet
    <2>3. << >> \in Array(0, E) /\ ToSet(<< >>) = {} /\ Distinct(<< >>) /\ Heap(<< >>, 0, R)
      BY DEF Array, ToSet, Distinct, Heap, HeapFrom
    <2>. QED BY <1>4, <2>1, <2>2, <2>3 DEF Holds
  <1>5. CASE n # 1
    <2>. DEFINE m == n - 1
                g == Front(h)
                f == Write(g, 1, h[n])
    <2>1. m \in Nat /\ m >= 1 /\ 1 \in 1 .. m /\ m + 1 = n /\ n \in 1 .. n
      BY <1>5
    <2>2. g \in Array(m, E) /\ \A i \in 1 .. m : g[i] = h[i]
      <3>1. g = SubSeq(h, 1, m)
        BY <1>1 DEF Front
      <3>2. \A i \in 1 .. m : h[i] \in E
        BY <1>1, <2>1
      <3>3. /\ SubSeq(h, 1, m) \in Seq(E)
            /\ Len(SubSeq(h, 1, m)) = m
            /\ \A i \in 1 .. m : SubSeq(h, 1, m)[i] = h[i]
        BY <2>1, <3>2, SubSeqProperties
      <3>. QED BY <3>1, <3>3, SequenceArray
    <2>3. event_pop(h) = sift_down(g, 1, h[n])
      BY <1>1, <1>5 DEF event_pop, Last
    <2>. HIDE DEF g
    <2>4. /\ f \in Array(m, E) /\ DOMAIN f = 1 .. m
          /\ \A i \in 1 .. m : f[i] = IF i = 1 THEN h[n] ELSE h[i]
      BY <1>1, <2>1, <2>2, WriteArray, ArrayDomain
    <2>. HIDE DEF f, m
    <2>5. ToSet(f) = F \ {h[1]}
      <3>1. ASSUME NEW i \in 1 .. m PROVE f[i] \in F \ {h[1]}
        <4>1. f[i] = h[n] \/ (f[i] = h[i] /\ i # 1)
          BY <2>4
        <4>2. i \in 1 .. n /\ n \in 2 .. n
          BY <1>5, <2>1
        <4>. QED BY <1>1, <1>3, <4>1, <4>2 DEF ToSet
      <3>2. ASSUME NEW d \in F \ {h[1]} PROVE \E i \in 1 .. m : f[i] = d
        <4>1. PICK i \in 1 .. n : h[i] = d
          BY <1>1 DEF ToSet
        <4>2. i # 1 /\ (i = n \/ i \in 1 .. m)
          BY <2>1, <4>1
        <4>. QED BY <2>1, <2>4, <4>1, <4>2
      <3>. QED BY <2>4, <3>1, <3>2 DEF ToSet
    <2>6. Distinct(f)
      <3>. SUFFICES ASSUME NEW i \in 1 .. m, NEW j \in 1 .. m, f[i].sequence = f[j].sequence
                    PROVE  i = j
        BY <2>4 DEF Distinct
      <3>1. i \in 1 .. n /\ j \in 1 .. n /\ i # n /\ j # n
        BY <2>1
      <3>. QED BY <1>2, <2>1, <2>4, <3>1
    <2>7. MaySink(g, m, 1, h[n], 1, R)
      <3>1. ~(1 \div 2 >= 1)
        OBVIOUS
      <3>2. ASSUME NEW j \in 2 .. m PROVE <<g[j \div 2], g[j]>> \in R
        <4>1. j \in 2 .. n /\ j \in 1 .. m /\ j \div 2 \in 1 .. m /\ j \div 2 >= 1
          BY <2>1
        <4>. QED BY <2>2, <4>1 DEF Holds, Heap, HeapFrom
      <3>. QED BY <3>1, <3>2 DEF MaySink
    <2>8. /\ event_pop(h) \in Array(m, E)
          /\ Permutes(event_pop(h), f)
          /\ Heap(event_pop(h), m, R)
      BY <1>1, <2>1, <2>2, <2>3, <2>7, SiftDownHeap DEF Heap, f
    <2>. QED BY <2>5, <2>6, <2>8 DEF Holds, Permutes, m
  <1>. QED BY <1>4, <1>5

LEMMA ReorderHolds ==
    ASSUME NEW n \in Nat, NEW E, NEW h \in Array(n, E), NEW R, Keeps(R, E), Distinct(h)
    PROVE  Holds(dspic33_reorder_events(h), n, E, ToSet(h), R)
  BY ReorderHeap DEF Holds, Permutes

\* The body of the recursion in Retain.
Kept(h, K, f, m) == IF m = 0 THEN << >>
                    ELSE IF h[m] \in K THEN Append(f[m - 1], h[m]) ELSE f[m - 1]

LEMMA RetainDefined == ASSUME NEW h, NEW K, NEW n \in Nat
                       PROVE  \E f : f = [m \in 0 .. n |-> Kept(h, K, f, m)]
  <1>. DEFINE S == {l \in Nat : \E f : f = [m \in 0 .. l |-> Kept(h, K, f, m)]}
  <1>1. 0 \in S
    <2>. DEFINE f == [m \in 0 .. 0 |-> << >>]
    <2>1. ASSUME NEW m \in 0 .. 0 PROVE Kept(h, K, f, m) = << >>
      BY DEF Kept
    <2>2. f = [m \in 0 .. 0 |-> Kept(h, K, f, m)]
      BY <2>1
    <2>. QED BY <2>2
  <1>2. ASSUME NEW l \in Nat, l \in S PROVE l + 1 \in S
    <2>1. PICK f : f = [m \in 0 .. l |-> Kept(h, K, f, m)]
      BY <1>2
    <2>2. \A m \in 0 .. l : f[m] = Kept(h, K, f, m)
      BY <2>1
    <2>. DEFINE g == [m \in 0 .. l + 1 |-> IF m = l + 1 THEN Kept(h, K, f, m) ELSE f[m]]
    <2>3. ASSUME NEW m \in 0 .. l + 1 PROVE g[m] = Kept(h, K, g, m)
      <3>1. m # 0 => m - 1 \in 0 .. l /\ g[m - 1] = f[m - 1]
        OBVIOUS
      <3>2. Kept(h, K, g, m) = Kept(h, K, f, m)
        <4>. HIDE DEF g
        <4>. QED BY <3>1 DEF Kept
      <3>3. m # l + 1 => m \in 0 .. l
        OBVIOUS
      <3>. QED BY <2>2, <3>2, <3>3
    <2>4. g = [m \in 0 .. l + 1 |-> Kept(h, K, g, m)]
      <3>1. g = [m \in 0 .. l + 1 |-> g[m]]
        OBVIOUS
      <3>. HIDE DEF g
      <3>. QED BY <2>3, <3>1
    <2>. HIDE DEF g
    <2>. QED BY <2>4
  <1>3. n \in S
    <2>. HIDE DEF S
    <2>. QED BY <1>1, <1>2, StepByStep
  <1>. QED BY <1>3

\* What is retained is what of the array is in K, each once.
LEMMA RetainArray ==
    ASSUME NEW n \in Nat, NEW E, NEW h \in Array(n, E), Distinct(h), NEW K
    PROVE  /\ Retain(h, K) \in Seq(E)
           /\ ToSet(Retain(h, K)) = ToSet(h) \intersect K
           /\ Distinct(Retain(h, K))
  <1>. DEFINE f == CHOOSE g : g = [m \in 0 .. Len(h) |-> Kept(h, K, g, m)]
              Up(m) == {h[i] : i \in 1 .. m}
              Good(m) == /\ f[m] \in Seq(E)
                         /\ ToSet(f[m]) = Up(m) \intersect K
                         /\ Distinct(f[m])
              S == {m \in Nat : m <= n => Good(m)}
  <1>1. /\ DOMAIN h = 1 .. n /\ Len(h) = n /\ \A i \in 1 .. n : h[i] \in E
        /\ \A i, j \in 1 .. n : h[i].sequence = h[j].sequence => i = j
    BY ArrayLength, ArrayDomain DEF Distinct
  <1>2. f = [m \in 0 .. Len(h) |-> Kept(h, K, f, m)]
    <2>1. Len(h) \in Nat
      BY <1>1
    <2>2. \E g : g = [m \in 0 .. Len(h) |-> Kept(h, K, g, m)]
      BY <2>1, RetainDefined
    <2>. QED BY <2>2, Zenon
  <1>3. Retain(h, K) = f[n]
    BY <1>1 DEF Retain, Kept
  <1>. HIDE DEF f
  <1>4. \A m \in 0 .. n : f[m] = Kept(h, K, f, m)
    BY <1>1, <1>2
  <1>5. 0 \in S
    <2>1. f[0] = << >>
      BY <1>4 DEF Kept
    <2>2. << >> \in Seq(E) /\ ToSet(<< >>) = {} /\ Distinct(<< >>) /\ Up(0) = {}
      BY EmptySeq DEF ToSet, Distinct
    <2>. QED BY <2>1, <2>2
  <1>6. ASSUME NEW m \in Nat, m \in S PROVE m + 1 \in S
    <2>. SUFFICES ASSUME m + 1 <= n PROVE Good(m + 1)
      OBVIOUS
    <2>. DEFINE k == m + 1
    <2>1. Good(m) /\ k \in 1 .. n /\ k \in 0 .. n /\ k # 0 /\ k - 1 = m
      BY <1>6
    <2>2. f[k] = IF h[k] \in K THEN Append(f[m], h[k]) ELSE f[m]
      BY <1>4, <2>1 DEF Kept
    <2>3. Up(k) = Up(m) \union {h[k]}
      <3>1. \A i : i \in 1 .. k <=> i \in 1 .. m \/ i = k
        OBVIOUS
      <3>. QED BY <3>1
    <2>4. \A d \in Up(m) : d.sequence # h[k].sequence
      <3>1. \A i \in 1 .. m : i \in 1 .. n /\ i # k
        BY <2>1
      <3>. QED BY <1>1, <2>1, <3>1
    <2>. HIDE DEF k, Up
    <2>5. CASE h[k] \in K
      <3>. DEFINE s == f[m]
                  l == Len(s)
                  t == Append(s, h[k])
      <3>1. h[k] \in E /\ s \in Seq(E)
        BY <1>1, <2>1
      <3>2. l \in Nat /\ DOMAIN s = 1 .. l
        BY <3>1, LenProperties
      <3>3. /\ t \in Seq(E) /\ Len(t) = l + 1
            /\ \A i \in 1 .. l : t[i] = s[i]
            /\ t[l + 1] = h[k]
        BY <3>1, AppendProperties
      <3>. HIDE DEF t, s
      <3>4. DOMAIN t = 1 .. l + 1
        BY <3>3, LenProperties
      <3>. HIDE DEF l
      <3>5. \A i : i \in 1 .. l + 1 <=> i \in 1 .. l \/ i = l + 1
        BY <3>2
      <3>6. ToSet(t) = ToSet(s) \union {h[k]}
        BY <3>2, <3>3, <3>4, <3>5 DEF ToSet
      <3>7. \A i \in 1 .. l : s[i].sequence # h[k].sequence
        <4>1. \A i \in 1 .. l : s[i] \in Up(m)
          BY <2>1, <3>2 DEF ToSet, s
        <4>. QED BY <2>4, <4>1
      <3>8. Distinct(t)
        BY <2>1, <3>2, <3>3, <3>4, <3>5, <3>7 DEF Distinct, s
      <3>9. f[k] = t
        BY <2>2, <2>5 DEF s, t
      <3>. QED BY <2>1, <2>3, <2>5, <3>3, <3>6, <3>8, <3>9 DEF s, k
    <2>6. CASE h[k] \notin K
      BY <2>1, <2>2, <2>3, <2>6 DEF k
    <2>. QED BY <2>5, <2>6
  <1>7. n \in S
    <2>. HIDE DEF S
    <2>. QED BY <1>5, <1>6, StepByStep
  <1>8. Up(n) = ToSet(h)
    BY <1>1 DEF ToSet
  <1>. QED BY <1>3, <1>7, <1>8

LEMMA RetainHolds ==
    ASSUME NEW n \in Nat, NEW E, NEW h \in Array(n, E), Distinct(h), NEW R, Keeps(R, E), NEW K
    PROVE  \E m \in Nat :
             Holds(dspic33_reorder_events(Retain(h, K)), m, E, ToSet(h) \intersect K, R)
  <1>1. /\ Retain(h, K) \in Seq(E)
        /\ ToSet(Retain(h, K)) = ToSet(h) \intersect K
        /\ Distinct(Retain(h, K))
    BY RetainArray
  <1>2. Retain(h, K) \in Array(Len(Retain(h, K)), E) /\ Len(Retain(h, K)) \in Nat
    BY <1>1, SequenceArray
  <1>. QED BY <1>1, <1>2, ReorderHolds

\* An array nothing is known of the order of: it is in order for no comparison.
LEMMA AnyOrder ==
    ASSUME NEW n \in Nat, NEW E, NEW h \in Array(n, E), Distinct(h)
    PROVE  Holds(h, n, E, ToSet(h), E \X E)
  <1>1. \A i \in 1 .. n : h[i] \in E
    BY ArrayDomain
  <1>2. \A j \in 2 .. n : j \in 1 .. n /\ j \div 2 \in 1 .. n
    OBVIOUS
  <1>. QED BY <1>1, <1>2 DEF Holds, Heap, HeapFrom

LEMMA HoldsAny ==
    ASSUME NEW n \in Nat, NEW E, NEW F, NEW R, NEW h, Holds(h, n, E, F, R)
    PROVE  Holds(h, n, E, F, E \X E)
  BY AnyOrder DEF Holds

LEMMA KeepsAny == ASSUME NEW E PROVE Keeps(E \X E, E)
  BY DEF Keeps

\* Changing events but not their sequence numbers.
LEMMA ImageArray ==
    ASSUME NEW n \in Nat, NEW E, NEW R, NEW F, NEW h, Holds(h, n, E, F, R),
           NEW f, \A d \in F : f[d] \in E /\ f[d].sequence = d.sequence
    PROVE  LET g == [i \in DOMAIN h |-> f[h[i]]]
           IN  /\ g \in Array(n, E)
               /\ ToSet(g) = {f[d] : d \in F}
               /\ Distinct(g)
               /\ g = h => \A d \in F : f[d] = d
  <1>. DEFINE g == [i \in DOMAIN h |-> f[h[i]]]
  <1>1. h \in Array(n, E) /\ DOMAIN h = 1 .. n /\ \A i \in 1 .. n : h[i] \in F
    BY ArrayDomain DEF Holds, ToSet
  <1>2. g \in Array(n, E) /\ DOMAIN g = 1 .. n /\ \A i \in 1 .. n : g[i] = f[h[i]]
    BY <1>1 DEF Array
  <1>3. F = {h[i] : i \in 1 .. n}
    BY <1>1 DEF Holds, ToSet
  <1>. HIDE DEF g
  <1>4. ToSet(g) = {f[d] : d \in F}
    BY <1>2, <1>3 DEF ToSet
  <1>5. Distinct(g)
    <2>1. \A i, j \in 1 .. n : h[i].sequence = h[j].sequence => i = j
      BY <1>1 DEF Holds, Distinct
    <2>. QED BY <1>1, <1>2, <2>1 DEF Distinct
  <1>6. g = h => \A d \in F : f[d] = d
    BY <1>2, <1>3
  <1>. QED BY <1>2, <1>4, <1>5, <1>6 DEF g

\* The loop reorders what it changed, for any order; what it did not change is in
\* order as it was.
LEMMA UpdateHolds ==
    ASSUME NEW n \in Nat, NEW E, NEW Q, Keeps(Q, E), NEW R, Keeps(R, E),
           NEW F, NEW h, Holds(h, n, E, F, Q),
           NEW f, \A d \in F : f[d] \in E /\ f[d].sequence = d.sequence, NEW always
    PROVE  /\ Holds(Update(h, f, always), n, E, {f[d] : d \in F}, Q)
           /\ always \/ (\E d \in F : f[d] # d)
                => Holds(Update(h, f, always), n, E, {f[d] : d \in F}, R)
  <1>. DEFINE g == [i \in DOMAIN h |-> f[h[i]]]
  <1>1. /\ g \in Array(n, E)
        /\ ToSet(g) = {f[d] : d \in F}
        /\ Distinct(g)
        /\ g = h => \A d \in F : f[d] = d
    BY ImageArray
  <1>2. Update(h, f, always) = IF g = h /\ ~always THEN h ELSE dspic33_reorder_events(g)
    BY DEF Update
  <1>. HIDE DEF g
  <1>3. CASE g = h /\ ~always
    <2>1. {f[d] : d \in F} = F /\ \A d \in F : f[d] = d
      BY <1>1, <1>3
    <2>. QED BY <1>2, <1>3, <2>1
  <1>4. CASE ~(g = h /\ ~always)
    <2>1. /\ Holds(dspic33_reorder_events(g), n, E, ToSet(g), Q)
          /\ Holds(dspic33_reorder_events(g), n, E, ToSet(g), R)
      BY <1>1, ReorderHolds
    <2>. QED BY <1>1, <1>2, <1>4, <2>1
  <1>. QED BY <1>3, <1>4
-----------------------------------------------------------------------------
\* The queue the array is of, with what is proved of it in EventQueueProofs.tla.
QP == INSTANCE EventQueueProofs WITH events <- ToSet(items)

\* The instance is of the constants EventHeap has.
LEMMA QueueConstants == QP!EventQueueAssumption
  BY EventHeapAssumption DEF QP!EventQueueAssumption

\* The specification EventHeap names is the one the proofs are about.
LEMMA SameCardinality == \A S : /\ Queue!Cardinality(S) = QP!Cardinality(S)
                                /\ Cardinality(S) = QP!Cardinality(S)
  BY DEF Queue!Cardinality, QP!Cardinality, Cardinality

LEMMA SameOrder == \A e, f : /\ Queue!Earlier(e, f) <=> Earlier(e, f)
                            /\ QP!Earlier(e, f) <=> Earlier(e, f)
  BY DEF Queue!Earlier, QP!Earlier, Earlier

LEMMA SameLocks == Queue!LocksUnderWay = QP!LocksUnderWay
  BY DEF Queue!LocksUnderWay, QP!LocksUnderWay, Queue!CurrentClock, QP!CurrentClock

LEMMA SameNumbers == \A n : Queue!Wrapped(n) = QP!Wrapped(n)
  BY DEF Queue!Wrapped, QP!Wrapped

LEMMA SameEvents ==
    /\ \A t : Queue!Sources(t) = QP!Sources(t)
    /\ \A t, s, v, d, x : Queue!NewEvent(t, s, v, d, x) = QP!NewEvent(t, s, v, d, x)
    /\ \A e, t : Queue!Clocked(e, t) <=> QP!Clocked(e, t)
    /\ \A e : /\ Queue!Placed(e) = QP!Placed(e)
              /\ Queue!PauseEvent(e) = QP!PauseEvent(e)
              /\ Queue!ResumeEvent(e) = QP!ResumeEvent(e)
              /\ Queue!ResumeOverflows(e) <=> QP!ResumeOverflows(e)
              /\ Queue!Due(e) <=> QP!Due(e)
              /\ \A n : Queue!Moved(e, n) = QP!Moved(e, n)
  <1>0. \A e : Queue!RemainingAt(e) = QP!RemainingAt(e)
    BY SameNumbers DEF Queue!RemainingAt, QP!RemainingAt
  <1>1. \A e : /\ Queue!PauseEvent(e) = QP!PauseEvent(e)
               /\ Queue!ResumeEvent(e) = QP!ResumeEvent(e)
    BY <1>0 DEF Queue!PauseEvent, QP!PauseEvent, Queue!ResumeEvent, QP!ResumeEvent,
           Queue!Clocking, QP!Clocking
  <1>2. \A e, t : Queue!Clocked(e, t) <=> QP!Clocked(e, t)
    BY DEF Queue!Clocked, QP!Clocked
  <1>3. \A e : Queue!Placed(e) = QP!Placed(e)
    BY <1>1 DEF Queue!Placed, QP!Placed
  <1>4. \A t, s, v, d, x : Queue!NewEvent(t, s, v, d, x) = QP!NewEvent(t, s, v, d, x)
    BY DEF Queue!NewEvent, QP!NewEvent
  <1>5. \A e : Queue!Due(e) <=> QP!Due(e)
    BY DEF Queue!Due, QP!Due
  <1>6. \A e : Queue!ResumeOverflows(e) <=> QP!ResumeOverflows(e)
    BY DEF Queue!ResumeOverflows, QP!ResumeOverflows
  <1>7. \A t : Queue!Sources(t) = QP!Sources(t)
    BY DEF Queue!Sources, QP!Sources
  <1>8. \A e, n : Queue!Moved(e, n) = QP!Moved(e, n)
    BY SameNumbers DEF Queue!Moved, QP!Moved, Queue!Clocking, QP!Clocking
  <1>. QED BY <1>1, <1>2, <1>3, <1>4, <1>5, <1>6, <1>7, <1>8

LEMMA SameHeads == Queue!Heads = QP!Heads /\ Queue!NextCycles = QP!NextCycles
  <1>1. \A e : Queue!IsHead(e) <=> QP!IsHead(e)
    BY DEF Queue!IsHead, QP!IsHead, Queue!Earlier, QP!Earlier
  <1>2. Queue!Heads = QP!Heads
    BY <1>1 DEF Queue!Heads, QP!Heads
  <1>. QED BY <1>2, SameEvents DEF Queue!NextCycles, QP!NextCycles

LEMMA SameResets ==
    /\ \A c : Queue!Requeued(c) = QP!Requeued(c)
    /\ Queue!SequenceAfterReset = QP!SequenceAfterReset
    /\ QP!WarmReset <=> Queue!WarmReset
    /\ QP!BrownOutReset <=> Queue!BrownOutReset
  <1>1. \A c : Queue!RequeuePosition(c) = QP!RequeuePosition(c)
    BY SameLocks, SameCardinality DEF Queue!RequeuePosition, QP!RequeuePosition
  <1>2. \A c : Queue!Requeued(c) = QP!Requeued(c)
    BY <1>1 DEF Queue!Requeued, QP!Requeued
  <1>3. Queue!SequenceAfterReset = QP!SequenceAfterReset
    BY SameLocks, SameCardinality DEF Queue!SequenceAfterReset, QP!SequenceAfterReset
  <1>4. QP!WarmReset <=> Queue!WarmReset
    BY <1>2, <1>3, SameLocks, SameCardinality DEF Queue!WarmReset, QP!WarmReset
  <1>5. QP!BrownOutReset <=> Queue!BrownOutReset
    BY <1>2, <1>3, SameLocks, SameCardinality DEF Queue!BrownOutReset, QP!BrownOutReset
  <1>. QED BY <1>2, <1>3, <1>4, <1>5

LEMMA SameSchedule ==
    /\ QP!ScheduleInternal <=> Queue!ScheduleInternal
    /\ QP!ScheduleExternal <=> Queue!ScheduleExternal
  <1>1. \A t, s, d, x : QP!schedule_event(t, s, d, x) <=> Queue!schedule_event(t, s, d, x)
    BY SameEvents DEF Queue!schedule_event, QP!schedule_event
  <1>. QED BY <1>1, SameEvents DEF Queue!ScheduleInternal, QP!ScheduleInternal,
              Queue!ScheduleExternal, QP!ScheduleExternal

LEMMA SameClocks == QP!ClockChanged <=> Queue!ClockChanged
  <1>1. \A t, g : QP!ScheduleLock(t, g) <=> Queue!ScheduleLock(t, g)
    BY SameEvents DEF Queue!ScheduleLock, QP!ScheduleLock
  <1>2. \A t : Queue!NextGeneration(t) = QP!NextGeneration(t)
    BY DEF Queue!NextGeneration, QP!NextGeneration
  <1>3. \A t : QP!ReconfigureClock(t) <=> Queue!ReconfigureClock(t)
    BY <1>1, <1>2 DEF Queue!ReconfigureClock, QP!ReconfigureClock
  <1>4. \A t : QP!ContinueClock(t) <=> Queue!ContinueClock(t)
    BY <1>1, SameLocks DEF Queue!ContinueClock, QP!ContinueClock
  <1>. QED BY <1>3, <1>4 DEF Queue!ClockChanged, QP!ClockChanged

LEMMA SameGates == QP!PowerStateChanged <=> Queue!PowerStateChanged
  <1>1. \A t : QP!Gate(t) <=> Queue!Gate(t)
    BY SameEvents DEF Queue!Gate, QP!Gate
  <1>2. \A t : QP!Ungate(t) <=> Queue!Ungate(t)
    BY SameEvents DEF Queue!Ungate, QP!Ungate
  <1>. QED BY <1>1, <1>2 DEF Queue!PowerStateChanged, QP!PowerStateChanged

LEMMA SameMoves == QP!Retimed <=> Queue!Retimed
  <1>1. \A t : QP!Stretch(t) <=> Queue!Stretch(t)
    BY SameEvents DEF Queue!Stretch, QP!Stretch
  <1>2. \A t : QP!StretchFails(t) <=> Queue!StretchFails(t)
    BY SameEvents DEF Queue!StretchFails, QP!StretchFails
  <1>3. \A t : QP!Shift(t) <=> Queue!Shift(t)
    BY SameEvents DEF Queue!Shift, QP!Shift
  <1>. QED BY <1>1, <1>2, <1>3 DEF Queue!Retimed, QP!Retimed

LEMMA SameQueue == /\ QP!Init <=> Queue!Init
                   /\ [QP!Next]_(QP!vars) => [Queue!Next]_(Queue!vars)
  <1>1. QP!Init <=> Queue!Init
    BY DEF Queue!Init, QP!Init
  <1>2. QP!vars = Queue!vars
    BY DEF Queue!vars, QP!vars
  <1>3. QP!vars' = Queue!vars'
    BY DEF Queue!vars, QP!vars
  <1>4. /\ QP!BeginAdvance <=> Queue!BeginAdvance
        /\ QP!AbortAdvance <=> Queue!AbortAdvance
        /\ QP!RunAgain <=> Queue!RunAgain
    BY DEF Queue!BeginAdvance, QP!BeginAdvance, Queue!AbortAdvance, QP!AbortAdvance,
       Queue!RunAgain, QP!RunAgain
  <1>5. /\ QP!AdvanceClock <=> Queue!AdvanceClock
        /\ QP!EndAdvance <=> Queue!EndAdvance
        /\ QP!DispatchEvent <=> Queue!DispatchEvent
    BY SameEvents, SameHeads, SameNumbers DEF Queue!AdvanceClock, QP!AdvanceClock,
       Queue!EndAdvance, QP!EndAdvance, Queue!DispatchEvent, QP!DispatchEvent
  <1>6. /\ QP!DiscardEvents <=> Queue!DiscardEvents
        /\ QP!CancelEvents <=> Queue!CancelEvents
    BY SameEvents DEF Queue!DiscardEvents, QP!DiscardEvents, Queue!CancelEvents, QP!CancelEvents
  <1>7. QP!Next <=> Queue!Next
    BY <1>4, <1>5, <1>6, SameSchedule, SameClocks, SameGates, SameMoves, SameResets
       DEF Queue!Next, QP!Next
  <1>. QED BY <1>1, <1>2, <1>3, <1>7
-----------------------------------------------------------------------------
\* The events that are ever scheduled: a DMA event is of a channel there is.
Scheduled == {e \in QP!Proper : e.source \in QP!Sources(e.type)}

\* The numbers the comparison looks at.
LEMMA ScheduledFields ==
    ASSUME NEW e \in Scheduled
    PROVE  /\ e \in QP!Event /\ e \in QP!Proper
           /\ e.cycle \in Int /\ e.sequence \in Int /\ e.source \in Int
           /\ e.paused \in BOOLEAN
           /\ e.source \in QP!Sources(e.type)
  <1>1. e \in QP!Event /\ e \in QP!Proper /\ e.source \in QP!Sources(e.type)
    BY DEF Scheduled, QP!Proper
  <1>2. /\ e.cycle \in Nat /\ e.sequence \in Nat /\ e.source \in Nat /\ e.paused \in BOOLEAN
    BY <1>1, QueueConstants, DmaCountAssumption, QP!EventFields
  <1>. QED BY <1>1, <1>2

\* What the comparison is an order for, whatever a cycle holds.
NotLater == {p \in Scheduled \X Scheduled : ~Earlier(p[2], p[1])}

LEMMA NotLaterKept == Keeps(NotLater, Scheduled)
  <1>1. ASSUME NEW a \in Scheduled, NEW b \in Scheduled
        PROVE  IF event_less(a, b) THEN ~Earlier(b, a) ELSE ~Earlier(a, b)
    BY ScheduledFields DEF event_less, Earlier, SameSlot
  <1>2. ASSUME NEW a \in Scheduled, NEW b \in Scheduled, NEW c \in Scheduled,
               ~Earlier(b, a), ~Earlier(c, b)
        PROVE  ~Earlier(c, a)
    BY <1>2, ScheduledFields DEF Earlier
  <1>3. \A a, b \in Scheduled : <<a, b>> \in NotLater <=> ~Earlier(b, a)
    BY DEF NotLater
  <1>. QED BY <1>1, <1>2, <1>3 DEF Keeps

\* What the whole comparison says, which is an order only of DMA events alone, by
\* channel, and of other events alone, by sequence.
NotAfter == {p \in Scheduled \X Scheduled : ~event_less(p[2], p[1])}

\* The relations a heap of scheduled events can be in order for.
Orders(R) == Keeps(R, Scheduled) /\ R \subseteq NotLater

\* The order of an array that is reordered after each change, and of one that is not.
OrderOf(R, un) == IF un THEN Scheduled \X Scheduled ELSE R

\* The array is a heap of the events of the queue, each in one slot; while it is
\* unordered it only holds them.
InOrder(R) == \E n \in Nat : Holds(items, n, Scheduled, Pending, OrderOf(R, unordered))

HeapInv(R) == QP!IInv /\ InOrder(R)

LEMMA OrderKept == ASSUME NEW R, Orders(R)
                   PROVE  \A un : Keeps(OrderOf(R, un), Scheduled)
  BY KeepsAny DEF OrderOf, Orders

LEMMA OrderedArray ==
    ASSUME NEW n \in Nat, NEW F, NEW R, NEW h, Holds(h, n, Scheduled, F, R)
    PROVE  \A un : Holds(h, n, Scheduled, F, OrderOf(R, un))
  BY HoldsAny DEF OrderOf

LEMMA RootEarliest ==
    ASSUME NEW R, Orders(R), HeapInv(R)
    PROVE  /\ items = << >> => Pending = {}
           /\ items # << >> => Head(items) \in Pending
           /\ \A e \in Pending : /\ items # << >>
                                 /\ ~unordered => <<Head(items), e>> \in R
                                 /\ ~unordered => ~Earlier(e, Head(items))
  <1>1. PICK n \in Nat : Holds(items, n, Scheduled, Pending, OrderOf(R, unordered))
    BY DEF HeapInv, InOrder
  <1>2. items \in Array(n, Scheduled) /\ DOMAIN items = 1 .. n /\ Len(items) = n
        /\ items \in Seq(Scheduled)
    BY <1>1, ArrayLength, ArrayDomain DEF Holds
  <1>3. Pending = {items[i] : i \in 1 .. n}
    BY <1>2 DEF Pending, ToSet
  <1>4. items = << >> <=> n = 0
    BY <1>2
  <1>5. n # 0 => Head(items) = items[1] /\ 1 \in 1 .. n
    BY <1>2
  <1>6. ~unordered => \A j \in 1 .. n : <<items[1], items[j]>> \in R
    <2>. SUFFICES ASSUME ~unordered PROVE \A j \in 1 .. n : <<items[1], items[j]>> \in R
      OBVIOUS
    <2>1. Heap(items, n, R)
      BY <1>1 DEF Holds, OrderOf
    <2>. QED BY <1>2, <2>1, HeapRoot DEF Orders
  <1>7. ~unordered => \A j \in 1 .. n : ~Earlier(items[j], items[1])
    BY <1>6 DEF NotLater, Orders
  <1>8. ASSUME NEW e \in Pending
        PROVE  /\ items # << >>
               /\ ~unordered => <<Head(items), e>> \in R
               /\ ~unordered => ~Earlier(e, Head(items))
    <2>1. PICK j \in 1 .. n : e = items[j]
      BY <1>3
    <2>2. n # 0
      BY <2>1
    <2>. QED BY <1>4, <1>5, <1>6, <1>7, <2>1, <2>2
  <1>9. items # << >> => Head(items) \in Pending
    BY <1>3, <1>4, <1>5
  <1>10. items = << >> => Pending = {}
    BY <1>8
  <1>. QED BY <1>8, <1>9, <1>10

\* The head of the array is a head of the queue, and the loop looks at no other.
LEMMA HeadOfQueue ==
    ASSUME NEW R, Orders(R), HeapInv(R)
    PROVE  /\ items = << >> => Pending = {}
           /\ items # << >> => /\ Head(items) \in Pending
                               /\ Head(items) \in QP!Heads
                               /\ HeadDue <=> QP!Due(Head(items))
           /\ HeadDue => items # << >>
  <1>1. ASSUME items # << >> PROVE Head(items) \in QP!Heads
    <2>1. Head(items) \in ToSet(items)
      BY <1>1, RootEarliest DEF Pending
    <2>2. QP!IsHead(Head(items))
      BY RootEarliest DEF QP!IsHead, QP!Earlier, Earlier, Pending
    <2>. QED BY <2>1, <2>2 DEF QP!Heads
  <1>. QED BY <1>1, RootEarliest DEF HeadDue, QP!Due
-----------------------------------------------------------------------------
\* A step leaves the array in order of the events the step of the queue leaves.
LEMMA LeftInOrder ==
    ASSUME NEW R, NEW E, NEW n \in Nat, Holds(items', n, Scheduled, E, OrderOf(R, unordered'))
    PROVE  ToSet(items') = E /\ InOrder(R)'
  <1>1. ToSet(items') = E
    BY DEF Holds
  <1>2. Pending' = E
    BY <1>1 DEF Pending
  <1>3. Holds(items', n, Scheduled, Pending', OrderOf(R, unordered'))
    BY <1>2
  <1>4. OrderOf(R, unordered)' = OrderOf(R, unordered')
    BY DEF OrderOf
  <1>. QED BY <1>1, <1>3, <1>4 DEF InOrder

LEMMA FreshSequence ==
    ASSUME NEW R, Orders(R), HeapInv(R)
    PROVE  /\ sequence \in Nat
           /\ \A d \in Pending : /\ d \in QP!Event /\ d \in Scheduled /\ d \in QP!Proper
                                 /\ d.sequence < sequence /\ d.sequence # sequence
  <1>1. sequence \in Nat /\ \A d \in Pending : d.sequence < sequence
    BY DEF HeapInv, QP!IInv, QP!QueueInv, QP!TypeOK, QP!SequencesDistinct, Pending
  <1>2. PICK n \in Nat : Holds(items, n, Scheduled, Pending, OrderOf(R, unordered))
    BY DEF HeapInv, InOrder
  <1>3. \A d \in Pending : d \in Scheduled
    BY <1>2, ArrayDomain DEF Holds, ToSet
  <1>. QED BY <1>1, <1>3, ScheduledFields

\* No operation but scheduling chooses a source.
LEMMA StaysScheduled ==
    ASSUME NEW e \in Scheduled, NEW f \in QP!Proper, f.type = e.type, f.source = e.source
    PROVE  f \in Scheduled
  BY DEF Scheduled

\* Updating the array, which an update that changes or reorders puts in order.
LEMMA HeapUpdate ==
    ASSUME NEW R, Orders(R), NEW Q, Keeps(Q, Scheduled), NEW n \in Nat, NEW F, NEW h,
           Holds(h, n, Scheduled, F, Q),
           NEW f, NEW always, items' = Update(h, f, always),
           \A d \in F : f[d] \in Scheduled /\ f[d].sequence = d.sequence,
           unordered' \/ Q = R \/ always \/ \E d \in F : f[d] # d
    PROVE  ToSet(items') = {f[d] : d \in F} /\ InOrder(R)'
  <1>. DEFINE E == {f[d] : d \in F}
              h2 == Update(h, f, always)
  <1>1. /\ Holds(h2, n, Scheduled, E, Q)
        /\ always \/ (\E d \in F : f[d] # d) => Holds(h2, n, Scheduled, E, R)
    BY UpdateHolds DEF Orders
  <1>. HIDE DEF E, h2
  <1>2. Holds(h2, n, Scheduled, E, OrderOf(R, unordered'))
    <2>1. CASE unordered'
      BY <1>1, <2>1, HoldsAny DEF OrderOf
    <2>2. CASE ~unordered'
      BY <1>1, <2>2 DEF OrderOf
    <2>. QED BY <2>1, <2>2
  <1>3. Holds(items', n, Scheduled, E, OrderOf(R, unordered'))
    BY <1>2 DEF h2
  <1>4. ToSet(items') = E /\ InOrder(R)'
    BY <1>3, LeftInOrder
  <1>. QED BY <1>4 DEF E

LEMMA HeapSchedule ==
    ASSUME NEW R, Orders(R), HeapInv(R),
           NEW t \in Types, NEW s \in QP!Sources(t), NEW d \in 0 .. CycleLimit, NEW x \in BOOLEAN,
           x => t \in HostTypes,
           schedule_event(t, s, d, x)
    PROVE  QP!schedule_event(t, s, d, x) /\ InOrder(R)'
  <1>. DEFINE e == QP!NewEvent(t, s, 0, d, x)
              f == [c \in Pending \union {e} |-> IF c = e THEN QP!Placed(e) ELSE c]
  <1>1. PICK n \in Nat : Holds(items, n, Scheduled, Pending, OrderOf(R, unordered))
    BY DEF HeapInv, InOrder
  <1>2. /\ items' = Update(push(items, e), f, FALSE)
        /\ unordered' = (unordered /\ ~QP!Placed(e).paused)
        /\ d <= CycleLimit - device_cycles
    BY SameEvents DEF schedule_event
  <1>3. /\ e \in Scheduled /\ e.sequence = sequence
        /\ QP!Placed(e) \in Scheduled /\ QP!Placed(e).sequence = sequence
        /\ ~e.paused
    <2>1. QP!TypeOK /\ QP!QueueInv
      BY DEF HeapInv, QP!IInv, QP!QueueInv
    <2>2. s \in Nat
      BY QueueConstants, DmaCountAssumption, QP!SourcesNatural
    <2>3. e \in QP!Proper
      BY <1>2, <2>1, <2>2, QueueConstants, DmaCountAssumption, QP!NewEventProper
    <2>4. e.sequence = sequence /\ e.type = t /\ e.source = s /\ ~e.paused /\ e.external = x
      BY DEF QP!NewEvent
    <2>5. e \in Scheduled
      BY <2>3, <2>4 DEF Scheduled
    <2>. HIDE DEF e, f
    <2>6. CASE t \in HeldTypes \intersect gated
      <3>1. QP!Placed(e) = QP!PauseEvent(e)
        BY <2>4, <2>6 DEF QP!Placed
      <3>2. t \in GatedTypes /\ ~x
        BY <2>6, EventHeapAssumption
      <3>3. QP!PauseEvent(e) \in QP!Proper
        BY <2>1, <2>3, <2>4, <3>2, QueueConstants, DmaCountAssumption, QP!PausedProper
      <3>4. /\ QP!PauseEvent(e).sequence = e.sequence
            /\ QP!PauseEvent(e).type = e.type /\ QP!PauseEvent(e).source = e.source
        BY DEF QP!PauseEvent, QP!Clocking
      <3>5. QP!PauseEvent(e) \in Scheduled
        BY <2>5, <3>3, <3>4, StaysScheduled
      <3>. QED BY <2>4, <2>5, <3>1, <3>4, <3>5
    <2>7. CASE t \notin HeldTypes \intersect gated
      <3>1. QP!Placed(e) = e
        BY <2>4, <2>7 DEF QP!Placed
      <3>. QED BY <2>4, <2>5, <3>1
    <2>. QED BY <2>6, <2>7
  <1>. HIDE DEF e
  <1>4. Holds(push(items, e), n + 1, Scheduled, Pending \union {e}, OrderOf(R, unordered))
    <2>1. Keeps(OrderOf(R, unordered), Scheduled)
      BY OrderKept
    <2>2. \A c \in Pending : c.sequence # e.sequence
      BY <1>3, FreshSequence
    <2>. QED BY <1>1, <1>3, <2>1, <2>2, PushHolds
  <1>5. \A c \in Pending \union {e} : f[c] \in Scheduled /\ f[c].sequence = c.sequence
    BY <1>3, FreshSequence
  <1>6. {f[c] : c \in Pending \union {e}} = Pending \union {QP!Placed(e)}
    <2>1. e \notin Pending
      BY <1>3, FreshSequence
    <2>. QED BY <2>1
  <1>7. unordered /\ ~unordered' => \E c \in Pending \union {e} : f[c] # c
    <2>. SUFFICES ASSUME unordered, ~unordered' PROVE f[e] # e
      OBVIOUS
    <2>1. QP!Placed(e).paused
      BY <1>2
    <2>2. f[e] = QP!Placed(e)
      OBVIOUS
    <2>. QED BY <1>3, <2>1, <2>2
  <1>. HIDE DEF f
  <1>8. n + 1 \in Nat
    OBVIOUS
  <1>9. ToSet(items') = {f[c] : c \in Pending \union {e}} /\ InOrder(R)'
    <2>. DEFINE F == Pending \union {e}
                m == n + 1
                h == push(items, e)
                Q == OrderOf(R, unordered)
                always == FALSE
    <2>1. /\ m \in Nat /\ Holds(h, m, Scheduled, F, Q)
          /\ items' = Update(h, f, always)
          /\ \A c \in F : f[c] \in Scheduled /\ f[c].sequence = c.sequence
          /\ Keeps(Q, Scheduled)
      BY <1>2, <1>4, <1>5, <1>8, OrderKept
    <2>0. unordered' \/ Q = R \/ always \/ \E c \in F : f[c] # c
      BY <1>7 DEF OrderOf
    <2>. HIDE DEF F, m, h, Q, always
    <2>2. ToSet(items') = {f[c] : c \in F} /\ InOrder(R)'
      BY <2>0, <2>1, HeapUpdate
    <2>. QED BY <2>2 DEF F
  <1>. QED BY <1>2, <1>6, <1>9 DEF schedule_event, QP!schedule_event, Pending, e

LEMMA HeapLock ==
    ASSUME NEW R, Orders(R), HeapInv(R), NEW t \in ClockTypes, NEW g \in Nat, ScheduleLock(t, g)
    PROVE  QP!ScheduleLock(t, g) /\ InOrder(R)'
  <1>1. PICK n \in Nat : Holds(items, n, Scheduled, Pending, OrderOf(R, unordered))
    BY DEF HeapInv, InOrder
  <1>2. PICK d \in 0 .. CycleLimit :
           /\ sequence < MaxSequence
           /\ d <= CycleLimit - device_cycles
           /\ items' = push(items, QP!NewEvent(t, 0, g, d, FALSE))
           /\ sequence' = sequence + 1
           /\ UNCHANGED <<device_cycles, target, advancing, gated, stop_reason, unordered,
                          disturbed>>
    BY SameEvents DEF ScheduleLock
  <1>. DEFINE e == QP!NewEvent(t, 0, g, d, FALSE)
  <1>3. e \in Scheduled /\ e.sequence = sequence
    <2>1. QP!TypeOK /\ t \in Types
      BY EventHeapAssumption DEF HeapInv, QP!IInv, QP!QueueInv
    <2>2. e \in QP!Proper
      BY <1>2, <2>1, QueueConstants, DmaCountAssumption, QP!NewEventProper
    <2>3. e.type = t /\ e.source = 0 /\ e.sequence = sequence
      BY DEF QP!NewEvent
    <2>4. 0 \in QP!Sources(t)
      BY DmaCountAssumption DEF QP!Sources
    <2>. QED BY <2>2, <2>3, <2>4 DEF Scheduled
  <1>. HIDE DEF e
  <1>4. Holds(push(items, e), n + 1, Scheduled, Pending \union {e}, OrderOf(R, unordered))
    <2>1. Keeps(OrderOf(R, unordered), Scheduled)
      BY OrderKept
    <2>2. \A c \in Pending : c.sequence # e.sequence
      BY <1>3, FreshSequence
    <2>. QED BY <1>1, <1>3, <2>1, <2>2, PushHolds
  <1>5. n + 1 \in Nat /\ Holds(items', n + 1, Scheduled, Pending \union {e}, OrderOf(R, unordered'))
    <2>1. items' = push(items, e) /\ unordered' = unordered
      BY <1>2 DEF e
    <2>. QED BY <1>4, <2>1
  <1>6. ToSet(items') = Pending \union {e} /\ InOrder(R)'
    BY <1>5, LeftInOrder
  <1>. QED BY <1>2, <1>6 DEF QP!ScheduleLock, Pending, e

LEMMA HeapIdle == ASSUME NEW R, HeapInv(R), UNCHANGED <<items, unordered>>
                  PROVE  InOrder(R)' /\ ToSet(items') = ToSet(items)
  <1>1. PICK n \in Nat : Holds(items, n, Scheduled, Pending, OrderOf(R, unordered))
    BY DEF HeapInv, InOrder
  <1>2. ToSet(items) = Pending
    BY <1>1 DEF Holds
  <1>3. Holds(items', n, Scheduled, Pending, OrderOf(R, unordered'))
    BY <1>1
  <1>. QED BY <1>2, <1>3, LeftInOrder

LEMMA HeapClocks == ASSUME NEW R, Orders(R), HeapInv(R), ClockChanged
                    PROVE  QP!ClockChanged /\ InOrder(R)'
  <1>. SUFFICES ASSUME NEW t \in ClockTypes, ReconfigureClock(t) \/ ContinueClock(t)
                PROVE  (QP!ReconfigureClock(t) \/ QP!ContinueClock(t)) /\ InOrder(R)'
    BY DEF ClockChanged, QP!ClockChanged
  <1>1. generation[t] \in Nat /\ generation[t] + 1 \in Nat
    BY DEF HeapInv, QP!IInv, QP!QueueInv, QP!TypeOK
  <1>2. Queue!NextGeneration(t) = generation[t] + 1 /\ QP!NextGeneration(t) = generation[t] + 1
    BY DEF Queue!NextGeneration, QP!NextGeneration
  <1>4. CASE ReconfigureClock(t)
    <2>1. CASE ScheduleLock(t, generation[t] + 1)
      <3>1. QP!ScheduleLock(t, generation[t] + 1) /\ InOrder(R)'
        BY <1>1, <2>1, HeapLock
      <3>. QED BY <1>2, <1>4, <3>1 DEF ReconfigureClock, QP!ReconfigureClock
    <2>2. CASE UNCHANGED <<items, sequence, device_cycles, target, advancing, gated, stop_reason,
                           unordered, disturbed>>
      BY <1>2, <1>4, <2>2, HeapIdle DEF ReconfigureClock, QP!ReconfigureClock
    <2>. QED BY <1>2, <1>4, <2>1, <2>2 DEF ReconfigureClock
  <1>5. CASE ContinueClock(t)
    <2>1. QP!ScheduleLock(t, generation[t]) /\ InOrder(R)'
      BY <1>1, <1>5, HeapLock DEF ContinueClock
    <2>. QED BY <1>5, <2>1, SameLocks DEF ContinueClock, QP!ContinueClock
  <1>. QED BY <1>4, <1>5
-----------------------------------------------------------------------------
\* The loop that looks at the head only goes where the queue lets it go.
LEMMA HeapAdvance ==
    ASSUME NEW R, Orders(R), HeapInv(R)
    PROVE  /\ BeginAdvance => QP!BeginAdvance /\ InOrder(R)'
           /\ AdvanceClock => QP!AdvanceClock /\ InOrder(R)'
           /\ EndAdvance => QP!EndAdvance /\ InOrder(R)'
           /\ AbortAdvance => QP!AbortAdvance /\ InOrder(R)'
           /\ RunAgain => QP!RunAgain /\ InOrder(R)'
  <1>1. ASSUME BeginAdvance PROVE QP!BeginAdvance /\ InOrder(R)'
    BY <1>1, HeapIdle DEF BeginAdvance, Queue!BeginAdvance, QP!BeginAdvance
  <1>2. ASSUME AbortAdvance PROVE QP!AbortAdvance /\ InOrder(R)'
    BY <1>2, HeapIdle DEF AbortAdvance, Queue!AbortAdvance, QP!AbortAdvance
  <1>3. ASSUME RunAgain PROVE QP!RunAgain /\ InOrder(R)'
    BY <1>3, HeapIdle DEF RunAgain, Queue!RunAgain, QP!RunAgain
  <1>4. ASSUME EndAdvance PROVE QP!EndAdvance /\ InOrder(R)'
    <2>1. ToSet(items) = {} \/ \E e \in QP!Heads : ~QP!Due(e)
      BY <1>4, HeadOfQueue DEF EndAdvance, Pending
    <2>. QED BY <1>4, <2>1, HeapIdle DEF EndAdvance, QP!EndAdvance
  <1>5. ASSUME AdvanceClock PROVE QP!AdvanceClock /\ InOrder(R)'
    <2>. DEFINE next == IF HeadDue THEN Head(items).cycle ELSE target
    <2>1. next \in QP!NextCycles
      <3>1. CASE items = << >>
        BY <3>1, HeadOfQueue DEF QP!NextCycles, Pending
      <3>2. CASE items # << >>
        <4>1. Head(items) \in ToSet(items) /\ ToSet(items) # {}
          BY <3>2, HeadOfQueue DEF Pending
        <4>2. next = IF QP!Due(Head(items)) THEN Head(items).cycle ELSE target
          BY <3>2, HeadOfQueue
        <4>. QED BY <3>2, <4>1, <4>2, HeadOfQueue DEF QP!NextCycles
      <3>. QED BY <3>1, <3>2
    <2>. HIDE DEF next
    <2>2. \E n \in 1 .. QP!Wrapped(next - device_cycles) :
             device_cycles' = QP!Wrapped(device_cycles + n)
      BY <1>5, SameNumbers DEF AdvanceClock, next
    <2>3. /\ advancing
          /\ disturbed' = (disturbed \/ unordered)
          /\ UNCHANGED <<items, sequence, target, advancing, gated, generation, stop_reason,
                         unordered>>
      BY <1>5 DEF AdvanceClock
    <2>. QED BY <2>1, <2>2, <2>3, HeapIdle DEF QP!AdvanceClock
  <1>. QED BY <1>1, <1>2, <1>3, <1>4, <1>5

LEMMA HeapDispatch == ASSUME NEW R, Orders(R), HeapInv(R), DispatchEvent
                      PROVE  QP!DispatchEvent /\ InOrder(R)'
  <1>. DEFINE e == Head(items)
  <1>1. HeadDue /\ items # << >> /\ e \in Pending /\ e \in QP!Heads /\ QP!Due(e)
        /\ e.cycle = device_cycles
    BY HeadOfQueue DEF DispatchEvent
  <1>2. PICK n \in Nat : Holds(items, n, Scheduled, Pending, OrderOf(R, unordered))
    BY DEF HeapInv, InOrder
  <1>3. n # 0 /\ e = items[1]
    <2>1. Len(items) = n /\ items \in Seq(Scheduled)
      BY <1>2, ArrayLength DEF Holds
    <2>. QED BY <1>1, <2>1
  <1>4. Holds(event_pop(items), n - 1, Scheduled, Pending \ {items[1]}, OrderOf(R, unordered))
    <2>1. Keeps(OrderOf(R, unordered), Scheduled)
      BY OrderKept
    <2>. QED BY <1>2, <1>3, <2>1, PopHolds
  <1>5. items' = event_pop(items) /\ unordered' = unordered
    BY DEF DispatchEvent
  <1>6. n - 1 \in Nat /\ Holds(items', n - 1, Scheduled, Pending \ {e}, OrderOf(R, unordered'))
    BY <1>3, <1>4, <1>5
  <1>7. ToSet(items') = Pending \ {e} /\ InOrder(R)'
    BY <1>6, LeftInOrder
  <1>. HIDE DEF e
  <1>. QED BY <1>1, <1>7 DEF DispatchEvent, QP!DispatchEvent, Pending
-----------------------------------------------------------------------------
\* Updating the array in place, without changing which events they are.
LEMMA ChangeImage ==
    ASSUME NEW R, Orders(R), HeapInv(R), NEW f, NEW always, items' = Update(items, f, always),
           \A d \in Pending : f[d] \in QP!Proper /\ QP!SameEvent(f[d], d)
    PROVE  ToSet(items') = {f[d] : d \in Pending}
  <1>1. PICK n \in Nat : Holds(items, n, Scheduled, Pending, OrderOf(R, unordered))
    BY DEF HeapInv, InOrder
  <1>2. \A d \in Pending : f[d] \in Scheduled /\ f[d].sequence = d.sequence
    BY FreshSequence, StaysScheduled DEF QP!SameEvent
  <1>3. Holds(Update(items, f, always), n, Scheduled, {f[d] : d \in Pending},
              OrderOf(R, unordered))
    BY <1>1, <1>2, OrderKept, UpdateHolds
  <1>. QED BY <1>3 DEF Holds

LEMMA HeapChange ==
    ASSUME NEW R, Orders(R), HeapInv(R), NEW f, NEW always, items' = Update(items, f, always),
           \A d \in Pending : f[d] \in QP!Proper /\ QP!SameEvent(f[d], d),
           unordered' \/ ~unordered \/ always \/ \E d \in Pending : f[d] # d
    PROVE  ToSet(items') = {f[d] : d \in Pending} /\ InOrder(R)'
  <1>. DEFINE Q == OrderOf(R, unordered)
  <1>1. PICK n \in Nat : Holds(items, n, Scheduled, Pending, Q)
    BY DEF HeapInv, InOrder
  <1>2. Keeps(Q, Scheduled)
    BY OrderKept
  <1>3. unordered' \/ Q = R \/ always \/ \E d \in Pending : f[d] # d
    BY DEF OrderOf
  <1>4. \A d \in Pending : f[d] \in Scheduled /\ f[d].sequence = d.sequence
    BY FreshSequence, StaysScheduled DEF QP!SameEvent
  <1>. HIDE DEF Q
  <1>. QED BY <1>1, <1>2, <1>3, <1>4, HeapUpdate

LEMMA HeapGate == ASSUME NEW R, Orders(R), HeapInv(R), NEW t \in GatedTypes, Gate(t)
                  PROVE  QP!Gate(t) /\ InOrder(R)'
  <1>. DEFINE f == [e \in Pending |-> IF QP!Clocked(e, t) /\ ~e.paused
                                      THEN QP!PauseEvent(e) ELSE e]
              always == t \in HostGatedTypes
  <1>1. /\ items' = Update(items, f, always)
        /\ gated' = gated \union {t}
        /\ unordered' = (unordered /\ ~always /\ ToSet(items') = Pending)
        /\ UNCHANGED <<sequence, device_cycles, target, advancing, generation, stop_reason,
                       disturbed>>
    BY SameEvents DEF Gate
  <1>2. ASSUME NEW e \in Pending PROVE f[e] \in QP!Proper /\ QP!SameEvent(f[e], e)
    <2>1. e \in QP!Proper /\ QP!TypeOK
      BY FreshSequence DEF HeapInv, QP!IInv, QP!QueueInv
    <2>2. CASE QP!Clocked(e, t) /\ ~e.paused
      <3>1. e.type = t /\ (e.external => t \in HostGatedTypes) /\ f[e] = QP!PauseEvent(e)
        BY <2>2 DEF QP!Clocked
      <3>. QED BY <2>1, <3>1, QueueConstants, DmaCountAssumption, QP!PausedProper, QP!ClockingSame
    <2>3. CASE ~(QP!Clocked(e, t) /\ ~e.paused)
      <3>1. f[e] = e
        BY <2>3
      <3>. QED BY <2>1, <3>1, QueueConstants, DmaCountAssumption, QP!ClockingSame
    <2>. QED BY <2>2, <2>3
  <1>3. {f[e] : e \in Pending} = {IF QP!Clocked(e, t) /\ ~e.paused
                                  THEN QP!PauseEvent(e) ELSE e : e \in Pending}
    OBVIOUS
  <1>. HIDE DEF f, always
  <1>4. (\A d \in Pending : f[d] = d) => {f[d] : d \in Pending} = Pending
    OBVIOUS
  <1>5. ToSet(items') = {f[d] : d \in Pending}
    BY <1>1, <1>2, ChangeImage
  <1>6. unordered' \/ ~unordered \/ always \/ \E d \in Pending : f[d] # d
    BY <1>1, <1>4, <1>5
  <1>7. InOrder(R)'
    BY <1>1, <1>2, <1>6, HeapChange
  <1>8. unordered' = (unordered /\ t \notin HostGatedTypes /\ ToSet(items') = ToSet(items))
    BY <1>1 DEF always, Pending
  <1>9. ToSet(items') = {IF QP!Clocked(e, t) /\ ~e.paused
                         THEN QP!PauseEvent(e) ELSE e : e \in ToSet(items)}
    BY <1>3, <1>5 DEF Pending
  <1>. QED BY <1>1, <1>7, <1>8, <1>9 DEF QP!Gate

LEMMA HeapUngate == ASSUME NEW R, Orders(R), HeapInv(R), NEW t \in GatedTypes, Ungate(t)
                    PROVE  QP!Ungate(t) /\ InOrder(R)'
  <1>. DEFINE resumed == {e \in Pending : e.type = t /\ e.paused}
              f == [e \in Pending |-> IF e \in resumed /\ ~QP!ResumeOverflows(e)
                                      THEN QP!ResumeEvent(e) ELSE e]
              always == FALSE
  <1>1. /\ items' = Update(items, f, always)
        /\ gated' = gated \ {t}
        /\ unordered' = (unordered /\ ToSet(items') = Pending)
        /\ stop_reason' = IF \E e \in resumed : QP!ResumeOverflows(e)
                          THEN "queue_error" ELSE stop_reason
        /\ UNCHANGED <<sequence, device_cycles, target, advancing, generation, disturbed>>
    BY SameEvents DEF Ungate
  <1>2. ASSUME NEW e \in Pending PROVE f[e] \in QP!Proper /\ QP!SameEvent(f[e], e)
    <2>1. e \in QP!Proper /\ QP!TypeOK
      BY FreshSequence DEF HeapInv, QP!IInv, QP!QueueInv
    <2>2. CASE e \in resumed /\ ~QP!ResumeOverflows(e)
      <3>1. f[e] = QP!ResumeEvent(e)
        BY <2>2
      <3>. QED BY <2>1, <2>2, <3>1, QueueConstants, DmaCountAssumption,
                  QP!ResumedProper, QP!ClockingSame
    <2>3. CASE ~(e \in resumed /\ ~QP!ResumeOverflows(e))
      <3>1. f[e] = e
        BY <2>3
      <3>. QED BY <2>1, <3>1, QueueConstants, DmaCountAssumption, QP!ClockingSame
    <2>. QED BY <2>2, <2>3
  <1>3. {f[e] : e \in Pending} = (Pending \ resumed) \union
           {IF QP!ResumeOverflows(e) THEN e ELSE QP!ResumeEvent(e) : e \in resumed}
    OBVIOUS
  <1>. HIDE DEF f, always
  <1>4. (\A d \in Pending : f[d] = d) => {f[d] : d \in Pending} = Pending
    OBVIOUS
  <1>5. ToSet(items') = {f[d] : d \in Pending}
    BY <1>1, <1>2, ChangeImage
  <1>6. unordered' \/ ~unordered \/ always \/ \E d \in Pending : f[d] # d
    BY <1>1, <1>4, <1>5
  <1>7. InOrder(R)'
    BY <1>1, <1>2, <1>6, HeapChange
  <1>. QED BY <1>1, <1>3, <1>5, <1>7 DEF QP!Ungate, Pending
-----------------------------------------------------------------------------
\* The events of S, where they are in the array.
LEMMA HeapDelayed ==
    ASSUME NEW R, Orders(R), HeapInv(R), NEW S \in SUBSET Pending, NEW n \in -MaxShift .. MaxShift
    PROVE  /\ \A d \in Pending : /\ Delayed(S, n)[d] \in QP!Proper
                                 /\ QP!SameEvent(Delayed(S, n)[d], d)
           /\ {Delayed(S, n)[d] : d \in Pending}
                = (Pending \ S) \union {QP!Moved(e, n) : e \in S}
  <1>1. \A d \in Pending : Delayed(S, n)[d] = IF d \in S THEN QP!Moved(d, n) ELSE d
    BY SameEvents DEF Delayed
  <1>2. ASSUME NEW d \in Pending
        PROVE  Delayed(S, n)[d] \in QP!Proper /\ QP!SameEvent(Delayed(S, n)[d], d)
    <2>1. d \in QP!Proper
      BY FreshSequence
    <2>2. QP!Moved(d, n) \in QP!Proper
      BY <2>1, QueueConstants, DmaCountAssumption, QP!MovedProper
    <2>3. QP!SameEvent(QP!Moved(d, n), d) /\ QP!SameEvent(d, d)
      BY QueueConstants, DmaCountAssumption, QP!ClockingSame
    <2>. QED BY <1>1, <2>1, <2>2, <2>3
  <1>. QED BY <1>1, <1>2

\* An event that comes a cycle later is another one.
LEMMA MovedOn == ASSUME NEW e \in QP!Proper PROVE QP!Moved(e, 1) # e
  <1>1. /\ e.cycle \in Nat /\ e.cycle <= CycleLimit
        /\ e.remaining \in Nat /\ e.remaining <= CycleLimit
    BY QueueConstants, DmaCountAssumption, QP!EventFields DEF QP!Proper
  <1>2. CycleLimit \in Nat /\ CycleLimit > 0
    BY EventHeapAssumption
  <1>3. QP!Wrapped(e.cycle + 1) # e.cycle /\ QP!Wrapped(e.remaining + 1) # e.remaining
    BY <1>1, <1>2 DEF QP!Wrapped
  <1>4. CASE e.paused
    <2>1. QP!Moved(e, 1).remaining = QP!Wrapped(e.remaining + 1)
      BY <1>4 DEF QP!Moved, QP!Clocking
    <2>. QED BY <1>3, <2>1
  <1>5. CASE ~e.paused
    <2>1. QP!Moved(e, 1).cycle = QP!Wrapped(e.cycle + 1)
      BY <1>5 DEF QP!Moved, QP!Clocking
    <2>. QED BY <1>3, <2>1
  <1>. QED BY <1>4, <1>5

LEMMA HeapStretch ==
    ASSUME NEW R, Orders(R), HeapInv(R), NEW t \in StretchedTypes, Stretch(t)
    PROVE  QP!Stretch(t) /\ InOrder(R)'
  <1>1. PICK S \in SUBSET {e \in Pending : e.type = t} :
           /\ \A e \in S : ~e.paused => e.cycle < CycleLimit
           /\ items' = Update(items, Delayed(S, 1), FALSE)
           /\ unordered' = (unordered /\ S = {})
           /\ disturbed' = (disturbed \/ \E e \in S : e.paused /\ e.remaining = CycleLimit)
           /\ UNCHANGED <<sequence, device_cycles, target, advancing, gated, generation,
                          stop_reason>>
    BY DEF Stretch
  <1>. DEFINE f == Delayed(S, 1)
              always == FALSE
  <1>2. 1 \in -MaxShift .. MaxShift /\ S \in SUBSET Pending
    BY EventHeapAssumption
  <1>3. /\ \A d \in Pending : f[d] \in QP!Proper /\ QP!SameEvent(f[d], d)
        /\ {f[d] : d \in Pending} = (Pending \ S) \union {QP!Moved(e, 1) : e \in S}
    BY <1>2, HeapDelayed
  <1>4. unordered' \/ ~unordered \/ always \/ \E d \in Pending : f[d] # d
    <2>1. ASSUME NEW e \in S PROVE f[e] # e
      <3>1. e \in Pending /\ f[e] = QP!Moved(e, 1)
        BY SameEvents DEF Delayed
      <3>. QED BY <3>1, FreshSequence, MovedOn
    <2>. QED BY <1>1, <2>1
  <1>5. items' = Update(items, f, always)
    BY <1>1
  <1>. HIDE DEF f, always
  <1>6. ToSet(items') = {f[d] : d \in Pending} /\ InOrder(R)'
    BY <1>3, <1>4, <1>5, HeapChange
  <1>7. ToSet(items') = (ToSet(items) \ S) \union {QP!Moved(e, 1) : e \in S}
    BY <1>3, <1>6 DEF Pending
  <1>8. S \in SUBSET {e \in ToSet(items) : e.type = t}
    BY DEF Pending
  <1>. QED BY <1>1, <1>6, <1>7, <1>8 DEF QP!Stretch

LEMMA HeapStretchFails ==
    ASSUME NEW R, Orders(R), HeapInv(R), NEW t \in StretchedTypes, StretchFails(t)
    PROVE  QP!StretchFails(t) /\ InOrder(R)'
  <1>1. PICK k \in DOMAIN items : \E S \in SUBSET {items[i] : i \in 1 .. k - 1} :
           /\ items[k].type = t /\ ~items[k].paused /\ items[k].cycle = CycleLimit
           /\ \A e \in S : e.type = t /\ (~e.paused => e.cycle < CycleLimit)
           /\ items' = [i \in DOMAIN items |-> Delayed(S, 1)[items[i]]]
           /\ unordered' = (unordered \/ S # {})
           /\ disturbed' = (disturbed \/ \E e \in S : e.paused /\ e.remaining = CycleLimit)
           /\ stop_reason' = "queue_error"
           /\ UNCHANGED <<sequence, device_cycles, target, advancing, gated, generation>>
    BY DEF StretchFails
  <1>2. PICK S \in SUBSET {items[i] : i \in 1 .. k - 1} :
           /\ items[k].type = t /\ ~items[k].paused /\ items[k].cycle = CycleLimit
           /\ \A e \in S : e.type = t /\ (~e.paused => e.cycle < CycleLimit)
           /\ items' = [i \in DOMAIN items |-> Delayed(S, 1)[items[i]]]
           /\ unordered' = (unordered \/ S # {})
           /\ disturbed' = (disturbed \/ \E e \in S : e.paused /\ e.remaining = CycleLimit)
           /\ stop_reason' = "queue_error"
           /\ UNCHANGED <<sequence, device_cycles, target, advancing, gated, generation>>
    BY <1>1
  <1>3. PICK n \in Nat : Holds(items, n, Scheduled, Pending, OrderOf(R, unordered))
    BY DEF HeapInv, InOrder
  <1>4. /\ DOMAIN items = 1 .. n /\ k \in 1 .. n
        /\ \A i, j \in 1 .. n : items[i].sequence = items[j].sequence => i = j
        /\ \A i \in 1 .. n : items[i] \in Pending
    BY <1>3, ArrayDomain DEF Holds, Distinct, ToSet
  <1>5. S \in SUBSET Pending /\ items[k] \in Pending \ S
    <2>1. \A i \in 1 .. k - 1 : i \in 1 .. n /\ i # k
      BY <1>4
    <2>2. \A i \in 1 .. k - 1 : items[i] \in Pending /\ items[i] # items[k]
      BY <1>4, <2>1
    <2>. QED BY <1>4, <2>2
  <1>6. 1 \in -MaxShift .. MaxShift
    BY EventHeapAssumption
  <1>. DEFINE f == Delayed(S, 1)
              g == [i \in DOMAIN items |-> f[items[i]]]
  <1>7. /\ \A d \in Pending : f[d] \in QP!Proper /\ QP!SameEvent(f[d], d)
        /\ {f[d] : d \in Pending} = (Pending \ S) \union {QP!Moved(e, 1) : e \in S}
    BY <1>5, <1>6, HeapDelayed
  <1>8. \A d \in Pending : f[d] \in Scheduled /\ f[d].sequence = d.sequence
    BY <1>7, FreshSequence, StaysScheduled DEF QP!SameEvent
  <1>9. S = {} => g = items
    <2>1. S = {} => \A d \in Pending : f[d] = d
      BY DEF Delayed
    <2>2. items = [i \in DOMAIN items |-> items[i]]
      BY <1>3 DEF Holds, Array
    <2>. HIDE DEF f
    <2>. QED BY <1>4, <2>1, <2>2
  <1>. HIDE DEF f
  <1>10. g \in Array(n, Scheduled) /\ ToSet(g) = {f[d] : d \in Pending} /\ Distinct(g)
    BY <1>3, <1>8, ImageArray
  <1>11. items' = g
    BY <1>2 DEF f
  <1>. HIDE DEF g
  <1>12. Holds(items', n, Scheduled, {f[d] : d \in Pending}, OrderOf(R, unordered'))
    <2>1. CASE S = {}
      <3>1. unordered' <=> unordered
        BY <1>2, <2>1
      <3>2. ToSet(g) = Pending /\ g = items
        BY <1>3, <1>9, <2>1 DEF Holds
      <3>3. OrderOf(R, unordered') = OrderOf(R, unordered)
        BY <3>1 DEF OrderOf
      <3>. QED BY <1>3, <1>10, <1>11, <3>2, <3>3
    <2>2. CASE S # {}
      <3>1. Holds(g, n, Scheduled, {f[d] : d \in Pending}, Scheduled \X Scheduled)
        BY <1>10, AnyOrder
      <3>. QED BY <1>2, <1>11, <2>2, <3>1 DEF OrderOf
    <2>. QED BY <2>1, <2>2
  <1>13. ToSet(items') = {f[d] : d \in Pending} /\ InOrder(R)'
    BY <1>12, LeftInOrder
  <1>14. ToSet(items') = (ToSet(items) \ S) \union {QP!Moved(e, 1) : e \in S}
    BY <1>7, <1>13 DEF Pending
  <1>15. S \in SUBSET {e \in ToSet(items) : e.type = t}
    BY <1>2, <1>5 DEF Pending
  <1>16. \E e \in ToSet(items) \ S : e.type = t /\ ~e.paused /\ e.cycle = CycleLimit
    BY <1>2, <1>5 DEF Pending
  <1>. QED BY <1>2, <1>13, <1>14, <1>15, <1>16 DEF QP!StretchFails

LEMMA HeapShift ==
    ASSUME NEW R, Orders(R), HeapInv(R), NEW t \in ShiftedTypes, Shift(t)
    PROVE  QP!Shift(t) /\ InOrder(R)'
  <1>. DEFINE S == {e \in Pending : e.type = t}
  <1>1. PICK n \in -MaxShift .. MaxShift :
           /\ S # {}
           /\ n < 0 => \E sample \in S : sample.cycle + n > device_cycles
           /\ items' = Update(items, Delayed(S, n), TRUE)
           /\ unordered' = FALSE
           /\ disturbed' = (disturbed \/ \E e \in S : e.cycle + n \notin device_cycles .. CycleLimit)
           /\ UNCHANGED <<sequence, device_cycles, target, advancing, gated, generation,
                          stop_reason>>
    BY DEF Shift
  <1>. DEFINE f == Delayed(S, n)
              always == TRUE
  <1>2. S \in SUBSET Pending /\ S = {e \in ToSet(items) : e.type = t}
    BY DEF Pending
  <1>3. /\ items' = Update(items, f, always)
        /\ unordered' \/ ~unordered \/ always \/ \E d \in Pending : f[d] # d
    BY <1>1
  <1>. HIDE DEF S
  <1>4. /\ \A d \in Pending : f[d] \in QP!Proper /\ QP!SameEvent(f[d], d)
        /\ {f[d] : d \in Pending} = (Pending \ S) \union {QP!Moved(e, n) : e \in S}
    BY <1>2, HeapDelayed
  <1>. HIDE DEF f, always
  <1>5. ToSet(items') = {f[d] : d \in Pending} /\ InOrder(R)'
    BY <1>3, <1>4, HeapChange
  <1>6. ToSet(items') = (ToSet(items) \ S) \union {QP!Moved(e, n) : e \in S}
    BY <1>4, <1>5 DEF Pending
  <1>. QED BY <1>1, <1>2, <1>5, <1>6 DEF QP!Shift
-----------------------------------------------------------------------------
\* What is retained and reordered is in order, whatever the array was.
LEMMA HeapRetain ==
    ASSUME NEW R, Orders(R), NEW n \in Nat, NEW F, NEW Q, NEW h, Holds(h, n, Scheduled, F, Q),
           NEW K
    PROVE  \E m \in Nat : Holds(dspic33_reorder_events(Retain(h, K)), m, Scheduled,
                                F \intersect K, R)
  BY RetainHolds DEF Holds, Orders

LEMMA HeapDiscard == ASSUME NEW R, Orders(R), HeapInv(R), DiscardEvents
                     PROVE  QP!DiscardEvents /\ InOrder(R)'
  <1>1. PICK t \in Types \ ClockTypes : \E s \in QP!Sources(t) :
          items' = dspic33_reorder_events(Retain(items,
                      {e \in Pending : e.external \/ e.type # t
                                         \/ e.source % DmaCount # s % DmaCount}))
    BY SameEvents DEF DiscardEvents
  <1>0. PICK s \in QP!Sources(t) :
          items' = dspic33_reorder_events(Retain(items,
                      {e \in Pending : e.external \/ e.type # t
                                         \/ e.source % DmaCount # s % DmaCount}))
    BY <1>1
  <1>. DEFINE K == {e \in Pending : e.external \/ e.type # t
                                      \/ e.source % DmaCount # s % DmaCount}
  <1>2. PICK n \in Nat : Holds(items, n, Scheduled, Pending, OrderOf(R, unordered))
    BY DEF HeapInv, InOrder
  <1>3. Pending \intersect K = K
    OBVIOUS
  <1>. HIDE DEF K
  <1>4. items' = dspic33_reorder_events(Retain(items, K)) /\ ~unordered'
    BY <1>0 DEF K, DiscardEvents
  <1>5. PICK m \in Nat : Holds(items', m, Scheduled, K, R)
    BY <1>2, <1>3, <1>4, HeapRetain
  <1>6. ToSet(items') = K /\ InOrder(R)'
    BY <1>4, <1>5, LeftInOrder DEF OrderOf
  <1>. QED BY <1>6 DEF DiscardEvents, QP!DiscardEvents, K, Pending

\* Taking out nothing leaves the array as it is, and what is taken out without
\* reordering leaves an array of the others.
LEMMA RetainAll ==
    ASSUME NEW n \in Nat, NEW E, NEW h \in Array(n, E), NEW K, \A i \in 1 .. n : h[i] \in K
    PROVE  Retain(h, K) = h
  <1>. DEFINE f == CHOOSE g : g = [m \in 0 .. Len(h) |-> Kept(h, K, g, m)]
              Good(m) == /\ f[m] \in Seq(E) /\ Len(f[m]) = m
                         /\ \A i \in 1 .. m : f[m][i] = h[i]
              S == {m \in Nat : m <= n => Good(m)}
  <1>1. Len(h) = n /\ h = [i \in 1 .. n |-> h[i]] /\ \A i \in 1 .. n : h[i] \in E
    BY ArrayLength, ArrayDomain DEF Array
  <1>2. f = [m \in 0 .. Len(h) |-> Kept(h, K, f, m)]
    <2>1. \E g : g = [m \in 0 .. Len(h) |-> Kept(h, K, g, m)]
      BY <1>1, RetainDefined
    <2>. QED BY <2>1, Zenon
  <1>3. Retain(h, K) = f[n]
    BY <1>1 DEF Retain, Kept
  <1>. HIDE DEF f
  <1>4. \A m \in 0 .. n : f[m] = Kept(h, K, f, m)
    BY <1>1, <1>2
  <1>5. 0 \in S
    <2>1. f[0] = << >>
      BY <1>4 DEF Kept
    <2>2. << >> \in Seq(E) /\ Len(<< >>) = 0
      BY EmptySeq
    <2>3. f[0] \in Seq(E) /\ Len(f[0]) = 0 /\ \A i \in 1 .. 0 : f[0][i] = h[i]
      BY <2>1, <2>2
    <2>. QED BY <2>3
  <1>6. ASSUME NEW m \in Nat, m \in S PROVE m + 1 \in S
    <2>. SUFFICES ASSUME m + 1 <= n PROVE Good(m + 1)
      OBVIOUS
    <2>. DEFINE k == m + 1
    <2>1. Good(m) /\ k \in 0 .. n /\ k \in 1 .. n /\ k # 0 /\ k - 1 = m
      BY <1>6
    <2>2. f[k] = Append(f[m], h[k]) /\ h[k] \in E
      BY <1>1, <1>4, <2>1 DEF Kept
    <2>3. \A i \in 1 .. k : i = k \/ i \in 1 .. m
      OBVIOUS
    <2>. HIDE DEF k
    <2>4. /\ f[k] \in Seq(E) /\ Len(f[k]) = m + 1
          /\ \A i \in 1 .. m : f[k][i] = f[m][i]
          /\ f[k][m + 1] = h[k]
      BY <2>1, <2>2, AppendProperties
    <2>. QED BY <2>1, <2>3, <2>4 DEF k
  <1>7. Good(n)
    <2>. HIDE DEF S
    <2>1. n \in S
      BY <1>5, <1>6, StepByStep
    <2>. QED BY <2>1 DEF S
  <1>8. h \in Seq(E)
    BY ArrayLength
  <1>. QED BY <1>1, <1>3, <1>7, <1>8, SeqEqual

LEMMA HeapCancel == ASSUME NEW R, Orders(R), HeapInv(R), CancelEvents
                    PROVE  QP!CancelEvents /\ InOrder(R)'
  <1>1. PICK t \in CancelledTypes :
          LET kept == Retain(items, {e \in Pending : e.type # t})
          IN  /\ items' = IF t \in UnorderedTypes THEN kept ELSE dspic33_reorder_events(kept)
              /\ unordered' = (t \in UnorderedTypes /\ (unordered \/ ToSet(items') # Pending))
    BY DEF CancelEvents
  <1>. DEFINE K == {e \in Pending : e.type # t}
              kept == Retain(items, K)
  <1>2. PICK n \in Nat : Holds(items, n, Scheduled, Pending, OrderOf(R, unordered))
    BY DEF HeapInv, InOrder
  <1>3. Pending \intersect K = K
    OBVIOUS
  <1>. HIDE DEF K
  <1>4. CASE t \in UnorderedTypes
    <2>1. items' = kept /\ unordered' = (unordered \/ ToSet(items') # Pending)
      BY <1>1, <1>4 DEF K
    <2>2. /\ kept \in Seq(Scheduled)
          /\ ToSet(kept) = K
          /\ Distinct(kept)
      <3>1. items \in Array(n, Scheduled) /\ ToSet(items) = Pending /\ Distinct(items)
        BY <1>2 DEF Holds
      <3>2. /\ kept \in Seq(Scheduled)
            /\ ToSet(kept) = ToSet(items) \intersect K
            /\ Distinct(kept)
        BY <3>1, RetainArray
      <3> QED BY <1>3, <3>1, <3>2
    <2>. HIDE DEF kept
    <2>. DEFINE m == Len(kept)
    <2>3. m \in Nat /\ kept \in Array(m, Scheduled)
      BY <2>2, SequenceArray
    <2>. HIDE DEF m
    <2>4. Holds(kept, m, Scheduled, K, Scheduled \X Scheduled)
      BY <2>2, <2>3, AnyOrder
    <2>5. CASE unordered'
      <3>1. Holds(items', m, Scheduled, K, OrderOf(R, unordered'))
        BY <2>1, <2>4, <2>5 DEF OrderOf
      <3>2. ToSet(items') = K /\ InOrder(R)'
        BY <2>3, <3>1, LeftInOrder
      <3>. QED BY <1>4, <2>1, <3>2 DEF CancelEvents, QP!CancelEvents, K, Pending
    <2>6. CASE ~unordered'
      <3>1. ~unordered /\ ToSet(items') = Pending
        BY <2>1, <2>6
      <3>2. K = Pending
        BY <2>1, <2>2, <3>1
      <3>3. kept = items
        <4>1. items \in Array(n, Scheduled) /\ \A i \in 1 .. n : items[i] \in K
          BY <1>2, <3>2, ArrayDomain DEF Holds, ToSet
        <4>. QED BY <4>1, RetainAll DEF kept
      <3>4. Holds(items', n, Scheduled, K, OrderOf(R, unordered'))
        BY <1>2, <2>1, <2>6, <3>1, <3>2, <3>3 DEF OrderOf
      <3>5. ToSet(items') = K /\ InOrder(R)'
        BY <3>4, LeftInOrder
      <3>. QED BY <1>4, <2>1, <3>5 DEF CancelEvents, QP!CancelEvents, K, Pending
    <2>. QED BY <2>5, <2>6
  <1>5. CASE t \notin UnorderedTypes
    <2>1. items' = dspic33_reorder_events(Retain(items, K)) /\ ~unordered'
      BY <1>1, <1>5 DEF K
    <2>2. PICK m \in Nat : Holds(items', m, Scheduled, K, R)
      BY <1>2, <1>3, <2>1, HeapRetain
    <2>3. ToSet(items') = K /\ InOrder(R)'
      BY <2>1, <2>2, LeftInOrder DEF OrderOf
    <2>4. unordered' = FALSE
      BY <1>1, <1>5
    <2>. QED BY <1>5, <2>3, <2>4 DEF CancelEvents, QP!CancelEvents, K, Pending
  <1>. QED BY <1>4, <1>5
-----------------------------------------------------------------------------
\* The lock of a clock under way, if there is one, joins what is left.
LEMMA HeapRequeue ==
    ASSUME NEW R, Orders(R), HeapInv(R), NEW n \in Nat, NEW F,
           NEW h, Holds(h, n, Scheduled, F, R), NEW t,
           \A c \in QP!LocksUnderWay : c.type = t =>
              \A d \in F : d.sequence # QP!Requeued(c).sequence
    PROVE  \E m \in Nat : Holds(Requeue(h, t), m, Scheduled,
                F \union {QP!Requeued(c) : c \in {l \in QP!LocksUnderWay : l.type = t}}, R)
  <1>. DEFINE locks == {l \in QP!LocksUnderWay : l.type = t}
  <1>1. Requeue(h, t) = IF locks = {} THEN h ELSE push(h, QP!Requeued(CHOOSE c \in locks : TRUE))
    BY SameLocks, SameResets DEF Requeue
  <1>2. CASE locks = {}
    <2>1. F \union {QP!Requeued(c) : c \in locks} = F
      BY <1>2
    <2>. QED BY <1>1, <1>2, <2>1
  <1>3. CASE locks # {}
    <2>. DEFINE l == CHOOSE c \in locks : TRUE
    <2>1. l \in locks
      BY <1>3
    <2>. HIDE DEF l
    <2>2. locks = {l}
      BY <2>1 DEF HeapInv, QP!IInv, QP!OneLockPerClock
    <2>3. QP!Requeued(l) \in Scheduled
      <3>1. QP!Requeued(l) \in QP!Proper
        BY <2>1, QueueConstants, DmaCountAssumption, QP!RequeuedProper DEF HeapInv, QP!IInv
      <3>2. l \in QP!Event /\ l \in Scheduled
        BY <2>1, FreshSequence DEF QP!LocksUnderWay, Pending
      <3>3. QP!Requeued(l).type = l.type /\ QP!Requeued(l).source = l.source
        BY <3>2 DEF QP!Requeued, QP!Event
      <3>. QED BY <3>1, <3>2, <3>3, StaysScheduled
    <2>4. Holds(push(h, QP!Requeued(l)), n + 1, Scheduled, F \union {QP!Requeued(l)}, R)
      BY <2>1, <2>3, PushHolds DEF Orders
    <2>5. Requeue(h, t) = push(h, QP!Requeued(l))
      BY <1>1, <1>3 DEF l
    <2>6. F \union {QP!Requeued(c) : c \in locks} = F \union {QP!Requeued(l)}
      BY <2>2
    <2>7. n + 1 \in Nat
      OBVIOUS
    <2>. HIDE DEF locks
    <2>8. \E m \in Nat : Holds(Requeue(h, t), m, Scheduled,
                              F \union {QP!Requeued(c) : c \in locks}, R)
      BY <2>4, <2>5, <2>6, <2>7
    <2>. QED BY <2>8 DEF locks
  <1>. QED BY <1>2, <1>3

\* The queue a warm reset leaves, before a brown-out drops the oscillator's.
RequeuedLocks == {QP!Requeued(c) : c \in QP!LocksUnderWay}

HostEvents == {e \in Pending : e.external}

LEMMA LocksRenumbered ==
    ASSUME NEW R, Orders(R), HeapInv(R)
    PROVE  /\ \A c \in QP!LocksUnderWay :
                /\ c.type \in {"AUX_PLL", "OSCILLATOR"}
                /\ QP!Requeued(c) \in QP!Proper
                /\ QP!Requeued(c).type = c.type
                /\ \A d \in Pending : d.sequence # QP!Requeued(c).sequence
           /\ \A c, d \in QP!LocksUnderWay :
                c.type # d.type => QP!Requeued(c).sequence # QP!Requeued(d).sequence
  <1>. QP!IInv /\ QP!QueueInv
    BY DEF HeapInv, QP!IInv
  <1>1. \A c \in QP!LocksUnderWay : c.type \in {"AUX_PLL", "OSCILLATOR"}
    BY EventHeapAssumption DEF QP!LocksUnderWay, QP!CurrentClock
  <1>2. \A c \in QP!LocksUnderWay : /\ QP!Requeued(c) \in QP!Proper
                                    /\ QP!Requeued(c).type = c.type
                                    /\ QP!Requeued(c).sequence = sequence + QP!RequeuePosition(c)
    BY QueueConstants, DmaCountAssumption, QP!RequeuedProper
  <1>3. /\ \A c \in QP!LocksUnderWay : QP!RequeuePosition(c) \in Nat
        /\ \A c, d \in QP!LocksUnderWay : QP!RequeuePosition(c) = QP!RequeuePosition(d) => c = d
    BY QueueConstants, DmaCountAssumption, QP!RequeueNumbers
  <1>4. sequence \in Nat /\ \A d \in Pending : d.sequence \in Nat /\ d.sequence < sequence
    BY FreshSequence DEF QP!Event
  <1>5. ASSUME NEW c \in QP!LocksUnderWay, NEW d \in Pending
        PROVE  d.sequence # QP!Requeued(c).sequence
    BY <1>2, <1>3, <1>4
  <1>6. ASSUME NEW c \in QP!LocksUnderWay, NEW d \in QP!LocksUnderWay, c.type # d.type
        PROVE  QP!Requeued(c).sequence # QP!Requeued(d).sequence
    <2>1. QP!RequeuePosition(c) # QP!RequeuePosition(d)
      BY <1>3, <1>6
    <2>. QED BY <1>2, <1>3, <1>4, <2>1
  <1>. QED BY <1>1, <1>2, <1>5, <1>6

LEMMA HeapWarm ==
    ASSUME NEW R, Orders(R), HeapInv(R)
    PROVE  \E m \in Nat : Holds(AfterWarmReset, m, Scheduled, HostEvents \union RequeuedLocks, R)
  <1>. DEFINE Of(t) == {QP!Requeued(c) : c \in {l \in QP!LocksUnderWay : l.type = t}}
              h == dspic33_reorder_events(Retain(items, HostEvents))
              g == Requeue(h, "AUX_PLL")
  <1>1. PICK n \in Nat : Holds(items, n, Scheduled, Pending, OrderOf(R, unordered))
    BY DEF HeapInv, InOrder
  <1>2. Pending \intersect HostEvents = HostEvents
    BY DEF HostEvents
  <1>3. PICK k \in Nat : Holds(h, k, Scheduled, HostEvents, R)
    BY <1>1, <1>2, HeapRetain
  <1>. HIDE DEF h
  <1>4. PICK l \in Nat : Holds(g, l, Scheduled, HostEvents \union Of("AUX_PLL"), R)
    <2>1. \A c \in QP!LocksUnderWay : \A d \in HostEvents : d.sequence # QP!Requeued(c).sequence
      BY LocksRenumbered DEF HostEvents
    <2>. QED BY <1>3, <2>1, HeapRequeue
  <1>. HIDE DEF g
  <1>5. PICK m \in Nat : Holds(Requeue(g, "OSCILLATOR"), m, Scheduled,
                     HostEvents \union Of("AUX_PLL") \union Of("OSCILLATOR"), R)
    <2>1. ASSUME NEW c \in QP!LocksUnderWay, c.type = "OSCILLATOR",
                 NEW d \in HostEvents \union Of("AUX_PLL")
          PROVE  d.sequence # QP!Requeued(c).sequence
      <3>1. CASE d \in HostEvents
        BY <3>1, LocksRenumbered DEF HostEvents
      <3>2. CASE d \in Of("AUX_PLL")
        <4>1. PICK b \in QP!LocksUnderWay : b.type = "AUX_PLL" /\ d = QP!Requeued(b)
          BY <3>2
        <4>. QED BY <2>1, <4>1, LocksRenumbered
      <3>. QED BY <2>1, <3>1, <3>2
    <2>. HIDE DEF Of
    <2>2. \E m \in Nat : Holds(Requeue(g, "OSCILLATOR"), m, Scheduled,
            HostEvents \union Of("AUX_PLL")
              \union {QP!Requeued(c) : c \in {x \in QP!LocksUnderWay : x.type = "OSCILLATOR"}},
            R)
      BY <1>4, <2>1, HeapRequeue
    <2>. QED BY <2>2 DEF Of
  <1>6. Of("AUX_PLL") \union Of("OSCILLATOR") = RequeuedLocks
    BY LocksRenumbered DEF RequeuedLocks
  <1>7. AfterWarmReset = Requeue(g, "OSCILLATOR")
    BY DEF AfterWarmReset, g, h, HostEvents
  <1>. HIDE DEF Of
  <1>8. HostEvents \union Of("AUX_PLL") \union Of("OSCILLATOR") = HostEvents \union RequeuedLocks
    BY <1>6
  <1>. QED BY <1>5, <1>7, <1>8

LEMMA HeapReset == ASSUME NEW R, Orders(R), HeapInv(R)
                   PROVE  /\ WarmReset => QP!WarmReset /\ InOrder(R)'
                          /\ BrownOutReset => QP!BrownOutReset /\ InOrder(R)'
  <1>1. PICK n \in Nat : Holds(AfterWarmReset, n, Scheduled, HostEvents \union RequeuedLocks, R)
    BY HeapWarm
  <1>2. Restarted => /\ sequence + QP!Cardinality(QP!LocksUnderWay) <= MaxSequence
                     /\ sequence' = QP!SequenceAfterReset
                     /\ gated' = gated \intersect HostGatedTypes
                     /\ stop_reason' = "running"
                     /\ unordered' = FALSE
                     /\ UNCHANGED <<device_cycles, target, advancing, disturbed>>
    BY SameLocks, SameCardinality, SameResets DEF Restarted
  <1>3. ASSUME WarmReset PROVE QP!WarmReset /\ InOrder(R)'
    <2>1. items' = AfterWarmReset /\ Restarted /\ UNCHANGED generation
      BY <1>3 DEF WarmReset
    <2>2. Holds(items', n, Scheduled, HostEvents \union RequeuedLocks, R)
      BY <1>1, <2>1
    <2>3. ToSet(items') = HostEvents \union RequeuedLocks /\ InOrder(R)'
      BY <1>2, <2>1, <2>2, LeftInOrder DEF OrderOf
    <2>. QED BY <1>2, <2>1, <2>3 DEF QP!WarmReset, HostEvents, RequeuedLocks, Pending
  <1>4. ASSUME BrownOutReset PROVE QP!BrownOutReset /\ InOrder(R)'
    <2>. DEFINE K == {e \in ToSet(AfterWarmReset) : e.type # "OSCILLATOR"}
                G == HostEvents \union
                        {QP!Requeued(c) : c \in {l \in QP!LocksUnderWay : l.type # "OSCILLATOR"}}
    <2>1. /\ items' = dspic33_reorder_events(Retain(AfterWarmReset, K))
          /\ Restarted
          /\ generation' = [t \in ClockTypes |-> IF t = "OSCILLATOR" THEN 0 ELSE generation[t]]
      BY <1>4 DEF BrownOutReset
    <2>2. \A e \in HostEvents : e.type # "OSCILLATOR"
      BY EventHeapAssumption
         DEF HostEvents, Pending, HeapInv, QP!IInv, QP!ClockEvents, QP!QueueInv, QP!TypeOK, QP!Event
    <2>3. (HostEvents \union RequeuedLocks) \intersect K = G
      <3>1. ToSet(AfterWarmReset) = HostEvents \union RequeuedLocks
        BY <1>1 DEF Holds
      <3>. QED BY <2>2, <3>1, LocksRenumbered DEF RequeuedLocks
    <2>. HIDE DEF K
    <2>4. PICK m \in Nat : Holds(items', m, Scheduled, G, R)
      <3>1. \E m \in Nat : Holds(dspic33_reorder_events(Retain(AfterWarmReset, K)), m, Scheduled,
                  (HostEvents \union RequeuedLocks) \intersect K, R)
        BY <1>1, HeapRetain
      <3>. QED BY <2>1, <2>3, <3>1
    <2>. HIDE DEF G
    <2>5. ToSet(items') = G /\ InOrder(R)'
      BY <1>2, <2>1, <2>4, LeftInOrder DEF OrderOf
    <2>. QED BY <1>2, <2>1, <2>5 DEF QP!BrownOutReset, G, HostEvents, Pending
  <1>. QED BY <1>3, <1>4
-----------------------------------------------------------------------------
\* Every operation on the array is one of the queue, and leaves the array in order.
LEMMA HeapStep == ASSUME NEW R, Orders(R), HeapInv(R), [Next]_vars
                  PROVE  [QP!Next]_(QP!vars) /\ InOrder(R)'
  <1>1. CASE ScheduleInternal
    <2>1. PICK t \in Types \ ClockTypes : \E s \in QP!Sources(t), d \in 0 .. CycleLimit :
                                             schedule_event(t, s, d, FALSE)
      BY <1>1, SameEvents DEF ScheduleInternal
    <2>2. PICK s \in QP!Sources(t), d \in 0 .. CycleLimit : schedule_event(t, s, d, FALSE)
      BY <2>1
    <2>3. QP!schedule_event(t, s, d, FALSE) /\ InOrder(R)'
      BY <2>2, HeapSchedule
    <2>4. QP!ScheduleInternal
      BY <2>3 DEF QP!ScheduleInternal
    <2>. QED BY <2>3, <2>4 DEF QP!Next
  <1>2. CASE ScheduleExternal
    <2>1. PICK t \in HostTypes : \E s \in QP!Sources(t), d \in 0 .. CycleLimit :
                                    schedule_event(t, s, d, TRUE)
      BY <1>2, SameEvents DEF ScheduleExternal
    <2>2. PICK s \in QP!Sources(t), d \in 0 .. CycleLimit : schedule_event(t, s, d, TRUE)
      BY <2>1
    <2>3. t \in Types
      BY EventHeapAssumption
    <2>4. QP!schedule_event(t, s, d, TRUE) /\ InOrder(R)'
      BY <2>2, <2>3, HeapSchedule
    <2>5. QP!ScheduleExternal
      BY <2>4 DEF QP!ScheduleExternal
    <2>. QED BY <2>4, <2>5 DEF QP!Next
  <1>3. CASE ClockChanged
    BY <1>3, HeapClocks DEF QP!Next
  <1>4. CASE BeginAdvance \/ AdvanceClock \/ EndAdvance \/ AbortAdvance \/ RunAgain
    BY <1>4, HeapAdvance DEF QP!Next
  <1>5. CASE DispatchEvent
    BY <1>5, HeapDispatch DEF QP!Next
  <1>6. CASE PowerStateChanged
    BY <1>6, HeapGate, HeapUngate DEF PowerStateChanged, QP!PowerStateChanged, QP!Next
  <1>7. CASE DiscardEvents \/ CancelEvents
    BY <1>7, HeapDiscard, HeapCancel DEF QP!Next
  <1>8. CASE Retimed
    BY <1>8, HeapStretch, HeapStretchFails, HeapShift DEF Retimed, QP!Retimed, QP!Next
  <1>9. CASE WarmReset \/ BrownOutReset
    BY <1>9, HeapReset DEF QP!Next
  <1>10. CASE UNCHANGED vars
    BY <1>10, HeapIdle DEF vars, QP!vars
  <1>. QED BY <1>1, <1>2, <1>3, <1>4, <1>5, <1>6, <1>7, <1>8, <1>9, <1>10 DEF Next

LEMMA HeapInit == ASSUME NEW R, Init PROVE QP!Init /\ InOrder(R)
  <1>1. items = << >> /\ ~unordered /\ QP!Init
    BY SameQueue DEF Init, Queue!Init
  <1>2. Pending = {}
    BY <1>1 DEF Pending, ToSet
  <1>3. items \in Array(0, Scheduled) /\ DOMAIN items = {}
    BY <1>1 DEF Array
  <1>4. Holds(items, 0, Scheduled, Pending, OrderOf(R, unordered))
    BY <1>1, <1>2, <1>3 DEF Holds, Distinct, Heap, HeapFrom, Pending
  <1>. QED BY <1>1, <1>4 DEF InOrder

LEMMA HeapInductive == ASSUME NEW R, Orders(R)
                       PROVE  /\ Init => HeapInv(R)
                              /\ HeapInv(R) /\ [Next]_vars => HeapInv(R)'
  <1>1. Init => HeapInv(R)
    BY HeapInit, QueueConstants, DmaCountAssumption, QP!IInvInit DEF HeapInv
  <1>2. HeapInv(R) /\ [Next]_vars => HeapInv(R)'
    <2>1. HeapInv(R) /\ [Next]_vars => QP!IInv'
      BY HeapStep, QueueConstants, DmaCountAssumption, QP!IInvNext DEF HeapInv
    <2>. QED BY <2>1, HeapStep DEF HeapInv
  <1>. QED BY <1>1, <1>2

\* The inductive invariant: what the queue promises of the events, and that the array
\* they are in holds each of them once and, unless it is unordered, is a heap by the
\* part of the comparison that is always an order.
THEOREM HeapOrdered == Spec => []HeapInv(NotLater)
  <1>1. Orders(NotLater)
    BY NotLaterKept DEF Orders
  <1>2. /\ Init => HeapInv(NotLater)
        /\ HeapInv(NotLater) /\ [Next]_vars => HeapInv(NotLater)'
    BY <1>1, HeapInductive
  <1>. QED BY <1>2, PTL DEF Spec

\* No pending event is due before the one at the head of the array, whatever was
\* scheduled, gated, re-timed, discarded and reset before, unless the last operation
\* to change the array was one that does not restore it (usb_cancel_events, or an I2C
\* stretch that fails half-way): the loop of the advance, which looks at no other,
\* neither passes one nor waits for one.
THEOREM HeadIsEarliest == Spec => []HeadEarliest
  <1>1. Orders(NotLater)
    BY NotLaterKept DEF Orders
  <1>2. HeapInv(NotLater) => HeadEarliest
    BY <1>1, RootEarliest DEF HeadEarliest
  <1>. QED BY <1>2, HeapOrdered, PTL

\* A device that schedules none of the kinds whose operations leave the array as it
\* is, those of USB and I2C, never has an unordered one.
THEOREM OrderKeptWithout ==
    ASSUME UnorderedTypes = {}, StretchedTypes = {}
    PROVE  Spec => [](~unordered /\ \A e \in Pending : ~Earlier(e, Head(items)))
  <1>1. Init => ~unordered
    BY DEF Init, Queue!Init
  <1>2. ~unordered /\ [Next]_vars => ~unordered'
    <2>. SUFFICES ASSUME ~unordered, [Next]_vars PROVE ~unordered'
      OBVIOUS
    <2>1. CASE ScheduleInternal \/ ScheduleExternal \/ ClockChanged
      BY <2>1 DEF ScheduleInternal, ScheduleExternal, schedule_event, ClockChanged,
         ReconfigureClock, ContinueClock, ScheduleLock
    <2>2. CASE BeginAdvance \/ AdvanceClock \/ DispatchEvent \/ EndAdvance \/ AbortAdvance
                 \/ RunAgain
      BY <2>2 DEF BeginAdvance, Queue!BeginAdvance, AdvanceClock, DispatchEvent, EndAdvance,
         AbortAdvance, Queue!AbortAdvance, RunAgain, Queue!RunAgain
    <2>3. CASE PowerStateChanged
      BY <2>3 DEF PowerStateChanged, Gate, Ungate
    <2>4. CASE DiscardEvents \/ CancelEvents
      BY <2>4 DEF DiscardEvents, CancelEvents
    <2>5. CASE Retimed
      BY <2>5 DEF Retimed, Shift
    <2>6. CASE WarmReset \/ BrownOutReset
      BY <2>6 DEF WarmReset, BrownOutReset, Restarted
    <2>7. CASE UNCHANGED vars
      BY <2>7 DEF vars
    <2>. QED BY <2>1, <2>2, <2>3, <2>4, <2>5, <2>6, <2>7 DEF Next
  <1>3. ~unordered /\ HeadEarliest => \A e \in Pending : ~Earlier(e, Head(items))
    BY DEF HeadEarliest
  <1>. QED BY <1>1, <1>2, <1>3, HeadIsEarliest, PTL DEF Spec

\* Each operation on the array does to the events in it what EventQueue.tla says of
\* the set of them, so what is proved of the queue holds of the heap.
THEOREM HeapImplementsQueue == Spec => ImplementsEventQueue
  <1>1. Orders(NotLater)
    BY NotLaterKept DEF Orders
  <1>2. Init => Queue!Init
    BY HeapInit, SameQueue
  <1>3. HeapInv(NotLater) /\ [Next]_vars => [Queue!Next]_(Queue!vars)
    BY <1>1, HeapStep, SameQueue
  <1>. QED BY <1>2, <1>3, HeapOrdered, PTL DEF Spec, ImplementsEventQueue, Queue!Spec
-----------------------------------------------------------------------------
\* While every event is a DMA event, or none is, the comparison is an order.
Unmixed == Types = {"DMA"} \/ "DMA" \notin Types

LEMMA NotAfterKept == ASSUME Unmixed PROVE Orders(NotAfter)
  <1>1. ASSUME NEW a \in Scheduled, NEW b \in Scheduled
        PROVE  /\ IF event_less(a, b) THEN ~event_less(b, a) ELSE ~event_less(a, b)
               /\ ~event_less(b, a) => ~Earlier(b, a)
    <2>1. /\ a.cycle \in Int /\ a.sequence \in Int /\ a.source \in Int
          /\ b.cycle \in Int /\ b.sequence \in Int /\ b.source \in Int
          /\ Channel(a) \in Int /\ Channel(b) \in Int
      BY DmaCountAssumption, ScheduledFields DEF Channel
    <2>. QED BY <2>1 DEF event_less, Earlier, SameSlot, Arbitrated, DmaBefore
  <1>2. ASSUME NEW a \in Scheduled, NEW b \in Scheduled, NEW c \in Scheduled,
               ~event_less(b, a), ~event_less(c, b)
        PROVE  ~event_less(c, a)
    <2>0. ASSUME NEW e \in Scheduled
          PROVE  /\ e.cycle \in Int /\ e.sequence \in Int /\ e.source \in Int
                 /\ e.paused \in BOOLEAN /\ e.type \in Types
                 /\ e.source \in QP!Sources(e.type)
      BY ScheduledFields DEF QP!Event
    <2>4. /\ a.cycle \in Int /\ a.sequence \in Int /\ a.source \in Int
          /\ a.paused \in BOOLEAN /\ a.type \in Types /\ a.source \in QP!Sources(a.type)
          /\ b.cycle \in Int /\ b.sequence \in Int /\ b.source \in Int
          /\ b.paused \in BOOLEAN /\ b.type \in Types /\ b.source \in QP!Sources(b.type)
          /\ c.cycle \in Int /\ c.sequence \in Int /\ c.source \in Int
          /\ c.paused \in BOOLEAN /\ c.type \in Types /\ c.source \in QP!Sources(c.type)
      BY <2>0
    <2>1. CASE "DMA" \notin Types
      BY <1>2, <2>4, <2>1 DEF event_less, Earlier, SameSlot, Arbitrated, IsDma
    <2>2. CASE Types = {"DMA"}
      <3>1. /\ IsDma(a) /\ a.source \in 0 .. 2 * DmaCount - 1
            /\ IsDma(b) /\ b.source \in 0 .. 2 * DmaCount - 1
            /\ IsDma(c) /\ c.source \in 0 .. 2 * DmaCount - 1
        BY <2>4, <2>2 DEF IsDma, QP!Sources
      <3>. DEFINE Rank(e) == IF IsCompletion(e) THEN e.source - DmaCount ELSE e.source + DmaCount
      <3>2. ASSUME NEW x \in Scheduled, NEW y \in Scheduled,
                   IsDma(x), x.source \in 0 .. 2 * DmaCount - 1,
                   IsDma(y), y.source \in 0 .. 2 * DmaCount - 1
            PROVE  event_less(x, y) <=>
                     \/ Earlier(x, y)
                     \/ SameSlot(x, y) /\ Rank(x) < Rank(y)
                     \/ SameSlot(x, y) /\ Rank(x) = Rank(y) /\ x.sequence < y.sequence
        <4>1. DmaCount \in Nat /\ DmaCount > 0
          BY DmaCountAssumption
        <4>2. /\ Channel(x) = IF IsCompletion(x) THEN x.source - DmaCount ELSE x.source
              /\ Channel(y) = IF IsCompletion(y) THEN y.source - DmaCount ELSE y.source
          BY <3>2, <4>1 DEF Channel, IsCompletion
        <4>3. Arbitrated(x, y) <=> x.source # y.source
          BY <3>2 DEF Arbitrated
        <4>4. x.source # y.source => (DmaBefore(x, y) <=> Rank(x) < Rank(y))
          BY <3>2, <4>1, <4>2 DEF DmaBefore, IsCompletion
        <4>5. Rank(x) = Rank(y) <=> x.source = y.source
          BY <3>2, <4>1 DEF IsCompletion
        <4>6. Rank(x) \in Int /\ Rank(y) \in Int
          BY <3>2, <4>1
        <4>. QED BY <4>3, <4>4, <4>5, <4>6 DEF event_less
      <3>3. Rank(a) \in Int /\ Rank(b) \in Int /\ Rank(c) \in Int
        BY <3>1, DmaCountAssumption
      <3>. HIDE DEF Rank
      <3>. QED BY <1>2, <2>4, <3>1, <3>2, <3>3 DEF Earlier, SameSlot
    <2>. QED BY <2>1, <2>2 DEF Unmixed
  <1>3. \A a, b \in Scheduled : <<a, b>> \in NotAfter <=> ~event_less(b, a)
    BY DEF NotAfter
  <1>4. Keeps(NotAfter, Scheduled)
    BY <1>1, <1>2, <1>3 DEF Keeps
  <1>5. NotAfter \subseteq NotLater
    BY <1>1 DEF NotAfter, NotLater
  <1>. QED BY <1>4, <1>5 DEF Orders

\* While DMA events and others do not meet in the queue, no pending event is to be
\* dispatched before the one that is: of one cycle the channels go by completion and
\* number, other events in the order they were scheduled.  Only an array that was left
\* unordered may tell otherwise.
THEOREM UnmixedInOrder ==
    ASSUME Unmixed
    PROVE  Spec => [][DispatchEvent /\ ~unordered
                         => \A e \in Pending : ~event_less(e, Head(items))]_vars
  <1>1. Orders(NotAfter)
    BY NotAfterKept
  <1>2. HeapInv(NotAfter) /\ ~unordered => \A e \in Pending : ~event_less(e, Head(items))
    <2>. SUFFICES ASSUME HeapInv(NotAfter), ~unordered, NEW e \in Pending PROVE ~event_less(e, Head(items))
      OBVIOUS
    <2>1. <<Head(items), e>> \in NotAfter
      BY <1>1, RootEarliest
    <2>. QED BY <2>1 DEF NotAfter
  <1>3. /\ Init => HeapInv(NotAfter)
        /\ HeapInv(NotAfter) /\ [Next]_vars => HeapInv(NotAfter)'
    BY <1>1, HeapInductive
  <1>. QED BY <1>2, <1>3, PTL DEF Spec
=============================================================================
