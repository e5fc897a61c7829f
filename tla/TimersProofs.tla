---------------------------- MODULE TimersProofs ----------------------------
(***************************************************************************)
(* The timers of Timers.tla, for all widths, prescalers, ratios and        *)
(* settings: their types, that a module disable has its event, and that a  *)
(* step of the advance loop, however long, is the manual's count of cycles *)
(* one by one.                                                             *)
(*                                                                         *)
(* The last is about the closed formulas of advance_counter: one more tick *)
(* in the formula is one tick of the manual (AdvanceTick, MatchTick), from *)
(* which Cycles, a recursive function, equals the formula by induction     *)
(* over its horizon (CyclesAre).  As the induction theorems of the library *)
(* take an operator, the induction is stated about the set of the numbers  *)
(* a claim holds of (StepByStep).                                          *)
(***************************************************************************)
EXTENDS Timers, WellFoundedInduction, FiniteSetTheorems, TLAPS
-----------------------------------------------------------------------------
(***************************************************************************)
(* Induction and division.                                                 *)
(***************************************************************************)
Below == {p \in Nat \X Nat : p[1] < p[2]}

LEMMA LeastNumber == ASSUME NEW T \in SUBSET Nat, T # {}
                     PROVE  \E n \in T : \A m \in T : n <= m
  <1>1. IsWellFoundedOn(Below, Nat)
    BY NatLessThanWellFounded DEF OpToRel, Below
  <1>2. PICK n \in T : \A m \in T : <<m, n>> \notin Below
    <2>. HIDE DEF Below
    <2>. QED BY <1>1, WFMin
  <1>3. ASSUME NEW m \in T PROVE n <= m
    <2>1. m \in Nat /\ n \in Nat /\ ~ m < n
      BY <1>2 DEF Below
    <2>. QED BY <2>1
  <1>. QED BY <1>3

\* Induction, with the claim as the set of the numbers it holds of.
LEMMA StepByStep ==
    ASSUME NEW S, 0 \in S, \A n \in Nat : n \in S => n + 1 \in S
    PROVE  \A n \in Nat : n \in S
  <1>. SUFFICES ASSUME Nat \ S # {} PROVE FALSE
    OBVIOUS
  <1>1. PICK n \in Nat \ S : \A m \in Nat \ S : n <= m
    BY LeastNumber
  <1>2. n - 1 \in Nat /\ n = (n - 1) + 1 /\ ~ n <= n - 1
    BY <1>1
  <1>. QED BY <1>1, <1>2

LEMMA Monotonic == ASSUME NEW a \in Int, NEW b \in Int, NEW L \in Nat, a <= b
                   PROVE  L * a <= L * b
  OBVIOUS

LEMMA DivisionUnique ==
    ASSUME NEW L \in Nat \ {0}, NEW q \in Int, NEW d \in Int,
           NEW i \in 0 .. L - 1, NEW r \in 0 .. L - 1, L * q + i = L * d + r
    PROVE  q = d /\ i = r
  <1>1. ~(q < d)
    <2>1. SUFFICES ASSUME q + 1 <= d PROVE FALSE
      OBVIOUS
    <2>2. L * (q + 1) <= L * d /\ L * (q + 1) = L * q + L
      BY <2>1, Monotonic
    <2>. QED BY <2>2
  <1>2. ~(d < q)
    <2>1. SUFFICES ASSUME d + 1 <= q PROVE FALSE
      OBVIOUS
    <2>2. L * (d + 1) <= L * q /\ L * (d + 1) = L * d + L
      BY <2>1, Monotonic
    <2>. QED BY <2>2
  <1>3. q = d
    BY <1>1, <1>2
  <1>. QED BY <1>3

LEMMA Divided == ASSUME NEW m \in Nat, NEW L \in Nat \ {0}
                 PROVE  /\ m \div L \in Nat /\ m % L \in 0 .. L - 1
                        /\ m = L * (m \div L) + (m % L)
  OBVIOUS

LEMMA Division ==
    ASSUME NEW L \in Nat \ {0}, NEW q \in Nat, NEW i \in 0 .. L - 1,
           NEW m \in Nat, m = L * q + i
    PROVE  m \div L = q /\ m % L = i
  <1>. DEFINE d == m \div L
              r == m % L
  <1>1. d \in Nat /\ r \in 0 .. L - 1 /\ L * q + i = L * d + r
    BY Divided
  <1>. HIDE DEF d, r
  <1>2. q = d /\ i = r
    BY <1>1, DivisionUnique
  <1>. QED BY <1>2 DEF d, r

\* One more, and a number within the first or the second round.
LEMMA DivisionStep ==
    ASSUME NEW L \in Nat \ {0}, NEW m \in Nat
    PROVE  IF m % L = L - 1 THEN (m + 1) \div L = (m \div L) + 1 /\ (m + 1) % L = 0
           ELSE (m + 1) \div L = m \div L /\ (m + 1) % L = (m % L) + 1
  <1>. DEFINE d == m \div L
              r == m % L
  <1>1. d \in Nat /\ r \in 0 .. L - 1 /\ m = L * d + r
    BY Divided
  <1>. HIDE DEF d, r
  <1>2. CASE r = L - 1
    <2>. DEFINE q == d + 1
    <2>1. m + 1 = L * q + 0 /\ q \in Nat /\ 0 \in 0 .. L - 1 /\ m + 1 \in Nat
      BY <1>1, <1>2
    <2>. HIDE DEF q
    <2>2. (m + 1) \div L = q /\ (m + 1) % L = 0
      BY <2>1, Division
    <2>. QED BY <1>2, <2>2 DEF d, r, q
  <1>3. CASE r # L - 1
    <2>1. m + 1 = L * d + (r + 1) /\ r + 1 \in 0 .. L - 1 /\ m + 1 \in Nat
      BY <1>1, <1>3
    <2>2. (m + 1) \div L = d /\ (m + 1) % L = r + 1
      BY <1>1, <2>1, Division
    <2>. QED BY <1>3, <2>2 DEF d, r
  <1>. QED BY <1>2, <1>3

LEMMA FirstRounds ==
    ASSUME NEW L \in Nat \ {0}, NEW i \in 0 .. L - 1
    PROVE  /\ i \div L = 0 /\ i % L = i
           /\ (L + i) \div L = 1 /\ (L + i) % L = i
  <1>1. i = L * 0 + i /\ L + i = L * 1 + i /\ i \in Nat /\ L + i \in Nat
    OBVIOUS
  <1>. QED BY <1>1, Division
-----------------------------------------------------------------------------
(***************************************************************************)
(* What advance_counter does at once is what so many ticks do, for a       *)
(* counter at value v of maximum M with period p.                          *)
(***************************************************************************)
Ranges(v, p, M) == M \in Nat /\ v \in 0 .. M /\ p \in 0 .. M

LEMMA MatchRange == ASSUME NEW v, NEW p, NEW M, Ranges(v, p, M)
                    PROVE  FirstMatch(v, p, M) \in 1 .. M + 1 /\ FirstReset(v, p, M) \in 1 .. M + 2
  <1>1. v = p \/ v < p \/ v > p
    BY DEF Ranges
  <1>. QED BY <1>1 DEF Ranges, FirstMatch, FirstReset

\* Up to the first match the counter counts, over its maximum if it began above.
LEMMA BeforeReset ==
    ASSUME NEW v, NEW p, NEW M, Ranges(v, p, M), NEW n \in Nat, n < FirstReset(v, p, M)
    PROVE  /\ AdvanceCounter(v, p, M, n) = IF v + n <= M THEN v + n ELSE v + n - (M + 1)
           /\ v # p => v + n <= M + 1 + p
           /\ v = p => n = 0
  <1>1. /\ v \in Nat /\ p \in Nat /\ M \in Nat /\ v <= M /\ p <= M /\ M + 1 \in Nat \ {0}
        /\ v = p \/ v < p \/ v > p
    BY DEF Ranges
  <1>2. v + n <= 2 * M + 1 /\ (v # p => v + n <= M + 1 + p) /\ (v = p => n = 0)
    BY <1>1 DEF FirstMatch, FirstReset
  <1>3. AdvanceCounter(v, p, M, n) = (v + n) % (M + 1)
    BY DEF AdvanceCounter
  <1>4. CASE v + n <= M
    <2>1. v + n \in 0 .. (M + 1) - 1
      BY <1>1, <1>4
    <2>2. (v + n) % (M + 1) = v + n
      BY <1>1, <2>1, FirstRounds
    <2>. QED BY <1>2, <1>3, <1>4, <2>2
  <1>5. CASE ~(v + n <= M)
    <2>. DEFINE i == v + n - (M + 1)
    <2>1. i \in 0 .. (M + 1) - 1 /\ v + n = (M + 1) + i
      BY <1>1, <1>2, <1>5
    <2>. HIDE DEF i
    <2>2. (v + n) % (M + 1) = i
      BY <1>1, <2>1, FirstRounds
    <2>. QED BY <1>2, <1>3, <1>5, <2>2 DEF i
  <1>. QED BY <1>4, <1>5

LEMMA AfterReset ==
    ASSUME NEW v, NEW p, NEW M, NEW n, ~(n < FirstReset(v, p, M))
    PROVE  AdvanceCounter(v, p, M, n) = (n - FirstReset(v, p, M)) % (p + 1)
  BY DEF AdvanceCounter

LEMMA CounterRange ==
    ASSUME NEW v, NEW p, NEW M, Ranges(v, p, M), NEW n \in Nat
    PROVE  AdvanceCounter(v, p, M, n) \in 0 .. M
  <1>1. M + 1 \in Nat \ {0} /\ p + 1 \in Nat \ {0} /\ p <= M /\ {v, p, M} \subseteq Nat
    BY DEF Ranges
  <1>2. CASE n < FirstReset(v, p, M)
    <2>1. v + n \in Nat /\ AdvanceCounter(v, p, M, n) = (v + n) % (M + 1)
      BY <1>1, <1>2 DEF AdvanceCounter
    <2>2. (v + n) % (M + 1) \in 0 .. (M + 1) - 1
      BY <1>1, <2>1, Divided
    <2>. QED BY <1>1, <2>1, <2>2
  <1>3. CASE ~(n < FirstReset(v, p, M))
    <2>1. n - FirstReset(v, p, M) \in Nat
          /\ AdvanceCounter(v, p, M, n) = (n - FirstReset(v, p, M)) % (p + 1)
      BY <1>3, MatchRange DEF AdvanceCounter
    <2>2. (n - FirstReset(v, p, M)) % (p + 1) \in 0 .. (p + 1) - 1
      BY <1>1, <2>1, Divided
    <2>. QED BY <1>1, <2>1, <2>2
  <1>. QED BY <1>2, <1>3

\* No tick leaves the counter where it is, and one more is a tick of the manual.
LEMMA AdvanceNone == ASSUME NEW v, NEW p, NEW M, Ranges(v, p, M)
                     PROVE  AdvanceCounter(v, p, M, 0) = v /\ Matches(v, p, M, 0) = 0
  <1>1. 0 < FirstReset(v, p, M) /\ 0 < FirstMatch(v, p, M) /\ v <= M /\ v + 0 = v
    BY MatchRange DEF Ranges
  <1>. QED BY <1>1, BeforeReset DEF Matches

LEMMA AdvanceTick ==
    ASSUME NEW v, NEW p, NEW M, Ranges(v, p, M), NEW n \in Nat
    PROVE  AdvanceCounter(v, p, M, n + 1) = Tick(AdvanceCounter(v, p, M, n), p, M)
  <1>. DEFINE FR == FirstReset(v, p, M)
              now == AdvanceCounter(v, p, M, n)
              next == AdvanceCounter(v, p, M, n + 1)
  <1>1. /\ v \in Nat /\ p \in Nat /\ M \in Nat /\ v <= M /\ p <= M
        /\ M + 1 \in Nat \ {0} /\ p + 1 \in Nat \ {0} /\ FR \in Nat /\ FR >= 1
        /\ now \in 0 .. M
    <2>1. FR \in 1 .. M + 2 /\ now \in 0 .. M
      BY MatchRange, CounterRange
    <2>. HIDE DEF FR, now
    <2>. QED BY <2>1 DEF Ranges
  <1>2. \A a \in 0 .. M : Tick(a, p, M) = IF a = p \/ a = M THEN 0 ELSE a + 1
    <2>. TAKE a \in 0 .. M
    <2>1. a = M => (a + 1) % (M + 1) = 0
      <3>1. 0 \in 0 .. (M + 1) - 1 /\ (M + 1) + 0 = M + 1
        BY <1>1
      <3>. QED BY <1>1, <3>1, FirstRounds
    <2>2. a # M => a + 1 \in 0 .. (M + 1) - 1
      BY <1>1
    <2>3. a # M => (a + 1) % (M + 1) = a + 1
      BY <1>1, <2>2, FirstRounds
    <2>. QED BY <2>1, <2>3 DEF Tick
  <1>3. CASE n + 1 < FR
    <2>1. n < FR /\ n + 1 \in Nat
      BY <1>1, <1>3
    <2>2. /\ now = IF v + n <= M THEN v + n ELSE v + n - (M + 1)
          /\ next = IF v + (n + 1) <= M THEN v + (n + 1) ELSE v + (n + 1) - (M + 1)
          /\ v # p => v + (n + 1) <= M + 1 + p
          /\ v # p
      BY <1>3, <2>1, BeforeReset
    <2>3. v < p => v + (n + 1) <= p
      BY <1>1, <1>3 DEF FirstReset, FirstMatch
    <2>. HIDE DEF FR, now, next
    <2>4. next = IF now = p \/ now = M THEN 0 ELSE now + 1
      BY <1>1, <2>2, <2>3
    <2>. QED BY <1>1, <1>2, <2>4 DEF now, next
  <1>4. CASE n + 1 = FR
    <2>1. now = p
      <3>1. n < FR
        BY <1>1, <1>4
      <3>2. /\ now = IF v + n <= M THEN v + n ELSE v + n - (M + 1)
            /\ v = p => n = 0
        BY <3>1, BeforeReset
      <3>3. v = p \/ (v < p /\ n = p - v) \/ (v > p /\ n = M - v + 1 + p)
        BY <1>1, <1>4 DEF FirstReset, FirstMatch
      <3>. HIDE DEF FR, now, next
      <3>. QED BY <1>1, <3>2, <3>3
    <2>2. next = 0
      <3>1. ~(n + 1 < FR) /\ (n + 1) - FR = 0 /\ 0 \in 0 .. (p + 1) - 1
        BY <1>1, <1>4
      <3>2. next = 0 % (p + 1)
        BY <3>1 DEF AdvanceCounter
      <3>. QED BY <1>1, <3>1, <3>2, FirstRounds
    <2>. QED BY <1>1, <1>2, <2>1, <2>2
  <1>5. CASE n + 1 > FR
    <2>. DEFINE m == n - FR
    <2>1. m \in Nat /\ ~(n < FR) /\ ~(n + 1 < FR) /\ (n + 1) - FR = m + 1
      BY <1>1, <1>5
    <2>2. now = m % (p + 1) /\ next = (m + 1) % (p + 1)
      BY <2>1 DEF AdvanceCounter
    <2>. HIDE DEF m, FR, now, next
    <2>3. IF m % (p + 1) = (p + 1) - 1 THEN (m + 1) % (p + 1) = 0
          ELSE (m + 1) % (p + 1) = (m % (p + 1)) + 1
      BY <1>1, <2>1, DivisionStep
    <2>4. m % (p + 1) \in 0 .. (p + 1) - 1
      BY <1>1, <2>1, Divided
    <2>5. next = IF now = p \/ now = M THEN 0 ELSE now + 1
      BY <1>1, <2>2, <2>3, <2>4
    <2>. QED BY <1>1, <1>2, <2>5 DEF now, next
  <1>. QED BY <1>1, <1>3, <1>4, <1>5

LEMMA MatchTick ==
    ASSUME NEW v, NEW p, NEW M, Ranges(v, p, M), NEW n \in Nat
    PROVE  Matches(v, p, M, n + 1) = Matches(v, p, M, n)
                                     + IF AdvanceCounter(v, p, M, n + 1) = p THEN 1 ELSE 0
  <1>. DEFINE FM == FirstMatch(v, p, M)
              FR == FirstReset(v, p, M)
              next == AdvanceCounter(v, p, M, n + 1)
  <1>1. /\ v \in Nat /\ p \in Nat /\ M \in Nat /\ v <= M /\ p <= M
        /\ M + 1 \in Nat \ {0} /\ p + 1 \in Nat \ {0}
        /\ FM \in Nat /\ FM >= 1 /\ FR \in Nat /\ FR >= 1
        /\ n + 1 \in Nat
    BY MatchRange DEF Ranges
  <1>2. v = p => FM = p + 1 /\ FR = 1
    BY DEF Ranges, FirstMatch, FirstReset
  <1>3. v # p => FR = FM + 1
    BY DEF FirstReset
  <1>4. \A m \in Nat : Matches(v, p, M, m) = IF m < FM THEN 0 ELSE 1 + (m - FM) \div (p + 1)
    BY DEF Matches
  <1>5. CASE n + 1 < FM
    <2>1. next # p
      <3>1. CASE v = p
        <4>1. ~(n + 1 < FR) /\ (n + 1) - FR = n /\ n < p
          BY <1>1, <1>2, <1>5, <3>1
        <4>2. next = n % (p + 1) /\ n \in 0 .. (p + 1) - 1
          BY <1>1, <4>1 DEF AdvanceCounter
        <4>3. next = n
          BY <1>1, <4>2, FirstRounds
        <4>. QED BY <4>1, <4>3
      <3>2. CASE v # p
        <4>1. n + 1 < FR
          BY <1>1, <1>3, <1>5, <3>2
        <4>2. next = IF v + (n + 1) <= M THEN v + (n + 1) ELSE v + (n + 1) - (M + 1)
          BY <1>1, <4>1, BeforeReset
        <4>3. (v < p /\ n + 1 < p - v) \/ (v > p /\ n + 1 < M - v + 1 + p)
          BY <1>1, <1>5, <3>2 DEF FirstMatch
        <4>. HIDE DEF FM, FR, next
        <4>. QED BY <1>1, <4>2, <4>3
      <3>. QED BY <3>1, <3>2
    <2>2. n < FM
      BY <1>1, <1>5
    <2>. HIDE DEF FM, FR, next
    <2>3. Matches(v, p, M, n + 1) = 0 /\ Matches(v, p, M, n) = 0
      BY <1>1, <1>4, <1>5, <2>2
    <2>. QED BY <2>1, <2>3 DEF next
  <1>6. CASE n + 1 = FM
    <2>1. next = p
      <3>1. CASE v = p
        <4>1. ~(n + 1 < FR) /\ (n + 1) - FR = n /\ n = p
          BY <1>1, <1>2, <1>6, <3>1
        <4>2. next = n % (p + 1) /\ n \in 0 .. (p + 1) - 1
          BY <1>1, <4>1 DEF AdvanceCounter
        <4>3. next = n
          BY <1>1, <4>2, FirstRounds
        <4>. QED BY <4>1, <4>3
      <3>2. CASE v # p
        <4>1. n + 1 < FR
          BY <1>1, <1>3, <1>6, <3>2
        <4>2. next = IF v + (n + 1) <= M THEN v + (n + 1) ELSE v + (n + 1) - (M + 1)
          BY <1>1, <4>1, BeforeReset
        <4>3. (v < p /\ n + 1 = p - v) \/ (v > p /\ n + 1 = M - v + 1 + p)
          BY <1>1, <1>6, <3>2 DEF FirstMatch
        <4>. HIDE DEF FM, FR, next
        <4>. QED BY <1>1, <4>2, <4>3
      <3>. QED BY <3>1, <3>2
    <2>. HIDE DEF FM, FR, next
    <2>2. n < FM /\ ~(n + 1 < FM) /\ (n + 1) - FM = 0 /\ 0 \in 0 .. (p + 1) - 1
      BY <1>1, <1>6
    <2>3. 0 \div (p + 1) = 0
      BY <1>1, <2>2, FirstRounds
    <2>4. Matches(v, p, M, n + 1) = 1 /\ Matches(v, p, M, n) = 0
      BY <1>1, <1>4, <2>2, <2>3
    <2>. QED BY <2>1, <2>4 DEF next
  <1>7. CASE n + 1 > FM
    <2>. DEFINE m == n - FM
    <2>1. m \in Nat /\ ~(n < FM) /\ ~(n + 1 < FM) /\ (n + 1) - FM = m + 1
      BY <1>1, <1>7
    <2>2. next = p <=> m % (p + 1) = (p + 1) - 1
      <3>1. CASE v # p
        <4>1. ~(n + 1 < FR) /\ (n + 1) - FR = m
          BY <1>1, <1>3, <2>1, <3>1
        <4>2. next = m % (p + 1)
          <5>1. next = ((n + 1) - FR) % (p + 1)
            <6>1. ~(n + 1 < FirstReset(v, p, M))
              BY <4>1
            <6>. QED BY <6>1, AfterReset
          <5>. QED BY <4>1, <5>1
        <4>. QED BY <1>1, <4>2
      <3>2. CASE v = p
        <4>1. ~(n + 1 < FR) /\ (n + 1) - FR = m + (p + 1)
          BY <1>1, <1>2, <2>1, <3>2
        <4>2. next = (m + (p + 1)) % (p + 1)
          <5>1. next = ((n + 1) - FR) % (p + 1)
            <6>1. ~(n + 1 < FirstReset(v, p, M))
              BY <4>1
            <6>. QED BY <6>1, AfterReset
          <5>. QED BY <4>1, <5>1
        <4>. DEFINE d == m \div (p + 1)
                    r == m % (p + 1)
        <4>. HIDE DEF m, FM, FR, next
        <4>3. d \in Nat /\ r \in 0 .. (p + 1) - 1 /\ m = (p + 1) * d + r
          BY <1>1, <2>1, Divided
        <4>. HIDE DEF d, r
        <4>. DEFINE q == d + 1
                    L == p + 1
                    w == m + L
        <4>4. /\ q \in Nat /\ w \in Nat /\ L \in Nat \ {0} /\ r \in 0 .. L - 1
              /\ w = L * q + r /\ next = w % L
          BY <1>1, <2>1, <4>2, <4>3
        <4>. HIDE DEF q, L, w
        <4>5. next = r
          BY <4>4, Division
        <4>. QED BY <1>1, <4>3, <4>5 DEF r
      <3>. QED BY <3>1, <3>2
    <2>. HIDE DEF m, FM, FR, next
    <2>3. IF m % (p + 1) = (p + 1) - 1 THEN (m + 1) \div (p + 1) = (m \div (p + 1)) + 1
          ELSE (m + 1) \div (p + 1) = m \div (p + 1)
      BY <1>1, <2>1, DivisionStep
    <2>4. m \div (p + 1) \in Nat
      BY <1>1, <2>1, Divided
    <2>5. Matches(v, p, M, n + 1) = 1 + (m + 1) \div (p + 1)
          /\ Matches(v, p, M, n) = 1 + m \div (p + 1)
      BY <1>1, <1>4, <2>1 DEF m
    <2>. QED BY <2>2, <2>3, <2>4, <2>5 DEF next
  <1>. QED BY <1>1, <1>5, <1>6, <1>7
-----------------------------------------------------------------------------
(***************************************************************************)
(* The timers.  Events and fields of any value t of them.                  *)
(***************************************************************************)
Event == [kind : {"interrupt"}, timer : Names, left : Nat]
         \union [kind : {"pmd"}, timer : Names, left : Nat, generation : Nat, disabled : BOOLEAN]

Fields == {"setting", "control", "pair", "counter", "period", "holding", "fraction", "started",
           "gate", "off", "disabled", "generation", "power", "left", "ratio", "events", "raised",
           "changes", "merged"}

\* Registers and prescalers are in range.
Counting(t) ==
    /\ DOMAIN t = Fields
    /\ t.setting \in Settings
    /\ t.control \in [Names -> Control] /\ t.pair \in BOOLEAN
    /\ t.counter \in [Names -> 0 .. t.setting.max]
    /\ t.period \in [Names -> 0 .. t.setting.max]
    /\ t.holding \in 0 .. t.setting.max
    /\ t.fraction \in [Names -> Nat]
    /\ \A x \in Names : t.fraction[x] < t.control[x].prescale

LEMMA SettingTyped ==
    ASSUME NEW t, Counting(t)
    PROVE  /\ t.setting.max \in Nat \ {0} /\ t.setting.ratio \in Nat \ {0}
           /\ t.setting.used \subseteq Names /\ t.setting.controls \subseteq Control
           /\ t.setting.changes \in Nat /\ Width(t) = t.setting.max + 1 /\ Width(t) \in Nat \ {0}
  BY TimersAssumption DEF Counting, Width

LEMMA PrescaleTyped ==
    ASSUME NEW t, Counting(t), NEW x \in Names
    PROVE  t.control[x].prescale \in Nat \ {0} /\ t.fraction[x] \in 0 .. t.control[x].prescale - 1
  BY DEF Counting, Control

\* A pair is a counter of twice the width.
LEMMA TimerRanges ==
    ASSUME NEW t, Counting(t), NEW x \in Names
    PROVE  Ranges(Value(t, x), Period(t, x), Maximum(t, x))
  <1>. DEFINE W == Width(t)
  <1>1. /\ W \in Nat \ {0} /\ W - 1 \in Nat
        /\ \A y \in Names : t.counter[y] \in 0 .. W - 1 /\ t.period[y] \in 0 .. W - 1
    BY SettingTyped DEF Counting
  <1>2. "c" \in Names
    BY DEF Names
  <1>. HIDE DEF W
  <1>3. ASSUME NEW low \in 0 .. W - 1, NEW high \in 0 .. W - 1
        PROVE  low + W * high \in 0 .. W * W - 1
    <2>1. W * high <= W * (W - 1) /\ W * (W - 1) = W * W - W /\ W * high \in Nat
      BY <1>1, Monotonic
    <2>. QED BY <1>1, <2>1
  <1>4. W * W - 1 \in Nat
    <2>1. 0 + W * 0 \in 0 .. W * W - 1
      BY <1>1, <1>3
    <2>. QED BY <1>1, <2>1
  <1>5. CASE PairEnabled(t, x)
    <2>1. /\ Value(t, x) = t.counter[x] + W * t.counter["c"]
          /\ Period(t, x) = t.period[x] + W * t.period["c"]
          /\ Maximum(t, x) = W * W - 1
      BY <1>5 DEF Value, Period, Maximum, W
    <2>. QED BY <1>1, <1>2, <1>3, <1>4, <2>1 DEF Ranges
  <1>6. CASE ~PairEnabled(t, x)
    <2>1. Value(t, x) = t.counter[x] + 0 /\ Period(t, x) = t.period[x] + 0 /\ Maximum(t, x) = W - 1
      BY <1>6 DEF Value, Period, Maximum, W
    <2>. QED BY <1>1, <2>1 DEF Ranges
  <1>. QED BY <1>5, <1>6

\* The ticks of the prescaler in so many cycles, and where they bring the counter.
Ticks(t, x, n) == (t.fraction[x] + n) \div t.control[x].prescale
Arrived(t, x, n) == AdvanceCounter(Value(t, x), Period(t, x), Maximum(t, x), Ticks(t, x, n))
Matched(t, x, n) == Matches(Value(t, x), Period(t, x), Maximum(t, x), Ticks(t, x, n))

LEMMA TicksTyped ==
    ASSUME NEW t, Counting(t), NEW x \in Names, NEW n \in Nat
    PROVE  /\ Ticks(t, x, n) \in Nat
           /\ (t.fraction[x] + n) % t.control[x].prescale \in 0 .. t.control[x].prescale - 1
           /\ Arrived(t, x, n) \in 0 .. Maximum(t, x)
  <1>1. t.fraction[x] + n \in Nat /\ t.control[x].prescale \in Nat \ {0}
    BY PrescaleTyped
  <1>2. /\ Ticks(t, x, n) \in Nat
        /\ (t.fraction[x] + n) % t.control[x].prescale \in 0 .. t.control[x].prescale - 1
    BY <1>1, Divided DEF Ticks
  <1>. QED BY <1>2, TimerRanges, CounterRange DEF Arrived

\* The counters that hold a value: the two halves of a pair.
Split(t, x, value) ==
    [y \in Names |-> CASE y = x -> value % Width(t)
                       [] y = "c" /\ PairEnabled(t, x) -> value \div Width(t)
                       [] OTHER -> t.counter[y]]

LEMMA SplitValue ==
    ASSUME NEW t, Counting(t), NEW x \in Names, NEW value \in 0 .. Maximum(t, x)
    PROVE  /\ Split(t, x, value) \in [Names -> 0 .. t.setting.max]
           /\ Split(t, x, value)[x] + (IF PairEnabled(t, x) THEN Width(t) * Split(t, x, value)["c"]
                                       ELSE 0) = value
  <1>. DEFINE W == Width(t)
  <1>1. /\ W \in Nat \ {0} /\ t.setting.max = W - 1 /\ t.counter \in [Names -> 0 .. W - 1]
        /\ "c" \in Names
    BY SettingTyped DEF Counting, Names
  <1>2. Maximum(t, x) = (IF PairEnabled(t, x) THEN W * W ELSE W) - 1
    BY DEF Maximum
  <1>3. /\ \A y \in Names : Split(t, x, value)[y] = CASE y = x -> value % W
                                [] y = "c" /\ PairEnabled(t, x) -> value \div W
                                [] OTHER -> t.counter[y]
        /\ DOMAIN Split(t, x, value) = Names
        /\ Split(t, x, value) = [y \in Names |-> Split(t, x, value)[y]]
    BY DEF Split
  <1>4. PairEnabled(t, x) => x # "c"
    BY DEF PairEnabled
  <1>. DEFINE s == Split(t, x, value)
  <1>. HIDE DEF W, s
  <1>5. value \in Nat
    BY <1>1, <1>2
  <1>6. value \div W \in Nat /\ value % W \in 0 .. W - 1 /\ value = W * (value \div W) + (value % W)
    BY <1>1, <1>5, Divided
  <1>7. CASE PairEnabled(t, x)
    <2>1. value \div W <= W - 1
      <3>. DEFINE q == value \div W
      <3>. SUFFICES ASSUME W <= q PROVE FALSE
        BY <1>1, <1>6
      <3>. HIDE DEF q
      <3>1. W * W <= W * q
        BY <1>1, <1>6, Monotonic DEF q
      <3>2. value <= W * W - 1 /\ W * q <= value /\ {W * W, W * q} \subseteq Int
        BY <1>1, <1>2, <1>5, <1>6, <1>7 DEF q
      <3>. QED BY <1>5, <3>1, <3>2
    <2>2. s[x] = value % W /\ s["c"] = value \div W
      BY <1>1, <1>3, <1>4, <1>7 DEF s
    <2>3. \A y \in Names : s[y] \in 0 .. W - 1
      <3>1. \A y \in Names : \/ s[y] = value % W \/ s[y] = value \div W
                             \/ s[y] = t.counter[y]
        BY <1>3 DEF s
      <3>2. value \div W \in 0 .. W - 1
        BY <1>1, <1>6, <2>1
      <3>. QED BY <1>1, <1>6, <3>1, <3>2
    <2>4. s \in [Names -> 0 .. W - 1]
      BY <1>3, <2>3 DEF s
    <2>5. s[x] + W * s["c"] = value
      BY <1>1, <1>6, <2>2
    <2>. QED BY <1>1, <1>7, <2>4, <2>5 DEF s, W
  <1>8. CASE ~PairEnabled(t, x)
    <2>1. value \in 0 .. W - 1
      BY <1>1, <1>2, <1>8
    <2>2. value % W = value
      BY <1>1, <2>1, FirstRounds
    <2>3. s[x] = value
      BY <1>3, <1>8, <2>2 DEF s
    <2>4. \A y \in Names : s[y] \in 0 .. W - 1
      BY <1>1, <1>3, <1>6, <1>8 DEF s
    <2>. QED BY <1>1, <1>3, <1>8, <2>1, <2>3, <2>4 DEF s
  <1>. QED BY <1>7, <1>8

\* No two matches of its own clock become one.
Apart(t, x, n) == t.control[x].external \/ Period(t, x) = 0 \/ ~(Matched(t, x, n) > 1)

Interrupt(t, x) == [kind |-> "interrupt", timer |-> SignalTimer(t, x), left |-> t.ratio]

\* What a clock leaves alone.
SameRegisters(u, t) ==
    /\ DOMAIN u = Fields
    /\ u.setting = t.setting /\ u.control = t.control /\ u.pair = t.pair
    /\ u.period = t.period /\ u.holding = t.holding /\ u.started = t.started /\ u.gate = t.gate
    /\ u.off = t.off /\ u.disabled = t.disabled /\ u.generation = t.generation
    /\ u.power = t.power /\ u.left = t.left /\ u.ratio = t.ratio
    /\ u.raised = t.raised /\ u.changes = t.changes

LEMMA ClockTimerIs ==
    ASSUME NEW t, Counting(t), NEW x \in Names, NEW n \in Nat
    PROVE  LET u == ClockTimer(t, x, n) IN
           /\ SameRegisters(u, t)
           /\ u.fraction = [t.fraction EXCEPT ![x] = (@ + n) % t.control[x].prescale]
           /\ u.counter = Split(t, x, Arrived(t, x, n))
           /\ u.events \in {t.events, t.events \union {Interrupt(t, x)}}
  <1>. DEFINE fraction == [t.fraction EXCEPT ![x] = (@ + n) % t.control[x].prescale]
              counter == Split(t, x, Arrived(t, x, n))
              merged == t.merged \/ (Matched(t, x, n) > 1 /\ ~t.control[x].external
                                      /\ Period(t, x) # 0)
              c == [t EXCEPT !.fraction = fraction, !.counter = counter, !.merged = merged]
              u == ClockTimer(t, x, n)
  <1>1. u = SignalPeriod(c, x, Matched(t, x, n))
    BY Zenon DEF ClockTimer, Arrived, Matched, Ticks, Split
  <1>2. DOMAIN t = Fields
    BY DEF Counting
  <1>. HIDE DEF fraction, counter, merged
  <1>3. SameRegisters(c, t)
    BY <1>2 DEF SameRegisters, Fields
  <1>4. c.fraction = fraction /\ c.counter = counter /\ c.events = t.events
    BY <1>2 DEF Fields
  <1>. HIDE DEF c
  <1>5. Interrupt(c, x) = Interrupt(t, x)
    BY <1>3 DEF Interrupt, SignalTimer, PairEnabled, SameRegisters
  <1>6. SameRegisters(u, t)
    BY <1>1, <1>3 DEF SignalPeriod, SameRegisters, Fields
  <1>7. /\ u.fraction = fraction /\ u.counter = counter
        /\ u.events \in {t.events, t.events \union {Interrupt(t, x)}}
    BY <1>1, <1>3, <1>4, <1>5 DEF SignalPeriod, SameRegisters, Interrupt, Fields
  <1>. HIDE DEF u
  <1>. QED BY <1>6, <1>7 DEF u, fraction, counter

LEMMA ClockApart ==
    ASSUME NEW t, Counting(t), NEW x \in Names, NEW n \in Nat, Apart(t, x, n), t.merged = FALSE
    PROVE  ClockTimer(t, x, n).merged = FALSE
  <1>. DEFINE fraction == [t.fraction EXCEPT ![x] = (@ + n) % t.control[x].prescale]
              counter == Split(t, x, Arrived(t, x, n))
              merged == t.merged \/ (Matched(t, x, n) > 1 /\ ~t.control[x].external
                                      /\ Period(t, x) # 0)
              c == [t EXCEPT !.fraction = fraction, !.counter = counter, !.merged = merged]
  <1>1. ClockTimer(t, x, n) = SignalPeriod(c, x, Matched(t, x, n))
    BY Zenon DEF ClockTimer, Arrived, Matched, Ticks, Split
  <1>2. merged = FALSE
    BY DEF Apart
  <1>. HIDE DEF fraction, counter, merged
  <1>3. c.merged = FALSE /\ "events" \in DOMAIN c /\ "merged" \in DOMAIN c
    BY <1>2 DEF Counting, Fields
  <1>. HIDE DEF c
  <1>. QED BY <1>1, <1>3 DEF SignalPeriod

LEMMA ClockCounting ==
    ASSUME NEW t, Counting(t), NEW x \in Names, NEW n \in Nat
    PROVE  Counting(ClockTimer(t, x, n)) /\ Value(ClockTimer(t, x, n), x) = Arrived(t, x, n)
  <1>. DEFINE u == ClockTimer(t, x, n)
  <1>1. /\ SameRegisters(u, t)
        /\ u.fraction = [t.fraction EXCEPT ![x] = (@ + n) % t.control[x].prescale]
        /\ u.counter = Split(t, x, Arrived(t, x, n))
    BY ClockTimerIs
  <1>. HIDE DEF u
  <1>2. /\ Split(t, x, Arrived(t, x, n)) \in [Names -> 0 .. t.setting.max]
        /\ Split(t, x, Arrived(t, x, n))[x]
             + (IF PairEnabled(t, x) THEN Width(t) * Split(t, x, Arrived(t, x, n))["c"] ELSE 0)
             = Arrived(t, x, n)
    <2>1. Arrived(t, x, n) \in 0 .. Maximum(t, x)
      BY TicksTyped
    <2>. QED BY <2>1, SplitValue
  <1>3. Value(u, x) = Arrived(t, x, n)
    <2>1. (PairEnabled(u, x) <=> PairEnabled(t, x)) /\ Width(u) = Width(t)
      BY <1>1 DEF PairEnabled, Width, SameRegisters
    <2>. QED BY <1>1, <1>2, <2>1 DEF Value
  <1>4. /\ (t.fraction[x] + n) % t.control[x].prescale \in Nat
        /\ (t.fraction[x] + n) % t.control[x].prescale < t.control[x].prescale
    BY TicksTyped, PrescaleTyped
  <1>5. u.fraction \in [Names -> Nat] /\ \A y \in Names : u.fraction[y] < u.control[y].prescale
    BY <1>1, <1>4 DEF Counting, SameRegisters
  <1>. QED BY <1>1, <1>2, <1>3, <1>5 DEF Counting, SameRegisters, u
-----------------------------------------------------------------------------
(***************************************************************************)
(* The count cycle by cycle of Cycles, in one go.                          *)
(***************************************************************************)
Counted(t, x, n) == [fraction |-> (t.fraction[x] + n) % t.control[x].prescale,
                     value |-> Arrived(t, x, n), matches |-> Matched(t, x, n)]

NextCycle(t, x, c) ==
    IF c.fraction + 1 < t.control[x].prescale THEN [c EXCEPT !.fraction = @ + 1]
    ELSE LET value == Tick(c.value, Period(t, x), Maximum(t, x))
         IN  [fraction |-> 0, value |-> value,
              matches |-> c.matches + IF value = Period(t, x) THEN 1 ELSE 0]

Start(t, x) == [fraction |-> t.fraction[x], value |-> Value(t, x), matches |-> 0]

Horizon(t, x) == 2 * t.control[x].prescale * (Maximum(t, x) + 2)

LEMMA CountedNone == ASSUME NEW t, Counting(t), NEW x \in Names
                     PROVE  Counted(t, x, 0) = Start(t, x)
  <1>. DEFINE f == t.fraction[x]
              L == t.control[x].prescale
  <1>1. L \in Nat \ {0} /\ f \in 0 .. L - 1 /\ f + 0 = f
    BY PrescaleTyped
  <1>. HIDE DEF f, L
  <1>2. f % L = f /\ f \div L = 0
    BY <1>1, FirstRounds
  <1>3. (t.fraction[x] + 0) % t.control[x].prescale = f /\ Ticks(t, x, 0) = 0
    BY <1>1, <1>2 DEF f, L, Ticks
  <1>4. Arrived(t, x, 0) = Value(t, x) /\ Matched(t, x, 0) = 0
    BY <1>3, TimerRanges, AdvanceNone DEF Arrived, Matched
  <1>. QED BY <1>3, <1>4 DEF Counted, Start, f

LEMMA CountedNext ==
    ASSUME NEW t, Counting(t), NEW x \in Names, NEW n \in Nat
    PROVE  NextCycle(t, x, Counted(t, x, n)) = Counted(t, x, n + 1)
  <1>. DEFINE L == t.control[x].prescale
              m == t.fraction[x] + n
              v == Value(t, x)
              p == Period(t, x)
              M == Maximum(t, x)
              c == Counted(t, x, n)
  <1>1. L \in Nat \ {0} /\ m \in Nat /\ t.fraction[x] + (n + 1) = m + 1 /\ Ranges(v, p, M)
    BY PrescaleTyped, TimerRanges
  <1>2. /\ Ticks(t, x, n) = m \div L /\ Ticks(t, x, n + 1) = (m + 1) \div L
        /\ c = [fraction |-> m % L, value |-> AdvanceCounter(v, p, M, m \div L),
                matches |-> Matches(v, p, M, m \div L)]
        /\ Counted(t, x, n + 1) =
             [fraction |-> (m + 1) % L, value |-> AdvanceCounter(v, p, M, (m + 1) \div L),
              matches |-> Matches(v, p, M, (m + 1) \div L)]
    BY <1>1 DEF Counted, Arrived, Matched, Ticks
  <1>3. NextCycle(t, x, c) =
           IF c.fraction + 1 < L THEN [c EXCEPT !.fraction = @ + 1]
           ELSE [fraction |-> 0, value |-> Tick(c.value, p, M),
                 matches |-> c.matches + IF Tick(c.value, p, M) = p THEN 1 ELSE 0]
    BY DEF NextCycle
  <1>. HIDE DEF L, m, v, p, M
  <1>4. m \div L \in Nat /\ m % L \in 0 .. L - 1
    BY <1>1, Divided
  <1>5. CASE m % L = L - 1
    <2>1. (m + 1) \div L = (m \div L) + 1 /\ (m + 1) % L = 0
      BY <1>1, <1>5, DivisionStep
    <2>2. /\ AdvanceCounter(v, p, M, (m \div L) + 1) = Tick(AdvanceCounter(v, p, M, m \div L), p, M)
          /\ Matches(v, p, M, (m \div L) + 1) = Matches(v, p, M, m \div L)
                + IF AdvanceCounter(v, p, M, (m \div L) + 1) = p THEN 1 ELSE 0
      BY <1>1, <1>4, AdvanceTick, MatchTick
    <2>3. ~(c.fraction + 1 < L)
      BY <1>1, <1>2, <1>4, <1>5
    <2>4. c.value = AdvanceCounter(v, p, M, m \div L) /\ c.matches = Matches(v, p, M, m \div L)
      BY <1>2
    <2>. HIDE DEF c
    <2>. QED BY <1>2, <1>3, <2>1, <2>2, <2>3, <2>4 DEF c
  <1>6. CASE m % L # L - 1
    <2>1. (m + 1) \div L = m \div L /\ (m + 1) % L = (m % L) + 1
      BY <1>1, <1>6, DivisionStep
    <2>2. c.fraction + 1 < L
      BY <1>1, <1>2, <1>4, <1>6
    <2>. QED BY <1>2, <1>3, <2>1, <2>2
  <1>. QED BY <1>5, <1>6 DEF c

LEMMA CyclesAre ==
    ASSUME NEW t, Counting(t), NEW x \in Names
    PROVE  Cycles(t, x) = [n \in 0 .. Horizon(t, x) |-> Counted(t, x, n)]
  <1>. DEFINE H == Horizon(t, x)
              g == [n \in 0 .. H |-> Counted(t, x, n)]
              Recurs(h) == h = [n \in 0 .. H |-> IF n = 0 THEN Start(t, x)
                                                 ELSE NextCycle(t, x, h[n - 1])]
              f == CHOOSE h : Recurs(h)
  <1>1. Cycles(t, x) = f
    BY DEF Cycles, Horizon, Start, NextCycle
  <1>2. H \in Int
    BY PrescaleTyped, TimerRanges DEF Horizon, Ranges
  <1>. HIDE DEF H
  <1>3. Recurs(g)
    <2>1. ASSUME NEW n \in 0 .. H
          PROVE  Counted(t, x, n) = IF n = 0 THEN Start(t, x) ELSE NextCycle(t, x, g[n - 1])
      <3>1. CASE n = 0
        BY <3>1, CountedNone
      <3>2. CASE n # 0
        <4>1. n - 1 \in 0 .. H /\ n - 1 \in Nat /\ n = (n - 1) + 1
          BY <1>2, <3>2
        <4>2. g[n - 1] = Counted(t, x, n - 1)
          BY <4>1
        <4>3. NextCycle(t, x, Counted(t, x, n - 1)) = Counted(t, x, (n - 1) + 1)
          BY <4>1, CountedNext
        <4>. QED BY <3>2, <4>1, <4>2, <4>3
      <3>. QED BY <3>1, <3>2
    <2>. QED BY <2>1
  <1>4. Recurs(f)
    <2>. HIDE DEF g, Recurs
    <2>. QED BY <1>3
  <1>5. /\ DOMAIN f = 0 .. H /\ f = [n \in 0 .. H |-> f[n]]
        /\ \A n \in 0 .. H : f[n] = IF n = 0 THEN Start(t, x) ELSE NextCycle(t, x, f[n - 1])
    <2>. HIDE DEF f
    <2>. QED BY <1>4
  <1>. HIDE DEF f, Recurs
  <1>. DEFINE S == {n \in Nat : n \in 0 .. H => f[n] = Counted(t, x, n)}
  <1>6. 0 \in S
    BY <1>5, CountedNone
  <1>7. ASSUME NEW n \in Nat, n \in S PROVE n + 1 \in S
    <2>. SUFFICES ASSUME n + 1 \in 0 .. H PROVE f[n + 1] = Counted(t, x, n + 1)
      OBVIOUS
    <2>1. n \in 0 .. H /\ n + 1 # 0 /\ (n + 1) - 1 = n
      BY <1>2
    <2>2. f[n + 1] = NextCycle(t, x, f[n]) /\ f[n] = Counted(t, x, n)
      BY <1>5, <1>7, <2>1
    <2>. QED BY <2>2, CountedNext
  <1>8. \A n \in Nat : n \in S
    <2>. HIDE DEF S
    <2>. QED BY <1>6, <1>7, StepByStep
  <1>9. \A n \in 0 .. H : f[n] = Counted(t, x, n)
    BY <1>8
  <1>. QED BY <1>1, <1>5, <1>9 DEF H

\* The first cycle with a match is the boundary of the timer.
LEMMA MatchAt ==
    ASSUME NEW t, Counting(t), NEW x \in Names, NEW n \in Nat
    PROVE  Matched(t, x, n) > 0 <=> n >= Boundary(t, x)
  <1>. DEFINE L == t.control[x].prescale
              f == t.fraction[x]
              T == Ticks(t, x, n)
              FM == TicksUntilPeriod(t, x)
              p == Period(t, x)
              r == (f + n) % L
  <1>1. L \in Nat \ {0} /\ f \in 0 .. L - 1 /\ f + n \in Nat
    BY PrescaleTyped
  <1>2. FM \in Nat /\ p \in Nat
    BY TimerRanges, MatchRange DEF TicksUntilPeriod, Ranges
  <1>3. T \in Nat /\ r \in 0 .. L - 1 /\ f + n = L * T + r
    BY <1>1, Divided DEF Ticks
  <1>4. Matched(t, x, n) = IF T < FM THEN 0 ELSE 1 + (T - FM) \div (p + 1)
    BY DEF Matched, Matches, TicksUntilPeriod
  <1>5. Boundary(t, x) = FM * L - f
    BY DEF Boundary
  <1>. HIDE DEF L, f, T, FM, p, r
  <1>6. Matched(t, x, n) > 0 <=> T >= FM
    <2>1. CASE T < FM
      BY <1>2, <1>3, <1>4, <2>1
    <2>2. CASE ~(T < FM)
      <3>1. T - FM \in Nat /\ p + 1 \in Nat \ {0}
        BY <1>2, <1>3, <2>2
      <3>2. (T - FM) \div (p + 1) \in Nat
        BY <3>1, Divided
      <3>. QED BY <1>2, <1>3, <1>4, <2>2, <3>2
    <2>. QED BY <2>1, <2>2
  <1>7. T >= FM => L * FM <= f + n
    BY <1>1, <1>2, <1>3, Monotonic
  <1>8. T < FM => f + n < L * FM
    <2>. SUFFICES ASSUME T < FM PROVE f + n < L * FM
      OBVIOUS
    <2>1. L * (T + 1) <= L * FM /\ L * (T + 1) = L * T + L
      BY <1>1, <1>2, <1>3, Monotonic
    <2>. QED BY <1>1, <1>2, <1>3, <2>1
  <1>9. FM * L = L * FM /\ L * FM \in Nat
    BY <1>1, <1>2
  <1>. QED BY <1>1, <1>2, <1>3, <1>5, <1>6, <1>7, <1>8, <1>9

LEMMA BoundaryTyped ==
    ASSUME NEW t, Counting(t), NEW x \in Names
    PROVE  Boundary(t, x) \in 1 .. Horizon(t, x)
  <1>. DEFINE L == t.control[x].prescale
              f == t.fraction[x]
              FM == TicksUntilPeriod(t, x)
              M == Maximum(t, x)
  <1>1. L \in Nat \ {0} /\ f \in 0 .. L - 1
    BY PrescaleTyped
  <1>2. FM \in 1 .. M + 1 /\ M \in Nat
    BY TimerRanges, MatchRange DEF TicksUntilPeriod, Ranges
  <1>3. Boundary(t, x) = FM * L - f /\ Horizon(t, x) = 2 * L * (M + 2)
    BY DEF Boundary, Horizon
  <1>. HIDE DEF L, f, FM, M
  <1>4. L * 1 <= L * FM /\ L * FM <= L * (M + 1) /\ L * (M + 1) <= L * (M + 2)
    BY <1>1, <1>2, Monotonic
  <1>5. /\ FM * L = L * FM /\ 2 * L * (M + 2) = 2 * (L * (M + 2)) /\ L * (M + 2) \in Nat
        /\ L * FM \in Nat
    BY <1>1, <1>2
  <1>. QED BY <1>1, <1>2, <1>3, <1>4, <1>5

LEMMA FirstBoundary ==
    ASSUME NEW t, Counting(t), NEW x \in Names
    PROVE  Boundary(t, x) = Min({n \in DOMAIN Cycles(t, x) : Cycles(t, x)[n].matches > 0})
  <1>. DEFINE S == {n \in DOMAIN Cycles(t, x) : Cycles(t, x)[n].matches > 0}
              b == Boundary(t, x)
  <1>1. b \in 1 .. Horizon(t, x)
    BY BoundaryTyped
  <1>2. S = {n \in 0 .. Horizon(t, x) : Matched(t, x, n) > 0}
    <2>. DEFINE C == Cycles(t, x)
    <2>1. C = [n \in 0 .. Horizon(t, x) |-> Counted(t, x, n)]
      BY CyclesAre
    <2>. HIDE DEF C
    <2>2. DOMAIN C = 0 .. Horizon(t, x) /\ \A n \in DOMAIN C : C[n].matches = Matched(t, x, n)
      BY <2>1 DEF Counted
    <2>. QED BY <2>2 DEF C
  <1>. HIDE DEF S, b
  <1>3. S = {n \in 0 .. Horizon(t, x) : n >= b}
    BY <1>2, MatchAt DEF b
  <1>4. b \in S /\ \A n \in S : b <= n /\ n \in Int
    BY <1>1, <1>3
  <1>5. \A y \in S : (\A z \in S : y <= z) => y = b
    BY <1>1, <1>4
  <1>6. Min(S) = b
    BY <1>4, <1>5 DEF Min
  <1>. QED BY <1>6 DEF S, b

\* What BoundariesKept says of one timer.
LEMMA CyclesCounted ==
    ASSUME NEW t, Counting(t), NEW x \in Names, NEW n \in DOMAIN Cycles(t, x) \ {0}
    PROVE  /\ Value(ClockTimer(t, x, n), x) = Cycles(t, x)[n].value
           /\ Matches(Value(t, x), Period(t, x), Maximum(t, x),
                      (t.fraction[x] + n) \div t.control[x].prescale) = Cycles(t, x)[n].matches
  <1>1. n \in 0 .. Horizon(t, x) /\ n \in Nat /\ Cycles(t, x)[n] = Counted(t, x, n)
    <2>. DEFINE C == Cycles(t, x)
    <2>1. C = [i \in 0 .. Horizon(t, x) |-> Counted(t, x, i)] /\ n \in DOMAIN C
      BY CyclesAre
    <2>. HIDE DEF C
    <2>. QED BY <2>1 DEF C
  <1>. QED BY <1>1, ClockCounting DEF Counted, Matched, Ticks
-----------------------------------------------------------------------------
(***************************************************************************)
(* The inductive invariant, of any value t of the timers.                  *)
(***************************************************************************)
Timing(t) ==
    /\ t.ratio \in 1 .. t.setting.ratio
    /\ t.left \in 0 .. t.setting.max + 2 + t.setting.ratio
    /\ t.events \in SUBSET Event
    /\ \A e \in t.events : e.left <= t.setting.ratio

\* Of the events of PMD none is of a generation to come, one that counts is for what the
\* register says, and there is one unless the register is in effect.
Counts(t, e, x) == e.kind = "pmd" /\ e.timer = x /\ e.generation = t.generation[x]

Answered(t) ==
    /\ t.generation \in [Names -> Nat]
    /\ \A e \in t.events : e.kind = "pmd" => e.generation <= t.generation[e.timer]
    /\ \A e \in t.events, x \in Names : Counts(t, e, x) => e.disabled = (x \in t.off)
    /\ \A x \in Names : \/ (x \in t.disabled) = (x \in t.off)
                        \/ \E e \in t.events : Counts(t, e, x)

Sound(t) == Counting(t) /\ Timing(t) /\ Answered(t) /\ t.merged = FALSE

IInv == Sound(timers)

\* What no part of it is about.
Free == {"started", "gate", "power", "raised", "changes"}

LEMMA FreeKept ==
    ASSUME NEW t, Sound(t), NEW n, DOMAIN n = Fields,
           \A field \in Fields \ Free : n[field] = t[field]
    PROVE  Sound(n)
  <1>1. /\ n.setting = t.setting /\ n.control = t.control /\ n.pair = t.pair
        /\ n.counter = t.counter /\ n.period = t.period /\ n.holding = t.holding
        /\ n.fraction = t.fraction /\ n.off = t.off /\ n.disabled = t.disabled
        /\ n.generation = t.generation /\ n.left = t.left /\ n.ratio = t.ratio
        /\ n.events = t.events /\ n.merged = t.merged
    BY DEF Fields, Free
  <1>. QED BY <1>1 DEF Sound, Counting, Timing, Answered, Counts

\* The registers may change, and the instruction under way.
LEMMA RegistersKept ==
    ASSUME NEW t, Sound(t), NEW n, Counting(n), n.setting = t.setting,
           n.ratio \in 1 .. n.setting.ratio,
           n.left \in 0 .. n.setting.max + 2 + n.setting.ratio,
           n.events = t.events, n.generation = t.generation,
           n.off = t.off, n.disabled = t.disabled, n.merged = FALSE
    PROVE  Sound(n)
  BY DEF Sound, Timing, Answered, Counts

\* The interrupt of a match comes after the instruction.
LEMMA InterruptScheduled ==
    ASSUME NEW t, Sound(t), NEW n, Counting(n), n.setting = t.setting,
           n.ratio = t.ratio, n.left = t.left, NEW x \in Names,
           n.events = t.events \union {[kind |-> "interrupt", timer |-> x, left |-> t.ratio]},
           n.generation = t.generation, n.off = t.off, n.disabled = t.disabled, n.merged = FALSE
    PROVE  Sound(n)
  <1>. DEFINE e == [kind |-> "interrupt", timer |-> x, left |-> t.ratio]
  <1>1. t.ratio \in Nat /\ t.ratio <= t.setting.ratio
    BY SettingTyped DEF Sound, Timing
  <1>2. e \in Event /\ e.kind # "pmd" /\ e.left <= t.setting.ratio
    BY <1>1 DEF Event
  <1>. HIDE DEF e
  <1>3. n.events = t.events \union {e}
    BY DEF e
  <1>4. Timing(n)
    BY <1>2, <1>3 DEF Sound, Timing
  <1>5. Answered(n)
    BY <1>2, <1>3 DEF Sound, Answered, Counts
  <1>. QED BY <1>4, <1>5 DEF Sound

LEMMA ClockSound ==
    ASSUME NEW t, Sound(t), NEW x \in Names, NEW n \in Nat, Apart(t, x, n)
    PROVE  Sound(ClockTimer(t, x, n))
  <1>. DEFINE u == ClockTimer(t, x, n)
  <1>1. Counting(t) /\ t.merged = FALSE
    BY DEF Sound
  <1>2. Counting(u)
    BY <1>1, ClockCounting
  <1>3. SameRegisters(u, t) /\ u.events \in {t.events, t.events \union {Interrupt(t, x)}}
    BY <1>1, ClockTimerIs
  <1>4. u.merged = FALSE
    BY <1>1, ClockApart
  <1>. HIDE DEF u
  <1>5. SignalTimer(t, x) \in Names
    BY DEF SignalTimer, Names
  <1>6. CASE u.events = t.events
    <2>1. t.ratio \in 1 .. t.setting.ratio /\ t.left \in 0 .. t.setting.max + 2 + t.setting.ratio
      BY DEF Sound, Timing
    <2>2. Sound(u)
      BY <1>2, <1>3, <1>4, <1>6, <2>1, RegistersKept DEF SameRegisters
    <2>. QED BY <2>2 DEF u
  <1>7. CASE u.events = t.events \union {Interrupt(t, x)}
    <2>1. Sound(u)
      BY <1>2, <1>3, <1>4, <1>5, <1>7, InterruptScheduled DEF Interrupt, SameRegisters
    <2>. QED BY <2>1 DEF u
  <1>. QED BY <1>3, <1>6, <1>7
-----------------------------------------------------------------------------
(***************************************************************************)
(* The steps of time.                                                      *)
(***************************************************************************)
\* Up to its boundary a timer meets its period once.
LEMMA ApartWithin ==
    ASSUME NEW t, Counting(t), NEW x \in Names, NEW n \in Nat, n <= Boundary(t, x)
    PROVE  Apart(t, x, n)
  <1>. DEFINE L == t.control[x].prescale
              f == t.fraction[x]
              T == Ticks(t, x, n)
              FM == TicksUntilPeriod(t, x)
              p == Period(t, x)
              r == (f + n) % L
  <1>1. L \in Nat \ {0} /\ f \in 0 .. L - 1 /\ f + n \in Nat
    BY PrescaleTyped
  <1>2. FM \in Nat /\ p \in Nat
    BY TimerRanges, MatchRange DEF TicksUntilPeriod, Ranges
  <1>3. T \in Nat /\ r \in 0 .. L - 1 /\ f + n = L * T + r
    BY <1>1, Divided DEF Ticks
  <1>4. Matched(t, x, n) = IF T < FM THEN 0 ELSE 1 + (T - FM) \div (p + 1)
    BY DEF Matched, Matches, TicksUntilPeriod
  <1>5. Boundary(t, x) = FM * L - f
    BY DEF Boundary
  <1>. HIDE DEF L, f, T, FM, p, r
  <1>6. T <= FM
    <2>. SUFFICES ASSUME FM + 1 <= T PROVE FALSE
      BY <1>2, <1>3
    <2>1. L * (FM + 1) <= L * T /\ L * (FM + 1) = L * FM + L /\ FM * L = L * FM
      BY <1>1, <1>2, <1>3, Monotonic
    <2>. QED BY <1>1, <1>2, <1>3, <1>5, <2>1
  <1>7. Matched(t, x, n) \in {0, 1}
    <2>1. CASE T < FM
      BY <1>4, <2>1
    <2>2. CASE T = FM
      <3>1. T - FM = 0 /\ ~(T < FM) /\ 0 \in 0 .. (p + 1) - 1 /\ p + 1 \in Nat \ {0}
        BY <1>2, <2>2
      <3>2. (T - FM) \div (p + 1) = 0
        BY <3>1, FirstRounds
      <3>. QED BY <1>4, <3>1, <3>2
    <2>. QED BY <1>2, <1>3, <1>6, <2>1, <2>2
  <1>. QED BY <1>7 DEF Apart

Clocked(t, x, n) == IF Runs(t, x) THEN ClockTimer(t, x, n) ELSE t

Within(t, x, n) == Runs(t, x) /\ Period(t, x) # 0 => n <= Boundary(t, x)

LEMMA ClockedSound ==
    ASSUME NEW t, Sound(t), NEW x \in Names, NEW n \in Nat, Within(t, x, n)
    PROVE  Sound(Clocked(t, x, n))
  <1>1. CASE Runs(t, x)
    <2>1. Apart(t, x, n)
      <3>1. CASE Period(t, x) = 0
        BY <3>1 DEF Apart
      <3>2. CASE Period(t, x) # 0
        BY <1>1, <3>2, ApartWithin DEF Within, Sound
      <3>. QED BY <3>1, <3>2
    <2>. QED BY <1>1, <2>1, ClockSound DEF Clocked
  <1>2. CASE ~Runs(t, x)
    BY <1>2 DEF Clocked
  <1>. QED BY <1>1, <1>2

\* The timers after one are as far from their boundaries as before.
LEMMA ClockedWithin ==
    ASSUME NEW t, Sound(t), NEW x \in Names, NEW n \in Nat, NEW y \in Names,
           x # y, ~(x = "c" /\ y = "b"), Within(t, y, n)
    PROVE  Within(Clocked(t, x, n), y, n)
  <1>. DEFINE u == Clocked(t, x, n)
  <1>1. CASE ~Runs(t, x)
    BY <1>1 DEF Clocked
  <1>2. CASE Runs(t, x)
    <2>1. Counting(t)
      BY DEF Sound
    <2>2. /\ SameRegisters(u, t)
          /\ u.fraction = [t.fraction EXCEPT ![x] = (@ + n) % t.control[x].prescale]
          /\ u.counter = Split(t, x, Arrived(t, x, n))
      BY <1>2, <2>1, ClockTimerIs DEF Clocked
    <2>. HIDE DEF u
    <2>3. Runs(u, y) <=> Runs(t, y)
      BY <2>2 DEF SameRegisters, Runs, PmdDisabled, PairedHigh, PowerEnabled, PairEnabled
    <2>4. CASE Runs(t, y)
      <3>1. \A z \in Names : z # x /\ ~(z = "c" /\ PairEnabled(t, x)) => u.counter[z] = t.counter[z]
        BY <2>2 DEF Split
      <3>2. u.counter[y] = t.counter[y]
        BY <2>4, <3>1 DEF Runs, PairedHigh, PairEnabled
      <3>3. PairEnabled(t, y) => u.counter["c"] = t.counter["c"]
        BY <3>1 DEF PairEnabled, Names
      <3>4. /\ Value(u, y) = Value(t, y) /\ Period(u, y) = Period(t, y)
            /\ Maximum(u, y) = Maximum(t, y)
        BY <2>2, <3>2, <3>3 DEF Value, Period, Maximum, Width, PairEnabled, SameRegisters
      <3>5. u.fraction[y] = t.fraction[y]
        BY <2>1, <2>2 DEF Counting
      <3>6. Boundary(u, y) = Boundary(t, y)
        BY <2>2, <3>4, <3>5 DEF Boundary, TicksUntilPeriod, SameRegisters
      <3>7. Within(u, y, n)
        BY <2>3, <3>4, <3>6 DEF Within
      <3>. QED BY <3>7 DEF u
    <2>5. CASE ~Runs(t, y)
      <3>1. Within(u, y, n)
        BY <2>3, <2>5 DEF Within
      <3>. QED BY <3>1 DEF u
    <2>. QED BY <2>4, <2>5
  <1>. QED BY <1>1, <1>2

LEMMA AdvanceTimersSound ==
    ASSUME NEW t, Sound(t), NEW n \in Nat, \A x \in Names : Within(t, x, n)
    PROVE  Sound(AdvanceTimers(t, n))
  <1>. DEFINE first == Clocked(t, "a", n)
              second == Clocked(first, "b", n)
              third == Clocked(second, "c", n)
  <1>1. AdvanceTimers(t, n) = third
    BY DEF AdvanceTimers, Clocked
  <1>. HIDE DEF first, second, third
  <1>2. "a" \in Names /\ "b" \in Names /\ "c" \in Names
    BY DEF Names
  <1>3. Sound(first) /\ Within(first, "b", n) /\ Within(first, "c", n)
    BY <1>2, ClockedSound, ClockedWithin DEF first
  <1>4. Sound(second) /\ Within(second, "c", n)
    BY <1>2, <1>3, ClockedSound, ClockedWithin DEF second
  <1>5. Sound(third)
    BY <1>2, <1>4, ClockedSound DEF third
  <1>. QED BY <1>1, <1>5

\* A set of numbers has its least one, which Min is.
LEMMA MinLeast == ASSUME NEW T \in SUBSET Nat, T # {}
                  PROVE  Min(T) \in Nat /\ \A n \in T : Min(T) <= n
  <1>1. \E n \in T : \A m \in T : n <= m
    BY LeastNumber
  <1>2. Min(T) \in T /\ \A m \in T : Min(T) <= m
    BY <1>1 DEF Min
  <1>. QED BY <1>2

\* Fields that nothing depends on: what a step clears and counts first.
LEMMA NowSound ==
    ASSUME IInv
    PROVE  /\ Sound(Now) /\ Sound(Changed)
           /\ DOMAIN Now = Fields /\ DOMAIN Changed = Fields
           /\ \A field \in Fields \ {"raised", "changes"} :
                 Now[field] = timers[field] /\ Changed[field] = timers[field]
  <1>1. DOMAIN timers = Fields
    BY DEF IInv, Sound, Counting
  <1>2. /\ DOMAIN Now = Fields /\ DOMAIN Changed = Fields
        /\ \A field \in Fields \ {"raised", "changes"} :
              Now[field] = timers[field] /\ Changed[field] = timers[field]
    BY <1>1 DEF Now, Changed, Fields
  <1>3. \A field \in Fields \ Free : Now[field] = timers[field] /\ Changed[field] = timers[field]
    BY <1>2 DEF Free
  <1>. HIDE DEF Now, Changed
  <1>4. Sound(Now) /\ Sound(Changed)
    BY <1>2, <1>3, FreeKept DEF IInv
  <1>. QED BY <1>2, <1>4

LEMMA AdvanceKeeps == ASSUME IInv, Advance PROVE Sound(timers')
  <1>. DEFINE ends == {timers.left} \union {event.left : event \in timers.events}
                        \union Boundaries(timers)
              Later(event, n) == [event EXCEPT !.left = @ - n]
  <1>1. PICK n \in 1 .. Min(ends) :
           timers' = AdvanceTimers([Now EXCEPT !.left = @ - n,
                                               !.events = {Later(event, n) : event \in @}], n)
    BY DEF Advance
  <1>. DEFINE t == [Now EXCEPT !.left = @ - n, !.events = {Later(event, n) : event \in @}]
  <1>2. /\ Counting(timers) /\ timers.left \in Nat /\ Timing(timers) /\ timers.merged = FALSE
        /\ \A e \in timers.events : e \in Event /\ e.left \in Nat
    BY SettingTyped DEF IInv, Sound, Timing, Event
  <1>3. \A x \in Names : Boundary(timers, x) \in Nat
    <2>1. \A x \in Names : Boundary(timers, x) \in 1 .. Horizon(timers, x)
      BY <1>2, BoundaryTyped
    <2>2. \A x \in Names : Horizon(timers, x) \in Int
      BY <1>2, PrescaleTyped, TimerRanges DEF Horizon, Ranges
    <2>. QED BY <2>1, <2>2
  <1>4. ends \in SUBSET Nat /\ ends # {}
    BY <1>2, <1>3 DEF Boundaries
  <1>. HIDE DEF ends
  <1>5. n \in Nat /\ \A m \in ends : n <= m
    BY <1>4, MinLeast
  <1>6. /\ n <= timers.left /\ \A e \in timers.events : n <= e.left
        /\ \A x \in Names : Within(timers, x, n)
    BY <1>5 DEF ends, Boundaries, Within
  <1>7. timers' = AdvanceTimers(t, n)
    BY <1>1
  <1>8. /\ DOMAIN Now = Fields /\ Sound(Now)
        /\ Now.left = timers.left /\ Now.events = timers.events /\ Now.setting = timers.setting
        /\ Now.ratio = timers.ratio /\ Now.generation = timers.generation
        /\ Now.off = timers.off /\ Now.disabled = timers.disabled /\ Now.merged = timers.merged
        /\ Now.control = timers.control /\ Now.pair = timers.pair /\ Now.counter = timers.counter
        /\ Now.period = timers.period /\ Now.holding = timers.holding
        /\ Now.fraction = timers.fraction /\ Now.gate = timers.gate /\ Now.power = timers.power
    BY NowSound DEF Fields
  <1>. HIDE DEF Now
  <1>9. /\ DOMAIN t = Fields /\ t.setting = timers.setting
        /\ t.ratio = timers.ratio /\ t.generation = timers.generation
        /\ t.off = timers.off /\ t.disabled = timers.disabled /\ t.merged = timers.merged
        /\ t.control = timers.control /\ t.pair = timers.pair /\ t.counter = timers.counter
        /\ t.period = timers.period /\ t.holding = timers.holding
        /\ t.fraction = timers.fraction /\ t.gate = timers.gate /\ t.power = timers.power
        /\ t.left = timers.left - n /\ t.events = {Later(event, n) : event \in timers.events}
    BY <1>8 DEF Fields
  <1>. HIDE DEF t
  <1>10. Counting(t)
    BY <1>2, <1>9 DEF Counting
  <1>11. \A e \in timers.events :
            /\ Later(e, n) \in Event /\ Later(e, n).left = e.left - n
            /\ Later(e, n).kind = e.kind /\ Later(e, n).timer = e.timer
            /\ e.kind = "pmd" => /\ Later(e, n).generation = e.generation
                                 /\ Later(e, n).disabled = e.disabled
    BY <1>2, <1>5, <1>6 DEF Event
  <1>. HIDE DEF Later
  <1>12. Timing(t)
    <2>1. t.left \in 0 .. t.setting.max + 2 + t.setting.ratio
      BY <1>2, <1>5, <1>6, <1>9, SettingTyped DEF Timing
    <2>2. t.events \in SUBSET Event /\ \A e \in t.events : e.left <= t.setting.ratio
      BY <1>2, <1>5, <1>9, <1>11, SettingTyped DEF Timing
    <2>. QED BY <1>2, <1>9, <2>1, <2>2 DEF Timing
  <1>13. Answered(t)
    <2>1. Answered(timers)
      BY DEF IInv, Sound
    <2>2. \A e \in timers.events, x \in Names : Counts(t, Later(e, n), x) <=> Counts(timers, e, x)
      BY <1>9, <1>11 DEF Counts
    <2>3. \A e \in timers.events, x \in Names :
             Counts(timers, e, x) => Later(e, n).disabled = e.disabled
      BY <1>11 DEF Counts
    <2>4. \A e \in t.events : e.kind = "pmd" => e.generation <= t.generation[e.timer]
      BY <1>9, <1>11, <2>1 DEF Answered
    <2>5. \A e \in t.events, x \in Names : Counts(t, e, x) => e.disabled = (x \in t.off)
      BY <1>9, <2>1, <2>2, <2>3 DEF Answered
    <2>6. \A x \in Names : \/ (x \in t.disabled) = (x \in t.off)
                           \/ \E e \in t.events : Counts(t, e, x)
      BY <1>9, <2>1, <2>2 DEF Answered
    <2>. QED BY <1>9, <2>1, <2>4, <2>5, <2>6 DEF Answered
  <1>14. Sound(t)
    BY <1>2, <1>9, <1>10, <1>12, <1>13 DEF Sound
  <1>15. \A x \in Names : Within(t, x, n)
    <2>. TAKE x \in Names
    <2>1. Runs(t, x) <=> Runs(timers, x)
      BY <1>9 DEF Runs, PmdDisabled, PairedHigh, PowerEnabled, PairEnabled
    <2>2. Value(t, x) = Value(timers, x) /\ Period(t, x) = Period(timers, x)
          /\ Maximum(t, x) = Maximum(timers, x)
      BY <1>9 DEF Value, Period, Maximum, Width, PairEnabled
    <2>3. Boundary(t, x) = Boundary(timers, x)
      BY <1>9, <2>2 DEF Boundary, TicksUntilPeriod
    <2>. QED BY <1>6, <2>1, <2>2, <2>3 DEF Within
  <1>. QED BY <1>5, <1>7, <1>14, <1>15, AdvanceTimersSound
-----------------------------------------------------------------------------
(***************************************************************************)
(* The steps of the program, of the pins and of events.                    *)
(***************************************************************************)
LEMMA InstructionSound ==
    ASSUME NEW t, Sound(t)
    PROVE  Sound(Instruction(t))
  <1>. DEFINE n == Instruction(t)
  <1>1. DOMAIN t = Fields /\ Counting(t)
    BY DEF Sound, Counting
  <1>2. /\ DOMAIN n = Fields /\ n.setting = t.setting /\ n.left = t.setting.ratio
        /\ n.ratio = t.setting.ratio /\ n.events = t.events /\ n.generation = t.generation
        /\ n.off = t.off /\ n.disabled = t.disabled /\ n.merged = t.merged
        /\ n.control = t.control /\ n.pair = t.pair /\ n.counter = t.counter
        /\ n.period = t.period /\ n.holding = t.holding /\ n.fraction = t.fraction
    BY <1>1 DEF Instruction, Fields
  <1>. HIDE DEF n
  <1>3. Counting(n)
    BY <1>1, <1>2 DEF Counting
  <1>4. /\ n.ratio \in 1 .. n.setting.ratio
        /\ n.left \in 0 .. n.setting.max + 2 + n.setting.ratio
    BY <1>1, <1>2, SettingTyped
  <1>5. Sound(n)
    BY <1>2, <1>3, <1>4, RegistersKept DEF Sound
  <1>. QED BY <1>5 DEF n

\* A write of the registers: any values in range, with the prescaler started anew or not.
LEMMA WrittenSound ==
    ASSUME NEW t, Sound(t), NEW n, DOMAIN n = Fields,
           n.setting = t.setting, n.left = t.left, n.ratio = t.ratio, n.events = t.events,
           n.generation = t.generation, n.off = t.off, n.disabled = t.disabled, n.merged = t.merged,
           n.control \in [Names -> Control], n.pair \in BOOLEAN,
           n.counter \in [Names -> 0 .. n.setting.max], n.period \in [Names -> 0 .. n.setting.max],
           n.holding \in 0 .. n.setting.max, n.fraction \in [Names -> Nat],
           \A y \in Names : \/ n.fraction[y] = 0
                            \/ n.fraction[y] = t.fraction[y] /\ n.control[y] = t.control[y]
    PROVE  Sound(n)
  <1>1. \A y \in Names : n.control[y].prescale \in Nat \ {0}
    BY DEF Control
  <1>2. \A y \in Names : n.fraction[y] < n.control[y].prescale
    BY <1>1 DEF Sound, Counting
  <1>3. Counting(n)
    BY <1>2 DEF Sound, Counting
  <1>. QED BY <1>3, RegistersKept DEF Sound, Timing

\* What the steps start from.
Initial(t) ==
    /\ DOMAIN t = Fields /\ Sound(t) /\ Counting(t)
    /\ t.setting = timers.setting /\ t.left = timers.left /\ t.ratio = timers.ratio
    /\ t.events = timers.events /\ t.generation = timers.generation /\ t.off = timers.off
    /\ t.disabled = timers.disabled /\ t.merged = timers.merged /\ t.control = timers.control
    /\ t.pair = timers.pair /\ t.counter = timers.counter /\ t.period = timers.period
    /\ t.holding = timers.holding /\ t.fraction = timers.fraction

LEMMA NowInitial == ASSUME IInv PROVE Initial(Now) /\ Initial(Changed)
  BY NowSound DEF Initial, Fields, Sound

LEMMA UsedTyped ==
    ASSUME IInv
    PROVE  /\ timers.setting.used \subseteq Names /\ timers.setting.controls \subseteq Control
           /\ timers.setting.max \in Nat \ {0} /\ timers.setting.ratio \in Nat \ {0}
  BY SettingTyped DEF IInv, Sound

LEMMA WriteControlKeeps ==
    ASSUME IInv, NEW x \in Names, NEW control \in Control, NEW pair \in BOOLEAN,
           WriteControl(x, control, pair)
    PROVE  Sound(timers')
  <1>. DEFINE t == Changed
              n == Restarted([t EXCEPT !.control[x] = control, !.pair = pair], x)
  <1>1. timers' = Instruction(IF PmdDisabled(timers, x) THEN t ELSE n)
    BY DEF WriteControl
  <1>2. Initial(t)
    BY NowInitial
  <1>. HIDE DEF t
  <1>3. /\ DOMAIN n = Fields /\ n.setting = t.setting /\ n.left = t.left /\ n.ratio = t.ratio
        /\ n.events = t.events /\ n.generation = t.generation /\ n.off = t.off
        /\ n.disabled = t.disabled /\ n.merged = t.merged
        /\ n.control = [t.control EXCEPT ![x] = control] /\ n.pair = pair
        /\ n.counter = t.counter /\ n.period = t.period /\ n.holding = t.holding
        /\ n.fraction = [t.fraction EXCEPT ![x] = 0]
    BY <1>2 DEF Restarted, Initial, Fields
  <1>. HIDE DEF n
  <1>4. Sound(n)
    <2>1. /\ n.control \in [Names -> Control] /\ n.pair \in BOOLEAN
          /\ n.counter \in [Names -> 0 .. n.setting.max]
          /\ n.period \in [Names -> 0 .. n.setting.max]
          /\ n.holding \in 0 .. n.setting.max /\ n.fraction \in [Names -> Nat]
      BY <1>2, <1>3 DEF Initial, Counting
    <2>2. \A y \in Names : \/ n.fraction[y] = 0
                           \/ n.fraction[y] = t.fraction[y] /\ n.control[y] = t.control[y]
      BY <1>2, <1>3 DEF Initial, Counting
    <2>. QED BY <1>2, <1>3, <2>1, <2>2, WrittenSound DEF Initial
  <1>. QED BY <1>1, <1>2, <1>4, InstructionSound DEF Initial

LEMMA WriteCounterKeeps ==
    ASSUME IInv, NEW x \in Names, NEW value \in 0 .. timers.setting.max, WriteCounter(x, value)
    PROVE  Sound(timers')
  <1>. DEFINE t == Changed
              w == Restarted([t EXCEPT !.counter[x] = value], x)
              n == [w EXCEPT !.counter["c"] = timers.holding]
  <1>1. \E u \in {t, w, n} : timers' = Instruction(u)
    BY DEF WriteCounter
  <1>2. Initial(t)
    BY NowInitial
  <1>3. timers.holding \in 0 .. timers.setting.max
    BY DEF IInv, Sound, Counting
  <1>. HIDE DEF t
  <1>4. /\ DOMAIN w = Fields /\ w.setting = t.setting /\ w.left = t.left /\ w.ratio = t.ratio
        /\ w.events = t.events /\ w.generation = t.generation /\ w.off = t.off
        /\ w.disabled = t.disabled /\ w.merged = t.merged
        /\ w.control = t.control /\ w.pair = t.pair
        /\ w.counter = [t.counter EXCEPT ![x] = value] /\ w.period = t.period
        /\ w.holding = t.holding /\ w.fraction = [t.fraction EXCEPT ![x] = 0]
    BY <1>2 DEF Restarted, Initial, Fields
  <1>. HIDE DEF w
  <1>5. /\ DOMAIN n = Fields /\ n.setting = t.setting /\ n.left = t.left /\ n.ratio = t.ratio
        /\ n.events = t.events /\ n.generation = t.generation /\ n.off = t.off
        /\ n.disabled = t.disabled /\ n.merged = t.merged
        /\ n.control = t.control /\ n.pair = t.pair
        /\ n.counter = [w.counter EXCEPT !["c"] = timers.holding] /\ n.period = t.period
        /\ n.holding = t.holding /\ n.fraction = [t.fraction EXCEPT ![x] = 0]
    BY <1>4 DEF Fields
  <1>. HIDE DEF n
  <1>6. \A u \in {w, n} :
           /\ DOMAIN u = Fields /\ u.setting = t.setting /\ u.left = t.left /\ u.ratio = t.ratio
           /\ u.events = t.events /\ u.generation = t.generation /\ u.off = t.off
           /\ u.disabled = t.disabled /\ u.merged = t.merged
           /\ u.control = t.control /\ u.pair = t.pair /\ u.period = t.period
           /\ u.holding = t.holding /\ u.fraction = [t.fraction EXCEPT ![x] = 0]
    BY <1>4, <1>5
  <1>7. w.counter \in [Names -> 0 .. t.setting.max] /\ n.counter \in [Names -> 0 .. t.setting.max]
    <2>1. t.counter \in [Names -> 0 .. t.setting.max] /\ t.setting = timers.setting
      BY <1>2 DEF Initial, Counting
    <2>2. w.counter \in [Names -> 0 .. t.setting.max]
      BY <1>4, <2>1
    <2>3. n.counter \in [Names -> 0 .. t.setting.max]
      BY <1>3, <1>5, <2>1, <2>2
    <2>. QED BY <2>2, <2>3
  <1>8. ASSUME NEW u \in {w, n} PROVE Sound(u)
    <2>1. /\ u.control \in [Names -> Control] /\ u.pair \in BOOLEAN
          /\ u.counter \in [Names -> 0 .. u.setting.max]
          /\ u.period \in [Names -> 0 .. u.setting.max]
          /\ u.holding \in 0 .. u.setting.max /\ u.fraction \in [Names -> Nat]
      BY <1>2, <1>6, <1>7 DEF Initial, Counting
    <2>2. \A y \in Names : \/ u.fraction[y] = 0
                           \/ u.fraction[y] = t.fraction[y] /\ u.control[y] = t.control[y]
      BY <1>2, <1>6 DEF Initial, Counting
    <2>3. /\ DOMAIN u = Fields /\ u.setting = t.setting /\ u.left = t.left /\ u.ratio = t.ratio
          /\ u.events = t.events /\ u.generation = t.generation /\ u.off = t.off
          /\ u.disabled = t.disabled /\ u.merged = t.merged
      BY <1>6
    <2>4. Sound(t)
      BY <1>2 DEF Initial
    <2>. QED BY <2>1, <2>2, <2>3, <2>4, WrittenSound
  <1>. QED BY <1>1, <1>2, <1>8, InstructionSound DEF Initial

LEMMA WritePeriodKeeps ==
    ASSUME IInv, NEW x \in Names, NEW value \in 0 .. timers.setting.max, WritePeriod(x, value)
    PROVE  Sound(timers')
  <1>. DEFINE t == Changed
              n == [t EXCEPT !.period[x] = value]
  <1>1. timers' = Instruction(IF PmdDisabled(timers, x) THEN t ELSE n)
    BY DEF WritePeriod
  <1>2. Initial(t)
    BY NowInitial
  <1>. HIDE DEF t
  <1>3. /\ DOMAIN n = Fields /\ n.setting = t.setting /\ n.left = t.left /\ n.ratio = t.ratio
        /\ n.events = t.events /\ n.generation = t.generation /\ n.off = t.off
        /\ n.disabled = t.disabled /\ n.merged = t.merged
        /\ n.control = t.control /\ n.pair = t.pair
        /\ n.counter = t.counter /\ n.period = [t.period EXCEPT ![x] = value]
        /\ n.holding = t.holding /\ n.fraction = t.fraction
    BY <1>2 DEF Initial, Fields
  <1>. HIDE DEF n
  <1>4. Sound(n)
    <2>1. /\ n.control \in [Names -> Control] /\ n.pair \in BOOLEAN
          /\ n.counter \in [Names -> 0 .. n.setting.max]
          /\ n.period \in [Names -> 0 .. n.setting.max]
          /\ n.holding \in 0 .. n.setting.max /\ n.fraction \in [Names -> Nat]
      BY <1>2, <1>3 DEF Initial, Counting
    <2>. QED BY <1>2, <1>3, <2>1, WrittenSound DEF Initial
  <1>. QED BY <1>1, <1>2, <1>4, InstructionSound DEF Initial

\* The latch of the high half is written, or read into.
LEMMA HoldingSound ==
    ASSUME NEW t, Initial(t), NEW value \in 0 .. t.setting.max
    PROVE  Sound([t EXCEPT !.holding = value])
  <1>. DEFINE n == [t EXCEPT !.holding = value]
  <1>1. /\ DOMAIN n = Fields /\ n.setting = t.setting /\ n.left = t.left /\ n.ratio = t.ratio
        /\ n.events = t.events /\ n.generation = t.generation /\ n.off = t.off
        /\ n.disabled = t.disabled /\ n.merged = t.merged
        /\ n.control = t.control /\ n.pair = t.pair
        /\ n.counter = t.counter /\ n.period = t.period
        /\ n.holding = value /\ n.fraction = t.fraction
    BY DEF Initial, Fields
  <1>. HIDE DEF n
  <1>2. /\ n.control \in [Names -> Control] /\ n.pair \in BOOLEAN
        /\ n.counter \in [Names -> 0 .. n.setting.max] /\ n.period \in [Names -> 0 .. n.setting.max]
        /\ n.holding \in 0 .. n.setting.max /\ n.fraction \in [Names -> Nat]
    BY <1>1 DEF Initial, Counting
  <1>3. Sound(n)
    BY <1>1, <1>2, WrittenSound DEF Initial
  <1>. QED BY <1>3 DEF n

LEMMA WriteHoldingKeeps ==
    ASSUME IInv, NEW value \in 0 .. timers.setting.max, WriteHolding(value)
    PROVE  Sound(timers')
  <1>. DEFINE t == Changed
  <1>1. timers' = Instruction(IF PmdDisabled(timers, "b") THEN t ELSE [t EXCEPT !.holding = value])
    BY DEF WriteHolding
  <1>2. Initial(t)
    BY NowInitial
  <1>. HIDE DEF t
  <1>3. Sound(t) /\ Sound([t EXCEPT !.holding = value])
    BY <1>2, HoldingSound DEF Initial
  <1>. QED BY <1>1, <1>3, InstructionSound

LEMMA ReadCounterKeeps == ASSUME IInv, ReadCounter PROVE Sound(timers')
  <1>. DEFINE t == Now
              value == timers.counter["c"]
  <1>1. timers' = Instruction([t EXCEPT !.holding = value])
    BY DEF ReadCounter
  <1>2. Initial(t)
    BY NowInitial
  <1>3. value \in 0 .. timers.setting.max
    BY DEF IInv, Sound, Counting, Names
  <1>. HIDE DEF t, value
  <1>4. Sound([t EXCEPT !.holding = value])
    BY <1>2, <1>3, HoldingSound DEF Initial
  <1>. QED BY <1>1, <1>4, InstructionSound

LEMMA WritePmdKeeps == ASSUME IInv, NEW x \in Names, WritePmd(x) PROVE Sound(timers')
  <1>. DEFINE t == Changed
              off == IF x \in timers.off THEN timers.off \ {x} ELSE timers.off \union {x}
              e == [kind |-> "pmd", timer |-> x, left |-> t.setting.ratio,
                    generation |-> t.generation[x] + 1, disabled |-> x \in off]
              c == [t EXCEPT !.off = off]
              generation == [t.generation EXCEPT ![x] = @ + 1]
              n == [c EXCEPT !.generation = generation, !.events = @ \union {e}]
  <1>1. timers' = Instruction(PmdScheduled(c, x, x \in off))
    BY DEF WritePmd
  <1>2. Initial(t)
    BY NowInitial
  <1>3. (x \in off) \in BOOLEAN /\ \A y \in Names \ {x} : (y \in off) = (y \in timers.off)
    OBVIOUS
  <1>. HIDE DEF t, off
  <1>4. /\ t.generation \in [Names -> Nat] /\ t.setting.ratio \in Nat \ {0}
        /\ t.setting = timers.setting
    BY <1>2, SettingTyped DEF Initial, Sound, Answered
  <1>5. /\ e \in Event /\ e.kind = "pmd" /\ e.timer = x /\ e.left = t.setting.ratio
        /\ e.generation = t.generation[x] + 1 /\ e.disabled = (x \in off)
    BY <1>3, <1>4 DEF Event
  <1>6. PmdScheduled(c, x, x \in off) = n
    <2>1. c.setting = t.setting /\ c.generation = t.generation
      BY <1>2 DEF Initial, Fields
    <2>. HIDE DEF c
    <2>. QED BY <2>1 DEF PmdScheduled
  <1>. HIDE DEF e
  <1>7. /\ DOMAIN n = Fields /\ n.setting = t.setting /\ n.left = t.left /\ n.ratio = t.ratio
        /\ n.events = t.events \union {e} /\ n.generation = [t.generation EXCEPT ![x] = @ + 1]
        /\ n.off = off /\ n.disabled = t.disabled /\ n.merged = t.merged
        /\ n.control = t.control /\ n.pair = t.pair
        /\ n.counter = t.counter /\ n.period = t.period
        /\ n.holding = t.holding /\ n.fraction = t.fraction
    BY <1>2 DEF Initial, Fields
  <1>. HIDE DEF n
  <1>8. Counting(n) /\ Timing(n) /\ n.merged = FALSE
    BY <1>2, <1>4, <1>5, <1>7 DEF Initial, Sound, Counting, Timing
  <1>9. Answered(n)
    <2>1. /\ Answered(t)
          /\ \A f \in t.events : f.kind = "pmd" => f.timer \in Names /\ f.generation \in Nat
      BY <1>2 DEF Initial, Sound, Timing, Event
    <2>2. \A f \in t.events, y \in Names : Counts(n, f, y) <=> y # x /\ Counts(t, f, y)
      BY <1>4, <1>7, <2>1 DEF Answered, Counts
    <2>3. Counts(n, e, x) /\ \A y \in Names : Counts(n, e, y) => y = x
      BY <1>4, <1>5, <1>7 DEF Counts
    <2>4. n.generation \in [Names -> Nat]
      BY <1>4, <1>7
    <2>5. \A f \in n.events : f.kind = "pmd" => f.generation <= n.generation[f.timer]
      BY <1>4, <1>5, <1>7, <2>1 DEF Answered
    <2>6. t.off = timers.off /\ \A y \in Names \ {x} : (y \in off) = (y \in t.off)
      BY <1>2, <1>3 DEF Initial
    <2>7. \A f \in n.events, y \in Names : Counts(n, f, y) => f.disabled = (y \in n.off)
      BY <1>5, <1>7, <2>1, <2>2, <2>3, <2>6 DEF Answered
    <2>8. ASSUME NEW y \in Names
          PROVE  (y \in n.disabled) = (y \in n.off) \/ \E f \in n.events : Counts(n, f, y)
      <3>1. CASE y = x
        BY <1>7, <2>3, <3>1
      <3>2. CASE y # x
        BY <1>7, <2>1, <2>2, <2>6, <3>2 DEF Answered
      <3>. QED BY <3>1, <3>2
    <2>. QED BY <2>4, <2>5, <2>7, <2>8 DEF Answered
  <1>. QED BY <1>1, <1>6, <1>8, <1>9, InstructionSound DEF Sound

LEMMA ChangePowerKeeps == ASSUME IInv, NEW power, ChangePower(power) PROVE Sound(timers')
  <1>. DEFINE t == Changed
  <1>1. timers' = [t EXCEPT !.power = power]
    BY DEF ChangePower
  <1>2. Initial(t)
    BY NowInitial
  <1>. HIDE DEF t
  <1>3. DOMAIN timers' = Fields /\ \A field \in Fields \ Free : timers'[field] = t[field]
    BY <1>1, <1>2 DEF Initial, Fields, Free
  <1>. QED BY <1>2, <1>3, FreeKept DEF Initial

LEMMA NopKeeps == ASSUME IInv, Nop PROVE Sound(timers')
  BY NowInitial, InstructionSound DEF Nop, Initial

LEMMA HostAdvanceKeeps == ASSUME IInv, HostAdvance PROVE Sound(timers')
  <1>. DEFINE t == Now
              n == [t EXCEPT !.left = timers.setting.max + 2, !.ratio = 1]
  <1>1. timers' = n
    BY DEF HostAdvance
  <1>2. Initial(t)
    BY NowInitial
  <1>3. timers.setting.max \in Nat \ {0} /\ timers.setting.ratio \in Nat \ {0}
    BY UsedTyped
  <1>. HIDE DEF t
  <1>4. /\ DOMAIN n = Fields /\ n.setting = t.setting /\ n.left = timers.setting.max + 2
        /\ n.ratio = 1 /\ n.events = t.events /\ n.generation = t.generation /\ n.off = t.off
        /\ n.disabled = t.disabled /\ n.merged = t.merged
        /\ n.control = t.control /\ n.pair = t.pair
        /\ n.counter = t.counter /\ n.period = t.period
        /\ n.holding = t.holding /\ n.fraction = t.fraction
    BY <1>2 DEF Initial, Fields
  <1>. HIDE DEF n
  <1>5. Counting(n) /\ n.setting = timers.setting /\ Sound(t)
    BY <1>2, <1>4 DEF Initial, Counting
  <1>6. n.ratio \in 1 .. n.setting.ratio /\ n.left \in 0 .. n.setting.max + 2 + n.setting.ratio
    BY <1>3, <1>4, <1>5
  <1>7. n.merged = FALSE
    BY <1>4, <1>5 DEF Sound
  <1>8. Sound(n)
    BY <1>4, <1>5, <1>6, <1>7, RegistersKept
  <1>. QED BY <1>1, <1>8

LEMMA PulseKeeps ==
    ASSUME IInv, NEW x \in Names, NEW pulses \in Nat \ {0}, Pulse(x, pulses)
    PROVE  Sound(timers')
  <1>. DEFINE t == Changed
              n == [t EXCEPT !.started = @ \union {x}]
  <1>1. timers' = PulseTimer(t, x, pulses)
    BY DEF Pulse
  <1>2. Initial(t)
    BY NowInitial
  <1>. HIDE DEF t
  <1>3. Sound(n) /\ n.control = t.control
    <2>1. /\ DOMAIN n = Fields /\ n.control = t.control
          /\ \A field \in Fields \ Free : n[field] = t[field]
      BY <1>2 DEF Initial, Fields, Free
    <2>. HIDE DEF n
    <2>. QED BY <1>2, <2>1, FreeKept DEF Initial
  <1>4. \/ timers' = t
        \/ t.control[x].external /\ timers' = ClockTimer(t, x, pulses)
        \/ t.control[x].external /\ timers' = ClockTimer(n, x, pulses - 1)
    BY <1>1 DEF PulseTimer
  <1>. HIDE DEF n
  <1>5. CASE timers' = t
    BY <1>2, <1>5 DEF Initial
  <1>6. CASE t.control[x].external /\ timers' = ClockTimer(t, x, pulses)
    <2>1. Apart(t, x, pulses) /\ Sound(t)
      BY <1>2, <1>6 DEF Apart, Initial
    <2>. QED BY <1>6, <2>1, ClockSound
  <1>7. CASE t.control[x].external /\ timers' = ClockTimer(n, x, pulses - 1)
    <2>1. Apart(n, x, pulses - 1) /\ pulses - 1 \in Nat
      BY <1>3, <1>7 DEF Apart
    <2>. QED BY <1>3, <1>7, <2>1, ClockSound
  <1>. QED BY <1>4, <1>5, <1>6, <1>7

LEMMA GateKeeps == ASSUME IInv, NEW x, Gate(x) PROVE Sound(timers')
  <1>. DEFINE t == Changed
  <1>1. timers' = SetTimerGate(t, x, x \notin timers.gate)
    BY DEF Gate
  <1>2. Initial(t)
    BY NowInitial
  <1>. HIDE DEF t
  <1>3. DOMAIN timers' = Fields /\ \A field \in Fields \ Free : timers'[field] = t[field]
    BY <1>1, <1>2 DEF SetTimerGate, Initial, Fields, Free
  <1>. QED BY <1>2, <1>3, FreeKept DEF Initial

\* The event of a PMD register that is not abandoned puts the register in effect; without
\* one that is, nothing is missed.
LEMMA DispatchKeeps == ASSUME IInv, Dispatch PROVE Sound(timers')
  <1>1. PICK e \in Due :
           timers' = IF e.kind = "pmd" THEN RunPmd([Now EXCEPT !.events = @ \ {e}], e)
                     ELSE [[Now EXCEPT !.events = @ \ {e}] EXCEPT !.raised = {e.timer}]
    BY DEF Dispatch
  <1>. DEFINE t == Now
              n == [t EXCEPT !.events = @ \ {e}]
              d == IF e.disabled THEN n.disabled \union {e.timer} ELSE n.disabled \ {e.timer}
  <1>2. timers' = IF e.kind = "pmd"
                  THEN IF e.generation # n.generation[e.timer] THEN n ELSE [n EXCEPT !.disabled = d]
                  ELSE [n EXCEPT !.raised = {e.timer}]
    BY <1>1 DEF RunPmd
  <1>3. Initial(t)
    BY NowInitial
  <1>4. e \in t.events
    BY <1>3 DEF Due, Initial
  <1>. HIDE DEF t
  <1>5. /\ DOMAIN n = Fields /\ n.setting = t.setting /\ n.left = t.left /\ n.ratio = t.ratio
        /\ n.events = t.events \ {e} /\ n.generation = t.generation /\ n.off = t.off
        /\ n.disabled = t.disabled /\ n.merged = t.merged
        /\ n.control = t.control /\ n.pair = t.pair /\ n.counter = t.counter
        /\ n.period = t.period /\ n.holding = t.holding /\ n.fraction = t.fraction
    BY <1>3 DEF Initial, Fields
  <1>. HIDE DEF n, d
  <1>6. /\ DOMAIN timers' = Fields /\ timers'.setting = t.setting /\ timers'.left = t.left
        /\ timers'.ratio = t.ratio /\ timers'.events = t.events \ {e}
        /\ timers'.generation = t.generation /\ timers'.off = t.off /\ timers'.merged = t.merged
        /\ timers'.control = t.control /\ timers'.pair = t.pair /\ timers'.counter = t.counter
        /\ timers'.period = t.period /\ timers'.holding = t.holding /\ timers'.fraction = t.fraction
        /\ timers'.disabled = IF e.kind = "pmd" /\ e.generation = t.generation[e.timer]
                              THEN d ELSE t.disabled
    BY <1>2, <1>5 DEF Fields
  <1>7. Counting(timers') /\ Timing(timers') /\ timers'.merged = FALSE
    BY <1>3, <1>6 DEF Initial, Sound, Counting, Timing
  <1>8. Answered(timers')
    <2>1. Answered(t) /\ e.timer \in Names
      BY <1>3, <1>4 DEF Initial, Sound, Timing, Event
    <2>2. \A f, y : Counts(timers', f, y) <=> Counts(t, f, y)
      BY <1>6 DEF Counts
    <2>3. ASSUME NEW y \in Names
          PROVE  (y \in timers'.disabled) = (y \in timers'.off)
                 \/ \E f \in timers'.events : Counts(timers', f, y)
      <3>1. CASE Counts(t, e, y)
        <4>1. e.disabled = (y \in t.off) /\ e.timer = y /\ timers'.disabled = d
          BY <1>4, <1>6, <2>1, <3>1 DEF Answered, Counts
        <4>2. e.disabled => d = n.disabled \union {y}
          BY <4>1 DEF d
        <4>3. ~e.disabled => d = n.disabled \ {y}
          BY <4>1 DEF d
        <4>4. e.disabled \in BOOLEAN
          BY <4>1
        <4>5. CASE e.disabled
          BY <1>6, <4>1, <4>2, <4>5
        <4>6. CASE ~e.disabled
          <5>1. y \notin timers'.disabled
            BY <4>1, <4>3, <4>6
          <5>2. y \notin timers'.off
            BY <1>6, <4>1, <4>6
          <5>. QED BY <5>1, <5>2
        <4>. QED BY <4>4, <4>5, <4>6
      <3>2. CASE ~Counts(t, e, y)
        <4>1. (y \in timers'.disabled) <=> (y \in t.disabled)
          <5>1. CASE e.kind = "pmd" /\ e.generation = t.generation[e.timer]
            <6>1. e.timer # y
              BY <3>2, <5>1 DEF Counts
            <6>. QED BY <1>5, <1>6, <5>1, <6>1 DEF d
          <5>. QED BY <1>6, <5>1
        <4>2. CASE (y \in t.disabled) = (y \in t.off)
          BY <1>6, <4>1, <4>2
        <4>3. CASE \E f \in t.events : Counts(t, f, y)
          BY <1>6, <2>2, <3>2, <4>3
        <4>. QED BY <2>1, <4>2, <4>3 DEF Answered
      <3>. QED BY <3>1, <3>2
    <2>4. \A f \in timers'.events, y \in Names :
             Counts(timers', f, y) => f.disabled = (y \in timers'.off)
      BY <1>6, <2>1, <2>2 DEF Answered
    <2>5. /\ timers'.generation \in [Names -> Nat]
          /\ \A f \in timers'.events : f.kind = "pmd" => f.generation <= timers'.generation[f.timer]
      BY <1>6, <2>1 DEF Answered
    <2>. QED BY <2>3, <2>4, <2>5 DEF Answered
  <1>. QED BY <1>7, <1>8 DEF Sound
-----------------------------------------------------------------------------
LEMMA InitSound == ASSUME Init PROVE IInv
  <1>. DEFINE Started(setting, control, pair, period, counter) ==
                 [Fresh(setting) EXCEPT
                    !.control = [x \in Names |-> IF x \in setting.used THEN control[x] ELSE @[x]],
                    !.period = [x \in Names |-> IF x \in setting.used THEN period[x] ELSE @[x]],
                    !.counter = [x \in Names |-> IF x \in setting.used THEN counter[x] ELSE @[x]],
                    !.pair = pair]
  <1>1. \E setting \in Settings :
           \E control \in [setting.used -> setting.controls], pair \in BOOLEAN,
              period, counter \in [setting.used -> 0 .. setting.max] :
              /\ pair => {"b", "c"} \subseteq setting.used
              /\ timers = Started(setting, control, pair, period, counter)
    BY Zenon DEF Init
  <1>. HIDE DEF Started
  <1>2. PICK setting \in Settings :
           \E control \in [setting.used -> setting.controls], pair \in BOOLEAN,
              period, counter \in [setting.used -> 0 .. setting.max] :
              timers = Started(setting, control, pair, period, counter)
    BY <1>1
  <1>2a. PICK control \in [setting.used -> setting.controls], pair \in BOOLEAN,
             period \in [setting.used -> 0 .. setting.max],
             counter \in [setting.used -> 0 .. setting.max] :
             timers = Started(setting, control, pair, period, counter)
    BY <1>2
  <1>. DEFINE t == Fresh(setting)
  <1>3. /\ DOMAIN t = Fields /\ t.setting = setting /\ t.control = [x \in Names |-> Off]
        /\ t.counter = [x \in Names |-> 0] /\ t.period = [x \in Names |-> setting.max]
        /\ t.holding = 0 /\ t.fraction = [x \in Names |-> 0] /\ t.off = {} /\ t.disabled = {}
        /\ t.generation = [x \in Names |-> 0] /\ t.left = 0 /\ t.ratio = setting.ratio
        /\ t.events = {} /\ t.merged = FALSE
    BY DEF Fresh, Fields
  <1>. HIDE DEF t
  <1>4. /\ DOMAIN timers = Fields /\ timers.setting = setting /\ timers.pair = pair
        /\ timers.control = [x \in Names |-> IF x \in setting.used THEN control[x] ELSE Off]
        /\ timers.period = [x \in Names |-> IF x \in setting.used THEN period[x] ELSE setting.max]
        /\ timers.counter = [x \in Names |-> IF x \in setting.used THEN counter[x] ELSE 0]
        /\ timers.holding = 0 /\ timers.fraction = [x \in Names |-> 0] /\ timers.off = {}
        /\ timers.disabled = {} /\ timers.generation = [x \in Names |-> 0] /\ timers.left = 0
        /\ timers.ratio = setting.ratio /\ timers.events = {} /\ timers.merged = FALSE
    BY <1>2a, <1>3 DEF Started, t, Fields
  <1>5. /\ setting.max \in Nat \ {0} /\ setting.ratio \in Nat \ {0} /\ setting.used \subseteq Names
        /\ setting.controls \subseteq Control /\ Off \in Control
    BY TimersAssumption DEF Off, Control
  <1>6. /\ timers.control \in [Names -> Control]
        /\ \A x \in Names : timers.control[x].prescale \in {1, 2}
    <2>1. \A x \in Names : timers.control[x] \in Control
      BY <1>4, <1>5
    <2>. QED BY <1>4, <2>1 DEF Control
  <1>7. Counting(timers)
    BY <1>4, <1>5, <1>6 DEF Counting
  <1>8. Timing(timers) /\ Answered(timers)
    BY <1>4, <1>5 DEF Timing, Answered
  <1>. QED BY <1>4, <1>7, <1>8 DEF IInv, Sound

LEMMA StepSound == ASSUME IInv, [Next]_timers PROVE Sound(timers')
  <1>1. timers.setting.used \subseteq Names /\ timers.setting.controls \subseteq Control
        /\ timers.setting.max \in Nat \ {0}
    BY UsedTyped
  <1>2. ASSUME NEW x \in timers.setting.used, Program(x) PROVE Sound(timers')
    BY <1>1, <1>2, WriteControlKeeps, WriteCounterKeeps, WritePeriodKeeps, WritePmdKeeps DEF Program
  <1>3. ASSUME NEW x \in timers.setting.used, Gate(x) PROVE Sound(timers')
    BY <1>3, GateKeeps
  <1>4. ASSUME NEW x \in timers.setting.used, NEW pulses \in {1, timers.setting.max + 3},
               Pulse(x, pulses)
        PROVE  Sound(timers')
    BY <1>1, <1>4, PulseKeeps
  <1>5. ASSUME NEW value \in 0 .. timers.setting.max, WriteHolding(value) PROVE Sound(timers')
    BY <1>5, WriteHoldingKeeps
  <1>6. CASE ReadCounter
    BY <1>6, ReadCounterKeeps
  <1>7. ASSUME NEW power \in {"active", "idle", "sleep"}, ChangePower(power) PROVE Sound(timers')
    BY <1>7, ChangePowerKeeps
  <1>8. CASE Nop
    BY <1>8, NopKeeps
  <1>9. CASE HostAdvance
    BY <1>9, HostAdvanceKeeps
  <1>10. CASE Advance
    BY <1>10, AdvanceKeeps
  <1>11. CASE Dispatch
    BY <1>11, DispatchKeeps
  <1>12. CASE UNCHANGED timers
    BY <1>12 DEF IInv
  <1>. QED BY <1>2, <1>3, <1>4, <1>5, <1>6, <1>7, <1>8, <1>9, <1>10, <1>11, <1>12 DEF Next

\* The inductive invariant: registers, prescalers and events are in range, an event of PMD
\* that counts is for what its register says, and no two matches were one.
THEOREM TimersSound == Spec => []IInv
  <1>1. Init => IInv
    BY InitSound
  <1>2. IInv /\ [Next]_timers => IInv'
    <2>. SUFFICES ASSUME IInv, [Next]_timers PROVE IInv'
      OBVIOUS
    <2>1. Sound(timers')
      BY StepSound
    <2>. QED BY <2>1 DEF IInv, Sound, Counting, Timing, Answered, Counts
  <1>. QED BY <1>1, <1>2, PTL DEF Spec

\* Counters and periods keep to their width, the prescalers below their ratio and the
\* events to the instruction they come after, through pairs, pulses and writes.
THEOREM TimersTyped == Spec => []TypeOK
  <1>1. IInv => TypeOK
    <2>. SUFFICES ASSUME IInv PROVE TypeOK
      OBVIOUS
    <2>1. Counting(timers) /\ Timing(timers)
      BY DEF IInv, Sound
    <2>2. \A e \in timers.events : e.left \in 0 .. timers.setting.ratio
      BY <2>1, SettingTyped DEF Timing, Event
    <2>. QED BY <2>1, <2>2 DEF Counting, Timing, TypeOK
  <1>. QED BY <1>1, TimersSound, PTL

\* A timer is disabled as its PMD register says, or the event that will make it so is in the
\* queue, however often the register is written before one has come
\* (dspic33_device_internal_run_timer_pmd).
THEOREM TimersEventsAgree == Spec => []EventsAgree
  <1>1. IInv => EventsAgree
    <2>. SUFFICES ASSUME IInv, NEW x \in Names, (x \in timers.disabled) # (x \in timers.off)
                  PROVE  \E e \in timers.events :
                            e.kind = "pmd" /\ e.timer = x /\ e.generation = timers.generation[x]
                            /\ e.disabled = (x \in timers.off)
      BY DEF EventsAgree
    <2>1. Answered(timers)
      BY DEF IInv, Sound
    <2>2. PICK e \in timers.events : Counts(timers, e, x)
      BY <2>1 DEF Answered
    <2>. QED BY <2>1, <2>2 DEF Answered, Counts
  <1>. QED BY <1>1, TimersSound, PTL

\* Whatever the width, the prescaler and the period, a step of the advance loop that ends no
\* later than the boundaries moves each timer as ticking it cycle by cycle would have, and
\* the boundary of a timer is its first match: none is passed and no two become one
\* interrupt (advance_counter and timer_boundary_cycles).
THEOREM StepsCountCycles == Spec => []BoundariesKept
  <1>1. IInv => BoundariesKept
    <2>. SUFFICES ASSUME IInv PROVE BoundariesKept
      OBVIOUS
    <2>1. Counting(timers) /\ timers.merged = FALSE /\ timers.setting.used \subseteq Names
      BY UsedTyped DEF IInv, Sound
    <2>2. \A x \in Names :
             Boundary(timers, x)
               = Min({n \in DOMAIN Cycles(timers, x) : Cycles(timers, x)[n].matches > 0})
      BY <2>1, FirstBoundary
    <2>3. \A x \in Names : \A n \in DOMAIN Cycles(timers, x) \ {0} :
             /\ Value(ClockTimer(timers, x, n), x) = Cycles(timers, x)[n].value
             /\ Matches(Value(timers, x), Period(timers, x), Maximum(timers, x),
                        (timers.fraction[x] + n) \div timers.control[x].prescale)
                  = Cycles(timers, x)[n].matches
      BY <2>1, CyclesCounted
    <2>. QED BY <2>1, <2>2, <2>3 DEF BoundariesKept
  <1>. QED BY <1>1, TimersSound, PTL
=============================================================================
