--------------------------- MODULE UsageScanProofs --------------------------
(***************************************************************************)
(* column-usage and joins, for any dacpac, any bodies and any failing      *)
(* call: the exit code tells what is on disk; a scan that fails takes      *)
(* nothing but its own consumer with it; what is cited inside a common     *)
(* table expression is told of, at any depth; and the joins reported are   *)
(* those of the scripts, with the pairs they compare.                      *)
(***************************************************************************)
EXTENDS UsageScan, SequencesExt, WellFoundedInduction, TLAPS

-----------------------------------------------------------------------------
(* Loops and sequences.                                                    *)

\* A set of numbers that is not empty has a least one.
LEMMA LeastOf ==
  ASSUME NEW S \in SUBSET Nat, S # {}
  PROVE  \E n \in S : \A m \in S : n <= m
<1>1. PICK n \in S : \A m \in S : <<m, n>> \notin OpToRel(<, Nat)
  BY NatLessThanWellFounded, WFMin
<1>2. \A m \in S : m \in Nat /\ n \in Nat
  OBVIOUS
<1>3. \A m \in S : ~ (m < n)
  BY <1>1, <1>2 DEF OpToRel
<1> QED
  BY <1>2, <1>3

IsLoop(h, S, base, N, F) ==
  h \in [0..N -> S] /\ h[0] = base /\ \A n \in 1..N : h[n] = F[n][h[n - 1]]

\* A loop of N steps over values of S has a run.
LEMMA LoopRuns ==
  ASSUME NEW S, NEW base \in S, NEW N \in Nat, NEW F \in [1..N -> [S -> S]]
  PROVE  \E h : IsLoop(h, S, base, N, F)
<1> DEFINE Runs(k) == {h \in [0..k -> S] : h[0] = base /\ \A n \in 1..k : h[n] = F[n][h[n - 1]]}
           bad == {k \in 0..N : Runs(k) = {}}
<1>1. SUFFICES ASSUME bad # {} PROVE FALSE
  BY DEF IsLoop
<1>2. PICK k \in bad : \A m \in bad : k <= m
  <2>1. bad \in SUBSET Nat
    OBVIOUS
  <2> HIDE DEF bad
  <2> QED
    BY <1>1, <2>1, LeastOf
<1>3. k \in 0..N /\ Runs(k) = {}
  OBVIOUS
<1>4. k # 0
  <2>1. [i \in 0..0 |-> base] \in Runs(0)
    OBVIOUS
  <2> QED
    BY <1>3, <2>1
<1>5. k - 1 \in 0..N /\ k \in 1..N /\ ~ (k <= k - 1)
  BY <1>3, <1>4
<1>6. PICK g : g \in Runs(k - 1)
  <2> HIDE DEF Runs
  <2> QED
    BY <1>2, <1>5
<1> DEFINE h == [i \in 0..k |-> IF i = k THEN F[k][g[k - 1]] ELSE g[i]]
<1>7. g \in [0..(k - 1) -> S] /\ g[0] = base /\ \A n \in 1..(k - 1) : g[n] = F[n][g[n - 1]]
  BY <1>6
<1>8. F[k][g[k - 1]] \in S
  BY <1>5, <1>7
<1>9. h \in [0..k -> S] /\ h[0] = base
  BY <1>4, <1>5, <1>7, <1>8
<1>10. ASSUME NEW n \in 1..k PROVE h[n] = F[n][h[n - 1]]
  <2>1. CASE n = k
    BY <1>5, <2>1
  <2>2. CASE n # k
    <3>1. n \in 1..(k - 1) /\ h[n] = g[n] /\ h[n - 1] = g[n - 1]
      BY <1>5, <2>2
    <3> QED
      BY <1>7, <3>1
  <2> QED
    BY <2>1, <2>2
<1>11. h \in Runs(k)
  BY <1>9, <1>10
<1> QED
  BY <1>3, <1>11

\* What holds at 0 and is handed on by every step of a loop holds at all of them.
LEMMA Induct ==
  ASSUME NEW N \in Nat, NEW Q, 0 \in Q, \A n \in 1..N : n - 1 \in Q => n \in Q
  PROVE  \A n \in 0..N : n \in Q
<1> DEFINE bad == {n \in 0..N : n \notin Q}
<1>1. SUFFICES ASSUME bad # {} PROVE FALSE
  OBVIOUS
<1>2. PICK k \in bad : \A m \in bad : k <= m
  <2>1. bad \in SUBSET Nat
    OBVIOUS
  <2> HIDE DEF bad
  <2> QED
    BY <1>1, <2>1, LeastOf
<1>3. k \in 0..N /\ k \notin Q
  OBVIOUS
<1>4. k \in 1..N /\ k - 1 \in 0..N /\ ~ (k <= k - 1)
  BY <1>3
<1>5. k - 1 \in Q
  BY <1>2, <1>4
<1> QED
  BY <1>3, <1>4, <1>5

\* Two sequences, one after the other.
LEMMA ConcatFacts ==
  ASSUME NEW S, NEW a \in Seq(S), NEW b \in Seq(S)
  PROVE  /\ a \o b \in Seq(S)
         /\ Len(a \o b) = Len(a) + Len(b)
         /\ \A i \in 1..Len(a) : (a \o b)[i] = a[i]
         /\ \A i \in 1..Len(b) : (a \o b)[Len(a) + i] = b[i]
         /\ Range(a \o b) = Range(a) \cup Range(b)
<1>1. a \o b \in Seq(S) /\ Len(a \o b) = Len(a) + Len(b)
  OBVIOUS
<1>2. \A i \in 1..Len(a) : (a \o b)[i] = a[i]
  OBVIOUS
<1>3. \A i \in 1..Len(b) : (a \o b)[Len(a) + i] = b[i]
  OBVIOUS
<1>4. DOMAIN a = 1..Len(a) /\ DOMAIN b = 1..Len(b) /\ DOMAIN (a \o b) = 1..(Len(a) + Len(b))
      /\ Len(a) \in Nat /\ Len(b) \in Nat
  OBVIOUS
<1> DEFINE c == a \o b
<1> HIDE DEF c
<1>5. DOMAIN c = 1..(Len(a) + Len(b)) /\ (\A i \in 1..Len(a) : c[i] = a[i])
      /\ \A i \in 1..Len(b) : c[Len(a) + i] = b[i]
  BY <1>2, <1>3, <1>4 DEF c
<1>6. ASSUME NEW x PROVE x \in Range(c) <=> x \in Range(a) \cup Range(b)
  <2>1. ASSUME x \in Range(c) PROVE x \in Range(a) \cup Range(b)
    <3>1. PICK i \in 1..(Len(a) + Len(b)) : x = c[i]
      BY <1>5, <2>1 DEF Range
    <3>2. CASE i \in 1..Len(a)
      BY <1>4, <1>5, <3>1, <3>2 DEF Range
    <3>3. CASE i \notin 1..Len(a)
      <4>1. i - Len(a) \in 1..Len(b) /\ i = Len(a) + (i - Len(a))
        BY <1>4, <3>3
      <4>2. c[i] = b[i - Len(a)]
        BY <1>5, <4>1
      <4> QED
        BY <1>4, <3>1, <4>1, <4>2 DEF Range
    <3> QED
      BY <3>2, <3>3
  <2>2. ASSUME x \in Range(a) PROVE x \in Range(c)
    <3>1. PICK i \in 1..Len(a) : x = a[i]
      BY <1>4, <2>2 DEF Range
    <3>2. i \in 1..(Len(a) + Len(b))
      BY <1>4
    <3> QED
      BY <1>5, <3>1, <3>2 DEF Range
  <2>3. ASSUME x \in Range(b) PROVE x \in Range(c)
    <3>1. PICK i \in 1..Len(b) : x = b[i]
      BY <1>4, <2>3 DEF Range
    <3>2. Len(a) + i \in 1..(Len(a) + Len(b)) /\ c[Len(a) + i] = b[i]
      BY <1>4, <1>5
    <3> QED
      BY <1>5, <3>1, <3>2 DEF Range
  <2> QED
    BY <2>1, <2>2, <2>3
<1>7. Range(c) = Range(a) \cup Range(b)
  BY <1>6
<1> QED
  BY <1>1, <1>2, <1>3, <1>7 DEF c

\* One element more at the end.
LEMMA AppendFacts ==
  ASSUME NEW S, NEW a \in Seq(S), NEW x \in S
  PROVE  /\ Append(a, x) \in Seq(S)
         /\ Len(Append(a, x)) = Len(a) + 1
         /\ \A i \in 1..Len(a) : Append(a, x)[i] = a[i]
         /\ Append(a, x)[Len(a) + 1] = x
         /\ Range(Append(a, x)) = Range(a) \cup {x}
<1>1. /\ Append(a, x) \in Seq(S)
      /\ Len(Append(a, x)) = Len(a) + 1
      /\ Append(a, x)[Len(a) + 1] = x
  OBVIOUS
<1>2. \A i \in 1..Len(a) : Append(a, x)[i] = a[i]
  OBVIOUS
<1>3. DOMAIN a = 1..Len(a) /\ Len(a) \in Nat /\ DOMAIN Append(a, x) = 1..(Len(a) + 1)
  OBVIOUS
<1> DEFINE c == Append(a, x)
<1>4. /\ DOMAIN c = 1..(Len(a) + 1) /\ c[Len(a) + 1] = x
      /\ \A i \in 1..Len(a) : c[i] = a[i]
  BY <1>1, <1>2, <1>3
<1> HIDE DEF c
<1>5. \A i \in 1..(Len(a) + 1) : i = Len(a) + 1 \/ i \in 1..Len(a)
  BY <1>3
<1>6. Len(a) + 1 \in 1..(Len(a) + 1) /\ \A i \in 1..Len(a) : i \in 1..(Len(a) + 1)
  BY <1>3
<1>7. Range(c) = Range(a) \cup {x}
  BY <1>3, <1>4, <1>5, <1>6 DEF Range
<1> QED
  BY <1>1, <1>2, <1>7 DEF c

\* The elements of a sequence are in the set it is made of.
LEMMA RangeFacts ==
  ASSUME NEW S, NEW a \in Seq(S)
  PROVE  /\ Range(a) \subseteq S
         /\ \A i \in 1..Len(a) : a[i] \in Range(a)
         /\ \A x \in Range(a) : \E i \in 1..Len(a) : x = a[i]
         /\ a = << >> <=> Range(a) = {}
<1>1. DOMAIN a = 1..Len(a) /\ Len(a) \in Nat
  OBVIOUS
<1>2. \A i \in 1..Len(a) : a[i] \in S
  OBVIOUS
<1>3. a = << >> <=> Len(a) = 0
  OBVIOUS
<1>4. Len(a) # 0 => 1 \in 1..Len(a)
  BY <1>1
<1>5. Len(a) = 0 => 1..Len(a) = {}
  BY <1>1
<1> QED
  BY <1>1, <1>2, <1>3, <1>4, <1>5 DEF Range

\* A sequence without its head.
LEMMA TailFacts ==
  ASSUME NEW S, NEW a \in Seq(S), a # << >>
  PROVE  /\ Head(a) \in S /\ Head(a) = a[1] /\ Tail(a) \in Seq(S)
         /\ Len(Tail(a)) = Len(a) - 1 /\ 1 \in 1..Len(a)
         /\ \A i \in 1..Len(Tail(a)) : Tail(a)[i] = a[i + 1]
         /\ Range(a) = {Head(a)} \cup Range(Tail(a))
         /\ IsInjective(a) => IsInjective(Tail(a)) /\ Head(a) \notin Range(Tail(a))
<1>1. /\ Head(a) \in S /\ Head(a) = a[1] /\ Tail(a) \in Seq(S)
      /\ Len(Tail(a)) = Len(a) - 1 /\ 1 \in 1..Len(a)
  OBVIOUS
<1>2. \A i \in 1..Len(Tail(a)) : Tail(a)[i] = a[i + 1]
  OBVIOUS
<1>3. DOMAIN a = 1..Len(a) /\ Len(a) \in Nat /\ DOMAIN Tail(a) = 1..(Len(a) - 1)
  BY <1>1
<1> DEFINE c == Tail(a)
           h == Head(a)
<1>4. /\ DOMAIN c = 1..(Len(a) - 1) /\ h = a[1]
      /\ \A i \in 1..(Len(a) - 1) : c[i] = a[i + 1]
  BY <1>1, <1>2, <1>3
<1> HIDE DEF c, h
<1>5. Len(a) - 1 \in Nat /\ \A i \in 1..(Len(a) - 1) : i + 1 \in 1..Len(a) /\ i + 1 # 1
  BY <1>1, <1>3
<1>6. \A i \in 1..Len(a) : i = 1 \/ (i - 1 \in 1..(Len(a) - 1) /\ i = (i - 1) + 1)
  BY <1>3
<1>7. Range(a) = {h} \cup Range(c)
  <2>1. ASSUME NEW x \in Range(a) PROVE x \in {h} \cup Range(c)
    <3>1. PICK i \in 1..Len(a) : x = a[i]
      BY <1>3 DEF Range
    <3>2. CASE i = 1
      BY <1>4, <3>1, <3>2
    <3>3. CASE i # 1
      <4>1. i - 1 \in 1..(Len(a) - 1) /\ i = (i - 1) + 1
        BY <1>6, <3>3
      <4>2. x = c[i - 1]
        BY <1>4, <3>1, <4>1
      <4> QED
        BY <1>4, <4>1, <4>2 DEF Range
    <3> QED
      BY <3>2, <3>3
  <2>2. ASSUME NEW x \in Range(c) PROVE x \in Range(a)
    BY <1>3, <1>4, <1>5 DEF Range
  <2>3. h \in Range(a)
    BY <1>1, <1>3, <1>4 DEF Range
  <2> QED
    BY <2>1, <2>2, <2>3
<1>8. ASSUME IsInjective(a) PROVE IsInjective(c) /\ h \notin Range(c)
  <2>1. \A i, j \in 1..Len(a) : a[i] = a[j] => i = j
    BY <1>3, <1>8 DEF IsInjective
  <2>2. ASSUME NEW i \in 1..(Len(a) - 1), NEW j \in 1..(Len(a) - 1), c[i] = c[j] PROVE i = j
    <3>1. a[i + 1] = a[j + 1]
      BY <1>4, <2>2
    <3>2. i + 1 = j + 1
      BY <1>5, <2>1, <3>1
    <3> QED
      BY <3>2
  <2>3. h \notin Range(c)
    BY <1>1, <1>4, <1>5, <2>1 DEF Range
  <2> QED
    BY <1>4, <2>2, <2>3 DEF IsInjective
<1> QED
  BY <1>1, <1>2, <1>7, <1>8 DEF c, h

\* FlattenSeq joins the sequences it is given.
LEMMA FlattenFacts ==
  ASSUME NEW S, NEW seqs \in Seq(Seq(S))
  PROVE  /\ FlattenSeq(seqs) \in Seq(S)
         /\ Range(FlattenSeq(seqs)) = UNION {Range(seqs[n]) : n \in 1..Len(seqs)}
<1> DEFINE N == Len(seqs)
           Q == Seq(S)
<1>1. N \in Nat /\ \A n \in 1..N : seqs[n] \in Q
  <2>1. seqs \in Seq(Q)
    OBVIOUS
  <2> HIDE DEF Q
  <2> QED
    BY <2>1
<1>2. CASE N = 0
  <2>1. FlattenSeq(seqs) = seqs /\ seqs = << >> /\ 1..N = {}
    <3>1. FlattenSeq(seqs) = seqs
      BY <1>2 DEF FlattenSeq
    <3>2. seqs = << >> /\ 1..N = {}
      BY <1>2
    <3> QED
      BY <3>1, <3>2
  <2>2. << >> \in Seq(S) /\ Range(<< >>) = {}
    BY DEF Range
  <2> QED
    BY <2>1, <2>2
<1>3. CASE N # 0
  <2> DEFINE Step(g) == [i \in 1..N |-> IF i = 1 THEN seqs[i] ELSE g[i - 1] \o seqs[i]]
             flatten == CHOOSE g : g = Step(g)
             F == [n \in 1..N |-> [sofar \in Q |-> sofar \o seqs[n]]]
             base == << >>
  <2>1. FlattenSeq(seqs) = flatten[N]
    BY <1>3 DEF FlattenSeq
  <2>2. \A sofar \in Q : \A n \in 1..N : sofar \o seqs[n] \in Q
    BY <1>1, ConcatFacts
  <2>3. base \in Q
    OBVIOUS
  <2>4. F \in [1..N -> [Q -> Q]]
    <3> HIDE DEF Q
    <3> QED
      BY <2>2
  <2>5. \E h : IsLoop(h, Q, base, N, F)
    <3> HIDE DEF F, N, Q, base
    <3> QED
      BY <1>1, <2>3, <2>4, LoopRuns
  <2>6. PICK h : h \in [0..N -> Q] /\ h[0] = base /\ \A n \in 1..N : h[n] = F[n][h[n - 1]]
    <3> HIDE DEF F, N, Q, base
    <3> QED
      BY <2>5 DEF IsLoop
  <2> DEFINE k == [n \in 1..N |-> h[n]]
  <2>7. \A n \in 1..N : h[n - 1] \in Q /\ h[n] = h[n - 1] \o seqs[n]
    <3>1. ASSUME NEW n \in 1..N PROVE h[n - 1] \in Q /\ h[n] = h[n - 1] \o seqs[n]
      <4>1. h[n - 1] \in Q
        <5>1. n - 1 \in 0..N
          BY <1>1
        <5> HIDE DEF Q
        <5> QED
          BY <2>6, <5>1
      <4>2. F[n][h[n - 1]] = h[n - 1] \o seqs[n]
        <5> HIDE DEF Q
        <5> QED
          BY <4>1
      <4> QED
        BY <2>6, <4>1, <4>2
    <3> QED
      BY <3>1
  <2>8. \A n \in 1..N : k[n] = IF n = 1 THEN seqs[n] ELSE k[n - 1] \o seqs[n]
    <3>1. ASSUME NEW n \in 1..N, n = 1 PROVE h[n] = seqs[n]
      <4>1. h[n - 1] = << >>
        BY <2>6, <3>1
      <4>2. << >> \o seqs[n] = seqs[n]
        BY <1>1
      <4> QED
        BY <2>7, <4>1, <4>2
    <3>2. \A n \in 1..N : n # 1 => n - 1 \in 1..N
      BY <1>1
    <3> HIDE DEF N
    <3> QED
      BY <2>7, <3>1, <3>2
  <2>9. k = Step(k)
    <3>1. k = [n \in 1..N |-> k[n]]
      OBVIOUS
    <3> HIDE DEF k
    <3> QED
      BY <2>8, <3>1
  <2> HIDE DEF Step
  <2>10. flatten = Step(flatten)
    BY <2>9
  <2> HIDE DEF flatten
  <2>11. \A n \in 1..N : flatten[n] = IF n = 1 THEN seqs[n] ELSE flatten[n - 1] \o seqs[n]
    BY <2>10 DEF Step
  <2> DEFINE Joined(n) == UNION {Range(seqs[m]) : m \in 1..n}
             good == {0} \cup {n \in 1..N : flatten[n] \in Q /\ Range(flatten[n]) = Joined(n)}
  <2>12. ASSUME NEW n \in 1..N, n - 1 \in good PROVE n \in good
    <3>1. CASE n = 1
      <4>1. flatten[n] = seqs[n] /\ seqs[n] \in Q
        BY <1>1, <2>11, <3>1
      <4>2. Joined(n) = Range(seqs[n])
        <5>1. 1..n = {n}
          BY <3>1
        <5> QED
          BY <5>1
      <4> QED
        BY <4>1, <4>2
    <3>2. CASE n # 1
      <4>1. n - 1 \in 1..N /\ n - 1 # 0
        BY <1>1, <3>2
      <4>2. flatten[n - 1] \in Q /\ Range(flatten[n - 1]) = Joined(n - 1) /\ seqs[n] \in Q
        BY <1>1, <2>12, <4>1
      <4>3. flatten[n] = flatten[n - 1] \o seqs[n]
        BY <2>11, <3>2
      <4>4. flatten[n] \in Q /\ Range(flatten[n]) = Range(flatten[n - 1]) \cup Range(seqs[n])
        BY <4>2, <4>3, ConcatFacts
      <4>5. Joined(n) = Joined(n - 1) \cup Range(seqs[n])
        <5>1. 1..n = (1..(n - 1)) \cup {n}
          BY <1>1, <4>1
        <5> QED
          BY <5>1
      <4> QED
        BY <4>2, <4>4, <4>5
    <3> QED
      BY <3>1, <3>2
  <2>13. \A n \in 0..N : n \in good
    <3>1. 0 \in good
      OBVIOUS
    <3>2. \A n \in 1..N : n - 1 \in good => n \in good
      BY <2>12
    <3> HIDE DEF good, N
    <3> QED
      BY <1>1, <3>1, <3>2, Induct
  <2>14. N \in good /\ N # 0
    <3>1. N \in 0..N
      BY <1>1
    <3> HIDE DEF good
    <3> QED
      BY <1>3, <2>13, <3>1
  <2> QED
    BY <2>1, <2>14
<1> QED
  BY <1>2, <1>3

(* sequences is all that counts.                                           *)

IsSequence(s) == \E S : s \in Seq(S)

\* Such a sequence is one of the things it holds.
LEMMA AnySequence ==
  ASSUME NEW s, IsSequence(s)
  PROVE  s \in Seq(Range(s)) /\ DOMAIN s = 1..Len(s) /\ Len(s) \in Nat
<1>1. PICK S : s \in Seq(S)
  BY DEF IsSequence
<1>2. DOMAIN s = 1..Len(s) /\ Len(s) \in Nat /\ s = [i \in 1..Len(s) |-> s[i]]
  BY <1>1
<1>3. \A i \in 1..Len(s) : s[i] \in Range(s)
  BY <1>2 DEF Range
<1>4. s \in [1..Len(s) -> Range(s)]
  BY <1>2, <1>3
<1>5. s \in Seq(Range(s))
  BY <1>2, <1>4
<1> QED
  BY <1>2, <1>5

\* One more at the end.
LEMMA AnyAppend ==
  ASSUME NEW s, IsSequence(s), NEW e
  PROVE  /\ IsSequence(Append(s, e)) /\ Len(s) \in Nat /\ Len(Append(s, e)) = Len(s) + 1
         /\ \A i \in 1..Len(s) : Append(s, e)[i] = s[i]
         /\ Append(s, e)[Len(s) + 1] = e
         /\ Range(Append(s, e)) = Range(s) \cup {e}
<1>1. PICK S : s \in Seq(S)
  BY DEF IsSequence
<1> DEFINE T == S \cup {e}
<1>2. s \in Seq(T) /\ e \in T
  BY <1>1
<1> HIDE DEF T
<1>3. /\ Append(s, e) \in Seq(T) /\ Len(Append(s, e)) = Len(s) + 1
      /\ \A i \in 1..Len(s) : Append(s, e)[i] = s[i]
      /\ Append(s, e)[Len(s) + 1] = e
      /\ Range(Append(s, e)) = Range(s) \cup {e}
  BY ONLY <1>2, AppendFacts
<1>4. Len(s) \in Nat
  BY <1>2
<1> QED
  BY <1>3, <1>4 DEF IsSequence

\* Two, one after the other.
LEMMA AnyConcat ==
  ASSUME NEW s, NEW t, IsSequence(s), IsSequence(t)
  PROVE  /\ IsSequence(s \o t) /\ Len(s) \in Nat /\ Len(t) \in Nat /\ Len(s \o t) = Len(s) + Len(t)
         /\ \A i \in 1..Len(s) : (s \o t)[i] = s[i]
         /\ \A i \in 1..Len(t) : (s \o t)[Len(s) + i] = t[i]
         /\ \A i \in 1..Len(s \o t) :
              (s \o t)[i] = IF i <= Len(s) THEN s[i] ELSE t[i - Len(s)]
         /\ Range(s \o t) = Range(s) \cup Range(t)
<1>1. PICK S : s \in Seq(S)
  BY DEF IsSequence
<1>2. PICK T : t \in Seq(T)
  BY DEF IsSequence
<1> DEFINE U == S \cup T
<1>3. s \in Seq(U) /\ t \in Seq(U)
  BY <1>1, <1>2
<1> HIDE DEF U
<1>4. /\ s \o t \in Seq(U) /\ Len(s \o t) = Len(s) + Len(t)
      /\ \A i \in 1..Len(s) : (s \o t)[i] = s[i]
      /\ \A i \in 1..Len(t) : (s \o t)[Len(s) + i] = t[i]
      /\ Range(s \o t) = Range(s) \cup Range(t)
  BY ONLY <1>3, ConcatFacts
<1>5. /\ Len(s) \in Nat /\ Len(t) \in Nat
      /\ \A i \in 1..Len(s \o t) : (s \o t)[i] = IF i <= Len(s) THEN s[i] ELSE t[i - Len(s)]
  BY <1>3
<1> QED
  BY <1>4, <1>5 DEF IsSequence

\* One made from another, element by element.
LEMMA AnyMap ==
  ASSUME NEW s, IsSequence(s), NEW m, NEW V, m \in [DOMAIN s -> V]
  PROVE  IsSequence(m) /\ Len(m) = Len(s) /\ Len(s) \in Nat /\ DOMAIN s = 1..Len(s)
<1>1. PICK S : s \in Seq(S)
  BY DEF IsSequence
<1>2. DOMAIN s = 1..Len(s) /\ Len(s) \in Nat
  BY <1>1
<1>3. m \in Seq(V) /\ Len(m) = Len(s)
  BY <1>2
<1> QED
  BY <1>2, <1>3 DEF IsSequence

\* One of a single thing.
LEMMA AnySingle ==
  ASSUME NEW e
  PROVE  IsSequence(<<e>>) /\ Len(<<e>>) = 1 /\ (\A i \in 1..Len(<<e>>) : <<e>>[i] = e) /\ Range(<<e>>) = {e}
<1>1. <<e>> \in Seq({e}) /\ Len(<<e>>) = 1 /\ <<e>>[1] = e /\ DOMAIN <<e>> = 1..1
  OBVIOUS
<1>2. \A i \in 1..1 : i = 1
  OBVIOUS
<1>3. \A i \in 1..Len(<<e>>) : <<e>>[i] = e
  BY ONLY <1>1, <1>2, Zenon
<1>4. Range(<<e>>) = {e}
  BY <1>1, <1>2 DEF Range
<1> QED
  BY <1>1, <1>3, <1>4 DEF IsSequence

\* The empty one.
LEMMA AnyEmpty == IsSequence(<< >>) /\ Len(<< >>) = 0 /\ Range(<< >>) = {}
<1>1. << >> \in Seq({})
  OBVIOUS
<1>2. Len(<< >>) = 0 /\ Range(<< >>) = {}
  BY DEF Range
<1> QED
  BY <1>1, <1>2 DEF IsSequence

\* One without its head.
LEMMA AnyTail ==
  ASSUME NEW s, IsSequence(s), s # << >>
  PROVE  /\ IsSequence(Tail(s)) /\ Head(s) = s[1] /\ Len(s) \in Nat /\ 1 \in 1..Len(s)
         /\ Len(Tail(s)) = Len(s) - 1
         /\ \A i \in 1..Len(Tail(s)) : Tail(s)[i] = s[i + 1]
         /\ Range(s) = {Head(s)} \cup Range(Tail(s))
<1>1. PICK S : s \in Seq(S)
  BY DEF IsSequence
<1>2. /\ Head(s) = s[1] /\ Tail(s) \in Seq(S) /\ Len(Tail(s)) = Len(s) - 1 /\ 1 \in 1..Len(s)
      /\ \A i \in 1..Len(Tail(s)) : Tail(s)[i] = s[i + 1]
      /\ Range(s) = {Head(s)} \cup Range(Tail(s))
  BY ONLY <1>1, s # << >>, TailFacts
<1>3. Len(s) \in Nat
  BY <1>1
<1> QED
  BY <1>2, <1>3 DEF IsSequence

\* Several, joined.
LEMMA AnyFlatten ==
  ASSUME NEW seqs, IsSequence(seqs), \A n \in DOMAIN seqs : IsSequence(seqs[n])
  PROVE  /\ IsSequence(FlattenSeq(seqs))
         /\ Range(FlattenSeq(seqs)) = UNION {Range(seqs[n]) : n \in DOMAIN seqs}
<1> DEFINE S == UNION {Range(seqs[n]) : n \in DOMAIN seqs}
<1>1. DOMAIN seqs = 1..Len(seqs) /\ Len(seqs) \in Nat
  BY AnySequence
<1>2. ASSUME NEW n \in DOMAIN seqs PROVE seqs[n] \in Seq(S)
  <2>1. seqs[n] \in Seq(Range(seqs[n])) /\ Range(seqs[n]) \subseteq S
    BY AnySequence
  <2> HIDE DEF S
  <2> QED
    BY <2>1
<1> DEFINE Q == Seq(S)
<1>3. seqs \in Seq(Q)
  <2>1. seqs \in Seq(Range(seqs)) /\ \A n \in 1..Len(seqs) : seqs[n] \in Q
    BY <1>1, <1>2, AnySequence
  <2> HIDE DEF Q
  <2>2. seqs \in [1..Len(seqs) -> Q]
    BY <1>1, <2>1
  <2> QED
    BY <1>1, <2>2
<1> HIDE DEF S
<1>4. FlattenSeq(seqs) \in Seq(S) /\ Range(FlattenSeq(seqs)) = UNION {Range(seqs[n]) : n \in 1..Len(seqs)}
  BY ONLY <1>3, FlattenFacts DEF Q
<1> QED
  BY <1>1, <1>4 DEF IsSequence

\* Three, one after the other.
LEMMA AnyThree ==
  ASSUME NEW u, NEW v, NEW w
  PROVE  (<<u>> \o <<v>>) \o <<w>> = <<u, v, w>>
<1> DEFINE S == {u, v, w}
           a == (<<u>> \o <<v>>) \o <<w>>
           c == <<u, v, w>>
<1>1. u \in S /\ v \in S /\ w \in S
  OBVIOUS
<1> HIDE DEF S
<1>2. a \in Seq(S) /\ Len(a) = 3 /\ a[1] = u /\ a[2] = v /\ a[3] = w
  BY <1>1
<1>3. c \in Seq(S) /\ Len(c) = 3 /\ c[1] = u /\ c[2] = v /\ c[3] = w
  BY <1>1
<1> HIDE DEF a, c
<1>4. \A i \in 1..3 : i = 1 \/ i = 2 \/ i = 3
  OBVIOUS
<1>5. \A i \in 1..3 : a[i] = c[i]
  BY <1>2, <1>3, <1>4
<1>6. a = c
  BY <1>2, <1>3, <1>5
<1> QED
  BY <1>6 DEF a, c

\* Where three are joined does not depend on which two are joined first.
LEMMA AnyRegroup ==
  ASSUME NEW s, NEW t, NEW u, IsSequence(s), IsSequence(t), IsSequence(u)
  PROVE  (s \o t) \o u = s \o (t \o u)
<1> DEFINE S == Range(s) \cup Range(t) \cup Range(u)
<1>1. s \in Seq(Range(s)) /\ t \in Seq(Range(t)) /\ u \in Seq(Range(u))
  BY AnySequence
<1>2. s \in Seq(S) /\ t \in Seq(S) /\ u \in Seq(S)
  BY <1>1
<1> HIDE DEF S
<1> QED
  BY ONLY <1>2

-----------------------------------------------------------------------------

Labels == {"arguments", "compose", "load", "consumers", "scan", "json", "html", "echo", "ended"}

\* Which artifacts there are and what the exit code is, by the place the process is at.
ArtifactsInv ==
  /\ dacpac \in Dacpacs
  /\ pc \in Labels
  /\ at \in 1..(Len(Consumers) + 1)
  /\ pc = "scan" => at <= Len(Consumers)
  /\ pc \in {"json", "html", "echo"} => at > Len(Consumers)
  /\ files \in [{"json", "html"} -> {"old", "partial", "new"}]
  /\ pc \in Labels \ {"html", "echo", "ended"} => files["json"] = "old"
  /\ pc \in {"html", "echo"} => files["json"] = "new"
  /\ pc \in Labels \ {"echo", "ended"} => files["html"] = "old"
  /\ pc = "echo" => files["html"] = "new"
  /\ files["html"] # "old" => files["json"] = "new"
  /\ IF pc = "ended"
     THEN /\ exit \in {0, 1, 2, 4}
          /\ exit = 0 => files["json"] = "new" /\ files["html"] = "new" /\ at > Len(Consumers)
          /\ exit \in {2, 4} => files["json"] = "old" /\ files["html"] = "old"
     ELSE exit = NoExit

\* No scan has said of itself that it failed.
ScanInv ==
  /\ IsSequence(hits) /\ IsSequence(notes)
  /\ \A n \in 1..Len(notes) : notes[n] # ScanFailed

\* A consumer that has failed is behind, and has left nothing in the report.
ReportInv ==
  /\ IsSequence(report) /\ IsSequence(warnings)
  /\ \A n \in 1..Len(report) : report[n].consumer \in 1..(at - 1)
  /\ \A m, n \in 1..Len(report) : m < n => report[m].consumer <= report[n].consumer
  /\ \A w \in 1..Len(warnings) : warnings[w].text = ScanFailed =>
       /\ warnings[w].consumer \in 1..(at - 1)
       /\ \A n \in 1..Len(report) : report[n].consumer # warnings[w].consumer

\* A script with errors has a warning as soon as its scan begins.
WarnedInv ==
  \A i \in 1..Len(Consumers) :
    Consumers[i].script = "errors" /\ (i < at \/ (i = at /\ pc = "scan")) =>
      \E w \in 1..Len(warnings) : warnings[w].consumer = i

ScanRunInv == ArtifactsInv /\ ScanInv /\ ReportInv /\ WarnedInv

-----------------------------------------------------------------------------
\* The consumers are a sequence, and no step changes them.
LEMMA ConsumersFacts ==
  ASSUME dacpac \in Dacpacs
  PROVE  Consumers \in Seq(Consumer) /\ Len(Consumers) \in Nat /\ DOMAIN Consumers = 1..Len(Consumers)
<1>1. dacpac \in [Listed -> Seq(Consumer)]
  BY ScanAssumption
<1>2. /\ dacpac["VIEW"] \in Seq(Consumer) /\ dacpac["PROCEDURE"] \in Seq(Consumer)
      /\ dacpac["TABLE_VALUED_FUNCTION"] \in Seq(Consumer) /\ dacpac["SCALAR_FUNCTION"] \in Seq(Consumer)
  BY <1>1 DEF Listed
<1>3. Consumers \in Seq(Consumer)
  BY <1>2 DEF Consumers, EnumTypes
<1> QED
  BY <1>3

LEMMA ConsumersStay ==
  ASSUME dacpac' = dacpac
  PROVE  Consumers' = Consumers
  BY DEF Consumers

-----------------------------------------------------------------------------
\* No task of the finder says that the scan failed.
LEMMA FinderKept ==
  ASSUME ScanInv, FinderStep
  PROVE  ScanInv'
<1>text. \A name : /\ Note("referenced inside CTE", name) # ScanFailed
                   /\ Note("unqualified column", name) # ScanFailed
                   /\ Note("star may include it", name) # ScanFailed
  BY DEF Note, ScanFailed
<1>same. ASSUME hits' = hits, notes' = notes PROVE ScanInv'
  BY <1>same DEF ScanInv
<1>note. ASSUME NEW note, note # ScanFailed, notes' = Append(notes, note), IsSequence(hits') PROVE ScanInv'
  <2>1. /\ IsSequence(notes') /\ Len(notes) \in Nat /\ Len(notes') = Len(notes) + 1
        /\ \A i \in 1..Len(notes) : notes'[i] = notes[i]
        /\ notes'[Len(notes) + 1] = note
    BY <1>note, AnyAppend DEF ScanInv
  <2> QED
    BY <1>note, <2>1 DEF ScanInv
<1>hit. ASSUME NEW hit, hits' = Append(hits, hit) PROVE IsSequence(hits')
  BY <1>hit, AnyAppend DEF ScanInv
<1>1. ASSUME VisitStatements PROVE ScanInv'
  BY <1>1, <1>same DEF VisitStatements
<1>2. ASSUME VisitSelect PROVE ScanInv'
  BY <1>2, <1>same DEF VisitSelect
<1>3. ASSUME VisitCte PROVE ScanInv'
  BY <1>3, <1>same DEF VisitCte
<1>4. ASSUME AfterCte PROVE ScanInv'
  <2>1. hits' = hits /\ (notes' = notes \/ notes' = Append(notes, Note("referenced inside CTE", Task.name)))
    BY <1>4 DEF AfterCte
  <2>2. IsSequence(hits')
    BY <2>1 DEF ScanInv
  <2> QED
    BY <2>1, <2>2, <1>text, <1>same, <1>note
<1>5. ASSUME VisitInsert PROVE ScanInv'
  BY <1>5, <1>same DEF VisitInsert
<1>6. ASSUME VisitUpdate PROVE ScanInv'
  BY <1>6, <1>same DEF VisitUpdate
<1>7. ASSUME VisitMerge PROVE ScanInv'
  BY <1>7, <1>same DEF VisitMerge
<1>8. ASSUME RestoreKind PROVE ScanInv'
  BY <1>8, <1>same DEF RestoreKind
<1>9. ASSUME VisitQuery PROVE ScanInv'
  BY <1>9, <1>same DEF VisitQuery
<1>10. ASSUME CollectTable PROVE ScanInv'
  BY <1>10, <1>same DEF CollectTable
<1>11. ASSUME CollectDerived PROVE ScanInv'
  BY <1>11, <1>same DEF CollectDerived
<1>12. ASSUME AddPlaceholder PROVE ScanInv'
  BY <1>12, <1>same DEF AddPlaceholder
<1>13. ASSUME CollectOther PROVE ScanInv'
  BY <1>13, <1>same DEF CollectOther
<1>14. ASSUME Enter PROVE ScanInv'
  BY <1>14, <1>same DEF Enter
<1>15. ASSUME Leave PROVE ScanInv'
  BY <1>15, <1>same DEF Leave
<1>16. ASSUME MaybeEmitColumn PROVE ScanInv'
  <2>1. hits' = hits \/ \E hit : hits' = Append(hits, hit)
    BY <1>16 DEF MaybeEmitColumn
  <2>2. IsSequence(hits')
    BY <2>1, <1>hit DEF ScanInv
  <2>3. notes' = notes \/ notes' = Append(notes, Note("unqualified column", None))
    BY <1>16 DEF MaybeEmitColumn
  <2>4. CASE notes' = notes
    BY <2>2, <2>4 DEF ScanInv
  <2> QED
    BY <2>2, <2>3, <2>4, <1>text, <1>note
<1>17. ASSUME AssignTarget PROVE ScanInv'
  <2>1. notes' = notes /\ (hits' = hits \/ \E hit : hits' = Append(hits, hit))
    BY <1>17 DEF AssignTarget
  <2>2. IsSequence(hits')
    BY <2>1, <1>hit DEF ScanInv
  <2> QED
    BY <2>1, <2>2 DEF ScanInv
<1>18. ASSUME MapStar PROVE ScanInv'
  <2>1. hits' = hits /\ (notes' = notes \/ notes' = Append(notes, Note("star may include it", None)))
    BY <1>18 DEF MapStar
  <2>2. IsSequence(hits')
    BY <2>1 DEF ScanInv
  <2> QED
    BY <2>1, <2>2, <1>text, <1>same, <1>note
<1> QED
  BY <1>1, <1>2, <1>3, <1>4, <1>5, <1>6, <1>7, <1>8, <1>9, <1>10, <1>11, <1>12, <1>13, <1>14, <1>15,
       <1>16, <1>17, <1>18 DEF FinderStep

LEMMA InitHolds == Init => ScanRunInv
<1> SUFFICES ASSUME Init PROVE ScanRunInv
  OBVIOUS
<1>1. ArtifactsInv
  BY ConsumersFacts DEF Init, ArtifactsInv, Labels, NoExit
<1>2. ScanInv /\ ReportInv
  BY AnyEmpty DEF Init, ScanInv, ReportInv
<1>3. WarnedInv
  BY ConsumersFacts DEF Init, WarnedInv
<1> QED
  BY <1>1, <1>2, <1>3 DEF ScanRunInv

\* Every step keeps the promises about the artifacts and the exit code.
LEMMA ArtifactsKept ==
  ASSUME ArtifactsInv, [Next]_vars
  PROVE  ArtifactsInv'
<1>len. Len(Consumers) \in Nat
  BY ConsumersFacts DEF ArtifactsInv
<1>dac. dacpac' = dacpac
  BY DEF Next, vars, command, outcome, Arguments, Compose, ComposeFails, Load, LoadFails, SkipConsumer,
       ScriptRaises, StartScan, Find, AcceptStatement, AcceptQuery, VisitJoin, CollectHits,
       ScanRaises, AllScanned, Write, WriteFails, Echo
<1>con. Consumers' = Consumers
  BY <1>dac, ConsumersStay
<1> USE DEF ArtifactsInv, Labels, NoExit
<1>0. ASSUME UNCHANGED vars PROVE ArtifactsInv'
  BY <1>0, <1>con DEF vars, command
<1>1. ASSUME Arguments PROVE ArtifactsInv'
  BY <1>1, <1>len, <1>dac, <1>con DEF Arguments, End
<1>2. ASSUME Compose PROVE ArtifactsInv'
  BY <1>2, <1>len, <1>dac, <1>con DEF Compose
<1>3. ASSUME ComposeFails PROVE ArtifactsInv'
  BY <1>3, <1>len, <1>dac, <1>con DEF ComposeFails, End
<1>4. ASSUME Load PROVE ArtifactsInv'
  BY <1>4, <1>len, <1>dac, <1>con DEF Load
<1>5. ASSUME LoadFails PROVE ArtifactsInv'
  BY <1>5, <1>len, <1>dac, <1>con DEF LoadFails, End
<1>6. ASSUME SkipConsumer PROVE ArtifactsInv'
  BY <1>6, <1>len, <1>dac, <1>con DEF SkipConsumer, Remaining
<1>7. ASSUME ScriptRaises PROVE ArtifactsInv'
  BY <1>7, <1>len, <1>dac, <1>con DEF ScriptRaises, End, Remaining
<1>8. ASSUME StartScan PROVE ArtifactsInv'
  BY <1>8, <1>len, <1>dac, <1>con DEF StartScan, Remaining
<1>9. ASSUME Find PROVE ArtifactsInv'
  BY <1>9, <1>len, <1>dac, <1>con DEF Find
<1>10. ASSUME AcceptStatement PROVE ArtifactsInv'
  BY <1>10, <1>len, <1>dac, <1>con DEF AcceptStatement
<1>11. ASSUME AcceptQuery PROVE ArtifactsInv'
  BY <1>11, <1>len, <1>dac, <1>con DEF AcceptQuery
<1>12. ASSUME VisitJoin PROVE ArtifactsInv'
  BY <1>12, <1>len, <1>dac, <1>con DEF VisitJoin
<1>13. ASSUME CollectHits PROVE ArtifactsInv'
  BY <1>13, <1>len, <1>dac, <1>con DEF CollectHits
<1>14. ASSUME ScanRaises PROVE ArtifactsInv'
  BY <1>14, <1>len, <1>dac, <1>con DEF ScanRaises
<1>15. ASSUME AllScanned PROVE ArtifactsInv'
  BY <1>15, <1>len, <1>dac, <1>con DEF AllScanned
<1>16. ASSUME Write PROVE ArtifactsInv'
  BY <1>16, <1>len, <1>dac, <1>con DEF Write
<1>17. ASSUME WriteFails PROVE ArtifactsInv'
  BY <1>17, <1>len, <1>dac, <1>con DEF WriteFails, End
<1>18. ASSUME Echo PROVE ArtifactsInv'
  BY <1>18, <1>len, <1>dac, <1>con DEF Echo, End
<1> QED
  BY <1>0, <1>1, <1>2, <1>3, <1>4, <1>5, <1>6, <1>7, <1>8, <1>9, <1>10, <1>11, <1>12, <1>13, <1>14,
       <1>15, <1>16, <1>17, <1>18 DEF Next

\* Every step keeps the scan's own warnings apart from that of its failure.
LEMMA ScanKept ==
  ASSUME ScanInv, [Next]_vars
  PROVE  ScanInv'
<1>same. ASSUME hits' = hits, notes' = notes PROVE ScanInv'
  BY <1>same DEF ScanInv
<1>none. ASSUME hits' = << >>, notes' = << >> PROVE ScanInv'
  BY <1>none, AnyEmpty DEF ScanInv
<1>0. ASSUME UNCHANGED vars PROVE ScanInv'
  BY <1>0, <1>same DEF vars, scan
<1>1. ASSUME Arguments PROVE ScanInv'
  BY <1>1, <1>same DEF Arguments, scan
<1>2. ASSUME Compose PROVE ScanInv'
  BY <1>2, <1>same DEF Compose, scan
<1>3. ASSUME ComposeFails PROVE ScanInv'
  BY <1>3, <1>same DEF ComposeFails, scan
<1>4. ASSUME Load PROVE ScanInv'
  BY <1>4, <1>same DEF Load, scan
<1>5. ASSUME LoadFails PROVE ScanInv'
  BY <1>5, <1>same DEF LoadFails, scan
<1>6. ASSUME SkipConsumer PROVE ScanInv'
  BY <1>6, <1>same DEF SkipConsumer, scan
<1>7. ASSUME ScriptRaises PROVE ScanInv'
  BY <1>7, <1>same DEF ScriptRaises, scan
<1>8. ASSUME StartScan PROVE ScanInv'
  BY <1>8, <1>none DEF StartScan
<1>9. ASSUME Find PROVE ScanInv'
  BY <1>9, FinderKept DEF Find
<1>10. ASSUME AcceptStatement PROVE ScanInv'
  BY <1>10, <1>same DEF AcceptStatement, scan
<1>11. ASSUME AcceptQuery PROVE ScanInv'
  BY <1>11, <1>same DEF AcceptQuery, scan
<1>12. ASSUME VisitJoin PROVE ScanInv'
  <2>1. notes' = notes /\ \E hit : hits' = Append(hits, hit)
    BY <1>12 DEF VisitJoin
  <2>2. IsSequence(hits')
    BY <2>1, AnyAppend DEF ScanInv
  <2> QED
    BY <2>1, <2>2 DEF ScanInv
<1>13. ASSUME CollectHits PROVE ScanInv'
  BY <1>13, <1>same DEF CollectHits, scan
<1>14. ASSUME ScanRaises PROVE ScanInv'
  BY <1>14, <1>none DEF ScanRaises, Clear
<1>15. ASSUME AllScanned PROVE ScanInv'
  BY <1>15, <1>same DEF AllScanned, scan
<1>16. ASSUME Write PROVE ScanInv'
  BY <1>16, <1>same DEF Write, scan
<1>17. ASSUME WriteFails PROVE ScanInv'
  BY <1>17, <1>same DEF WriteFails, scan
<1>18. ASSUME Echo PROVE ScanInv'
  BY <1>18, <1>same DEF Echo, scan
<1> QED
  BY <1>0, <1>1, <1>2, <1>3, <1>4, <1>5, <1>6, <1>7, <1>8, <1>9, <1>10, <1>11, <1>12, <1>13, <1>14,
       <1>15, <1>16, <1>17, <1>18 DEF Next

\* What By and Extended make of the sequences they are given.
LEMMA ByFacts ==
  ASSUME NEW texts, IsSequence(texts)
  PROVE  /\ IsSequence(By(texts)) /\ Len(By(texts)) = Len(texts) /\ Len(texts) \in Nat
         /\ \A i \in 1..Len(texts) : By(texts)[i].consumer = at /\ By(texts)[i].text = texts[i]
<1> DEFINE V == {By(texts)[i] : i \in DOMAIN texts}
<1>1. By(texts) \in [DOMAIN texts -> V]
  BY DEF By
<1> HIDE DEF V
<1>2. /\ IsSequence(By(texts)) /\ Len(By(texts)) = Len(texts) /\ Len(texts) \in Nat
      /\ DOMAIN texts = 1..Len(texts)
  BY <1>1, AnyMap
<1> QED
  BY <1>2 DEF By

\* One more warning, or several, of the consumer at hand: those before stay.
LEMMA WarningsGrow ==
  ASSUME IsSequence(warnings), NEW texts, IsSequence(texts), warnings' = warnings \o By(texts)
  PROVE  /\ IsSequence(warnings') /\ Len(warnings) \in Nat /\ Len(texts) \in Nat
         /\ Len(warnings') = Len(warnings) + Len(texts)
         /\ \A w \in 1..Len(warnings) : warnings'[w] = warnings[w]
         /\ \A w \in (Len(warnings) + 1)..Len(warnings') :
              /\ warnings'[w].consumer = at
              /\ \E i \in 1..Len(texts) : warnings'[w].text = texts[i]
         /\ \A i \in 1..Len(texts) : /\ warnings'[Len(warnings) + i].consumer = at
                                     /\ warnings'[Len(warnings) + i].text = texts[i]
<1> DEFINE more == By(texts)
<1>1. /\ IsSequence(more) /\ Len(more) = Len(texts) /\ Len(texts) \in Nat
      /\ \A i \in 1..Len(texts) : more[i].consumer = at /\ more[i].text = texts[i]
  BY ByFacts
<1> HIDE DEF more
<1>2. warnings' = warnings \o more
  BY DEF more
<1>3. /\ IsSequence(warnings') /\ Len(warnings) \in Nat /\ Len(warnings') = Len(warnings) + Len(more)
      /\ \A w \in 1..Len(warnings) : warnings'[w] = warnings[w]
      /\ \A i \in 1..Len(more) : warnings'[Len(warnings) + i] = more[i]
  <2>1. IsSequence(warnings) /\ IsSequence(more)
    BY <1>1
  <2> QED
    BY ONLY <1>2, <2>1, AnyConcat
<1>4. ASSUME NEW w \in (Len(warnings) + 1)..Len(warnings')
      PROVE  warnings'[w].consumer = at /\ \E i \in 1..Len(texts) : warnings'[w].text = texts[i]
  <2>1. w - Len(warnings) \in 1..Len(texts) /\ Len(warnings) + (w - Len(warnings)) = w
    BY <1>1, <1>3
  <2>2. warnings'[w] = more[w - Len(warnings)]
    BY <1>1, <1>3, <2>1
  <2> QED
    BY <1>1, <2>1, <2>2
<1> QED
  BY <1>1, <1>3, <1>4

\* What a step that warns adds.
LEMMA StartWarns ==
  ASSUME ScanRunInv, StartScan
  PROVE  \E texts : /\ IsSequence(texts) /\ warnings' = warnings \o By(texts)
                    /\ \A i \in 1..Len(texts) : texts[i] # ScanFailed
                    /\ This.script = "errors" => Len(texts) = 1
<1>1. Note("parse errors", None) # ScanFailed
  BY DEF Note, ScanFailed
<1>2. /\ IsSequence(<<Note("parse errors", None)>>) /\ Len(<<Note("parse errors", None)>>) = 1
      /\ \A i \in 1..Len(<<Note("parse errors", None)>>) : <<Note("parse errors", None)>>[i] # ScanFailed
  BY <1>1, AnySingle
<1>3. warnings' = warnings \o By(IF This.script = "parses" THEN << >> ELSE <<Note("parse errors", None)>>)
  BY DEF StartScan
<1>4. CASE This.script = "parses"
  <2>1. warnings' = warnings \o By(<< >>)
    BY <1>3, <1>4
  <2>2. This.script # "errors" /\ 1..Len(<< >>) = {}
    BY <1>4, AnyEmpty
  <2> QED
    BY <2>1, <2>2, AnyEmpty
<1>5. CASE This.script # "parses"
  <2>1. warnings' = warnings \o By(<<Note("parse errors", None)>>)
    BY <1>3, <1>5
  <2> QED
    BY <1>2, <2>1, Zenon
<1> QED
  BY <1>4, <1>5

LEMMA FailureWarns ==
  ASSUME ScanRaises
  PROVE  \E texts : /\ IsSequence(texts) /\ warnings' = warnings \o By(texts)
                    /\ Len(texts) = 1 /\ texts[1] = ScanFailed
<1> DEFINE texts == <<ScanFailed>>
<1>1. texts \in Seq({ScanFailed}) /\ Len(texts) = 1 /\ texts[1] = ScanFailed
  OBVIOUS
<1>2. IsSequence(texts)
  BY <1>1 DEF IsSequence
<1>3. warnings' = warnings \o By(texts)
  BY DEF ScanRaises
<1> QED
  BY <1>1, <1>2, <1>3

\* What CollectHits adds to the report is of the consumer at hand.
LEMMA ReportGrows ==
  ASSUME IsSequence(report), IsSequence(hits), CollectHits
  PROVE  /\ IsSequence(report') /\ Len(report) \in Nat /\ Len(report') \in Nat
         /\ Len(report) <= Len(report')
         /\ \A n \in 1..Len(report) : report'[n] = report[n]
         /\ \A n \in (Len(report) + 1)..Len(report') : report'[n].consumer = at
         /\ Len(hits) \in Nat /\ Len(report') = Len(report) + Len(hits)
         /\ \A i \in 1..Len(hits) : report'[Len(report) + i] = Entry(at, hits[i])
<1> DEFINE new == [i \in DOMAIN hits |-> Entry(at, hits[i])]
<1> DEFINE V == {new[i] : i \in DOMAIN hits}
<1>1. new \in [DOMAIN hits -> V] /\ \A i \in DOMAIN hits : new[i].consumer = at /\ new[i] = Entry(at, hits[i])
  BY DEF Entry
<1>2. report' = report \o new
  BY DEF CollectHits, Extended
<1> HIDE DEF new, V
<1>3. IsSequence(new) /\ Len(new) = Len(hits) /\ Len(hits) \in Nat /\ DOMAIN hits = 1..Len(hits)
  BY <1>1, AnyMap
<1>4. /\ IsSequence(report') /\ Len(report) \in Nat /\ Len(report') = Len(report) + Len(new)
      /\ \A n \in 1..Len(report) : report'[n] = report[n]
      /\ \A i \in 1..Len(new) : report'[Len(report) + i] = new[i]
  <2>1. IsSequence(report) /\ IsSequence(new)
    BY <1>3
  <2> QED
    BY ONLY <1>2, <2>1, AnyConcat
<1>5. ASSUME NEW n \in (Len(report) + 1)..Len(report') PROVE report'[n].consumer = at
  <2>1. n - Len(report) \in 1..Len(new) /\ Len(report) + (n - Len(report)) = n
    BY <1>3, <1>4
  <2>2. report'[n] = new[n - Len(report)]
    BY <1>3, <1>4, <2>1
  <2> QED
    BY <1>1, <1>3, <2>1, <2>2
<1> QED
  BY <1>1, <1>3, <1>4, <1>5

\* Every step keeps the report in order and failed consumers out of it.
LEMMA ReportKept ==
  ASSUME ScanRunInv, [Next]_vars
  PROVE  ReportInv'
<1>at. at \in Nat \ {0}
  BY ConsumersFacts DEF ScanRunInv, ArtifactsInv
<1>quiet. ASSUME report' = report, warnings' = warnings, at' = at \/ at' = at + 1 PROVE ReportInv'
  BY <1>quiet, <1>at DEF ScanRunInv, ReportInv
<1>0. ASSUME UNCHANGED vars PROVE ReportInv'
  BY <1>0, <1>quiet DEF vars, outcome
<1>1. ASSUME Arguments PROVE ReportInv'
  BY <1>1, <1>quiet DEF Arguments, outcome
<1>2. ASSUME Compose PROVE ReportInv'
  BY <1>2, <1>quiet DEF Compose, outcome
<1>3. ASSUME ComposeFails PROVE ReportInv'
  BY <1>3, <1>quiet DEF ComposeFails, outcome
<1>4. ASSUME Load PROVE ReportInv'
  BY <1>4, <1>quiet DEF Load, outcome
<1>5. ASSUME LoadFails PROVE ReportInv'
  BY <1>5, <1>quiet DEF LoadFails, outcome
<1>6. ASSUME SkipConsumer PROVE ReportInv'
  BY <1>6, <1>quiet DEF SkipConsumer, outcome
<1>7. ASSUME ScriptRaises PROVE ReportInv'
  BY <1>7, <1>quiet DEF ScriptRaises, outcome
<1>8. ASSUME StartScan PROVE ReportInv'
  <2>1. PICK texts : /\ IsSequence(texts) /\ warnings' = warnings \o By(texts)
                     /\ \A i \in 1..Len(texts) : texts[i] # ScanFailed
    BY <1>8, StartWarns
  <2>g. /\ IsSequence(warnings') /\ Len(warnings) \in Nat /\ Len(texts) \in Nat
        /\ Len(warnings') = Len(warnings) + Len(texts)
        /\ \A w \in 1..Len(warnings) : warnings'[w] = warnings[w]
        /\ \A w \in (Len(warnings) + 1)..Len(warnings') : \E i \in 1..Len(texts) : warnings'[w].text = texts[i]
    BY <2>1, WarningsGrow DEF ScanRunInv, ReportInv
  <2>2. /\ IsSequence(warnings') /\ Len(warnings) \in Nat /\ Len(warnings') \in Nat
        /\ \A w \in 1..Len(warnings) : warnings'[w] = warnings[w]
        /\ \A w \in (Len(warnings) + 1)..Len(warnings') : warnings'[w].text # ScanFailed
    BY <2>1, <2>g
  <2>3. report' = report /\ at' = at
    BY <1>8 DEF StartScan
  <2>4. \A w \in 1..Len(warnings') : warnings'[w].text = ScanFailed => w \in 1..Len(warnings)
    BY <2>2
  <2> QED
    BY <2>2, <2>3, <2>4 DEF ScanRunInv, ReportInv
<1>9. ASSUME Find PROVE ReportInv'
  BY <1>9, <1>quiet DEF Find, outcome
<1>10. ASSUME AcceptStatement PROVE ReportInv'
  BY <1>10, <1>quiet DEF AcceptStatement, outcome
<1>11. ASSUME AcceptQuery PROVE ReportInv'
  BY <1>11, <1>quiet DEF AcceptQuery, outcome
<1>12. ASSUME VisitJoin PROVE ReportInv'
  BY <1>12, <1>quiet DEF VisitJoin, outcome
<1>13. ASSUME CollectHits PROVE ReportInv'
  <2>1. /\ IsSequence(report') /\ Len(report) \in Nat /\ Len(report') \in Nat
        /\ Len(report) <= Len(report')
        /\ \A n \in 1..Len(report) : report'[n] = report[n]
        /\ \A n \in (Len(report) + 1)..Len(report') : report'[n].consumer = at
    BY <1>13, ReportGrows DEF ScanRunInv, ScanInv, ReportInv
  <2>2. warnings' = warnings \o By(notes) /\ at' = at + 1
    BY <1>13 DEF CollectHits
  <2>n. IsSequence(notes) /\ \A i \in 1..Len(notes) : notes[i] # ScanFailed
    BY DEF ScanRunInv, ScanInv
  <2>g. /\ IsSequence(warnings') /\ Len(warnings) \in Nat /\ Len(notes) \in Nat
        /\ Len(warnings') = Len(warnings) + Len(notes)
        /\ \A w \in 1..Len(warnings) : warnings'[w] = warnings[w]
        /\ \A w \in (Len(warnings) + 1)..Len(warnings') : \E i \in 1..Len(notes) : warnings'[w].text = notes[i]
    BY <2>2, <2>n, WarningsGrow DEF ScanRunInv, ReportInv
  <2>3. /\ IsSequence(warnings') /\ Len(warnings) \in Nat /\ Len(warnings') \in Nat
        /\ \A w \in 1..Len(warnings) : warnings'[w] = warnings[w]
        /\ \A w \in (Len(warnings) + 1)..Len(warnings') : warnings'[w].text # ScanFailed
    BY <2>n, <2>g
  <2>4. \A w \in 1..Len(warnings') : warnings'[w].text = ScanFailed => w \in 1..Len(warnings)
    BY <2>3
  <2>5. \A n \in 1..Len(report') :
          \/ n \in 1..Len(report) /\ report'[n] = report[n] /\ report[n].consumer \in 1..(at - 1)
          \/ n > Len(report) /\ report'[n].consumer = at
    BY <2>1 DEF ScanRunInv, ReportInv
  <2>6. \A n \in 1..Len(report') : report'[n].consumer \in 1..(at' - 1)
    BY <1>at, <2>2, <2>5
  <2>7. \A m, n \in 1..Len(report') : m < n => report'[m].consumer <= report'[n].consumer
    <3> SUFFICES ASSUME NEW m \in 1..Len(report'), NEW n \in 1..Len(report'), m < n
                 PROVE  report'[m].consumer <= report'[n].consumer
      OBVIOUS
    <3>1. CASE n \in 1..Len(report)
      BY <2>1, <3>1 DEF ScanRunInv, ReportInv
    <3>2. CASE n \notin 1..Len(report)
      BY <1>at, <2>1, <2>5, <3>2
    <3> QED
      BY <3>1, <3>2
  <2>8. ASSUME NEW w \in 1..Len(warnings'), warnings'[w].text = ScanFailed
        PROVE  /\ warnings'[w].consumer \in 1..(at' - 1)
               /\ \A n \in 1..Len(report') : report'[n].consumer # warnings'[w].consumer
    <3>1. /\ w \in 1..Len(warnings) /\ warnings'[w] = warnings[w]
          /\ warnings[w].consumer \in 1..(at - 1)
          /\ \A n \in 1..Len(report) : report[n].consumer # warnings[w].consumer
      BY <2>3, <2>4, <2>8 DEF ScanRunInv, ReportInv
    <3>2. warnings'[w].consumer \in 1..(at' - 1) /\ warnings'[w].consumer # at
      BY <1>at, <2>2, <3>1
    <3>3. \A n \in 1..Len(report') : report'[n].consumer # warnings'[w].consumer
      BY <2>5, <3>1, <3>2
    <3> QED
      BY <3>2, <3>3
  <2> QED
    BY <2>1, <2>3, <2>6, <2>7, <2>8 DEF ReportInv
<1>14. ASSUME ScanRaises PROVE ReportInv'
  <2>1. PICK texts : IsSequence(texts) /\ warnings' = warnings \o By(texts)
    BY <1>14, FailureWarns
  <2>g. /\ IsSequence(warnings') /\ Len(warnings) \in Nat /\ Len(texts) \in Nat
        /\ Len(warnings') = Len(warnings) + Len(texts)
        /\ \A w \in 1..Len(warnings) : warnings'[w] = warnings[w]
        /\ \A w \in (Len(warnings) + 1)..Len(warnings') : warnings'[w].consumer = at
    BY <2>1, WarningsGrow DEF ScanRunInv, ReportInv
  <2>2. /\ IsSequence(warnings') /\ Len(warnings) \in Nat /\ Len(warnings') \in Nat
        /\ \A w \in 1..Len(warnings) : warnings'[w] = warnings[w]
        /\ \A w \in (Len(warnings) + 1)..Len(warnings') : warnings'[w].consumer = at
    BY <2>g
  <2>3. report' = report /\ at' = at + 1
    BY <1>14 DEF ScanRaises
  <2>4. \A w \in 1..Len(warnings') : w \in 1..Len(warnings) \/ warnings'[w].consumer = at
    BY <2>2
  <2>5. \A n \in 1..Len(report) : report[n].consumer # at /\ report[n].consumer \in 1..(at' - 1)
    BY <1>at, <2>3 DEF ScanRunInv, ReportInv
  <2> QED
    BY <1>at, <2>2, <2>3, <2>4, <2>5 DEF ScanRunInv, ReportInv
<1>15. ASSUME AllScanned PROVE ReportInv'
  BY <1>15, <1>quiet DEF AllScanned, outcome
<1>16. ASSUME Write PROVE ReportInv'
  BY <1>16, <1>quiet DEF Write, outcome
<1>17. ASSUME WriteFails PROVE ReportInv'
  BY <1>17, <1>quiet DEF WriteFails, outcome
<1>18. ASSUME Echo PROVE ReportInv'
  BY <1>18, <1>quiet DEF Echo, outcome
<1> QED
  BY <1>0, <1>1, <1>2, <1>3, <1>4, <1>5, <1>6, <1>7, <1>8, <1>9, <1>10, <1>11, <1>12, <1>13, <1>14,
       <1>15, <1>16, <1>17, <1>18 DEF Next

\* Every step keeps it that a script with errors has a warning.
LEMMA WarnedKept ==
  ASSUME ScanRunInv, [Next]_vars
  PROVE  WarnedInv'
<1>len. Len(Consumers) \in Nat /\ DOMAIN Consumers = 1..Len(Consumers) /\ at \in 1..(Len(Consumers) + 1)
  BY ConsumersFacts DEF ScanRunInv, ArtifactsInv
<1>dac. dacpac' = dacpac
  BY DEF Next, vars, command, outcome, Arguments, Compose, ComposeFails, Load, LoadFails, SkipConsumer,
       ScriptRaises, StartScan, Find, AcceptStatement, AcceptQuery, VisitJoin, CollectHits,
       ScanRaises, AllScanned, Write, WriteFails, Echo
<1>con. Consumers' = Consumers
  BY <1>dac, ConsumersStay
\* No warning is taken back, and no consumer is begun or passed that needs one.
<1>grow. ASSUME NEW texts, IsSequence(texts), warnings' = warnings \o By(texts)
         PROVE  \A i \in 1..Len(Consumers) :
                  (\E w \in 1..Len(warnings) : warnings[w].consumer = i) =>
                  \E w \in 1..Len(warnings') : warnings'[w].consumer = i
  <2>1. /\ Len(warnings) \in Nat /\ Len(texts) \in Nat /\ Len(warnings') = Len(warnings) + Len(texts)
        /\ \A w \in 1..Len(warnings) : warnings'[w] = warnings[w]
    BY <1>grow, WarningsGrow DEF ScanRunInv, ReportInv
  <2> QED
    BY <2>1
<1>quiet. ASSUME warnings' = warnings, at' = at, pc' # "scan" \/ pc = "scan" PROVE WarnedInv'
  BY <1>quiet, <1>len, <1>con DEF ScanRunInv, WarnedInv
\* The scan of the consumer at hand is over.
<1>next. ASSUME NEW texts, IsSequence(texts), warnings' = warnings \o By(texts), pc = "scan", at' = at + 1,
                pc' = "consumers"
         PROVE  WarnedInv'
  <2> SUFFICES ASSUME NEW i \in 1..Len(Consumers), Consumers[i].script = "errors", i < at'
               PROVE  \E w \in 1..Len(warnings') : warnings'[w].consumer = i
    BY <1>con, <1>next DEF WarnedInv
  <2>1. i < at \/ (i = at /\ pc = "scan")
    BY <1>len, <1>next
  <2>2. \E w \in 1..Len(warnings) : warnings[w].consumer = i
    BY <2>1 DEF ScanRunInv, WarnedInv
  <2> QED
    BY <2>2, <1>next, <1>grow
<1>0. ASSUME UNCHANGED vars PROVE WarnedInv'
  BY <1>0, <1>quiet DEF vars, outcome
<1>1. ASSUME Arguments PROVE WarnedInv'
  BY <1>1, <1>quiet DEF Arguments, outcome, End
<1>2. ASSUME Compose PROVE WarnedInv'
  BY <1>2, <1>quiet DEF Compose, outcome
<1>3. ASSUME ComposeFails PROVE WarnedInv'
  BY <1>3, <1>quiet DEF ComposeFails, outcome, End
<1>4. ASSUME Load PROVE WarnedInv'
  BY <1>4, <1>quiet DEF Load, outcome
<1>5. ASSUME LoadFails PROVE WarnedInv'
  BY <1>5, <1>quiet DEF LoadFails, outcome, End
<1>6. ASSUME SkipConsumer PROVE WarnedInv'
  <2>1. warnings' = warnings /\ at' = at + 1 /\ pc' = "consumers" /\ Consumers[at].script = "none"
    BY <1>6 DEF SkipConsumer, Remaining, This, outcome
  <2> QED
    BY <1>len, <1>con, <2>1 DEF ScanRunInv, WarnedInv
<1>7. ASSUME ScriptRaises PROVE WarnedInv'
  BY <1>7, <1>quiet DEF ScriptRaises, outcome, End
<1>8. ASSUME StartScan PROVE WarnedInv'
  <2>1. PICK texts : /\ IsSequence(texts) /\ warnings' = warnings \o By(texts)
                     /\ This.script = "errors" => Len(texts) = 1
    BY <1>8, StartWarns
  <2>2. /\ Len(warnings) \in Nat /\ Len(texts) \in Nat /\ Len(warnings') = Len(warnings) + Len(texts)
        /\ \A w \in (Len(warnings) + 1)..Len(warnings') : warnings'[w].consumer = at
    BY <2>1, WarningsGrow DEF ScanRunInv, ReportInv
  <2>3. at' = at /\ pc = "consumers" /\ pc' = "scan"
    BY <1>8 DEF StartScan, Remaining
  <2>4. Consumers[at].script = "errors" => \E w \in 1..Len(warnings') : warnings'[w].consumer = at
    <3> SUFFICES ASSUME Consumers[at].script = "errors"
                 PROVE  \E w \in 1..Len(warnings') : warnings'[w].consumer = at
      OBVIOUS
    <3>1. Len(warnings') = Len(warnings) + 1
      BY <2>1, <2>2 DEF This
    <3>2. /\ Len(warnings') \in 1..Len(warnings')
          /\ Len(warnings') \in (Len(warnings) + 1)..Len(warnings')
      BY <2>2, <3>1
    <3> QED
      BY <2>2, <3>2
  <2> SUFFICES ASSUME NEW i \in 1..Len(Consumers), Consumers[i].script = "errors", i < at \/ i = at
               PROVE  \E w \in 1..Len(warnings') : warnings'[w].consumer = i
    BY <1>con, <2>3 DEF WarnedInv
  <2>5. CASE i < at
    BY <1>grow, <2>1, <2>5 DEF ScanRunInv, WarnedInv
  <2>6. CASE i = at
    BY <2>4, <2>6
  <2> QED
    BY <2>5, <2>6
<1>9. ASSUME Find PROVE WarnedInv'
  BY <1>9, <1>quiet DEF Find, outcome
<1>10. ASSUME AcceptStatement PROVE WarnedInv'
  BY <1>10, <1>quiet DEF AcceptStatement, outcome
<1>11. ASSUME AcceptQuery PROVE WarnedInv'
  BY <1>11, <1>quiet DEF AcceptQuery, outcome
<1>12. ASSUME VisitJoin PROVE WarnedInv'
  BY <1>12, <1>quiet DEF VisitJoin, outcome
<1>13. ASSUME CollectHits PROVE WarnedInv'
  <2>1. pc = "scan" /\ at' = at + 1 /\ pc' = "consumers"
    BY <1>13 DEF CollectHits
  <2>2. \E texts : IsSequence(texts) /\ warnings' = warnings \o By(texts)
    BY <1>13 DEF CollectHits, ScanRunInv, ScanInv
  <2> QED
    BY <1>next, <2>1, <2>2
<1>14. ASSUME ScanRaises PROVE WarnedInv'
  <2>1. pc = "scan" /\ at' = at + 1 /\ pc' = "consumers"
    BY <1>14 DEF ScanRaises
  <2>2. \E texts : IsSequence(texts) /\ warnings' = warnings \o By(texts)
    BY <1>14, FailureWarns
  <2> QED
    BY <1>next, <2>1, <2>2
<1>15. ASSUME AllScanned PROVE WarnedInv'
  BY <1>15, <1>quiet DEF AllScanned, outcome
<1>16. ASSUME Write PROVE WarnedInv'
  BY <1>16, <1>quiet DEF Write, outcome
<1>17. ASSUME WriteFails PROVE WarnedInv'
  BY <1>17, <1>quiet DEF WriteFails, outcome, End
<1>18. ASSUME Echo PROVE WarnedInv'
  BY <1>18, <1>quiet DEF Echo, outcome, End
<1> QED
  BY <1>0, <1>1, <1>2, <1>3, <1>4, <1>5, <1>6, <1>7, <1>8, <1>9, <1>10, <1>11, <1>12, <1>13, <1>14,
       <1>15, <1>16, <1>17, <1>18 DEF Next

-----------------------------------------------------------------------------
\* The inductive invariant holds in every state of every run.
LEMMA ScanInvariant == Spec => []ScanRunInv
<1>1. ScanRunInv /\ [Next]_vars => ScanRunInv'
  BY ArtifactsKept, ScanKept, ReportKept, WarnedKept DEF ScanRunInv
<1> QED
  BY InitHolds, <1>1, PTL DEF Spec

\* Whatever the dacpac: the process is at one of its places, the position stays
\* among the consumers, and every citation is of one of them.
THEOREM TypeCorrect == Spec => []TypeOK
<1>1. ScanRunInv => TypeOK
  <2> SUFFICES ASSUME ScanRunInv PROVE TypeOK
    OBVIOUS
  <2>1. DOMAIN report = 1..Len(report)
    BY DEF ScanRunInv, ReportInv, IsSequence
  <2>2. DOMAIN Consumers = 1..Len(Consumers) /\ Len(Consumers) \in Nat
    BY ConsumersFacts DEF ScanRunInv, ArtifactsInv
  <2>3. \A n \in DOMAIN report : report[n].consumer \in DOMAIN Consumers
    BY <2>1, <2>2 DEF ScanRunInv, ArtifactsInv, ReportInv
  <2> QED
    BY <2>3 DEF TypeOK, ScanRunInv, ArtifactsInv, Labels, NoExit
<1> QED
  BY ScanInvariant, <1>1, PTL

\* Whichever scan raises, and wherever: its consumer has nothing in the report, the
\* others keep theirs in order, and no script with errors goes without a warning.
THEOREM FailuresAlwaysStayLocal == Spec => []FailuresStayLocal
<1>1. ScanRunInv => FailuresStayLocal
  <2> SUFFICES ASSUME ScanRunInv PROVE FailuresStayLocal
    OBVIOUS
  <2>1. DOMAIN report = 1..Len(report) /\ DOMAIN warnings = 1..Len(warnings)
    BY DEF ScanRunInv, ReportInv, IsSequence
  <2>2. DOMAIN Consumers = 1..Len(Consumers) /\ Len(Consumers) \in Nat
    BY ConsumersFacts DEF ScanRunInv, ArtifactsInv
  <2>3. \A i, x : x \in Texts(i) <=> \E w \in 1..Len(warnings) : warnings[w].consumer = i /\ warnings[w].text = x
    BY <2>1 DEF Texts, Range
  <2>4. \A i \in DOMAIN Consumers : ScanFailed \in Texts(i) => i \notin {report[n].consumer : n \in DOMAIN report}
    BY <2>1, <2>3 DEF ScanRunInv, ReportInv
  <2>5. \A m, n \in DOMAIN report : m < n => report[m].consumer <= report[n].consumer
    BY <2>1 DEF ScanRunInv, ReportInv
  <2>6. exit = 0 => at > Len(Consumers)
    BY DEF ScanRunInv, ArtifactsInv, NoExit
  <2>7. ASSUME exit = 0, NEW i \in DOMAIN Consumers, Consumers[i].script = "errors"
        PROVE  Texts(i) # {}
    <3>1. i < at /\ i \in 1..Len(Consumers)
      BY <2>2, <2>6, <2>7 DEF ScanRunInv, ArtifactsInv
    <3>2. PICK w \in 1..Len(warnings) : warnings[w].consumer = i
      BY <2>7, <3>1 DEF ScanRunInv, WarnedInv
    <3>3. warnings[w].text \in Texts(i)
      BY <2>3, <3>2
    <3> QED
      BY <3>3
  <2> QED
    BY <2>4, <2>5, <2>7 DEF FailuresStayLocal
<1> QED
  BY ScanInvariant, <1>1, PTL

\* Exit 0 means that every consumer was passed and both artifacts are of this run; a
\* refused command leaves those there were, and no HTML is newer than its JSON.
THEOREM ExitCodeAlwaysTruthful == Spec => []ExitCodeTruthful
<1>1. ScanRunInv => ExitCodeTruthful
  <2> SUFFICES ASSUME ScanRunInv PROVE ExitCodeTruthful
    OBVIOUS
  <2>1. files \in [{"json", "html"} -> {"old", "partial", "new"}]
    BY DEF ScanRunInv, ArtifactsInv
  <2>2. /\ exit = 0 => files["json"] = "new" /\ files["html"] = "new" /\ at > Len(Consumers)
        /\ exit \in {2, 4} => files["json"] = "old" /\ files["html"] = "old"
        /\ files["html"] # "old" => files["json"] = "new"
    BY DEF ScanRunInv, ArtifactsInv, NoExit
  <2> QED
    BY <2>1, <2>2 DEF ExitCodeTruthful
<1> QED
  BY ScanInvariant, <1>1, PTL

-----------------------------------------------------------------------------
(* What a query is made of: the recursive definition BuiltFrom computes    *)
(* what can be reached.                                                    *)

\* What can be reached from x, where next gives the successors of each.
Reach(next, x) ==
  {y \in DOMAIN next : \A W \in SUBSET DOMAIN next : x \in W /\ (\A z \in W : next[z] \subseteq W) => y \in W}

\* What can be reached is the point itself and what its successors reach.
LEMMA ReachUnfolds ==
  ASSUME NEW D, NEW next \in [D -> SUBSET D], NEW x \in D
  PROVE  Reach(next, x) = {x} \cup UNION {Reach(next, y) : y \in next[x]}
<1> DEFINE Closed(W) == \A z \in W : next[z] \subseteq W
           Here(a) == {y \in D : \A W \in SUBSET D : a \in W /\ Closed(W) => y \in W}
<1>1. \A a : Reach(next, a) = Here(a)
  BY DEF Reach
<1>2. \A z \in D : next[z] \subseteq D
  OBVIOUS
<1>3. \A a \in D : a \in Here(a) /\ Here(a) \subseteq D
  OBVIOUS
<1>4. ASSUME NEW a \in D PROVE Closed(Here(a))
  <2> SUFFICES ASSUME NEW y \in Here(a), NEW z \in next[y] PROVE z \in Here(a)
    OBVIOUS
  <2>1. z \in D
    BY <1>2
  <2>2. ASSUME NEW W \in SUBSET D, a \in W, Closed(W) PROVE z \in W
    <3>1. y \in W
      BY <2>2
    <3> QED
      BY <2>2, <3>1
  <2> QED
    BY <2>1, <2>2
<1>5. ASSUME NEW a \in D, NEW W \in SUBSET D, a \in W, Closed(W) PROVE Here(a) \subseteq W
  BY <1>5
<1>6. \A y \in next[x] : y \in D
  BY <1>2
<1>7. x \in Here(x)
  BY <1>3
<1> DEFINE U == {x} \cup UNION {Here(y) : y \in next[x]}
<1>8. U \subseteq Here(x)
  <2>1. ASSUME NEW y \in next[x] PROVE Here(y) \subseteq Here(x)
    <3>1. y \in Here(x) /\ Here(x) \in SUBSET D /\ Closed(Here(x))
      BY <1>3, <1>4, <1>7
    <3> HIDE DEF Here, Closed
    <3> QED
      BY <1>5, <1>6, <3>1
  <2> HIDE DEF Here
  <2> QED
    BY <1>7, <2>1
<1>9. U \in SUBSET D /\ Closed(U)
  <2>1. U \in SUBSET D
    <3> HIDE DEF Here
    <3> QED
      BY <1>3, <1>6
  <2>2. ASSUME NEW z \in U PROVE next[z] \subseteq U
    <3>1. CASE z = x
      <4>1. \A y \in next[x] : y \in Here(y)
        BY <1>3, <1>6
      <4> HIDE DEF Here
      <4> QED
        BY <3>1, <4>1
    <3>2. CASE z # x
      <4>1. PICK y \in next[x] : z \in Here(y)
        BY <3>2
      <4>2. next[z] \subseteq Here(y)
        BY <1>4, <1>6, <4>1
      <4> HIDE DEF Here
      <4> QED
        BY <4>2
    <3> QED
      BY <3>1, <3>2
  <2> QED
    BY <2>1, <2>2
<1>10. Here(x) \subseteq U
  <2> HIDE DEF Here, U, Closed
  <2>1. x \in U
    BY DEF U
  <2> QED
    BY <1>5, <1>9, <2>1
<1> QED
  BY <1>1, <1>8, <1>10

Collects(g, D, next, base) == g = [x \in D |-> base[x] \cup UNION {g[y] : y \in next[x]}]

\* Collecting over a tree ends: there is a function that adds to what is at a point
\* what is collected at its successors.
LEMMA TreeRuns ==
  ASSUME NEW D, NEW S, NEW next \in [D -> SUBSET D], NEW base \in [D -> SUBSET S]
  PROVE  \E g : Collects(g, D, next, base)
<1> DEFINE At(x) == UNION {base[y] : y \in Reach(next, x)}
           g == [x \in D |-> At(x)]
<1>1. ASSUME NEW x \in D PROVE At(x) = base[x] \cup UNION {g[y] : y \in next[x]}
  <2>1. Reach(next, x) = {x} \cup UNION {Reach(next, y) : y \in next[x]}
    BY ReachUnfolds
  <2>2. \A y \in next[x] : g[y] = At(y)
    OBVIOUS
  <2>3. UNION {g[y] : y \in next[x]} = UNION {At(y) : y \in next[x]}
    <3> HIDE DEF At
    <3> QED
      BY <2>2
  <2>4. At(x) = base[x] \cup UNION {At(y) : y \in next[x]}
    <3> DEFINE R(y) == Reach(next, y)
    <3>1. R(x) = {x} \cup UNION {R(y) : y \in next[x]}
      BY <2>1
    <3> HIDE DEF R
    <3>2. \A b : b \in UNION {base[y] : y \in R(x)}
                 <=> b \in base[x] \/ \E y \in next[x] : b \in UNION {base[z] : z \in R(y)}
      BY <3>1
    <3> QED
      BY <3>2 DEF R
  <2> QED
    BY <2>3, <2>4
<1>2. g = [x \in D |-> base[x] \cup UNION {g[y] : y \in next[x]}]
  <2> HIDE DEF g, At
  <2>1. g = [x \in D |-> g[x]] /\ \A x \in D : g[x] = At(x)
    BY DEF g
  <2> QED
    BY <1>1, <2>1
<1> QED
  BY <1>2 DEF Collects

-----------------------------------------------------------------------------
\* A query is made of queries of lower position.
Layers(queries) == \A n \in 1..Len(queries) : Parts(queries[n]) \subseteq 1..(n - 1)

\* A part is a query of the same body, and of lower position.
LEMMA PartBelow ==
  ASSUME NEW Q, NEW queries \in Seq(Q), Layers(queries)
  PROVE  \A n \in 1..Len(queries) : \A p \in Parts(queries[n]) : p \in 1..Len(queries) /\ p < n
<1>1. SUFFICES ASSUME NEW n \in 1..Len(queries), NEW p \in Parts(queries[n])
               PROVE  p \in 1..Len(queries) /\ p < n
  OBVIOUS
<1>2. Len(queries) \in Nat
  OBVIOUS
<1>3. p \in 1..(n - 1)
  BY <1>1 DEF Layers
<1> QED
  BY <1>2, <1>3

\* A query is built from itself and from what its parts are built from.
LEMMA BuiltUnfolds ==
  ASSUME NEW Q, NEW queries \in Seq(Q), Layers(queries), NEW n \in 1..Len(queries)
  PROVE  BuiltFrom(queries, n) = {n} \cup UNION {BuiltFrom(queries, p) : p \in Parts(queries[n])}
<1> DEFINE D == 1..Len(queries)
           next == [m \in D |-> Parts(queries[m])]
           base == [m \in D |-> {m}]
           Step(g) == [m \in D |-> {m} \cup UNION {g[p] : p \in Parts(queries[m])}]
           of == CHOOSE g : g = Step(g)
<1>1. DOMAIN queries = D /\ Len(queries) \in Nat
  OBVIOUS
<1>2. next \in [D -> SUBSET D] /\ \A m \in D : Parts(queries[m]) \subseteq D
  BY <1>1 DEF Layers
<1>3. base \in [D -> SUBSET D]
  OBVIOUS
<1>4. \E g : Collects(g, D, next, base)
  <2> HIDE DEF D, next, base
  <2>1. next \in [D -> SUBSET D]
    BY <1>2
  <2> QED
    BY ONLY <2>1, <1>3, TreeRuns
<1>5. \A x \in D : base[x] = {x} /\ next[x] = Parts(queries[x])
  OBVIOUS
<1>6. \E g : g = Step(g)
  <2> HIDE DEF base, next, D
  <2>1. PICK g : g = [x \in D |-> base[x] \cup UNION {g[y] : y \in next[x]}]
    BY <1>4 DEF Collects
  <2>2. g = Step(g)
    BY <1>5, <2>1
  <2> QED
    BY <2>2
<1> HIDE DEF Step
<1>7. of = Step(of)
  BY <1>6
<1> HIDE DEF of
<1>8. \A m \in D : of[m] = {m} \cup UNION {of[p] : p \in Parts(queries[m])}
  BY <1>7 DEF Step
<1>9. \A m : BuiltFrom(queries, m) = of[m]
  BY <1>1, Zenon DEF BuiltFrom, of, Step
<1> HIDE DEF D
<1> QED
  BY <1>8, <1>9 DEF D

\* What a query is built from is in every set that holds the query and, with each of
\* those, its parts.
LEMMA BuiltLeast ==
  ASSUME NEW Q, NEW queries \in Seq(Q), Layers(queries), NEW n \in 1..Len(queries), NEW W, n \in W,
         \A m \in W \cap BuiltFrom(queries, n) : Parts(queries[m]) \subseteq W
  PROVE  BuiltFrom(queries, n) \subseteq W
<1> DEFINE B(m) == BuiltFrom(queries, m)
           D == 1..Len(queries)
           bad == {x \in D : x \in W /\ B(x) \subseteq B(n) /\ ~ (B(x) \subseteq W)}
<1>1. Len(queries) \in Nat /\ D \in SUBSET Nat
  OBVIOUS
<1>2. \A x \in D : B(x) = {x} \cup UNION {B(p) : p \in Parts(queries[x])}
  BY BuiltUnfolds
<1>3. \A x \in D : \A p \in Parts(queries[x]) : p \in D /\ ~ (x <= p)
  BY <1>1, PartBelow
<1>4. \A m \in W \cap B(n) : Parts(queries[m]) \subseteq W
  OBVIOUS
<1> HIDE DEF B, D
<1>5. SUFFICES ASSUME bad # {} PROVE FALSE
  BY DEF D, B
<1>6. PICK x \in bad : \A y \in bad : x <= y
  <2>1. bad \in SUBSET Nat
    BY <1>1
  <2> HIDE DEF bad
  <2> QED
    BY <1>5, <2>1, LeastOf
<1>7. x \in D /\ x \in W /\ B(x) \subseteq B(n) /\ ~ (B(x) \subseteq W)
  OBVIOUS
<1>8. x \in B(x) /\ \A p \in Parts(queries[x]) : B(p) \subseteq B(x)
  BY <1>2, <1>7
<1>9. ASSUME NEW p \in Parts(queries[x]) PROVE B(p) \subseteq W
  <2>1. p \in D /\ ~ (x <= p) /\ p \in W /\ B(p) \subseteq B(n)
    BY <1>3, <1>4, <1>7, <1>8, <1>9
  <2>2. p \notin bad
    BY <1>6, <2>1
  <2> QED
    BY <2>1, <2>2
<1> QED
  BY <1>2, <1>7, <1>9

\* What a query is built from: positions up to its own, closed under parts, and nothing
\* but the query and parts of these.
LEMMA BuiltFacts ==
  ASSUME NEW Q, NEW queries \in Seq(Q), Layers(queries), NEW n \in 1..Len(queries)
  PROVE  /\ n \in BuiltFrom(queries, n) /\ BuiltFrom(queries, n) \subseteq 1..n
         /\ \A m \in BuiltFrom(queries, n) : /\ BuiltFrom(queries, m) \subseteq BuiltFrom(queries, n)
                                             /\ Parts(queries[m]) \subseteq BuiltFrom(queries, n)
         /\ \A m \in BuiltFrom(queries, n) \ {n} : \E x \in BuiltFrom(queries, n) : m \in Parts(queries[x])
<1> DEFINE B(m) == BuiltFrom(queries, m)
           D == 1..Len(queries)
<1>1. Len(queries) \in Nat
  OBVIOUS
<1>2. \A x \in D : B(x) = {x} \cup UNION {B(p) : p \in Parts(queries[x])}
  BY BuiltUnfolds
<1>3. \A x \in D : \A p \in Parts(queries[x]) : p \in D /\ p < x
  BY PartBelow
<1>4. \A W : n \in W /\ (\A m \in W \cap B(n) : Parts(queries[m]) \subseteq W) => B(n) \subseteq W
  BY BuiltLeast
<1>d. n \in D
  OBVIOUS
<1> HIDE DEF B, D
<1>5. n \in B(n)
  BY <1>d, <1>2
<1>6. B(n) \subseteq 1..n
  <2> DEFINE W == 1..n
  <2>1. n \in Nat /\ n \in W
    BY <1>1, <1>d DEF D
  <2>2. \A m \in W : m \in D
    BY <1>d, <1>1 DEF D
  <2>3. \A m \in W : \A p \in Parts(queries[m]) : p \in W
    <3>1. ASSUME NEW m \in W, NEW p \in Parts(queries[m]) PROVE p \in W
      <4>1. p \in D /\ p < m
        BY <1>3, <2>2, <3>1
      <4> QED
        BY <2>1, <4>1 DEF D
    <3> QED
      BY <3>1
  <2> HIDE DEF W
  <2>4. B(n) \subseteq W
    BY <1>4, <2>1, <2>3
  <2> QED
    BY <2>4 DEF W
<1>7. \A m \in B(n) : m \in D
  BY <1>6, <1>1, <1>d DEF D
<1>8. \A m \in B(n) : B(m) \subseteq B(n)
  <2> DEFINE W == {m \in B(n) : B(m) \subseteq B(n)}
  <2>1. n \in W
    BY <1>5
  <2>2. ASSUME NEW m \in W \cap B(n), NEW p \in Parts(queries[m]) PROVE p \in W
    <3>1. m \in D /\ p \in D
      BY <1>7, <1>3, <2>2
    <3>2. B(p) \subseteq B(m) /\ p \in B(p)
      BY <1>2, <3>1
    <3> QED
      BY <3>2
  <2> HIDE DEF W
  <2>3. B(n) \subseteq W
    BY <1>4, <2>1, <2>2
  <2> QED
    BY <2>3 DEF W
<1>9. \A m \in B(n) : Parts(queries[m]) \subseteq B(n)
  <2>1. ASSUME NEW m \in B(n), NEW p \in Parts(queries[m]) PROVE p \in B(n)
    <3>1. m \in D /\ p \in D
      BY <1>7, <1>3
    <3>2. p \in B(p) /\ B(p) \subseteq B(m)
      BY <1>2, <3>1
    <3> QED
      BY <1>8, <3>2
  <2> QED
    BY <2>1
<1>10. \A m \in B(n) \ {n} : \E x \in B(n) : m \in Parts(queries[x])
  <2> DEFINE W == {n} \cup UNION {Parts(queries[x]) : x \in B(n)}
  <2>1. n \in W /\ \A m \in W \cap B(n) : Parts(queries[m]) \subseteq W
    OBVIOUS
  <2> HIDE DEF W
  <2>2. B(n) \subseteq W
    BY <1>4, <2>1
  <2> QED
    BY <2>2 DEF W
<1> QED
  BY <1>5, <1>6, <1>8, <1>9, <1>10 DEF B

-----------------------------------------------------------------------------
(* The bodies that consumers have.                                         *)

\* The queries of a statement, and of one of its common table expressions.
All(b, k) == QueriesOf(b.queries, b.statements[k])
InCte(b, k, c) == BuiltFrom(b.queries, b.statements[k].ctes[c].query)

\* A body as ScriptDom gives it.
LEMMA BodyFacts ==
  ASSUME NEW b \in Bodies
  PROVE  /\ b.queries \in Seq(Query) /\ Layers(b.queries) /\ Len(b.queries) \in Nat
         /\ DOMAIN b.queries = 1..Len(b.queries)
         /\ \A n \in DOMAIN b.queries :
              LET q == b.queries[n]
              IN  /\ q \in Query
                  /\ \A i \in DOMAIN q.from : q.from[i].kind = "table" => q.from[i].name # None
                  /\ \A i \in DOMAIN q.from :
                       IF q.from[i].kind = "derived" THEN q.from[i].query \in Parts(q) ELSE q.from[i].query = 0
                  /\ IF q.kind = "union" THEN q.left \in Parts(q) /\ q.right \in Parts(q) ELSE q.left = 0 /\ q.right = 0
                  /\ \A p \in Parts(q) : \/ \E i \in DOMAIN q.from : q.from[i].kind = "derived" /\ p = q.from[i].query
                                         \/ q.kind = "union" /\ p \in {q.left, q.right}
<1>1. /\ b.queries \in Seq(Query) /\ Len(b.queries) \in Nat /\ DOMAIN b.queries = 1..Len(b.queries)
      /\ \A n \in 1..Len(b.queries) : b.queries[n] \in Query
  <2>1. b.queries \in Seq(Query)
    BY BodyAssumption
  <2> HIDE DEF Query
  <2> QED
    BY <2>1
<1>2. ASSUME NEW n \in DOMAIN b.queries
      PROVE  /\ \A i \in DOMAIN b.queries[n].from :
                  /\ b.queries[n].from[i].query \in IF b.queries[n].from[i].kind = "derived" THEN 1..(n - 1) ELSE {0}
                  /\ b.queries[n].from[i].kind = "table" => b.queries[n].from[i].name # None
             /\ {b.queries[n].left, b.queries[n].right} \subseteq IF b.queries[n].kind = "union" THEN 1..(n - 1) ELSE {0}
  BY BodyAssumption
<1>3. \A n \in DOMAIN b.queries : Parts(b.queries[n]) \subseteq 1..(n - 1)
  BY <1>2 DEF Parts
<1>4. Layers(b.queries)
  BY <1>1, <1>3 DEF Layers
<1>5. ASSUME NEW n \in DOMAIN b.queries
      PROVE  LET q == b.queries[n]
              IN  /\ q \in Query
                  /\ \A i \in DOMAIN q.from : q.from[i].kind = "table" => q.from[i].name # None
                  /\ \A i \in DOMAIN q.from :
                       IF q.from[i].kind = "derived" THEN q.from[i].query \in Parts(q) ELSE q.from[i].query = 0
                  /\ IF q.kind = "union" THEN q.left \in Parts(q) /\ q.right \in Parts(q) ELSE q.left = 0 /\ q.right = 0
                  /\ \A p \in Parts(q) : \/ \E i \in DOMAIN q.from : q.from[i].kind = "derived" /\ p = q.from[i].query
                                         \/ q.kind = "union" /\ p \in {q.left, q.right}
  <2> DEFINE q == b.queries[n]
  <2>1. q \in Query
    BY <1>1, <1>5
  <2>2. \A i \in DOMAIN q.from : /\ q.from[i].query \in IF q.from[i].kind = "derived" THEN 1..(n - 1) ELSE {0}
                                 /\ q.from[i].kind = "table" => q.from[i].name # None
    BY <1>2
  <2>3. {q.left, q.right} \subseteq IF q.kind = "union" THEN 1..(n - 1) ELSE {0}
    BY <1>2
  <2> HIDE DEF q, Query
  <2>4. \A i \in DOMAIN q.from : q.from[i].kind = "derived" => q.from[i].query \in Parts(q)
    BY DEF Parts
  <2>5. q.kind = "union" => q.left \in Parts(q) /\ q.right \in Parts(q)
    BY DEF Parts
  <2>6. \A p \in Parts(q) : \/ \E i \in DOMAIN q.from : q.from[i].kind = "derived" /\ p = q.from[i].query
                            \/ q.kind = "union" /\ p \in {q.left, q.right}
    BY DEF Parts
  <2>7. q.kind # "union" => q.left = 0 /\ q.right = 0
    BY <2>3
  <2> QED
    BY <2>1, <2>2, <2>4, <2>5, <2>6, <2>7 DEF q
<1> QED
  BY <1>1, <1>4, <1>5

\* A statement of a body, and the queries it begins with.
LEMMA StatementFacts ==
  ASSUME NEW b \in Bodies, NEW k \in DOMAIN b.statements
  PROVE  LET s == b.statements[k]
         IN  /\ s \in Statement /\ b.statements \in Seq(Statement) /\ DOMAIN b.statements = 1..Len(b.statements)
             /\ s.ctes \in Seq(Cte) /\ DOMAIN s.ctes = 1..Len(s.ctes) /\ Len(s.ctes) \in Nat
             /\ s.query \in 0..Len(b.queries)
             /\ s.using.query \in IF s.using.kind = "derived" THEN DOMAIN b.queries ELSE {0}
             /\ \A c \in DOMAIN s.ctes : s.ctes[c].query \in DOMAIN b.queries
             /\ s.kind \in {"insert", "values", "update", "merge"} => s.target.kind = "table"
             /\ s.kind = "update" => s.query \in DOMAIN b.queries
             /\ s.nested \in Seq((k + 1)..Len(b.statements))
<1> DEFINE s == b.statements[k]
<1>1. b.statements \in Seq(Statement)
  BY BodyAssumption
<1>2. s \in Statement /\ DOMAIN b.statements = 1..Len(b.statements)
  <2> HIDE DEF Statement
  <2> QED
    BY <1>1
<1>3. s.ctes \in Seq(Cte)
  BY <1>2 DEF Statement
<1>4. DOMAIN s.ctes = 1..Len(s.ctes) /\ Len(s.ctes) \in Nat
  <2> HIDE DEF Cte, s
  <2> QED
    BY <1>3
<1>5. /\ s.query \in 0..Len(b.queries)
      /\ s.using.query \in IF s.using.kind = "derived" THEN DOMAIN b.queries ELSE {0}
      /\ \A c \in DOMAIN s.ctes : s.ctes[c].query \in DOMAIN b.queries
      /\ s.kind \in {"insert", "values", "update", "merge"} => s.target.kind = "table"
      /\ s.kind = "update" => s.query \in DOMAIN b.queries
  BY BodyAssumption
<1>6. s.nested \in Seq((k + 1)..Len(b.statements))
  BY BodyAssumption
<1> QED
  BY <1>1, <1>2, <1>3, <1>4, <1>5, <1>6

\* The list of a statement's own queries.
LEMMA RootsFacts ==
  ASSUME NEW b \in Bodies, NEW k \in DOMAIN b.statements
  PROVE  LET s == b.statements[k]
             r == Roots(s)
         IN  /\ DOMAIN r = 1..(2 + Len(s.ctes)) /\ r[1] = s.query /\ r[2] = s.using.query
             /\ \A c \in DOMAIN s.ctes : c + 2 \in DOMAIN r /\ r[c + 2] = s.ctes[c].query
             /\ Range(r) = {s.query, s.using.query} \cup {s.ctes[c].query : c \in DOMAIN s.ctes}
             /\ Range(r) \subseteq 0..Len(b.queries)
<1> DEFINE s == b.statements[k]
           r == Roots(s)
           m == [c \in DOMAIN s.ctes |-> s.ctes[c].query]
           V == 0..Len(b.queries)
<1>1. /\ DOMAIN s.ctes = 1..Len(s.ctes) /\ Len(s.ctes) \in Nat
      /\ s.query \in V
      /\ s.using.query \in IF s.using.kind = "derived" THEN DOMAIN b.queries ELSE {0}
      /\ \A c \in DOMAIN s.ctes : s.ctes[c].query \in DOMAIN b.queries
  BY StatementFacts
<1>2. DOMAIN b.queries \subseteq V /\ 0 \in V
  BY BodyFacts
<1>3. s.using.query \in V /\ m \in [1..Len(s.ctes) -> V]
  BY <1>1, <1>2
<1>4. m \in Seq(V) /\ Len(m) = Len(s.ctes)
  BY <1>1, <1>3
<1>5. r = <<s.query, s.using.query>> \o m
  BY DEF Roots
<1>6. \A c \in DOMAIN s.ctes : m[c] = s.ctes[c].query
  OBVIOUS
<1> HIDE DEF m, V, s, r
<1>7. <<s.query, s.using.query>> \in Seq(V) /\ Len(<<s.query, s.using.query>>) = 2
      /\ <<s.query, s.using.query>>[1] = s.query /\ <<s.query, s.using.query>>[2] = s.using.query
      /\ Range(<<s.query, s.using.query>>) = {s.query, s.using.query}
  BY <1>1, <1>3 DEF Range
<1> DEFINE two == <<s.query, s.using.query>>
<1> HIDE DEF two
<1>8. /\ r \in Seq(V) /\ Len(r) = 2 + Len(m) /\ r[1] = two[1] /\ r[2] = two[2]
      /\ \A i \in 1..Len(m) : r[2 + i] = m[i]
      /\ Range(r) = Range(two) \cup Range(m)
  <2>1. two \in Seq(V) /\ Len(two) = 2 /\ r = two \o m /\ 1 \in 1..2 /\ 2 \in 1..2
    BY <1>5, <1>7 DEF two
  <2>a. two \in Seq(V) /\ m \in Seq(V)
    BY <1>4, <2>1
  <2>2. /\ two \o m \in Seq(V) /\ Len(two \o m) = Len(two) + Len(m)
        /\ \A i \in 1..Len(two) : (two \o m)[i] = two[i]
        /\ \A i \in 1..Len(m) : (two \o m)[Len(two) + i] = m[i]
        /\ Range(two \o m) = Range(two) \cup Range(m)
    BY ONLY <2>a, ConcatFacts
  <2> QED
    BY <2>1, <2>2
<1>9. Range(m) = {s.ctes[c].query : c \in DOMAIN s.ctes} /\ Range(r) \subseteq V
  <2>1. DOMAIN m = DOMAIN s.ctes
    BY DEF m
  <2> QED
    BY <1>6, <1>8, <2>1, RangeFacts DEF Range
<1>10. DOMAIN r = 1..(2 + Len(s.ctes)) /\ \A c \in DOMAIN s.ctes : c + 2 \in DOMAIN r /\ r[c + 2] = s.ctes[c].query
  BY <1>1, <1>4, <1>6, <1>8
<1> QED
  BY <1>7, <1>8, <1>9, <1>10 DEF two, V, s, r

\* The queries of a statement are closed under parts; each is a root or a part of one.
LEMMA AllFacts ==
  ASSUME NEW b \in Bodies, NEW k \in DOMAIN b.statements
  PROVE  /\ All(b, k) \subseteq DOMAIN b.queries
         /\ \A n \in All(b, k) : Parts(b.queries[n]) \subseteq All(b, k) /\ BuiltFrom(b.queries, n) \subseteq All(b, k)
         /\ \A r \in Range(Roots(b.statements[k])) \ {0} : BuiltFrom(b.queries, r) \subseteq All(b, k) /\ r \in All(b, k)
         /\ \A n \in All(b, k) : \/ n \in Range(Roots(b.statements[k])) \ {0}
                                 \/ \E x \in All(b, k) : n \in Parts(b.queries[x])
<1> DEFINE R == Range(Roots(b.statements[k])) \ {0}
           B(n) == BuiltFrom(b.queries, n)
           D == DOMAIN b.queries
<1>1. R \subseteq D
  <2>1. Range(Roots(b.statements[k])) \subseteq 0..Len(b.queries)
    BY RootsFacts
  <2>2. D = 1..Len(b.queries) /\ Len(b.queries) \in Nat
    BY BodyFacts
  <2> HIDE DEF D
  <2> QED
    BY <2>1, <2>2
<1>2. \A n \in D : /\ n \in B(n) /\ B(n) \subseteq D
                   /\ \A m \in B(n) : B(m) \subseteq B(n) /\ Parts(b.queries[m]) \subseteq B(n)
                   /\ \A m \in B(n) \ {n} : \E x \in B(n) : m \in Parts(b.queries[x])
  <2>1. /\ b.queries \in Seq(Query) /\ Layers(b.queries) /\ Len(b.queries) \in Nat
        /\ D = 1..Len(b.queries)
    BY BodyFacts
  <2>2. \A n \in D : /\ n \in B(n) /\ B(n) \subseteq 1..n
                     /\ \A m \in B(n) : B(m) \subseteq B(n) /\ Parts(b.queries[m]) \subseteq B(n)
                     /\ \A m \in B(n) \ {n} : \E x \in B(n) : m \in Parts(b.queries[x])
    BY <2>1, BuiltFacts
  <2>3. \A n \in D : 1..n \subseteq D
    BY <2>1
  <2> HIDE DEF B, D
  <2> QED
    BY <2>2, <2>3
<1>3. All(b, k) = UNION {B(r) : r \in R}
  BY DEF All, QueriesOf
<1> HIDE DEF R, B, D
<1>4. All(b, k) \subseteq D
  BY <1>1, <1>2, <1>3
<1>5. \A n \in All(b, k) : Parts(b.queries[n]) \subseteq All(b, k) /\ B(n) \subseteq All(b, k)
  BY <1>1, <1>2, <1>3
<1>6. \A r \in R : B(r) \subseteq All(b, k) /\ r \in All(b, k)
  BY <1>1, <1>2, <1>3
<1>7. \A n \in All(b, k) : n \in R \/ \E x \in All(b, k) : n \in Parts(b.queries[x])
  BY <1>1, <1>2, <1>3
<1> QED
  BY <1>4, <1>5, <1>6, <1>7 DEF R, B, D

\* What is in a common table expression stays there, and nothing else leads into it.
LEMMA CteFacts ==
  ASSUME NEW b \in Bodies, NEW k \in DOMAIN b.statements, NEW c \in DOMAIN b.statements[k].ctes
  PROVE  /\ b.statements[k].ctes[c].query \in InCte(b, k, c) /\ InCte(b, k, c) \subseteq All(b, k)
         /\ 0 \notin InCte(b, k, c)
         /\ b.statements[k].query \notin InCte(b, k, c)
         /\ b.statements[k].using.query \notin InCte(b, k, c)
         /\ \A d \in DOMAIN b.statements[k].ctes : d # c => b.statements[k].ctes[d].query \notin InCte(b, k, c)
         /\ \A n \in All(b, k) : \A p \in Parts(b.queries[n]) : p \in InCte(b, k, c) => n \in InCte(b, k, c)
<1> DEFINE s == b.statements[k]
           r == Roots(s)
           C == InCte(b, k, c)
           x == s.ctes[c].query
           P(n) == Parts(b.queries[n])
<1>1. /\ DOMAIN r = 1..(2 + Len(s.ctes)) /\ r[1] = s.query /\ r[2] = s.using.query
      /\ \A d \in DOMAIN s.ctes : d + 2 \in DOMAIN r /\ r[d + 2] = s.ctes[d].query
      /\ Range(r) = {s.query, s.using.query} \cup {s.ctes[d].query : d \in DOMAIN s.ctes}
  BY RootsFacts
<1>2. /\ DOMAIN s.ctes = 1..Len(s.ctes) /\ Len(s.ctes) \in Nat
      /\ x \in DOMAIN b.queries
  BY StatementFacts
<1>3. /\ b.queries \in Seq(Query) /\ Layers(b.queries) /\ Len(b.queries) \in Nat
      /\ DOMAIN b.queries = 1..Len(b.queries)
  BY BodyFacts
<1>4. /\ x \in C /\ C \subseteq 1..x
      /\ \A m \in C \ {x} : \E y \in C : m \in P(y)
  BY <1>2, <1>3, BuiltFacts DEF InCte
<1>5. x # 0 /\ 0 \notin C
  BY <1>2, <1>3, <1>4
<1>6. x \in Range(r) \ {0}
  BY <1>1, <1>5
<1>7. C \subseteq All(b, k)
  BY <1>6, AllFacts DEF InCte
<1>8. /\ \A i, j \in DOMAIN r : r[i] = r[j] /\ r[i] # 0 => i = j
      /\ \A n \in All(b, k) : P(n) \cap Range(r) = {}
      /\ \A m, n \in All(b, k) : P(m) \cap P(n) # {} => m = n
  BY TreeAssumption DEF All
<1> HIDE DEF C, x, P, r
<1>9. ASSUME NEW i \in DOMAIN r, r[i] \in C PROVE i = c + 2
  <2>1. r[i] \in Range(r)
    BY DEF Range
  <2>2. r[i] = x
    BY <1>4, <1>7, <1>8, <2>1, <1>9
  <2>3. c + 2 \in DOMAIN r /\ r[c + 2] = x
    BY <1>1 DEF x
  <2> QED
    BY <1>5, <1>8, <2>2, <2>3
<1>10. 1 \in DOMAIN r /\ 2 \in DOMAIN r /\ 1 # c + 2 /\ 2 # c + 2 /\ \A d \in DOMAIN s.ctes : d # c => d + 2 # c + 2
  BY <1>1, <1>2
<1>11. s.query \notin C /\ s.using.query \notin C /\ \A d \in DOMAIN s.ctes : d # c => s.ctes[d].query \notin C
  BY <1>1, <1>9, <1>10
<1>12. ASSUME NEW n \in All(b, k), NEW p \in P(n), p \in C PROVE n \in C
  <2>1. p # x
    BY <1>6, <1>8, <1>12
  <2>2. PICK y \in C : p \in P(y)
    BY <1>4, <1>12, <2>1
  <2> QED
    BY <1>7, <1>8, <1>12, <2>2
<1> QED
  BY <1>4, <1>5, <1>7, <1>11, <1>12 DEF C, x, P

\* A sequence made element by element along another.
LEMMA AlongFacts ==
  ASSUME NEW s, IsSequence(s), NEW m, m = [i \in DOMAIN s |-> m[i]]
  PROVE  IsSequence(m) /\ DOMAIN m = DOMAIN s /\ Len(m) = Len(s) /\ \A x \in Range(m) : \E i \in DOMAIN s : x = m[i]
<1> DEFINE V == {m[i] : i \in DOMAIN s}
<1>1. m \in [DOMAIN s -> V] /\ DOMAIN m = DOMAIN s
  OBVIOUS
<1>2. \A x \in Range(m) : \E i \in DOMAIN s : x = m[i]
  BY <1>1 DEF Range
<1> HIDE DEF V
<1> QED
  BY <1>1, <1>2, AnyMap

\* What is typed as a sequence of something is a sequence.
LEMMA TypedSequence ==
  ASSUME NEW S, NEW s \in Seq(S)
  PROVE  IsSequence(s) /\ DOMAIN s = 1..Len(s) /\ \A i \in DOMAIN s : s[i] \in S
BY DEF IsSequence

-----------------------------------------------------------------------------
(* Tasks that are columns of one line.                                     *)

AtLine(tasks, line) == IsSequence(tasks) /\ \A u \in Range(tasks) : u.do = "column" /\ u.line = line

\* No tasks, tasks of two lists, of a list of lists: all of one line when each is.
LEMMA NoneAt == ASSUME NEW line PROVE AtLine(<< >>, line)
BY AnyEmpty DEF AtLine

\* Columns of one line, and more of the same line.
LEMMA BothAt ==
  ASSUME NEW line, NEW a, NEW b, AtLine(a, line), AtLine(b, line)
  PROVE  AtLine(a \o b, line)
<1>1. IsSequence(a) /\ IsSequence(b)
  BY DEF AtLine
<1>2. IsSequence(a \o b) /\ Range(a \o b) = Range(a) \cup Range(b)
  BY <1>1, AnyConcat
<1> QED
  BY <1>2 DEF AtLine

\* Lists of columns of one line, one after another.
LEMMA FlatAt ==
  ASSUME NEW line, NEW s, IsSequence(s), NEW m, m = [i \in DOMAIN s |-> m[i]],
         \A i \in DOMAIN s : AtLine(m[i], line)
  PROVE  AtLine(FlattenSeq(m), line)
<1>1. IsSequence(m) /\ DOMAIN m = DOMAIN s
  BY AlongFacts
<1>2. \A i \in DOMAIN m : IsSequence(m[i])
  BY <1>1 DEF AtLine
<1>3. IsSequence(FlattenSeq(m)) /\ Range(FlattenSeq(m)) = UNION {Range(m[i]) : i \in DOMAIN m}
  BY <1>1, <1>2, AnyFlatten
<1> QED
  BY <1>1, <1>3 DEF AtLine

\* The columns that an expression names are of the line they are named at.
LEMMA ColumnsAt ==
  ASSUME NEW line, NEW context, NEW refs, IsSequence(refs)
  PROVE  AtLine(Columns(context, refs, line), line)
<1> DEFINE m == Columns(context, refs, line)
<1>1. m = [i \in DOMAIN refs |-> m[i]] /\ \A i \in DOMAIN refs : m[i] = Column(context, refs[i], line)
  BY DEF Columns
<1> HIDE DEF m
<1>2. IsSequence(m) /\ \A u \in Range(m) : \E i \in DOMAIN refs : u = Column(context, refs[i], line)
  BY <1>1, AlongFacts
<1>3. \A u \in Range(m) : u.do = "column" /\ u.line = line
  BY <1>2 DEF Column
<1> QED
  BY <1>2, <1>3 DEF AtLine, m

\* The branches of a CASE are of its line.
LEMMA BranchesAt == ASSUME NEW line, NEW refs PROVE AtLine(WalkBranches(refs, line), line)
<1> DEFINE three == [i \in 1..3 |-> Column(<<"CASE_WHEN", "CASE_THEN", "CASE_ELSE">>[i], refs[i], line)]
<1>1. <<1, 2, 3>> \in Seq(Nat) /\ DOMAIN <<1, 2, 3>> = 1..3
  OBVIOUS
<1>2. IsSequence(three)
  <2>1. three = [i \in DOMAIN <<1, 2, 3>> |-> three[i]]
    BY <1>1
  <2> HIDE DEF three
  <2> DEFINE t == <<1, 2, 3>>
  <2>2. three = [i \in DOMAIN t |-> three[i]] /\ IsSequence(t)
    BY <1>1, <2>1 DEF IsSequence
  <2> HIDE DEF t
  <2> QED
    BY <2>2, AlongFacts
<1>3. \A u \in Range(three) : \E i \in 1..3 : u = Column(<<"CASE_WHEN", "CASE_THEN", "CASE_ELSE">>[i], refs[i], line)
  BY DEF Range
<1>4. \A u \in Range(three) : u.do = "column" /\ u.line = line
  <2> HIDE DEF three
  <2> QED
    BY <1>3 DEF Column
<1>5. WalkBranches(refs, line) = three
  BY DEF WalkBranches
<1> HIDE DEF three
<1> QED
  BY <1>2, <1>4, <1>5 DEF AtLine

\* So is all that the walk of an expression leaves to do.
LEMMA WalkAt ==
  ASSUME NEW line, NEW context, NEW expr \in Expr
  PROVE  AtLine(Walk(context, expr, line), line)
<1>1. IsSequence(expr.refs) /\ IsSequence(expr.partition) /\ IsSequence(expr.order)
  <2>1. expr.refs \in Seq(Ref) /\ expr.partition \in Seq(Ref) /\ expr.order \in Seq(Ref)
    BY DEF Expr
  <2> QED
    BY <2>1 DEF IsSequence
<1> DEFINE first == CASE expr.form \in {"column", "call", "computed"} -> Columns(context, expr.refs, line)
                      [] expr.form = "aggregate" -> Columns("AGGREGATE_ARG", expr.refs, line)
                      [] expr.form = "case" -> WalkBranches(expr.refs, line)
                      [] expr.form = "simple case" ->
                           Columns(context, <<expr.refs[1]>>, line) \o WalkBranches(Tail(expr.refs), line)
                      [] OTHER -> << >>
           input == Columns(context, <<expr.refs[1]>>, line)
           rest == WalkBranches(Tail(expr.refs), line)
<1>2. AtLine(input \o rest, line)
  <2>1. IsSequence(<<expr.refs[1]>>)
    <3> DEFINE x == expr.refs[1]
    <3>1. <<x>> \in Seq({x})
      OBVIOUS
    <3> QED
      BY <3>1 DEF IsSequence
  <2>2. AtLine(input, line) /\ AtLine(rest, line)
    BY <2>1, ColumnsAt, BranchesAt
  <2> HIDE DEF input, rest
  <2> QED
    BY <2>2, BothAt
<1>3. AtLine(first, line)
  <2>1. CASE expr.form \in {"column", "call", "computed"}
    <3>1. first = Columns(context, expr.refs, line)
      BY <2>1
    <3> QED
      BY <3>1, <1>1, ColumnsAt
  <2>2. CASE expr.form = "aggregate"
    <3>1. first = Columns("AGGREGATE_ARG", expr.refs, line)
      BY <2>2
    <3> QED
      BY <3>1, <1>1, ColumnsAt
  <2>3. CASE expr.form = "case"
    <3>1. first = WalkBranches(expr.refs, line)
      BY <2>3
    <3> QED
      BY <3>1, BranchesAt
  <2>4. CASE expr.form = "simple case"
    <3>1. first = input \o rest
      BY <2>4
    <3> QED
      BY <3>1, <1>2
  <2>5. CASE expr.form \notin {"column", "call", "computed", "aggregate", "case", "simple case"}
    <3>1. first = << >>
      BY <2>5
    <3> QED
      BY <3>1, NoneAt
  <2> QED
    BY <2>1, <2>2, <2>3, <2>4, <2>5
<1> HIDE DEF first
<1> DEFINE second == Columns("PARTITION_BY", expr.partition, line)
           third == Columns("ORDER_BY", expr.order, line)
<1>4. AtLine(second, line) /\ AtLine(third, line)
  BY <1>1, ColumnsAt
<1> HIDE DEF second, third
<1>5. Walk(context, expr, line) = first \o second \o third
  BY DEF Walk, first, second, third
<1>6. AtLine(first \o second, line)
  BY <1>3, <1>4, BothAt
<1>7. AtLine((first \o second) \o third, line)
  BY <1>4, <1>6, BothAt
<1> QED
  BY <1>5, <1>7

\* So is what the walk of a condition leaves.
LEMMA WalkOnAt ==
  ASSUME NEW line, NEW on \in Seq(Comparison)
  PROVE  AtLine(WalkOn(on, line), line)
<1> DEFINE m == [c \in DOMAIN on |-> Columns("JOIN_ON", on[c].left \o on[c].right, line)]
<1>1. IsSequence(on) /\ \A c \in DOMAIN on : on[c] \in Comparison
  <2> HIDE DEF Comparison
  <2> QED
    BY TypedSequence
<1>2. ASSUME NEW c \in DOMAIN on PROVE AtLine(m[c], line)
  <2>1. on[c].left \in Seq(Ref) /\ on[c].right \in Seq(Ref)
    BY <1>1 DEF Comparison
  <2>2. IsSequence(on[c].left \o on[c].right)
    BY <2>1, AnyConcat DEF IsSequence
  <2> QED
    BY <2>2, ColumnsAt
<1>3. m = [c \in DOMAIN on |-> m[c]] /\ WalkOn(on, line) = FlattenSeq(m)
  BY DEF WalkOn
<1> HIDE DEF m
<1> QED
  BY <1>1, <1>2, <1>3, FlatAt

\* So is what the walk of several expressions leaves.
LEMMA WalkAllAt ==
  ASSUME NEW line, NEW context, NEW exprs \in Seq(Expr)
  PROVE  AtLine(WalkAll(context, exprs, line), line)
<1> DEFINE m == [e \in DOMAIN exprs |-> Walk(context, exprs[e], line)]
<1>1. IsSequence(exprs) /\ \A e \in DOMAIN exprs : exprs[e] \in Expr
  <2> HIDE DEF Expr
  <2> QED
    BY TypedSequence
<1>2. \A e \in DOMAIN exprs : AtLine(m[e], line)
  BY <1>1, WalkAt
<1>3. m = [e \in DOMAIN exprs |-> m[e]] /\ WalkAll(context, exprs, line) = FlattenSeq(m)
  BY DEF WalkAll
<1> HIDE DEF m
<1> QED
  BY <1>1, <1>2, <1>3, FlatAt

\* The names of the common table expressions a line is inside of.
Inside(b, line) ==
  {b.statements[line[1]].ctes[c].name :
     c \in {d \in DOMAIN b.statements[line[1]].ctes : line[2] \in InCte(b, line[1], d)}}

\* Inside nothing: the statement's own query and lists.  A part is inside what its query
\* is inside, and the query of an expression is in that expression.
LEMMA InsideFacts ==
  ASSUME NEW b \in Bodies, NEW k \in DOMAIN b.statements
  PROVE  LET s == b.statements[k]
         IN  /\ Inside(b, <<k, 0>>) = {} /\ Inside(b, <<k, s.query>>) = {} /\ Inside(b, <<k, s.using.query>>) = {}
             /\ \A n \in All(b, k) : \A p \in Parts(b.queries[n]) : Inside(b, <<k, p>>) \subseteq Inside(b, <<k, n>>)
             /\ \A c \in DOMAIN s.ctes : Inside(b, <<k, s.ctes[c].query>>) \subseteq {s.ctes[c].name}
<1> DEFINE s == b.statements[k]
<1>1. \A n : Inside(b, <<k, n>>) = {s.ctes[c].name : c \in {d \in DOMAIN s.ctes : n \in InCte(b, k, d)}}
  BY DEF Inside
<1>2. \A c \in DOMAIN s.ctes :
         /\ 0 \notin InCte(b, k, c)
         /\ s.query \notin InCte(b, k, c)
         /\ s.using.query \notin InCte(b, k, c)
         /\ \A d \in DOMAIN s.ctes : d # c => s.ctes[d].query \notin InCte(b, k, c)
         /\ \A n \in All(b, k) : \A p \in Parts(b.queries[n]) : p \in InCte(b, k, c) => n \in InCte(b, k, c)
  BY CteFacts
<1> HIDE DEF s
<1>3. Inside(b, <<k, 0>>) = {} /\ Inside(b, <<k, s.query>>) = {} /\ Inside(b, <<k, s.using.query>>) = {}
  BY <1>1, <1>2
<1>4. \A n \in All(b, k) : \A p \in Parts(b.queries[n]) : Inside(b, <<k, p>>) \subseteq Inside(b, <<k, n>>)
  BY <1>1, <1>2
<1>5. \A c \in DOMAIN s.ctes : Inside(b, <<k, s.ctes[c].query>>) \subseteq {s.ctes[c].name}
  BY <1>1, <1>2
<1> QED
  BY <1>3, <1>4, <1>5 DEF s

-----------------------------------------------------------------------------
(* The tasks of a search for a column.                                     *)

FinderTasks ==
  {"statement", "cte", "after cte", "kind", "query", "table", "placeholder", "enter", "leave",
   "column", "assign", "star"}

TaskOk(b, t) ==
  /\ t.do \in FinderTasks
  /\ t.do \in {"statement", "cte", "query", "table"} => t.statement \in DOMAIN b.statements
  /\ t.do = "cte" => \E c \in DOMAIN b.statements[t.statement].ctes :
       /\ t.name = b.statements[t.statement].ctes[c].name
       /\ t.query = b.statements[t.statement].ctes[c].query
  /\ t.do = "query" => t.query \in All(b, t.statement)
  /\ t.do = "table" /\ t.item.kind = "derived" => t.item.query \in All(b, t.statement)
  /\ t.do = "after cte" => t.before \in Nat

\* What a task may find must be told of these.
Owed(b, t) ==
  CASE t.do = "query" -> Inside(b, <<t.statement, t.query>>)
    [] t.do = "table" -> IF t.item.kind = "derived" THEN Inside(b, <<t.statement, t.item.query>>) ELSE {}
    [] t.do \in {"column", "assign"} -> Inside(b, t.line)
    [] OTHER -> {}

\* Tasks that may take the place of one that owes no less.
Leads(b, tasks, owed) ==
  /\ IsSequence(tasks)
  /\ \A u \in Range(tasks) : TaskOk(b, u) /\ Owed(b, u) \subseteq owed

\* No task owes anything.
LEMMA NoneLead == ASSUME NEW b, NEW owed PROVE Leads(b, << >>, owed)
BY AnyEmpty DEF Leads

\* Two lists of tasks that owe no more, one after the other.
LEMMA BothLead ==
  ASSUME NEW b, NEW owed, NEW x, NEW y, Leads(b, x, owed), Leads(b, y, owed)
  PROVE  Leads(b, x \o y, owed)
<1>1. IsSequence(x) /\ IsSequence(y)
  BY DEF Leads
<1>2. IsSequence(x \o y) /\ Range(x \o y) = Range(x) \cup Range(y)
  BY <1>1, AnyConcat
<1> QED
  BY <1>2 DEF Leads

\* A list of one task that owes no more.
LEMMA OneLeads ==
  ASSUME NEW b, NEW owed, NEW u, TaskOk(b, u), Owed(b, u) \subseteq owed
  PROVE  Leads(b, <<u>>, owed)
<1> DEFINE x == <<u>>
<1>1. IsSequence(x) /\ Range(x) = {u}
  BY AnySingle
<1> HIDE DEF x
<1>2. \A v \in Range(x) : v = u
  BY <1>1
<1>3. Leads(b, x, owed)
  BY <1>1, <1>2 DEF Leads
<1> QED
  BY <1>3 DEF x

\* A task for each element of a sequence, each of which owes no more.
LEMMA AlongLeads ==
  ASSUME NEW b, NEW owed, NEW s, IsSequence(s), NEW m, m = [i \in DOMAIN s |-> m[i]],
         \A i \in DOMAIN s : TaskOk(b, m[i]) /\ Owed(b, m[i]) \subseteq owed
  PROVE  Leads(b, m, owed)
<1>1. IsSequence(m) /\ \A x \in Range(m) : \E i \in DOMAIN s : x = m[i]
  <2>1. IsSequence(s) /\ m = [i \in DOMAIN s |-> m[i]]
    OBVIOUS
  <2> QED
    BY ONLY <2>1, AlongFacts
<1> QED
  BY <1>1 DEF Leads

\* A list of tasks for each element of a sequence, each of which owes no more.
LEMMA FlatLeads ==
  ASSUME NEW b, NEW owed, NEW s, IsSequence(s), NEW m, m = [i \in DOMAIN s |-> m[i]],
         \A i \in DOMAIN s : Leads(b, m[i], owed)
  PROVE  Leads(b, FlattenSeq(m), owed)
<1>1. IsSequence(m) /\ DOMAIN m = DOMAIN s
  BY AlongFacts
<1>2. \A i \in DOMAIN m : IsSequence(m[i])
  BY <1>1 DEF Leads
<1>3. IsSequence(FlattenSeq(m)) /\ Range(FlattenSeq(m)) = UNION {Range(m[i]) : i \in DOMAIN m}
  BY <1>1, <1>2, AnyFlatten
<1> QED
  BY <1>1, <1>3 DEF Leads

\* The columns of a line owe what the line does.
LEMMA LineLeads ==
  ASSUME NEW b, NEW owed, NEW line, NEW tasks, AtLine(tasks, line), Inside(b, line) \subseteq owed
  PROVE  Leads(b, tasks, owed)
<1>1. ASSUME NEW u, u.do = "column", u.line = line
      PROVE  TaskOk(b, u) /\ Owed(b, u) \subseteq owed
  BY <1>1 DEF TaskOk, FinderTasks, Owed
<1> QED
  BY <1>1 DEF AtLine, Leads

\* The visit of a query owes what the query is inside of.
LEMMA QueryLeads ==
  ASSUME NEW b, NEW owed, NEW k \in DOMAIN b.statements, NEW n,
         n # 0 => n \in All(b, k) /\ Inside(b, <<k, n>>) \subseteq owed
  PROVE  Leads(b, Query0(n, k), owed)
<1>1. CASE n = 0
  <2>1. Query0(n, k) = << >>
    BY <1>1 DEF Query0
  <2> QED
    BY <2>1, NoneLead
<1>2. CASE n # 0
  <2> DEFINE u == [do |-> "query", query |-> n, statement |-> k]
  <2>1. Query0(n, k) = <<u>>
    BY <1>2 DEF Query0
  <2>2. u.do = "query" /\ u.query = n /\ u.statement = k
    OBVIOUS
  <2> HIDE DEF u
  <2>3. TaskOk(b, u) /\ Owed(b, u) \subseteq owed
    BY <1>2, <2>2 DEF TaskOk, FinderTasks, Owed
  <2> QED
    BY <2>1, <2>3, OneLeads
<1> QED
  BY <1>1, <1>2

\* A table of a FROM, or the target or the source of a statement.
LEMMA TableOwes ==
  ASSUME NEW b, NEW owed, NEW k \in DOMAIN b.statements, NEW item,
         item.kind = "derived" => item.query \in All(b, k) /\ Inside(b, <<k, item.query>>) \subseteq owed
  PROVE  LET u == Table0(item, k) IN TaskOk(b, u) /\ Owed(b, u) \subseteq owed
<1> DEFINE u == Table0(item, k)
<1>1. u.do = "table" /\ u.item = item /\ u.statement = k
  BY DEF Table0
<1> HIDE DEF u
<1>2. TaskOk(b, u) /\ Owed(b, u) \subseteq owed
  BY <1>1 DEF TaskOk, FinderTasks, Owed
<1> QED
  BY <1>2 DEF u

\* A task of a kind that owes nothing and needs nothing.
LEMMA PlainLeads ==
  ASSUME NEW b, NEW owed, NEW u, u.do \in {"kind", "enter", "leave", "placeholder", "star"}
  PROVE  Leads(b, <<u>>, owed)
<1>1. TaskOk(b, u) /\ Owed(b, u) \subseteq owed
  BY DEF TaskOk, FinderTasks, Owed
<1> QED
  BY <1>1, OneLeads

\* The tables of a FROM owe no more than the query that has it.
LEMMA FromLeads ==
  ASSUME NEW b \in Bodies, NEW owed, NEW k \in DOMAIN b.statements, NEW n \in All(b, k),
         Inside(b, <<k, n>>) \subseteq owed
  PROVE  Leads(b, [i \in DOMAIN b.queries[n].from |-> Table0(b.queries[n].from[i], k)], owed)
<1> DEFINE from == b.queries[n].from
           m == [i \in DOMAIN from |-> Table0(from[i], k)]
<1>1. n \in DOMAIN b.queries /\ Parts(b.queries[n]) \subseteq All(b, k)
  BY AllFacts
<1>2. IsSequence(from)
  <2>1. b.queries[n] \in Query
    BY <1>1, BodyFacts
  <2>2. from \in Seq(Item)
    BY <2>1 DEF Query
  <2> QED
    BY <2>2 DEF IsSequence
<1>3. ASSUME NEW i \in DOMAIN from, from[i].kind = "derived"
      PROVE  from[i].query \in All(b, k) /\ Inside(b, <<k, from[i].query>>) \subseteq owed
  <2>1. from[i].query \in Parts(b.queries[n])
    BY <1>1, <1>3, BodyFacts
  <2>2. \A p \in Parts(b.queries[n]) : Inside(b, <<k, p>>) \subseteq Inside(b, <<k, n>>)
    BY InsideFacts
  <2> HIDE DEF from, m
  <2> QED
    BY <1>1, <2>1, <2>2
<1>4. \A i \in DOMAIN from : TaskOk(b, m[i]) /\ Owed(b, m[i]) \subseteq owed
  <2> SUFFICES ASSUME NEW i \in DOMAIN from
               PROVE  TaskOk(b, m[i]) /\ Owed(b, m[i]) \subseteq owed
    OBVIOUS
  <2>1. m[i] = Table0(from[i], k)
    OBVIOUS
  <2> DEFINE item == from[i]
  <2>2. item.kind = "derived" => item.query \in All(b, k) /\ Inside(b, <<k, item.query>>) \subseteq owed
    BY <1>3
  <2> HIDE DEF m, from, item
  <2>3. LET u == Table0(item, k) IN TaskOk(b, u) /\ Owed(b, u) \subseteq owed
    BY <2>2, TableOwes
  <2> QED
    BY <2>1, <2>3 DEF item
<1>5. m = [i \in DOMAIN from |-> m[i]]
  OBVIOUS
<1> HIDE DEF m, from
<1>6. Leads(b, m, owed)
  BY <1>2, <1>4, <1>5, AlongLeads
<1> QED
  BY <1>6 DEF m, from

-----------------------------------------------------------------------------
(* The warning a citation inside a common table expression must have.      *)

\* The marker that ends the visit of a common table expression, begun when there were m hits.
IsMarker(t) == t.do = "after cte"
Closes(t, name, m) == IsMarker(t) /\ t.name = name /\ t.before <= m
\* Each of these names will be told of what is found from here on.
Watched(tasks, owed, m) == \A name \in owed : \E a \in 1..Len(tasks) : Closes(tasks[a], name, m)
Told(ns, name) == \E w \in 1..Len(ns) : ns[w] = Note("referenced inside CTE", name)

\* What a task may find will be told; what was found has been told, or will be.
CteOk(b, tasks, hs, ns) ==
  /\ IsSequence(tasks) /\ IsSequence(hs) /\ IsSequence(ns)
  /\ \A p \in 1..Len(tasks) : TaskOk(b, tasks[p])
  /\ \A p \in 1..Len(tasks) : \A name \in Owed(b, tasks[p]) :
       \E a \in 1..Len(tasks) : p < a /\ Closes(tasks[a], name, Len(hs))
  /\ \A x \in 1..Len(hs) : \A name \in Inside(b, hs[x].line) :
       Told(ns, name) \/ \E a \in 1..Len(tasks) : Closes(tasks[a], name, x - 1)

\* More tasks in front, none of which may find what nobody will tell.
LEMMA PushTasks ==
  ASSUME NEW b, NEW tasks, NEW hs, NEW ns, NEW owed, NEW more,
         CteOk(b, tasks, hs, ns), Leads(b, more, owed), Watched(tasks, owed, Len(hs))
  PROVE  CteOk(b, more \o tasks, hs, ns)
<1> DEFINE all == more \o tasks
           m == Len(more)
<1>1. IsSequence(more) /\ IsSequence(tasks)
  BY DEF CteOk, Leads
<1>2. /\ IsSequence(all) /\ m \in Nat /\ Len(tasks) \in Nat /\ Len(all) = m + Len(tasks)
      /\ \A i \in 1..m : all[i] = more[i]
      /\ \A i \in 1..Len(tasks) : all[m + i] = tasks[i]
  BY ONLY <1>1, AnyConcat
<1>3. \A i \in 1..m : TaskOk(b, more[i]) /\ Owed(b, more[i]) \subseteq owed
  <2>1. \A i \in 1..m : more[i] \in Range(more)
    BY <1>1, AnySequence DEF Range
  <2> QED
    BY <2>1 DEF Leads
<1> HIDE DEF all, m
<1>4. \A p \in 1..Len(all) : p \in 1..m \/ (p - m \in 1..Len(tasks) /\ p = m + (p - m))
  BY <1>2
<1>5. \A i \in 1..Len(tasks) : m + i \in 1..Len(all) /\ m < m + i
  BY <1>2
<1>6. \A p \in 1..Len(all) : TaskOk(b, all[p])
  BY <1>2, <1>3, <1>4 DEF CteOk
<1>7. ASSUME NEW p \in 1..Len(all), NEW name \in Owed(b, all[p])
      PROVE  \E a \in 1..Len(all) : p < a /\ Closes(all[a], name, Len(hs))
  <2>1. CASE p \in 1..m
    <3>1. name \in owed
      BY <1>2, <1>3, <1>7, <2>1
    <3>2. PICK i \in 1..Len(tasks) : Closes(tasks[i], name, Len(hs))
      BY <3>1 DEF Watched
    <3>3. m + i \in 1..Len(all) /\ p < m + i /\ all[m + i] = tasks[i]
      BY <1>2, <2>1
    <3> QED
      BY <3>2, <3>3
  <2>2. CASE p \notin 1..m
    <3>1. p - m \in 1..Len(tasks) /\ all[p] = tasks[p - m]
      BY <1>2, <1>4, <2>2
    <3>2. PICK i \in 1..Len(tasks) : p - m < i /\ Closes(tasks[i], name, Len(hs))
      BY <1>7, <3>1 DEF CteOk
    <3>3. m + i \in 1..Len(all) /\ p < m + i /\ all[m + i] = tasks[i]
      BY <1>2, <3>2
    <3> QED
      BY <3>2, <3>3
  <2> QED
    BY <2>1, <2>2
<1>8. ASSUME NEW x \in 1..Len(hs), NEW name \in Inside(b, hs[x].line)
      PROVE  Told(ns, name) \/ \E a \in 1..Len(all) : Closes(all[a], name, x - 1)
  <2>1. Told(ns, name) \/ \E i \in 1..Len(tasks) : Closes(tasks[i], name, x - 1)
    BY <1>8 DEF CteOk
  <2> QED
    BY <1>2, <1>5, <2>1
<1>9. CteOk(b, all, hs, ns)
  BY <1>2, <1>6, <1>7, <1>8 DEF CteOk
<1> QED
  BY <1>9 DEF all

\* The task at the head is taken, and will be told of what it finds.
LEMMA PopTask ==
  ASSUME NEW b, NEW tasks, NEW hs, NEW ns, CteOk(b, tasks, hs, ns), tasks # << >>, ~ IsMarker(Head(tasks))
  PROVE  CteOk(b, Tail(tasks), hs, ns) /\ Watched(Tail(tasks), Owed(b, Head(tasks)), Len(hs)) /\ TaskOk(b, Head(tasks))
<1> DEFINE rest == Tail(tasks)
<1>1. IsSequence(tasks) /\ tasks # << >>
  BY DEF CteOk
<1>2. /\ IsSequence(rest) /\ Head(tasks) = tasks[1] /\ Len(tasks) \in Nat /\ 1 \in 1..Len(tasks)
      /\ Len(rest) = Len(tasks) - 1
      /\ \A i \in 1..Len(rest) : rest[i] = tasks[i + 1]
  BY ONLY <1>1, AnyTail
<1> HIDE DEF rest
<1>3. \A i \in 1..Len(rest) : i + 1 \in 1..Len(tasks)
  BY <1>2
<1>4. \A a \in 1..Len(tasks) : IsMarker(tasks[a]) => a - 1 \in 1..Len(rest) /\ rest[a - 1] = tasks[a]
  <2> SUFFICES ASSUME NEW a \in 1..Len(tasks), IsMarker(tasks[a])
               PROVE  a - 1 \in 1..Len(rest) /\ rest[a - 1] = tasks[a]
    OBVIOUS
  <2>1. a # 1
    BY <1>2
  <2>2. a - 1 \in 1..Len(rest) /\ (a - 1) + 1 = a
    BY <1>2, <2>1
  <2> QED
    BY <1>2, <2>2
<1>5. \A p \in 1..Len(rest) : TaskOk(b, rest[p])
  BY <1>2, <1>3 DEF CteOk
<1>6. ASSUME NEW p \in 1..Len(rest), NEW name \in Owed(b, rest[p])
      PROVE  \E a \in 1..Len(rest) : p < a /\ Closes(rest[a], name, Len(hs))
  <2>1. PICK a \in 1..Len(tasks) : p + 1 < a /\ Closes(tasks[a], name, Len(hs))
    BY <1>2, <1>3, <1>6 DEF CteOk
  <2>2. a - 1 \in 1..Len(rest) /\ rest[a - 1] = tasks[a]
    BY <1>4, <2>1 DEF Closes
  <2>3. p < a - 1
    BY <2>1
  <2> QED
    BY <2>1, <2>2, <2>3
<1>7. ASSUME NEW x \in 1..Len(hs), NEW name \in Inside(b, hs[x].line)
      PROVE  Told(ns, name) \/ \E a \in 1..Len(rest) : Closes(rest[a], name, x - 1)
  <2>1. Told(ns, name) \/ \E i \in 1..Len(tasks) : Closes(tasks[i], name, x - 1)
    BY <1>7 DEF CteOk
  <2> QED
    BY <1>4, <2>1 DEF Closes
<1>8. CteOk(b, rest, hs, ns)
  BY <1>2, <1>5, <1>6, <1>7 DEF CteOk
<1>9. Watched(rest, Owed(b, Head(tasks)), Len(hs))
  <2> SUFFICES ASSUME NEW name \in Owed(b, tasks[1])
               PROVE  \E a \in 1..Len(rest) : Closes(rest[a], name, Len(hs))
    BY <1>2 DEF Watched
  <2>1. PICK a \in 1..Len(tasks) : Closes(tasks[a], name, Len(hs))
    BY <1>2 DEF CteOk
  <2> QED
    BY <1>4, <2>1 DEF Closes
<1>10. TaskOk(b, Head(tasks))
  BY <1>2 DEF CteOk
<1> QED
  BY <1>8, <1>9, <1>10 DEF rest

\* A task gives place to others that owe no more than it does.
LEMMA TaskUnfolds ==
  ASSUME NEW b, NEW tasks, NEW hs, NEW ns, CteOk(b, tasks, hs, ns), tasks # << >>, ~ IsMarker(Head(tasks)),
         NEW more, Leads(b, more, Owed(b, Head(tasks)))
  PROVE  CteOk(b, more \o Tail(tasks), hs, ns)
<1> DEFINE owed == Owed(b, Head(tasks))
           rest == Tail(tasks)
<1>1. CteOk(b, rest, hs, ns) /\ Watched(rest, owed, Len(hs)) /\ Leads(b, more, owed)
  BY PopTask
<1> HIDE DEF owed, rest
<1>2. CteOk(b, more \o rest, hs, ns)
  BY ONLY <1>1, PushTasks
<1> QED
  BY <1>2 DEF rest

\* A hit of a line that is watched.
LEMMA HitIsTold ==
  ASSUME NEW b, NEW tasks, NEW hs, NEW ns, CteOk(b, tasks, hs, ns), NEW h,
         Watched(tasks, Inside(b, h.line), Len(hs))
  PROVE  CteOk(b, tasks, Append(hs, h), ns)
<1> DEFINE all == Append(hs, h)
<1>1. IsSequence(hs)
  BY DEF CteOk
<1>2. /\ IsSequence(all) /\ Len(hs) \in Nat /\ Len(all) = Len(hs) + 1 /\ all[Len(hs) + 1] = h
      /\ \A i \in 1..Len(hs) : all[i] = hs[i]
  BY ONLY <1>1, AnyAppend
<1> HIDE DEF all
<1>3. \A p \in 1..Len(tasks) : TaskOk(b, tasks[p])
  BY DEF CteOk
<1>4. \A a \in 1..Len(tasks) : \A name : Closes(tasks[a], name, Len(hs)) => Closes(tasks[a], name, Len(all))
  <2>1. \A a \in 1..Len(tasks) : IsMarker(tasks[a]) => tasks[a].before \in Nat
    BY <1>3 DEF TaskOk, IsMarker
  <2> QED
    BY <1>2, <2>1 DEF Closes
<1>5. \A x \in 1..Len(all) : x = Len(hs) + 1 \/ x \in 1..Len(hs)
  BY <1>2
<1>6. ASSUME NEW x \in 1..Len(all), NEW name \in Inside(b, all[x].line)
      PROVE  Told(ns, name) \/ \E a \in 1..Len(tasks) : Closes(tasks[a], name, x - 1)
  <2>1. CASE x = Len(hs) + 1
    <3>1. x - 1 = Len(hs) /\ name \in Inside(b, h.line)
      BY <1>2, <1>6, <2>1
    <3> QED
      BY <3>1 DEF Watched
  <2>2. CASE x \in 1..Len(hs)
    BY <1>2, <1>6, <2>2 DEF CteOk
  <2> QED
    BY <1>5, <2>1, <2>2
<1>7. \A p \in 1..Len(tasks) : \A name \in Owed(b, tasks[p]) :
        \E a \in 1..Len(tasks) : p < a /\ Closes(tasks[a], name, Len(all))
  BY <1>4 DEF CteOk
<1>8. CteOk(b, tasks, all, ns)
  BY <1>2, <1>3, <1>6, <1>7 DEF CteOk
<1> QED
  BY <1>8 DEF all

\* One more warning.
LEMMA NoteIsKept ==
  ASSUME NEW b, NEW tasks, NEW hs, NEW ns, CteOk(b, tasks, hs, ns), NEW note
  PROVE  CteOk(b, tasks, hs, Append(ns, note)) /\ \A name : Told(ns, name) => Told(Append(ns, note), name)
<1> DEFINE all == Append(ns, note)
<1>1. IsSequence(ns)
  BY DEF CteOk
<1>2. /\ IsSequence(all) /\ Len(ns) \in Nat /\ Len(all) = Len(ns) + 1
      /\ \A i \in 1..Len(ns) : all[i] = ns[i]
  BY ONLY <1>1, AnyAppend
<1> HIDE DEF all
<1>3. \A name : Told(ns, name) => Told(all, name)
  <2>1. \A w \in 1..Len(ns) : w \in 1..Len(all)
    BY <1>2
  <2> QED
    BY <1>2, <2>1 DEF Told
<1>4. CteOk(b, tasks, hs, all)
  BY <1>2, <1>3 DEF CteOk
<1> QED
  BY <1>3, <1>4 DEF all

\* What was found since the marker's visit began, if anything, is told.
Passed(ns, hs, t) == Told(ns, t.name) \/ Len(hs) <= t.before

\* The end of the visit: what was found since it began is told.
LEMMA MarkerTells ==
  ASSUME NEW b, NEW tasks, NEW hs, NEW ns, CteOk(b, tasks, hs, ns), tasks # << >>, IsMarker(Head(tasks)),
         Passed(ns, hs, Head(tasks))
  PROVE  CteOk(b, Tail(tasks), hs, ns)
<1> DEFINE rest == Tail(tasks)
           t == Head(tasks)
<1>1. IsSequence(tasks) /\ tasks # << >>
  BY DEF CteOk
<1>2. /\ IsSequence(rest) /\ t = tasks[1] /\ Len(tasks) \in Nat /\ 1 \in 1..Len(tasks)
      /\ Len(rest) = Len(tasks) - 1
      /\ \A i \in 1..Len(rest) : rest[i] = tasks[i + 1]
  BY ONLY <1>1, AnyTail
<1>t. t.before \in Nat /\ Len(hs) \in Nat /\ Owed(b, t) = {}
  <2>1. IsMarker(t)
    OBVIOUS
  <2> HIDE DEF t
  <2>2. TaskOk(b, t)
    BY <1>2 DEF CteOk
  <2>3. Len(hs) \in Nat
    BY AnySequence DEF CteOk
  <2> QED
    BY <2>1, <2>2, <2>3 DEF TaskOk, Owed, IsMarker
<1>p. Passed(ns, hs, t)
  OBVIOUS
<1> HIDE DEF rest, t
<1>3. \A i \in 1..Len(rest) : i + 1 \in 1..Len(tasks)
  BY <1>2
<1>4. \A a \in 1..Len(tasks) : a = 1 \/ (a - 1 \in 1..Len(rest) /\ rest[a - 1] = tasks[a])
  <2> SUFFICES ASSUME NEW a \in 1..Len(tasks), a # 1
               PROVE  a - 1 \in 1..Len(rest) /\ rest[a - 1] = tasks[a]
    OBVIOUS
  <2>2. a - 1 \in 1..Len(rest) /\ (a - 1) + 1 = a
    BY <1>2
  <2> QED
    BY <1>2, <2>2
<1>5. \A p \in 1..Len(rest) : TaskOk(b, rest[p])
  BY <1>2, <1>3 DEF CteOk
<1>6. ASSUME NEW p \in 1..Len(rest), NEW name \in Owed(b, rest[p])
      PROVE  \E a \in 1..Len(rest) : p < a /\ Closes(rest[a], name, Len(hs))
  <2>1. PICK a \in 1..Len(tasks) : p + 1 < a /\ Closes(tasks[a], name, Len(hs))
    BY <1>2, <1>3, <1>6 DEF CteOk
  <2>2. a # 1
    BY <2>1
  <2>3. a - 1 \in 1..Len(rest) /\ rest[a - 1] = tasks[a]
    BY <1>4, <2>2
  <2>4. p < a - 1
    BY <2>1
  <2> QED
    BY <2>1, <2>3, <2>4
<1>7. ASSUME NEW x \in 1..Len(hs), NEW name \in Inside(b, hs[x].line)
      PROVE  Told(ns, name) \/ \E a \in 1..Len(rest) : Closes(rest[a], name, x - 1)
  <2>1. CASE Told(ns, name)
    BY <2>1
  <2>2. ASSUME NEW a \in 1..Len(tasks), Closes(tasks[a], name, x - 1)
        PROVE  Told(ns, name) \/ \E i \in 1..Len(rest) : Closes(rest[i], name, x - 1)
    <3>1. CASE a = 1
      <4>1. t.before <= x - 1 /\ t.name = name
        BY <1>2, <2>2, <3>1 DEF Closes
      <4>2. ~ (Len(hs) <= t.before)
        BY <1>t, <4>1
      <4> QED
        BY <1>p, <4>1, <4>2 DEF Passed
    <3>2. CASE a # 1
      BY <1>4, <2>2, <3>2
    <3> QED
      BY <3>1, <3>2
  <2> QED
    BY <1>7, <2>1, <2>2 DEF CteOk
<1>8. CteOk(b, rest, hs, ns)
  BY <1>2, <1>5, <1>6, <1>7 DEF CteOk
<1> QED
  BY <1>8 DEF rest

\* Where a statement begins is among its queries, if it is anywhere.
LEMMA StartsFacts ==
  ASSUME NEW b \in Bodies, NEW k \in DOMAIN b.statements
  PROVE  LET s == b.statements[k]
         IN  /\ s.query # 0 => s.query \in All(b, k)
             /\ s.using.query # 0 => s.using.query \in All(b, k)
             /\ \A c \in DOMAIN s.ctes : s.ctes[c].query # 0 /\ s.ctes[c].query \in All(b, k)
             /\ s.kind = "update" => s.query # 0
<1> DEFINE s == b.statements[k]
<1>1. Range(Roots(s)) = {s.query, s.using.query} \cup {s.ctes[c].query : c \in DOMAIN s.ctes}
  BY RootsFacts
<1>2. \A r \in Range(Roots(s)) \ {0} : r \in All(b, k)
  BY AllFacts
<1>3. /\ \A c \in DOMAIN s.ctes : s.ctes[c].query \in DOMAIN b.queries
      /\ s.kind = "update" => s.query \in DOMAIN b.queries
  BY StatementFacts
<1>4. 0 \notin DOMAIN b.queries
  <2>1. DOMAIN b.queries = 1..Len(b.queries)
    BY BodyFacts
  <2> QED
    BY <2>1
<1> HIDE DEF s
<1>5. /\ s.query # 0 => s.query \in All(b, k)
      /\ s.using.query # 0 => s.using.query \in All(b, k)
      /\ \A c \in DOMAIN s.ctes : s.ctes[c].query # 0 /\ s.ctes[c].query \in All(b, k)
      /\ s.kind = "update" => s.query # 0
  BY <1>1, <1>2, <1>3, <1>4
<1> QED
  BY <1>5 DEF s

\* Statements owe nothing: no statement is inside a common table expression.
LEMMA StatementsLead ==
  ASSUME NEW b, NEW owed, NEW nested \in Seq(DOMAIN b.statements)
  PROVE  Leads(b, Statements(nested), owed)
<1> DEFINE m == Statements(nested)
<1>1. IsSequence(nested) /\ \A i \in DOMAIN nested : nested[i] \in DOMAIN b.statements
  BY DEF IsSequence
<1>2. m = [i \in DOMAIN nested |-> m[i]]
      /\ \A i \in DOMAIN nested : m[i].do = "statement" /\ m[i].statement = nested[i]
  BY DEF Statements
<1> HIDE DEF m
<1>3. \A i \in DOMAIN nested : TaskOk(b, m[i]) /\ Owed(b, m[i]) \subseteq owed
  BY <1>1, <1>2 DEF TaskOk, FinderTasks, Owed
<1>4. Leads(b, m, owed)
  BY <1>1, <1>2, <1>3, AlongLeads
<1> QED
  BY <1>4 DEF m

\* A SELECT owes nothing: its expressions are told by markers of their own.
LEMMA SelectLeads ==
  ASSUME NEW b \in Bodies, NEW owed, NEW k \in DOMAIN b.statements
  PROVE  LET s == b.statements[k]
             cte(i) == <<[do |-> "cte", name |-> s.ctes[i].name, statement |-> k, query |-> s.ctes[i].query]>>
             ordered == IF scopes = << >> THEN << >> ELSE Columns("ORDER_BY", s.order_by, <<k, 0>>)
         IN  Leads(b, FlattenSeq([i \in DOMAIN s.ctes |-> cte(i)]) \o Query0(s.query, k) \o ordered, owed)
<1> DEFINE s == b.statements[k]
           task(i) == [do |-> "cte", name |-> s.ctes[i].name, statement |-> k, query |-> s.ctes[i].query]
           m == [i \in DOMAIN s.ctes |-> <<task(i)>>]
           x == FlattenSeq(m)
           y == Query0(s.query, k)
           z == IF scopes = << >> THEN << >> ELSE Columns("ORDER_BY", s.order_by, <<k, 0>>)
<1>1. IsSequence(s.ctes)
  BY StatementFacts DEF IsSequence
<1>0. Leads(b, z, owed)
  <2>1. s.order_by \in Seq(Ref)
    <3>1. s \in Statement
      BY StatementFacts
    <3> QED
      BY <3>1 DEF Statement
  <2>2. IsSequence(s.order_by)
    BY <2>1 DEF IsSequence
  <2> HIDE DEF s
  <2>3. AtLine(z, <<k, 0>>)
    BY <2>2, ColumnsAt, NoneAt
  <2>4. Inside(b, <<k, 0>>) \subseteq owed
    BY InsideFacts
  <2> HIDE DEF z
  <2> QED
    BY <2>3, <2>4, LineLeads
<1> HIDE DEF z
<1>2. ASSUME NEW i \in DOMAIN s.ctes PROVE Leads(b, m[i], owed)
  <2> DEFINE u == task(i)
  <2>1. /\ u.do = "cte" /\ u.statement = k /\ u.name = b.statements[k].ctes[i].name
        /\ u.query = b.statements[k].ctes[i].query /\ m[i] = <<u>> /\ i \in DOMAIN b.statements[k].ctes
    OBVIOUS
  <2> HIDE DEF u, m, s
  <2>2. TaskOk(b, u) /\ Owed(b, u) \subseteq owed
    BY <2>1 DEF TaskOk, FinderTasks, Owed
  <2>3. Leads(b, <<u>>, owed)
    BY <2>2, OneLeads
  <2> QED
    BY <2>1, <2>3
<1>3. m = [i \in DOMAIN s.ctes |-> m[i]]
  OBVIOUS
<1>4. s.query # 0 => s.query \in All(b, k) /\ Inside(b, <<k, s.query>>) \subseteq owed
  BY StartsFacts, InsideFacts
<1> HIDE DEF m, s
<1>5. Leads(b, x, owed)
  BY <1>1, <1>2, <1>3, FlatLeads
<1> HIDE DEF x
<1>6. Leads(b, y, owed)
  BY <1>4, QueryLeads
<1> HIDE DEF y
<1>7. Leads(b, x \o y, owed)
  BY <1>5, <1>6, BothLead
<1>8. Leads(b, x \o y \o z, owed)
  BY <1>0, <1>7, BothLead
<1> QED
  BY <1>8 DEF x, y, z, m, s

\* The columns of an INSERT's list, or one on the left of a SET.
LEMMA AssignOwes ==
  ASSUME NEW b \in Bodies, NEW owed, NEW k \in DOMAIN b.statements, NEW ref, NEW item
  PROVE  LET u == Assign(ref, item, <<k, 0>>) IN TaskOk(b, u) /\ Owed(b, u) \subseteq owed
<1> DEFINE u == Assign(ref, item, <<k, 0>>)
<1>1. u.do = "assign" /\ u.line = <<k, 0>>
  BY DEF Assign
<1>2. Inside(b, <<k, 0>>) = {}
  BY InsideFacts
<1> HIDE DEF u
<1>3. TaskOk(b, u) /\ Owed(b, u) \subseteq owed
  BY <1>1, <1>2 DEF TaskOk, FinderTasks, Owed
<1> QED
  BY <1>3 DEF u

\* Nor does an INSERT, whose query and list are inside nothing.
LEMMA InsertLeads ==
  ASSUME NEW b \in Bodies, NEW owed, NEW k \in DOMAIN b.statements
  PROVE  LET s == b.statements[k]
             into(i) == Assign([prefix |-> None, name |-> s.columns[i]], s.target, <<k, 0>>)
         IN  Leads(b, [i \in DOMAIN s.columns |-> into(i)]
                      \o (IF s.kind = "insert" THEN Query0(s.query, k) ELSE << >>), owed)
<1> DEFINE s == b.statements[k]
           x == [i \in DOMAIN s.columns |-> Assign([prefix |-> None, name |-> s.columns[i]], s.target, <<k, 0>>)]
           y == IF s.kind = "insert" THEN Query0(s.query, k) ELSE << >>
<1>1. IsSequence(s.columns)
  <2>1. s \in Statement
    BY StatementFacts
  <2>2. s.columns \in Seq(Names)
    BY <2>1 DEF Statement
  <2> QED
    BY <2>2 DEF IsSequence
<1>2. \A i \in DOMAIN s.columns : TaskOk(b, x[i]) /\ Owed(b, x[i]) \subseteq owed
  BY AssignOwes
<1>3. x = [i \in DOMAIN s.columns |-> x[i]]
  OBVIOUS
<1>4. s.query # 0 => s.query \in All(b, k) /\ Inside(b, <<k, s.query>>) \subseteq owed
  BY StartsFacts, InsideFacts
<1> HIDE DEF x, s
<1>5. Leads(b, x, owed)
  BY <1>1, <1>2, <1>3, AlongLeads
<1>6. Leads(b, y, owed)
  BY <1>4, QueryLeads, NoneLead
<1> HIDE DEF y
<1>7. Leads(b, x \o y, owed)
  BY <1>5, <1>6, BothLead
<1> QED
  BY <1>7 DEF x, y, s

\* The list of a SET.
LEMMA SetsLead ==
  ASSUME NEW b \in Bodies, NEW owed, NEW k \in DOMAIN b.statements, NEW m,
         m = [i \in DOMAIN b.statements[k].sets |-> m[i]],
         NEW before,
         \A i \in DOMAIN b.statements[k].sets :
           m[i] = before[i] \o Walk("ASSIGN_VALUE", b.statements[k].sets[i].expr, <<k, 0>>)
           /\ Leads(b, before[i], owed)
  PROVE  Leads(b, FlattenSeq(m), owed)
<1> DEFINE sets == b.statements[k].sets
<1>1. sets \in Seq([prefix : Maybe, column : Names, expr : Expr])
  <2>1. b.statements[k] \in Statement
    BY StatementFacts
  <2> QED
    BY <2>1 DEF Statement
<1>2. IsSequence(sets) /\ \A i \in DOMAIN sets : sets[i].expr \in Expr
  <2> DEFINE T == [prefix : Maybe, column : Names, expr : Expr]
  <2>1. sets \in Seq(T) /\ \A x \in T : x.expr \in Expr
    BY <1>1
  <2> HIDE DEF T, sets
  <2> QED
    BY <2>1, TypedSequence
<1>3. Inside(b, <<k, 0>>) \subseteq owed
  BY InsideFacts
<1>4. ASSUME NEW i \in DOMAIN sets PROVE Leads(b, m[i], owed)
  <2> DEFINE walk == Walk("ASSIGN_VALUE", sets[i].expr, <<k, 0>>)
  <2>1. AtLine(walk, <<k, 0>>)
    BY <1>2, WalkAt
  <2>2. m[i] = before[i] \o walk /\ Leads(b, before[i], owed)
    OBVIOUS
  <2> HIDE DEF walk
  <2>3. Leads(b, walk, owed)
    BY <1>3, <2>1, LineLeads
  <2>4. Leads(b, before[i] \o walk, owed)
    BY <2>2, <2>3, BothLead
  <2> QED
    BY <2>2, <2>4
<1>5. m = [i \in DOMAIN sets |-> m[i]]
  OBVIOUS
<1> HIDE DEF sets
<1> QED
  BY <1>2, <1>4, <1>5, FlatLeads

\* What is read of a query has a type.
LEMMA QueryTyped ==
  ASSUME NEW b \in Bodies, NEW k \in DOMAIN b.statements, NEW n \in All(b, k)
  PROVE  LET q == b.queries[n]
         IN  /\ IsSequence(q.from) /\ IsSequence(q.select) /\ IsSequence(q.group_by)
             /\ q.where \in Seq(Expr) /\ q.having \in Seq(Expr)
             /\ \A i \in DOMAIN q.from : q.from[i].on \in Seq(Comparison)
             /\ \A i \in DOMAIN q.from : Len(q.from) + 1 - i \in DOMAIN q.from
             /\ \A e \in DOMAIN q.select : q.select[e].expr \in Expr
<1> DEFINE q == b.queries[n]
<1>1. q \in Query
  BY AllFacts, BodyFacts
<1>2. /\ q.from \in Seq(Item) /\ q.select \in Seq(Elem) /\ q.group_by \in Seq(Ref)
      /\ q.where \in Seq(Expr) /\ q.having \in Seq(Expr)
  BY <1>1 DEF Query
<1> HIDE DEF q
<1>3. /\ \A x \in Item : x.on \in Seq(Comparison)
      /\ \A x \in Elem : x.expr \in Expr
  BY DEF Item, Elem
<1>4. /\ \A i \in DOMAIN q.from : q.from[i].on \in Seq(Comparison)
      /\ \A i \in DOMAIN q.from : Len(q.from) + 1 - i \in DOMAIN q.from
      /\ \A e \in DOMAIN q.select : q.select[e].expr \in Expr
  <2>1. (\A i \in DOMAIN q.from : q.from[i] \in Item) /\ \A e \in DOMAIN q.select : q.select[e] \in Elem
    BY <1>2, TypedSequence
  <2>2. DOMAIN q.from = 1..Len(q.from) /\ Len(q.from) \in Nat
    BY <1>2
  <2> QED
    BY <1>3, <2>1, <2>2
<1>5. IsSequence(q.from) /\ IsSequence(q.select) /\ IsSequence(q.group_by)
  BY <1>2 DEF IsSequence
<1> QED
  BY <1>2, <1>4, <1>5 DEF q

\* Nor does an UPDATE.
LEMMA UpdateLeads ==
  ASSUME NEW b \in Bodies, NEW owed, NEW k \in DOMAIN b.statements, b.statements[k].kind = "update"
  PROVE  LET s == b.statements[k]
             q == b.queries[s.query]
             set(i) == <<Assign([prefix |-> s.sets[i].prefix, name |-> s.sets[i].column], s.target,
                                 <<k, 0>>)>>
                       \o Walk("ASSIGN_VALUE", s.sets[i].expr, <<k, 0>>)
         IN  Leads(b, <<Table0(s.target, k)>> \o [i \in DOMAIN q.from |-> Table0(q.from[i], k)] \o <<EnterScope>>
                      \o FlattenSeq([i \in DOMAIN s.sets |-> set(i)]) \o WalkAll("WHERE", q.where, <<k, s.query>>)
                      \o <<LeaveScope>>, owed)
<1> DEFINE s == b.statements[k]
           n == s.query
           q == b.queries[n]
           assign(i) == Assign([prefix |-> s.sets[i].prefix, name |-> s.sets[i].column], s.target, <<k, 0>>)
           before == [i \in DOMAIN s.sets |-> <<assign(i)>>]
           m == [i \in DOMAIN s.sets |-> <<assign(i)>> \o Walk("ASSIGN_VALUE", s.sets[i].expr, <<k, 0>>)]
           x1 == <<Table0(s.target, k)>>
           x2 == [i \in DOMAIN q.from |-> Table0(q.from[i], k)]
           x3 == <<EnterScope>>
           x4 == FlattenSeq(m)
           x5 == WalkAll("WHERE", q.where, <<k, n>>)
           x6 == <<LeaveScope>>
<1>1. n \in All(b, k) /\ Inside(b, <<k, n>>) = {} /\ s.target.kind = "table"
  BY StartsFacts, InsideFacts, StatementFacts
<1>2. Leads(b, x1, owed)
  <2> DEFINE item == s.target
  <2>1. item.kind # "derived"
    BY <1>1
  <2> HIDE DEF item
  <2>2. LET u == Table0(item, k) IN TaskOk(b, u) /\ Owed(b, u) \subseteq owed
    BY <2>1, TableOwes
  <2> QED
    BY <2>2, OneLeads DEF item
<1>3. Leads(b, x2, owed)
  BY <1>1, FromLeads
<1>4. Leads(b, x3, owed) /\ Leads(b, x6, owed)
  BY PlainLeads DEF EnterScope, LeaveScope
<1>5. Leads(b, x4, owed)
  <2>1. \A i \in DOMAIN s.sets : TaskOk(b, assign(i)) /\ Owed(b, assign(i)) \subseteq owed
    BY AssignOwes
  <2>2. \A i \in DOMAIN s.sets : Leads(b, <<assign(i)>>, owed)
    <3> HIDE DEF assign
    <3> QED
      BY <2>1, OneLeads
  <2>3. \A i \in DOMAIN s.sets : before[i] = <<assign(i)>>
    OBVIOUS
  <2>4. \A i \in DOMAIN b.statements[k].sets :
           m[i] = before[i] \o Walk("ASSIGN_VALUE", b.statements[k].sets[i].expr, <<k, 0>>)
           /\ Leads(b, before[i], owed)
    BY <2>2, <2>3
  <2>5. m = [i \in DOMAIN b.statements[k].sets |-> m[i]]
    OBVIOUS
  <2> HIDE DEF m, before, s
  <2> QED
    BY <2>4, <2>5, SetsLead
<1>6. Leads(b, x5, owed)
  <2>1. AtLine(x5, <<k, n>>)
    BY <1>1, QueryTyped, WalkAllAt
  <2> HIDE DEF x5
  <2> QED
    BY <1>1, <2>1, LineLeads
<1> HIDE DEF x1, x2, x3, x4, x5, x6
<1>7. Leads(b, x1 \o x2, owed)
  BY <1>2, <1>3, BothLead
<1>8. Leads(b, (x1 \o x2) \o x3, owed)
  BY <1>7, <1>4, BothLead
<1>9. Leads(b, ((x1 \o x2) \o x3) \o x4, owed)
  BY <1>8, <1>5, BothLead
<1>10. Leads(b, (((x1 \o x2) \o x3) \o x4) \o x5, owed)
  BY <1>9, <1>6, BothLead
<1>11. Leads(b, ((((x1 \o x2) \o x3) \o x4) \o x5) \o x6, owed)
  BY <1>10, <1>4, BothLead
<1> QED
  BY <1>11, Zenon DEF x1, x2, x3, x4, x5, x6, m, assign, q, n, s

\* Nor does a MERGE.
LEMMA MergeLeads ==
  ASSUME NEW b \in Bodies, NEW owed, NEW k \in DOMAIN b.statements, b.statements[k].kind = "merge"
  PROVE  LET s == b.statements[k]
             set(i) == Columns("ASSIGN_TARGET",
                               <<[prefix |-> s.sets[i].prefix, name |-> s.sets[i].column]>>, <<k, 0>>)
                       \o Walk("ASSIGN_VALUE", s.sets[i].expr, <<k, 0>>)
         IN  Leads(b, <<Table0(s.target, k), Table0(s.using, k), EnterScope>> \o WalkOn(s.using.on, <<k, 0>>)
                      \o FlattenSeq([i \in DOMAIN s.sets |-> set(i)]) \o <<LeaveScope>>, owed)
<1> DEFINE s == b.statements[k]
           before == [i \in DOMAIN s.sets |->
                        Columns("ASSIGN_TARGET",
                                <<[prefix |-> s.sets[i].prefix, name |-> s.sets[i].column]>>, <<k, 0>>)]
           m == [i \in DOMAIN s.sets |->
                   Columns("ASSIGN_TARGET",
                           <<[prefix |-> s.sets[i].prefix, name |-> s.sets[i].column]>>, <<k, 0>>)
                   \o Walk("ASSIGN_VALUE", s.sets[i].expr, <<k, 0>>)]
           x1 == <<Table0(s.target, k), Table0(s.using, k), EnterScope>>
           x2 == WalkOn(s.using.on, <<k, 0>>)
           x3 == FlattenSeq(m)
           x4 == <<LeaveScope>>
<1>1. /\ s.using.query # 0 => s.using.query \in All(b, k)
      /\ Inside(b, <<k, 0>>) = {} /\ Inside(b, <<k, s.using.query>>) = {} /\ s.target.kind = "table"
  BY StartsFacts, InsideFacts, StatementFacts
<1>2. s.using.kind = "derived" => s.using.query # 0
  <2>1. s.using.query \in IF s.using.kind = "derived" THEN DOMAIN b.queries ELSE {0}
    BY StatementFacts
  <2>2. DOMAIN b.queries = 1..Len(b.queries)
    BY BodyFacts
  <2> HIDE DEF s
  <2> QED
    BY <2>1, <2>2
<1>3. Leads(b, x1, owed)
  <2> DEFINE item == s.target
             other == s.using
             u == Table0(item, k)
             v == Table0(other, k)
             w == EnterScope
  <2>1. item.kind # "derived"
    BY <1>1
  <2>2. other.kind = "derived" => other.query \in All(b, k) /\ Inside(b, <<k, other.query>>) \subseteq owed
    BY <1>1, <1>2
  <2> HIDE DEF item, other
  <2>3. TaskOk(b, u) /\ Owed(b, u) \subseteq owed /\ TaskOk(b, v) /\ Owed(b, v) \subseteq owed
    BY <2>1, <2>2, TableOwes
  <2>4. Leads(b, <<w>>, owed)
    BY PlainLeads DEF EnterScope
  <2> HIDE DEF u, v, w
  <2>5. Leads(b, <<u>>, owed) /\ Leads(b, <<v>>, owed)
    BY <2>3, OneLeads
  <2>6. Leads(b, <<u>> \o <<v>>, owed)
    BY <2>5, BothLead
  <2>7. Leads(b, (<<u>> \o <<v>>) \o <<w>>, owed)
    BY <2>4, <2>6, BothLead
  <2>8. (<<u>> \o <<v>>) \o <<w>> = <<u, v, w>>
    BY AnyThree
  <2> QED
    BY <2>7, <2>8 DEF u, v, w, item, other
<1>4. Leads(b, x2, owed)
  <2>1. s.using.on \in Seq(Comparison)
    <3>1. s \in Statement
      BY StatementFacts
    <3>2. s.using \in Item
      BY <3>1 DEF Statement
    <3> HIDE DEF s
    <3> QED
      BY <3>2 DEF Item
  <2>2. AtLine(x2, <<k, 0>>)
    BY <2>1, WalkOnAt
  <2> HIDE DEF x2
  <2> QED
    BY <1>1, <2>2, LineLeads
<1>5. Leads(b, x3, owed)
  <2>1. ASSUME NEW i \in DOMAIN s.sets PROVE Leads(b, before[i], owed)
    <3> DEFINE refs == <<[prefix |-> s.sets[i].prefix, name |-> s.sets[i].column]>>
    <3>1. IsSequence(refs)
      BY AnySingle
    <3>2. before[i] = Columns("ASSIGN_TARGET", refs, <<k, 0>>)
      OBVIOUS
    <3> HIDE DEF refs, before
    <3>3. AtLine(before[i], <<k, 0>>)
      BY <3>1, <3>2, ColumnsAt
    <3> QED
      BY <1>1, <3>3, LineLeads
  <2>2. \A i \in DOMAIN b.statements[k].sets :
           m[i] = before[i] \o Walk("ASSIGN_VALUE", b.statements[k].sets[i].expr, <<k, 0>>)
           /\ Leads(b, before[i], owed)
    BY <2>1
  <2>3. m = [i \in DOMAIN b.statements[k].sets |-> m[i]]
    OBVIOUS
  <2> HIDE DEF m, before, s
  <2> QED
    BY <2>2, <2>3, SetsLead
<1>6. Leads(b, x4, owed)
  BY PlainLeads DEF LeaveScope
<1> HIDE DEF x1, x2, x3, x4
<1>7. Leads(b, x1 \o x2, owed)
  BY <1>3, <1>4, BothLead
<1>8. Leads(b, (x1 \o x2) \o x3, owed)
  BY <1>7, <1>5, BothLead
<1>9. Leads(b, ((x1 \o x2) \o x3) \o x4, owed)
  BY <1>8, <1>6, BothLead
<1> QED
  BY <1>9, Zenon DEF x1, x2, x3, x4, m, s

\* The sides of a UNION owe no more than the UNION.
LEMMA UnionLeads ==
  ASSUME NEW b \in Bodies, NEW owed, NEW k \in DOMAIN b.statements, NEW n \in All(b, k), b.queries[n].kind = "union",
         Inside(b, <<k, n>>) \subseteq owed
  PROVE  Leads(b, Query0(b.queries[n].left, k) \o Query0(b.queries[n].right, k), owed)
<1> DEFINE q == b.queries[n]
<1>1. n \in DOMAIN b.queries /\ Parts(q) \subseteq All(b, k)
  BY AllFacts
<1>2. q.left \in Parts(q) /\ q.right \in Parts(q)
  BY <1>1, BodyFacts
<1>3. \A p \in Parts(q) : p \in All(b, k) /\ Inside(b, <<k, p>>) \subseteq owed
  BY <1>1, InsideFacts
<1> HIDE DEF q
<1>4. Leads(b, Query0(q.left, k), owed) /\ Leads(b, Query0(q.right, k), owed)
  BY <1>2, <1>3, QueryLeads
<1>5. Leads(b, Query0(q.left, k) \o Query0(q.right, k), owed)
  BY <1>4, BothLead
<1> QED
  BY <1>5 DEF q

\* The parts of a query owe no more than the query.
LEMMA SpecLeads ==
  ASSUME NEW b \in Bodies, NEW owed, NEW k \in DOMAIN b.statements, NEW n \in All(b, k),
         Inside(b, <<k, n>>) \subseteq owed
  PROVE  LET q == b.queries[n]
             line == <<k, n>>
             element(i) == IF q.select[i].kind = "scalar" THEN Walk("PROJECTION", q.select[i].expr, line)
                           ELSE <<[do |-> "star", element |-> q.select[i]]>>
             outer(i) == WalkOn(q.from[Len(q.from) + 1 - i].on, line)
         IN  Leads(b, [i \in DOMAIN q.from |-> Table0(q.from[i], k)] \o <<EnterScope>>
                      \o FlattenSeq([i \in DOMAIN q.select |-> element(i)])
                      \o FlattenSeq([i \in DOMAIN q.from |-> outer(i)])
                      \o WalkAll("WHERE", q.where, line) \o Columns("GROUP_BY", q.group_by, line)
                      \o WalkAll("HAVING", q.having, line) \o <<LeaveScope>>, owed)
<1> DEFINE q == b.queries[n]
           line == <<k, n>>
           star(i) == [do |-> "star", element |-> q.select[i]]
           elements == [i \in DOMAIN q.select |->
                          IF q.select[i].kind = "scalar" THEN Walk("PROJECTION", q.select[i].expr, line)
                          ELSE <<[do |-> "star", element |-> q.select[i]]>>]
           joins == [i \in DOMAIN q.from |-> WalkOn(q.from[Len(q.from) + 1 - i].on, line)]
           x1 == [i \in DOMAIN q.from |-> Table0(q.from[i], k)]
           x2 == <<EnterScope>>
           x3 == FlattenSeq(elements)
           x4 == FlattenSeq(joins)
           x5 == WalkAll("WHERE", q.where, line)
           x6 == Columns("GROUP_BY", q.group_by, line)
           x7 == WalkAll("HAVING", q.having, line)
           x8 == <<LeaveScope>>
<1>1. /\ IsSequence(q.from) /\ IsSequence(q.select) /\ IsSequence(q.group_by)
      /\ q.where \in Seq(Expr) /\ q.having \in Seq(Expr)
      /\ \A i \in DOMAIN q.from : q.from[i].on \in Seq(Comparison)
      /\ \A i \in DOMAIN q.from : Len(q.from) + 1 - i \in DOMAIN q.from
      /\ \A e \in DOMAIN q.select : q.select[e].expr \in Expr
  BY QueryTyped
<1>2. Leads(b, x1, owed)
  BY FromLeads
<1>3. Leads(b, x2, owed) /\ Leads(b, x8, owed)
  BY PlainLeads DEF EnterScope, LeaveScope
<1>4. \A tasks : AtLine(tasks, line) => Leads(b, tasks, owed)
  BY LineLeads
<1>5. Leads(b, x3, owed)
  <2>1. ASSUME NEW i \in DOMAIN q.select PROVE Leads(b, elements[i], owed)
    <3>1. CASE q.select[i].kind = "scalar"
      <4>1. elements[i] = Walk("PROJECTION", q.select[i].expr, line) /\ q.select[i].expr \in Expr
        BY <1>1, <3>1
      <4> HIDE DEF elements, q, line
      <4>2. AtLine(elements[i], line)
        BY <4>1, WalkAt
      <4> QED
        BY <1>4, <4>2
    <3>2. CASE q.select[i].kind # "scalar"
      <4>1. elements[i] = <<star(i)>> /\ star(i).do = "star"
        BY <3>2
      <4> HIDE DEF star
      <4>2. Leads(b, <<star(i)>>, owed)
        BY <4>1, PlainLeads
      <4> QED
        BY <4>1, <4>2
    <3> QED
      BY <3>1, <3>2
  <2>2. elements = [i \in DOMAIN q.select |-> elements[i]]
    OBVIOUS
  <2> HIDE DEF elements, q
  <2> QED
    BY <1>1, <2>1, <2>2, FlatLeads
<1>6. Leads(b, x4, owed)
  <2>1. ASSUME NEW i \in DOMAIN q.from PROVE AtLine(joins[i], line)
    <3> DEFINE on == q.from[Len(q.from) + 1 - i].on
    <3>1. joins[i] = WalkOn(on, line) /\ on \in Seq(Comparison)
      BY <1>1
    <3> HIDE DEF joins, q, line, on
    <3> QED
      BY <3>1, WalkOnAt
  <2>2. joins = [i \in DOMAIN q.from |-> joins[i]]
    OBVIOUS
  <2> HIDE DEF joins, q, line
  <2>3. AtLine(x4, line)
    BY <1>1, <2>1, <2>2, FlatAt
  <2> QED
    BY <1>4, <2>3
<1>7. Leads(b, x5, owed) /\ Leads(b, x6, owed) /\ Leads(b, x7, owed)
  <2>1. AtLine(x5, line) /\ AtLine(x6, line) /\ AtLine(x7, line)
    BY <1>1, WalkAllAt, ColumnsAt
  <2> HIDE DEF x5, x6, x7, line
  <2> QED
    BY <1>4, <2>1
<1> HIDE DEF x1, x2, x3, x4, x5, x6, x7, x8
<1>8. Leads(b, x1 \o x2, owed)
  BY <1>2, <1>3, BothLead
<1>9. Leads(b, (x1 \o x2) \o x3, owed)
  BY <1>5, <1>8, BothLead
<1>10. Leads(b, ((x1 \o x2) \o x3) \o x4, owed)
  BY <1>6, <1>9, BothLead
<1>11. Leads(b, (((x1 \o x2) \o x3) \o x4) \o x5, owed)
  BY <1>7, <1>10, BothLead
<1>12. Leads(b, ((((x1 \o x2) \o x3) \o x4) \o x5) \o x6, owed)
  BY <1>7, <1>11, BothLead
<1>13. Leads(b, (((((x1 \o x2) \o x3) \o x4) \o x5) \o x6) \o x7, owed)
  BY <1>7, <1>12, BothLead
<1>14. Leads(b, ((((((x1 \o x2) \o x3) \o x4) \o x5) \o x6) \o x7) \o x8, owed)
  BY <1>3, <1>13, BothLead
<1> QED
  BY <1>14, Zenon DEF x1, x2, x3, x4, x5, x6, x7, x8, elements, joins, q, line

-----------------------------------------------------------------------------
(* The steps of the finder.                                                *)

CiteInv == CteOk(body, agenda, hits, notes)

\* A task that is no marker is of a kind the search knows.
LEMMA TaskIsOk ==
  ASSUME CiteInv, NEW do, Doing(do), do # "after cte"
  PROVE  /\ agenda # << >> /\ Task = Head(agenda) /\ ~ IsMarker(Head(agenda)) /\ Task.do = do
         /\ TaskOk(body, Task) /\ CteOk(body, Tail(agenda), hits, notes)
         /\ Watched(Tail(agenda), Owed(body, Task), Len(hits))
<1>1. agenda # << >> /\ Task = Head(agenda) /\ Task.do = do
  BY DEF Doing, Task
<1>2. ~ IsMarker(Head(agenda))
  BY <1>1 DEF IsMarker
<1>3. CteOk(body, agenda, hits, notes)
  BY DEF CiteInv
<1>4. /\ CteOk(body, Tail(agenda), hits, notes) /\ TaskOk(body, Head(agenda))
      /\ Watched(Tail(agenda), Owed(body, Head(agenda)), Len(hits))
  BY ONLY <1>1, <1>2, <1>3, PopTask
<1> QED
  BY <1>1, <1>2, <1>4

\* A step that only puts other tasks in the place of one.
LEMMA StepUnfolds ==
  ASSUME CiteInv, NEW do, Doing(do), do # "after cte",
         NEW more, Leads(body, more, Owed(body, Task)), Then(more), UNCHANGED <<body, hits, notes>>
  PROVE  CiteInv'
<1>1. agenda # << >> /\ Task = Head(agenda) /\ ~ IsMarker(Head(agenda))
  BY TaskIsOk
<1>2. CteOk(body, agenda, hits, notes) /\ Leads(body, more, Owed(body, Head(agenda)))
  BY <1>1 DEF CiteInv
<1>3. CteOk(body, more \o Tail(agenda), hits, notes)
  BY ONLY <1>1, <1>2, TaskUnfolds
<1>4. agenda' = more \o Tail(agenda)
  BY DEF Then
<1> QED
  BY <1>3, <1>4 DEF CiteInv

\* A statement, whatever it owes.
LEMMA StatementIsOk ==
  ASSUME CiteInv, Doing("statement")
  PROVE  Task.statement \in DOMAIN body.statements
BY TaskIsOk DEF TaskOk

\* A statement whose tasks end by giving the kind back.
LEMMA KindIsGivenBack ==
  ASSUME CiteInv, NEW do, Doing(do), do # "after cte", NEW kind, NEW tasks, Leads(body, tasks, Owed(body, Task)),
         As0(kind, tasks), UNCHANGED <<body, hits, notes>>
  PROVE  CiteInv'
<1> DEFINE back == StatementKind(stmt_kind)
           more == tasks \o <<back>>
<1>1. back.do = "kind"
  BY DEF StatementKind
<1> DEFINE owed == Owed(body, Task)
<1> HIDE DEF back, owed
<1>2. Leads(body, <<back>>, owed)
  BY ONLY <1>1, PlainLeads
<1>3. Leads(body, more, Owed(body, Task))
  BY <1>2, BothLead DEF owed
<1>4. Then(more)
  BY DEF As0, back
<1> HIDE DEF more
<1> QED
  BY <1>3, <1>4, StepUnfolds

\* Nothing is left to do of a task that finds nothing.
LEMMA StepDrops ==
  ASSUME CiteInv, NEW do, Doing(do), do # "after cte", Then(<< >>), UNCHANGED <<body, hits, notes>>
  PROVE  CiteInv'
<1>1. Leads(body, << >>, Owed(body, Task))
  BY NoneLead
<1> QED
  BY <1>1, StepUnfolds

\* One step of the finder after another: a block gives way to its statements.
LEMMA CiteVisitStatements == ASSUME CiteInv, body \in Bodies, VisitStatements PROVE CiteInv'
<1> DEFINE s == body.statements[Task.statement]
           more == IF s.kind = "delete" THEN << >> ELSE Statements(s.nested)
<1>1. /\ Doing("statement") /\ Then(more) /\ UNCHANGED <<body, hits, notes>>
  BY DEF VisitStatements
<1>2. Task.statement \in DOMAIN body.statements
  BY <1>1, StatementIsOk
<1>3. s.nested \in Seq(DOMAIN body.statements)
  <2> DEFINE k == Task.statement
             L == Len(body.statements)
  <2>1. /\ s.nested \in Seq((k + 1)..L) /\ DOMAIN body.statements = 1..L /\ L \in Nat
        /\ k \in 1..L
    <3>1. body.statements \in Seq(Statement) /\ DOMAIN body.statements = 1..L /\ s.nested \in Seq((k + 1)..L)
      BY <1>2, StatementFacts
    <3>2. L \in Nat
      <4> HIDE DEF Statement
      <4> QED
        BY <3>1
    <3> QED
      BY <1>2, <3>1, <3>2
  <2> HIDE DEF s, k, L
  <2>2. (k + 1)..L \subseteq 1..L
    BY <2>1
  <2> QED
    BY <2>1, <2>2 DEF L
<1>4. Leads(body, Statements(s.nested), Owed(body, Task)) /\ Leads(body, << >>, Owed(body, Task))
  BY <1>3, StatementsLead, NoneLead
<1>5. Leads(body, more, Owed(body, Task))
  BY <1>4
<1> HIDE DEF more
<1> QED
  BY <1>1, <1>5, StepUnfolds

\* A SELECT gives way to its expressions and its query.
LEMMA CiteVisitSelect == ASSUME CiteInv, body \in Bodies, VisitSelect PROVE CiteInv'
<1> DEFINE k == Task.statement
           s == body.statements[k]
           cte(i) == <<[do |-> "cte", name |-> s.ctes[i].name, statement |-> k, query |-> s.ctes[i].query]>>
           ordered == IF scopes = << >> THEN << >> ELSE Columns("ORDER_BY", s.order_by, <<k, 0>>)
           tasks == FlattenSeq([i \in DOMAIN s.ctes |-> cte(i)]) \o Query0(s.query, k) \o ordered
           kind == IF s.kind = "ctas" THEN "CTAS" ELSE IF stmt_kind = None THEN "SELECT" ELSE stmt_kind
<1>1. Doing("statement") /\ As0(kind, tasks) /\ UNCHANGED <<body, hits, notes>>
  BY DEF VisitSelect
<1>2. k \in DOMAIN body.statements
  BY <1>1, StatementIsOk
<1>3. Leads(body, tasks, Owed(body, Task))
  BY <1>2, SelectLeads
<1> HIDE DEF tasks, kind
<1> QED
  BY <1>1, <1>3, KindIsGivenBack

\* An INSERT gives way to its list and its query.
LEMMA CiteVisitInsert == ASSUME CiteInv, body \in Bodies, VisitInsert PROVE CiteInv'
<1> DEFINE k == Task.statement
           s == body.statements[k]
           into(i) == Assign([prefix |-> None, name |-> s.columns[i]], s.target, <<k, 0>>)
           tasks == [i \in DOMAIN s.columns |-> into(i)]
                    \o (IF s.kind = "insert" THEN Query0(s.query, k) ELSE << >>)
<1>1. Doing("statement") /\ As0("INSERT", tasks) /\ UNCHANGED <<body, hits, notes>>
  BY DEF VisitInsert
<1>2. k \in DOMAIN body.statements
  BY <1>1, StatementIsOk
<1>3. Leads(body, tasks, Owed(body, Task))
  BY <1>2, InsertLeads
<1> HIDE DEF tasks
<1> QED
  BY <1>1, <1>3, KindIsGivenBack

\* An UPDATE gives way to its tables, its SET list and its WHERE.
LEMMA CiteVisitUpdate == ASSUME CiteInv, body \in Bodies, VisitUpdate PROVE CiteInv'
<1> DEFINE k == Task.statement
           s == body.statements[k]
           q == body.queries[s.query]
           set(i) == <<Assign([prefix |-> s.sets[i].prefix, name |-> s.sets[i].column], s.target,
                               <<k, 0>>)>>
                     \o Walk("ASSIGN_VALUE", s.sets[i].expr, <<k, 0>>)
           tasks == <<Table0(s.target, k)>> \o [i \in DOMAIN q.from |-> Table0(q.from[i], k)] \o <<EnterScope>>
                    \o FlattenSeq([i \in DOMAIN s.sets |-> set(i)]) \o WalkAll("WHERE", q.where, <<k, s.query>>)
                    \o <<LeaveScope>>
<1>1. Doing("statement") /\ s.kind = "update" /\ As0("UPDATE", tasks) /\ UNCHANGED <<body, hits, notes>>
  BY DEF VisitUpdate
<1>2. k \in DOMAIN body.statements
  BY <1>1, StatementIsOk
<1>3. Leads(body, tasks, Owed(body, Task))
  BY <1>1, <1>2, UpdateLeads
<1> HIDE DEF tasks
<1> QED
  BY <1>1, <1>3, KindIsGivenBack

\* A MERGE gives way to its tables, its condition and its SET list.
LEMMA CiteVisitMerge == ASSUME CiteInv, body \in Bodies, VisitMerge PROVE CiteInv'
<1> DEFINE k == Task.statement
           s == body.statements[k]
           set(i) == Columns("ASSIGN_TARGET",
                             <<[prefix |-> s.sets[i].prefix, name |-> s.sets[i].column]>>, <<k, 0>>)
                     \o Walk("ASSIGN_VALUE", s.sets[i].expr, <<k, 0>>)
           tasks == <<Table0(s.target, k), Table0(s.using, k), EnterScope>> \o WalkOn(s.using.on, <<k, 0>>)
                    \o FlattenSeq([i \in DOMAIN s.sets |-> set(i)]) \o <<LeaveScope>>
<1>1. Doing("statement") /\ s.kind = "merge" /\ As0("MERGE", tasks) /\ UNCHANGED <<body, hits, notes>>
  BY DEF VisitMerge
<1>2. k \in DOMAIN body.statements
  BY <1>1, StatementIsOk
<1>3. Leads(body, tasks, Owed(body, Task))
  BY <1>1, <1>2, MergeLeads
<1> HIDE DEF tasks
<1> QED
  BY <1>1, <1>3, KindIsGivenBack

\* The visit of a common table expression puts its marker first, then its query before it.
LEMMA CiteVisitCte == ASSUME CiteInv, body \in Bodies, VisitCte PROVE CiteInv'
<1> DEFINE k == Task.statement
           n == Task.query
           mark == [do |-> "after cte", name |-> Task.name, before |-> Len(hits)]
           first == Query0(n, k)
           rest == Tail(agenda)
           name == Task.name
<1>1. /\ Doing("cte") /\ Then(first \o <<mark>>) /\ UNCHANGED <<body, hits, notes>>
  BY DEF VisitCte
<1>2. /\ CteOk(body, rest, hits, notes) /\ TaskOk(body, Task) /\ Task.do = "cte"
  BY <1>1, TaskIsOk
<1>3. PICK c \in DOMAIN body.statements[k].ctes :
        name = body.statements[k].ctes[c].name /\ n = body.statements[k].ctes[c].query
  BY <1>2 DEF TaskOk
<1>4. k \in DOMAIN body.statements
  BY <1>2 DEF TaskOk
<1>5. n \in All(body, k) /\ Inside(body, <<k, n>>) \subseteq {name}
  <2> HIDE DEF k, n, name
  <2>1. body.statements[k].ctes[c].query \in All(body, k)
    BY <1>4, StartsFacts
  <2>2. Inside(body, <<k, body.statements[k].ctes[c].query>>) \subseteq {body.statements[k].ctes[c].name}
    BY <1>4, InsideFacts
  <2> QED
    BY <1>3, <2>1, <2>2
<1>6. Len(hits) \in Nat /\ IsSequence(rest)
  BY <1>2, AnySequence DEF CteOk
<1>7. mark.do = "after cte" /\ mark.name = name /\ mark.before = Len(hits)
  OBVIOUS
<1> HIDE DEF mark, name, n, k, rest
<1>8. TaskOk(body, mark) /\ Owed(body, mark) \subseteq {}
  BY <1>6, <1>7 DEF TaskOk, FinderTasks, Owed
<1>9. Leads(body, <<mark>>, {})
  BY <1>8, OneLeads
<1>10. Watched(rest, {}, Len(hits))
  BY DEF Watched
<1>11. CteOk(body, <<mark>> \o rest, hits, notes)
  BY ONLY <1>2, <1>9, <1>10, PushTasks
<1>12. Watched(<<mark>> \o rest, {name}, Len(hits))
  <2> DEFINE one == <<mark>>
             all == one \o rest
  <2>1. IsSequence(one) /\ Len(one) = 1 /\ one[1] = mark
    BY AnySingle
  <2> HIDE DEF one
  <2>2. Len(all) = 1 + Len(rest) /\ Len(rest) \in Nat /\ all[1] = mark
    <3>1. /\ Len(all) = Len(one) + Len(rest) /\ Len(rest) \in Nat
          /\ \A i \in 1..Len(one) : all[i] = one[i]
      BY ONLY <1>6, <2>1, AnyConcat
    <3>2. 1 \in 1..1
      OBVIOUS
    <3> HIDE DEF all
    <3> QED
      BY <2>1, <3>1, <3>2
  <2> HIDE DEF all
  <2>3. 1 \in 1..Len(all)
    BY <2>2
  <2>4. Closes(all[1], name, Len(hits))
    <3>1. Len(hits) <= Len(hits)
      BY <1>6
    <3> QED
      BY <1>7, <2>2, <3>1 DEF Closes, IsMarker
  <2>5. Watched(all, {name}, Len(hits))
    BY <2>3, <2>4 DEF Watched
  <2> QED
    BY <2>5 DEF all, one
<1>13. Leads(body, first, {name})
  BY <1>4, <1>5, QueryLeads
<1> DEFINE marked == <<mark>> \o rest
<1>14. CteOk(body, first \o marked, hits, notes)
  <2> HIDE DEF marked, first
  <2>1. CteOk(body, marked, hits, notes) /\ Watched(marked, {name}, Len(hits))
    BY <1>11, <1>12 DEF marked
  <2> QED
    BY ONLY <1>13, <2>1, PushTasks
<1>15. agenda' = first \o marked
  <2>1. agenda' = (first \o <<mark>>) \o rest
    BY <1>1 DEF Then, mark, rest, name, n, k
  <2>2. IsSequence(first) /\ IsSequence(<<mark>>)
    BY <1>9, <1>13 DEF Leads
  <2> HIDE DEF first
  <2>3. (first \o <<mark>>) \o rest = first \o (<<mark>> \o rest)
    BY ONLY <1>6, <2>2, AnyRegroup
  <2> QED
    BY <2>1, <2>3
<1> HIDE DEF marked, first
<1> QED
  BY <1>1, <1>14, <1>15 DEF CiteInv

\* A marker that is reached gives the warning, if anything was found since it was set.
LEMMA CiteAfterCte == ASSUME CiteInv, AfterCte PROVE CiteInv'
<1> DEFINE note == Note("referenced inside CTE", Task.name)
           rest == Tail(agenda)
<1>1. /\ agenda # << >> /\ Task = Head(agenda) /\ Head(agenda).do = "after cte"
      /\ agenda' = << >> \o rest /\ UNCHANGED <<body, hits>>
      /\ notes' = IF Len(hits) > Task.before THEN Append(notes, note) ELSE notes
  BY DEF AfterCte, Doing, Task, Then
<1>2. IsMarker(Head(agenda)) /\ CteOk(body, agenda, hits, notes)
  BY <1>1 DEF IsMarker, CiteInv
<1>3. CteOk(body, agenda, hits, notes') /\ Passed(notes', hits, Head(agenda))
  <2>1. CASE Len(hits) > Task.before
    <3>1. notes' = Append(notes, note) /\ Task = Head(agenda)
      BY <1>1, <2>1
    <3>2. IsSequence(notes)
      BY <1>2 DEF CteOk
    <3> HIDE DEF note
    <3>3. CteOk(body, agenda, hits, notes')
      BY <1>2, <3>1, NoteIsKept
    <3>4. Len(notes) \in Nat /\ Len(notes') = Len(notes) + 1 /\ notes'[Len(notes) + 1] = note
      BY <3>1, <3>2, AnyAppend
    <3>5. Len(notes) + 1 \in 1..Len(notes')
      BY ONLY <3>4
    <3>6. Told(notes', Task.name)
      BY <3>4, <3>5 DEF Told, note
    <3> QED
      BY <3>1, <3>3, <3>6 DEF Passed
  <2>2. CASE ~ (Len(hits) > Task.before)
    <3>1. notes' = notes
      BY <1>1, <2>2
    <3>2. Len(hits) \in Nat /\ Task.before \in Nat
      <4>1. IsSequence(hits) /\ IsSequence(agenda) /\ \A p \in 1..Len(agenda) : TaskOk(body, agenda[p])
        BY <1>2 DEF CteOk
      <4>2. 1 \in 1..Len(agenda) /\ Head(agenda) = agenda[1]
        BY ONLY <1>1, <4>1, AnyTail
      <4>3. TaskOk(body, Head(agenda))
        BY <4>1, <4>2
      <4> QED
        BY <1>1, <4>1, <4>3, AnySequence DEF TaskOk
    <3>3. Len(hits) <= Task.before
      BY <2>2, <3>2
    <3> QED
      BY <1>1, <1>2, <3>1, <3>3 DEF Passed
  <2> QED
    BY <2>1, <2>2
<1>4. CteOk(body, rest, hits, notes')
  BY ONLY <1>1, <1>2, <1>3, MarkerTells
<1>5. agenda' = rest
  <2>1. IsSequence(rest)
    BY <1>4 DEF CteOk
  <2> HIDE DEF rest
  <2>2. << >> \o rest = rest
    BY <2>1 DEF IsSequence
  <2> QED
    BY <1>1, <2>2
<1> QED
  BY <1>1, <1>4, <1>5 DEF CiteInv

\* A query gives way to its parts.
LEMMA CiteVisitQuery == ASSUME CiteInv, body \in Bodies, VisitQuery PROVE CiteInv'
<1> DEFINE n == Task.query
           q == body.queries[n]
           k == Task.statement
           line == <<k, n>>
           element(i) == IF q.select[i].kind = "scalar" THEN Walk("PROJECTION", q.select[i].expr, line)
                         ELSE <<[do |-> "star", element |-> q.select[i]]>>
           outer(i) == WalkOn(q.from[Len(q.from) + 1 - i].on, line)
           spec == [i \in DOMAIN q.from |-> Table0(q.from[i], k)] \o <<EnterScope>>
                   \o FlattenSeq([i \in DOMAIN q.select |-> element(i)])
                   \o FlattenSeq([i \in DOMAIN q.from |-> outer(i)])
                   \o WalkAll("WHERE", q.where, line) \o Columns("GROUP_BY", q.group_by, line)
                   \o WalkAll("HAVING", q.having, line) \o <<LeaveScope>>
           sides == Query0(q.left, k) \o Query0(q.right, k)
           owed == Owed(body, Task)
<1>1. /\ Doing("query") /\ UNCHANGED <<body, hits, notes>>
      /\ IF q.kind = "union" THEN Then(sides) ELSE Then(spec)
  BY DEF VisitQuery
<1>2. TaskOk(body, Task) /\ Task.do = "query"
  BY <1>1, TaskIsOk
<1>3. k \in DOMAIN body.statements /\ n \in All(body, k) /\ Inside(body, <<k, n>>) \subseteq owed
  BY <1>2 DEF TaskOk, Owed
<1>4. Leads(body, spec, owed)
  BY <1>3, SpecLeads
<1>5. q.kind = "union" => Leads(body, sides, owed)
  BY <1>3, UnionLeads
<1> HIDE DEF spec, sides, q
<1>6. CASE q.kind = "union"
  BY <1>1, <1>5, <1>6, StepUnfolds
<1>7. CASE q.kind # "union"
  BY <1>1, <1>4, <1>7, StepUnfolds
<1> QED
  BY <1>6, <1>7

\* A derived table gives way to its query.
LEMMA CiteCollectDerived == ASSUME CiteInv, body \in Bodies, CollectDerived PROVE CiteInv'
<1> DEFINE item == Task.item
           k == Task.statement
           x == Query0(item.query, k)
           hold == [do |-> "placeholder", alias |-> item.alias]
           owed == Owed(body, Task)
<1>1. Doing("table") /\ item.kind = "derived" /\ Then(x \o <<hold>>) /\ UNCHANGED <<body, hits, notes>>
  BY DEF CollectDerived
<1>2. TaskOk(body, Task) /\ Task.do = "table"
  BY <1>1, TaskIsOk
<1>3. k \in DOMAIN body.statements /\ item.query \in All(body, k) /\ Inside(body, <<k, item.query>>) \subseteq owed
  BY <1>1, <1>2 DEF TaskOk, Owed
<1>4. hold.do = "placeholder"
  OBVIOUS
<1> HIDE DEF hold, owed, k, item
<1>5. Leads(body, x, owed)
  BY <1>3, QueryLeads
<1>6. Leads(body, <<hold>>, owed)
  BY <1>4, PlainLeads
<1> HIDE DEF x
<1>7. Leads(body, x \o <<hold>>, owed)
  BY <1>5, <1>6, BothLead
<1> QED
  BY <1>1, <1>7, StepUnfolds DEF owed

\* A column: what it adds is of its own line.
LEMMA ColumnTells ==
  ASSUME CiteInv, NEW do \in {"column", "assign"}, Doing(do), Then(<< >>), body' = body,
         NEW h, h.line = Task.line, hits' = hits \/ hits' = Append(hits, h),
         NEW note, notes' = notes \/ notes' = Append(notes, note)
  PROVE  CiteInv'
<1> DEFINE rest == Tail(agenda)
<1>1. /\ CteOk(body, rest, hits, notes) /\ Task.do = do
      /\ Watched(rest, Owed(body, Task), Len(hits))
  BY TaskIsOk
<1>2. Owed(body, Task) = Inside(body, h.line)
  BY <1>1 DEF Owed
<1> HIDE DEF rest
<1>3. CteOk(body, rest, Append(hits, h), notes)
  <2>1. Watched(rest, Inside(body, h.line), Len(hits))
    BY <1>1, <1>2
  <2> QED
    BY ONLY <1>1, <2>1, HitIsTold
<1>4. CteOk(body, rest, hits', notes)
  BY <1>1, <1>3
<1>5. CteOk(body, rest, hits', Append(notes, note))
  BY <1>4, NoteIsKept
<1>6. CteOk(body, rest, hits', notes')
  BY <1>4, <1>5
<1>7. agenda' = rest
  <2>1. agenda' = << >> \o rest
    BY DEF Then, rest
  <2>2. IsSequence(rest)
    BY <1>1 DEF CteOk
  <2>3. << >> \o rest = rest
    BY <2>2 DEF IsSequence
  <2> QED
    BY <2>1, <2>3
<1> QED
  BY <1>6, <1>7 DEF CiteInv

\* A column that is cited is of a line that is watched.
LEMMA CiteMaybeEmitColumn == ASSUME CiteInv, MaybeEmitColumn PROVE CiteInv'
<1> DEFINE h == Hit(Task.context, Task.line, Task.ref.prefix)
           note == Note("unqualified column", None)
<1>1. /\ Doing("column") /\ Then(<< >>) /\ body' = body
      /\ hits' = hits \/ hits' = Append(hits, h)
      /\ notes' = notes \/ notes' = Append(notes, note)
  BY DEF MaybeEmitColumn
<1>2. h.line = Task.line
  BY DEF Hit
<1> HIDE DEF h, note
<1> QED
  BY <1>1, <1>2, ColumnTells

\* The column on the left of a SET is of a line inside nothing.
LEMMA CiteAssignTarget == ASSUME CiteInv, AssignTarget PROVE CiteInv'
<1> DEFINE h == Hit("ASSIGN_TARGET", Task.line, Task.ref.prefix)
<1>1. /\ Doing("assign") /\ Then(<< >>) /\ body' = body
      /\ hits' = hits \/ hits' = Append(hits, h)
      /\ notes' = notes
  BY DEF AssignTarget
<1>2. h.line = Task.line
  BY DEF Hit
<1> HIDE DEF h
<1> QED
  BY <1>1, <1>2, ColumnTells

\* A star gives a warning and no citation.
LEMMA CiteMapStar == ASSUME CiteInv, MapStar PROVE CiteInv'
<1> DEFINE note == Note("star may include it", None)
           rest == Tail(agenda)
<1>1. /\ Doing("star") /\ Then(<< >>) /\ body' = body /\ hits' = hits
      /\ notes' = notes \/ notes' = Append(notes, note)
  BY DEF MapStar
<1>2. CteOk(body, rest, hits, notes)
  BY <1>1, TaskIsOk
<1>3. agenda' = rest
  <2>1. agenda' = << >> \o rest
    BY <1>1 DEF Then
  <2>2. IsSequence(rest)
    BY <1>2 DEF CteOk
  <2> HIDE DEF rest
  <2>3. << >> \o rest = rest
    BY <2>2 DEF IsSequence
  <2> QED
    BY <2>1, <2>3
<1> HIDE DEF note, rest
<1>4. CteOk(body, rest, hits, notes')
  BY <1>1, <1>2, NoteIsKept
<1> QED
  BY <1>1, <1>3, <1>4 DEF CiteInv

\* Whatever the finder does, it owes no warning that it will not give.
LEMMA CiteKept == ASSUME CiteInv, body \in Bodies, FinderStep PROVE CiteInv'
<1>1. ASSUME RestoreKind PROVE CiteInv'
  BY <1>1, StepDrops DEF RestoreKind
<1>2. ASSUME CollectTable PROVE CiteInv'
  BY <1>2, StepDrops DEF CollectTable
<1>3. ASSUME AddPlaceholder PROVE CiteInv'
  BY <1>3, StepDrops DEF AddPlaceholder
<1>4. ASSUME CollectOther PROVE CiteInv'
  BY <1>4, StepDrops DEF CollectOther
<1>5. ASSUME Enter PROVE CiteInv'
  BY <1>5, StepDrops DEF Enter
<1>6. ASSUME Leave PROVE CiteInv'
  BY <1>6, StepDrops DEF Leave
<1> QED
  BY <1>1, <1>2, <1>3, <1>4, <1>5, <1>6, CiteVisitStatements, CiteVisitSelect, CiteVisitCte, CiteAfterCte,
     CiteVisitInsert, CiteVisitUpdate, CiteVisitMerge, CiteVisitQuery, CiteCollectDerived,
     CiteMaybeEmitColumn, CiteAssignTarget, CiteMapStar DEF FinderStep

\* A search begins with the statements of its script.
LEMMA CiteBegins ==
  ASSUME NEW b \in Bodies
  PROVE  CteOk(b, Statements(b.top), << >>, << >>) /\ CteOk(b, << >>, << >>, << >>)
<1> DEFINE more == Statements(b.top)
<1>1. CteOk(b, << >>, << >>, << >>)
  BY AnyEmpty DEF CteOk
<1>2. b.top \in Seq(DOMAIN b.statements)
  BY BodyAssumption
<1>3. Leads(b, more, {})
  BY <1>2, StatementsLead
<1>4. Watched(<< >>, {}, Len(<< >>))
  BY DEF Watched
<1>5. more \o << >> = more
  <2>1. IsSequence(more)
    BY <1>3 DEF Leads
  <2> HIDE DEF more
  <2> QED
    BY <2>1 DEF IsSequence
<1>6. CteOk(b, more \o << >>, << >>, << >>)
  <2> HIDE DEF more
  <2> QED
    BY ONLY <1>1, <1>3, <1>4, PushTasks
<1> QED
  BY <1>1, <1>5, <1>6

-----------------------------------------------------------------------------
(* What one join tells, and what it means.                                 *)

\* The named tables among the first n items of a FROM.
TablesAt(from, n) == {j \in 1..n : from[j].kind = "table"}

\* The names of a FROM's tables tell them apart, in its n-th condition too.
PlainFrom(from, n) ==
  /\ \A i \in TablesAt(from, n) : Exposed(from[i]) \in KeysFor(from[i])
  /\ \A i, j \in DOMAIN from : i # j => Exposed(from[i]) \notin KeysFor(from[j])
  /\ \A c \in EqualityPairs(from[n].on) : \A ref \in {c.left[1], c.right[1]} :
       ref.prefix = None \/ \E j \in DOMAIN from : ref.prefix = Exposed(from[j])

\* The n-th join of a query that is not confusing.
LEMMA PlainFacts ==
  ASSUME NEW b \in Bodies, NEW q \in DOMAIN b.queries, NEW n \in DOMAIN b.queries[q].from, PlainAliases(b, q)
  PROVE  PlainFrom(b.queries[q].from, n)
<1> DEFINE from == b.queries[q].from
<1>1. from \in Seq(Item)
  <2>1. b.queries[q] \in Query
    BY BodyFacts
  <2> QED
    BY <2>1 DEF Query
<1>2. DOMAIN from = 1..Len(from) /\ Len(from) \in Nat /\ \A i \in DOMAIN from : from[i] \in Item
  <2> HIDE DEF from, Item
  <2> QED
    BY <1>1
<1>3. \A i \in DOMAIN from : from[i].kind = "table" => from[i].name # None
  BY BodyFacts
<1>4. /\ \A i, j \in DOMAIN from : i # j => Exposed(from[i]) \notin {from[j].alias, from[j].name}
      /\ \A i \in DOMAIN from : \A c \in Range(from[i].on) : \A ref \in Range(c.left) \cup Range(c.right) :
           ref.prefix \in {None} \cup {Exposed(from[j]) : j \in DOMAIN from}
  BY DEF PlainAliases
<1>5. from[n].on \in Seq(Comparison)
  <2>1. from[n] \in Item
    BY <1>2
  <2> QED
    BY <2>1 DEF Item
<1>6. ASSUME NEW c \in EqualityPairs(from[n].on)
      PROVE  c \in Range(from[n].on) /\ c.left[1] \in Range(c.left) /\ c.right[1] \in Range(c.right)
  <2>1. c \in Range(from[n].on) /\ Len(c.left) = 1 /\ Len(c.right) = 1
    BY <1>6 DEF EqualityPairs
  <2>2. c \in Comparison
    <3> HIDE DEF from, Comparison
    <3> QED
      BY <1>5, <2>1, RangeFacts
  <2>3. c.left \in Seq(Ref) /\ c.right \in Seq(Ref)
    BY <2>2 DEF Comparison
  <2>4. 1 \in DOMAIN c.left /\ 1 \in DOMAIN c.right
    <3> HIDE DEF Ref
    <3> QED
      BY <2>1, <2>3
  <2> QED
    BY <2>1, <2>4 DEF Range
<1>7. n \in DOMAIN from /\ 1..n \subseteq DOMAIN from
  <2>1. n \in DOMAIN from
    OBVIOUS
  <2> HIDE DEF from
  <2> QED
    BY <1>2, <2>1
<1> HIDE DEF from
<1>8. \A i \in TablesAt(from, n) : Exposed(from[i]) \in KeysFor(from[i])
  BY <1>3, <1>7 DEF TablesAt, Exposed, KeysFor
<1>9. \A i, j \in DOMAIN from : i # j => Exposed(from[i]) \notin KeysFor(from[j])
  BY <1>4 DEF KeysFor
<1>10. \A c \in EqualityPairs(from[n].on) : \A ref \in {c.left[1], c.right[1]} :
         ref.prefix = None \/ \E j \in DOMAIN from : ref.prefix = Exposed(from[j])
  BY <1>4, <1>6, <1>7
<1> QED
  BY <1>8, <1>9, <1>10 DEF PlainFrom, from

\* A prefix that is a key of a table is the name the table has in its FROM, and that
\* table is the one its key finds.
LEMMA KeysTell ==
  ASSUME NEW from, NEW n \in DOMAIN from, 1..n \subseteq DOMAIN from, PlainFrom(from, n)
  PROVE  /\ \A c \in EqualityPairs(from[n].on) : \A ref \in {c.left[1], c.right[1]} : \A i \in DOMAIN from :
              ref.prefix \in KeysFor(from[i]) => ref.prefix = Exposed(from[i])
         /\ \A o \in TablesAt(from, n) : ByKey(FlattenNamedTables(from, n), Exposed(from[o])) = from[o]
<1> DEFINE T == TablesAt(from, n)
           tables == FlattenNamedTables(from, n)
<1>1. DOMAIN tables = T /\ (\A i \in T : tables[i] = from[i]) /\ T \subseteq DOMAIN from
  BY DEF FlattenNamedTables, TablesAt
<1>2. \A i \in DOMAIN from : None \notin KeysFor(from[i])
  BY DEF KeysFor
<1>3. \A c \in EqualityPairs(from[n].on) : \A ref \in {c.left[1], c.right[1]} : \A i \in DOMAIN from :
              ref.prefix \in KeysFor(from[i]) => ref.prefix = Exposed(from[i])
  BY <1>2 DEF PlainFrom
<1> HIDE DEF T, tables
<1>4. ASSUME NEW o \in T PROVE ByKey(tables, Exposed(from[o])) = from[o]
  <2> DEFINE key == Exposed(from[o])
             P(i) == key \in KeysFor(tables[i]) /\ \A j \in DOMAIN tables : j < i => key \notin KeysFor(tables[j])
             found == CHOOSE i \in DOMAIN tables : P(i)
  <2>1. \A i \in T : key \in KeysFor(from[i]) <=> i = o
    BY <1>1, <1>4 DEF PlainFrom, T
  <2>2. \A i \in DOMAIN tables : P(i) => i = o
    BY <1>1, <2>1
  <2>3. P(o) /\ o \in DOMAIN tables
    <3>1. o \in Nat
      BY DEF T, TablesAt
    <3>2. \A j \in DOMAIN tables : j < o => j # o
      BY <3>1
    <3> QED
      BY <1>1, <2>1, <3>2
  <2> HIDE DEF P
  <2>4. found = o
    BY <2>2, <2>3
  <2>5. ByKey(tables, key) = tables[found]
    BY DEF ByKey, P
  <2> QED
    BY <1>1, <2>4, <2>5
<1> QED
  BY <1>3, <1>4 DEF T, tables

\* An equality, read from one table to another.
Reads(c, p) == p \in {<<c.left[1], c.right[1]>>, <<c.right[1], c.left[1]>>}

\* What a comparison gives to the table at m: its equality with each other table that it
\* names, and nothing else.
GivesAll(from, n, m, c, given) ==
  /\ \A a \in given : \E o \in TablesAt(from, n) \ {m} : \E p :
       /\ Reads(c, p) /\ p[1].prefix = Exposed(from[m]) /\ p[2].prefix = Exposed(from[o])
       /\ a.other = from[o] /\ a.pair = <<p[1].name, p[2].name>>
  /\ \A o \in TablesAt(from, n) \ {m} : \A p :
       Reads(c, p) /\ p[1].prefix = Exposed(from[m]) /\ p[2].prefix = Exposed(from[o]) =>
         \E a \in given : a.other = from[o] /\ a.pair = <<p[1].name, p[2].name>>

\* AssignPair gives just that, where names are plain.
LEMMA AssignFacts ==
  ASSUME NEW from, NEW n \in DOMAIN from, 1..n \subseteq DOMAIN from, PlainFrom(from, n),
         NEW m \in TablesAt(from, n), NEW c \in EqualityPairs(from[n].on)
  PROVE  GivesAll(from, n, m, c, AssignPair(c, KeysFor(from[m]), FlattenNamedTables(from, n)))
<1> DEFINE T == TablesAt(from, n)
           tables == FlattenNamedTables(from, n)
           keys == KeysFor(from[m])
           known == UNION {KeysFor(tables[i]) : i \in DOMAIN tables}
           l == c.left[1]
           r == c.right[1]
           given == AssignPair(c, keys, tables)
           to(x, y) == {[pair |-> <<x.name, y.name>>, other |-> ByKey(tables, y.prefix)]}
           mine(x) == x.prefix \in keys
           theirs(x) == x.prefix \in known \ keys
<1>1. DOMAIN tables = T /\ (\A i \in T : tables[i] = from[i]) /\ T \subseteq DOMAIN from /\ m \in T
  BY DEF FlattenNamedTables, TablesAt
<1>2. /\ \A x \in {l, r} : \A i \in DOMAIN from : x.prefix \in KeysFor(from[i]) => x.prefix = Exposed(from[i])
      /\ \A o \in T : ByKey(tables, Exposed(from[o])) = from[o]
  BY KeysTell
<1>3. /\ \A i \in T : Exposed(from[i]) \in KeysFor(from[i])
      /\ \A i, j \in DOMAIN from : i # j => Exposed(from[i]) \notin KeysFor(from[j])
  BY DEF PlainFrom
<1>4. given = IF mine(l) /\ theirs(r) THEN to(l, r) ELSE IF mine(r) /\ theirs(l) THEN to(r, l) ELSE {}
  BY DEF AssignPair
<1> HIDE DEF T, tables, l, r
<1>5. ASSUME NEW x \in {l, r}
      PROVE  /\ mine(x) <=> x.prefix = Exposed(from[m])
             /\ theirs(x) <=> \E o \in T \ {m} : x.prefix = Exposed(from[o])
  <2>1. mine(x) <=> x.prefix = Exposed(from[m])
    BY <1>1, <1>2, <1>3
  <2>2. ASSUME theirs(x) PROVE \E o \in T \ {m} : x.prefix = Exposed(from[o])
    <3>1. PICK o \in T : x.prefix \in KeysFor(from[o])
      BY <1>1, <2>2
    <3>2. x.prefix = Exposed(from[o]) /\ o # m
      BY <1>1, <1>2, <2>2, <3>1
    <3> QED
      BY <3>2
  <2>3. ASSUME NEW o \in T \ {m}, x.prefix = Exposed(from[o]) PROVE theirs(x)
    BY <1>1, <1>3, <2>3
  <2> QED
    BY <2>1, <2>2, <2>3
<1> HIDE DEF mine, theirs, given, keys, known
<1>6. ASSUME NEW o \in T \ {m}, NEW x, NEW y, {x, y} = {l, r}, x.prefix = Exposed(from[m]), y.prefix = Exposed(from[o])
      PROVE  mine(x) /\ theirs(y) /\ ~ mine(y)
  <2>1. mine(x) /\ theirs(y)
    BY <1>5, <1>6
  <2>2. ~ mine(y)
    BY <2>1 DEF mine, theirs
  <2> QED
    BY <2>1, <2>2
<1>7. ASSUME NEW x, NEW y, {x, y} = {l, r}, mine(x), theirs(y), NEW a \in to(x, y)
      PROVE  \E o \in T \ {m} : /\ x.prefix = Exposed(from[m]) /\ y.prefix = Exposed(from[o])
                                /\ a.other = from[o] /\ a.pair = <<x.name, y.name>>
  <2>1. x.prefix = Exposed(from[m]) /\ \E o \in T \ {m} : y.prefix = Exposed(from[o])
    BY <1>5, <1>7
  <2>2. a.other = ByKey(tables, y.prefix) /\ a.pair = <<x.name, y.name>>
    BY <1>7
  <2> QED
    BY <1>2, <2>1, <2>2
<1>8. /\ <<l, r>>[1] = l /\ <<l, r>>[2] = r /\ <<r, l>>[1] = r /\ <<r, l>>[2] = l
      /\ \A p : Reads(c, p) <=> p \in {<<l, r>>, <<r, l>>}
  BY DEF Reads, l, r
<1>9. ASSUME NEW a \in given
      PROVE  \E o \in T \ {m} : \E p :
                  /\ Reads(c, p) /\ p[1].prefix = Exposed(from[m]) /\ p[2].prefix = Exposed(from[o])
                  /\ a.other = from[o] /\ a.pair = <<p[1].name, p[2].name>>
  <2>1. CASE mine(l) /\ theirs(r)
    <3>1. a \in to(l, r)
      BY <1>4, <1>9, <2>1
    <3>2. PICK o \in T \ {m} : /\ l.prefix = Exposed(from[m]) /\ r.prefix = Exposed(from[o])
                               /\ a.other = from[o] /\ a.pair = <<l.name, r.name>>
      BY <1>7, <2>1, <3>1
    <3> QED
      BY <1>8, <3>2
  <2>2. CASE ~ (mine(l) /\ theirs(r))
    <3>1. a \in to(r, l) /\ mine(r) /\ theirs(l)
      BY <1>4, <1>9, <2>2
    <3>2. PICK o \in T \ {m} : /\ r.prefix = Exposed(from[m]) /\ l.prefix = Exposed(from[o])
                               /\ a.other = from[o] /\ a.pair = <<r.name, l.name>>
      BY <1>7, <3>1
    <3> QED
      BY <1>8, <3>2
  <2> QED
    BY <2>1, <2>2
<1>10. ASSUME NEW o \in T \ {m}, NEW p, Reads(c, p), p[1].prefix = Exposed(from[m]), p[2].prefix = Exposed(from[o])
       PROVE  \E a \in given : a.other = from[o] /\ a.pair = <<p[1].name, p[2].name>>
  <2>1. CASE p = <<l, r>>
    <3>1. mine(l) /\ theirs(r) /\ r.prefix = Exposed(from[o])
      BY <1>6, <1>8, <1>10, <2>1
    <3>2. given = to(l, r)
      BY <1>4, <3>1
    <3> QED
      BY <1>2, <1>8, <2>1, <3>1, <3>2
  <2>2. CASE p = <<r, l>>
    <3>1. mine(r) /\ theirs(l) /\ l.prefix = Exposed(from[o]) /\ ~ mine(l)
      BY <1>6, <1>8, <1>10, <2>2
    <3>2. given = to(r, l)
      BY <1>4, <3>1
    <3> QED
      BY <1>2, <1>8, <2>2, <3>1, <3>2
  <2> QED
    BY <1>8, <1>10, <2>1, <2>2
<1> QED
  BY <1>9, <1>10 DEF T, given, keys, tables, GivesAll

\* An equality of the n-th condition between a table with the key and one without it,
\* read from the first to the second.
Equates(from, n, key, m, o, p) ==
  /\ m \in TablesAt(from, n) /\ o \in TablesAt(from, n)
  /\ Key(from[m]) = key /\ Key(from[o]) # key
  /\ \E c \in EqualityPairs(from[n].on) : Reads(c, p)
  /\ p[1].prefix = Exposed(from[m]) /\ p[2].prefix = Exposed(from[o])

\* Of a side: something, if there is a table of another name; and its equalities, each
\* with the table it is with, and nothing else.
TellsSide(from, n, key, m, side) ==
  /\ \A o \in TablesAt(from, n) : Key(from[o]) # key => side # {}
  /\ PlainFrom(from, n) =>
       /\ \A u \in side : \A pair \in u.pairs : \E o \in TablesAt(from, n) : \E p :
            /\ Equates(from, n, key, m, o, p) /\ pair = <<p[1].name, p[2].name>>
            /\ u.other = Key(from[o]) /\ u.target_alias = from[m].alias /\ u.other_alias = from[o].alias
       /\ \A o, p : Equates(from, n, key, m, o, p) =>
            \E u \in side :
              /\ <<p[1].name, p[2].name>> \in u.pairs
              /\ u.other = Key(from[o]) /\ u.target_alias = from[m].alias /\ u.other_alias = from[o].alias

\* That is what is reported of it.
LEMMA SideFacts ==
  ASSUME NEW from, NEW n \in DOMAIN from, 1..n \subseteq DOMAIN from, NEW key,
         NEW m \in TablesAt(from, n), Key(from[m]) = key
  PROVE  TellsSide(from, n, key, m, UsagesOfSide(from[m], FlattenNamedTables(from, n), from[n].on, key))
<1> DEFINE T == TablesAt(from, n)
           tables == FlattenNamedTables(from, n)
           E == EqualityPairs(from[n].on)
           given(c) == AssignPair(c, KeysFor(from[m]), tables)
           assigned == {a \in UNION {given(c) : c \in E} : Key(a.other) # key}
           group(other) == {a \in assigned : Key(a.other) = Key(other) /\ a.other.alias = other.alias}
           pairs(a) == {x.pair : x \in group(a.other)}
           some == {Usage(from[m], a.other, pairs(a)) : a \in assigned}
           bare == {Usage(from[m], tables[i], {}) : i \in {j \in DOMAIN tables : Key(tables[j]) # key}}
           side == UsagesOfSide(from[m], tables, from[n].on, key)
<1>1. DOMAIN tables = T /\ \A i \in T : tables[i] = from[i]
  BY DEF FlattenNamedTables, TablesAt
<1>2. side = IF assigned # {} THEN some ELSE bare
  BY DEF UsagesOfSide
<1>3. \A table, other, ps : LET u == Usage(table, other, ps)
                            IN  u.other = Key(other) /\ u.target_alias = table.alias
                                /\ u.other_alias = other.alias /\ u.pairs = ps
  BY DEF Usage
<1>g. \A c \in E : PlainFrom(from, n) => GivesAll(from, n, m, c, given(c))
  BY AssignFacts
<1> HIDE DEF given, tables, E
<1>4. ASSUME PlainFrom(from, n), NEW c \in E
      PROVE  /\ \A a \in given(c) : \E o \in T \ {m} : \E p :
                  /\ Reads(c, p) /\ p[1].prefix = Exposed(from[m]) /\ p[2].prefix = Exposed(from[o])
                  /\ a.other = from[o] /\ a.pair = <<p[1].name, p[2].name>>
             /\ \A o \in T \ {m} : \A p :
                  Reads(c, p) /\ p[1].prefix = Exposed(from[m]) /\ p[2].prefix = Exposed(from[o]) =>
                    \E a \in given(c) : a.other = from[o] /\ a.pair = <<p[1].name, p[2].name>>
  BY <1>4, <1>g DEF GivesAll
<1> HIDE DEF T
<1>5. ASSUME NEW o \in T, Key(from[o]) # key PROVE side # {}
  <2>1. Usage(from[m], tables[o], {}) \in bare
    BY <1>1, <1>5
  <2>2. assigned # {} => some # {}
    <3> HIDE DEF assigned, pairs
    <3> QED
      OBVIOUS
  <2> HIDE DEF side, some, bare, assigned
  <2> QED
    BY <1>2, <2>1, <2>2
<1>6. ASSUME PlainFrom(from, n), NEW a \in assigned
      PROVE  \E o \in T : \E p : /\ Equates(from, n, key, m, o, p) /\ a.other = from[o]
                                 /\ a.pair = <<p[1].name, p[2].name>>
  <2>1. PICK c \in E : a \in given(c)
    BY <1>6
  <2>a. PICK o \in T \ {m} : \E p :
                  /\ Reads(c, p) /\ p[1].prefix = Exposed(from[m]) /\ p[2].prefix = Exposed(from[o])
                  /\ a.other = from[o] /\ a.pair = <<p[1].name, p[2].name>>
    BY <1>4, <1>6, <2>1
  <2>2. PICK p : /\ Reads(c, p) /\ p[1].prefix = Exposed(from[m]) /\ p[2].prefix = Exposed(from[o])
                 /\ a.other = from[o] /\ a.pair = <<p[1].name, p[2].name>>
    BY <2>a
  <2>3. Key(from[o]) # key
    BY <1>6, <2>2
  <2>4. Equates(from, n, key, m, o, p)
    BY <2>2, <2>3 DEF Equates, T, E
  <2> QED
    BY <2>2, <2>4
<1>7. ASSUME PlainFrom(from, n), NEW u \in side, NEW pair \in u.pairs
      PROVE  \E o \in T : \E p :
               /\ Equates(from, n, key, m, o, p) /\ pair = <<p[1].name, p[2].name>>
               /\ u.other = Key(from[o]) /\ u.target_alias = from[m].alias /\ u.other_alias = from[o].alias
  <2>1. u \in some
    <3>1. u \notin bare
      <4>1. \A v \in bare : v.pairs = {}
        BY <1>3
      <4> HIDE DEF bare
      <4> QED
        BY <1>7, <4>1
    <3> HIDE DEF side, some, bare, assigned
    <3> QED
      BY <1>2, <1>7, <3>1
  <2>2. PICK a \in assigned : u = Usage(from[m], a.other, pairs(a))
    BY <2>1
  <2>3. /\ u.pairs = pairs(a) /\ u.other = Key(a.other) /\ u.target_alias = from[m].alias
        /\ u.other_alias = a.other.alias
    <3> HIDE DEF pairs
    <3> QED
      BY <1>3, <2>2
  <2>4. PICK x \in assigned : pair = x.pair /\ Key(x.other) = Key(a.other) /\ x.other.alias = a.other.alias
    BY <1>7, <2>3
  <2>a. PICK o \in T : \E p : /\ Equates(from, n, key, m, o, p) /\ x.other = from[o]
                              /\ x.pair = <<p[1].name, p[2].name>>
    BY <1>6, <1>7
  <2>5. PICK p : /\ Equates(from, n, key, m, o, p) /\ x.other = from[o]
                 /\ x.pair = <<p[1].name, p[2].name>>
    BY <2>a
  <2> QED
    BY <2>3, <2>4, <2>5
<1>8. ASSUME PlainFrom(from, n), NEW o, NEW p, Equates(from, n, key, m, o, p)
      PROVE  \E u \in side :
               /\ <<p[1].name, p[2].name>> \in u.pairs
               /\ u.other = Key(from[o]) /\ u.target_alias = from[m].alias /\ u.other_alias = from[o].alias
  <2>1. /\ o \in T /\ Key(from[o]) # key /\ p[1].prefix = Exposed(from[m]) /\ p[2].prefix = Exposed(from[o])
    BY <1>8 DEF Equates, T
  <2>2. PICK c \in E : Reads(c, p)
    BY <1>8 DEF Equates, E
  <2>3. o # m
    BY <2>1
  <2>4. PICK a \in given(c) : a.other = from[o] /\ a.pair = <<p[1].name, p[2].name>>
    BY <1>4, <1>8, <2>1, <2>2, <2>3
  <2>5. a \in assigned
    BY <2>1, <2>2, <2>4
  <2>6. a.pair \in pairs(a)
    BY <2>5
  <2>7. Usage(from[m], a.other, pairs(a)) \in some
    BY <2>5
  <2> HIDE DEF side, some, bare, assigned, pairs
  <2>8. Usage(from[m], a.other, pairs(a)) \in side
    BY <1>2, <2>5, <2>7
  <2> QED
    BY <1>3, <2>4, <2>6, <2>8
<1> QED
  BY <1>5, <1>7, <1>8 DEF T, side, tables, TellsSide

\* The same of a join, and all its sides.
TellsJoin(from, n, key, usages) ==
  /\ \A m, o \in TablesAt(from, n) : Key(from[m]) = key /\ Key(from[o]) # key => usages # {}
  /\ PlainFrom(from, n) =>
       /\ \A u \in usages : \A pair \in u.pairs : \E m, o \in TablesAt(from, n) : \E p :
            /\ Equates(from, n, key, m, o, p) /\ pair = <<p[1].name, p[2].name>>
            /\ u.other = Key(from[o]) /\ u.target_alias = from[m].alias /\ u.other_alias = from[o].alias
       /\ \A m, o, p : Equates(from, n, key, m, o, p) =>
            \E u \in usages :
              /\ <<p[1].name, p[2].name>> \in u.pairs
              /\ u.other = Key(from[o]) /\ u.target_alias = from[m].alias /\ u.other_alias = from[o].alias

\* EmitJoin tells just that.
LEMMA EmitFacts ==
  ASSUME NEW from, NEW n \in DOMAIN from, 1..n \subseteq DOMAIN from, NEW key
  PROVE  TellsJoin(from, n, key, EmitJoin(from, n, key))
<1> DEFINE T == TablesAt(from, n)
           tables == FlattenNamedTables(from, n)
           side(t) == UsagesOfSide(t, tables, from[n].on, key)
           usages == EmitJoin(from, n, key)
<1>1. usages = UNION {side(t) : t \in {s \in Range(tables) : Key(s) = key}}
  BY DEF EmitJoin
<1>2. Range(tables) = {from[i] : i \in T}
  BY DEF FlattenNamedTables, TablesAt, Range
<1>s. \A m \in T : Key(from[m]) = key => TellsSide(from, n, key, m, side(from[m]))
  BY SideFacts
<1> HIDE DEF side
<1>3. \A m \in T : Key(from[m]) = key =>
             /\ \A o \in T : Key(from[o]) # key => side(from[m]) # {}
             /\ PlainFrom(from, n) =>
                  /\ \A u \in side(from[m]) : \A pair \in u.pairs : \E o \in T : \E p :
                       /\ Equates(from, n, key, m, o, p) /\ pair = <<p[1].name, p[2].name>>
                       /\ u.other = Key(from[o]) /\ u.target_alias = from[m].alias /\ u.other_alias = from[o].alias
                  /\ \A o, p : Equates(from, n, key, m, o, p) =>
                       \E u \in side(from[m]) :
                         /\ <<p[1].name, p[2].name>> \in u.pairs
                         /\ u.other = Key(from[o]) /\ u.target_alias = from[m].alias /\ u.other_alias = from[o].alias
  BY <1>s DEF TellsSide, T
<1>4. \A m, o, p : Equates(from, n, key, m, o, p) => m \in T /\ Key(from[m]) = key
  BY DEF Equates
<1> HIDE DEF T, tables, usages
<1>5. \A u : u \in usages <=> \E m \in T : Key(from[m]) = key /\ u \in side(from[m])
  BY <1>1, <1>2
<1>6. \A m, o \in T : Key(from[m]) = key /\ Key(from[o]) # key => usages # {}
  BY <1>3, <1>5
<1>7. ASSUME PlainFrom(from, n), NEW u \in usages, NEW pair \in u.pairs
      PROVE  \E m, o \in T : \E p :
                       /\ Equates(from, n, key, m, o, p) /\ pair = <<p[1].name, p[2].name>>
                       /\ u.other = Key(from[o]) /\ u.target_alias = from[m].alias /\ u.other_alias = from[o].alias
  <2>1. PICK m \in T : Key(from[m]) = key /\ u \in side(from[m])
    BY <1>5, <1>7
  <2> QED
    BY <1>3, <1>7, <2>1
<1>8. ASSUME PlainFrom(from, n), NEW m, NEW o, NEW p, Equates(from, n, key, m, o, p)
      PROVE  \E u \in usages :
                         /\ <<p[1].name, p[2].name>> \in u.pairs
                         /\ u.other = Key(from[o]) /\ u.target_alias = from[m].alias /\ u.other_alias = from[o].alias
  <2>1. m \in T /\ Key(from[m]) = key
    BY <1>4, <1>8
  <2>2. PICK u \in side(from[m]) :
                         /\ <<p[1].name, p[2].name>> \in u.pairs
                         /\ u.other = Key(from[o]) /\ u.target_alias = from[m].alias /\ u.other_alias = from[o].alias
    BY <1>3, <1>8, <2>1
  <2> QED
    BY <1>5, <2>1, <2>2
<1> QED
  BY <1>6, <1>7, <1>8 DEF T, usages, TellsJoin

TargetKey == <<target.schema, target.name>>

\* The equalities as SQL means them are the ones a join is searched for, when no common
\* table expression has the target's name.
LEMMA RealFacts ==
  ASSUME NEW b \in Bodies, NEW k \in DOMAIN b.statements, NEW q \in DOMAIN b.queries,
         NEW n \in DOMAIN b.queries[q].from, PlainNames(b, b.statements[k])
  PROVE  LET from == b.queries[q].from
             real == RealPairs(b, b.statements[k], q, n)
         IN  /\ \A r \in real : \E m, o, p :
                  /\ Equates(from, n, TargetKey, m, o, p)
                  /\ r.mine = from[m] /\ r.other = from[o] /\ r.pair = <<p[1].name, p[2].name>>
             /\ \A m, o, p : Equates(from, n, TargetKey, m, o, p) =>
                  \E r \in real : r.mine = from[m] /\ r.other = from[o] /\ r.pair = <<p[1].name, p[2].name>>
<1> DEFINE s == b.statements[k]
           from == b.queries[q].from
           items == SubSeq(from, 1, n)
           T == TablesAt(from, n)
           E == EqualityPairs(from[n].on)
           equalities == {c \in Range(items[n].on) : c.op = "=" /\ Len(c.left) = 1 /\ Len(c.right) = 1}
           both == UNION {{<<c.left[1], c.right[1]>>, <<c.right[1], c.left[1]>>} : c \in equalities}
           named(ref) == {j \in DOMAIN items : items[j].kind = "table" /\ Exposed(items[j]) = ref.prefix}
           mine(ref) == {j \in named(ref) : Key(items[j]) = <<target.schema, target.name>>
                                            /\ CteOf(s, items[j], q) = {}}
           real == RealPairs(b, s, q, n)
<1>1. from \in Seq(Item)
  <2>1. b.queries[q] \in Query
    BY BodyFacts
  <2> QED
    BY <2>1 DEF Query
<1>2. DOMAIN items = 1..n /\ (\A j \in 1..n : items[j] = from[j]) /\ n \in 1..n
  <2>1. n \in DOMAIN from
    OBVIOUS
  <2>2. n \in 1..Len(from) /\ Len(from) \in Nat
    <3> HIDE DEF from, Item
    <3> QED
      BY <1>1, <2>1
  <2> HIDE DEF from, Item
  <2> QED
    BY <1>1, <2>2
<1>3. real = UNION {{[mine |-> items[m], other |-> items[o], pair |-> <<p[1].name, p[2].name>>] :
                       m \in mine(p[1]), o \in named(p[2]) \ mine(p[2])} : p \in both}
  BY DEF RealPairs
<1>4. equalities = E
  BY <1>2 DEF EqualityPairs
<1>5. ASSUME NEW j \in T, Key(from[j]) = TargetKey PROVE CteOf(s, from[j], q) = {}
  <2>1. \A c \in DOMAIN s.ctes : <<"dbo", s.ctes[c].name>> # <<target.schema, target.name>>
    BY DEF PlainNames
  <2> HIDE DEF from, s
  <2> QED
    BY <1>5, <2>1 DEF CteOf, Key, TargetKey
<1> HIDE DEF items, equalities, s, from
<1>6. \A ref, j : j \in named(ref) <=> j \in T /\ Exposed(from[j]) = ref.prefix
  BY <1>2 DEF TablesAt
<1>7. \A ref, j : j \in mine(ref) <=> j \in T /\ Exposed(from[j]) = ref.prefix /\ Key(from[j]) = TargetKey
  <2>1. \A j \in T : items[j] = from[j]
    BY <1>2 DEF TablesAt
  <2> HIDE DEF named
  <2> QED
    BY <1>5, <1>6, <2>1 DEF TargetKey
<1>8. \A p : p \in both <=> \E c \in E : Reads(c, p)
  BY <1>4 DEF Reads
<1> HIDE DEF named, mine, both, E, real
<1>9. \A m, o, p : Equates(from, n, TargetKey, m, o, p)
                   <=> p \in both /\ m \in mine(p[1]) /\ o \in named(p[2]) \ mine(p[2])
  <2> SUFFICES ASSUME NEW m, NEW o, NEW p
               PROVE  Equates(from, n, TargetKey, m, o, p)
                      <=> p \in both /\ m \in mine(p[1]) /\ o \in named(p[2]) \ mine(p[2])
    OBVIOUS
  <2>1. m \in mine(p[1]) <=> m \in T /\ Exposed(from[m]) = p[1].prefix /\ Key(from[m]) = TargetKey
    BY <1>7
  <2>2. o \in named(p[2]) \ mine(p[2]) <=> o \in T /\ Exposed(from[o]) = p[2].prefix /\ Key(from[o]) # TargetKey
    BY <1>6, <1>7
  <2>3. p \in both <=> \E c \in EqualityPairs(from[n].on) : Reads(c, p)
    BY <1>8 DEF E
  <2> QED
    BY <2>1, <2>2, <2>3 DEF Equates
<1>10. \A m \in T : items[m] = from[m]
  BY <1>2 DEF TablesAt
<1>11. ASSUME NEW r \in real
       PROVE  \E m, o, p :
                  /\ Equates(from, n, TargetKey, m, o, p)
                  /\ r.mine = from[m] /\ r.other = from[o] /\ r.pair = <<p[1].name, p[2].name>>
  <2>1. PICK p \in both : \E m \in mine(p[1]) : \E o \in named(p[2]) \ mine(p[2]) :
          r = [mine |-> items[m], other |-> items[o], pair |-> <<p[1].name, p[2].name>>]
    BY <1>3, <1>11
  <2>2. PICK m \in mine(p[1]), o \in named(p[2]) \ mine(p[2]) :
          r = [mine |-> items[m], other |-> items[o], pair |-> <<p[1].name, p[2].name>>]
    BY <2>1
  <2>3. Equates(from, n, TargetKey, m, o, p)
    BY <1>9, <2>2
  <2>4. items[m] = from[m] /\ items[o] = from[o]
    BY <1>10, <2>3 DEF Equates
  <2>5. r.mine = items[m] /\ r.other = items[o] /\ r.pair = <<p[1].name, p[2].name>>
    BY <2>2
  <2> QED
    BY <2>3, <2>4, <2>5
<1>12. ASSUME NEW m, NEW o, NEW p, Equates(from, n, TargetKey, m, o, p)
       PROVE  \E r \in real : r.mine = from[m] /\ r.other = from[o] /\ r.pair = <<p[1].name, p[2].name>>
  <2> DEFINE r == [mine |-> items[m], other |-> items[o], pair |-> <<p[1].name, p[2].name>>]
  <2>1. p \in both /\ m \in mine(p[1]) /\ o \in named(p[2]) \ mine(p[2])
    BY <1>9, <1>12
  <2>2. r \in real
    BY <1>3, <2>1
  <2>3. items[m] = from[m] /\ items[o] = from[o]
    BY <1>10, <1>12 DEF Equates
  <2>4. r.mine = items[m] /\ r.other = items[o] /\ r.pair = <<p[1].name, p[2].name>>
    OBVIOUS
  <2> HIDE DEF r
  <2> QED
    BY <2>2, <2>3, <2>4
<1> QED
  BY <1>11, <1>12 DEF from, real, s

-----------------------------------------------------------------------------
(* The statements of a script.                                             *)

\* The statements that a statement holds and its block's content come down to.
Container(s) == s.kind \in {"block", "if", "while", "try"}
Held(b, k) ==
  LET of[j \in DOMAIN b.statements] ==
        LET s == b.statements[j]
        IN  IF s.kind \in {"block", "if", "while", "try"}
            THEN UNION {of[s.nested[i]] : i \in DOMAIN s.nested} ELSE {j}
  IN  of[k]

\* A block holds what its statements hold, and a script what those at its top hold.
LEMMA HeldFacts ==
  ASSUME NEW b \in Bodies
  PROVE  /\ \A k \in DOMAIN b.statements :
              LET s == b.statements[k]
              IN  Held(b, k) = IF Container(s) THEN UNION {Held(b, s.nested[i]) : i \in DOMAIN s.nested} ELSE {k}
         /\ Leaves(b) = UNION {Held(b, b.top[i]) : i \in DOMAIN b.top}
<1> DEFINE D == DOMAIN b.statements
           s(j) == b.statements[j]
           next == [j \in D |-> IF Container(s(j)) THEN {s(j).nested[i] : i \in DOMAIN s(j).nested} ELSE {}]
           base == [j \in D |-> IF Container(s(j)) THEN {} ELSE {j}]
           Step(g) == [j \in D |-> IF s(j).kind \in {"block", "if", "while", "try"}
                                   THEN UNION {g[s(j).nested[i]] : i \in DOMAIN s(j).nested} ELSE {j}]
           of == CHOOSE g : g = Step(g)
<1>1. \A j \in D : \A i \in DOMAIN s(j).nested : s(j).nested[i] \in D
  <2> SUFFICES ASSUME NEW j \in D, NEW i \in DOMAIN s(j).nested PROVE s(j).nested[i] \in D
    OBVIOUS
  <2> DEFINE L == Len(b.statements)
             list == s(j).nested
  <2>1. list \in Seq((j + 1)..L) /\ D = 1..L /\ b.statements \in Seq(Statement)
    BY StatementFacts
  <2>2. L \in Nat
    <3> HIDE DEF Statement
    <3> QED
      BY <2>1
  <2>3. i \in DOMAIN list
    OBVIOUS
  <2> HIDE DEF L, list, D, s
  <2>a. j \in 1..L
    BY <2>1
  <2>b. list[i] \in (j + 1)..L
    <3> DEFINE S == (j + 1)..L
    <3>1. list \in Seq(S)
      BY <2>1
    <3> HIDE DEF S
    <3>2. list[i] \in S
      BY ONLY <2>3, <3>1, TypedSequence
    <3> QED
      BY <3>2 DEF S
  <2>4. list[i] \in (j + 1)..L /\ j \in 1..L
    BY <2>a, <2>b
  <2>5. list[i] \in 1..L
    BY <2>2, <2>4
  <2> QED
    BY <2>1, <2>5 DEF list
<1>2. next \in [D -> SUBSET D]
  BY <1>1
<1>3. base \in [D -> SUBSET D]
  OBVIOUS
<1>4. \E g : Collects(g, D, next, base)
  <2> HIDE DEF D, next, base
  <2> QED
    BY ONLY <1>2, <1>3, TreeRuns
<1>5. \A j \in D : /\ base[j] = IF Container(s(j)) THEN {} ELSE {j}
                   /\ next[j] = IF Container(s(j)) THEN {s(j).nested[i] : i \in DOMAIN s(j).nested} ELSE {}
  OBVIOUS
<1>6. \E g : g = Step(g)
  <2> HIDE DEF base, next, D, s
  <2>1. PICK g : g = [x \in D |-> base[x] \cup UNION {g[y] : y \in next[x]}]
    BY <1>4 DEF Collects
  <2>2. ASSUME NEW j \in D
        PROVE  base[j] \cup UNION {g[y] : y \in next[j]}
               = IF s(j).kind \in {"block", "if", "while", "try"}
                 THEN UNION {g[s(j).nested[i]] : i \in DOMAIN s(j).nested} ELSE {j}
    <3>1. CASE Container(s(j))
      <4>1. base[j] = {} /\ next[j] = {s(j).nested[i] : i \in DOMAIN s(j).nested}
        BY <1>5, <3>1
      <4>2. s(j).kind \in {"block", "if", "while", "try"}
        BY <3>1 DEF Container
      <4>3. UNION {g[y] : y \in next[j]} = UNION {g[s(j).nested[i]] : i \in DOMAIN s(j).nested}
        BY <4>1
      <4> QED
        BY <4>1, <4>2, <4>3
    <3>2. CASE ~ Container(s(j))
      <4>1. base[j] = {j} /\ next[j] = {}
        BY <1>5, <3>2
      <4>2. s(j).kind \notin {"block", "if", "while", "try"}
        BY <3>2 DEF Container
      <4> QED
        BY <4>1, <4>2
    <3> QED
      BY <3>1, <3>2
  <2>3. g = Step(g)
    BY <2>1, <2>2
  <2> QED
    BY <2>3
<1> HIDE DEF Step
<1>7. of = Step(of)
  BY <1>6
<1> HIDE DEF of
<1>8. \A j \in D : of[j] = IF Container(s(j)) THEN UNION {of[s(j).nested[i]] : i \in DOMAIN s(j).nested} ELSE {j}
  BY <1>7 DEF Step, Container
<1>9. \A j : Held(b, j) = of[j]
  BY Zenon DEF Held, of, Step, D, s
<1>10. Leaves(b) = UNION {of[b.top[i]] : i \in DOMAIN b.top}
  BY Zenon DEF Leaves, of, Step, D, s
<1> HIDE DEF D
<1>11. ASSUME NEW k \in D
       PROVE  Held(b, k) = IF Container(s(k)) THEN UNION {Held(b, s(k).nested[i]) : i \in DOMAIN s(k).nested} ELSE {k}
  <2>1. UNION {of[s(k).nested[i]] : i \in DOMAIN s(k).nested} = UNION {Held(b, s(k).nested[i]) : i \in DOMAIN s(k).nested}
    <3> HIDE DEF s
    <3> QED
      BY <1>9
  <2> HIDE DEF s
  <2> QED
    BY <1>8, <1>9, <2>1
<1>12. UNION {of[b.top[i]] : i \in DOMAIN b.top} = UNION {Held(b, b.top[i]) : i \in DOMAIN b.top}
  BY <1>9
<1> QED
  BY <1>10, <1>11, <1>12 DEF D

-----------------------------------------------------------------------------
(* What the search for joins has still to do.                              *)

StatementJoins(n) == [do |-> "joins of statement", statement |-> n]
QueryJoins(n, k) == [do |-> "joins of query", query |-> n, statement |-> k]
OneJoin(n, q, k) == [do |-> "join", at |-> n, query |-> q, statement |-> k]

JoinTask(b, t) ==
  \/ \E k \in DOMAIN b.statements : t = StatementJoins(k)
  \/ \E k \in DOMAIN b.statements : \E q \in All(b, k) : t = QueryJoins(q, k)
  \/ \E k \in DOMAIN b.statements : \E q \in All(b, k) : \E n \in DOMAIN b.queries[q].from : t = OneJoin(n, q, k)

\* A join that a task leads to.
Covers(b, t, k, q, n) ==
  \/ \E j : t = StatementJoins(j) /\ k \in Held(b, j)
  \/ \E p : t = QueryJoins(p, k) /\ q \in BuiltFrom(b.queries, p)
  \/ t = OneJoin(n, q, k)

JoinHit(b, key, h) ==
  \E k \in DOMAIN b.statements : \E q \in All(b, k) : \E n \in DOMAIN b.queries[q].from :
    h.line = <<k, q, n>> /\ h.usages = EmitJoin(b.queries[q].from, n, key)

Wanted(b, k, q, n) ==
  k \in Leaves(b) /\ q \in All(b, k) /\ n \in DOMAIN b.queries[q].from \ {1} /\ b.queries[q].from[n].on # << >>
Tells(hs, k, q, n) == \E h \in Range(hs) : h.line = <<k, q, n>>

\* What is found is of its join; each join that has a condition is found, or will be.
JoinsOk(b, key, tasks, hs) ==
  /\ IsSequence(tasks) /\ IsSequence(hs)
  /\ \A t \in Range(tasks) : JoinTask(b, t)
  /\ \A h \in Range(hs) : JoinHit(b, key, h)
  /\ \A k, q, n : Wanted(b, k, q, n) => Tells(hs, k, q, n) \/ \E t \in Range(tasks) : Covers(b, t, k, q, n)

\* The head gives way to tasks that lead to all it leads to.
LEMMA JoinsUnfold ==
  ASSUME NEW b, NEW key, NEW tasks, NEW hs, JoinsOk(b, key, tasks, hs), tasks # << >>,
         NEW more, IsSequence(more), \A t \in Range(more) : JoinTask(b, t),
         \A k, q, n : Wanted(b, k, q, n) /\ Covers(b, Head(tasks), k, q, n) =>
                        \E t \in Range(more) : Covers(b, t, k, q, n)
  PROVE  JoinsOk(b, key, more \o Tail(tasks), hs)
<1>1. IsSequence(tasks)
  BY DEF JoinsOk
<1>2. IsSequence(Tail(tasks)) /\ Range(tasks) = {Head(tasks)} \cup Range(Tail(tasks))
  BY <1>1, AnyTail
<1> DEFINE rest == Tail(tasks)
           all == more \o rest
<1>3. IsSequence(all) /\ Range(all) = Range(more) \cup Range(rest)
  BY <1>2, AnyConcat
<1> HIDE DEF all, rest
<1>4. \A t \in Range(all) : JoinTask(b, t)
  BY <1>2, <1>3 DEF JoinsOk, rest
<1>5. ASSUME NEW k, NEW q, NEW n, Wanted(b, k, q, n)
      PROVE  Tells(hs, k, q, n) \/ \E t \in Range(all) : Covers(b, t, k, q, n)
  <2>1. CASE Tells(hs, k, q, n)
    BY <2>1
  <2>2. CASE ~ Tells(hs, k, q, n)
    <3>1. PICK t \in Range(tasks) : Covers(b, t, k, q, n)
      BY <1>5, <2>2 DEF JoinsOk
    <3> QED
      BY <1>2, <1>3, <1>5, <3>1 DEF rest
  <2> QED
    BY <2>1, <2>2
<1>6. JoinsOk(b, key, all, hs)
  BY <1>3, <1>4, <1>5 DEF JoinsOk
<1> QED
  BY <1>6 DEF all, rest

\* The join at the head is told.
LEMMA JoinIsTold ==
  ASSUME NEW b, NEW key, NEW tasks, NEW hs, JoinsOk(b, key, tasks, hs), tasks # << >>,
         NEW n, NEW q, NEW k, Head(tasks) = OneJoin(n, q, k), NEW h, JoinHit(b, key, h), h.line = <<k, q, n>>
  PROVE  JoinsOk(b, key, Tail(tasks), Append(hs, h))
<1>1. IsSequence(tasks) /\ IsSequence(hs)
  BY DEF JoinsOk
<1>2. IsSequence(Tail(tasks)) /\ Range(tasks) = {Head(tasks)} \cup Range(Tail(tasks))
  BY <1>1, AnyTail
<1> DEFINE rest == Tail(tasks)
           new == Append(hs, h)
<1>3. IsSequence(new) /\ Range(new) = Range(hs) \cup {h}
  BY <1>1, AnyAppend
<1> HIDE DEF new, rest
<1>4. ASSUME NEW a, NEW c, NEW d, Wanted(b, a, c, d)
      PROVE  Tells(new, a, c, d) \/ \E t \in Range(rest) : Covers(b, t, a, c, d)
  <2>1. CASE Tells(hs, a, c, d)
    BY <1>3, <2>1 DEF Tells
  <2>2. CASE ~ Tells(hs, a, c, d)
    <3>1. PICK t \in Range(tasks) : Covers(b, t, a, c, d)
      BY <1>4, <2>2 DEF JoinsOk
    <3>2. CASE t \in Range(rest)
      BY <3>1, <3>2
    <3>3. CASE t = OneJoin(n, q, k)
      <4>1. t.do = "join" /\ t.at = n /\ t.query = q /\ t.statement = k
        BY <3>3 DEF OneJoin
      <4>a. \A j : StatementJoins(j).do = "joins of statement"
        BY DEF StatementJoins
      <4>b. \A p, j : QueryJoins(p, j).do = "joins of query"
        BY DEF QueryJoins
      <4>c. \A j : t # StatementJoins(j)
        BY <4>1, <4>a
      <4>d. \A p, j : t # QueryJoins(p, j)
        BY <4>1, <4>b
      <4>2. t = OneJoin(d, c, a)
        BY <3>1, <4>c, <4>d DEF Covers
      <4>3. d = n /\ c = q /\ a = k
        BY <4>1, <4>2 DEF OneJoin
      <4> QED
        BY <1>3, <4>3 DEF Tells
    <3> QED
      BY <1>2, <3>2, <3>3 DEF rest
  <2> QED
    BY <2>1, <2>2
<1>5. /\ \A t \in Range(rest) : JoinTask(b, t)
      /\ \A g \in Range(new) : JoinHit(b, key, g)
  BY <1>2, <1>3 DEF JoinsOk, rest
<1>6. JoinsOk(b, key, rest, new)
  BY <1>2, <1>3, <1>4, <1>5 DEF JoinsOk, rest
<1> QED
  BY <1>6 DEF rest, new

\* The list of one query, or of none.
LEMMA JoinsOfQueryFacts ==
  ASSUME NEW n, NEW k
  PROVE  IsSequence(JoinsOfQuery(n, k)) /\ Range(JoinsOfQuery(n, k)) = IF n = 0 THEN {} ELSE {QueryJoins(n, k)}
<1>1. JoinsOfQuery(n, k) = IF n = 0 THEN << >> ELSE <<QueryJoins(n, k)>>
  BY DEF JoinsOfQuery, QueryJoins
<1> DEFINE t == QueryJoins(n, k)
<1> HIDE DEF t
<1>2. IsSequence(<<t>>) /\ Range(<<t>>) = {t}
  BY AnySingle
<1> QED
  BY <1>1, <1>2, AnyEmpty DEF t

\* Lists made along a sequence, put together.
LEMMA AlongFlat ==
  ASSUME NEW s, IsSequence(s), NEW m, m = [i \in DOMAIN s |-> m[i]], \A i \in DOMAIN s : IsSequence(m[i])
  PROVE  IsSequence(FlattenSeq(m)) /\ Range(FlattenSeq(m)) = UNION {Range(m[i]) : i \in DOMAIN s}
<1>1. IsSequence(m) /\ DOMAIN m = DOMAIN s
  BY AlongFacts
<1>2. \A i \in DOMAIN m : IsSequence(m[i])
  BY <1>1
<1> QED
  BY <1>1, <1>2, AnyFlatten

\* A statement leads to what it holds and to its own queries.
LEMMA StatementSpreads ==
  ASSUME NEW b \in Bodies, NEW k \in DOMAIN b.statements
  PROVE  LET s == b.statements[k]
             more == [i \in DOMAIN s.nested |-> [do |-> "joins of statement", statement |-> s.nested[i]]]
                     \o FlattenSeq([i \in DOMAIN s.ctes |-> JoinsOfQuery(s.ctes[i].query, k)])
                     \o JoinsOfQuery(s.query, k) \o JoinsOfQuery(s.using.query, k)
         IN  /\ IsSequence(more) /\ \A t \in Range(more) : JoinTask(b, t)
             /\ \A a, q, n : Wanted(b, a, q, n) /\ a \in Held(b, k) => \E t \in Range(more) : Covers(b, t, a, q, n)
<1> DEFINE s == b.statements[k]
           inner == [i \in DOMAIN s.nested |-> StatementJoins(s.nested[i])]
           each == [i \in DOMAIN s.ctes |-> JoinsOfQuery(s.ctes[i].query, k)]
           flat == FlattenSeq(each)
           own == JoinsOfQuery(s.query, k)
           using == JoinsOfQuery(s.using.query, k)
           more == inner \o flat \o own \o using
           R == Range(Roots(s)) \ {0}
<1>1. /\ IsSequence(s.nested) /\ \A i \in DOMAIN s.nested : s.nested[i] \in DOMAIN b.statements
  <2> DEFINE L == Len(b.statements)
             S == (k + 1)..L
             list == s.nested
  <2>1. list \in Seq(S) /\ DOMAIN b.statements = 1..L /\ b.statements \in Seq(Statement) /\ k \in 1..L
    BY StatementFacts
  <2>2. L \in Nat
    <3> HIDE DEF Statement
    <3> QED
      BY <2>1
  <2>3. S \subseteq 1..L
    BY <2>1, <2>2
  <2> HIDE DEF S, L, list
  <2>4. IsSequence(list) /\ \A i \in DOMAIN list : list[i] \in S
    BY ONLY <2>1, TypedSequence
  <2> QED
    BY <2>1, <2>3, <2>4 DEF list
<1>2. IsSequence(s.ctes)
  BY StatementFacts DEF IsSequence
<1>3. Range(Roots(s)) = {s.query, s.using.query} \cup {s.ctes[c].query : c \in DOMAIN s.ctes}
  BY RootsFacts
<1>4. /\ \A r \in R : r \in All(b, k)
      /\ All(b, k) = UNION {BuiltFrom(b.queries, n) : n \in R}
  BY AllFacts DEF All, QueriesOf
<1>5. \A n : IsSequence(JoinsOfQuery(n, k)) /\ Range(JoinsOfQuery(n, k)) = IF n = 0 THEN {} ELSE {QueryJoins(n, k)}
  BY JoinsOfQueryFacts
<1>6. inner = [i \in DOMAIN s.nested |-> inner[i]] /\ each = [i \in DOMAIN s.ctes |-> each[i]]
  OBVIOUS
<1>7. /\ \A i \in DOMAIN s.nested : inner[i] = StatementJoins(s.nested[i])
      /\ \A i \in DOMAIN s.ctes : each[i] = JoinsOfQuery(s.ctes[i].query, k)
  OBVIOUS
<1>8. more = [i \in DOMAIN s.nested |-> [do |-> "joins of statement", statement |-> s.nested[i]]]
             \o FlattenSeq([i \in DOMAIN s.ctes |-> JoinsOfQuery(s.ctes[i].query, k)])
             \o JoinsOfQuery(s.query, k) \o JoinsOfQuery(s.using.query, k)
  BY DEF StatementJoins
<1>h. LET x == b.statements[k]
      IN  Held(b, k) = IF Container(x) THEN UNION {Held(b, x.nested[i]) : i \in DOMAIN x.nested} ELSE {k}
  BY HeldFacts
<1>9. Held(b, k) = IF Container(s) THEN UNION {Held(b, s.nested[i]) : i \in DOMAIN s.nested} ELSE {k}
  BY <1>h
<1> HIDE DEF inner, each, s, R
<1>10. IsSequence(inner) /\ Range(inner) = {StatementJoins(s.nested[i]) : i \in DOMAIN s.nested}
  <2>1. IsSequence(inner) /\ DOMAIN inner = DOMAIN s.nested
    BY <1>1, <1>6, AlongFacts
  <2> QED
    BY <1>7, <2>1 DEF Range
<1>11. IsSequence(flat) /\ Range(flat) = UNION {Range(each[i]) : i \in DOMAIN s.ctes}
  <2>1. \A i \in DOMAIN s.ctes : IsSequence(each[i])
    BY <1>5, <1>7
  <2> QED
    BY <1>2, <1>6, <2>1, AlongFlat
<1>12. IsSequence(own) /\ IsSequence(using)
  BY <1>5
<1> HIDE DEF flat, own, using
<1>13. IsSequence(more) /\ Range(more) = Range(inner) \cup Range(flat) \cup Range(own) \cup Range(using)
  <2> DEFINE x == inner \o flat
             y == x \o own
  <2>1. IsSequence(x) /\ Range(x) = Range(inner) \cup Range(flat)
    BY <1>10, <1>11, AnyConcat
  <2> HIDE DEF x
  <2>2. IsSequence(y) /\ Range(y) = Range(x) \cup Range(own)
    BY <1>12, <2>1, AnyConcat
  <2> HIDE DEF y
  <2>3. IsSequence(y \o using) /\ Range(y \o using) = Range(y) \cup Range(using)
    BY <1>12, <2>2, AnyConcat
  <2> QED
    BY <2>1, <2>2, <2>3 DEF y, x
<1>14. \A c \in DOMAIN s.ctes : Range(each[c]) = IF s.ctes[c].query = 0 THEN {} ELSE {QueryJoins(s.ctes[c].query, k)}
  BY <1>5, <1>7
<1>15. /\ Range(own) = IF s.query = 0 THEN {} ELSE {QueryJoins(s.query, k)}
       /\ Range(using) = IF s.using.query = 0 THEN {} ELSE {QueryJoins(s.using.query, k)}
  BY <1>5 DEF own, using
<1> HIDE DEF more
<1>16. \A t \in Range(more) : t \in Range(inner) \/ \E r \in R : t = QueryJoins(r, k)
  <2>1. ASSUME NEW t \in Range(flat) PROVE \E r \in R : t = QueryJoins(r, k)
    <3>1. PICK c \in DOMAIN s.ctes : t \in Range(each[c])
      BY <1>11, <2>1
    <3>2. s.ctes[c].query # 0 /\ t = QueryJoins(s.ctes[c].query, k)
      BY <1>14, <3>1
    <3>3. s.ctes[c].query \in R
      BY <1>3, <3>2 DEF R
    <3> QED
      BY <3>2, <3>3
  <2>2. \A t \in Range(own) \cup Range(using) : \E r \in R : t = QueryJoins(r, k)
    BY <1>3, <1>15 DEF R
  <2> QED
    BY <1>13, <2>1, <2>2
<1>17. \A r \in R : QueryJoins(r, k) \in Range(more)
  <2> SUFFICES ASSUME NEW r \in R PROVE QueryJoins(r, k) \in Range(more)
    OBVIOUS
  <2>1. r # 0 /\ (r \in {s.query, s.using.query} \/ \E c \in DOMAIN s.ctes : r = s.ctes[c].query)
    BY <1>3 DEF R
  <2>2. CASE r \in {s.query, s.using.query}
    BY <1>13, <1>15, <2>1, <2>2
  <2>3. CASE \E c \in DOMAIN s.ctes : r = s.ctes[c].query
    <3>1. PICK c \in DOMAIN s.ctes : r = s.ctes[c].query
      BY <2>3
    <3>2. QueryJoins(r, k) \in Range(each[c])
      BY <1>14, <2>1, <3>1
    <3> QED
      BY <1>11, <1>13, <3>1, <3>2
  <2> QED
    BY <2>1, <2>2, <2>3
<1>18. \A t \in Range(more) : JoinTask(b, t)
  <2>1. \A t \in Range(inner) : JoinTask(b, t)
    BY <1>1, <1>10 DEF JoinTask
  <2>2. \A r \in R : JoinTask(b, QueryJoins(r, k))
    BY <1>4 DEF JoinTask
  <2> QED
    BY <1>16, <2>1, <2>2
<1>19. ASSUME NEW a, NEW q, NEW n, Wanted(b, a, q, n), a \in Held(b, k)
       PROVE  \E t \in Range(more) : Covers(b, t, a, q, n)
  <2>1. CASE Container(s)
    <3>1. PICK i \in DOMAIN s.nested : a \in Held(b, s.nested[i])
      BY <1>9, <1>19, <2>1
    <3>2. Covers(b, StatementJoins(s.nested[i]), a, q, n)
      BY <3>1 DEF Covers
    <3> QED
      BY <1>10, <1>13, <3>2
  <2>2. CASE ~ Container(s)
    <3>1. a = k
      BY <1>9, <1>19, <2>2
    <3>2. q \in All(b, k)
      BY <1>19, <3>1 DEF Wanted
    <3>3. PICK r \in R : q \in BuiltFrom(b.queries, r)
      BY <1>4, <3>2
    <3>4. Covers(b, QueryJoins(r, k), a, q, n)
      BY <3>1, <3>3 DEF Covers
    <3> QED
      BY <1>17, <3>4
  <2> QED
    BY <2>1, <2>2
<1>20. /\ IsSequence(more) /\ \A t \in Range(more) : JoinTask(b, t)
       /\ \A a, q, n : Wanted(b, a, q, n) /\ a \in Held(b, k) => \E t \in Range(more) : Covers(b, t, a, q, n)
  BY <1>13, <1>18, <1>19
<1> QED
  BY <1>8, <1>20 DEF s

\* A query leads to its own joins and to those of its parts.
LEMMA QuerySpreads ==
  ASSUME NEW b \in Bodies, NEW k \in DOMAIN b.statements, NEW p \in All(b, k)
  PROVE  LET q == b.queries[p]
             join(i) == LET n == Len(q.from) + 1 - i
                        IN  IF n < 2 \/ q.from[n].on = << >> THEN << >>
                            ELSE <<[do |-> "join", at |-> n, query |-> p, statement |-> k]>>
             more == FlattenSeq([i \in DOMAIN q.from |-> join(i)])
                     \o FlattenSeq([i \in DOMAIN q.from |-> JoinsOfQuery(q.from[i].query, k)])
                     \o JoinsOfQuery(q.left, k) \o JoinsOfQuery(q.right, k)
         IN  /\ IsSequence(more) /\ \A t \in Range(more) : JoinTask(b, t)
             /\ \A c, n : Wanted(b, k, c, n) /\ c \in BuiltFrom(b.queries, p) =>
                            \E t \in Range(more) : Covers(b, t, k, c, n)
<1> DEFINE q == b.queries[p]
           from == q.from
           L == Len(from)
           place(i) == L + 1 - i
           join(i) == IF place(i) < 2 \/ from[place(i)].on = << >> THEN << >> ELSE <<OneJoin(place(i), p, k)>>
           mine == [i \in DOMAIN from |-> join(i)]
           each == [i \in DOMAIN from |-> JoinsOfQuery(from[i].query, k)]
           joins == FlattenSeq(mine)
           flat == FlattenSeq(each)
           lefts == JoinsOfQuery(q.left, k)
           rights == JoinsOfQuery(q.right, k)
           more == joins \o flat \o lefts \o rights
           P == Parts(q)
<1>1. /\ q \in Query /\ p \in DOMAIN b.queries
      /\ \A i \in DOMAIN from : IF from[i].kind = "derived" THEN from[i].query \in P ELSE from[i].query = 0
      /\ IF q.kind = "union" THEN q.left \in P /\ q.right \in P ELSE q.left = 0 /\ q.right = 0
      /\ \A r \in P : \/ \E i \in DOMAIN from : from[i].kind = "derived" /\ r = from[i].query
                      \/ q.kind = "union" /\ r \in {q.left, q.right}
  <2>1. p \in DOMAIN b.queries
    BY AllFacts
  <2> QED
    BY <2>1, BodyFacts
<1>2. IsSequence(from) /\ DOMAIN from = 1..L /\ L \in Nat
  <2>1. from \in Seq(Item)
    BY <1>1 DEF Query
  <2> HIDE DEF from, Item, L
  <2>2. IsSequence(from)
    BY <2>1, TypedSequence
  <2> QED
    BY <2>2, AnySequence DEF L
<1>3. /\ \A r \in P : r \in All(b, k)
      /\ 0 \notin P
      /\ BuiltFrom(b.queries, p) = {p} \cup UNION {BuiltFrom(b.queries, r) : r \in P}
  <2>1. \A r \in P : r \in All(b, k)
    BY AllFacts
  <2>2. /\ b.queries \in Seq(Query) /\ Layers(b.queries) /\ Len(b.queries) \in Nat
        /\ DOMAIN b.queries = 1..Len(b.queries)
    BY BodyFacts
  <2>3. p \in 1..Len(b.queries)
    BY <1>1, <2>2
  <2>4. BuiltFrom(b.queries, p) = {p} \cup UNION {BuiltFrom(b.queries, r) : r \in P}
    BY <2>2, <2>3, BuiltUnfolds
  <2>5. \A r \in P : r \in 1..Len(b.queries)
    BY <2>2, <2>3, PartBelow
  <2>6. 0 \notin 1..Len(b.queries)
    BY <2>2
  <2> QED
    BY <2>1, <2>4, <2>5, <2>6
<1>5. \A n : IsSequence(JoinsOfQuery(n, k)) /\ Range(JoinsOfQuery(n, k)) = IF n = 0 THEN {} ELSE {QueryJoins(n, k)}
  BY JoinsOfQueryFacts
<1>6. mine = [i \in DOMAIN from |-> mine[i]] /\ each = [i \in DOMAIN from |-> each[i]]
  OBVIOUS
<1>7. /\ \A i \in DOMAIN from : mine[i] = join(i)
      /\ \A i \in DOMAIN from : each[i] = JoinsOfQuery(from[i].query, k)
  OBVIOUS
<1>8. more = LET x == b.queries[p]
                 y(i) == LET n == Len(x.from) + 1 - i
                         IN  IF n < 2 \/ x.from[n].on = << >> THEN << >>
                             ELSE <<[do |-> "join", at |-> n, query |-> p, statement |-> k]>>
             IN  FlattenSeq([i \in DOMAIN x.from |-> y(i)])
                 \o FlattenSeq([i \in DOMAIN x.from |-> JoinsOfQuery(x.from[i].query, k)])
                 \o JoinsOfQuery(x.left, k) \o JoinsOfQuery(x.right, k)
  BY DEF OneJoin
<1> HIDE DEF mine, each, from, L, P, q
<1>9. \A i \in DOMAIN from : place(i) \in DOMAIN from /\ place(place(i)) = i
  BY <1>2
<1> HIDE DEF place
<1>10. \A i \in DOMAIN from : /\ IsSequence(join(i))
                              /\ Range(join(i)) = IF place(i) < 2 \/ from[place(i)].on = << >> THEN {} ELSE {OneJoin(place(i), p, k)}
  <2> SUFFICES ASSUME NEW i \in DOMAIN from
               PROVE  /\ IsSequence(join(i))
                      /\ Range(join(i)) = IF place(i) < 2 \/ from[place(i)].on = << >> THEN {} ELSE {OneJoin(place(i), p, k)}
    OBVIOUS
  <2> DEFINE t == OneJoin(place(i), p, k)
             none == place(i) < 2 \/ from[place(i)].on = << >>
  <2>1. join(i) = IF none THEN << >> ELSE <<t>>
    OBVIOUS
  <2> HIDE DEF t, none, join
  <2>2. IsSequence(join(i)) /\ Range(join(i)) = IF none THEN {} ELSE {t}
    BY <2>1, AnySingle, AnyEmpty
  <2> QED
    BY <2>2 DEF t, none
<1> HIDE DEF join
<1>11. IsSequence(joins) /\ Range(joins) = UNION {Range(mine[i]) : i \in DOMAIN from}
  <2>1. \A i \in DOMAIN from : IsSequence(mine[i])
    BY <1>7, <1>10
  <2> QED
    BY <1>2, <1>6, <2>1, AlongFlat
<1>12. IsSequence(flat) /\ Range(flat) = UNION {Range(each[i]) : i \in DOMAIN from}
  <2>1. \A i \in DOMAIN from : IsSequence(each[i])
    BY <1>5, <1>7
  <2> QED
    BY <1>2, <1>6, <2>1, AlongFlat
<1>13. IsSequence(lefts) /\ IsSequence(rights)
  BY <1>5
<1> HIDE DEF joins, flat, lefts, rights
<1>14. IsSequence(more) /\ Range(more) = Range(joins) \cup Range(flat) \cup Range(lefts) \cup Range(rights)
  <2> DEFINE x == joins \o flat
             y == x \o lefts
  <2>1. IsSequence(x) /\ Range(x) = Range(joins) \cup Range(flat)
    BY <1>11, <1>12, AnyConcat
  <2> HIDE DEF x
  <2>2. IsSequence(y) /\ Range(y) = Range(x) \cup Range(lefts)
    BY <1>13, <2>1, AnyConcat
  <2> HIDE DEF y
  <2>3. IsSequence(y \o rights) /\ Range(y \o rights) = Range(y) \cup Range(rights)
    BY <1>13, <2>2, AnyConcat
  <2> QED
    BY <2>1, <2>2, <2>3 DEF y, x
<1> HIDE DEF more
<1>15. \A i \in DOMAIN from : Range(each[i]) = IF from[i].query = 0 THEN {} ELSE {QueryJoins(from[i].query, k)}
  BY <1>5, <1>7
<1>16. /\ Range(lefts) = IF q.left = 0 THEN {} ELSE {QueryJoins(q.left, k)}
       /\ Range(rights) = IF q.right = 0 THEN {} ELSE {QueryJoins(q.right, k)}
  BY <1>5 DEF lefts, rights
<1>17. \A t \in Range(more) : t \in Range(joins) \/ \E r \in P : t = QueryJoins(r, k)
  <2>1. ASSUME NEW t \in Range(flat) PROVE \E r \in P : t = QueryJoins(r, k)
    <3>1. PICK i \in DOMAIN from : t \in Range(each[i])
      BY <1>12, <2>1
    <3>2. from[i].query # 0 /\ t = QueryJoins(from[i].query, k)
      BY <1>15, <3>1
    <3> QED
      BY <1>1, <3>2
  <2>2. \A t \in Range(lefts) \cup Range(rights) : \E r \in P : t = QueryJoins(r, k)
    BY <1>1, <1>16
  <2> QED
    BY <1>14, <2>1, <2>2
<1>18. \A r \in P : QueryJoins(r, k) \in Range(more)
  <2> SUFFICES ASSUME NEW r \in P PROVE QueryJoins(r, k) \in Range(more)
    OBVIOUS
  <2>1. r # 0
    BY <1>3
  <2>2. CASE r \in {q.left, q.right}
    BY <1>14, <1>16, <2>1, <2>2
  <2>3. CASE \E i \in DOMAIN from : r = from[i].query
    <3>1. PICK i \in DOMAIN from : r = from[i].query
      BY <2>3
    <3>2. QueryJoins(r, k) \in Range(each[i])
      BY <1>15, <2>1, <3>1
    <3> QED
      BY <1>12, <1>14, <3>1, <3>2
  <2> QED
    BY <1>1, <2>2, <2>3
<1>19. \A t \in Range(more) : JoinTask(b, t)
  <2>1. ASSUME NEW t \in Range(joins) PROVE JoinTask(b, t)
    <3>1. PICK i \in DOMAIN from : t \in Range(mine[i])
      BY <1>11, <2>1
    <3>2. t = OneJoin(place(i), p, k) /\ place(i) \in DOMAIN from
      BY <1>7, <1>9, <1>10, <3>1
    <3>3. place(i) \in DOMAIN b.queries[p].from
      BY <3>2 DEF from, q
    <3> QED
      BY <3>2, <3>3 DEF JoinTask
  <2>2. \A r \in P : JoinTask(b, QueryJoins(r, k))
    BY <1>3 DEF JoinTask
  <2> QED
    BY <1>17, <2>1, <2>2
<1>20. ASSUME NEW c, NEW n, Wanted(b, k, c, n), c \in BuiltFrom(b.queries, p)
       PROVE  \E t \in Range(more) : Covers(b, t, k, c, n)
  <2>1. CASE c = p
    <3>1. n \in DOMAIN from /\ n # 1 /\ from[n].on # << >>
      BY <1>20, <2>1 DEF Wanted, from, q
    <3> DEFINE i == place(n)
    <3>2. i \in DOMAIN from /\ place(i) = n /\ ~ (n < 2)
      <4>1. ~ (n < 2)
        BY <1>2, <3>1
      <4> QED
        BY <1>9, <3>1, <4>1
    <3> HIDE DEF i
    <3>3. OneJoin(n, p, k) \in Range(mine[i])
      BY <1>7, <1>10, <3>1, <3>2
    <3>4. OneJoin(n, p, k) \in Range(more)
      BY <1>11, <1>14, <3>2, <3>3
    <3> QED
      BY <2>1, <3>4 DEF Covers
  <2>2. CASE c # p
    <3>1. PICK r \in P : c \in BuiltFrom(b.queries, r)
      BY <1>3, <1>20, <2>2
    <3>2. Covers(b, QueryJoins(r, k), k, c, n)
      BY <3>1 DEF Covers
    <3> QED
      BY <1>18, <3>2
  <2> QED
    BY <2>1, <2>2
<1>21. /\ IsSequence(more) /\ \A t \in Range(more) : JoinTask(b, t)
       /\ \A c, n : Wanted(b, k, c, n) /\ c \in BuiltFrom(b.queries, p) =>
                      \E t \in Range(more) : Covers(b, t, k, c, n)
  BY <1>14, <1>19, <1>20
<1> QED
  BY <1>8, <1>21

-----------------------------------------------------------------------------
(* The steps of the search for joins.                                      *)

JoinsInv == JoinsOk(body, TargetKey, agenda, hits)

\* The kind of a task tells which it is.
LEMMA JoinTaskKinds ==
  ASSUME NEW b, NEW t, JoinTask(b, t)
  PROVE  /\ t.do \in {"joins of statement", "joins of query", "join"}
         /\ t.do = "joins of statement" => t.statement \in DOMAIN b.statements /\ t = StatementJoins(t.statement)
         /\ t.do = "joins of query" => /\ t.statement \in DOMAIN b.statements /\ t.query \in All(b, t.statement)
                                       /\ t = QueryJoins(t.query, t.statement)
         /\ t.do = "join" => /\ t.statement \in DOMAIN b.statements /\ t.query \in All(b, t.statement)
                             /\ t.at \in DOMAIN b.queries[t.query].from /\ t = OneJoin(t.at, t.query, t.statement)
<1>1. CASE \E k \in DOMAIN b.statements : t = StatementJoins(k)
  <2>1. PICK k \in DOMAIN b.statements : t = StatementJoins(k)
    BY <1>1
  <2>2. t.do = "joins of statement" /\ t.statement = k
    BY <2>1 DEF StatementJoins
  <2> QED
    BY <2>1, <2>2
<1>2. CASE \E k \in DOMAIN b.statements : \E q \in All(b, k) : t = QueryJoins(q, k)
  <2>a. PICK k \in DOMAIN b.statements : \E q \in All(b, k) : t = QueryJoins(q, k)
    BY <1>2
  <2>1. PICK q \in All(b, k) : t = QueryJoins(q, k)
    BY <2>a
  <2>2. t.do = "joins of query" /\ t.statement = k /\ t.query = q
    BY <2>1 DEF QueryJoins
  <2> QED
    BY <2>1, <2>2
<1>3. CASE \E k \in DOMAIN b.statements : \E q \in All(b, k) : \E n \in DOMAIN b.queries[q].from : t = OneJoin(n, q, k)
  <2>a. PICK k \in DOMAIN b.statements : \E q \in All(b, k) : \E n \in DOMAIN b.queries[q].from : t = OneJoin(n, q, k)
    BY <1>3
  <2>1. PICK q \in All(b, k) : \E n \in DOMAIN b.queries[q].from : t = OneJoin(n, q, k)
    BY <2>a
  <2>2. PICK n \in DOMAIN b.queries[q].from : t = OneJoin(n, q, k)
    BY <2>1
  <2>3. t.do = "join" /\ t.statement = k /\ t.query = q /\ t.at = n
    BY <2>2 DEF OneJoin
  <2> QED
    BY <2>1, <2>2, <2>3
<1> QED
  BY <1>1, <1>2, <1>3 DEF JoinTask

\* The task at hand.
LEMMA JoinAtHead ==
  ASSUME JoinsInv, agenda # << >>
  PROVE  Task = Head(agenda) /\ JoinTask(body, Task)
<1>1. IsSequence(agenda) /\ \A t \in Range(agenda) : JoinTask(body, t)
  BY DEF JoinsInv, JoinsOk
<1>2. Range(agenda) = {Head(agenda)} \cup Range(Tail(agenda))
  BY <1>1, AnyTail
<1> QED
  BY <1>1, <1>2 DEF Task

\* The search for joins has no task that the finder of columns knows.
LEMMA FinderIsIdle == ASSUME JoinsInv, FinderStep PROVE FALSE
<1>1. \E do \in FinderTasks \cup {"statement", "cte", "after cte", "query", "table", "column", "assign"} : Doing(do)
  BY DEF FinderStep, VisitStatements, VisitSelect, VisitCte, AfterCte, VisitInsert, VisitUpdate, VisitMerge,
     RestoreKind, VisitQuery, CollectTable, CollectDerived, AddPlaceholder, CollectOther,
     Enter, Leave, MaybeEmitColumn, AssignTarget, MapStar, FinderTasks
<1>2. PICK do \in FinderTasks \cup {"statement", "cte", "after cte", "query", "table", "column", "assign"} :
        agenda # << >> /\ Task.do = do
  BY <1>1 DEF Doing
<1>3. JoinTask(body, Task)
  BY <1>2, JoinAtHead
<1>4. Task.do \in {"joins of statement", "joins of query", "join"}
  BY <1>3, JoinTaskKinds
<1> QED
  BY <1>2, <1>4 DEF FinderTasks

\* The finder of columns has no task of the search for joins.
LEMMA VisitorIsIdle ==
  ASSUME CiteInv, AcceptStatement \/ AcceptQuery \/ VisitJoin
  PROVE  FALSE
<1>1. PICK do \in {"joins of statement", "joins of query", "join"} : Doing(do)
  BY DEF AcceptStatement, AcceptQuery, VisitJoin
<1>2. TaskOk(body, Task) /\ Task.do = do
  BY <1>1, TaskIsOk
<1> QED
  BY <1>2 DEF TaskOk, FinderTasks

\* A statement gives way to those it holds and to its queries.
LEMMA JoinsAcceptStatement == ASSUME JoinsInv, body \in Bodies, AcceptStatement PROVE JoinsInv'
<1> DEFINE k == Task.statement
           s == body.statements[k]
           more == [i \in DOMAIN s.nested |-> [do |-> "joins of statement", statement |-> s.nested[i]]]
                   \o FlattenSeq([i \in DOMAIN s.ctes |-> JoinsOfQuery(s.ctes[i].query, k)])
                   \o JoinsOfQuery(s.query, k) \o JoinsOfQuery(s.using.query, k)
<1>1. /\ agenda # << >> /\ Task.do = "joins of statement"
      /\ agenda' = more \o Tail(agenda) /\ UNCHANGED <<body, hits, target>>
  BY DEF AcceptStatement, Doing, Then, command
<1>2. /\ Task = Head(agenda) /\ k \in DOMAIN body.statements /\ Task = StatementJoins(k)
  BY <1>1, JoinAtHead, JoinTaskKinds
<1>3. /\ IsSequence(more) /\ \A t \in Range(more) : JoinTask(body, t)
      /\ \A a, q, n : Wanted(body, a, q, n) /\ a \in Held(body, k) => \E t \in Range(more) : Covers(body, t, a, q, n)
  BY <1>2, StatementSpreads
<1> HIDE DEF more, s
<1>4. ASSUME NEW a, NEW q, NEW n, Covers(body, Task, a, q, n) PROVE a \in Held(body, k)
  <2>1. \A j : StatementJoins(j).do = "joins of statement" /\ StatementJoins(j).statement = j
    BY DEF StatementJoins
  <2>2. \A p, j : QueryJoins(p, j).do = "joins of query"
    BY DEF QueryJoins
  <2>3. \A d, p, j : OneJoin(d, p, j).do = "join"
    BY DEF OneJoin
  <2>4. \A p, j : Task # QueryJoins(p, j)
    BY <1>1, <2>2
  <2>5. Task # OneJoin(n, q, a)
    BY <1>1, <2>3
  <2>6. PICK j : Task = StatementJoins(j) /\ a \in Held(body, j)
    BY <1>4, <2>4, <2>5 DEF Covers
  <2> QED
    BY <2>1, <2>6
<1>5. JoinsOk(body, TargetKey, more \o Tail(agenda), hits)
  <2>1. JoinsOk(body, TargetKey, agenda, hits)
    BY DEF JoinsInv
  <2>2. \A a, q, n : Wanted(body, a, q, n) /\ Covers(body, Head(agenda), a, q, n) =>
                       \E t \in Range(more) : Covers(body, t, a, q, n)
    BY <1>2, <1>3, <1>4
  <2> QED
    BY <1>1, <1>3, <2>1, <2>2, JoinsUnfold
<1>6. TargetKey' = TargetKey
  BY <1>1 DEF TargetKey
<1> QED
  BY <1>1, <1>5, <1>6 DEF JoinsInv

\* A query gives way to its joins and to its parts.
LEMMA JoinsAcceptQuery == ASSUME JoinsInv, body \in Bodies, AcceptQuery PROVE JoinsInv'
<1> DEFINE p == Task.query
           k == Task.statement
           q == body.queries[p]
           join(i) == LET n == Len(q.from) + 1 - i
                      IN  IF n < 2 \/ q.from[n].on = << >> THEN << >>
                          ELSE <<[do |-> "join", at |-> n, query |-> p, statement |-> k]>>
           more == FlattenSeq([i \in DOMAIN q.from |-> join(i)])
                   \o FlattenSeq([i \in DOMAIN q.from |-> JoinsOfQuery(q.from[i].query, k)])
                   \o JoinsOfQuery(q.left, k) \o JoinsOfQuery(q.right, k)
<1>1. /\ agenda # << >> /\ Task.do = "joins of query"
      /\ agenda' = more \o Tail(agenda) /\ UNCHANGED <<body, hits, target>>
  BY DEF AcceptQuery, Doing, Then, command
<1>2. /\ Task = Head(agenda) /\ k \in DOMAIN body.statements /\ p \in All(body, k) /\ Task = QueryJoins(p, k)
  BY <1>1, JoinAtHead, JoinTaskKinds
<1>3. /\ IsSequence(more) /\ \A t \in Range(more) : JoinTask(body, t)
      /\ \A c, n : Wanted(body, k, c, n) /\ c \in BuiltFrom(body.queries, p) =>
                     \E t \in Range(more) : Covers(body, t, k, c, n)
  BY <1>2, QuerySpreads
<1> HIDE DEF more, q
<1>4. ASSUME NEW a, NEW c, NEW n, Covers(body, Task, a, c, n) PROVE a = k /\ c \in BuiltFrom(body.queries, p)
  <2>1. \A j : StatementJoins(j).do = "joins of statement"
    BY DEF StatementJoins
  <2>2. \A r, j : QueryJoins(r, j).query = r /\ QueryJoins(r, j).statement = j
    BY DEF QueryJoins
  <2>3. \A d, r, j : OneJoin(d, r, j).do = "join"
    BY DEF OneJoin
  <2>4. \A j : Task # StatementJoins(j)
    BY <1>1, <2>1
  <2>5. Task # OneJoin(n, c, a)
    BY <1>1, <2>3
  <2>6. PICK r : Task = QueryJoins(r, a) /\ c \in BuiltFrom(body.queries, r)
    BY <1>4, <2>4, <2>5 DEF Covers
  <2> QED
    BY <2>2, <2>6
<1>5. JoinsOk(body, TargetKey, more \o Tail(agenda), hits)
  <2>1. JoinsOk(body, TargetKey, agenda, hits)
    BY DEF JoinsInv
  <2>2. \A a, c, n : Wanted(body, a, c, n) /\ Covers(body, Head(agenda), a, c, n) =>
                       \E t \in Range(more) : Covers(body, t, a, c, n)
    BY <1>2, <1>3, <1>4
  <2> QED
    BY <1>1, <1>3, <2>1, <2>2, JoinsUnfold
<1>6. TargetKey' = TargetKey
  BY <1>1 DEF TargetKey
<1> QED
  BY <1>1, <1>5, <1>6 DEF JoinsInv

\* A join that is visited is found.
LEMMA JoinsVisitJoin == ASSUME JoinsInv, VisitJoin PROVE JoinsInv'
<1> DEFINE p == Task.query
           k == Task.statement
           n == Task.at
           usages == EmitJoin(body.queries[p].from, n, TargetKey)
           h == [line |-> <<k, p, n>>, usages |-> usages]
<1>1. /\ agenda # << >> /\ Task.do = "join"
      /\ agenda' = << >> \o Tail(agenda) /\ UNCHANGED <<body, target>> /\ hits' = Append(hits, h)
  BY DEF VisitJoin, Doing, Then, command, TargetKey
<1>2. /\ Task = Head(agenda) /\ k \in DOMAIN body.statements /\ p \in All(body, k)
      /\ n \in DOMAIN body.queries[p].from /\ Task = OneJoin(n, p, k)
  BY <1>1, JoinAtHead, JoinTaskKinds
<1>3. h.line = <<k, p, n>> /\ h.usages = usages
  OBVIOUS
<1> HIDE DEF h
<1>4. JoinHit(body, TargetKey, h)
  BY <1>2, <1>3 DEF JoinHit
<1>5. JoinsOk(body, TargetKey, agenda, hits)
  BY DEF JoinsInv
<1>6. Head(agenda) = OneJoin(n, p, k)
  BY <1>2
<1> HIDE DEF p, k, n, usages
<1>7. JoinsOk(body, TargetKey, Tail(agenda), Append(hits, h))
  BY <1>1, <1>3, <1>4, <1>5, <1>6, JoinIsTold
<1>8. agenda' = Tail(agenda)
  <2>1. IsSequence(Tail(agenda))
    BY <1>7 DEF JoinsOk
  <2>2. << >> \o Tail(agenda) = Tail(agenda)
    BY <2>1 DEF IsSequence
  <2> QED
    BY <1>1, <2>2
<1>9. TargetKey' = TargetKey
  BY <1>1 DEF TargetKey
<1> QED
  BY <1>1, <1>7, <1>8, <1>9 DEF JoinsInv

\* A search begins with the statements of its script, which lead to every join.
LEMMA JoinsBegin ==
  ASSUME NEW b \in Bodies, NEW key
  PROVE  JoinsOk(b, key, [i \in DOMAIN b.top |-> [do |-> "joins of statement", statement |-> b.top[i]]], << >>)
<1> DEFINE more == [i \in DOMAIN b.top |-> StatementJoins(b.top[i])]
<1>1. b.top \in Seq(DOMAIN b.statements)
  BY BodyAssumption
<1>2. IsSequence(b.top) /\ \A i \in DOMAIN b.top : b.top[i] \in DOMAIN b.statements
  BY <1>1, TypedSequence
<1>3. more = [i \in DOMAIN b.top |-> more[i]] /\ \A i \in DOMAIN b.top : more[i] = StatementJoins(b.top[i])
  OBVIOUS
<1>4. more = [i \in DOMAIN b.top |-> [do |-> "joins of statement", statement |-> b.top[i]]]
  BY DEF StatementJoins
<1>5. Leaves(b) = UNION {Held(b, b.top[i]) : i \in DOMAIN b.top}
  BY HeldFacts
<1> HIDE DEF more
<1>6. IsSequence(more) /\ Range(more) = {StatementJoins(b.top[i]) : i \in DOMAIN b.top}
  <2>1. IsSequence(more) /\ DOMAIN more = DOMAIN b.top
    BY <1>2, <1>3, AlongFacts
  <2> QED
    BY <1>3, <2>1 DEF Range
<1>7. \A t \in Range(more) : JoinTask(b, t)
  BY <1>2, <1>6 DEF JoinTask
<1>8. ASSUME NEW k, NEW q, NEW n, Wanted(b, k, q, n) PROVE \E t \in Range(more) : Covers(b, t, k, q, n)
  <2>1. PICK i \in DOMAIN b.top : k \in Held(b, b.top[i])
    BY <1>5, <1>8 DEF Wanted
  <2>2. Covers(b, StatementJoins(b.top[i]), k, q, n)
    BY <2>1 DEF Covers
  <2> QED
    BY <1>6, <2>2
<1>9. JoinsOk(b, key, more, << >>)
  BY <1>6, <1>7, <1>8, AnyEmpty DEF JoinsOk
<1> QED
  BY <1>4, <1>9

-----------------------------------------------------------------------------
(* What the report says of the consumers that were passed.                 *)

\* What is found of a consumer, and said of it, by position.
LEMMA FoundFacts ==
  ASSUME ReportInv
  PROVE  /\ \A i, h : h \in Found(i) <=> \E n \in 1..Len(report) : report[n].consumer = i /\ report[n].hit = h
         /\ \A i, x : x \in Texts(i) <=> \E w \in 1..Len(warnings) : warnings[w].consumer = i /\ warnings[w].text = x
<1>1. DOMAIN report = 1..Len(report) /\ DOMAIN warnings = 1..Len(warnings)
  BY DEF ReportInv, IsSequence
<1>2. \A i, h : h \in Found(i) <=> \E n \in 1..Len(report) : report[n].consumer = i /\ report[n].hit = h
  BY <1>1 DEF Found
<1>3. \A i, x : x \in Texts(i) <=> \E w \in 1..Len(warnings) : warnings[w].consumer = i /\ warnings[w].text = x
  BY <1>1 DEF Texts, Range
<1> QED
  BY <1>2, <1>3

\* Warnings of the consumer at hand leave those of the others as they are.
LEMMA TextsGrow ==
  ASSUME ReportInv, ReportInv', NEW texts, IsSequence(texts), warnings' = warnings \o By(texts), NEW c, c = at
  PROVE  /\ \A i : i # c => Texts(i)' = Texts(i)
         /\ Texts(c) \subseteq Texts(c)' /\ \A j \in 1..Len(texts) : texts[j] \in Texts(c)'
<1>1. /\ Len(warnings) \in Nat /\ Len(texts) \in Nat /\ Len(warnings') = Len(warnings) + Len(texts)
      /\ \A w \in 1..Len(warnings) : warnings'[w] = warnings[w]
      /\ \A w \in (Len(warnings) + 1)..Len(warnings') : warnings'[w].consumer = at
      /\ \A j \in 1..Len(texts) : /\ warnings'[Len(warnings) + j].consumer = at
                                  /\ warnings'[Len(warnings) + j].text = texts[j]
  BY WarningsGrow DEF ReportInv
<1>2. \A i, x : x \in Texts(i) <=> \E w \in 1..Len(warnings) : warnings[w].consumer = i /\ warnings[w].text = x
  BY FoundFacts
<1>3. \A i, x : x \in Texts(i)' <=> \E w \in 1..Len(warnings') : warnings'[w].consumer = i /\ warnings'[w].text = x
  <2>1. DOMAIN warnings' = 1..Len(warnings')
    BY DEF ReportInv, IsSequence
  <2> QED
    BY <2>1 DEF Texts, Range
<1>4. \A w \in 1..Len(warnings') : w \in 1..Len(warnings) \/ w \in (Len(warnings) + 1)..Len(warnings')
  BY <1>1
<1>5. /\ \A w \in 1..Len(warnings) : w \in 1..Len(warnings')
      /\ \A j \in 1..Len(texts) : Len(warnings) + j \in 1..Len(warnings')
  BY <1>1
<1>6. \A i, x : i # c => (x \in Texts(i)' <=> x \in Texts(i))
  BY <1>1, <1>2, <1>3, <1>4, <1>5
<1>7. \A x \in Texts(c) : x \in Texts(c)'
  BY <1>1, <1>2, <1>3, <1>5
<1>8. ASSUME NEW j \in 1..Len(texts) PROVE texts[j] \in Texts(c)'
  <2> DEFINE w == Len(warnings) + j
  <2>1. w \in 1..Len(warnings') /\ warnings'[w].consumer = c /\ warnings'[w].text = texts[j]
    BY <1>1, <1>5
  <2> HIDE DEF w
  <2> QED
    BY <1>3, <2>1
<1>9. ASSUME NEW i, i # c PROVE Texts(i)' = Texts(i)
  <2>1. \A x : x \in Texts(i)' <=> x \in Texts(i)
    BY <1>6, <1>9
  <2> QED
    BY <2>1 DEF Texts
<1> QED
  BY <1>7, <1>8, <1>9

\* What a scan has found becomes what is found of its consumer; the others keep theirs.
LEMMA FoundGrows ==
  ASSUME ScanInv, ReportInv, ReportInv', at \in Nat, CollectHits, NEW c, c = at
  PROVE  /\ \A i : i # c => Found(i)' = Found(i)
         /\ Found(c)' = Range(hits)
<1>1. /\ Len(report) \in Nat /\ Len(report') = Len(report) + Len(hits) /\ Len(hits) \in Nat
      /\ \A n \in 1..Len(report) : report'[n] = report[n]
      /\ \A i \in 1..Len(hits) : report'[Len(report) + i] = Entry(at, hits[i])
  BY ReportGrows DEF ReportInv, ScanInv
<1>2. \A i, h : h \in Found(i) <=> \E n \in 1..Len(report) : report[n].consumer = i /\ report[n].hit = h
  BY FoundFacts
<1>3. \A i, h : h \in Found(i)' <=> \E n \in 1..Len(report') : report'[n].consumer = i /\ report'[n].hit = h
  <2>1. DOMAIN report' = 1..Len(report')
    BY DEF ReportInv, IsSequence
  <2> QED
    BY <2>1 DEF Found
<1>4. /\ \A n \in 1..Len(report') : n \in 1..Len(report) \/ (n - Len(report) \in 1..Len(hits) /\ n = Len(report) + (n - Len(report)))
      /\ \A n \in 1..Len(report) : n \in 1..Len(report')
      /\ \A i \in 1..Len(hits) : Len(report) + i \in 1..Len(report')
  BY <1>1
<1>5. \A n \in 1..Len(report) : report[n].consumer # at
  BY DEF ReportInv
<1>6. \A i \in 1..Len(hits) : report'[Len(report) + i].consumer = at /\ report'[Len(report) + i].hit = hits[i]
  <2> SUFFICES ASSUME NEW i \in 1..Len(hits)
               PROVE  report'[Len(report) + i].consumer = at /\ report'[Len(report) + i].hit = hits[i]
    OBVIOUS
  <2>1. report'[Len(report) + i] = Entry(at, hits[i])
    BY <1>1
  <2>2. Entry(at, hits[i]).consumer = at /\ Entry(at, hits[i]).hit = hits[i]
    BY DEF Entry
  <2> QED
    BY <2>1, <2>2
<1>7. ASSUME NEW i, i # c, NEW h PROVE h \in Found(i)' <=> h \in Found(i)
  <2>1. ASSUME h \in Found(i)' PROVE h \in Found(i)
    <3>1. PICK n \in 1..Len(report') : report'[n].consumer = i /\ report'[n].hit = h
      BY <1>3, <2>1
    <3>2. n \in 1..Len(report)
      BY <1>4, <1>6, <1>7, <3>1
    <3> QED
      BY <1>1, <1>2, <3>1, <3>2
  <2>2. ASSUME h \in Found(i) PROVE h \in Found(i)'
    BY <1>1, <1>2, <1>3, <1>4, <2>2
  <2> QED
    BY <2>1, <2>2
<1>8. DOMAIN hits = 1..Len(hits)
  BY DEF ScanInv, IsSequence
<1>9. ASSUME NEW h PROVE h \in Found(c)' <=> h \in Range(hits)
  <2>1. ASSUME h \in Found(c)' PROVE h \in Range(hits)
    <3>1. PICK n \in 1..Len(report') : report'[n].consumer = at /\ report'[n].hit = h
      BY <1>3, <2>1
    <3>2. n - Len(report) \in 1..Len(hits) /\ n = Len(report) + (n - Len(report))
      BY <1>1, <1>4, <1>5, <3>1
    <3>3. h = hits[n - Len(report)]
      BY <1>6, <3>1, <3>2
    <3> QED
      BY <1>8, <3>2, <3>3 DEF Range
  <2>2. ASSUME h \in Range(hits) PROVE h \in Found(c)'
    <3>1. PICK i \in 1..Len(hits) : h = hits[i]
      BY <1>8, <2>2 DEF Range
    <3> QED
      BY <1>3, <1>4, <1>6, <3>1
  <2> QED
    BY <2>1, <2>2
<1>10. \A i : i # c => Found(i)' = Found(i)
  BY <1>7
<1>11. Found(c)' = Range(hits)
  BY <1>9
<1> QED
  BY <1>10, <1>11

\* The scan at hand is that of the consumer at hand, and keeps its promise.
SweepInv ==
  pc = "scan" =>
    /\ This.script \in {"parses", "errors", "no fragment"} /\ body = This.body
    /\ This.script # "no fragment" => IF request.command = "column-usage" THEN CiteInv ELSE JoinsInv

\* What a scan that came to its end has left.
Settled(b, what, key, found, texts) ==
  IF what = "column-usage"
  THEN \A h \in found : \A name \in Inside(b, h.line) : Note("referenced inside CTE", name) \in texts
  ELSE /\ \A h \in found : JoinHit(b, key, h)
       /\ \A k, q, n : Wanted(b, k, q, n) => \E h \in found : h.line = <<k, q, n>>
Done(i) ==
  Consumers[i].script \in {"parses", "errors"} /\ ScanFailed \notin Texts(i) =>
    Settled(Consumers[i].body, request.command, TargetKey, Found(i), Texts(i))
DoneInv == \A i \in 1..Len(Consumers) : i < at => Done(i)

FullInv == ScanRunInv /\ SweepInv /\ DoneInv

\* The body of the consumer at hand is one of the bodies there are.
LEMMA ThisBody ==
  ASSUME ArtifactsInv, at <= Len(Consumers)
  PROVE  This.body \in Bodies /\ at \in 1..Len(Consumers)
<1>1. Consumers \in Seq(Consumer) /\ Len(Consumers) \in Nat /\ DOMAIN Consumers = 1..Len(Consumers)
  BY ConsumersFacts DEF ArtifactsInv
<1>2. at \in 1..Len(Consumers)
  BY <1>1 DEF ArtifactsInv
<1>3. Consumers[at] \in Consumer
  <2> DEFINE C == Consumers
  <2> HIDE DEF C, Consumer
  <2>1. C \in Seq(Consumer) /\ at \in 1..Len(C)
    BY <1>1, <1>2 DEF C
  <2>2. C[at] \in Consumer
    BY <2>1
  <2> QED
    BY <2>2 DEF C
<1> QED
  BY <1>2, <1>3 DEF Consumer, This

\* No step of the finder changes the script it searches.
LEMMA FinderKeepsBody == ASSUME FinderStep PROVE body' = body
BY DEF FinderStep, VisitStatements, VisitSelect, VisitCte, AfterCte, VisitInsert, VisitUpdate, VisitMerge,
   RestoreKind, VisitQuery, CollectTable, CollectDerived, AddPlaceholder, CollectOther,
   Enter, Leave, MaybeEmitColumn, AssignTarget, MapStar

\* No step changes what was asked for.
LEMMA CommandStays ==
  ASSUME [Next]_vars
  PROVE  /\ UNCHANGED <<request, dacpac, target>> /\ Consumers' = Consumers /\ TargetKey' = TargetKey
<1>1. UNCHANGED <<request, dacpac, target>>
  BY DEF Next, vars, command, outcome, Arguments, Compose, ComposeFails, Load, LoadFails, SkipConsumer,
       ScriptRaises, StartScan, Find, AcceptStatement, AcceptQuery, VisitJoin, CollectHits,
       ScanRaises, AllScanned, Write, WriteFails, Echo
<1> QED
  BY <1>1 DEF Consumers, TargetKey

\* A scan begins with its promise to keep.
LEMMA SweepBegins == ASSUME ScanRunInv, StartScan PROVE SweepInv'
<1> DEFINE b == This.body
<1>1. /\ This.script \in {"parses", "errors", "no fragment"} /\ at <= Len(Consumers)
      /\ body' = b /\ hits' = << >> /\ notes' = << >> /\ at' = at
      /\ request' = request /\ dacpac' = dacpac /\ target' = target
      /\ agenda' = IF This.script = "no fragment" THEN << >>
                   ELSE IF request.command = "column-usage" THEN Statements(b.top)
                   ELSE [i \in DOMAIN b.top |-> [do |-> "joins of statement", statement |-> b.top[i]]]
  BY DEF StartScan, Remaining, command
<1>2. b \in Bodies
  BY <1>1, ThisBody DEF ScanRunInv
<1>3. Consumers' = Consumers
  BY <1>1, ConsumersStay
<1>4. This' = This
  BY <1>1, <1>3 DEF This
<1> DEFINE joins == [i \in DOMAIN b.top |-> [do |-> "joins of statement", statement |-> b.top[i]]]
<1>5. CteOk(b, Statements(b.top), << >>, << >>) /\ JoinsOk(b, TargetKey, joins, << >>)
  BY <1>2, CiteBegins, JoinsBegin
<1>6. TargetKey' = TargetKey
  BY <1>1 DEF TargetKey
<1> HIDE DEF b, joins
<1>7. ASSUME This.script # "no fragment", request.command = "column-usage" PROVE CiteInv'
  BY <1>1, <1>5, <1>7 DEF CiteInv
<1>8. ASSUME This.script # "no fragment", request.command # "column-usage" PROVE JoinsInv'
  <2>1. agenda' = joins
    BY <1>1, <1>8 DEF joins
  <2> QED
    BY <1>1, <1>5, <1>6, <2>1 DEF JoinsInv
<1>9. This'.script = This.script /\ This'.body = b /\ request'.command = request.command
  BY <1>1, <1>4 DEF b
<1> QED
  BY <1>1, <1>7, <1>8, <1>9 DEF SweepInv

\* No step, of the scan or of the command, breaks the promise of the scan at hand.
LEMMA SweepKept ==
  ASSUME FullInv, [Next]_vars
  PROVE  SweepInv'
<1>cmd. UNCHANGED <<request, dacpac, target>> /\ Consumers' = Consumers /\ TargetKey' = TargetKey
  BY CommandStays
<1>out. ASSUME pc' # "scan" PROVE SweepInv'
  BY <1>out DEF SweepInv
\* A step of the scan at hand.
<1>in. ASSUME pc = "scan", at' = at, body' = body,
              This.script # "no fragment" /\ request.command = "column-usage" /\ CiteInv => CiteInv',
              This.script # "no fragment" /\ request.command # "column-usage" /\ JoinsInv => JoinsInv'
       PROVE  SweepInv'
  <2>1. This' = This
    BY <1>cmd, <1>in DEF This
  <2> QED
    BY <1>cmd, <1>in, <2>1 DEF FullInv, SweepInv
<1>body. ASSUME pc = "scan" PROVE body \in Bodies
  BY <1>body, ThisBody DEF FullInv, ScanRunInv, ArtifactsInv, SweepInv
<1>0. ASSUME UNCHANGED vars PROVE SweepInv'
  <2>1. UNCHANGED <<body, agenda, hits, notes, at, pc>>
    BY <1>0 DEF vars, scan
  <2>2. CiteInv' <=> CiteInv
    BY <2>1 DEF CiteInv
  <2>3. JoinsInv' <=> JoinsInv
    BY <1>cmd, <2>1 DEF JoinsInv
  <2>4. CASE pc = "scan"
    BY <1>in, <2>1, <2>2, <2>3, <2>4
  <2> QED
    BY <1>out, <2>1, <2>4
<1>1. ASSUME Arguments PROVE SweepInv'
  BY <1>1, <1>out DEF Arguments, End
<1>2. ASSUME Compose \/ ComposeFails \/ Load \/ LoadFails PROVE SweepInv'
  BY <1>2, <1>out DEF Compose, ComposeFails, Load, LoadFails, End
<1>3. ASSUME SkipConsumer \/ ScriptRaises PROVE SweepInv'
  BY <1>3, <1>out DEF SkipConsumer, ScriptRaises, Remaining, End
<1>4. ASSUME StartScan PROVE SweepInv'
  BY <1>4, SweepBegins DEF FullInv
<1>5. ASSUME Find PROVE SweepInv'
  <2>1. pc = "scan" /\ FinderStep /\ at' = at
    BY <1>5 DEF Find
  <2>2. body' = body
    BY <2>1, FinderKeepsBody
  <2>3. CiteInv => CiteInv'
    BY <1>body, <2>1, CiteKept
  <2>4. JoinsInv => JoinsInv'
    BY <2>1, FinderIsIdle
  <2> QED
    BY <1>in, <2>1, <2>2, <2>3, <2>4
<1>6. ASSUME AcceptStatement PROVE SweepInv'
  <2>1. pc = "scan" /\ at' = at /\ body' = body
    BY <1>6 DEF AcceptStatement
  <2>2. JoinsInv => JoinsInv'
    BY <1>6, <1>body, <2>1, JoinsAcceptStatement
  <2>3. CiteInv => CiteInv'
    BY <1>6, VisitorIsIdle
  <2> QED
    BY <1>in, <2>1, <2>2, <2>3
<1>7. ASSUME AcceptQuery PROVE SweepInv'
  <2>1. pc = "scan" /\ at' = at /\ body' = body
    BY <1>7 DEF AcceptQuery
  <2>2. JoinsInv => JoinsInv'
    BY <1>7, <1>body, <2>1, JoinsAcceptQuery
  <2>3. CiteInv => CiteInv'
    BY <1>7, VisitorIsIdle
  <2> QED
    BY <1>in, <2>1, <2>2, <2>3
<1>8. ASSUME VisitJoin PROVE SweepInv'
  <2>1. pc = "scan" /\ at' = at /\ body' = body
    BY <1>8 DEF VisitJoin
  <2>2. JoinsInv => JoinsInv'
    BY <1>8, JoinsVisitJoin
  <2>3. CiteInv => CiteInv'
    BY <1>8, VisitorIsIdle
  <2> QED
    BY <1>in, <2>1, <2>2, <2>3
<1>9. ASSUME CollectHits \/ ScanRaises \/ AllScanned PROVE SweepInv'
  BY <1>9, <1>out DEF CollectHits, ScanRaises, AllScanned
<1>10. ASSUME Write PROVE SweepInv'
  <2>1. pc' # "scan"
    BY <1>10 DEF Write
  <2> QED
    BY <1>out, <2>1
<1>11. ASSUME WriteFails \/ Echo PROVE SweepInv'
  BY <1>11, <1>out DEF WriteFails, Echo, End
<1> QED
  BY <1>0, <1>1, <1>2, <1>3, <1>4, <1>5, <1>6, <1>7, <1>8, <1>9, <1>10, <1>11 DEF Next

\* A scan that ends has found what its consumer's report will say.
LEMMA ScanSettles ==
  ASSUME FullInv, ScanRunInv', CollectHits, This.script # "no fragment", NEW c, c = at
  PROVE  Settled(This.body, request.command, TargetKey, Found(c)', Texts(c)')
<1>1. pc = "scan" /\ agenda = << >> /\ warnings' = warnings \o By(notes)
  BY DEF CollectHits
<1>a. at \in Nat
  BY ONLY FullInv, ConsumersFacts DEF FullInv, ScanRunInv, ArtifactsInv
<1>2. at \in Nat /\ ScanInv /\ ReportInv /\ ReportInv' /\ IsSequence(notes) /\ IsSequence(hits)
  <2>1. ScanInv /\ ReportInv /\ ReportInv'
    BY DEF FullInv, ScanRunInv
  <2> QED
    BY <1>a, <2>1 DEF ScanInv
<1>3. Found(c)' = Range(hits)
  BY <1>2, FoundGrows
<1>4. \A j \in 1..Len(notes) : notes[j] \in Texts(c)'
  BY <1>1, <1>2, TextsGrow
<1>5. DOMAIN hits = 1..Len(hits)
  BY ONLY <1>2 DEF IsSequence
<1>6. body = This.body
  BY <1>1 DEF FullInv, SweepInv
<1> DEFINE found == Found(c)'
           texts == Texts(c)'
<1>7. CASE request.command = "column-usage"
  <2>1. CteOk(body, << >>, hits, notes)
    BY <1>1, <1>7 DEF FullInv, SweepInv, CiteInv
  <2>2. ASSUME NEW h \in Range(hits), NEW name \in Inside(body, h.line)
        PROVE  Note("referenced inside CTE", name) \in texts
    <3>1. PICK x \in 1..Len(hits) : h = hits[x]
      BY <1>5 DEF Range
    <3>2. 1..0 = {} /\ Len(<< >>) = 0
      BY ONLY AnyEmpty
    <3> DEFINE none == << >>
    <3>a. CteOk(body, none, hits, notes) /\ Len(none) = 0
      BY <2>1, <3>2
    <3> HIDE DEF none
    <3>3. Told(notes, name)
      BY <3>1, <3>2, <3>a, <2>2 DEF CteOk
    <3>4. PICK w \in 1..Len(notes) : notes[w] = Note("referenced inside CTE", name)
      BY <3>3 DEF Told
    <3> QED
      BY <1>4, <3>4
  <2> QED
    BY <1>3, <1>6, <1>7, <2>2 DEF Settled
<1>8. CASE request.command # "column-usage"
  <2>1. JoinsOk(body, TargetKey, << >>, hits)
    BY <1>1, <1>8 DEF FullInv, SweepInv, JoinsInv
  <2>2. Range(<< >>) = {}
    BY AnyEmpty
  <2>3. /\ \A h \in Range(hits) : JoinHit(body, TargetKey, h)
        /\ \A k, q, n : Wanted(body, k, q, n) => \E h \in Range(hits) : h.line = <<k, q, n>>
    BY <2>1, <2>2 DEF JoinsOk, Tells
  <2> QED
    BY <1>3, <1>6, <1>8, <2>3 DEF Settled
<1> QED
  BY <1>7, <1>8

\* A scan that ends well has kept it, and no later step undoes that.
LEMMA DoneKept ==
  ASSUME FullInv, ScanRunInv', [Next]_vars
  PROVE  DoneInv'
<1>cmd. UNCHANGED <<request, dacpac, target>> /\ Consumers' = Consumers /\ TargetKey' = TargetKey
  BY CommandStays
<1>at. at \in Nat
  BY ConsumersFacts DEF FullInv, ScanRunInv, ArtifactsInv
<1>inv. ReportInv /\ ReportInv' /\ ScanInv
  BY DEF FullInv, ScanRunInv
\* A consumer whose report and warnings stay.
<1>stay. ASSUME NEW i \in 1..Len(Consumers), Done(i), Found(i)' = Found(i), Texts(i)' = Texts(i) PROVE Done(i)'
  <2>1. ScanFailed' = ScanFailed
    BY DEF ScanFailed, Note
  <2> QED
    BY <1>cmd, <1>stay, <2>1 DEF Done
<1>quiet. ASSUME UNCHANGED outcome, at' = at PROVE DoneInv'
  <2>1. \A i : Found(i)' = Found(i) /\ Texts(i)' = Texts(i)
    BY <1>quiet DEF outcome, Found, Texts
  <2> QED
    BY <1>cmd, <1>quiet, <1>stay, <2>1 DEF FullInv, DoneInv
\* The consumer at hand is done with.
<1>next. ASSUME at' = at + 1, \A i : i # at => Found(i)' = Found(i) /\ Texts(i)' = Texts(i),
                NEW c, c = at, Done(c)'
         PROVE  DoneInv'
  <2> SUFFICES ASSUME NEW i \in 1..Len(Consumers), i < at + 1 PROVE Done(i)'
    BY <1>cmd, <1>next DEF DoneInv
  <2>1. i = at \/ i < at
    BY <1>at
  <2>2. CASE i < at
    <3>1. i # at
      BY <1>at, <2>2
    <3>2. Done(i)
      BY <2>2 DEF FullInv, DoneInv
    <3> QED
      BY <1>next, <1>stay, <3>1, <3>2
  <2> QED
    BY <1>next, <2>1, <2>2
<1>0. ASSUME UNCHANGED vars PROVE DoneInv'
  BY <1>0, <1>quiet DEF vars
<1>1. ASSUME Arguments \/ Compose \/ ComposeFails \/ Load \/ LoadFails PROVE DoneInv'
  BY <1>1, <1>quiet DEF Arguments, Compose, ComposeFails, Load, LoadFails, End
<1>2. ASSUME SkipConsumer PROVE DoneInv'
  <2>1. at' = at + 1 /\ UNCHANGED outcome /\ Consumers[at].script = "none"
    BY <1>2 DEF SkipConsumer, Remaining, This
  <2>2. \A i : Found(i)' = Found(i) /\ Texts(i)' = Texts(i)
    BY <2>1 DEF outcome, Found, Texts
  <2> DEFINE isnone(c) == Consumers[c].script = "none"
  <2>3. ASSUME NEW c, c = at PROVE Done(c)'
    BY <1>cmd, <2>1, <2>3 DEF Done
  <2>4. \E c : c = at
    OBVIOUS
  <2> QED
    BY <1>next, <2>1, <2>2, <2>3, <2>4
<1>3. ASSUME ScriptRaises PROVE DoneInv'
  BY <1>3, <1>quiet DEF ScriptRaises, End
<1>4. ASSUME StartScan PROVE DoneInv'
  <2>1. PICK texts : IsSequence(texts) /\ warnings' = warnings \o By(texts)
    BY <1>4, StartWarns DEF FullInv
  <2>2. report' = report /\ at' = at
    BY <1>4 DEF StartScan
  <2>3. PICK c : c = at
    OBVIOUS
  <2>4. \A i : i # c => Texts(i)' = Texts(i)
    BY <1>inv, <2>1, <2>3, TextsGrow
  <2>5. \A i : Found(i)' = Found(i)
    BY <2>2 DEF Found
  <2> SUFFICES ASSUME NEW i \in 1..Len(Consumers), i < at PROVE Done(i)'
    BY <1>cmd, <2>2 DEF DoneInv
  <2>6. i # c /\ Done(i)
    BY <1>at, <2>3 DEF FullInv, DoneInv
  <2> QED
    BY <1>stay, <2>4, <2>5, <2>6
<1>5. ASSUME Find PROVE DoneInv'
  BY <1>5, <1>quiet DEF Find
<1>6. ASSUME AcceptStatement \/ AcceptQuery \/ VisitJoin PROVE DoneInv'
  BY <1>6, <1>quiet DEF AcceptStatement, AcceptQuery, VisitJoin
<1>7. ASSUME CollectHits PROVE DoneInv'
  <2>1. warnings' = warnings \o By(notes) /\ at' = at + 1 /\ pc = "scan" /\ IsSequence(notes)
    BY <1>7, <1>inv DEF CollectHits, ScanInv
  <2>2. PICK c : c = at
    OBVIOUS
  <2>3. \A i : i # c => Texts(i)' = Texts(i)
    BY <1>inv, <2>1, <2>2, TextsGrow
  <2>4. \A i : i # c => Found(i)' = Found(i)
    BY <1>7, <1>at, <1>inv, <2>2, FoundGrows
  <2>5. Done(c)'
    <3>1. This = Consumers[c]
      BY <2>2 DEF This
    <3>2. CASE This.script = "no fragment"
      BY <1>cmd, <3>1, <3>2 DEF Done
    <3>3. CASE This.script # "no fragment"
      <4>1. Settled(Consumers[c].body, request.command, TargetKey, Found(c)', Texts(c)')
        BY <1>7, <2>2, <3>1, <3>3, ScanSettles
      <4> QED
        BY <1>cmd, <4>1 DEF Done
    <3> QED
      BY <3>2, <3>3
  <2> QED
    BY <1>next, <2>1, <2>2, <2>3, <2>4, <2>5
<1>8. ASSUME ScanRaises PROVE DoneInv'
  <2>1. PICK texts : IsSequence(texts) /\ warnings' = warnings \o By(texts) /\ Len(texts) = 1 /\ texts[1] = ScanFailed
    BY <1>8, FailureWarns
  <2>2. report' = report /\ at' = at + 1
    BY <1>8 DEF ScanRaises
  <2>3. PICK c : c = at
    OBVIOUS
  <2>4. /\ \A i : i # c => Texts(i)' = Texts(i)
        /\ \A j \in 1..Len(texts) : texts[j] \in Texts(c)'
    BY <1>inv, <2>1, <2>3, TextsGrow
  <2>5. \A i : Found(i)' = Found(i)
    BY <2>2 DEF Found
  <2>6. ScanFailed \in Texts(c)'
    <3>1. 1 \in 1..Len(texts)
      BY <2>1
    <3> QED
      BY <2>1, <2>4, <3>1
  <2>7. Done(c)'
    <3>1. ScanFailed' = ScanFailed
      BY DEF ScanFailed, Note
    <3> QED
      BY <2>6, <3>1 DEF Done
  <2> QED
    BY <1>next, <2>2, <2>3, <2>4, <2>5, <2>7
<1>9. ASSUME AllScanned \/ Write \/ WriteFails \/ Echo PROVE DoneInv'
  BY <1>9, <1>quiet DEF AllScanned, Write, WriteFails, Echo, End
<1> QED
  BY <1>0, <1>1, <1>2, <1>3, <1>4, <1>5, <1>6, <1>7, <1>8, <1>9 DEF Next

\* At first there is no scan, and none that ended.
LEMMA FullBegins == Init => FullInv
<1> SUFFICES ASSUME Init PROVE FullInv
  OBVIOUS
<1>1. ScanRunInv
  BY InitHolds
<1>2. SweepInv
  BY DEF Init, SweepInv
<1>3. DoneInv
  BY DEF Init, DoneInv
<1> QED
  BY <1>1, <1>2, <1>3 DEF FullInv

\* The whole of it is an inductive invariant.
LEMMA FullInvariant == Spec => []FullInv
<1>1. FullInv /\ [Next]_vars => FullInv'
  <2> SUFFICES ASSUME FullInv, [Next]_vars PROVE FullInv'
    OBVIOUS
  <2>1. ScanRunInv'
    BY ArtifactsKept, ScanKept, ReportKept, WarnedKept DEF FullInv, ScanRunInv
  <2> QED
    BY <2>1, SweepKept, DoneKept DEF FullInv
<1> QED
  BY FullBegins, <1>1, PTL DEF Spec

-----------------------------------------------------------------------------
(* What the reports promise.                                               *)

\* When the command ends well, every consumer it names has kept its promise.
LEMMA ScannedIsDone ==
  ASSUME FullInv, NEW what, NEW i \in Scanned(what)
  PROVE  /\ i \in 1..Len(Consumers) /\ request.command = what
         /\ Settled(Consumers[i].body, what, TargetKey, Found(i), Texts(i))
<1>1. ArtifactsInv /\ DoneInv
  BY DEF FullInv, ScanRunInv
<1>2. /\ exit = 0 /\ request.command = what /\ i \in DOMAIN Consumers
      /\ Consumers[i].script \in {"parses", "errors"} /\ ScanFailed \notin Texts(i)
  BY DEF Scanned
<1>3. Len(Consumers) \in Nat /\ DOMAIN Consumers = 1..Len(Consumers)
  BY <1>1, ConsumersFacts DEF ArtifactsInv
<1>4. at > Len(Consumers)
  BY <1>1, <1>2 DEF ArtifactsInv, NoExit
<1>5. at \in 1..(Len(Consumers) + 1)
  BY <1>1 DEF ArtifactsInv
<1>6. i \in 1..Len(Consumers)
  BY <1>2, <1>3
<1>7. i < at
  BY ONLY <1>3, <1>4, <1>5, <1>6
<1>8. Done(i)
  BY <1>1, <1>6, <1>7 DEF DoneInv
<1> QED
  BY <1>2, <1>6, <1>8 DEF Done

\* The body of a consumer is one of the bodies there are.
LEMMA BodyOfConsumer ==
  ASSUME ArtifactsInv, NEW i \in 1..Len(Consumers)
  PROVE  Consumers[i].body \in Bodies
<1> DEFINE C == Consumers
<1>1. C \in Seq(Consumer)
  BY ConsumersFacts DEF ArtifactsInv
<1> HIDE DEF Consumer, C
<1>2. C[i] \in Consumer
  BY <1>1 DEF C
<1> QED
  BY <1>2 DEF Consumer, C

\* CteCitationsWarned: a citation inside a common table expression never goes without the
\* warning that names the expression (_find_in_cte after each scan of a CTE's query).
THEOREM CteCitationsAlwaysWarned == Spec => []CteCitationsWarned
<1>1. FullInv => CteCitationsWarned
  <2> SUFFICES ASSUME FullInv, NEW i \in Scanned("column-usage"), NEW h \in Found(i),
                      NEW c \in DOMAIN Consumers[i].body.statements[h.line[1]].ctes,
                      h.line[2] \in BuiltFrom(Consumers[i].body.queries,
                                              Consumers[i].body.statements[h.line[1]].ctes[c].query)
               PROVE  Note("referenced inside CTE", Consumers[i].body.statements[h.line[1]].ctes[c].name) \in Texts(i)
    BY DEF CteCitationsWarned
  <2> DEFINE b == Consumers[i].body
             name == b.statements[h.line[1]].ctes[c].name
  <2>1. Settled(b, "column-usage", TargetKey, Found(i), Texts(i))
    BY ScannedIsDone
  <2>2. name \in Inside(b, h.line)
    BY DEF Inside, InCte
  <2> HIDE DEF b, name
  <2>3. Note("referenced inside CTE", name) \in Texts(i)
    BY <2>1, <2>2 DEF Settled
  <2> QED
    BY <2>3 DEF name, b
<1> QED
  BY <1>1, FullInvariant, PTL

\* What EmitJoin and SQL say of the n-th join of a query is the same, where names are plain.
LEMMA JoinAgrees ==
  ASSUME NEW b \in Bodies, NEW k \in DOMAIN b.statements, NEW q \in All(b, k), NEW n \in DOMAIN b.queries[q].from
  PROVE  LET from == b.queries[q].from
             usages == EmitJoin(from, n, TargetKey)
             real == RealPairs(b, b.statements[k], q, n)
         IN  /\ DOMAIN from = 1..Len(from) /\ Len(from) \in Nat
             /\ \A m, o \in TablesAt(from, n) : Key(from[m]) = TargetKey /\ Key(from[o]) # TargetKey => usages # {}
             /\ PlainNames(b, b.statements[k]) /\ PlainAliases(b, q) =>
                  /\ \A u \in usages : \A p \in u.pairs : \E r \in real :
                       r.pair = p /\ Key(r.other) = u.other
                       /\ r.mine.alias = u.target_alias /\ r.other.alias = u.other_alias
                  /\ \A r \in real : \E u \in usages :
                       r.pair \in u.pairs /\ u.other = Key(r.other)
                       /\ u.target_alias = r.mine.alias /\ u.other_alias = r.other.alias
<1> DEFINE from == b.queries[q].from
           usages == EmitJoin(from, n, TargetKey)
           real == RealPairs(b, b.statements[k], q, n)
           plain == PlainNames(b, b.statements[k]) /\ PlainAliases(b, q)
<1>1. q \in DOMAIN b.queries
  BY AllFacts
<1>2. from \in Seq(Item)
  <2>1. b.queries[q] \in Query
    BY <1>1, BodyFacts
  <2> QED
    BY <2>1 DEF Query
<1>3. DOMAIN from = 1..Len(from) /\ Len(from) \in Nat /\ n \in DOMAIN from
  <2> HIDE DEF Item
  <2> QED
    BY <1>2
<1>4. 1..n \subseteq DOMAIN from
  <2> HIDE DEF from
  <2> QED
    BY ONLY <1>3
<1>5. TellsJoin(from, n, TargetKey, usages)
  BY <1>3, <1>4, EmitFacts
<1>6. plain => PlainFrom(from, n)
  BY <1>1, PlainFacts
<1>7. plain =>
        /\ \A r \in real : \E m, o, p :
             /\ Equates(from, n, TargetKey, m, o, p)
             /\ r.mine = from[m] /\ r.other = from[o] /\ r.pair = <<p[1].name, p[2].name>>
        /\ \A m, o, p : Equates(from, n, TargetKey, m, o, p) =>
             \E r \in real : r.mine = from[m] /\ r.other = from[o] /\ r.pair = <<p[1].name, p[2].name>>
  BY <1>1, RealFacts
<1> HIDE DEF from, usages, real, plain
<1>8. \A m, o \in TablesAt(from, n) : Key(from[m]) = TargetKey /\ Key(from[o]) # TargetKey => usages # {}
  BY <1>5 DEF TellsJoin
<1>9. ASSUME plain, NEW u \in usages, NEW p \in u.pairs
      PROVE  \E r \in real : r.pair = p /\ Key(r.other) = u.other
                             /\ r.mine.alias = u.target_alias /\ r.other.alias = u.other_alias
  <2>1. \E m, o \in TablesAt(from, n) : \E e :
             /\ Equates(from, n, TargetKey, m, o, e) /\ p = <<e[1].name, e[2].name>>
             /\ u.other = Key(from[o]) /\ u.target_alias = from[m].alias /\ u.other_alias = from[o].alias
    BY <1>5, <1>6, <1>9 DEF TellsJoin
  <2>2. PICK m, o, e :
             /\ Equates(from, n, TargetKey, m, o, e) /\ p = <<e[1].name, e[2].name>>
             /\ u.other = Key(from[o]) /\ u.target_alias = from[m].alias /\ u.other_alias = from[o].alias
    BY <2>1
  <2>3. PICK r \in real : r.mine = from[m] /\ r.other = from[o] /\ r.pair = <<e[1].name, e[2].name>>
    BY <1>7, <1>9, <2>2
  <2> QED
    BY <2>2, <2>3
<1>10. ASSUME plain, NEW r \in real
       PROVE  \E u \in usages : r.pair \in u.pairs /\ u.other = Key(r.other)
                                /\ u.target_alias = r.mine.alias /\ u.other_alias = r.other.alias
  <2>1. PICK m, o, e :
             /\ Equates(from, n, TargetKey, m, o, e)
             /\ r.mine = from[m] /\ r.other = from[o] /\ r.pair = <<e[1].name, e[2].name>>
    BY <1>7, <1>10
  <2>2. PICK u \in usages :
              /\ <<e[1].name, e[2].name>> \in u.pairs
              /\ u.other = Key(from[o]) /\ u.target_alias = from[m].alias /\ u.other_alias = from[o].alias
    BY <1>5, <1>6, <1>10, <2>1 DEF TellsJoin
  <2> QED
    BY <2>1, <2>2
<1> QED
  BY <1>3, <1>8, <1>9, <1>10 DEF from, usages, real, plain

\* Each equality that is reported is one of the join it is reported of.
LEMMA JoinsAreReal ==
  ASSUME FullInv
  PROVE  PairsAreReal
<1> SUFFICES ASSUME NEW i \in Scanned("joins"), NEW h \in Found(i),
                    PlainNames(Consumers[i].body, Consumers[i].body.statements[h.line[1]]),
                    PlainAliases(Consumers[i].body, h.line[2]), NEW u \in h.usages, NEW p \in u.pairs
             PROVE  \E r \in RealPairs(Consumers[i].body, Consumers[i].body.statements[h.line[1]], h.line[2], h.line[3]) :
                      r.pair = p /\ Key(r.other) = u.other /\ r.mine.alias = u.target_alias /\ r.other.alias = u.other_alias
  BY DEF PairsAreReal
<1> DEFINE b == Consumers[i].body
<1>1. i \in 1..Len(Consumers) /\ Settled(b, "joins", TargetKey, Found(i), Texts(i))
  BY ScannedIsDone
<1>2. b \in Bodies
  BY <1>1, BodyOfConsumer DEF FullInv, ScanRunInv
<1>p. PlainNames(b, b.statements[h.line[1]]) /\ PlainAliases(b, h.line[2])
  OBVIOUS
<1> HIDE DEF b
<1>3. JoinHit(b, TargetKey, h)
  BY <1>1 DEF Settled
<1>4. PICK k \in DOMAIN b.statements :
        \E q \in All(b, k) : \E n \in DOMAIN b.queries[q].from :
          h.line = <<k, q, n>> /\ h.usages = EmitJoin(b.queries[q].from, n, TargetKey)
  BY <1>3 DEF JoinHit
<1>5. PICK q \in All(b, k) :
        \E n \in DOMAIN b.queries[q].from :
          h.line = <<k, q, n>> /\ h.usages = EmitJoin(b.queries[q].from, n, TargetKey)
  BY <1>4
<1>6. PICK n \in DOMAIN b.queries[q].from :
          h.line = <<k, q, n>> /\ h.usages = EmitJoin(b.queries[q].from, n, TargetKey)
  BY <1>5
<1>7. h.line[1] = k /\ h.line[2] = q /\ h.line[3] = n
  BY <1>6
<1>8. PlainNames(b, b.statements[k]) /\ PlainAliases(b, q)
  BY <1>p, <1>7
<1>9. \E r \in RealPairs(b, b.statements[k], q, n) :
        r.pair = p /\ Key(r.other) = u.other /\ r.mine.alias = u.target_alias /\ r.other.alias = u.other_alias
  BY <1>2, <1>6, <1>8, JoinAgrees
<1> QED
  BY <1>7, <1>9 DEF b

\* Each join that the scripts make is reported, with each of its equalities.
LEMMA JoinsAreFound ==
  ASSUME FullInv
  PROVE  JoinsFound
<1> SUFFICES ASSUME NEW i \in Scanned("joins"), NEW k \in Leaves(Consumers[i].body),
                    NEW q \in QueriesOf(Consumers[i].body.queries, Consumers[i].body.statements[k]),
                    NEW n \in DOMAIN Consumers[i].body.queries[q].from \ {1},
                    Consumers[i].body.queries[q].from[n].on # << >>
             PROVE  LET b == Consumers[i].body
                        s == b.statements[k]
                        usages == UNION {h.usages : h \in {f \in Found(i) : f.line = <<k, q, n>>}}
                        is(item) == item.kind = "table" /\ Key(item) = <<target.schema, target.name>>
                        from == b.queries[q].from
                    IN  /\ (\E m, o \in 1..n : is(from[m]) /\ ~is(from[o]) /\ from[o].kind = "table") => usages # {}
                        /\ PlainNames(b, s) /\ PlainAliases(b, q) =>
                             \A r \in RealPairs(b, s, q, n) :
                               \E u \in usages :
                                 /\ r.pair \in u.pairs /\ u.other = Key(r.other)
                                 /\ u.target_alias = r.mine.alias /\ u.other_alias = r.other.alias
  BY DEF JoinsFound
<1> DEFINE b == Consumers[i].body
           s == b.statements[k]
           usages == UNION {h.usages : h \in {f \in Found(i) : f.line = <<k, q, n>>}}
           from == b.queries[q].from
           told == EmitJoin(from, n, TargetKey)
           real == RealPairs(b, s, q, n)
<1>1. i \in 1..Len(Consumers) /\ Settled(b, "joins", TargetKey, Found(i), Texts(i))
  BY ScannedIsDone
<1>2. b \in Bodies
  BY <1>1, BodyOfConsumer DEF FullInv, ScanRunInv
<1>3. Wanted(b, k, q, n) /\ q \in All(b, k) /\ n \in DOMAIN from
  BY DEF Wanted, All
<1>4. PICK h \in Found(i) : h.line = <<k, q, n>>
  <2> HIDE DEF b
  <2> QED
    BY <1>1, <1>3 DEF Settled
<1>5. JoinHit(b, TargetKey, h)
  <2> HIDE DEF b
  <2> QED
    BY <1>1 DEF Settled
<1>6. k \in DOMAIN b.statements /\ h.usages = told
  <2> HIDE DEF b
  <2>1. PICK j \in DOMAIN b.statements :
          \E r \in All(b, j) : \E m \in DOMAIN b.queries[r].from :
            h.line = <<j, r, m>> /\ h.usages = EmitJoin(b.queries[r].from, m, TargetKey)
    BY <1>5 DEF JoinHit
  <2>2. PICK r \in All(b, j) :
          \E m \in DOMAIN b.queries[r].from :
            h.line = <<j, r, m>> /\ h.usages = EmitJoin(b.queries[r].from, m, TargetKey)
    BY <2>1
  <2>3. PICK m \in DOMAIN b.queries[r].from :
            h.line = <<j, r, m>> /\ h.usages = EmitJoin(b.queries[r].from, m, TargetKey)
    BY <2>2
  <2>4. j = k /\ r = q /\ m = n
    BY <1>4, <2>3
  <2> QED
    BY <2>3, <2>4
<1>7. \A u \in told : u \in usages
  BY <1>4, <1>6
<1>8. /\ \A m, o \in TablesAt(from, n) : Key(from[m]) = TargetKey /\ Key(from[o]) # TargetKey => told # {}
      /\ PlainNames(b, s) /\ PlainAliases(b, q) =>
           \A r \in real : \E u \in told :
                       r.pair \in u.pairs /\ u.other = Key(r.other)
                       /\ u.target_alias = r.mine.alias /\ u.other_alias = r.other.alias
  <2> HIDE DEF b
  <2> QED
    BY <1>2, <1>3, <1>6, JoinAgrees
<1> HIDE DEF b, s, usages, from, told, real
<1>9. ASSUME NEW m \in 1..n, NEW o \in 1..n, from[m].kind = "table", Key(from[m]) = TargetKey,
             ~ (from[o].kind = "table" /\ Key(from[o]) = TargetKey), from[o].kind = "table"
      PROVE  usages # {}
  <2>1. m \in TablesAt(from, n) /\ o \in TablesAt(from, n) /\ Key(from[o]) # TargetKey
    BY <1>9 DEF TablesAt
  <2>2. told # {}
    BY <1>8, <1>9, <2>1
  <2> QED
    BY <1>7, <2>2
<1>10. PlainNames(b, s) /\ PlainAliases(b, q) =>
         \A r \in real : \E u \in usages :
                       /\ r.pair \in u.pairs /\ u.other = Key(r.other)
                       /\ u.target_alias = r.mine.alias /\ u.other_alias = r.other.alias
  BY <1>7, <1>8
<1>11. TargetKey = <<target.schema, target.name>>
  BY DEF TargetKey
<1> QED
  BY <1>9, <1>10, <1>11 DEF b, s, usages, from, real

\* JoinsExact: the joins reported are those of the scripts, with the pairs they compare.
THEOREM JoinsAlwaysExact == Spec => []JoinsExact
<1>1. FullInv => JoinsExact
  BY JoinsAreReal, JoinsAreFound DEF JoinsExact
<1> QED
  BY <1>1, FullInvariant, PTL

=============================================================================
