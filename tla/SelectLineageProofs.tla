------------------------- MODULE SelectLineageProofs -------------------------
(***************************************************************************)
(* For every set of bodies: a body's statements give one result each, in   *)
(* the order of its text; tracing a column through common table            *)
(* expressions and derived tables ends, unless two derived tables of the   *)
(* statement have the same alias; and the columns of a plain statement     *)
(* without common table expressions or a star over a derived table come    *)
(* from the base columns they are computed from, and from no others.       *)
(***************************************************************************)
EXTENDS SelectLineageInvariant, FiniteSetTheorems, FunctionTheorems, WellFoundedInduction, TLAPS

-----------------------------------------------------------------------------
(* Loops.                                                                  *)

\* A set of numbers that is not empty has a least one.
LEMMA LeastOf ==
  ASSUME NEW S \in SUBSET Nat, S # {}
  PROVE  \E n \in S : \A m \in S : n <= m
<1>1. PICK n \in S : \A m \in S : <<m, n>> \notin OpToRel(<, Nat)
  BY NatLessThanWellFounded, WFMin
<1>2. \A m \in S : m \in Nat /\ n \in Nat
  OBVIOUS
<1>3. \A m \in S : ~ (m < n)
  BY <1>1, <1>2 DEF OpToRel
<1> QED BY <1>2, <1>3

\* A loop of N steps over values of S has a run.
LEMMA LoopRuns ==
  ASSUME NEW S, NEW base \in S, NEW N \in Nat, NEW F \in [1..N -> [S -> S]]
  PROVE  \E h : IsLoop(h, S, base, N, F)
<1> DEFINE Runs(k) == {h \in [0..k -> S] : h[0] = base /\ \A n \in 1..k : h[n] = F[n][h[n - 1]]}
           bad == {k \in 0..N : Runs(k) = {}}
<1>1. SUFFICES ASSUME bad # {} PROVE FALSE
  BY DEF IsLoop
<1>2. PICK k \in bad : \A m \in bad : k <= m
  <2>1. bad \in SUBSET Nat
    OBVIOUS
  <2> HIDE DEF bad
  <2> QED BY <1>1, <2>1, LeastOf
<1>3. k \in 0..N /\ Runs(k) = {}
  OBVIOUS
<1>4. k # 0
  <2>1. [i \in 0..0 |-> base] \in Runs(0)
    OBVIOUS
  <2> QED BY <1>3, <2>1
<1>5. k - 1 \in 0..N /\ k \in 1..N /\ ~ (k <= k - 1)
  BY <1>3, <1>4
<1>6. PICK g : g \in Runs(k - 1)
  <2> HIDE DEF Runs
  <2> QED BY <1>2, <1>5
<1> DEFINE h == [i \in 0..k |-> IF i = k THEN F[k][g[k - 1]] ELSE g[i]]
<1>7. g \in [0..(k - 1) -> S] /\ g[0] = base /\ \A n \in 1..(k - 1) : g[n] = F[n][g[n - 1]]
  BY <1>6
<1>8. F[k][g[k - 1]] \in S
  BY <1>5, <1>7
<1>9. h \in [0..k -> S] /\ h[0] = base
  BY <1>4, <1>5, <1>7, <1>8
<1>10. ASSUME NEW n \in 1..k PROVE h[n] = F[n][h[n - 1]]
  <2>1. CASE n = k
    BY <1>5, <2>1
  <2>2. CASE n # k
    <3>1. n \in 1..(k - 1) /\ h[n] = g[n] /\ h[n - 1] = g[n - 1]
      BY <1>5, <2>2
    <3> QED BY <1>7, <3>1
  <2> QED BY <2>1, <2>2
<1>11. h \in Runs(k)
  BY <1>9, <1>10
<1> QED BY <1>3, <1>11

\* What holds at 0 and is handed on by every step of a loop holds at all of them.
LEMMA Induct ==
  ASSUME NEW N \in Nat, NEW Q, 0 \in Q, \A n \in 1..N : n - 1 \in Q => n \in Q
  PROVE  \A n \in 0..N : n \in Q
<1> DEFINE bad == {n \in 0..N : n \notin Q}
<1>1. SUFFICES ASSUME bad # {} PROVE FALSE
  OBVIOUS
<1>2. PICK k \in bad : \A m \in bad : k <= m
  <2>1. bad \in SUBSET Nat
    OBVIOUS
  <2> HIDE DEF bad
  <2> QED BY <1>1, <2>1, LeastOf
<1>3. k \in 0..N /\ k \notin Q
  OBVIOUS
<1>4. k \in 1..N /\ k - 1 \in 0..N /\ ~ (k <= k - 1)
  BY <1>3
<1>5. k - 1 \in Q
  BY <1>2, <1>4
<1> QED BY <1>3, <1>4, <1>5

-----------------------------------------------------------------------------
(* Sequences.                                                              *)

\* Two sequences, one after the other.
LEMMA ConcatFacts ==
  ASSUME NEW S, NEW a \in Seq(S), NEW b \in Seq(S)
  PROVE  /\ a \o b \in Seq(S)
         /\ Len(a \o b) = Len(a) + Len(b)
         /\ \A i \in 1..Len(a) : (a \o b)[i] = a[i]
         /\ \A i \in 1..Len(b) : (a \o b)[Len(a) + i] = b[i]
         /\ Range(a \o b) = Range(a) \cup Range(b)
<1>1. a \o b \in Seq(S) /\ Len(a \o b) = Len(a) + Len(b)
  OBVIOUS
<1>2. \A i \in 1..Len(a) : (a \o b)[i] = a[i]
  OBVIOUS
<1>3. \A i \in 1..Len(b) : (a \o b)[Len(a) + i] = b[i]
  OBVIOUS
<1>4. DOMAIN a = 1..Len(a) /\ DOMAIN b = 1..Len(b) /\ DOMAIN (a \o b) = 1..(Len(a) + Len(b))
      /\ Len(a) \in Nat /\ Len(b) \in Nat
  OBVIOUS
<1> DEFINE c == a \o b
<1> HIDE DEF c
<1>5. DOMAIN c = 1..(Len(a) + Len(b)) /\ (\A i \in 1..Len(a) : c[i] = a[i])
      /\ \A i \in 1..Len(b) : c[Len(a) + i] = b[i]
  BY <1>2, <1>3, <1>4 DEF c
<1>6. ASSUME NEW x PROVE x \in Range(c) <=> x \in Range(a) \cup Range(b)
  <2>1. ASSUME x \in Range(c) PROVE x \in Range(a) \cup Range(b)
    <3>1. PICK i \in 1..(Len(a) + Len(b)) : x = c[i]
      BY <1>5, <2>1 DEF Range
    <3>2. CASE i \in 1..Len(a)
      BY <1>4, <1>5, <3>1, <3>2 DEF Range
    <3>3. CASE i \notin 1..Len(a)
      <4>1. i - Len(a) \in 1..Len(b) /\ i = Len(a) + (i - Len(a))
        BY <1>4, <3>3
      <4>2. c[i] = b[i - Len(a)]
        BY <1>5, <4>1
      <4> QED BY <1>4, <3>1, <4>1, <4>2 DEF Range
    <3> QED BY <3>2, <3>3
  <2>2. ASSUME x \in Range(a) PROVE x \in Range(c)
    <3>1. PICK i \in 1..Len(a) : x = a[i]
      BY <1>4, <2>2 DEF Range
    <3>2. i \in 1..(Len(a) + Len(b))
      BY <1>4
    <3> QED BY <1>5, <3>1, <3>2 DEF Range
  <2>3. ASSUME x \in Range(b) PROVE x \in Range(c)
    <3>1. PICK i \in 1..Len(b) : x = b[i]
      BY <1>4, <2>3 DEF Range
    <3>2. Len(a) + i \in 1..(Len(a) + Len(b)) /\ c[Len(a) + i] = b[i]
      BY <1>4, <1>5
    <3> QED BY <1>5, <3>1, <3>2 DEF Range
  <2> QED BY <2>1, <2>2, <2>3
<1>7. Range(c) = Range(a) \cup Range(b)
  BY <1>6
<1> QED BY <1>1, <1>2, <1>3, <1>7 DEF c

\* One element more at the end.
LEMMA AppendFacts ==
  ASSUME NEW S, NEW a \in Seq(S), NEW x \in S
  PROVE  /\ Append(a, x) \in Seq(S)
         /\ Len(Append(a, x)) = Len(a) + 1
         /\ \A i \in 1..Len(a) : Append(a, x)[i] = a[i]
         /\ Append(a, x)[Len(a) + 1] = x
         /\ Range(Append(a, x)) = Range(a) \cup {x}
<1>1. /\ Append(a, x) \in Seq(S)
      /\ Len(Append(a, x)) = Len(a) + 1
      /\ Append(a, x)[Len(a) + 1] = x
  OBVIOUS
<1>2. \A i \in 1..Len(a) : Append(a, x)[i] = a[i]
  OBVIOUS
<1>3. DOMAIN a = 1..Len(a) /\ Len(a) \in Nat /\ DOMAIN Append(a, x) = 1..(Len(a) + 1)
  OBVIOUS
<1> DEFINE c == Append(a, x)
<1>4. /\ DOMAIN c = 1..(Len(a) + 1) /\ c[Len(a) + 1] = x
      /\ \A i \in 1..Len(a) : c[i] = a[i]
  BY <1>1, <1>2, <1>3
<1> HIDE DEF c
<1>5. \A i \in 1..(Len(a) + 1) : i = Len(a) + 1 \/ i \in 1..Len(a)
  BY <1>3
<1>6. Len(a) + 1 \in 1..(Len(a) + 1) /\ \A i \in 1..Len(a) : i \in 1..(Len(a) + 1)
  BY <1>3
<1>7. Range(c) = Range(a) \cup {x}
  BY <1>3, <1>4, <1>5, <1>6 DEF Range
<1> QED BY <1>1, <1>2, <1>7 DEF c

\* The elements of a sequence are in the set it is made of.
LEMMA RangeFacts ==
  ASSUME NEW S, NEW a \in Seq(S)
  PROVE  /\ Range(a) \subseteq S
         /\ \A i \in 1..Len(a) : a[i] \in Range(a)
         /\ \A x \in Range(a) : \E i \in 1..Len(a) : x = a[i]
         /\ a = << >> <=> Range(a) = {}
<1>1. DOMAIN a = 1..Len(a) /\ Len(a) \in Nat
  OBVIOUS
<1>2. \A i \in 1..Len(a) : a[i] \in S
  OBVIOUS
<1>3. a = << >> <=> Len(a) = 0
  OBVIOUS
<1>4. Len(a) # 0 => 1 \in 1..Len(a)
  BY <1>1
<1>5. Len(a) = 0 => 1..Len(a) = {}
  BY <1>1
<1> QED BY <1>1, <1>2, <1>3, <1>4, <1>5 DEF Range

\* FlattenSeq joins the sequences it is given.
LEMMA FlattenFacts ==
  ASSUME NEW S, NEW seqs \in Seq(Seq(S))
  PROVE  /\ FlattenSeq(seqs) \in Seq(S)
         /\ Range(FlattenSeq(seqs)) = UNION {Range(seqs[n]) : n \in 1..Len(seqs)}
<1> DEFINE N == Len(seqs)
           Q == Seq(S)
<1>1. N \in Nat /\ \A n \in 1..N : seqs[n] \in Q
  <2>1. seqs \in Seq(Q)
    OBVIOUS
  <2> HIDE DEF Q
  <2> QED BY <2>1
<1>2. CASE N = 0
  <2>1. FlattenSeq(seqs) = seqs /\ seqs = << >> /\ 1..N = {}
    BY <1>2 DEF FlattenSeq
  <2>2. << >> \in Seq(S) /\ Range(<< >>) = {}
    BY DEF Range
  <2> QED BY <2>1, <2>2
<1>3. CASE N # 0
  <2> DEFINE Step(g) == [i \in 1..N |-> IF i = 1 THEN seqs[i] ELSE g[i - 1] \o seqs[i]]
             flatten == CHOOSE g : g = Step(g)
             F == [n \in 1..N |-> [sofar \in Q |-> sofar \o seqs[n]]]
             base == << >>
  <2>1. FlattenSeq(seqs) = flatten[N]
    BY <1>3 DEF FlattenSeq
  <2>2. \A sofar \in Q : \A n \in 1..N : sofar \o seqs[n] \in Q
    BY <1>1, ConcatFacts
  <2>3. base \in Q
    OBVIOUS
  <2>4. F \in [1..N -> [Q -> Q]]
    <3> HIDE DEF Q
    <3> QED BY <2>2
  <2>5. \E h : IsLoop(h, Q, base, N, F)
    <3> HIDE DEF F, N, Q, base
    <3> QED BY <1>1, <2>3, <2>4, LoopRuns
  <2>6. PICK h : h \in [0..N -> Q] /\ h[0] = base /\ \A n \in 1..N : h[n] = F[n][h[n - 1]]
    <3> HIDE DEF F, N, Q, base
    <3> QED BY <2>5 DEF IsLoop
  <2> DEFINE k == [n \in 1..N |-> h[n]]
  <2>7. \A n \in 1..N : h[n - 1] \in Q /\ h[n] = h[n - 1] \o seqs[n]
    <3>1. ASSUME NEW n \in 1..N PROVE h[n - 1] \in Q /\ h[n] = h[n - 1] \o seqs[n]
      <4>1. h[n - 1] \in Q
        <5>1. n - 1 \in 0..N
          BY <1>1
        <5> HIDE DEF Q
        <5> QED BY <2>6, <5>1
      <4>2. F[n][h[n - 1]] = h[n - 1] \o seqs[n]
        <5> HIDE DEF Q
        <5> QED BY <4>1
      <4> QED BY <2>6, <4>1, <4>2
    <3> QED BY <3>1
  <2>8. \A n \in 1..N : k[n] = IF n = 1 THEN seqs[n] ELSE k[n - 1] \o seqs[n]
    <3>1. ASSUME NEW n \in 1..N, n = 1 PROVE h[n] = seqs[n]
      <4>1. h[n - 1] = << >>
        BY <2>6, <3>1
      <4>2. << >> \o seqs[n] = seqs[n]
        BY <1>1
      <4> QED BY <2>7, <4>1, <4>2
    <3>2. \A n \in 1..N : n # 1 => n - 1 \in 1..N
      BY <1>1
    <3> HIDE DEF N
    <3> QED BY <2>7, <3>1, <3>2
  <2>9. k = Step(k)
    <3>1. k = [n \in 1..N |-> k[n]]
      OBVIOUS
    <3> HIDE DEF k
    <3> QED BY <2>8, <3>1
  <2> HIDE DEF Step
  <2>10. flatten = Step(flatten)
    BY <2>9
  <2> HIDE DEF flatten
  <2>11. \A n \in 1..N : flatten[n] = IF n = 1 THEN seqs[n] ELSE flatten[n - 1] \o seqs[n]
    BY <2>10 DEF Step
  <2> DEFINE Joined(n) == UNION {Range(seqs[m]) : m \in 1..n}
             good == {0} \cup {n \in 1..N : flatten[n] \in Q /\ Range(flatten[n]) = Joined(n)}
  <2>12. ASSUME NEW n \in 1..N, n - 1 \in good PROVE n \in good
    <3>1. CASE n = 1
      <4>1. flatten[n] = seqs[n] /\ seqs[n] \in Q
        BY <1>1, <2>11, <3>1
      <4>2. Joined(n) = Range(seqs[n])
        <5>1. 1..n = {n}
          BY <3>1
        <5> QED BY <5>1
      <4> QED BY <4>1, <4>2
    <3>2. CASE n # 1
      <4>1. n - 1 \in 1..N /\ n - 1 # 0
        BY <1>1, <3>2
      <4>2. flatten[n - 1] \in Q /\ Range(flatten[n - 1]) = Joined(n - 1) /\ seqs[n] \in Q
        BY <1>1, <2>12, <4>1
      <4>3. flatten[n] = flatten[n - 1] \o seqs[n]
        BY <2>11, <3>2
      <4>4. flatten[n] \in Q /\ Range(flatten[n]) = Range(flatten[n - 1]) \cup Range(seqs[n])
        BY <4>2, <4>3, ConcatFacts
      <4>5. Joined(n) = Joined(n - 1) \cup Range(seqs[n])
        <5>1. 1..n = (1..(n - 1)) \cup {n}
          BY <1>1, <4>1
        <5> QED BY <5>1
      <4> QED BY <4>2, <4>4, <4>5
    <3> QED BY <3>1, <3>2
  <2>13. \A n \in 0..N : n \in good
    <3>1. 0 \in good
      OBVIOUS
    <3>2. \A n \in 1..N : n - 1 \in good => n \in good
      BY <2>12
    <3> HIDE DEF good, N
    <3> QED BY <1>1, <3>1, <3>2, Induct
  <2>14. N \in good /\ N # 0
    <3>1. N \in 0..N
      BY <1>1
    <3> HIDE DEF good
    <3> QED BY <1>3, <2>13, <3>1
  <2> QED BY <2>1, <2>14
<1> QED BY <1>2, <1>3

-----------------------------------------------------------------------------
(* Sequences of things too rich to have a type of their own: that they are *)
(* sequences is all that counts.                                           *)

\* Such a sequence is one of the things it holds.
LEMMA AnySequence ==
  ASSUME NEW s, IsSequence(s)
  PROVE  s \in Seq(Range(s)) /\ DOMAIN s = 1..Len(s) /\ Len(s) \in Nat
<1>1. PICK S : s \in Seq(S)
  BY DEF IsSequence
<1>2. DOMAIN s = 1..Len(s) /\ Len(s) \in Nat /\ s = [i \in 1..Len(s) |-> s[i]]
  BY <1>1
<1>3. \A i \in 1..Len(s) : s[i] \in Range(s)
  BY <1>2 DEF Range
<1>4. s \in [1..Len(s) -> Range(s)]
  BY <1>2, <1>3
<1>5. s \in Seq(Range(s))
  BY <1>2, <1>4
<1> QED BY <1>2, <1>5

\* One more at the end.
LEMMA AnyAppend ==
  ASSUME NEW s, IsSequence(s), NEW e
  PROVE  /\ IsSequence(Append(s, e)) /\ Len(s) \in Nat /\ Len(Append(s, e)) = Len(s) + 1
         /\ \A i \in 1..Len(s) : Append(s, e)[i] = s[i]
         /\ Append(s, e)[Len(s) + 1] = e
         /\ Range(Append(s, e)) = Range(s) \cup {e}
<1>1. PICK S : s \in Seq(S)
  BY DEF IsSequence
<1> DEFINE T == S \cup {e}
<1>2. s \in Seq(T) /\ e \in T
  BY <1>1
<1> HIDE DEF T
<1>3. /\ Append(s, e) \in Seq(T) /\ Len(Append(s, e)) = Len(s) + 1
      /\ \A i \in 1..Len(s) : Append(s, e)[i] = s[i]
      /\ Append(s, e)[Len(s) + 1] = e
      /\ Range(Append(s, e)) = Range(s) \cup {e}
  BY ONLY <1>2, AppendFacts
<1>4. Len(s) \in Nat
  BY <1>2
<1> QED BY <1>3, <1>4 DEF IsSequence

\* Two, one after the other.
LEMMA AnyConcat ==
  ASSUME NEW s, NEW t, IsSequence(s), IsSequence(t)
  PROVE  /\ IsSequence(s \o t) /\ Len(s) \in Nat /\ Len(t) \in Nat /\ Len(s \o t) = Len(s) + Len(t)
         /\ \A i \in 1..Len(s) : (s \o t)[i] = s[i]
         /\ \A i \in 1..Len(t) : (s \o t)[Len(s) + i] = t[i]
         /\ \A i \in 1..Len(s \o t) :
              (s \o t)[i] = IF i <= Len(s) THEN s[i] ELSE t[i - Len(s)]
         /\ Range(s \o t) = Range(s) \cup Range(t)
<1>1. PICK S : s \in Seq(S)
  BY DEF IsSequence
<1>2. PICK T : t \in Seq(T)
  BY DEF IsSequence
<1> DEFINE U == S \cup T
<1>3. s \in Seq(U) /\ t \in Seq(U)
  BY <1>1, <1>2
<1> HIDE DEF U
<1>4. /\ s \o t \in Seq(U) /\ Len(s \o t) = Len(s) + Len(t)
      /\ \A i \in 1..Len(s) : (s \o t)[i] = s[i]
      /\ \A i \in 1..Len(t) : (s \o t)[Len(s) + i] = t[i]
      /\ Range(s \o t) = Range(s) \cup Range(t)
  BY ONLY <1>3, ConcatFacts
<1>5. /\ Len(s) \in Nat /\ Len(t) \in Nat
      /\ \A i \in 1..Len(s \o t) : (s \o t)[i] = IF i <= Len(s) THEN s[i] ELSE t[i - Len(s)]
  BY <1>3
<1> QED BY <1>4, <1>5 DEF IsSequence

\* One made from another, element by element.
LEMMA AnyMap ==
  ASSUME NEW s, IsSequence(s), NEW m, NEW V, m \in [DOMAIN s -> V]
  PROVE  IsSequence(m) /\ Len(m) = Len(s) /\ Len(s) \in Nat /\ DOMAIN s = 1..Len(s)
<1>1. PICK S : s \in Seq(S)
  BY DEF IsSequence
<1>2. DOMAIN s = 1..Len(s) /\ Len(s) \in Nat
  BY <1>1
<1>3. m \in Seq(V) /\ Len(m) = Len(s)
  BY <1>2
<1> QED BY <1>2, <1>3 DEF IsSequence

\* One of a single thing.
LEMMA AnySingle ==
  ASSUME NEW e
  PROVE  IsSequence(<<e>>) /\ Len(<<e>>) = 1 /\ (\A i \in 1..Len(<<e>>) : <<e>>[i] = e) /\ Range(<<e>>) = {e}
<1>1. <<e>> \in Seq({e}) /\ Len(<<e>>) = 1 /\ <<e>>[1] = e /\ DOMAIN <<e>> = 1..1
  OBVIOUS
<1>2. \A i \in 1..1 : i = 1
  OBVIOUS
<1>3. \A i \in 1..Len(<<e>>) : <<e>>[i] = e
  BY ONLY <1>1, <1>2, Zenon
<1>4. Range(<<e>>) = {e}
  BY <1>1, <1>2 DEF Range
<1> QED BY <1>1, <1>3, <1>4 DEF IsSequence

\* The empty one.
LEMMA AnyEmpty == IsSequence(<< >>) /\ Len(<< >>) = 0 /\ Range(<< >>) = {}
<1>1. << >> \in Seq({})
  OBVIOUS
<1>2. Len(<< >>) = 0 /\ Range(<< >>) = {}
  BY DEF Range
<1> QED BY <1>1, <1>2 DEF IsSequence

\* Several, joined.
LEMMA AnyFlatten ==
  ASSUME NEW seqs, IsSequence(seqs), \A n \in DOMAIN seqs : IsSequence(seqs[n])
  PROVE  /\ IsSequence(FlattenSeq(seqs))
         /\ Range(FlattenSeq(seqs)) = UNION {Range(seqs[n]) : n \in DOMAIN seqs}
<1> DEFINE S == UNION {Range(seqs[n]) : n \in DOMAIN seqs}
<1>1. DOMAIN seqs = 1..Len(seqs) /\ Len(seqs) \in Nat
  BY AnySequence
<1>2. ASSUME NEW n \in DOMAIN seqs PROVE seqs[n] \in Seq(S)
  <2>1. seqs[n] \in Seq(Range(seqs[n])) /\ Range(seqs[n]) \subseteq S
    BY AnySequence
  <2> HIDE DEF S
  <2> QED BY <2>1
<1> DEFINE Q == Seq(S)
<1>3. seqs \in Seq(Q)
  <2>1. seqs \in Seq(Range(seqs)) /\ \A n \in 1..Len(seqs) : seqs[n] \in Q
    BY <1>1, <1>2, AnySequence
  <2> HIDE DEF Q
  <2>2. seqs \in [1..Len(seqs) -> Q]
    BY <1>1, <2>1
  <2> QED BY <1>1, <2>2
<1> HIDE DEF S
<1>4. FlattenSeq(seqs) \in Seq(S) /\ Range(FlattenSeq(seqs)) = UNION {Range(seqs[n]) : n \in 1..Len(seqs)}
  BY ONLY <1>3, FlattenFacts DEF Q
<1> QED BY <1>1, <1>4 DEF IsSequence

\* Where three are joined does not depend on which two are joined first.
LEMMA AnyRegroup ==
  ASSUME NEW s, NEW t, NEW u, IsSequence(s), IsSequence(t), IsSequence(u)
  PROVE  (s \o t) \o u = s \o (t \o u)
<1> DEFINE S == Range(s) \cup Range(t) \cup Range(u)
<1>1. s \in Seq(Range(s)) /\ t \in Seq(Range(t)) /\ u \in Seq(Range(u))
  BY AnySequence
<1>2. s \in Seq(S) /\ t \in Seq(S) /\ u \in Seq(S)
  BY <1>1
<1> HIDE DEF S
<1> QED BY ONLY <1>2

\* A sequence made element by element along another.
LEMMA AlongFacts ==
  ASSUME NEW s, IsSequence(s), NEW m, m = [i \in DOMAIN s |-> m[i]]
  PROVE  IsSequence(m) /\ DOMAIN m = DOMAIN s /\ Len(m) = Len(s) /\ \A x \in Range(m) : \E i \in DOMAIN s : x = m[i]
<1> DEFINE V == {m[i] : i \in DOMAIN s}
<1>1. m \in [DOMAIN s -> V] /\ DOMAIN m = DOMAIN s
  OBVIOUS
<1>2. \A x \in Range(m) : \E i \in DOMAIN s : x = m[i]
  BY <1>1 DEF Range
<1> HIDE DEF V
<1> QED BY <1>1, <1>2, AnyMap

\* What is typed as a sequence of something is a sequence.
LEMMA TypedSequence ==
  ASSUME NEW S, NEW s \in Seq(S)
  PROVE  IsSequence(s) /\ DOMAIN s = 1..Len(s) /\ \A i \in DOMAIN s : s[i] \in S
BY DEF IsSequence

\* A function on an interval from 1 is a sequence.
LEMMA Listed1 ==
  ASSUME NEW N \in Nat, NEW m, m = [i \in 1..N |-> m[i]]
  PROVE  IsSequence(m) /\ Len(m) = N /\ DOMAIN m = 1..N
<1> DEFINE V == {m[i] : i \in 1..N}
<1>1. m \in [1..N -> V]
  OBVIOUS
<1> HIDE DEF V
<1>2. m \in Seq(V) /\ Len(m) = N /\ DOMAIN m = 1..N
  BY <1>1
<1> QED BY <1>2 DEF IsSequence

\* Sequences of the same length and the same elements are the same.
LEMMA AnyEqual ==
  ASSUME NEW a, NEW b, IsSequence(a), IsSequence(b), Len(a) = Len(b), \A i \in 1..Len(a) : a[i] = b[i]
  PROVE  a = b
<1>1. PICK A : a \in Seq(A)
  BY DEF IsSequence
<1>2. PICK B : b \in Seq(B)
  BY DEF IsSequence
<1>3. a = [i \in 1..Len(a) |-> a[i]] /\ b = [i \in 1..Len(b) |-> b[i]]
  BY <1>1, <1>2
<1> QED BY <1>3

\* The empty sequence joined to another.
LEMMA AnyUnit ==
  ASSUME NEW s, IsSequence(s)
  PROVE  s \o << >> = s /\ << >> \o s = s
<1>1. PICK S : s \in Seq(S)
  BY DEF IsSequence
<1> QED BY <1>1

-----------------------------------------------------------------------------
(* FlattenSeq, step by step.                                               *)

\* FlattenSeq joins the sequences it is given, one after another.
LEMMA FlatRuns ==
  ASSUME NEW seqs, IsSequence(seqs), \A n \in DOMAIN seqs : IsSequence(seqs[n])
  PROVE  \E h : Joins(h, seqs, Len(seqs)) /\ FlattenSeq(seqs) = h[Len(seqs)] /\ IsSequence(FlattenSeq(seqs))
<1> DEFINE N == Len(seqs)
           S == UNION {Range(seqs[n]) : n \in DOMAIN seqs}
           Q == Seq(S)
<1>1. N \in Nat /\ DOMAIN seqs = 1..N
  BY AnySequence
<1>2. \A n \in 1..N : seqs[n] \in Q
  <2> SUFFICES ASSUME NEW n \in 1..N PROVE seqs[n] \in Q
    OBVIOUS
  <2>1. seqs[n] \in Seq(Range(seqs[n])) /\ Range(seqs[n]) \subseteq S
    BY <1>1, AnySequence
  <2> HIDE DEF S
  <2> QED BY <2>1
<1> HIDE DEF S
<1> DEFINE F == [n \in 1..N |-> [sofar \in Q |-> sofar \o seqs[n]]]
           base == << >>
<1>3. \A sofar \in Q : \A n \in 1..N : sofar \o seqs[n] \in Q
  BY <1>1, <1>2, ConcatFacts
<1>4. base \in Q
  OBVIOUS
<1>5. F \in [1..N -> [Q -> Q]]
  <2> HIDE DEF Q
  <2> QED BY <1>3
<1>6. \E h : IsLoop(h, Q, base, N, F)
  <2> HIDE DEF F, N, Q, base
  <2> QED BY <1>1, <1>4, <1>5, LoopRuns
<1>7. PICK h : h \in [0..N -> Q] /\ h[0] = base /\ \A n \in 1..N : h[n] = F[n][h[n - 1]]
  <2> HIDE DEF F, N, Q, base
  <2> QED BY <1>6 DEF IsLoop
<1>8. \A n \in 1..N : h[n - 1] \in Q /\ h[n] = h[n - 1] \o seqs[n]
  <2> SUFFICES ASSUME NEW n \in 1..N PROVE h[n - 1] \in Q /\ h[n] = h[n - 1] \o seqs[n]
    OBVIOUS
  <2>1. n - 1 \in 0..N
    BY <1>1
  <2>2. h[n - 1] \in Q
    <3> HIDE DEF Q, F, N
    <3> QED BY <1>7, <2>1
  <2>3. F[n][h[n - 1]] = h[n - 1] \o seqs[n]
    <3> HIDE DEF Q
    <3> QED BY <2>2
  <2> QED BY <1>7, <2>2, <2>3
<1>9. Joins(h, seqs, N)
  <2>1. \A n \in 1..N : IsSequence(h[n - 1])
    BY <1>8 DEF IsSequence
  <2> QED BY <1>7, <1>8, <2>1 DEF Joins
<1>10. N \in 0..N /\ h[N] \in Q
  <2>1. N \in 0..N
    BY <1>1
  <2> HIDE DEF Q, F, N
  <2> QED BY <1>7, <2>1
<1>11. FlattenSeq(seqs) = h[N]
  <2>1. CASE N = 0
    <3>1. FlattenSeq(seqs) = seqs
      BY <2>1 DEF FlattenSeq
    <3>2. seqs = << >>
      <4>1. PICK T : seqs \in Seq(T)
        BY DEF IsSequence
      <4> QED BY <2>1, <4>1
    <3> QED BY <1>7, <2>1, <3>1, <3>2
  <2>2. CASE N # 0
    <3> DEFINE Step(g) == [i \in 1..N |-> IF i = 1 THEN seqs[i] ELSE g[i - 1] \o seqs[i]]
               flatten == CHOOSE g : g = Step(g)
               k == [n \in 1..N |-> h[n]]
    <3>1. FlattenSeq(seqs) = flatten[N]
      BY <2>2 DEF FlattenSeq
    <3>2. \A n \in 1..N : k[n] = IF n = 1 THEN seqs[n] ELSE k[n - 1] \o seqs[n]
      <4>1. ASSUME NEW n \in 1..N, n = 1 PROVE h[n] = seqs[n]
        <5>1. h[n - 1] = << >>
          BY <1>7, <4>1
        <5>2. << >> \o seqs[n] = seqs[n]
          BY <1>2
        <5> QED BY <1>8, <5>1, <5>2
      <4>2. \A n \in 1..N : n # 1 => n - 1 \in 1..N
        BY <1>1
      <4> HIDE DEF N
      <4> QED BY <1>8, <4>1, <4>2
    <3>3. k = Step(k)
      <4>1. k = [n \in 1..N |-> k[n]]
        OBVIOUS
      <4> HIDE DEF k
      <4> QED BY <3>2, <4>1
    <3> HIDE DEF Step
    <3>4. flatten = Step(flatten)
      BY <3>3
    <3> HIDE DEF flatten
    <3>5. \A n \in 1..N : flatten[n] = IF n = 1 THEN seqs[n] ELSE flatten[n - 1] \o seqs[n]
      BY <3>4 DEF Step
    <3> DEFINE good == {0} \cup {n \in 1..N : flatten[n] = k[n]}
    <3>6. ASSUME NEW n \in 1..N, n - 1 \in good PROVE n \in good
      <4>1. CASE n = 1
        BY <3>2, <3>5, <4>1
      <4>2. CASE n # 1
        <5>1. n - 1 # 0
          BY <1>1, <4>2
        <5>2. flatten[n - 1] = k[n - 1]
          BY <3>6, <5>1
        <5> HIDE DEF k
        <5> QED BY <3>2, <3>5, <4>2, <5>2
      <4> QED BY <4>1, <4>2
    <3>7. \A n \in 0..N : n \in good
      <4>1. 0 \in good
        OBVIOUS
      <4>2. \A n \in 1..N : n - 1 \in good => n \in good
        BY <3>6
      <4> HIDE DEF good, N
      <4> QED BY <1>1, <4>1, <4>2, Induct
    <3>8. N \in good /\ N \in 1..N
      <4>1. N \in 0..N /\ N \in 1..N
        BY <1>1, <2>2
      <4> HIDE DEF good
      <4> QED BY <3>7, <4>1
    <3>9. flatten[N] = k[N]
      BY <2>2, <3>8
    <3>10. k[N] = h[N]
      BY <3>8
    <3> QED BY <3>1, <3>9, <3>10
  <2> QED BY <2>1, <2>2
<1> QED BY <1>9, <1>10, <1>11 DEF IsSequence

\* There is one way to join them.
LEMMA JoinsOnce ==
  ASSUME NEW seqs, NEW more, NEW N \in Nat, NEW h, Joins(h, seqs, N), NEW k, Joins(k, more, N),
         \A n \in 1..N : seqs[n] = more[n]
  PROVE  h[N] = k[N]
<1> DEFINE good == {n \in 0..N : h[n] = k[n]}
<1>1. 0 \in good
  BY DEF Joins
<1>2. ASSUME NEW n \in 1..N, n - 1 \in good PROVE n \in good
  <2>1. h[n - 1] = k[n - 1] /\ n \in 0..N
    BY <1>2
  <2> QED BY <2>1 DEF Joins
<1>3. \A n \in 0..N : n \in good
  <2>2. \A n \in 1..N : n - 1 \in good => n \in good
    BY <1>2
  <2> HIDE DEF good
  <2> QED BY <1>1, <2>2, Induct
<1>4. N \in 0..N
  OBVIOUS
<1>5. N \in good
  <2> HIDE DEF good
  <2> QED BY <1>3, <1>4
<1> QED BY <1>5

\* The last of several sequences joins after the others.
LEMMA FlatStep ==
  ASSUME NEW m, IsSequence(m), \A n \in DOMAIN m : IsSequence(m[n]), NEW N \in Nat, Len(m) = N + 1,
         NEW front, front = [n \in 1..N |-> m[n]]
  PROVE  /\ FlattenSeq(m) = FlattenSeq(front) \o m[N + 1]
         /\ IsSequence(front) /\ Len(front) = N /\ IsSequence(FlattenSeq(front)) /\ IsSequence(m[N + 1])
<1>1. IsSequence(front) /\ Len(front) = N /\ DOMAIN front = 1..N /\ \A n \in 1..N : front[n] = m[n]
  BY Listed1
<1>2. DOMAIN m = 1..(N + 1)
  BY AnySequence
<1>3. \A n \in DOMAIN front : IsSequence(front[n])
  BY <1>1, <1>2
<1>4. PICK h : Joins(h, m, N + 1) /\ FlattenSeq(m) = h[N + 1]
  BY FlatRuns
<1>5. PICK k : Joins(k, front, N) /\ FlattenSeq(front) = k[N] /\ IsSequence(FlattenSeq(front))
  BY <1>1, <1>3, FlatRuns
<1>6. Joins(h, m, N)
  <2>1. \A n \in 1..N : n \in 1..(N + 1)
    OBVIOUS
  <2> QED BY <1>4, <2>1 DEF Joins
<1>7. h[N] = k[N]
  <2>1. (\A n \in 1..N : m[n] = front[n]) /\ Joins(k, front, N) /\ N \in Nat
    BY <1>1, <1>5
  <2> QED BY ONLY <1>6, <2>1, JoinsOnce
<1>8. N + 1 \in 1..(N + 1) /\ (N + 1) - 1 = N
  OBVIOUS
<1>9. h[N + 1] = h[N] \o m[N + 1]
  BY <1>4, <1>8 DEF Joins
<1> QED BY <1>1, <1>2, <1>4, <1>5, <1>7, <1>8, <1>9

\* None, one more, and two runs of them.
LEMMA FlatEmpty == FlattenSeq(<< >>) = << >>
BY DEF FlattenSeq

\* One more sequence joins at the end.
LEMMA FlatAppend ==
  ASSUME NEW m, IsSequence(m), \A n \in DOMAIN m : IsSequence(m[n]), NEW x, IsSequence(x)
  PROVE  FlattenSeq(Append(m, x)) = FlattenSeq(m) \o x /\ IsSequence(FlattenSeq(m))
<1> DEFINE c == Append(m, x)
           N == Len(m)
           front == [n \in 1..N |-> c[n]]
<1>1. /\ IsSequence(c) /\ N \in Nat /\ Len(c) = N + 1 /\ c[N + 1] = x
      /\ \A i \in 1..N : c[i] = m[i]
  BY AnyAppend
<1>2. DOMAIN m = 1..N
  BY AnySequence
<1> HIDE DEF c
<1>3. \A n \in DOMAIN c : IsSequence(c[n])
  <2>1. DOMAIN c = 1..(N + 1)
    BY <1>1, AnySequence
  <2>2. ASSUME NEW n \in 1..(N + 1) PROVE n = N + 1 \/ n \in 1..N
    BY <1>1
  <2> QED BY <1>1, <1>2, <2>1, <2>2
<1>4. FlattenSeq(c) = FlattenSeq(front) \o c[N + 1] /\ IsSequence(front) /\ Len(front) = N /\ IsSequence(FlattenSeq(front))
  <2> HIDE DEF N
  <2>1. front = [n \in 1..N |-> c[n]]
    OBVIOUS
  <2> HIDE DEF front
  <2> QED BY <1>1, <1>3, <2>1, FlatStep
<1>5. front = m
  <2>1. \A i \in 1..N : front[i] = m[i]
    BY <1>1
  <2> HIDE DEF front
  <2> QED BY <1>4, <2>1, AnyEqual
<1> QED BY <1>1, <1>4, <1>5 DEF c

\* Two lists of sequences, one after the other.
LEMMA FlatConcat ==
  ASSUME NEW a, IsSequence(a), \A n \in DOMAIN a : IsSequence(a[n]),
         NEW b, IsSequence(b), \A n \in DOMAIN b : IsSequence(b[n])
  PROVE  /\ FlattenSeq(a \o b) = FlattenSeq(a) \o FlattenSeq(b)
         /\ IsSequence(FlattenSeq(a)) /\ IsSequence(FlattenSeq(b))
<1> DEFINE N == Len(b)
           part(n) == [i \in 1..n |-> b[i]]
           good == {n \in 0..N : FlattenSeq(a \o part(n)) = FlattenSeq(a) \o FlattenSeq(part(n))}
<1>1. N \in Nat /\ DOMAIN b = 1..N
  BY AnySequence
<1>2. IsSequence(FlattenSeq(a)) /\ IsSequence(FlattenSeq(b))
  BY FlatRuns
<1>3. \A n \in 0..N : /\ IsSequence(part(n)) /\ Len(part(n)) = n /\ DOMAIN part(n) = 1..n
                      /\ \A i \in DOMAIN part(n) : IsSequence(part(n)[i])
  <2> SUFFICES ASSUME NEW n \in 0..N
               PROVE  /\ IsSequence(part(n)) /\ Len(part(n)) = n /\ DOMAIN part(n) = 1..n
                      /\ \A i \in DOMAIN part(n) : IsSequence(part(n)[i])
    OBVIOUS
  <2> DEFINE p == part(n)
  <2>1. p = [i \in 1..n |-> p[i]] /\ (\A i \in 1..n : p[i] = b[i]) /\ n \in Nat /\ \A i \in 1..n : i \in 1..N
    BY <1>1
  <2> HIDE DEF p
  <2>2. IsSequence(p) /\ Len(p) = n /\ DOMAIN p = 1..n
    BY <2>1, Listed1
  <2>3. \A i \in DOMAIN p : IsSequence(p[i])
    BY <1>1, <2>1, <2>2
  <2> QED BY <2>2, <2>3 DEF p
<1>4. 0 \in good
  <2>1. part(0) = << >>
    <3>1. IsSequence(part(0)) /\ Len(part(0)) = 0
      <4>1. 0 \in 0..N
        BY <1>1
      <4> HIDE DEF part, N
      <4> QED BY <1>3, <4>1
    <3> HIDE DEF part
    <3> QED BY <3>1, AnyEqual, AnyEmpty
  <2>2. a \o << >> = a /\ FlattenSeq(a) \o << >> = FlattenSeq(a) /\ FlattenSeq(<< >>) = << >>
    BY <1>2, AnyUnit, FlatEmpty
  <2>3. 0 \in 0..N
    BY <1>1
  <2> HIDE DEF part, N
  <2>4. FlattenSeq(a \o part(0)) = FlattenSeq(a) \o FlattenSeq(part(0))
    BY <2>1, <2>2
  <2> QED BY <2>3, <2>4
<1>5. ASSUME NEW n \in 1..N, n - 1 \in good PROVE n \in good
  <2> DEFINE p == part(n - 1)
  <2>1. /\ IsSequence(p) /\ Len(p) = n - 1 /\ DOMAIN p = 1..(n - 1) /\ \A i \in DOMAIN p : IsSequence(p[i])
        /\ n - 1 \in 0..N /\ n \in 0..N
    <3>1. n - 1 \in 0..N /\ n \in 0..N
      BY <1>1
    <3> QED BY <1>3, <3>1
  <2>2. FlattenSeq(a \o p) = FlattenSeq(a) \o FlattenSeq(p)
    BY <1>5
  <2>3. part(n) = Append(p, b[n])
    <3> DEFINE q == part(n)
    <3>1. IsSequence(q) /\ Len(q) = n
      BY <1>3, <2>1
    <3>2. IsSequence(Append(p, b[n])) /\ Len(Append(p, b[n])) = (n - 1) + 1
          /\ (\A i \in 1..(n - 1) : Append(p, b[n])[i] = p[i]) /\ Append(p, b[n])[(n - 1) + 1] = b[n]
      <4> HIDE DEF p
      <4> QED BY <2>1, AnyAppend
    <3>3. \A i \in 1..n : q[i] = b[i]
      OBVIOUS
    <3>4. \A i \in 1..(n - 1) : p[i] = b[i]
      OBVIOUS
    <3>5. (n - 1) + 1 = n /\ \A i \in 1..n : i = n \/ i \in 1..(n - 1)
      BY <1>1
    <3> DEFINE w == Append(p, b[n])
    <3> HIDE DEF q, p, w
    <3>6. \A i \in 1..n : q[i] = w[i]
      BY <3>2, <3>3, <3>4, <3>5 DEF w
    <3>7. q = w
      <4>1. IsSequence(w) /\ Len(w) = n
        BY <3>2, <3>5 DEF w
      <4>2. Len(q) = n /\ IsSequence(q)
        BY <3>1
      <4> QED BY ONLY <3>6, <4>1, <4>2, AnyEqual
    <3> QED BY <3>7 DEF q, w
  <2> HIDE DEF p
  <2>4. IsSequence(b[n])
    BY <1>1
  <2>5. FlattenSeq(Append(p, b[n])) = FlattenSeq(p) \o b[n] /\ IsSequence(FlattenSeq(p))
    BY <2>1, <2>4, FlatAppend
  <2>6. a \o Append(p, b[n]) = Append(a \o p, b[n])
    <3>1. PICK A : a \in Seq(A)
      BY DEF IsSequence
    <3>2. PICK B : p \in Seq(B)
      BY <2>1 DEF IsSequence
    <3> DEFINE C == A \cup B \cup {b[n]}
    <3>3. a \in Seq(C) /\ p \in Seq(C) /\ b[n] \in C
      BY <3>1, <3>2
    <3> HIDE DEF C
    <3> QED BY ONLY <3>3
  <2>7. IsSequence(a \o p) /\ \A i \in DOMAIN (a \o p) : IsSequence((a \o p)[i])
    <3>1. /\ IsSequence(a \o p) /\ Len(a) \in Nat /\ Len(p) \in Nat /\ Len(a \o p) = Len(a) + Len(p)
          /\ \A i \in 1..Len(a \o p) : (a \o p)[i] = IF i <= Len(a) THEN a[i] ELSE p[i - Len(a)]
      BY <2>1, AnyConcat
    <3>2. DOMAIN a = 1..Len(a) /\ DOMAIN (a \o p) = 1..Len(a \o p)
      BY <3>1, AnySequence
    <3> DEFINE c == a \o p
    <3> HIDE DEF c
    <3>3. \A i \in 1..(Len(a) + Len(p)) : i \in 1..Len(a) \/ (~ (i <= Len(a)) /\ i - Len(a) \in 1..Len(p))
      BY <3>1
    <3>4. \A i \in 1..Len(a) : i <= Len(a)
      BY <3>1
    <3>5. Len(p) = n - 1
      BY <2>1
    <3>6. \A i \in DOMAIN c : IsSequence(c[i])
      BY <2>1, <3>1, <3>2, <3>3, <3>4, <3>5 DEF c
    <3> QED BY <3>1, <3>6 DEF c
  <2>8. FlattenSeq(Append(a \o p, b[n])) = FlattenSeq(a \o p) \o b[n]
    BY <2>4, <2>7, FlatAppend
  <2>9. (FlattenSeq(a) \o FlattenSeq(p)) \o b[n] = FlattenSeq(a) \o (FlattenSeq(p) \o b[n])
    <3> DEFINE x == FlattenSeq(a)
               y == FlattenSeq(p)
               z == b[n]
    <3>1. IsSequence(x) /\ IsSequence(y) /\ IsSequence(z)
      BY <1>2, <2>4, <2>5
    <3> HIDE DEF x, y, z
    <3>2. (x \o y) \o z = x \o (y \o z)
      BY ONLY <3>1, AnyRegroup
    <3> QED BY <3>2 DEF x, y, z
  <2> HIDE DEF part
  <2> QED BY <2>1, <2>2, <2>3, <2>5, <2>6, <2>8, <2>9
<1>6. N \in good
  <2>1. \A n \in 0..N : n \in good
    <3>1. \A n \in 1..N : n - 1 \in good => n \in good
      BY <1>5
    <3> HIDE DEF good, N
    <3> QED BY <1>1, <1>4, <3>1, Induct
  <2>2. N \in 0..N
    BY <1>1
  <2> HIDE DEF good
  <2> QED BY <2>1, <2>2
<1>7. part(N) = b
  <2>1. IsSequence(part(N)) /\ Len(part(N)) = N
    BY <1>1, <1>3
  <2>2. \A i \in 1..N : part(N)[i] = b[i]
    OBVIOUS
  <2> HIDE DEF part
  <2> QED BY <2>1, <2>2, AnyEqual
<1> HIDE DEF part
<1> QED BY <1>2, <1>6, <1>7

-----------------------------------------------------------------------------
(* Functions defined from their values at lower positions.                 *)

\* There is such a function, whatever the rule.
LEMMA DeepRuns ==
  ASSUME NEW V, NEW N \in Nat, NEW G \in [1..N -> [Seq(V) -> V]]
  PROVE  \E g : Builds(g, V, G, N)
<1> DEFINE A == Seq(V)
           base == << >>
           F == [n \in 1..N |-> [s \in A |-> Append(s, G[n][s])]]
<1>1. \A s \in A, n \in 1..N : G[n][s] \in V
  OBVIOUS
<1>2. \A s \in A : \A x \in V : Append(s, x) \in A /\ Len(Append(s, x)) = Len(s) + 1 /\ Len(s) \in Nat
                   /\ (\A i \in 1..Len(s) : Append(s, x)[i] = s[i]) /\ Append(s, x)[Len(s) + 1] = x
  OBVIOUS
<1>3. base \in A /\ Len(base) = 0
  OBVIOUS
<1>s. \A s \in A : \A i \in 1..Len(s) : s[i] \in V
  OBVIOUS
<1>e. \A s \in A : s = [i \in 1..Len(s) |-> s[i]]
  OBVIOUS
<1>4. F \in [1..N -> [A -> A]]
  <2> HIDE DEF A
  <2> QED BY <1>1, <1>2
<1>5. \E h : IsLoop(h, A, base, N, F)
  <2> HIDE DEF F, A, base
  <2> QED BY <1>3, <1>4, LoopRuns
<1>6. PICK h : h \in [0..N -> A] /\ h[0] = base /\ \A n \in 1..N : h[n] = F[n][h[n - 1]]
  <2> HIDE DEF F, A, base
  <2> QED BY <1>5 DEF IsLoop
<1> HIDE DEF A
<1>7. \A n \in 1..N : n - 1 \in 0..N /\ n \in 0..N /\ n \in Nat /\ (n - 1) + 1 = n
  OBVIOUS
<1>8. \A n \in 1..N : h[n - 1] \in A /\ h[n] = Append(h[n - 1], G[n][h[n - 1]])
  BY <1>6, <1>7
<1> HIDE DEF F
<1> DEFINE good == {n \in 0..N : Len(h[n]) = n}
           kept == {n \in 0..N : \A i \in 1..n : h[n][i] = h[i][i]}
<1>9. \A n \in 0..N : n \in good
  <2>1. 0 \in good
    BY <1>3, <1>6
  <2>2. \A n \in 1..N : n - 1 \in good => n \in good
    <3> SUFFICES ASSUME NEW n \in 1..N, n - 1 \in good PROVE n \in good
      OBVIOUS
    <3>1. Len(h[n - 1]) = n - 1
      OBVIOUS
    <3>2. Len(h[n]) = Len(h[n - 1]) + 1
      BY <1>1, <1>2, <1>8
    <3> QED BY <1>7, <3>1, <3>2
  <2> HIDE DEF good
  <2> QED BY <2>1, <2>2, Induct
<1>10. \A n \in 0..N : Len(h[n]) = n
  BY <1>9
<1>11. \A n \in 1..N : h[n][n] = G[n][h[n - 1]] /\ \A i \in 1..(n - 1) : h[n][i] = h[n - 1][i]
  <2> SUFFICES ASSUME NEW n \in 1..N
               PROVE  h[n][n] = G[n][h[n - 1]] /\ \A i \in 1..(n - 1) : h[n][i] = h[n - 1][i]
    OBVIOUS
  <2>1. Len(h[n - 1]) = n - 1
    BY <1>7, <1>10
  <2>2. h[n - 1] \in A /\ G[n][h[n - 1]] \in V
    BY <1>1, <1>8
  <2> DEFINE s == h[n - 1]
             x == G[n][s]
  <2>3. h[n] = Append(s, x) /\ s \in A /\ x \in V /\ Len(s) = n - 1 /\ (n - 1) + 1 = n
    BY <1>7, <1>8, <2>1, <2>2
  <2> HIDE DEF s, x
  <2>4. h[n][n] = x /\ \A i \in 1..(n - 1) : h[n][i] = s[i]
    BY <1>2, <2>3
  <2> QED BY <2>4 DEF s, x
<1>12. \A n \in 0..N : n \in kept
  <2>1. 0 \in kept
    OBVIOUS
  <2>2. \A n \in 1..N : n - 1 \in kept => n \in kept
    <3> SUFFICES ASSUME NEW n \in 1..N, n - 1 \in kept, NEW i \in 1..n PROVE h[n][i] = h[i][i]
      BY <1>7
    <3>1. CASE i = n
      BY <3>1
    <3>2. CASE i # n
      BY <3>2, <1>11
    <3> QED BY <3>1, <3>2
  <2> HIDE DEF kept
  <2> QED BY <2>1, <2>2, Induct
<1> DEFINE g == [n \in 1..N |-> h[n][n]]
<1>13. \A n \in 1..N : h[n][n] \in V
  BY <1>1, <1>8, <1>11
<1>14. \A n \in 1..N : [i \in 1..(n - 1) |-> g[i]] = h[n - 1]
  <2> SUFFICES ASSUME NEW n \in 1..N PROVE [i \in 1..(n - 1) |-> g[i]] = h[n - 1]
    OBVIOUS
  <2>1. \A i \in 1..(n - 1) : g[i] = h[n - 1][i]
    <3> SUFFICES ASSUME NEW i \in 1..(n - 1) PROVE g[i] = h[n - 1][i]
      OBVIOUS
    <3>1. i \in 1..N /\ n - 1 \in 0..N
      BY <1>7
    <3>2. h[n - 1][i] = h[i][i]
      BY <1>12, <3>1
    <3> QED BY <3>1, <3>2
  <2>2. h[n - 1] = [i \in 1..(n - 1) |-> h[n - 1][i]]
    BY <1>7, <1>8, <1>10, <1>e
  <2> HIDE DEF g
  <2> QED BY <2>1, <2>2
<1>15. \A n \in 1..N : g[n] = G[n][h[n - 1]]
  BY <1>11
<1>16. g \in [1..N -> V]
  BY <1>13
<1> HIDE DEF g
<1>17. Builds(g, V, G, N)
  BY <1>8, <1>14, <1>15, <1>16 DEF Builds, A
<1> QED BY <1>17

\* Two sequences join to one.
LEMMA JoinFacts ==
  ASSUME NEW s, NEW t, IsSequence(s), IsSequence(t)
  PROVE  JoinOf(s \o t, s, t)
BY AnyConcat DEF JoinOf

\* One sequence alone joins to itself.
LEMMA FlatSingle ==
  ASSUME NEW x, IsSequence(x)
  PROVE  FlattenSeq(<<x>>) = x
<1>1. Append(<< >>, x) = <<x>>
  OBVIOUS
<1>2. IsSequence(<< >>) /\ \A n \in DOMAIN << >> : IsSequence(<< >>[n])
  BY AnyEmpty
<1>3. FlattenSeq(Append(<< >>, x)) = FlattenSeq(<< >>) \o x
  BY ONLY <1>2, IsSequence(x), FlatAppend
<1>4. << >> \o x = x
  BY AnyUnit
<1> QED BY <1>1, <1>3, <1>4, FlatEmpty

\* What is left of a sequence from a place on.
LEMMA RestFacts ==
  ASSUME NEW m, IsSequence(m), NEW k \in 1..(Len(m) + 1)
  PROVE  /\ IsSequence(Rest(m, k)) /\ Len(Rest(m, k)) = Len(m) - k + 1 /\ DOMAIN Rest(m, k) = 1..(Len(m) - k + 1)
         /\ \A i \in 1..(Len(m) - k + 1) : k + i - 1 \in DOMAIN m /\ Rest(m, k)[i] = m[k + i - 1]
         /\ Rest(m, 1) = m
         /\ k <= Len(m) => Rest(m, k) = <<m[k]>> \o Rest(m, k + 1)
<1> DEFINE N == Len(m)
<1>1. N \in Nat /\ DOMAIN m = 1..N
  BY AnySequence
<1>2. ASSUME NEW j \in 1..(N + 1)
      PROVE  /\ IsSequence(Rest(m, j)) /\ Len(Rest(m, j)) = N - j + 1 /\ DOMAIN Rest(m, j) = 1..(N - j + 1)
             /\ \A i \in 1..(N - j + 1) : j + i - 1 \in DOMAIN m /\ Rest(m, j)[i] = m[j + i - 1]
  <2> DEFINE M == N - j + 1
             r == Rest(m, j)
  <2>1. M \in Nat
    BY <1>1
  <2>2. r = [i \in 1..M |-> r[i]] /\ \A i \in 1..M : r[i] = m[j + i - 1]
    BY DEF Rest
  <2> HIDE DEF M, r
  <2>3. IsSequence(r) /\ Len(r) = M /\ DOMAIN r = 1..M
    BY <2>1, <2>2, Listed1
  <2>4. \A i \in 1..M : j + i - 1 \in DOMAIN m
    BY <1>1 DEF M
  <2> QED BY <2>2, <2>3, <2>4 DEF M, r
<1>3. Rest(m, 1) = m
  <2> DEFINE r == Rest(m, 1)
  <2>1. IsSequence(r) /\ Len(r) = N /\ \A i \in 1..N : r[i] = m[1 + i - 1]
    BY <1>1, <1>2
  <2>2. \A i \in 1..N : r[i] = m[i]
    BY <1>1, <2>1
  <2> HIDE DEF r
  <2>3. r = m
    BY <2>1, <2>2, AnyEqual
  <2> QED BY <2>3 DEF r
<1>4. ASSUME k <= N PROVE Rest(m, k) = <<m[k]>> \o Rest(m, k + 1)
  <2> DEFINE r == Rest(m, k)
             t == Rest(m, k + 1)
             one == <<m[k]>>
             w == one \o t
  <2>1. k \in 1..(N + 1) /\ k + 1 \in 1..(N + 1) /\ N - (k + 1) + 1 = N - k
    BY <1>1, <1>4
  <2>2. IsSequence(r) /\ Len(r) = N - k + 1 /\ \A i \in 1..(N - k + 1) : r[i] = m[k + i - 1]
    BY <1>2, <2>1
  <2>3. IsSequence(t) /\ Len(t) = N - k /\ \A i \in 1..(N - k) : t[i] = m[(k + 1) + i - 1]
    BY <1>2, <2>1, Zenon
  <2>4. IsSequence(one) /\ Len(one) = 1 /\ one[1] = m[k]
    BY AnySingle
  <2> HIDE DEF r, t, one
  <2>5. /\ IsSequence(w) /\ Len(w) = Len(one) + Len(t) /\ (\A i \in 1..Len(one) : w[i] = one[i])
        /\ \A i \in 1..Len(t) : w[Len(one) + i] = t[i]
    <3>1. w = one \o t
      OBVIOUS
    <3>2. IsSequence(one) /\ IsSequence(t)
      BY <2>3, <2>4
    <3> HIDE DEF w
    <3>3. JoinOf(w, one, t)
      BY <3>1, <3>2, JoinFacts
    <3> QED BY ONLY <3>3 DEF JoinOf
  <2> HIDE DEF w
  <2>6. Len(r) = Len(w)
    BY <1>1, <2>1, <2>2, <2>3, <2>4, <2>5
  <2>7. \A i \in 1..Len(r) : r[i] = w[i]
    <3> SUFFICES ASSUME NEW i \in 1..Len(r) PROVE r[i] = w[i]
      OBVIOUS
    <3>1. CASE i = 1
      BY <1>1, <2>1, <2>2, <3>1, <2>4, <2>5
    <3>2. CASE i # 1
      <4>1. i - 1 \in 1..(N - k) /\ 1 + (i - 1) = i /\ (k + 1) + (i - 1) - 1 = k + i - 1 /\ i \in 1..(N - k + 1)
        BY <1>1, <2>1, <2>2, <3>2
      <4> DEFINE j == i - 1
      <4> HIDE DEF j
      <4>2. j \in 1..(N - k) /\ 1 + j = i /\ (k + 1) + j - 1 = k + i - 1
        BY <4>1 DEF j
      <4>3. t[j] = m[k + i - 1]
        BY <2>3, <4>2
      <4>4. w[i] = t[j]
        BY <2>3, <2>4, <2>5, <4>2
      <4> QED BY <2>2, <4>1, <4>3, <4>4
    <3> QED BY <3>1, <3>2
  <2>8. r = w
    BY <2>2, <2>5, <2>6, <2>7, AnyEqual
  <2> QED BY <2>8 DEF r, w, one, t
<1> QED BY <1>2, <1>3, <1>4

\* What the k-th of several sequences and those after it join to.
LEMMA FlatRest ==
  ASSUME NEW m, IsSequence(m), \A n \in DOMAIN m : IsSequence(m[n]), NEW k \in 1..(Len(m) + 1)
  PROVE  /\ IsSequence(FlattenSeq(Rest(m, k)))
         /\ FlattenSeq(Rest(m, 1)) = FlattenSeq(m)
         /\ k <= Len(m) => IsSequence(m[k]) /\ FlattenSeq(Rest(m, k)) = m[k] \o FlattenSeq(Rest(m, k + 1))
         /\ k = Len(m) + 1 => FlattenSeq(Rest(m, k)) = << >>
<1>1. Len(m) \in Nat /\ DOMAIN m = 1..Len(m)
  BY AnySequence
<1>2. ASSUME NEW j \in 1..(Len(m) + 1)
      PROVE  /\ IsSequence(Rest(m, j)) /\ Len(Rest(m, j)) = Len(m) - j + 1
             /\ \A i \in DOMAIN Rest(m, j) : IsSequence(Rest(m, j)[i])
  <2> DEFINE r == Rest(m, j)
  <2>1. /\ IsSequence(r) /\ Len(r) = Len(m) - j + 1 /\ DOMAIN r = 1..(Len(m) - j + 1)
        /\ \A i \in 1..(Len(m) - j + 1) : j + i - 1 \in DOMAIN m /\ r[i] = m[j + i - 1]
    BY RestFacts
  <2> HIDE DEF r
  <2>2. \A i \in DOMAIN r : IsSequence(r[i])
    BY <2>1
  <2> QED BY <2>1, <2>2 DEF r
<1>3. IsSequence(FlattenSeq(Rest(m, k)))
  <2> DEFINE r == Rest(m, k)
  <2>1. IsSequence(r) /\ \A i \in DOMAIN r : IsSequence(r[i])
    BY <1>2
  <2> HIDE DEF r
  <2>2. IsSequence(FlattenSeq(r))
    BY <2>1, AnyFlatten
  <2> QED BY <2>2 DEF r
<1>4. Rest(m, 1) = m
  BY RestFacts
<1>5. ASSUME k <= Len(m) PROVE IsSequence(m[k]) /\ FlattenSeq(Rest(m, k)) = m[k] \o FlattenSeq(Rest(m, k + 1))
  <2> DEFINE t == Rest(m, k + 1)
             x == m[k]
             e == <<x>>
  <2>1. k + 1 \in 1..(Len(m) + 1) /\ k \in DOMAIN m
    BY <1>1, <1>5
  <2>2. IsSequence(t) /\ (\A i \in DOMAIN t : IsSequence(t[i])) /\ IsSequence(x)
    BY <1>2, <2>1
  <2>3. Rest(m, k) = e \o t
    BY <1>5, RestFacts
  <2> HIDE DEF t, x
  <2>4. IsSequence(e) /\ \A i \in DOMAIN e : IsSequence(e[i])
    BY AnySingle, AnySequence, <2>2
  <2>5. FlattenSeq(e) = x
    BY <2>2, FlatSingle
  <2> HIDE DEF e
  <2>6. FlattenSeq(e \o t) = FlattenSeq(e) \o FlattenSeq(t)
    BY <2>2, <2>4, FlatConcat
  <2> QED BY <2>2, <2>3, <2>5, <2>6 DEF t, x
<1>6. ASSUME k = Len(m) + 1 PROVE FlattenSeq(Rest(m, k)) = << >>
  <2> DEFINE r == Rest(m, k)
  <2>1. IsSequence(r) /\ Len(r) = 0
    BY <1>1, <1>2, <1>6
  <2> HIDE DEF r
  <2>2. r = << >>
    <3>1. \A i \in 1..Len(r) : r[i] = << >>[i]
      BY <2>1
    <3> QED BY ONLY <2>1, <3>1, AnyEqual, AnyEmpty
  <2> QED BY <2>2, FlatEmpty DEF r
<1> QED BY <1>3, <1>4, <1>5, <1>6

\* A sequence is its head and its tail.
LEMMA HeadTail ==
  ASSUME NEW s, IsSequence(s), s # << >>
  PROVE  /\ s = <<Head(s)>> \o Tail(s) /\ IsSequence(Tail(s)) /\ Head(s) = s[1] /\ 1 \in DOMAIN s
         /\ Len(Tail(s)) = Len(s) - 1 /\ Len(s) \in Nat
         /\ \A i \in DOMAIN Tail(s) : i + 1 \in DOMAIN s /\ Tail(s)[i] = s[i + 1]
<1>1. PICK T : s \in Seq(T)
  BY DEF IsSequence
<1>2. Head(s) \in T /\ Tail(s) \in Seq(T)
  BY <1>1
<1>3. s = <<Head(s)>> \o Tail(s)
  BY <1>1, <1>2
<1>4. Head(s) = s[1] /\ 1 \in DOMAIN s /\ Len(s) \in Nat /\ Len(Tail(s)) = Len(s) - 1
  BY <1>1
<1>5. \A i \in DOMAIN Tail(s) : i + 1 \in DOMAIN s /\ Tail(s)[i] = s[i + 1]
  BY <1>1
<1> QED BY <1>2, <1>3, <1>4, <1>5 DEF IsSequence

\* An element in the middle of a sequence without repetition.
LEMMA DistinctSplit ==
  ASSUME NEW a, IsSequence(a), NEW x, NEW b, IsSequence(b), NEW w, w = a \o (<<x>> \o b),
         \A i, j \in DOMAIN w : w[i] = w[j] => i = j
  PROVE  OnlyThere(a, x, b)
<1> DEFINE one == <<x>>
           t == one \o b
<1>1. IsSequence(one) /\ Len(one) = 1 /\ one[1] = x /\ Range(one) = {x}
  BY AnySingle
<1>w. w = a \o t /\ \A i, j \in DOMAIN w : w[i] = w[j] => i = j
  OBVIOUS
<1> HIDE DEF one
<1>2. IsSequence(t) /\ Len(t) = Len(one) + Len(b) /\ Len(b) \in Nat /\ \A i \in 1..Len(one) : t[i] = one[i]
  <2>1. t = one \o b
    OBVIOUS
  <2>2. IsSequence(one) /\ IsSequence(b)
    BY <1>1
  <2> HIDE DEF t
  <2>3. JoinOf(t, one, b)
    BY <2>1, <2>2, JoinFacts
  <2> QED BY ONLY <2>3 DEF JoinOf
<1> HIDE DEF t
<1>3. IsSequence(w) /\ Len(w) = Len(a) + Len(t) /\ Len(a) \in Nat /\ (\A i \in 1..Len(a) : w[i] = a[i])
      /\ \A i \in 1..Len(t) : w[Len(a) + i] = t[i]
  <2>1. JoinOf(a \o t, a, t)
    BY <1>2, JoinFacts
  <2>2. JoinOf(w, a, t)
    BY ONLY <1>w, <2>1
  <2> QED BY <2>2 DEF JoinOf
<1>4. DOMAIN w = 1..Len(w) /\ DOMAIN a = 1..Len(a)
  BY <1>3, AnySequence
<1>5. w[Len(a) + 1] = x /\ Len(a) + 1 \in DOMAIN w
  BY <1>1, <1>2, <1>3, <1>4
<1>6. x \notin Range(a)
  <2> SUFFICES ASSUME x \in Range(a) PROVE FALSE
    OBVIOUS
  <2>1. PICK i \in 1..Len(a) : a[i] = x
    BY <1>4 DEF Range
  <2>2. w[i] = x /\ i \in DOMAIN w /\ i # Len(a) + 1
    BY <1>1, <1>2, <1>3, <1>4, <2>1
  <2> QED BY <1>5, <1>w, <2>2
<1>7. a \o (one \o b) = (a \o one) \o b /\ IsSequence(a \o one) /\ Range(a \o one) = Range(a) \cup {x}
  BY <1>1, AnyRegroup, AnyConcat
<1> QED BY <1>6, <1>7 DEF one, OnlyThere

\* A body as ScriptDom gives it.
LEMMA BodyFacts ==
  ASSUME NEW b \in Bodies
  PROVE  /\ b.queries \in Seq(Query) /\ Layers(b.queries) /\ Len(b.queries) \in Nat
         /\ DOMAIN b.queries = 1..Len(b.queries)
         /\ \A n \in DOMAIN b.queries :
              LET q == b.queries[n]
              IN  /\ q \in Query
                  /\ \A i \in DOMAIN q.from : q.from[i].kind = "table" => q.from[i].name # None
                  /\ \A i \in DOMAIN q.from :
                       IF q.from[i].kind = "derived" THEN q.from[i].query \in Parts(q) ELSE q.from[i].query = 0
                  /\ IF q.kind = "union" THEN q.left \in Parts(q) /\ q.right \in Parts(q) ELSE q.left = 0 /\ q.right = 0
                  /\ \A p \in Parts(q) : \/ \E i \in DOMAIN q.from : q.from[i].kind = "derived" /\ p = q.from[i].query
                                         \/ q.kind = "union" /\ p \in {q.left, q.right}
<1>1. /\ b.queries \in Seq(Query) /\ Len(b.queries) \in Nat /\ DOMAIN b.queries = 1..Len(b.queries)
      /\ \A n \in 1..Len(b.queries) : b.queries[n] \in Query
  <2>1. b.queries \in Seq(Query)
    BY BodyAssumption
  <2> HIDE DEF Query
  <2> QED BY <2>1
<1>2. ASSUME NEW n \in DOMAIN b.queries
      PROVE  /\ \A i \in DOMAIN b.queries[n].from :
                  /\ b.queries[n].from[i].query \in IF b.queries[n].from[i].kind = "derived" THEN 1..(n - 1) ELSE {0}
                  /\ b.queries[n].from[i].kind = "table" => b.queries[n].from[i].name # None
             /\ {b.queries[n].left, b.queries[n].right} \subseteq IF b.queries[n].kind = "union" THEN 1..(n - 1) ELSE {0}
  BY BodyAssumption
<1>3. \A n \in DOMAIN b.queries : Parts(b.queries[n]) \subseteq 1..(n - 1)
  BY <1>2 DEF Parts
<1>4. Layers(b.queries)
  BY <1>1, <1>3 DEF Layers
<1>5. ASSUME NEW n \in DOMAIN b.queries
      PROVE  LET q == b.queries[n]
              IN  /\ q \in Query
                  /\ \A i \in DOMAIN q.from : q.from[i].kind = "table" => q.from[i].name # None
                  /\ \A i \in DOMAIN q.from :
                       IF q.from[i].kind = "derived" THEN q.from[i].query \in Parts(q) ELSE q.from[i].query = 0
                  /\ IF q.kind = "union" THEN q.left \in Parts(q) /\ q.right \in Parts(q) ELSE q.left = 0 /\ q.right = 0
                  /\ \A p \in Parts(q) : \/ \E i \in DOMAIN q.from : q.from[i].kind = "derived" /\ p = q.from[i].query
                                         \/ q.kind = "union" /\ p \in {q.left, q.right}
  <2> DEFINE q == b.queries[n]
  <2>1. q \in Query
    BY <1>1, <1>5
  <2>2. \A i \in DOMAIN q.from : /\ q.from[i].query \in IF q.from[i].kind = "derived" THEN 1..(n - 1) ELSE {0}
                                 /\ q.from[i].kind = "table" => q.from[i].name # None
    BY <1>2
  <2>3. {q.left, q.right} \subseteq IF q.kind = "union" THEN 1..(n - 1) ELSE {0}
    BY <1>2
  <2> HIDE DEF q, Query
  <2>4. \A i \in DOMAIN q.from : q.from[i].kind = "derived" => q.from[i].query \in Parts(q)
    BY DEF Parts
  <2>5. q.kind = "union" => q.left \in Parts(q) /\ q.right \in Parts(q)
    BY DEF Parts
  <2>6. \A p \in Parts(q) : \/ \E i \in DOMAIN q.from : q.from[i].kind = "derived" /\ p = q.from[i].query
                            \/ q.kind = "union" /\ p \in {q.left, q.right}
    BY DEF Parts
  <2>7. q.kind # "union" => q.left = 0 /\ q.right = 0
    BY <2>3
  <2> QED BY <2>1, <2>2, <2>4, <2>5, <2>6, <2>7 DEF q
<1> QED BY <1>1, <1>4, <1>5

\* A statement of a body, and the queries it begins with.
LEMMA StatementFacts ==
  ASSUME NEW b \in Bodies, NEW k \in DOMAIN b.statements
  PROVE  LET s == b.statements[k]
         IN  /\ s \in Statement /\ b.statements \in Seq(Statement) /\ DOMAIN b.statements = 1..Len(b.statements)
             /\ s.ctes \in Seq(Cte) /\ DOMAIN s.ctes = 1..Len(s.ctes) /\ Len(s.ctes) \in Nat
             /\ s.query \in 0..Len(b.queries)
             /\ s.using.query \in IF s.using.kind = "derived" THEN DOMAIN b.queries ELSE {0}
             /\ \A c \in DOMAIN s.ctes : s.ctes[c].query \in DOMAIN b.queries
             /\ s.kind \in {"insert", "values", "update", "merge"} => s.target.kind = "table"
             /\ s.kind = "update" => s.query \in DOMAIN b.queries
             /\ s.nested \in Seq((k + 1)..Len(b.statements))
<1> DEFINE s == b.statements[k]
<1>1. b.statements \in Seq(Statement)
  BY BodyAssumption
<1>2. s \in Statement /\ DOMAIN b.statements = 1..Len(b.statements)
  <2> HIDE DEF Statement
  <2> QED BY <1>1
<1>3. s.ctes \in Seq(Cte)
  BY <1>2 DEF Statement
<1>4. DOMAIN s.ctes = 1..Len(s.ctes) /\ Len(s.ctes) \in Nat
  <2> HIDE DEF Cte, s
  <2> QED BY <1>3
<1>5. /\ s.query \in 0..Len(b.queries)
      /\ s.using.query \in IF s.using.kind = "derived" THEN DOMAIN b.queries ELSE {0}
      /\ \A c \in DOMAIN s.ctes : s.ctes[c].query \in DOMAIN b.queries
      /\ s.kind \in {"insert", "values", "update", "merge"} => s.target.kind = "table"
      /\ s.kind = "update" => s.query \in DOMAIN b.queries
  BY BodyAssumption
<1>6. s.nested \in Seq((k + 1)..Len(b.statements))
  BY BodyAssumption
<1> QED BY <1>1, <1>2, <1>3, <1>4, <1>5, <1>6

-----------------------------------------------------------------------------
(* The statements that produce columns.                                    *)

\* The recursion of Leaves has a solution: what is nested in a statement comes after it.
LEMMA LeavesUnfold ==
  ASSUME NEW b \in Bodies
  PROVE  \A k \in DOMAIN b.statements :
           LeafTable(b)[k] = LeavesIn(b, k, LeafTable(b)) /\ IsSequence(LeafTable(b)[k])
<1> DEFINE N == Len(b.statements)
           V == Seq(Nat)
<1>1. DOMAIN b.statements = 1..N /\ N \in Nat
  <2>1. b.statements \in Seq(Statement)
    BY BodyAssumption
  <2> HIDE DEF Statement
  <2> QED BY <2>1
<1>2. \A k \in 1..N : b.statements[k].nested \in Seq((k + 1)..N)
  BY <1>1, StatementFacts
<1> HIDE DEF N
<1> DEFINE Rows(n, s) ==
             [i \in DOMAIN b.statements[N + 1 - n].nested |->
                LET j == N + 1 - b.statements[N + 1 - n].nested[i] IN IF j \in DOMAIN s THEN s[j] ELSE << >>]
           Row(n, s) ==
             IF Nests(b.statements[N + 1 - n]) THEN FlattenSeq(Rows(n, s))
             ELSE IF b.statements[N + 1 - n].kind \in {"try", "update", "delete"} THEN << >> ELSE <<N + 1 - n>>
           G == [n \in 1..N |-> [s \in Seq(V) |-> Row(n, s)]]
<1>3. ASSUME NEW n \in 1..N, NEW s \in Seq(V) PROVE Row(n, s) \in V
  <2>1. N + 1 - n \in 1..N /\ N + 1 - n \in Nat
    BY <1>1
  <2>2. ASSUME Nests(b.statements[N + 1 - n]) PROVE FlattenSeq(Rows(n, s)) \in V
    <3> DEFINE r == Rows(n, s)
               t == b.statements[N + 1 - n].nested
    <3>1. IsSequence(t)
      BY <1>2, <2>1 DEF IsSequence
    <3>2. \A i \in DOMAIN s : s[i] \in V
      <4> HIDE DEF V
      <4> QED OBVIOUS
    <3>3. \A i \in DOMAIN t : r[i] \in V
      <4>1. << >> \in V
        OBVIOUS
      <4> HIDE DEF V
      <4> QED BY <3>2, <4>1
    <3>4. r \in [DOMAIN t -> V]
      <4>1. r = [i \in DOMAIN t |-> r[i]]
        OBVIOUS
      <4> HIDE DEF r, V, t
      <4> QED BY <3>3, <4>1
    <3> HIDE DEF r, t
    <3>5. r \in Seq(V)
      <4>1. DOMAIN t = 1..Len(t) /\ Len(t) \in Nat
        BY <3>1, AnySequence
      <4> HIDE DEF V
      <4> QED BY <3>4, <4>1
    <3>6. FlattenSeq(r) \in Seq(Nat)
      BY <3>5, FlattenFacts
    <3> QED BY <3>6 DEF r
  <2>3. << >> \in V /\ <<N + 1 - n>> \in V
    BY <2>1
  <2> HIDE DEF V, Rows
  <2> QED BY <2>2, <2>3
<1>4. G \in [1..N -> [Seq(V) -> V]]
  <2> HIDE DEF V, Row
  <2> QED BY <1>3
<1>5. PICK g : Builds(g, V, G, N)
  <2> HIDE DEF V, G
  <2> QED BY <1>1, <1>4, DeepRuns
<1> DEFINE of == [k \in 1..N |-> g[N + 1 - k]]
<1>6. ASSUME NEW k \in 1..N PROVE of[k] = LeavesIn(b, k, of) /\ of[k] \in V
  <2> DEFINE n == N + 1 - k
             before == [i \in 1..(n - 1) |-> g[i]]
  <2>1. n \in 1..N /\ N + 1 - n = k
    BY <1>1
  <2>2. before \in Seq(V) /\ g[n] = G[n][before] /\ g[n] \in V
    <3> HIDE DEF V, G, n
    <3> QED BY <1>5, <2>1 DEF Builds
  <2>3. g[n] = Row(n, before)
    <3> HIDE DEF V, Row, n, before
    <3> QED BY <2>1, <2>2
  <2>4. ASSUME Nests(b.statements[k]) PROVE Rows(n, before) =
            [i \in DOMAIN b.statements[k].nested |-> of[b.statements[k].nested[i]]]
    <3> DEFINE t == b.statements[k].nested
    <3>1. \A i \in DOMAIN t : t[i] \in (k + 1)..N
      <4> DEFINE R == (k + 1)..N
      <4>1. t \in Seq(R)
        BY <1>2
      <4> HIDE DEF R, t
      <4>2. \A i \in DOMAIN t : t[i] \in R
        BY <4>1
      <4> QED BY <4>2 DEF R
    <3>2. \A i \in DOMAIN t : N + 1 - t[i] \in 1..(n - 1) /\ t[i] \in 1..N
      BY <1>1, <3>1
    <3>3. \A i \in DOMAIN t : before[N + 1 - t[i]] = of[t[i]] /\ N + 1 - t[i] \in DOMAIN before
      BY <3>2
    <3>4. Rows(n, before) = [i \in DOMAIN t |-> LET j == N + 1 - t[i] IN IF j \in DOMAIN before THEN before[j] ELSE << >>]
      BY <2>1
    <3> HIDE DEF of, t, before, Rows
    <3>5. Rows(n, before) = [i \in DOMAIN t |-> of[t[i]]]
      BY <3>3, <3>4
    <3> QED BY <3>5 DEF t
  <2>5. of[k] = g[n]
    OBVIOUS
  <2> HIDE DEF of, n, Rows, before
  <2>6. g[n] = LeavesIn(b, k, of)
    BY <2>1, <2>3, <2>4 DEF LeavesIn, Nests
  <2> QED BY <2>2, <2>5, <2>6
<1> DEFINE Step(h) ==
             [k \in DOMAIN b.statements |->
                LET s == b.statements[k]
                IN  IF s.kind \in {"block", "if", "while"} THEN FlattenSeq([i \in DOMAIN s.nested |-> h[s.nested[i]]])
                    ELSE IF s.kind \in {"try", "update", "delete"} THEN << >> ELSE <<k>>]
<1>7. of = Step(of)
  <2>1. of = [k \in 1..N |-> of[k]]
    OBVIOUS
  <2> HIDE DEF of
  <2> QED BY <1>1, <1>6, <2>1 DEF LeavesIn
<1>8. LeafTable(b) = CHOOSE h : h = Step(h)
  BY Zenon DEF LeafTable, Step
<1> HIDE DEF Step, of
<1>9. LeafTable(b) = Step(LeafTable(b))
  BY <1>7, <1>8, Zenon
<1> DEFINE l == LeafTable(b)
<1> HIDE DEF l
<1>10. \A k \in 1..N : l[k] = LeavesIn(b, k, l)
  BY <1>1, <1>9, Zenon DEF Step, LeavesIn, l
<1>11. ASSUME NEW k \in 1..N PROVE IsSequence(l[k])
  <2> DEFINE bad == {m \in 1..N : ~ IsSequence(l[N + 1 - m])}
  <2>1. SUFFICES ASSUME bad # {} PROVE FALSE
    <3>1. N + 1 - k \in 1..N /\ N + 1 - (N + 1 - k) = k
      BY <1>1
    <3> QED BY <3>1
  <2>2. PICK m \in bad : \A x \in bad : m <= x
    <3>1. bad \in SUBSET Nat
      OBVIOUS
    <3> HIDE DEF bad
    <3> QED BY <2>1, <3>1, LeastOf
  <2> DEFINE j == N + 1 - m
             t == b.statements[j].nested
  <2>3. m \in 1..N /\ j \in 1..N /\ ~ IsSequence(l[j])
    BY <1>1
  <2>4. IsSequence(t) /\ \A i \in DOMAIN t : t[i] \in (j + 1)..N
    <3> DEFINE R == (j + 1)..N
    <3>1. t \in Seq(R)
      BY <1>2, <2>3
    <3> HIDE DEF R, t
    <3>2. IsSequence(t) /\ \A i \in DOMAIN t : t[i] \in R
      BY <3>1, TypedSequence
    <3> QED BY <3>2 DEF R
  <2>5. \A i \in DOMAIN t : IsSequence(l[t[i]])
    <3> SUFFICES ASSUME NEW i \in DOMAIN t PROVE IsSequence(l[t[i]])
      OBVIOUS
    <3>1. t[i] \in (j + 1)..N
      BY <2>4
    <3>2. N + 1 - t[i] \in 1..N /\ ~ (m <= N + 1 - t[i]) /\ N + 1 - (N + 1 - t[i]) = t[i]
      BY <1>1, <2>3, <3>1
    <3>3. N + 1 - t[i] \notin bad
      BY <2>2, <3>2
    <3> QED BY <3>2, <3>3
  <2> DEFINE r == [i \in DOMAIN t |-> l[t[i]]]
  <2>6. IsSequence(FlattenSeq(r))
    <3>1. r = [i \in DOMAIN t |-> r[i]] /\ \A i \in DOMAIN t : IsSequence(r[i])
      BY <2>5
    <3> HIDE DEF r, t
    <3>2. IsSequence(r) /\ DOMAIN r = DOMAIN t
      BY <2>4, <3>1, AlongFacts
    <3> QED BY <3>1, <3>2, AnyFlatten
  <2>7. l[j] \in {FlattenSeq(r), << >>, <<j>>}
    BY <1>10, <2>3 DEF LeavesIn
  <2>8. IsSequence(<<j>>) /\ IsSequence(<< >>)
    BY AnySingle, AnyEmpty
  <2> HIDE DEF r, j
  <2> QED BY <2>3, <2>6, <2>7, <2>8
<1> QED BY <1>1, <1>10, <1>11 DEF l

-----------------------------------------------------------------------------
(* Statements are visited in order.                                        *)

\* What is owed for a list of statements is what is owed for its parts.
LEMMA OwingFacts ==
  ASSUME NEW b \in Bodies, NEW list \in Seq(DOMAIN b.statements)
  PROVE  /\ IsSequence(Owing(b, list)) /\ Owing(b, << >>) = << >>
         /\ \A more \in Seq(DOMAIN b.statements) : Owing(b, list \o more) = Owing(b, list) \o Owing(b, more)
         /\ \A k \in DOMAIN b.statements : Owing(b, <<k>>) = LeafTable(b)[k]
<1> DEFINE D == DOMAIN b.statements
           l == LeafTable(b)
<1>1. \A k \in D : IsSequence(l[k])
  BY LeavesUnfold
<1> HIDE DEF D, l
<1> DEFINE M(t) == [i \in DOMAIN t |-> l[t[i]]]
<1>2. ASSUME NEW t \in Seq(D)
      PROVE  IsSequence(M(t)) /\ DOMAIN M(t) = DOMAIN t /\ Len(M(t)) = Len(t) /\ \A i \in DOMAIN M(t) : IsSequence(M(t)[i])
  <2>1. IsSequence(t) /\ \A i \in DOMAIN t : t[i] \in D
    BY TypedSequence
  <2> DEFINE m == M(t)
  <2>2. m = [i \in DOMAIN t |-> m[i]] /\ \A i \in DOMAIN t : IsSequence(m[i])
    BY <1>1, <2>1
  <2> HIDE DEF m
  <2>3. IsSequence(m) /\ DOMAIN m = DOMAIN t /\ Len(m) = Len(t)
    BY <2>1, <2>2, AlongFacts
  <2> QED BY <2>2, <2>3 DEF m
<1>3. ASSUME NEW t \in Seq(D), NEW u \in Seq(D) PROVE M(t \o u) = M(t) \o M(u)
  <2>1. t \o u \in Seq(D) /\ Len(t \o u) = Len(t) + Len(u) /\ Len(t) \in Nat /\ Len(u) \in Nat
        /\ (\A i \in 1..Len(t) : (t \o u)[i] = t[i]) /\ (\A i \in 1..Len(u) : (t \o u)[Len(t) + i] = u[i])
        /\ DOMAIN t = 1..Len(t) /\ DOMAIN u = 1..Len(u) /\ DOMAIN (t \o u) = 1..(Len(t) + Len(u))
    BY ConcatFacts
  <2> DEFINE v == t \o u
             a == M(v)
             c == M(t)
             d == M(u)
             e == c \o d
  <2>2. IsSequence(a) /\ IsSequence(c) /\ IsSequence(d) /\ Len(a) = Len(t) + Len(u) /\ Len(c) = Len(t) /\ Len(d) = Len(u)
    BY <1>2, <2>1
  <2>3. /\ \A i \in 1..(Len(t) + Len(u)) : a[i] = l[v[i]]
        /\ \A i \in 1..Len(t) : c[i] = l[t[i]]
        /\ \A i \in 1..Len(u) : d[i] = l[u[i]]
    BY <2>1
  <2>v. (\A i \in 1..Len(t) : v[i] = t[i]) /\ (\A i \in 1..Len(u) : v[Len(t) + i] = u[i])
    BY <2>1
  <2> HIDE DEF v, a, c, d
  <2>4. IsSequence(e) /\ Len(e) = Len(c) + Len(d) /\ (\A i \in 1..Len(c) : e[i] = c[i]) /\
            \A i \in 1..Len(d) : e[Len(c) + i] = d[i]
    BY <2>2, AnyConcat
  <2> HIDE DEF e
  <2>5. ASSUME NEW i \in 1..Len(a) PROVE a[i] = e[i]
    <3>1. CASE i \in 1..Len(t)
      BY <2>1, <2>2, <2>3, <2>4, <2>v, <3>1
    <3>2. CASE i \notin 1..Len(t)
      <4>1. i - Len(t) \in 1..Len(u) /\ Len(t) + (i - Len(t)) = i /\ i \in 1..(Len(t) + Len(u))
        BY <2>1, <2>2, <3>2
      <4> DEFINE j == i - Len(t)
      <4>2. j \in 1..Len(u) /\ Len(t) + j = i
        BY <4>1
      <4> HIDE DEF j
      <4>3. v[i] = u[j] /\ e[i] = d[j]
        BY <2>2, <2>4, <2>v, <4>2
      <4> QED BY <2>3, <4>1, <4>2, <4>3
    <3> QED BY <3>1, <3>2
  <2>6. Len(a) = Len(e)
    BY <2>2, <2>4
  <2>7. a = e
    BY <2>2, <2>4, <2>5, <2>6, AnyEqual
  <2> QED BY <2>7 DEF a, e, c, d, v
<1>4. \A t : Owing(b, t) = FlattenSeq(M(t))
  BY DEF Owing, l
<1>5. IsSequence(Owing(b, list))
  <2>1. list \in Seq(D)
    BY DEF D
  <2>2. IsSequence(FlattenSeq(M(list)))
    <3> DEFINE m == M(list)
    <3>1. IsSequence(m) /\ \A i \in DOMAIN m : IsSequence(m[i])
      BY <1>2, <2>1
    <3> HIDE DEF m
    <3>2. IsSequence(FlattenSeq(m))
      BY <3>1, AnyFlatten
    <3> QED BY <3>2 DEF m
  <2> QED BY <1>4, <2>2
<1>6. Owing(b, << >>) = << >>
  <2>1. M(<< >>) = << >>
    OBVIOUS
  <2> HIDE DEF M
  <2> QED BY <1>4, <2>1, FlatEmpty
<1>7. ASSUME NEW more \in Seq(D) PROVE Owing(b, list \o more) = Owing(b, list) \o Owing(b, more)
  <2>1. list \in Seq(D)
    BY DEF D
  <2> DEFINE c == M(list)
             d == M(more)
  <2>2. IsSequence(c) /\ (\A i \in DOMAIN c : IsSequence(c[i])) /\ IsSequence(d) /\ (\A i \in DOMAIN d : IsSequence(d[i]))
    BY <1>2, <2>1
  <2>3. M(list \o more) = c \o d
    BY <1>3, <2>1
  <2>4. Owing(b, list \o more) = FlattenSeq(c \o d) /\ Owing(b, list) = FlattenSeq(c) /\ Owing(b, more) = FlattenSeq(d)
    BY <1>4, <2>3
  <2> HIDE DEF c, d, M
  <2>5. FlattenSeq(c \o d) = FlattenSeq(c) \o FlattenSeq(d)
    BY <2>2, FlatConcat
  <2> QED BY <2>4, <2>5
<1>8. ASSUME NEW k \in D PROVE Owing(b, <<k>>) = l[k]
  <2> DEFINE m == M(<<k>>)
             x == l[k]
  <2>1. m = <<x>>
    OBVIOUS
  <2>2. IsSequence(x)
    BY <1>1
  <2> HIDE DEF M, m
  <2>3. Append(<< >>, x) = <<x>>
    OBVIOUS
  <2> HIDE DEF x
  <2>4. FlattenSeq(Append(<< >>, x)) = FlattenSeq(<< >>) \o x
    <3>1. IsSequence(<< >>) /\ \A n \in DOMAIN << >> : IsSequence(<< >>[n])
      BY AnyEmpty
    <3> QED BY ONLY <2>2, <3>1, FlatAppend
  <2>5. << >> \o x = x
    BY <2>2, AnyUnit
  <2>6. FlattenSeq(m) = x
    BY <2>1, <2>3, <2>4, <2>5, FlatEmpty
  <2> QED BY <1>4, <2>6 DEF m, x
<1> QED BY <1>5, <1>6, <1>7, <1>8 DEF D, l

\* What is owed at a statement that is next.
LEMMA OwingNext ==
  ASSUME NEW b \in Bodies, NEW list \in Seq(DOMAIN b.statements), list # << >>
  PROVE  /\ Head(list) \in DOMAIN b.statements /\ Tail(list) \in Seq(DOMAIN b.statements)
         /\ Owing(b, list) = LeafTable(b)[Head(list)] \o Owing(b, Tail(list))
         /\ IsSequence(LeafTable(b)[Head(list)]) /\ IsSequence(Owing(b, Tail(list)))
<1> DEFINE D == DOMAIN b.statements
           k == Head(list)
           t == Tail(list)
<1>1. k \in D /\ t \in Seq(D) /\ <<k>> \in Seq(D) /\ <<k>> \o t = list
  <2>1. list \in Seq(D) /\ list # << >>
    OBVIOUS
  <2> HIDE DEF D
  <2>2. Head(list) \in D /\ Tail(list) \in Seq(D)
    BY <2>1
  <2>3. <<Head(list)>> \in Seq(D) /\ <<Head(list)>> \o Tail(list) = list
    BY <2>1, <2>2
  <2> QED BY <2>2, <2>3
<1> HIDE DEF k, t
<1>2. Owing(b, <<k>> \o t) = Owing(b, <<k>>) \o Owing(b, t) /\ Owing(b, <<k>>) = LeafTable(b)[k]
  BY <1>1, OwingFacts DEF D
<1>3. IsSequence(LeafTable(b)[k]) /\ IsSequence(Owing(b, t))
  BY <1>1, LeavesUnfold, OwingFacts DEF D
<1> QED BY <1>1, <1>2, <1>3 DEF k, t, D

\* Nothing is told at the start.
LEMMA OrderInit == Init => OrderInv
<1> SUFFICES ASSUME Init PROVE OrderInv
  OBVIOUS
<1>1. body \in Bodies /\ pc = "statements" /\ pending = body.top /\ results = << >>
  BY DEF Init
<1>2. body.top \in Seq(DOMAIN body.statements)
  BY <1>1, BodyAssumption
<1>3. Told = << >>
  BY <1>1 DEF Told
<1>4. Owing(body, pending) = Leaves
  <2>1. Owing(body, body.top) = Leaves
    BY Zenon DEF Owing, Leaves, LeafTable
  <2> QED BY <1>1, <2>1
<1>5. IsSequence(Owing(body, pending))
  BY <1>1, <1>2, OwingFacts
<1>6. << >> \o << >> \o Owing(body, pending) = Owing(body, pending)
  BY <1>5, AnyUnit, AnyEmpty
<1>7. ~Busy /\ pc \in Labels /\ pc # "done" /\ pc # "raised"
  BY <1>1 DEF Busy, Labels
<1>8. Told \o (IF Busy THEN <<current>> ELSE << >>) \o Owing(body, pending) = Leaves
  BY <1>3, <1>4, <1>6, <1>7
<1>9. IsSequence(results)
  BY <1>1, AnyEmpty
<1> QED BY <1>1, <1>2, <1>7, <1>8, <1>9 DEF OrderInv

\* Told is a sequence.
LEMMA ToldFacts ==
  ASSUME IsSequence(results)
  PROVE  IsSequence(Told) /\ Len(Told) = Len(results)
<1> DEFINE m == Told
<1>1. m = [i \in DOMAIN results |-> m[i]]
  BY DEF Told
<1> HIDE DEF m
<1>2. IsSequence(m) /\ Len(m) = Len(results)
  BY <1>1, AlongFacts
<1> QED BY <1>2 DEF m

\* One more result.
LEMMA ToldGrows ==
  ASSUME IsSequence(results), NEW maps, results' = Append(results, [statement |-> current, maps |-> maps])
  PROVE  Told' = Told \o <<current>> /\ IsSequence(results')
<1> DEFINE r == [statement |-> current, maps |-> maps]
           a == Append(results, r)
           m == [i \in DOMAIN a |-> a[i].statement]
           e == <<current>>
           w == Told \o e
<1>1. r.statement = current
  OBVIOUS
<1> HIDE DEF r
<1>2. /\ IsSequence(a) /\ Len(results) \in Nat /\ Len(a) = Len(results) + 1
      /\ (\A i \in 1..Len(results) : a[i] = results[i]) /\ a[Len(results) + 1] = r
  BY AnyAppend
<1>3. results' = a
  BY DEF r
<1> HIDE DEF a
<1>4. m = [i \in DOMAIN a |-> m[i]] /\ \A i \in DOMAIN a : m[i] = a[i].statement
  OBVIOUS
<1>5. Told' = m
  BY <1>3 DEF Told
<1> HIDE DEF m
<1>6. IsSequence(m) /\ Len(m) = Len(results) + 1 /\ DOMAIN a = 1..(Len(results) + 1)
  BY <1>2, <1>4, AlongFacts, AnySequence
<1>7. IsSequence(Told) /\ Len(Told) = Len(results) /\ \A i \in 1..Len(results) : Told[i] = results[i].statement
  <2>1. DOMAIN results = 1..Len(results)
    BY AnySequence
  <2> QED BY <2>1, ToldFacts DEF Told
<1>8. IsSequence(e) /\ Len(e) = 1 /\ e[1] = current
  <2>1. 1 \in 1..1
    OBVIOUS
  <2> QED BY <2>1, AnySingle
<1> HIDE DEF e
<1>9. IsSequence(w) /\ Len(w) = Len(Told) + 1 /\ (\A i \in 1..Len(Told) : w[i] = Told[i]) /\ w[Len(Told) + 1] = e[1]
  <2>1. 1 \in 1..Len(e)
    BY <1>8
  <2>2. /\ IsSequence(w) /\ Len(w) = Len(Told) + Len(e) /\ (\A i \in 1..Len(Told) : w[i] = Told[i])
        /\ \A i \in 1..Len(e) : w[Len(Told) + i] = e[i]
    <3> DEFINE u == Told
    <3>1. IsSequence(u) /\ IsSequence(e) /\ w = u \o e
      BY <1>7, <1>8
    <3> HIDE DEF u, w
    <3>2. /\ IsSequence(w) /\ Len(w) = Len(u) + Len(e) /\ (\A i \in 1..Len(u) : w[i] = u[i])
          /\ \A i \in 1..Len(e) : w[Len(u) + i] = e[i]
      BY ONLY <3>1, AnyConcat
    <3> QED BY <3>2 DEF u
  <2> HIDE DEF w
  <2> QED BY <1>8, <2>1, <2>2
<1> HIDE DEF w
<1>10. \A i \in 1..Len(m) : m[i] = w[i]
  <2> SUFFICES ASSUME NEW i \in 1..Len(m) PROVE m[i] = w[i]
    OBVIOUS
  <2>1. i \in 1..Len(results) \/ i = Len(results) + 1
    BY <1>2, <1>6
  <2>2. i \in DOMAIN a
    BY <1>6
  <2>3. CASE i \in 1..Len(results)
    BY <1>2, <1>4, <1>7, <1>9, <2>2, <2>3
  <2>4. CASE i = Len(results) + 1
    BY <1>1, <1>2, <1>4, <1>7, <1>8, <1>9, <2>2, <2>4
  <2> QED BY <2>1, <2>3, <2>4
<1>11. m = w
  <2>1. Len(m) = Len(w)
    BY <1>6, <1>7, <1>9
  <2> QED BY <1>6, <1>9, <1>10, <2>1, AnyEqual
<1> QED BY <1>2, <1>3, <1>5, <1>11 DEF w, e

\* Every step keeps the statements in order.
LEMMA OrderKept ==
  ASSUME OrderInv, [Next]_vars
  PROVE  OrderInv'
<1>body. body' = body
  BY Zenon DEF Next, vars, Unfold, StartStatement, AllDone, SkipValues, OpenStatementQuery, BindTable, SkipTable, OpenDerived,
       BindDerived, CollectJoinCondition, MapScalar, ExpandStar, SkipElement, Return, Overflow, OpenBranch, LeftDone,
       RightDone, RegisterCte, FinishStatement
<1>list. body \in Bodies /\ pending \in Seq(DOMAIN body.statements) /\ IsSequence(results)
  BY DEF OrderInv
<1>told. IsSequence(Told)
  BY <1>list, ToldFacts
<1>leaves. Leaves' = Leaves
  BY <1>body DEF Leaves
\* A step on the way through a statement.
<1>on. ASSUME Busy, Busy', pc' \in Labels, pending' = pending, current' = current, results' = results PROVE OrderInv'
  BY <1>on, <1>body, <1>leaves DEF Told, Owing, Busy, OrderInv
\* One that ends it, with a result.
<1>end. ASSUME Busy, pc' = "statements", pending' = pending, NEW maps,
               results' = Append(results, [statement |-> current, maps |-> maps])
        PROVE  OrderInv'
  <2>1. Told' = Told \o <<current>> /\ IsSequence(results')
    BY <1>end, <1>list, ToldGrows
  <2>2. Owing(body, pending)' = Owing(body, pending)
    BY <1>end, <1>body DEF Owing
  <2>3. ~Busy' /\ pc # "raised" /\ pc' \in Labels /\ pc' # "done"
    BY <1>end DEF Busy, Labels
  <2>4. Told \o <<current>> \o Owing(body, pending) = Leaves
    BY <1>end, <2>3 DEF OrderInv
  <2> DEFINE u == Told \o <<current>>
  <2>5. u \o << >> = u
    BY <1>told, AnyUnit, AnySingle, AnyConcat
  <2> HIDE DEF u
  <2>6. Told' \o << >> \o Owing(body, pending) = Leaves
    BY <2>1, <2>4, <2>5 DEF u
  <2>7. (Told \o (IF Busy THEN <<current>> ELSE << >>) \o Owing(body, pending) = Leaves)'
    BY <1>leaves, <2>2, <2>3, <2>6
  <2> QED BY <1>end, <1>body, <1>list, <2>1, <2>3, <2>7 DEF OrderInv
<1>0. ASSUME UNCHANGED vars PROVE OrderInv'
  BY <1>0, <1>leaves DEF vars, OrderInv, Busy, Told, Owing
<1>1. ASSUME Unfold PROVE OrderInv'
  <2> DEFINE k == Head(pending)
             s == body.statements[k]
             more == IF s.kind \in {"block", "if", "while"} THEN s.nested ELSE << >>
             t == Tail(pending)
  <2>1. pc = "statements" /\ pc' = pc /\ pending # << >> /\ pending' = more \o t /\ results' = results
        /\ s.kind \in {"block", "if", "while", "try", "update", "delete"}
    BY <1>1, Zenon DEF Unfold
  <2>2. k \in DOMAIN body.statements /\ t \in Seq(DOMAIN body.statements)
        /\ Owing(body, pending) = LeafTable(body)[k] \o Owing(body, t)
    BY <1>list, <2>1, OwingNext
  <2>3. more \in Seq(DOMAIN body.statements)
    <3>1. s.nested \in Seq((k + 1)..Len(body.statements)) /\ DOMAIN body.statements = 1..Len(body.statements)
      BY <1>list, <2>2, StatementFacts
    <3>2. (k + 1)..Len(body.statements) \subseteq DOMAIN body.statements
      BY <2>2, <3>1
    <3> DEFINE R == (k + 1)..Len(body.statements)
               D == DOMAIN body.statements
               n == s.nested
    <3>3. n \in Seq(R) /\ R \subseteq D
      BY <3>1, <3>2
    <3> HIDE DEF R, D, n
    <3>4. n \in Seq(D) /\ << >> \in Seq(D)
      BY <3>3
    <3> QED BY <3>4 DEF D, n
  <2>4. Owing(body, more) = LeafTable(body)[k]
    <3>1. CASE s.kind \in {"block", "if", "while"}
      BY <1>list, <2>2, <3>1, LeavesUnfold DEF LeavesIn, Owing
    <3>2. CASE s.kind \notin {"block", "if", "while"}
      <4>1. Owing(body, << >>) = << >>
        BY <1>list, OwingFacts
      <4> QED BY <1>list, <2>1, <2>2, <3>2, <4>1, LeavesUnfold DEF LeavesIn
    <3> QED BY <3>1, <3>2
  <2> HIDE DEF more, t
  <2>5. Owing(body, more \o t) = Owing(body, more) \o Owing(body, t) /\ more \o t \in Seq(DOMAIN body.statements)
    <3> DEFINE D == DOMAIN body.statements
    <3>1. more \in Seq(D) /\ t \in Seq(D)
      BY <2>2, <2>3
    <3> HIDE DEF D
    <3>2. more \o t \in Seq(D)
      BY <3>1
    <3> QED BY <1>list, <2>2, <2>3, <3>2, OwingFacts DEF D
  <2>6. Owing(body, pending)' = Owing(body, pending)
    <3>1. Owing(body, pending)' = Owing(body, more \o t)
      BY <1>body, <2>1 DEF Owing, LeafTable
    <3> QED BY <2>2, <2>4, <2>5, <3>1 DEF t
  <2>7. ~Busy /\ ~Busy' /\ pc # "raised" /\ pc' # "done" /\ pc' \in Labels
    BY <2>1 DEF Busy, Labels
  <2>8. Told' = Told
    BY <2>1 DEF Told
  <2> QED BY <1>body, <1>list, <1>leaves, <2>1, <2>5, <2>6, <2>7, <2>8, Zenon DEF OrderInv
<1>2. ASSUME StartStatement PROVE OrderInv'
  <2> DEFINE k == Head(pending)
             s == body.statements[k]
             t == Tail(pending)
  <2>1. pc = "statements" /\ pc' \in {"ctes", "no source", "visit"} /\ pending # << >> /\ pending' = t /\ results' = results
        /\ s.kind \in {"select", "ctas", "insert", "values", "merge"} /\ current' = k
    BY <1>2 DEF StartStatement
  <2>2. k \in DOMAIN body.statements /\ t \in Seq(DOMAIN body.statements)
        /\ Owing(body, pending) = LeafTable(body)[k] \o Owing(body, t)
        /\ IsSequence(Owing(body, t))
    BY <1>list, <2>1, OwingNext
  <2>3. LeafTable(body)[k] = <<k>>
    BY <1>list, <2>1, <2>2, LeavesUnfold DEF LeavesIn
  <2>4. ~Busy /\ Busy' /\ pc # "raised" /\ pc' # "done" /\ pc' \in Labels
    BY <2>1 DEF Busy, Labels
  <2>5. Told' = Told /\ Owing(body, pending)' = Owing(body, t)
    BY <2>1, <1>body DEF Told, Owing
  <2> HIDE DEF t, s, k
  <2>6. Told \o << >> \o (<<k>> \o Owing(body, t)) = Leaves
    BY <2>2, <2>3, <2>4 DEF OrderInv
  <2> DEFINE o == Owing(body, t)
             e == <<k>>
  <2>7. IsSequence(o) /\ IsSequence(e)
    BY <2>2, AnySingle
  <2>e. Told \o << >> \o (e \o o) = Leaves
    BY <2>6
  <2> HIDE DEF o, e
  <2>8. Told \o << >> = Told /\ (Told \o e) \o o = Told \o (e \o o)
    BY <1>told, <2>7, AnyUnit, AnyRegroup
  <2>9. (Told \o (IF Busy THEN <<current>> ELSE << >>) \o Owing(body, pending) = Leaves)'
    <3>1. (Told \o e) \o o = Leaves
      BY <2>e, <2>8
    <3> QED BY <1>leaves, <2>1, <2>4, <2>5, <3>1 DEF o, e
  <2> QED BY <1>body, <1>list, <2>1, <2>2, <2>4, <2>9 DEF OrderInv
<1>3. ASSUME AllDone PROVE OrderInv'
  BY <1>3, <1>body, <1>leaves DEF AllDone, Busy, Labels, Told, Owing, OrderInv
<1>4. ASSUME SkipValues PROVE OrderInv'
  BY <1>4, <1>end DEF SkipValues, Busy
<1>5. ASSUME OpenStatementQuery PROVE OrderInv'
  BY <1>5, <1>on DEF OpenStatementQuery, Busy, Labels
<1>6. ASSUME BindTable PROVE OrderInv'
  BY <1>6, <1>on DEF BindTable, InFrom, Busy, Labels
<1>7. ASSUME SkipTable PROVE OrderInv'
  BY <1>7, <1>on DEF SkipTable, InFrom, Busy, Labels
<1>8. ASSUME OpenDerived PROVE OrderInv'
  BY <1>8, <1>on DEF OpenDerived, InFrom, Busy, Labels
<1>9. ASSUME BindDerived PROVE OrderInv'
  BY <1>9, <1>on DEF BindDerived, Busy, Labels
<1>10. ASSUME CollectJoinCondition PROVE OrderInv'
  BY <1>10, <1>on DEF CollectJoinCondition, Busy, Labels
<1>11. ASSUME MapScalar PROVE OrderInv'
  BY <1>11, <1>on DEF MapScalar, InSelect, Busy, Labels
<1>12. ASSUME ExpandStar PROVE OrderInv'
  BY <1>12, <1>on DEF ExpandStar, InSelect, Busy, Labels
<1>13. ASSUME SkipElement PROVE OrderInv'
  BY <1>13, <1>on DEF SkipElement, InSelect, Busy, Labels
<1>14. ASSUME Return PROVE OrderInv'
  BY <1>14, <1>on DEF Return, Busy, Labels
<1>15. ASSUME Overflow PROVE OrderInv'
  BY <1>15, <1>body, <1>list DEF Overflow, OrderInv, Busy, Labels, AtEnd
<1>16. ASSUME OpenBranch PROVE OrderInv'
  BY <1>16, <1>on DEF OpenBranch, Busy, Labels
<1>17. ASSUME LeftDone PROVE OrderInv'
  BY <1>17, <1>on DEF LeftDone, Busy, Labels
<1>18. ASSUME RightDone PROVE OrderInv'
  BY <1>18, <1>on DEF RightDone, Busy, Labels
<1>19. ASSUME RegisterCte PROVE OrderInv'
  BY <1>19, <1>on DEF RegisterCte, Busy, Labels
<1>20. ASSUME FinishStatement PROVE OrderInv'
  BY <1>20, <1>end DEF FinishStatement, AtEnd, Busy
<1> QED BY <1>0, <1>1, <1>2, <1>3, <1>4, <1>5, <1>6, <1>7, <1>8, <1>9, <1>10, <1>11, <1>12, <1>13, <1>14, <1>15, <1>16,
     <1>17, <1>18, <1>19, <1>20 DEF Next

\* Every statement that produces columns is visited once, in the order of the text,
\* however deep the blocks, IFs and WHILEs around it.
THEOREM StatementsAlwaysInOrder == Spec => []StatementsInOrder
<1>1. OrderInv => StatementsInOrder
  <2> SUFFICES ASSUME OrderInv, pc = "done" PROVE Told = Leaves
    BY DEF StatementsInOrder, Told
  <2>1. ~Busy /\ pending = << >> /\ body \in Bodies /\ IsSequence(Told)
    BY ToldFacts DEF OrderInv, Busy
  <2>2. Owing(body, pending) = << >>
    <3>1. << >> \in Seq(DOMAIN body.statements)
      OBVIOUS
    <3> QED BY <2>1, <3>1, OwingFacts
  <2>3. Told \o << >> \o << >> = Leaves
    BY <2>1, <2>2 DEF OrderInv
  <2>4. Told \o << >> = Told
    BY <2>1, AnyUnit
  <2> QED BY <2>3, <2>4
<1>2. OrderInv /\ [Next]_vars => OrderInv'
  BY OrderKept
<1> QED BY OrderInit, <1>1, <1>2, PTL DEF Spec

-----------------------------------------------------------------------------
(* Tracing virtual columns.                                                *)

\* The recursion of Endless has a solution.
LEMMA EndlessUnfolds ==
  ASSUME Depth \in Nat, NEW cols
  PROVE  \E reached : ReachedIn(cols, reached) /\ (Endless(cols) <=> \E c \in reached[Depth] : Known(c))
<1> DEFINE Z == cols \cup UNION {UNION {expansions[o][n] : n \in DOMAIN expansions[o]} : o \in DOMAIN expansions}
           V == SUBSET Z
           N == Depth
           Go(cs) == UNION {SourcesOf(c) : c \in cs}
           F == [k \in 1..N |-> [cs \in V |-> Go(cs)]]
<1>1. \A c : SourcesOf(c) \subseteq Z
  BY DEF SourcesOf, Known
<1> HIDE DEF Z
<1>2. \A cs : Go(cs) \in V
  BY <1>1
<1> HIDE DEF Go, N
<1>3. cols \in V /\ N \in Nat
  BY DEF Z, N
<1>4. F \in [1..N -> [V -> V]]
  <2> HIDE DEF V
  <2> QED BY <1>2
<1>5. PICK h : IsLoop(h, V, cols, N, F)
  <2> HIDE DEF F, V
  <2> QED BY <1>3, <1>4, LoopRuns
<1>6. h \in [0..N -> V] /\ h[0] = cols /\ \A k \in 1..N : h[k] = Go(h[k - 1])
  <2>1. \A k \in 1..N : k - 1 \in 0..N
    BY <1>3
  <2>2. h \in [0..N -> V] /\ h[0] = cols /\ \A k \in 1..N : h[k] = F[k][h[k - 1]]
    <3> HIDE DEF F, V
    <3> QED BY <1>5 DEF IsLoop
  <2> HIDE DEF V
  <2> QED BY <2>1, <2>2
<1> DEFINE Step(r) == [k \in 0..N |-> IF k = 0 THEN cols ELSE Go(r[k - 1])]
<1>7. h = Step(h)
  BY <1>6, <1>3
<1> DEFINE reached == CHOOSE r : r = Step(r)
<1>8. Endless(cols) <=> \E c \in reached[N] : Known(c)
  BY Zenon DEF Endless, reached, Step, N, Go
<1> HIDE DEF Step
<1>9. reached = Step(reached)
  BY <1>7, Zenon
<1> HIDE DEF reached
<1>10. /\ DOMAIN reached = 0..N /\ reached[0] = cols
       /\ \A k \in 1..N : reached[k] = Go(reached[k - 1])
  BY <1>3, <1>9 DEF Step
<1>11. ReachedIn(cols, reached)
  BY <1>10 DEF ReachedIn, N, Go
<1> QED BY <1>8, <1>11 DEF N

\* That of Trace too.
LEMMA TraceUnfolds ==
  ASSUME Depth \in Nat, NEW cols
  PROVE  \E to : TracedTo(cols, to) /\ Trace(cols) = to[Depth]
<1> DEFINE Z == cols \cup UNION {UNION {expansions[o][n] : n \in DOMAIN expansions[o]} : o \in DOMAIN expansions}
           V == SUBSET Z
           N == Depth
           Go(cs) == UNION {IF SourcesOf(c) = {} THEN {c} ELSE SourcesOf(c) : c \in cs}
           F == [k \in 1..N |-> [cs \in V |-> Go(cs)]]
<1>1. \A c : SourcesOf(c) \subseteq Z
  BY DEF SourcesOf, Known
<1> HIDE DEF Z
<1>2. \A cs \in V : Go(cs) \in V
  BY <1>1
<1> HIDE DEF Go, N
<1>3. cols \in V /\ N \in Nat
  BY DEF Z, N
<1>4. F \in [1..N -> [V -> V]]
  <2> HIDE DEF V
  <2> QED BY <1>2
<1>5. PICK h : IsLoop(h, V, cols, N, F)
  <2> HIDE DEF F, V
  <2> QED BY <1>3, <1>4, LoopRuns
<1>6. h \in [0..N -> V] /\ h[0] = cols /\ \A k \in 1..N : h[k] = Go(h[k - 1])
  <2>1. \A k \in 1..N : k - 1 \in 0..N
    BY <1>3
  <2>2. h \in [0..N -> V] /\ h[0] = cols /\ \A k \in 1..N : h[k] = F[k][h[k - 1]]
    <3> HIDE DEF F, V
    <3> QED BY <1>5 DEF IsLoop
  <2> HIDE DEF V
  <2> QED BY <2>1, <2>2
<1> DEFINE Step(r) == [k \in 0..N |-> IF k = 0 THEN cols ELSE Go(r[k - 1])]
<1>7. h = Step(h)
  BY <1>6, <1>3
<1> DEFINE to == CHOOSE r : r = Step(r)
<1>8. Trace(cols) = to[N]
  BY Zenon DEF Trace, to, Step, N, Go
<1> HIDE DEF Step
<1>9. to = Step(to)
  BY <1>7, Zenon
<1> HIDE DEF to
<1>10. /\ DOMAIN to = 0..N /\ to[0] = cols
       /\ \A k \in 1..N : to[k] = Go(to[k - 1])
  BY <1>3, <1>9 DEF Step
<1>11. TracedTo(cols, to)
  BY <1>10 DEF TracedTo, N, Go
<1> QED BY <1>8, <1>11 DEF N

\* There are finitely many of them.
LEMMA DepthFacts ==
  ASSUME Registered
  PROVE  IsFiniteSet(Pairs) /\ Depth = Cardinality(Pairs) /\ Depth \in Nat
<1> DEFINE D == DOMAIN expansions
           P(o) == {<<o, n>> : n \in DOMAIN expansions[o]}
           Z == {P(o) : o \in D}
<1>1. IsFiniteSet(D)
  BY DEF Registered
<1>2. ASSUME NEW o \in D PROVE IsFiniteSet(P(o))
  <2> DEFINE I == DOMAIN expansions[o]
             f == [n \in I |-> <<o, n>>]
  <2>1. IsFiniteSet(I)
    <3>1. I = 1..Len(expansions[o]) /\ Len(expansions[o]) \in Nat
      BY <1>2, AnySequence DEF Registered
    <3> QED BY <3>1, FS_Interval
  <2>2. P(o) = {f[n] : n \in I}
    OBVIOUS
  <2>3. f \in [I -> P(o)] /\ \A p \in P(o) : \E n \in I : f[n] = p
    OBVIOUS
  <2> HIDE DEF f, I, P
  <2>4. f \in Surjection(I, P(o))
    BY <2>3 DEF Surjection
  <2> QED BY <2>1, <2>4, FS_Surjection
<1> HIDE DEF P
<1>3. IsFiniteSet(Z)
  <2> DEFINE g == [o \in D |-> P(o)]
  <2>1. g \in [D -> Z] /\ \A p \in Z : \E o \in D : g[o] = p
    OBVIOUS
  <2> HIDE DEF g, Z, D
  <2>2. g \in Surjection(D, Z)
    BY <2>1 DEF Surjection
  <2> QED BY <1>1, <2>2, FS_Surjection
<1>4. IsFiniteSet(UNION Z)
  <2>1. \A p \in Z : IsFiniteSet(p)
    BY <1>2
  <2> HIDE DEF Z
  <2> QED BY <1>3, <2>1, FS_UNION
<1>5. UNION Z = Pairs /\ Depth = Cardinality(Pairs)
  BY DEF Pairs, P, Depth
<1> HIDE DEF Z
<1> QED BY <1>4, <1>5, FS_CardinalityType

-----------------------------------------------------------------------------
(* Names registered once: what a name stands for was known before it.      *)

\* A real column that is known is of a registered name, as are its sources.
LEMMA RealKnown ==
  ASSUME Registered, NEW R, NEW rank, Grounded(R, rank, expansions), NEW c, Real(c, R)
  PROVE  /\ Known(c) => c.owner \in R /\ <<c.owner, c.ordinal>> \in Pairs
         /\ \A d \in SourcesOf(c) : Known(c) /\ Real(d, R) /\ (d.owner \in R => rank[c.owner] < rank[d.owner])
<1>1. ASSUME Known(c) PROVE c.owner \in R /\ <<c.owner, c.ordinal>> \in Pairs
  BY <1>1 DEF Known, Registered, Real, IsVirtual, Pairs
<1>2. ASSUME NEW d \in SourcesOf(c)
      PROVE  Known(c) /\ Real(d, R) /\ (d.owner \in R => rank[c.owner] < rank[d.owner])
  BY <1>2, <1>1 DEF SourcesOf, Known, Grounded
<1> QED BY <1>1, <1>2

\* Tracing real columns ends.
LEMMA TracingEnds ==
  ASSUME Registered, NEW R, NEW rank, Grounded(R, rank, expansions), NEW cols, \A c \in cols : Real(c, R)
  PROVE  ~Endless(cols)
<1>1. IsFiniteSet(Pairs) /\ Depth = Cardinality(Pairs) /\ Depth \in Nat
  BY DepthFacts
<1>2. PICK reached : ReachedIn(cols, reached) /\ (Endless(cols) <=> \E c \in reached[Depth] : Known(c))
  BY <1>1, EndlessUnfolds
<1> DEFINE N == Depth
           good == {k \in 0..N : \A c \in reached[k] : Real(c, R) /\ (Known(c) => \E T : Trail(c, T, k, R, rank))}
<1> HIDE DEF N
<1>n. N \in Nat /\ N = Cardinality(Pairs) /\ rank \in [R -> Nat]
  BY <1>1 DEF N, Grounded
<1>3. 0 \in good
  <2>1. reached[0] = cols
    BY <1>2 DEF ReachedIn
  <2>2. ASSUME NEW c \in cols, Known(c) PROVE \E T : Trail(c, T, 0, R, rank)
    <3> DEFINE p == <<c.owner, c.ordinal>>
               T == {p}
    <3>1. p \in Pairs /\ c.owner \in R
      BY <2>2, RealKnown
    <3>2. p[1] = c.owner /\ rank[c.owner] \in Nat
      BY <1>n, <3>1
    <3> HIDE DEF p
    <3>3. IsFiniteSet(T) /\ Cardinality(T) = 1
      BY FS_Singleton
    <3>4. Trail(c, T, 0, R, rank)
      BY <3>1, <3>2, <3>3 DEF Trail
    <3> QED BY <3>4
  <2> QED BY <1>n, <2>1, <2>2
<1>4. ASSUME NEW k \in 1..N, k - 1 \in good PROVE k \in good
  <2>1. reached[k] = UNION {SourcesOf(c) : c \in reached[k - 1]}
    BY <1>2, <1>4 DEF ReachedIn, N
  <2>2. \A c \in reached[k - 1] : Real(c, R) /\ (Known(c) => \E T : Trail(c, T, k - 1, R, rank))
    BY <1>4
  <2>3. ASSUME NEW d \in reached[k] PROVE Real(d, R) /\ (Known(d) => \E T : Trail(d, T, k, R, rank))
    <3>1. PICK c \in reached[k - 1] : d \in SourcesOf(c)
      BY <2>1, <2>3
    <3>2. Real(c, R) /\ Known(c) /\ Real(d, R) /\ (d.owner \in R => rank[c.owner] < rank[d.owner]) /\ c.owner \in R
      BY <2>2, <3>1, RealKnown
    <3>3. ASSUME Known(d) PROVE \E T : Trail(d, T, k, R, rank)
      <4> DEFINE p == <<d.owner, d.ordinal>>
      <4>1. p \in Pairs /\ d.owner \in R
        BY <3>2, <3>3, RealKnown
      <4>2. rank[c.owner] < rank[d.owner] /\ rank[c.owner] \in Nat /\ rank[d.owner] \in Nat /\ p[1] = d.owner
        BY <1>n, <3>2, <4>1
      <4>3. PICK U : Trail(c, U, k - 1, R, rank)
        BY <2>2, <3>2
      <4> HIDE DEF p
      <4>4. p \notin U
        <5> SUFFICES ASSUME p \in U PROVE FALSE
          OBVIOUS
        <5>1. rank[d.owner] <= rank[c.owner]
          BY <4>2, <4>3 DEF Trail
        <5> QED BY <4>2, <5>1
      <4> DEFINE T == U \cup {p}
      <4>5. IsFiniteSet(T) /\ Cardinality(T) = Cardinality(U) + 1
        BY <4>3, <4>4, FS_AddElement DEF Trail
      <4>6. Cardinality(T) = k + 1
        BY <1>n, <4>3, <4>5 DEF Trail
      <4>7. \A q \in U : q[1] \in R /\ rank[q[1]] \in Nat /\ rank[q[1]] <= rank[c.owner]
        BY <1>n, <4>3 DEF Trail
      <4>8. \A q \in T : q[1] \in R /\ rank[q[1]] <= rank[d.owner]
        BY <4>1, <4>2, <4>7
      <4>9. T \subseteq Pairs
        BY <4>1, <4>3 DEF Trail
      <4> HIDE DEF T
      <4>10. Trail(d, T, k, R, rank)
        BY <4>5, <4>6, <4>8, <4>9 DEF Trail
      <4> QED BY <4>10
    <3> QED BY <3>2, <3>3
  <2>4. k \in 0..N
    BY <1>n
  <2> QED BY <2>3, <2>4
<1>5. N \in good
  <2>1. \A k \in 1..N : k - 1 \in good => k \in good
    BY <1>4
  <2>2. N \in 0..N
    BY <1>n
  <2> HIDE DEF good
  <2> QED BY <1>n, <1>3, <2>1, <2>2, Induct
<1>6. ASSUME NEW c \in reached[N], Known(c) PROVE FALSE
  <2>1. PICK T : Trail(c, T, N, R, rank)
    BY <1>5, <1>6
  <2>2. T \subseteq Pairs /\ Cardinality(T) = N + 1
    BY <2>1 DEF Trail
  <2>3. Cardinality(T) <= Cardinality(Pairs)
    BY <1>1, <2>2, FS_Subset
  <2> QED BY <1>n, <2>2, <2>3
<1> QED BY <1>2, <1>6 DEF N

\* What real columns are traced to is real.
LEMMA TracedIsReal ==
  ASSUME Registered, NEW R, NEW rank, Grounded(R, rank, expansions), NEW cols, \A c \in cols : Real(c, R)
  PROVE  \A c \in Trace(cols) : Real(c, R)
<1>1. Depth \in Nat
  BY DepthFacts
<1>2. PICK to : TracedTo(cols, to) /\ Trace(cols) = to[Depth]
  BY <1>1, TraceUnfolds
<1> DEFINE N == Depth
           good == {k \in 0..N : \A c \in to[k] : Real(c, R)}
<1> HIDE DEF N
<1>n. N \in Nat
  BY <1>1 DEF N
<1>3. 0 \in good
  BY <1>2, <1>n DEF TracedTo
<1>4. ASSUME NEW k \in 1..N, k - 1 \in good PROVE k \in good
  <2>1. to[k] = UNION {IF SourcesOf(c) = {} THEN {c} ELSE SourcesOf(c) : c \in to[k - 1]}
    BY <1>2, <1>4 DEF TracedTo, N
  <2>2. ASSUME NEW d \in to[k] PROVE Real(d, R)
    <3>1. PICK c \in to[k - 1] : d = c \/ d \in SourcesOf(c)
      BY <2>1, <2>2
    <3>2. Real(c, R)
      BY <1>4, <3>1
    <3> QED BY <3>1, <3>2, RealKnown
  <2> QED BY <1>4, <1>n, <2>2
<1>5. N \in good
  <2>1. \A k \in 1..N : k - 1 \in good => k \in good
    BY <1>4
  <2>2. N \in 0..N
    BY <1>n
  <2> HIDE DEF good
  <2> QED BY <1>n, <1>3, <2>1, <2>2, Induct
<1> QED BY <1>2, <1>5 DEF N

-----------------------------------------------------------------------------
(* The queries of a statement.                                             *)

\* What a query of a statement is made of.
LEMMA LevelFacts ==
  ASSUME body \in Bodies, NEW k \in DOMAIN body.statements, NEW n, IsLevel(body.statements[k], n)
  PROVE  LET s == body.statements[k]
             items == ItemsIn(s, n)
         IN  /\ IsSequence(items) /\ IsSequence(ElementsIn(s, n))
             /\ \A i \in DOMAIN items :
                  items[i].kind = "derived" =>
                    items[i].query \in DOMAIN body.queries /\ (n # 0 => items[i].query \in 1..(n - 1)) /\
                        items[i].alias # None
<1> DEFINE s == body.statements[k]
           items == ItemsIn(s, n)
<1>1. CASE n = 0
  <2>1. s.kind = "merge"
    <3>1. 0 \notin DOMAIN body.queries
      BY BodyFacts
    <3> QED BY <1>1, <3>1 DEF IsLevel
  <2>2. s.target.kind = "table" /\ s.using.query \in IF s.using.kind = "derived" THEN DOMAIN body.queries ELSE {0}
    BY <2>1, StatementFacts
  <2>3. s.using.kind = "derived" => s.using.alias # None
    BY BodyAssumption
  <2>4. items = <<s.target, s.using>>
    BY <1>1 DEF ItemsIn
  <2>5. DOMAIN items = {1, 2} /\ items[1] = s.target /\ items[2] = s.using
    BY <2>4
  <2>6. IsSequence(items)
    <3>1. items \in Seq({s.target, s.using})
      BY <2>4
    <3> QED BY <3>1 DEF IsSequence
  <2>7. IsSequence(ElementsIn(s, n))
    <3> DEFINE m == ElementsIn(s, n)
    <3>1. m = [j \in DOMAIN s.sets |-> m[j]]
      BY <1>1 DEF ElementsIn
    <3>2. IsSequence(s.sets)
      BY StatementFacts DEF Statement, IsSequence
    <3> HIDE DEF m
    <3>3. IsSequence(m)
      BY <3>1, <3>2, AlongFacts
    <3> QED BY <3>3 DEF m
  <2> HIDE DEF items
  <2>8. \A i \in DOMAIN items : items[i].kind = "derived" => items[i].query \in DOMAIN body.queries /\ items[i].alias # None
    BY <2>2, <2>3, <2>5
  <2> QED BY <1>1, <2>6, <2>7, <2>8 DEF items
<1>2. CASE n # 0
  <2>1. n \in DOMAIN body.queries
    BY <1>2 DEF IsLevel
  <2> DEFINE q == body.queries[n]
  <2>2. q \in Query
    BY <2>1, BodyFacts
  <2>3. IsSequence(q.from) /\ IsSequence(q.select)
    BY <2>2 DEF Query, IsSequence
  <2>4. \A i \in DOMAIN q.from :
          /\ q.from[i].query \in IF q.from[i].kind = "derived" THEN 1..(n - 1) ELSE {0}
          /\ q.from[i].kind = "derived" => q.from[i].alias # None
    BY <2>1, BodyAssumption
  <2>5. DOMAIN body.queries = 1..Len(body.queries) /\ Len(body.queries) \in Nat
    BY BodyFacts
  <2>6. \A p \in 1..(n - 1) : p \in DOMAIN body.queries
    BY <2>1, <2>5
  <2>7. items = q.from /\ ElementsIn(s, n) = q.select
    BY <1>2 DEF ItemsIn, ElementsIn
  <2> HIDE DEF q
  <2> QED BY <2>3, <2>4, <2>6, <2>7
<1> QED BY <1>1, <1>2

-----------------------------------------------------------------------------
(* The aliases of the derived tables of a statement, in the order in which *)
(* they are registered.                                                    *)

\* The lists of a query that has been opened.
LEMMA WithinFacts ==
  ASSUME NEW items, IsSequence(items), NEW of,
         \A i \in DOMAIN items : items[i].kind = "derived" => IsSequence(of[items[i].query])
  PROVE  /\ IsSequence(Within(items, of)) /\ Len(Within(items, of)) = Len(items) /\ DOMAIN Within(items, of) = DOMAIN items
         /\ \A i \in DOMAIN Within(items, of) : IsSequence(Within(items, of)[i])
         /\ Inside(items, of) = FlattenSeq(Within(items, of)) /\ IsSequence(Inside(items, of))
<1> DEFINE m == Within(items, of)
<1>1. Inside(items, of) = FlattenSeq(m)
  BY Zenon DEF Inside, Within
<1>2. m = [i \in DOMAIN items |-> m[i]]
  BY DEF Within
<1>3. \A i \in DOMAIN items :
        m[i] = IF items[i].kind = "derived" THEN Append(of[items[i].query], items[i].alias) ELSE << >>
  BY DEF Within
<1> HIDE DEF m
<1>4. \A i \in DOMAIN items : IsSequence(m[i])
  BY <1>3, AnyAppend, AnyEmpty
<1>5. IsSequence(m) /\ DOMAIN m = DOMAIN items /\ Len(m) = Len(items)
  BY <1>2, AlongFacts
<1>6. IsSequence(FlattenSeq(m))
  BY <1>4, <1>5, AnyFlatten
<1> QED BY <1>1, <1>4, <1>5, <1>6 DEF m

\* The recursion of Aliases has a solution.
LEMMA AliasesUnfold ==
  ASSUME body \in Bodies
  PROVE  \A n \in DOMAIN body.queries :
           /\ AliasTable[n] = IF body.queries[n].kind = "union"
                              THEN AliasTable[body.queries[n].left] \o AliasTable[body.queries[n].right]
                              ELSE Inside(body.queries[n].from, AliasTable)
           /\ IsSequence(AliasTable[n])
<1> DEFINE N == Len(body.queries)
           V == Seq(Maybe)
           q(n) == body.queries[n]
<1>1. DOMAIN body.queries = 1..N /\ N \in Nat
  BY BodyFacts
<1>2. ASSUME NEW n \in 1..N
      PROVE  /\ IsSequence(q(n).from) /\ DOMAIN q(n).from = 1..Len(q(n).from) /\ Len(q(n).from) \in Nat
             /\ \A i \in DOMAIN q(n).from :
                  q(n).from[i].alias \in Maybe /\ (q(n).from[i].kind = "derived" => q(n).from[i].query \in 1..(n - 1))
             /\ q(n).kind = "union" => q(n).left \in 1..(n - 1) /\ q(n).right \in 1..(n - 1)
  <2>1. q(n) \in Query
    BY <1>1, <1>2, BodyFacts
  <2>2. q(n).from \in Seq(Item)
    BY <2>1 DEF Query
  <2>3. IsSequence(q(n).from) /\ DOMAIN q(n).from = 1..Len(q(n).from) /\ Len(q(n).from) \in Nat
        /\ \A i \in DOMAIN q(n).from : q(n).from[i] \in Item
    <3> DEFINE f == q(n).from
    <3>1. f \in Seq(Item)
      BY <2>2
    <3> HIDE DEF f, Item
    <3>2. IsSequence(f) /\ DOMAIN f = 1..Len(f) /\ Len(f) \in Nat /\ \A i \in DOMAIN f : f[i] \in Item
      BY <3>1 DEF IsSequence
    <3> QED BY <3>2 DEF f
  <2>4. \A x \in Item : x.alias \in Maybe
    BY DEF Item
  <2>5. /\ \A i \in DOMAIN q(n).from : q(n).from[i].query \in IF q(n).from[i].kind = "derived" THEN 1..(n - 1) ELSE {0}
        /\ {q(n).left, q(n).right} \subseteq IF q(n).kind = "union" THEN 1..(n - 1) ELSE {0}
    BY <1>1, <1>2, BodyAssumption
  <2> HIDE DEF q, Item
  <2> QED BY <2>3, <2>4, <2>5
<1> HIDE DEF N, q
<1> DEFINE Of(s) == [j \in 1..N |-> IF j \in DOMAIN s THEN s[j] ELSE << >>]
           Row(n, s) == IF q(n).kind = "union" THEN Of(s)[q(n).left] \o Of(s)[q(n).right] ELSE Inside(q(n).from, Of(s))
           G == [n \in 1..N |-> [s \in Seq(V) |-> Row(n, s)]]
<1>3. ASSUME NEW n \in 1..N, NEW s \in Seq(V) PROVE Row(n, s) \in V
  <2> DEFINE t == Of(s)
  <2>1. \A j \in 1..N : t[j] \in V
    <3>1. << >> \in V
      OBVIOUS
    <3>2. \A j \in DOMAIN s : s[j] \in V
      <4> HIDE DEF V
      <4> QED OBVIOUS
    <3> HIDE DEF V
    <3> QED BY <3>1, <3>2
  <2>2. \A p \in 1..(n - 1) : p \in 1..N
    BY <1>1
  <2> HIDE DEF t
  <2>3. CASE q(n).kind = "union"
    BY <1>2, <2>1, <2>2, <2>3, ConcatFacts DEF t
  <2>4. CASE q(n).kind # "union"
    <3> DEFINE f == q(n).from
               w == Within(f, t)
    <3>1. /\ IsSequence(f) /\ DOMAIN f = 1..Len(f) /\ Len(f) \in Nat
          /\ \A i \in DOMAIN f : f[i].alias \in Maybe /\ (f[i].kind = "derived" => f[i].query \in 1..N)
      BY <1>2, <2>2
    <3> HIDE DEF f
    <3>2. \A i \in DOMAIN f : w[i] \in V
      <4> SUFFICES ASSUME NEW i \in DOMAIN f PROVE w[i] \in V
        OBVIOUS
      <4>1. w[i] = IF f[i].kind = "derived" THEN Append(t[f[i].query], f[i].alias) ELSE << >>
        BY DEF Within
      <4> HIDE DEF w
      <4>2. CASE f[i].kind = "derived"
        <5> DEFINE x == t[f[i].query]
                   y == f[i].alias
        <5>1. x \in V /\ y \in Maybe
          BY <2>1, <3>1, <4>2
        <5> HIDE DEF x, y, Maybe
        <5>2. Append(x, y) \in V
          BY <5>1
        <5> QED BY <4>1, <4>2, <5>2 DEF x, y
      <4>3. CASE f[i].kind # "derived"
        BY <4>1, <4>3
      <4> QED BY <4>2, <4>3
    <3>3. w = [i \in DOMAIN f |-> w[i]]
      BY DEF Within
    <3> HIDE DEF w
    <3>4. w \in Seq(V)
      <4>1. w \in [1..Len(f) -> V]
        <5> HIDE DEF V
        <5> QED BY <3>1, <3>2, <3>3
      <4> HIDE DEF V
      <4> QED BY <3>1, <4>1
    <3>5. FlattenSeq(w) \in Seq(Maybe)
      BY <3>4, FlattenFacts
    <3>6. Inside(f, t) = FlattenSeq(w)
      BY Zenon DEF Inside, Within, w
    <3> QED BY <2>4, <3>5, <3>6 DEF f, t
  <2> QED BY <2>3, <2>4
<1>4. G \in [1..N -> [Seq(V) -> V]]
  <2> HIDE DEF V, Row
  <2> QED BY <1>3
<1>5. PICK g : Builds(g, V, G, N)
  <2>1. N \in Nat
    BY <1>1
  <2> HIDE DEF V, G
  <2> QED BY <1>4, <2>1, DeepRuns
<1>6. g \in [1..N -> V]
  BY <1>5 DEF Builds
<1>7. ASSUME NEW n \in 1..N
      PROVE  g[n] = IF q(n).kind = "union" THEN g[q(n).left] \o g[q(n).right] ELSE Inside(q(n).from, g)
  <2> DEFINE before == [i \in 1..(n - 1) |-> g[i]]
             t == Of(before)
  <2>1. before \in Seq(V) /\ g[n] = G[n][before]
    <3> HIDE DEF V, G
    <3> QED BY <1>5 DEF Builds
  <2>2. g[n] = Row(n, before)
    <3> HIDE DEF V, Row, before
    <3> QED BY <2>1
  <2>3. \A p \in 1..(n - 1) : t[p] = g[p]
    BY <1>1
  <2>4. g[n] = IF q(n).kind = "union" THEN t[q(n).left] \o t[q(n).right] ELSE Inside(q(n).from, t)
    BY <2>2
  <2> HIDE DEF t, Row, before
  <2>5. Inside(q(n).from, t) = Inside(q(n).from, g)
    <3> DEFINE f == q(n).from
               w == Within(f, t)
               v == Within(f, g)
    <3>1. \A i \in DOMAIN f : f[i].kind = "derived" => t[f[i].query] = g[f[i].query]
      BY <1>2, <2>3
    <3> HIDE DEF f
    <3>2. w = v
      BY <3>1 DEF Within
    <3>3. Inside(f, t) = FlattenSeq(w) /\ Inside(f, g) = FlattenSeq(v)
      BY Zenon DEF Inside, Within, w, v
    <3> HIDE DEF w, v
    <3>4. Inside(f, t) = Inside(f, g)
      BY <3>2, <3>3
    <3> QED BY <3>4 DEF f
  <2>6. q(n).kind = "union" => t[q(n).left] = g[q(n).left] /\ t[q(n).right] = g[q(n).right]
    BY <1>2, <2>3
  <2> QED BY <2>4, <2>5, <2>6
<1> DEFINE Step(h) ==
             [n \in DOMAIN body.queries |->
                IF body.queries[n].kind = "union" THEN h[body.queries[n].left] \o h[body.queries[n].right]
                ELSE Inside(body.queries[n].from, h)]
<1>8. g = Step(g)
  <2>1. g = [n \in 1..N |-> g[n]]
    BY <1>6
  <2> QED BY <1>1, <1>7, <2>1, Zenon DEF q
<1> DEFINE a == AliasTable
<1>9. a = CHOOSE h : h = Step(h)
  BY Zenon DEF AliasTable, Step
<1> HIDE DEF Step, a
<1>10. a = Step(a)
  BY <1>8, <1>9, Zenon
<1>11. \A n \in 1..N : a[n] = IF q(n).kind = "union" THEN a[q(n).left] \o a[q(n).right] ELSE Inside(q(n).from, a)
  BY <1>1, <1>10, Zenon DEF Step, q
<1>12. ASSUME NEW n \in 1..N PROVE IsSequence(a[n])
  <2> DEFINE bad == {m \in 1..N : ~ IsSequence(a[m])}
  <2>1. SUFFICES ASSUME bad # {} PROVE FALSE
    OBVIOUS
  <2>2. PICK m \in bad : \A x \in bad : m <= x
    <3>1. bad \in SUBSET Nat
      OBVIOUS
    <3> HIDE DEF bad
    <3> QED BY <2>1, <3>1, LeastOf
  <2>3. m \in 1..N /\ ~ IsSequence(a[m])
    OBVIOUS
  <2>4. \A p \in 1..(m - 1) : IsSequence(a[p])
    <3> SUFFICES ASSUME NEW p \in 1..(m - 1), ~ IsSequence(a[p]) PROVE FALSE
      OBVIOUS
    <3>1. p \in 1..N /\ ~ (m <= p)
      BY <1>1, <2>3
    <3> QED BY <2>2, <3>1
  <2> HIDE DEF bad
  <2>5. IsSequence(q(m).from)
        /\ (\A i \in DOMAIN q(m).from : q(m).from[i].kind = "derived" => q(m).from[i].query \in 1..(m - 1))
        /\ (q(m).kind = "union" => q(m).left \in 1..(m - 1) /\ q(m).right \in 1..(m - 1))
    BY <1>2, <2>3
  <2>6. CASE q(m).kind = "union"
    BY <2>4, <2>5, <2>6, AnyConcat, <1>11, <2>3
  <2>7. CASE q(m).kind # "union"
    BY <2>4, <2>5, WithinFacts, <1>11, <2>3, <2>7
  <2> QED BY <2>6, <2>7
<1> QED BY <1>1, <1>11, <1>12 DEF q, a

-----------------------------------------------------------------------------
(* The stack.                                                              *)

\* What depends on the body and the statement only.
LEMMA SameStatement ==
  ASSUME body' = body, current' = current
  PROVE  /\ ThisStatement' = ThisStatement /\ Visiting' = Visiting
         /\ \A f : /\ IsFrame(f)' = IsFrame(f) /\ Opened(f)' = Opened(f) /\ IsUnion(f)' = IsUnion(f)
                   /\ FrameItems(f)' = FrameItems(f)
         /\ \A s, n : ItemsIn(s, n)' = ItemsIn(s, n) /\ ElementsIn(s, n)' = ElementsIn(s, n)
<1>1. ThisStatement' = ThisStatement
  BY DEF ThisStatement
<1>2. \A s, n : ItemsIn(s, n)' = ItemsIn(s, n) /\ ElementsIn(s, n)' = ElementsIn(s, n)
  BY DEF ItemsIn, ElementsIn
<1>3. \A f : IsUnion(f)' = IsUnion(f)
  BY DEF IsUnion
<1>4. \A f : FrameItems(f)' = FrameItems(f)
  BY <1>1 DEF FrameItems, ItemsIn
<1>5. \A f : Opened(f)' = Opened(f)
  <2> SUFFICES ASSUME NEW f PROVE Opened(f)' = Opened(f)
    OBVIOUS
  <2>1. Opened(f)' = IF IsUnion(f)' THEN f.at \in {1, 2} ELSE f.at \in DOMAIN FrameItems(f)' /\
            FrameItems(f)'[f.at].kind = "derived"
    BY DEF Opened
  <2> QED BY <1>3, <1>4, <2>1 DEF Opened
<1>6. \A f : IsFrame(f)' = IsFrame(f)
  BY <1>1 DEF IsFrame, IsLevel
<1>7. Visiting' = Visiting
  BY <1>1 DEF Visiting
<1> QED BY <1>1, <1>2, <1>3, <1>4, <1>5, <1>6, <1>7

\* A stack with another frame on top, in place of the one there.
LEMMA TopReplaced ==
  ASSUME NEW frames, Frames(frames), frames # << >>, NEW f, IsFrame(f)
  PROVE  /\ Frames([frames EXCEPT ![1] = f]) /\ [frames EXCEPT ![1] = f] # << >>
         /\ [frames EXCEPT ![1] = f][1] = f /\ Tail([frames EXCEPT ![1] = f]) = Tail(frames)
         /\ IsFrame(frames[1])
<1> DEFINE g == [frames EXCEPT ![1] = f]
<1>1. IsSequence(frames)
  BY DEF Frames
<1>2. PICK T : frames \in Seq(T)
  BY <1>1 DEF IsSequence
<1> DEFINE U == T \cup {f}
<1>3. frames \in Seq(U) /\ f \in U
  BY <1>2
<1> HIDE DEF U
<1>4. g \in Seq(U) /\ g # << >> /\ g[1] = f /\ Tail(g) = Tail(frames) /\ DOMAIN g = DOMAIN frames /\ 1 \in DOMAIN frames
      /\ \A i \in DOMAIN frames : i # 1 => g[i] = frames[i]
  BY <1>3
<1> HIDE DEF g
<1>5. Frames(g) /\ IsFrame(frames[1])
  BY <1>4 DEF Frames, IsSequence
<1> QED BY <1>4, <1>5 DEF g

\* One more frame on a stack whose top is open.
LEMMA FramePushed ==
  ASSUME NEW frames, Frames(frames), frames # << >> => Opened(frames[1]), NEW f, IsFrame(f)
  PROVE  Frames(<<f>> \o frames) /\ (<<f>> \o frames)[1] = f /\ <<f>> \o frames # << >> /\ Tail(<<f>> \o frames) = frames
<1> DEFINE g == <<f>> \o frames
<1>1. PICK T : frames \in Seq(T)
  BY DEF Frames, IsSequence
<1> DEFINE U == T \cup {f}
<1>2. frames \in Seq(U) /\ f \in U
  BY <1>1
<1> HIDE DEF U
<1>3. g \in Seq(U) /\ g # << >> /\ g[1] = f /\ Tail(g) = frames
      /\ \A i \in DOMAIN g : i # 1 => i - 1 \in DOMAIN frames /\ g[i] = frames[i - 1]
  BY <1>2
<1>4. frames # << >> => 1 \in DOMAIN frames
  BY <1>2
<1>5. DOMAIN frames # {} => frames # << >>
  OBVIOUS
<1> HIDE DEF g
<1>6. Frames(g)
  <2>1. IsSequence(g)
    BY <1>3 DEF IsSequence
  <2>2. ASSUME NEW i \in DOMAIN g PROVE IsFrame(g[i]) /\ (i # 1 => Opened(g[i]))
    <3>1. CASE i = 1
      BY <1>3, <3>1
    <3>2. CASE i # 1
      <4>1. i - 1 \in DOMAIN frames /\ g[i] = frames[i - 1] /\ frames # << >>
        BY <1>3, <1>5, <2>2, <3>2
      <4>2. IsFrame(frames[i - 1])
        BY <4>1 DEF Frames
      <4>3. Opened(frames[i - 1])
        <5>1. CASE i - 1 = 1
          BY <4>1, <5>1
        <5>2. CASE i - 1 # 1
          BY <4>1, <5>2 DEF Frames
        <5> QED BY <5>1, <5>2
      <4> QED BY <4>1, <4>2, <4>3
    <3> QED BY <3>1, <3>2
  <2> QED BY <2>1, <2>2 DEF Frames
<1> QED BY <1>3, <1>6 DEF g

\* A stack without its top: the next one is open.
LEMMA FramePopped ==
  ASSUME NEW frames, Frames(frames), frames # << >>
  PROVE  Frames(Tail(frames)) /\ (Tail(frames) # << >> => Opened(Tail(frames)[1]))
<1> DEFINE g == Tail(frames)
<1>1. IsSequence(frames)
  BY DEF Frames
<1>2. IsSequence(g) /\ \A i \in DOMAIN g : i + 1 \in DOMAIN frames /\ g[i] = frames[i + 1]
  BY <1>1, HeadTail
<1> HIDE DEF g
<1>3. DOMAIN g = 1..Len(g)
  BY <1>2, AnySequence
<1>4. \A i \in DOMAIN g : IsFrame(g[i]) /\ Opened(g[i])
  <2> SUFFICES ASSUME NEW i \in DOMAIN g PROVE IsFrame(g[i]) /\ Opened(g[i])
    OBVIOUS
  <2>1. i + 1 \in DOMAIN frames /\ i + 1 # 1
    BY <1>2, <1>3
  <2> QED BY <1>2, <2>1 DEF Frames
<1>5. g # << >> => 1 \in DOMAIN g
  <2>1. PICK T : g \in Seq(T)
    BY <1>2 DEF IsSequence
  <2> QED BY <2>1
<1> QED BY <1>2, <1>4, <1>5 DEF g, Frames

\* A frame that a query begins with.
LEMMA NewFrame ==
  ASSUME NEW n, IsLevel(ThisStatement, n)
  PROVE  IsFrame(Frame(n)) /\ Frame(n).query = n /\ Frame(n).at = 1 /\ Frame(n).scope = << >> /\ Frame(n).maps = << >>
<1>1. IsSequence(<< >>) /\ DOMAIN << >> = {}
  BY AnyEmpty
<1> QED BY <1>1 DEF IsFrame, Frame, IsScope

\* One more binding.
LEMMA BindFacts ==
  ASSUME NEW scope, IsScope(scope), NEW alias, NEW columns, IsSequence(columns)
  PROVE  LET b == [alias |-> alias, columns |-> columns]
             after == Bind(scope, b)
         IN  /\ IsScope(after)
             /\ \A j \in DOMAIN after : after[j] = b \/ (j \in DOMAIN scope /\ after[j] = scope[j])
             /\ \E j \in DOMAIN after : after[j] = b
<1> DEFINE b == [alias |-> alias, columns |-> columns]
           after == Bind(scope, b)
<1>b. b.alias = alias /\ b.columns = columns
  OBVIOUS
<1>s. IsSequence(scope) /\ DOMAIN scope = 1..Len(scope) /\ Len(scope) \in Nat
  BY AnySequence DEF IsScope
<1> HIDE DEF b
<1>1. CASE \E i \in DOMAIN scope : scope[i].alias = b.alias
  <2>1. after = [i \in DOMAIN scope |-> IF scope[i].alias = b.alias THEN b ELSE scope[i]]
    BY <1>1 DEF Bind
  <2>2. after = [i \in DOMAIN scope |-> after[i]]
    BY <2>1
  <2>3. \A i \in DOMAIN scope : after[i] = b \/ after[i] = scope[i]
    BY <2>1
  <2>4. \E i \in DOMAIN scope : after[i] = b
    BY <1>1, <2>1
  <2> HIDE DEF after
  <2>5. IsSequence(after) /\ DOMAIN after = DOMAIN scope
    BY <1>s, <2>2, AlongFacts
  <2>6. IsScope(after)
    BY <1>b, <2>3, <2>5 DEF IsScope
  <2> QED BY <2>3, <2>4, <2>5, <2>6 DEF after, b
<1>2. CASE ~ \E i \in DOMAIN scope : scope[i].alias = b.alias
  <2>1. after = Append(scope, b)
    BY <1>2 DEF Bind
  <2>2. /\ IsSequence(after) /\ Len(after) = Len(scope) + 1
        /\ (\A i \in 1..Len(scope) : after[i] = scope[i]) /\ after[Len(scope) + 1] = b
    BY <1>s, <2>1, AnyAppend
  <2> HIDE DEF after
  <2>3. DOMAIN after = 1..(Len(scope) + 1)
    BY <2>2, AnySequence
  <2>4. \A j \in DOMAIN after : after[j] = b \/ (j \in DOMAIN scope /\ after[j] = scope[j])
    BY <1>s, <2>2, <2>3
  <2>5. \E j \in DOMAIN after : after[j] = b
    <3>1. Len(scope) + 1 \in DOMAIN after
      BY <1>s, <2>3
    <3> QED BY <2>2, <3>1
  <2>6. IsScope(after)
    BY <1>b, <2>2, <2>4 DEF IsScope
  <2> QED BY <2>4, <2>5, <2>6 DEF after, b
<1> QED BY <1>1, <1>2

-----------------------------------------------------------------------------
(* What a reference finds.                                                 *)

\* The columns of a table are base columns, in order.
LEMMA LookupFacts ==
  ASSUME NEW schema, NEW name
  PROVE  /\ IsSequence(Lookup(schema, name))
         /\ \A n \in DOMAIN Lookup(schema, name) : ~IsVirtual(Lookup(schema, name)[n])
<1> DEFINE good(cols) == IsSequence(cols) /\ \A n \in DOMAIN cols : ~IsVirtual(cols[n])
           at(positions) == IF positions = {} THEN << >> ELSE Base(Latest(positions))
           N == Len(Objects)
<1>1. DOMAIN Objects = 1..N /\ N \in Nat /\ \A i \in DOMAIN Objects : IsSequence(Objects[i].columns)
  <2> DEFINE T == [schema : Names, name : Names, columns : Seq(Names)]
  <2>1. Objects \in Seq(T)
    BY BodyAssumption
  <2>2. \A x \in T : IsSequence(x.columns)
    BY DEF IsSequence
  <2> HIDE DEF T
  <2>3. DOMAIN Objects = 1..N /\ N \in Nat /\ \A i \in DOMAIN Objects : Objects[i] \in T
    BY <2>1
  <2> QED BY <2>2, <2>3
<1> HIDE DEF N
<1>2. ASSUME NEW i \in DOMAIN Objects PROVE good(Base(i))
  <2> DEFINE m == Base(i)
             s == Objects[i].columns
  <2>1. m = [n \in DOMAIN s |-> m[n]] /\ \A n \in DOMAIN s : ~IsVirtual(m[n])
    BY DEF Base, IsVirtual
  <2>2. IsSequence(s)
    BY <1>1
  <2> HIDE DEF m, s
  <2>3. IsSequence(m) /\ DOMAIN m = DOMAIN s
    BY <2>1, <2>2, AlongFacts
  <2> QED BY <2>1, <2>3 DEF m
<1>3. ASSUME NEW P \in SUBSET DOMAIN Objects PROVE good(at(P))
  <2>1. CASE P = {}
    <3>1. at(P) = << >> /\ DOMAIN << >> = {}
      BY <2>1
    <3> QED BY <3>1, AnyEmpty
  <2>2. CASE P # {}
    <3>1. \E i \in P : \A j \in P : j <= i
      <4> DEFINE M == {N - i : i \in P}
      <4>1. M \in SUBSET Nat /\ M # {}
        BY <1>1, <2>2
      <4> HIDE DEF M
      <4>2. PICK m \in M : \A x \in M : m <= x
        BY <4>1, LeastOf
      <4>3. PICK i \in P : m = N - i
        BY <4>2 DEF M
      <4>4. \A j \in P : N - i <= N - j
        BY <4>2, <4>3 DEF M
      <4>5. \A j \in P : j <= i
        BY <1>1, <4>3, <4>4
      <4> QED BY <4>3, <4>5
    <3>2. Latest(P) \in P
      BY <3>1 DEF Latest
    <3> QED BY <1>2, <2>2, <3>2
  <2> QED BY <2>1, <2>2
<1>4. {} \in SUBSET DOMAIN Objects /\ Holders(schema, name) \in SUBSET DOMAIN Objects /\
          Holders(None, name) \in SUBSET DOMAIN Objects
  BY DEF Holders
<1> DEFINE e == IF schema = None THEN {} ELSE Holders(schema, name)
           h == Holders(None, name)
           l == Lookup(schema, name)
<1>5. e \in SUBSET DOMAIN Objects /\ h \in SUBSET DOMAIN Objects
  BY <1>4
<1>6. l = IF at(e) # << >> THEN at(e) ELSE at(h)
  BY DEF Lookup
<1>7. good(at(e)) /\ good(at(h))
  BY <1>3, <1>5
<1> HIDE DEF l, e, h, at
<1>8. good(l)
  BY <1>6, <1>7
<1> QED BY <1>8 DEF l

-----------------------------------------------------------------------------
(* Columns that are of base tables or of registered names.                 *)

\* What is real stays real when more names are registered.
LEMMA MoreReal ==
  ASSUME NEW R, NEW Q, R \subseteq Q
  PROVE  /\ \A scope : ScopeReal(scope, R) => ScopeReal(scope, Q)
         /\ \A maps : MapsReal(maps, R) => MapsReal(maps, Q)
BY DEF ScopeReal, MapsReal, Real

\* The scopes a reference is looked up in.
LEMMA ChainFacts ==
  ASSUME Frames(stack), IsScope(cte_scope)
  PROVE  /\ IsSequence(Chain) /\ \A i \in DOMAIN Chain : IsScope(Chain[i])
         /\ \A R : (\A i \in DOMAIN stack : ScopeReal(stack[i].scope, R)) /\ ScopeReal(cte_scope, R) => ChainReal(Chain, R)
<1> DEFINE m == [i \in DOMAIN stack |-> stack[i].scope]
           e == <<cte_scope>>
           w == m \o e
<1>1. Chain = w
  BY DEF Chain, Parents
<1>2. IsSequence(stack) /\ \A i \in DOMAIN stack : IsScope(stack[i].scope)
  BY DEF Frames, IsFrame
<1>3. m = [i \in DOMAIN stack |-> m[i]] /\ \A i \in DOMAIN stack : m[i] = stack[i].scope
  OBVIOUS
<1> HIDE DEF m
<1>4. IsSequence(m) /\ DOMAIN m = DOMAIN stack /\ DOMAIN m = 1..Len(m) /\ Len(m) \in Nat
  BY <1>2, <1>3, AlongFacts, AnySequence
<1>5. IsSequence(e) /\ Len(e) = 1 /\ e[1] = cte_scope
  BY AnySingle
<1> HIDE DEF e
<1>w. w = m \o e
  OBVIOUS
<1> HIDE DEF w
<1>6. JoinOf(w, m, e)
  BY ONLY <1>4, <1>5, <1>w, JoinFacts
<1>7. IsSequence(w) /\ Len(w) = Len(m) + 1 /\ (\A i \in 1..Len(m) : w[i] = m[i]) /\ w[Len(m) + 1] = e[1]
  BY ONLY <1>5, <1>6 DEF JoinOf
<1>8. \A i \in DOMAIN w : w[i] = cte_scope \/ (i \in DOMAIN stack /\ w[i] = stack[i].scope)
  <2>1. DOMAIN w = 1..Len(w)
    BY <1>7, AnySequence
  <2>2. \A i \in 1..(Len(m) + 1) : i = Len(m) + 1 \/ i \in 1..Len(m)
    BY <1>4
  <2> QED BY <1>3, <1>4, <1>5, <1>7, <2>1, <2>2, Zenon
<1>9. \A i \in DOMAIN w : IsScope(w[i])
  BY <1>2, <1>8
<1>10. \A R : (\A i \in DOMAIN stack : ScopeReal(stack[i].scope, R)) /\ ScopeReal(cte_scope, R) => ChainReal(w, R)
  BY <1>8 DEF ChainReal
<1> QED BY <1>1, <1>7, <1>9, <1>10

\* A reference finds columns of the scopes.
LEMMA MatchesReal ==
  ASSUME NEW chain, IsSequence(chain), NEW R, ChainReal(chain, R), NEW refs
  PROVE  \A c \in Matches(refs, chain) : Real(c, R)
<1> SUFFICES ASSUME NEW c \in Matches(refs, chain) PROVE Real(c, R)
  OBVIOUS
<1>1. PICK k \in DOMAIN refs : c \in Resolve(refs[k], chain)
  BY DEF Matches
<1> DEFINE ref == refs[k]
           serving == {i \in DOMAIN chain : Serves(chain[i], ref)}
           first == CHOOSE i \in serving : \A j \in serving : i <= j
<1>2. Resolve(ref, chain) = IF serving = {} THEN {} ELSE Columns(chain[first], ref.prefix, ref.name)
  BY DEF Resolve
<1>3. serving # {} /\ c \in Columns(chain[first], ref.prefix, ref.name)
  BY <1>1, <1>2
<1>4. first \in serving
  <2>1. serving \in SUBSET Nat
    <3>1. DOMAIN chain = 1..Len(chain)
      BY AnySequence
    <3> QED BY <3>1
  <2> HIDE DEF serving
  <2>2. \E i \in serving : \A j \in serving : i <= j
    BY <1>3, <2>1, LeastOf
  <2> QED BY <2>2
<1>5. first \in DOMAIN chain
  BY <1>4
<1> HIDE DEF first, serving
<1>6. PICK i \in DOMAIN chain[first] : c \in Range(chain[first][i].columns)
  BY <1>3 DEF Columns
<1> QED BY <1>5, <1>6 DEF ChainReal, ScopeReal

\* The columns of a star are those of a scope.
LEMMA StarFacts ==
  ASSUME Frames(stack), stack # << >>, IsScope(cte_scope), NEW qualifier
  PROVE  /\ IsSequence(Star(qualifier))
         /\ \A R : ChainReal(Chain, R) /\ ScopeReal(stack[1].scope, R) => \A c \in Range(Star(qualifier)) : Real(c, R)
<1> DEFINE with == {i \in DOMAIN Chain : \E b \in Range(Chain[i]) : b.alias = qualifier}
           first == CHOOSE i \in with : \A j \in with : i <= j
           b == IF qualifier = None THEN Top.scope ELSE IF with = {} THEN << >> ELSE Chain[first]
           m == [i \in DOMAIN b |-> IF qualifier \in {None, b[i].alias} THEN b[i].columns ELSE << >>]
<1>1. Star(qualifier) = FlattenSeq(m)
  BY Zenon DEF Star
<1>2. Top = stack[1] /\ 1 \in DOMAIN stack
  BY HeadTail DEF Frames, Top
<1>3. IsSequence(Chain) /\ \A i \in DOMAIN Chain : IsScope(Chain[i])
  BY ChainFacts
<1>4. with # {} => first \in DOMAIN Chain
  <2> SUFFICES ASSUME with # {} PROVE first \in with
    OBVIOUS
  <2>1. with \in SUBSET Nat
    <3>1. DOMAIN Chain = 1..Len(Chain)
      BY <1>3, AnySequence
    <3> QED BY <3>1
  <2> HIDE DEF with
  <2>2. \E i \in with : \A j \in with : i <= j
    BY <2>1, LeastOf
  <2> QED BY <2>2
<1> HIDE DEF first, with
<1>5. IsScope(b)
  <2>1. IsScope(Top.scope)
    BY <1>2 DEF Frames, IsFrame
  <2>2. IsScope(<< >>)
    BY AnyEmpty DEF IsScope
  <2> QED BY <1>3, <1>4, <2>1, <2>2
<1>6. \A R : ChainReal(Chain, R) /\ ScopeReal(stack[1].scope, R) => ScopeReal(b, R)
  <2>1. \A R : ScopeReal(<< >>, R)
    BY DEF ScopeReal
  <2> QED BY <1>2, <1>4, <2>1 DEF ChainReal
<1> HIDE DEF b
<1>7. m = [i \in DOMAIN b |-> m[i]] /\ \A i \in DOMAIN b : m[i] = b[i].columns \/ m[i] = << >>
  OBVIOUS
<1> HIDE DEF m
<1>8. IsSequence(m) /\ DOMAIN m = DOMAIN b
  BY <1>5, <1>7, AlongFacts DEF IsScope
<1>9. \A i \in DOMAIN m : IsSequence(m[i])
  BY <1>5, <1>7, <1>8, AnyEmpty DEF IsScope
<1>10. IsSequence(FlattenSeq(m)) /\ Range(FlattenSeq(m)) = UNION {Range(m[n]) : n \in DOMAIN m}
  BY <1>8, <1>9, AnyFlatten
<1>11. ASSUME NEW R, ChainReal(Chain, R), ScopeReal(stack[1].scope, R), NEW c \in Range(FlattenSeq(m)) PROVE Real(c, R)
  <2>1. PICK n \in DOMAIN b : c \in Range(m[n])
    BY <1>8, <1>10, <1>11
  <2>2. c \in Range(b[n].columns)
    BY <1>7, <2>1, AnyEmpty
  <2> QED BY <1>6, <1>11, <2>1, <2>2 DEF ScopeReal
<1> QED BY <1>1, <1>10, <1>11

-----------------------------------------------------------------------------
(* The aliases still to be registered.                                     *)

\* The statement visited is one of the body.
LEMMA ThisIsAStatement == Placed => AStatement(ThisStatement)
BY DEF Placed, AStatement, ThisStatement

\* The items of a query, from the k-th on.
LEMMA ItemsFromFacts ==
  ASSUME NEW s, AStatement(s), NEW n, IsLevel(s, n), NEW k \in 1..(Len(ItemsIn(s, n)) + 1)
  PROVE  ItemsOneByOne(s, n, k)
<1> DEFINE items == ItemsIn(s, n)
           m == Within(items, AliasTable)
<1>1. /\ IsSequence(items)
      /\ \A i \in DOMAIN items : items[i].kind = "derived" => items[i].query \in DOMAIN body.queries
  <2>1. PICK w \in DOMAIN body.statements : s = body.statements[w]
    BY DEF AStatement
  <2> QED BY <2>1, LevelFacts DEF AStatement
<1>2. \A q \in DOMAIN body.queries : IsSequence(AliasTable[q])
  BY AliasesUnfold DEF AStatement
<1>3. Len(items) \in Nat /\ DOMAIN items = 1..Len(items)
  BY <1>1, AnySequence
<1>4. \A i \in DOMAIN items :
        m[i] = IF items[i].kind = "derived" THEN Append(AliasTable[items[i].query], items[i].alias) ELSE << >>
  BY DEF Within
<1>5. \A j : ItemsFrom(s, n, j) = FlattenSeq(Rest(m, j))
  BY Zenon DEF ItemsFrom
<1> HIDE DEF items
<1>6. /\ IsSequence(m) /\ Len(m) = Len(items) /\ DOMAIN m = DOMAIN items /\ \A i \in DOMAIN m : IsSequence(m[i])
      /\ Inside(items, AliasTable) = FlattenSeq(m)
  BY <1>1, <1>2, WithinFacts
<1> HIDE DEF m
<1>k. k \in 1..(Len(m) + 1)
  BY <1>6 DEF items
<1>7. /\ IsSequence(FlattenSeq(Rest(m, k))) /\ FlattenSeq(Rest(m, 1)) = FlattenSeq(m)
      /\ k <= Len(m) => FlattenSeq(Rest(m, k)) = m[k] \o FlattenSeq(Rest(m, k + 1))
      /\ k = Len(m) + 1 => FlattenSeq(Rest(m, k)) = << >>
  BY ONLY <1>6, <1>k, FlatRest
<1>8. k <= Len(m) => IsSequence(FlattenSeq(Rest(m, k + 1))) /\ k \in DOMAIN items
  <2> SUFFICES ASSUME k <= Len(m) PROVE IsSequence(FlattenSeq(Rest(m, k + 1))) /\ k \in DOMAIN items
    OBVIOUS
  <2>1. k + 1 \in 1..(Len(m) + 1) /\ k \in DOMAIN items
    BY <1>3, <1>6, <1>k
  <2>2. IsSequence(FlattenSeq(Rest(m, k + 1)))
    BY ONLY <1>6, <2>1, FlatRest
  <2> QED BY <2>1, <2>2
<1> DEFINE a == ItemsFrom(s, n, k)
           b == ItemsFrom(s, n, k + 1)
           q == AliasTable[items[k].query]
           e == <<items[k].alias>>
<1>9. ASSUME k <= Len(items), items[k].kind # "derived" PROVE a = b
  <2>1. m[k] = << >> /\ IsSequence(b) /\ a = m[k] \o b
    BY <1>4, <1>5, <1>6, <1>7, <1>8, <1>9
  <2> HIDE DEF a, b
  <2> QED BY <2>1, AnyUnit
<1>10. ASSUME k <= Len(items), items[k].kind = "derived"
       PROVE  items[k].query \in DOMAIN body.queries /\ IsSequence(q) /\ IsSequence(b) /\ a = q \o (e \o b)
  <2>1. m[k] = Append(q, items[k].alias) /\ IsSequence(b) /\ a = m[k] \o b /\ items[k].query \in DOMAIN body.queries
    BY <1>1, <1>4, <1>5, <1>6, <1>7, <1>8, <1>10
  <2>2. IsSequence(q)
    BY <1>2, <2>1
  <2>3. Append(q, items[k].alias) = q \o e
    <3> DEFINE x == items[k].alias
    <3>1. PICK T : q \in Seq(T)
      BY <2>2 DEF IsSequence
    <3> HIDE DEF x, q
    <3>2. q \in Seq(T \cup {x}) /\ x \in T \cup {x}
      BY <3>1
    <3>3. Append(q, x) = q \o <<x>>
      BY <3>2
    <3> QED BY <3>3 DEF x
  <2>4. IsSequence(e)
    BY AnySingle
  <2> HIDE DEF a, b, q, e
  <2>5. (q \o e) \o b = q \o (e \o b)
    BY ONLY <2>1, <2>2, <2>4, AnyRegroup
  <2> QED BY <2>1, <2>2, <2>3, <2>5
<1> QED BY <1>3, <1>5, <1>6, <1>7, <1>9, <1>10 DEF items, ItemsOneByOne

\* What a query has to register when it is opened.
LEMMA AtStart ==
  ASSUME NEW s, AStatement(s), NEW n, IsLevel(s, n), NEW f, f.query = n, f.at = 1
  PROVE  /\ n # 0 => AtTop(s, "visit", f) = AliasTable[n]
         /\ n = 0 => AtTop(s, "visit", f) = Inside(<<s.target, s.using>>, AliasTable)
<1> DEFINE items == ItemsIn(s, n)
<1>1. /\ Len(items) \in Nat /\ DOMAIN items = 1..Len(items) /\ ItemsFrom(s, n, 1) = Inside(items, AliasTable)
      /\ 1 = Len(items) + 1 => ItemsFrom(s, n, 1) = << >>
  <2>1. IsSequence(items)
    <3>1. PICK w \in DOMAIN body.statements : s = body.statements[w]
      BY DEF AStatement
    <3> QED BY <3>1, LevelFacts DEF AStatement
  <2>2. 1 \in 1..(Len(items) + 1)
    BY <2>1, AnySequence
  <2> QED
    <3>1. ItemsOneByOne(s, n, 1)
      BY <2>2, ItemsFromFacts
    <3> QED BY <3>1 DEF ItemsOneByOne
<1>2. ASSUME ~IsUnion(f) PROVE AtTop(s, "visit", f) = Inside(items, AliasTable)
  BY <1>2, <1>1 DEF AtTop
<1>3. CASE n = 0
  <2>1. ~IsUnion(f) /\ items = <<s.target, s.using>>
    BY <1>3 DEF IsUnion, ItemsIn
  <2> QED BY <1>2, <1>3, <2>1
<1>4. CASE n # 0
  <2>1. n \in DOMAIN body.queries
    BY <1>4 DEF IsLevel
  <2>2. AliasTable[n] = IF body.queries[n].kind = "union"
                        THEN AliasTable[body.queries[n].left] \o AliasTable[body.queries[n].right]
                        ELSE Inside(body.queries[n].from, AliasTable)
    BY <2>1, AliasesUnfold DEF AStatement
  <2>3. CASE IsUnion(f)
    BY <1>4, <2>2, <2>3, Zenon DEF AtTop, IsUnion
  <2>4. CASE ~IsUnion(f)
    BY <1>4, <2>4, <1>2, <2>2, Zenon DEF ItemsIn, IsUnion
  <2> QED BY <1>4, <2>3, <2>4
<1> QED BY <1>3, <1>4

\* What is left of a query that another one waits for, and what a step leaves.
LEMMA TopFacts ==
  ASSUME Placed, NEW f, IsFrame(f)
  PROVE  LET s == ThisStatement
             items == FrameItems(f)
             after == AfterOpened(s, f)
             visit == AtTop(s, "visit", f)
             on == AtTop(s, "on", f)
         IN  /\ DOMAIN items = 1..Len(items) /\ Len(items) \in Nat
             /\ Opened(f) => IsSequence(after)
             /\ IsUnion(f) =>
                  /\ body.queries[f.query].left \in DOMAIN body.queries /\
                         body.queries[f.query].right \in DOMAIN body.queries
                  /\ f.at = 1 => /\ visit = AliasTable[body.queries[f.query].left] \o after
                                 /\ \A g : g.query = f.query /\ g.at = 2 => AtTop(s, "visit", g) = after
                  /\ f.at = 2 => visit = AliasTable[body.queries[f.query].right] \o after /\ after = << >>
             /\ ~IsUnion(f) /\ f.at \in DOMAIN items =>
                  /\ IsSequence(on)
                  /\ items[f.at].kind # "derived" => visit = on
                  /\ items[f.at].kind = "derived" =>
                       /\ items[f.at].query \in DOMAIN body.queries
                       /\ visit = AliasTable[items[f.at].query] \o after /\ after = <<items[f.at].alias>> \o on
                  /\ \A g : g.query = f.query /\ g.at = f.at + 1 => AtTop(s, "visit", g) = on
             /\ ~IsUnion(f) /\ f.at > Len(items) => visit = << >>
<1> DEFINE s == ThisStatement
           n == f.query
           q == body.queries[n]
           items == FrameItems(f)
           after == AfterOpened(s, f)
           visit == AtTop(s, "visit", f)
           on == AtTop(s, "on", f)
<1>1. IsLevel(s, n) /\ f.at \in Nat \ {0} /\ items = ItemsIn(s, n)
  BY DEF IsFrame, FrameItems
<1>2. IsSequence(items) /\ DOMAIN items = 1..Len(items) /\ Len(items) \in Nat
  <2>1. IsSequence(items)
    BY <1>1, LevelFacts DEF Placed, ThisStatement
  <2> QED BY <2>1, AnySequence
<1>3. ASSUME IsUnion(f)
      PROVE  /\ q.left \in DOMAIN body.queries /\ q.right \in DOMAIN body.queries
             /\ f.at = 1 => /\ visit = AliasTable[q.left] \o after
                            /\ \A g : g.query = f.query /\ g.at = 2 => AtTop(s, "visit", g) = after
             /\ f.at = 2 => visit = AliasTable[q.right] \o after /\ after = << >>
             /\ f.at \in {1, 2} => IsSequence(after)
  <2>1. n \in DOMAIN body.queries /\ q.kind = "union" /\ n # 0
    BY <1>1, <1>3 DEF IsLevel, IsUnion
  <2>2. DOMAIN body.queries = 1..Len(body.queries) /\ Len(body.queries) \in Nat
    BY BodyFacts DEF Placed
  <2>3. {q.left, q.right} \subseteq 1..(n - 1)
    <3>1. \A x \in DOMAIN body.queries :
            {body.queries[x].left, body.queries[x].right} \subseteq IF body.queries[x].kind =
                "union" THEN 1..(x - 1) ELSE {0}
      BY BodyAssumption DEF Placed
    <3> QED BY <2>1, <3>1
  <2>4. q.left \in DOMAIN body.queries /\ q.right \in DOMAIN body.queries
    BY <2>1, <2>2, <2>3
  <2>5. IsSequence(AliasTable[q.right])
    BY <2>4, AliasesUnfold DEF Placed
  <2>6. << >> \o AliasTable[q.right] = AliasTable[q.right] /\ AliasTable[q.right] \o << >> = AliasTable[q.right]
    BY <2>5, AnyUnit
  <2>7. \A g : g.query = f.query => IsUnion(g)
    BY <1>3 DEF IsUnion
  <2>8. after = IF f.at = 1 THEN AliasTable[q.right] ELSE << >>
    BY <1>3 DEF AfterOpened
  <2>9. \A g : g.query = f.query =>
          AtTop(s, "visit", g) = IF g.at = 1 THEN AliasTable[q.left] \o AliasTable[q.right] ELSE AliasTable[q.right]
    BY <2>7 DEF AtTop
  <2>10. IsSequence(<< >>)
    BY AnyEmpty
  <2> HIDE DEF after, q
  <2>11. ASSUME f.at = 1 PROVE visit = AliasTable[q.left] \o after
    BY <2>8, <2>9, <2>11
  <2>12. ASSUME NEW g, g.query = f.query, g.at = 2, f.at = 1 PROVE AtTop(s, "visit", g) = after
    <3>1. g.at # 1
      BY ONLY g.at = 2
    <3>2. after = AliasTable[q.right]
      BY <2>8, <2>12
    <3>3. AtTop(s, "visit", g) = AliasTable[q.right]
      BY Zenon, <2>9, <2>12, <3>1
    <3> QED BY <3>2, <3>3
  <2>13. ASSUME f.at = 2 PROVE visit = AliasTable[q.right] \o after /\ after = << >>
    <3>a. f.at # 1
      BY ONLY f.at = 2
    <3>1. visit = AliasTable[q.right] /\ after = << >>
      BY Zenon, <2>8, <2>9, <3>a
    <3> QED BY <2>6, <3>1
  <2>14. IsSequence(after)
    BY <2>5, <2>8, <2>10
  <2> QED BY <2>4, <2>11, <2>12, <2>13, <2>14
<1>4. ASSUME ~IsUnion(f), f.at \in DOMAIN items
      PROVE  /\ IsSequence(on)
             /\ items[f.at].kind # "derived" => visit = on
             /\ items[f.at].kind = "derived" =>
                  /\ items[f.at].query \in DOMAIN body.queries
                  /\ visit = AliasTable[items[f.at].query] \o after /\ after = <<items[f.at].alias>> \o on
                  /\ IsSequence(after)
             /\ \A g : g.query = f.query /\ g.at = f.at + 1 => AtTop(s, "visit", g) = on
  <2> DEFINE k == f.at
  <2>1. k \in 1..(Len(items) + 1) /\ k + 1 \in 1..(Len(items) + 1) /\ k <= Len(items)
    BY <1>2, <1>4
  <2>2. visit = ItemsFrom(s, n, k) /\ on = ItemsFrom(s, n, k + 1)
    BY <1>1, <1>4, <2>1 DEF AtTop
  <2>3. after = <<items[k].alias>> \o ItemsFrom(s, n, k + 1)
    BY <1>1, <1>4 DEF AfterOpened
  <2>a. AStatement(s) /\ k \in 1..(Len(ItemsIn(s, n)) + 1) /\ k + 1 \in 1..(Len(ItemsIn(s, n)) + 1)
    BY <1>1, <2>1, ThisIsAStatement
  <2>b. ItemsOneByOne(s, n, k) /\ ItemsOneByOne(s, n, k + 1)
    <3> HIDE DEF s, n, k
    <3> QED BY <1>1, <2>a, ItemsFromFacts
  <2>4. IsSequence(ItemsFrom(s, n, k + 1)) /\ (k + 1 = Len(items) + 1 => ItemsFrom(s, n, k + 1) = << >>)
    BY <1>1, <2>1, <2>b, Zenon DEF ItemsOneByOne
  <2>5. /\ items[k].kind # "derived" => ItemsFrom(s, n, k) = ItemsFrom(s, n, k + 1)
        /\ items[k].kind = "derived" =>
             /\ items[k].query \in DOMAIN body.queries
             /\ ItemsFrom(s, n, k) = AliasTable[items[k].query] \o (<<items[k].alias>> \o ItemsFrom(s, n, k + 1))
    BY <1>1, <2>1, <2>b, Zenon DEF ItemsOneByOne
  <2>6. \A g : g.query = f.query /\ g.at = f.at + 1 => AtTop(s, "visit", g) = on
    <3> SUFFICES ASSUME NEW g, g.query = f.query, g.at = f.at + 1 PROVE AtTop(s, "visit", g) = on
      OBVIOUS
    <3>1. ~IsUnion(g)
      BY <1>4 DEF IsUnion
    <3>2. AtTop(s, "visit", g) = IF k + 1 <= Len(items) THEN ItemsFrom(s, n, k + 1) ELSE << >>
      BY <1>1, <3>1 DEF AtTop
    <3>3. ~(k + 1 <= Len(items)) => k + 1 = Len(items) + 1
      BY <1>2, <2>1
    <3> QED BY <2>2, <2>4, <3>2, <3>3
  <2>7. IsSequence(<<items[k].alias>> \o ItemsFrom(s, n, k + 1))
    <3> DEFINE e == <<items[k].alias>>
               r == ItemsFrom(s, n, k + 1)
    <3>1. IsSequence(e) /\ IsSequence(r)
      BY <2>4, AnySingle
    <3> HIDE DEF e, r
    <3>2. IsSequence(e \o r)
      BY <3>1, AnyConcat
    <3> QED BY <3>2 DEF e, r
  <2> HIDE DEF visit, on, after, items
  <2> QED BY <2>2, <2>3, <2>4, <2>5, <2>6, <2>7
<1>5. ASSUME ~IsUnion(f), f.at > Len(items) PROVE visit = << >>
  <2>1. ~(f.at <= Len(ItemsIn(s, n)))
    BY <1>1, <1>2, <1>5
  <2> QED BY <1>5, <2>1 DEF AtTop
<1>6. Opened(f) => IsSequence(after)
  BY <1>3, <1>4 DEF Opened
<1> QED BY <1>2, <1>3, <1>4, <1>5, <1>6, Zenon

\* What is left of the queries that wait.
LEMMA AboveFacts ==
  ASSUME Placed, NEW frames, Frames(frames), frames # << >> => Opened(frames[1])
  PROVE  /\ IsSequence(Above(ThisStatement, frames))
         /\ frames = << >> => Above(ThisStatement, frames) = << >>
         /\ frames # << >> =>
              /\ Above(ThisStatement, frames) = AfterOpened(ThisStatement, frames[1]) \o Above(ThisStatement, Tail(frames))
              /\ IsSequence(AfterOpened(ThisStatement, frames[1])) /\ IsSequence(Above(ThisStatement, Tail(frames)))
<1> DEFINE s == ThisStatement
           m(t) == [i \in DOMAIN t |-> AfterOpened(s, t[i])]
           Waiting(t) == IsSequence(t) /\ \A i \in DOMAIN t : IsFrame(t[i]) /\ Opened(t[i])
<1>1. ASSUME NEW t, Waiting(t)
      PROVE  IsSequence(m(t)) /\ DOMAIN m(t) = DOMAIN t /\ Len(m(t)) = Len(t) /\ (\A i \in DOMAIN m(t) : IsSequence(m(t)[i]))
             /\ IsSequence(FlattenSeq(m(t)))
  <2> DEFINE w == m(t)
  <2>1. w = [i \in DOMAIN t |-> w[i]] /\ \A i \in DOMAIN t : w[i] = AfterOpened(s, t[i])
    OBVIOUS
  <2> HIDE DEF w
  <2>2. IsSequence(w) /\ DOMAIN w = DOMAIN t /\ Len(w) = Len(t)
    BY <1>1, <2>1, AlongFacts
  <2>3. \A i \in DOMAIN w : IsSequence(w[i])
    BY <1>1, <2>1, <2>2, TopFacts, Zenon
  <2>4. IsSequence(FlattenSeq(w))
    BY <2>2, <2>3, AnyFlatten
  <2> QED BY <2>2, <2>3, <2>4 DEF w
<1>2. \A t : Above(s, t) = FlattenSeq(m(t))
  BY Zenon DEF Above
<1>3. Waiting(frames)
  <2>1. \A i \in DOMAIN frames : i = 1 => frames # << >>
    OBVIOUS
  <2> QED BY <2>1 DEF Frames
<1>4. ASSUME frames # << >>
      PROVE  /\ Above(s, frames) = AfterOpened(s, frames[1]) \o Above(s, Tail(frames))
             /\ IsSequence(AfterOpened(s, frames[1])) /\ IsSequence(Above(s, Tail(frames)))
  <2> DEFINE t == Tail(frames)
             x == AfterOpened(s, frames[1])
             e == <<x>>
             w == e \o m(t)
             v == m(frames)
  <2>1. /\ IsSequence(t) /\ 1 \in DOMAIN frames /\ Len(t) = Len(frames) - 1 /\ Len(frames) \in Nat
        /\ \A i \in DOMAIN t : i + 1 \in DOMAIN frames /\ t[i] = frames[i + 1]
    BY <1>3, <1>4, HeadTail
  <2>2. Waiting(t)
    BY <1>3, <2>1
  <2>3. /\ IsSequence(v) /\ DOMAIN v = DOMAIN frames /\ Len(v) = Len(frames) /\
               \A i \in DOMAIN frames : v[i] = AfterOpened(s, frames[i])
    BY <1>1, <1>3
  <2>4. /\ IsSequence(m(t)) /\ DOMAIN m(t) = DOMAIN t /\ Len(m(t)) = Len(t) /\ (\A i \in DOMAIN m(t) : IsSequence(m(t)[i]))
        /\ \A i \in DOMAIN t : m(t)[i] = AfterOpened(s, t[i])
    BY <1>1, <2>2
  <2>5. IsSequence(x)
    BY <1>3, <2>1, TopFacts
  <2>6. IsSequence(e) /\ Len(e) = 1 /\ e[1] = x /\ DOMAIN e = 1..1 /\ \A i \in DOMAIN e : e[i] = x
    BY AnySingle, AnySequence
  <2>7. Above(s, t) = FlattenSeq(m(t)) /\ Above(s, frames) = FlattenSeq(v) /\ IsSequence(Above(s, t))
    BY <1>1, <1>2, <2>2
  <2>w. w = e \o m(t)
    OBVIOUS
  <2>x. v[1] = x
    BY <2>1
  <2> DEFINE u == m(t)
  <2>u. /\ IsSequence(u) /\ DOMAIN u = DOMAIN t /\ Len(u) = Len(t) /\ (\A i \in DOMAIN u : IsSequence(u[i]))
        /\ (\A i \in DOMAIN t : u[i] = v[i + 1]) /\ w = e \o u /\ Above(s, t) = FlattenSeq(u)
    BY <2>1, <2>3, <2>4, <2>7
  <2> HIDE DEF u, v, w, e, t, x
  <2>8. JoinOf(w, e, u)
    BY ONLY <2>6, <2>u, JoinFacts
  <2>9. IsSequence(w) /\ Len(w) = 1 + Len(u) /\ w[1] = e[1] /\ \A i \in 1..Len(u) : w[1 + i] = u[i]
    <3>1. 1 \in 1..1
      OBVIOUS
    <3> QED BY ONLY <2>6, <2>8, <3>1 DEF JoinOf
  <2>10. DOMAIN frames = 1..Len(frames) /\ DOMAIN t = 1..Len(t) /\ DOMAIN u = 1..Len(u) /\ DOMAIN v = 1..Len(v)
         /\ Len(u) \in Nat /\ Len(v) \in Nat /\ Len(t) \in Nat
    BY <1>3, <2>1, <2>3, <2>u, AnySequence
  <2>11. Len(v) = Len(w) /\ Len(u) = Len(t) /\ Len(v) = Len(frames)
    <3>2. Len(u) = Len(t) /\ Len(v) = Len(frames)
      BY <2>3, <2>u
    <3> QED BY ONLY <2>1, <2>9, <2>10, <3>2
  <2>12. \A i \in 1..Len(v) : v[i] = w[i]
    <3> SUFFICES ASSUME NEW i \in 1..Len(v) PROVE v[i] = w[i]
      OBVIOUS
    <3>1. CASE i = 1
      BY <2>6, <2>9, <2>x, <3>1
    <3>2. CASE i # 1
      <4> DEFINE j == i - 1
      <4>1. j \in 1..Len(u) /\ 1 + j = i /\ j + 1 = i
        BY ONLY <2>1, <2>10, <2>11, <3>2, i \in 1..Len(v)
      <4> HIDE DEF j
      <4>2. u[j] = v[j + 1] /\ w[1 + j] = u[j]
        BY ONLY <2>9, <2>u, <2>10, <2>11, <4>1
      <4> QED BY <4>1, <4>2
    <3> QED BY <3>1, <3>2
  <2>13. v = w
    BY ONLY <2>3, <2>9, <2>11, <2>12, AnyEqual
  <2>14. FlattenSeq(w) = FlattenSeq(e) \o FlattenSeq(u)
    <3>1. \A i \in DOMAIN e : IsSequence(e[i])
      BY <2>5, <2>6
    <3> QED BY ONLY <2>6, <2>u, <3>1, FlatConcat
  <2>15. FlattenSeq(e) = x
    BY <2>5, FlatSingle DEF e
  <2>16. Above(s, frames) = x \o Above(s, t)
    BY <2>7, <2>13, <2>14, <2>15, <2>u
  <2> QED BY <2>5, <2>7, <2>16 DEF x, t
<1>5. frames = << >> => Above(s, frames) = << >>
  <2>1. m(<< >>) = << >>
    OBVIOUS
  <2> QED BY <1>2, <2>1, FlatEmpty
<1>6. IsSequence(Above(s, frames))
  BY <1>1, <1>2, <1>3
<1> QED BY <1>4, <1>5, <1>6

\* The root of any statement of the body.
LEMMA RootFacts ==
  ASSUME NEW s, AStatement(s), NEW c \in 1..(Len(s.ctes) + 1)
  PROVE  AtTheRoot(s, c)
<1> DEFINE C == CteLists(s)
           N == Len(s.ctes)
           inside == Inside(<<s.target, s.using>>, AliasTable)
<1>k. PICK k \in DOMAIN body.statements : s = body.statements[k]
  BY DEF AStatement
<1>1. /\ \A j \in DOMAIN s.ctes : s.ctes[j].query \in DOMAIN body.queries
      /\ s.kind \in {"select", "ctas", "insert"} => s.query \in DOMAIN body.queries
      /\ s.kind = "merge" => s.query = 0
      /\ s.kind \in {"select", "ctas", "insert", "values"} => s.target.kind # "derived" /\ s.using.kind # "derived"
      /\ s.target.kind # "derived" /\ s.query \in 0..Len(body.queries)
      /\ s.using.kind = "derived" => s.using.query \in DOMAIN body.queries
  BY <1>k, BodyAssumption DEF AStatement
<1>2. IsSequence(s.ctes) /\ N \in Nat /\ DOMAIN s.ctes = 1..N
  <2>1. s \in Statement
    BY <1>k, StatementFacts DEF AStatement
  <2>2. s.ctes \in Seq(Cte)
    BY <2>1 DEF Statement
  <2>3. IsSequence(s.ctes)
    <3> HIDE DEF Cte
    <3> QED BY <2>2, TypedSequence
  <2> QED BY <2>3, AnySequence
<1>3. \A n \in DOMAIN body.queries : IsSequence(AliasTable[n])
  BY AliasesUnfold DEF AStatement
<1>4. IsSequence(C) /\ Len(C) = N /\ DOMAIN C = DOMAIN s.ctes /\ (\A i \in DOMAIN C : IsSequence(C[i]))
      /\ \A i \in DOMAIN C : C[i] = AliasTable[s.ctes[i].query]
  <2>1. C = [i \in DOMAIN s.ctes |-> C[i]] /\ \A i \in DOMAIN s.ctes : C[i] = AliasTable[s.ctes[i].query]
    BY DEF CteLists
  <2> HIDE DEF C, N
  <2>2. IsSequence(C) /\ DOMAIN C = DOMAIN s.ctes /\ Len(C) = Len(s.ctes)
    BY <1>2, <2>1, AlongFacts
  <2> QED BY <1>1, <1>3, <2>1, <2>2 DEF N
<1> DEFINE F(z) == FlattenSeq(Rest(C, z))
<1>5. \A p, z : AtRoot(s, p, z) =
                  IF s.kind \notin {"select", "ctas"} THEN << >>
                  ELSE IF p = "ctes" THEN F(z) \o AliasTable[s.query]
                  ELSE IF z <= N THEN F(z + 1) \o AliasTable[s.query] ELSE << >>
  BY DEF AtRoot
<1>a. Aliases(s) = FlattenSeq(C) \o (IF s.query = 0 THEN << >> ELSE AliasTable[s.query]) \o inside
  BY Zenon DEF Aliases, CteLists, AliasTable
<1>0. 0 \notin DOMAIN body.queries
  BY BodyFacts DEF AStatement
<1>i. IsSequence(inside) /\ (s.kind \in {"select", "ctas", "insert", "values"} => inside = << >>)
  <2> DEFINE items == <<s.target, s.using>>
  <2>1. IsSequence(items) /\ DOMAIN items = {1, 2} /\ items[1] = s.target /\ items[2] = s.using
        /\ Len(items) = 2
    <3>1. items \in Seq({s.target, s.using})
      OBVIOUS
    <3>2. IsSequence(items)
      BY <3>1 DEF IsSequence
    <3>3. DOMAIN items = {1, 2} /\ items[1] = s.target /\ items[2] = s.using /\ Len(items) = 2
      OBVIOUS
    <3> QED BY <3>2, <3>3
  <2>2. Inside(items, AliasTable) = inside
    OBVIOUS
  <2> HIDE DEF items
  <2>3. \A i \in DOMAIN items : items[i].kind = "derived" => IsSequence(AliasTable[items[i].query])
    BY <1>1, <1>3, <2>1
  <2> DEFINE m == Within(items, AliasTable)
  <2>4. IsSequence(inside) /\ inside = FlattenSeq(m)
    BY <2>1, <2>2, <2>3, WithinFacts
  <2>5. ASSUME s.kind \in {"select", "ctas", "insert", "values"} PROVE inside = << >>
    <3>1. \A i \in DOMAIN items : m[i] = << >>
      BY <1>1, <2>1, <2>5 DEF Within
    <3>2. /\ IsSequence(m) /\ Len(m) = 2 /\ DOMAIN m = DOMAIN items /\ \A i \in DOMAIN m : IsSequence(m[i])
      BY <2>1, <2>3, WithinFacts
    <3> HIDE DEF m
    <3>3. Range(FlattenSeq(m)) = UNION {Range(m[i]) : i \in DOMAIN m} /\ IsSequence(FlattenSeq(m))
      BY <3>2, AnyFlatten
    <3>4. \A i \in DOMAIN m : Range(m[i]) = {}
      BY <3>1, <3>2, AnyEmpty
    <3>5. Range(FlattenSeq(m)) = {}
      BY <3>3, <3>4
    <3> DEFINE r == FlattenSeq(m)
    <3>6. r = << >>
      <4>1. IsSequence(r) /\ Range(r) = {}
        BY <3>3, <3>5
      <4> HIDE DEF r
      <4>2. PICK T : r \in Seq(T)
        BY <4>1 DEF IsSequence
      <4> QED BY <4>1, <4>2, RangeFacts
    <3> QED BY <2>4, <3>6
  <2> QED BY <2>4, <2>5
<1>f. IsSequence(FlattenSeq(C)) /\ FlattenSeq(C) = F(1)
  <2>1. 1 \in 1..(Len(C) + 1)
    BY <1>2, <1>4
  <2>2. IsSequence(FlattenSeq(Rest(C, 1))) /\ FlattenSeq(Rest(C, 1)) = FlattenSeq(C)
    BY <1>4, <2>1, FlatRest
  <2> QED BY <2>2
<1>6. ASSUME NEW z \in 1..(N + 1)
      PROVE  /\ IsSequence(F(z)) /\ (z = N + 1 => F(z) = << >>)
             /\ z <= N => F(z) = AliasTable[s.ctes[z].query] \o F(z + 1) /\ z \in DOMAIN s.ctes /\ z + 1 \in 1..(N + 1)
  <2>1. z \in 1..(Len(C) + 1)
    BY <1>4
  <2>2. /\ IsSequence(FlattenSeq(Rest(C, z)))
        /\ z <= Len(C) => IsSequence(C[z]) /\ FlattenSeq(Rest(C, z)) = C[z] \o FlattenSeq(Rest(C, z + 1))
        /\ z = Len(C) + 1 => FlattenSeq(Rest(C, z)) = << >>
    BY <1>4, <2>1, FlatRest
  <2>3. z <= N => z \in DOMAIN s.ctes /\ z + 1 \in 1..(N + 1)
    BY <1>2
  <2> HIDE DEF C, N
  <2> QED BY <1>4, <2>2, <2>3
<1> HIDE DEF F, C, inside
<1>7. ASSUME s.kind \in {"select", "ctas"}
      PROVE  /\ c <= N => /\ s.ctes[c].query \in DOMAIN body.queries
                          /\ AtRoot(s, "ctes", c) = AliasTable[s.ctes[c].query] \o AtRoot(s, "visit", c)
                          /\ AtRoot(s, "returned", c) = AtRoot(s, "ctes", c + 1)
             /\ c = N + 1 => /\ s.query \in DOMAIN body.queries
                             /\ AtRoot(s, "ctes", c) = AliasTable[s.query] \o AtRoot(s, "visit", c)
             /\ \A p : IsSequence(AtRoot(s, p, c))
  <2> DEFINE a == AliasTable[s.query]
  <2>1. IsSequence(a) /\ s.query \in DOMAIN body.queries
    BY <1>1, <1>3, <1>7
  <2>2. ASSUME c <= N PROVE AtRoot(s, "ctes", c) = AliasTable[s.ctes[c].query] \o AtRoot(s, "visit", c)
                            /\ s.ctes[c].query \in DOMAIN body.queries
    <3> DEFINE b == AliasTable[s.ctes[c].query]
               g == F(c + 1)
    <3>1. s.ctes[c].query \in DOMAIN body.queries /\ IsSequence(b) /\ F(c) = b \o g /\ IsSequence(g)
      BY <1>1, <1>3, <1>6, <2>2
    <3>2. AtRoot(s, "ctes", c) = F(c) \o a /\ AtRoot(s, "visit", c) = g \o a
      BY <1>5, <1>7, <2>2
    <3> HIDE DEF a, b, g
    <3>3. (b \o g) \o a = b \o (g \o a)
      BY ONLY <2>1, <3>1, AnyRegroup
    <3> QED BY <3>1, <3>2, <3>3, Zenon DEF b
  <2>3. c <= N => AtRoot(s, "returned", c) = AtRoot(s, "ctes", c + 1)
    BY <1>5, <1>7
  <2>4. ASSUME c = N + 1 PROVE AtRoot(s, "ctes", c) = a \o AtRoot(s, "visit", c)
    <3>1. ~(c <= N)
      BY <1>2, <2>4
    <3>2. AtRoot(s, "ctes", c) = << >> \o a /\ AtRoot(s, "visit", c) = << >>
      BY <1>5, <1>6, <1>7, <2>4, <3>1
    <3> HIDE DEF a
    <3>3. << >> \o a = a /\ a \o << >> = a
      BY <2>1, AnyUnit
    <3> QED BY <3>2, <3>3
  <2>5. \A p : IsSequence(AtRoot(s, p, c))
    <3>1. IsSequence(F(c)) /\ (c <= N => IsSequence(F(c + 1))) /\ IsSequence(<< >>)
      BY <1>6, AnyEmpty
    <3> HIDE DEF a
    <3>2. IsSequence(F(c) \o a)
      BY <2>1, <3>1, AnyConcat
    <3>3. c <= N => IsSequence(F(c + 1) \o a)
      BY <2>1, <3>1, AnyConcat
    <3> QED BY <1>5, <1>7, <3>1, <3>2, <3>3 DEF a
  <2> QED BY <2>1, <2>2, <2>3, <2>4, <2>5
<1>8. \A p : IsSequence(AtRoot(s, p, c))
  <2>1. IsSequence(<< >>)
    BY AnyEmpty
  <2> QED BY <1>5, <1>7, <2>1
<1>9. \A p, q : p # "ctes" /\ q # "ctes" => AtRoot(s, p, c) = AtRoot(s, q, c)
  BY <1>5
<1> DEFINE mid == IF s.query = 0 THEN << >> ELSE AliasTable[s.query]
           flat == FlattenSeq(C)
<1>10. IsSequence(mid) /\ IsSequence(flat) /\ IsSequence(inside) /\ Aliases(s) = (flat \o mid) \o inside
  <2>1. s.query # 0 => s.query \in DOMAIN body.queries
    BY BodyFacts, <1>1 DEF AStatement
  <2> QED BY <1>3, <1>a, <1>i, <1>f, <2>1, AnyEmpty
<1>11. IsSequence(flat \o mid) /\ IsSequence((flat \o mid) \o inside)
  <2> HIDE DEF flat, mid
  <2>1. IsSequence(flat \o mid)
    BY ONLY <1>10, AnyConcat
  <2> QED BY ONLY <1>10, <2>1, AnyConcat
<1>12. s.kind \in {"select", "ctas", "insert"} => mid = AliasTable[s.query] /\ inside = << >>
  BY <1>0, <1>1, <1>i
<1>13. s.kind = "merge" => mid = << >>
  BY <1>1
<1>14. (flat \o mid) \o << >> = flat \o mid /\ flat \o << >> = flat
  <2> HIDE DEF flat, mid
  <2> QED BY ONLY <1>10, <1>11, AnyUnit
<1>15. s.kind \in {"select", "ctas"} => AtRoot(s, "ctes", 1) = flat \o AliasTable[s.query]
  BY <1>5, <1>f
<1> QED BY <1>1, <1>7, <1>8, <1>9, <1>10, <1>11, <1>12, <1>13, <1>14, <1>15 DEF C, inside, AtTheRoot

\* What is left stays the same when only the top of the stack moves.
LEMMA TopMoved ==
  ASSUME NEW p, NEW q, p # "ctes", q # "ctes", NEW frames,
      NEW more, frames # << >>, more # << >>, Tail(more) = Tail(frames), NEW c,
         c \in 1..(Len(ThisStatement.ctes) + 1), Placed,
         AtTop(ThisStatement, p, frames[1]) = AtTop(ThisStatement, q, more[1])
  PROVE  Remaining(ThisStatement, p, frames, c) = Remaining(ThisStatement, q, more, c)
<1>1. AtRoot(ThisStatement, p, c) = AtRoot(ThisStatement, q, c)
  <2>1. AtTheRoot(ThisStatement, c)
    BY RootFacts, ThisIsAStatement
  <2> QED BY <2>1 DEF AtTheRoot
<1> QED BY <1>1 DEF Remaining

\* A query is opened inside another.
LEMMA QueryPushed ==
  ASSUME Placed, NEW frames, Frames(frames), frames # << >>, Opened(frames[1]), NEW c \in 1..(Len(ThisStatement.ctes) + 1),
         NEW n \in DOMAIN body.queries, NEW f, IsFrame(f), f.query = n, f.at = 1,
         AtTop(ThisStatement, "visit", frames[1]) = AliasTable[n] \o AfterOpened(ThisStatement, frames[1])
  PROVE  Remaining(ThisStatement, "visit", <<f>> \o frames, c) = Remaining(ThisStatement, "visit", frames, c)
<1> DEFINE s == ThisStatement
           g == <<f>> \o frames
           a == AliasTable[n]
           b == AfterOpened(s, frames[1])
           t == Above(s, Tail(frames))
           r == AtRoot(s, "visit", c)
<1>1. g[1] = f /\ g # << >> /\ Tail(g) = frames
  BY FramePushed
<1>2. n # 0 /\ IsSequence(a)
  BY BodyFacts, AliasesUnfold DEF Placed
<1>3. AtTop(s, "visit", f) = a
  BY <1>2, AtStart, ThisIsAStatement DEF IsFrame
<1>4. Above(s, frames) = b \o t /\ IsSequence(b) /\ IsSequence(t)
  BY AboveFacts
<1> HIDE DEF g
<1>5. Remaining(s, "visit", g, c) = (a \o (b \o t)) \o r
  BY <1>1, <1>3, <1>4 DEF Remaining
<1>6. Remaining(s, "visit", frames, c) = ((a \o b) \o t) \o r
  BY DEF Remaining
<1> HIDE DEF a, b, t, r
<1>7. (a \o b) \o t = a \o (b \o t)
  BY ONLY <1>2, <1>4, AnyRegroup
<1> QED BY <1>5, <1>6, <1>7 DEF g

\* A query that has registered everything is closed.
LEMMA QueryPopped ==
  ASSUME Placed, NEW frames, Frames(frames), frames # << >>, NEW p, p # "ctes", NEW c \in 1..(Len(ThisStatement.ctes) + 1),
         AtTop(ThisStatement, p, frames[1]) = << >>
  PROVE  Remaining(ThisStatement, "returned", Tail(frames), c) = Remaining(ThisStatement, p, frames, c)
<1> DEFINE s == ThisStatement
           u == Tail(frames)
           t == Above(s, u)
           r == AtRoot(s, p, c)
<1>1. Frames(u) /\ (u # << >> => Opened(u[1]))
  BY FramePopped
<1>2. AtRoot(s, "returned", c) = r /\ IsSequence(r)
  <2>1. AtTheRoot(ThisStatement, c)
    BY RootFacts, ThisIsAStatement
  <2> QED BY <2>1 DEF AtTheRoot
<1>3. Remaining(s, p, frames, c) = (<< >> \o t) \o r
  BY DEF Remaining
<1>4. /\ IsSequence(t) /\ (u = << >> => t = << >>)
      /\ u # << >> => t = AfterOpened(s, u[1]) \o Above(s, Tail(u))
  BY <1>1, AboveFacts
<1>5. Remaining(s, "returned", u, c) = IF u = << >> THEN r ELSE (AfterOpened(s, u[1]) \o Above(s, Tail(u))) \o r
  BY <1>2 DEF Remaining, AtTop
<1> HIDE DEF u, t, r
<1>6. << >> \o t = t /\ << >> \o r = r
  BY <1>2, <1>4, AnyUnit
<1>7. CASE u = << >>
  BY <1>3, <1>4, <1>5, <1>6, <1>7 DEF u
<1>8. CASE u # << >>
  <2>1. Remaining(s, "returned", u, c) = t \o r
    BY <1>4, <1>5, <1>8
  <2> QED BY <1>3, <1>6, <2>1 DEF u
<1> QED BY <1>7, <1>8 DEF u

\* A derived table is registered.
LEMMA AliasTaken ==
  ASSUME Placed, NEW frames, Frames(frames), frames # << >>, NEW c \in 1..(Len(ThisStatement.ctes) + 1), ~IsUnion(frames[1]),
         Opened(frames[1]), NEW more, more # << >>, Tail(more) = Tail(frames),
         more[1].query = frames[1].query, more[1].at = frames[1].at
  PROVE  /\ Remaining(ThisStatement, "returned", frames, c)
              = <<FrameItems(frames[1])[frames[1].at].alias>> \o Remaining(ThisStatement, "on", more, c)
         /\ IsSequence(Remaining(ThisStatement, "on", more, c))
<1> DEFINE s == ThisStatement
           f == frames[1]
           e == <<FrameItems(f)[f.at].alias>>
           o == AtTop(s, "on", f)
           t == Above(s, Tail(frames))
           r == AtRoot(s, "on", c)
<1>1. IsFrame(f)
  <2>1. 1 \in DOMAIN frames
    BY HeadTail DEF Frames
  <2> QED BY <2>1 DEF Frames
<1>2. AfterOpened(s, f) = e \o o /\ IsSequence(o)
  BY <1>1, TopFacts, Zenon DEF Opened
<1>3. IsSequence(t)
  BY AboveFacts
<1>4. AtRoot(s, "returned", c) = r /\ IsSequence(r)
  <2>1. AtTheRoot(ThisStatement, c)
    BY RootFacts, ThisIsAStatement
  <2> QED BY <2>1 DEF AtTheRoot
<1>5. IsSequence(e)
  BY AnySingle
<1>6. AtTop(s, "on", more[1]) = o /\ AtTop(s, "returned", f) = AfterOpened(s, f)
  BY DEF AtTop
<1>7. Remaining(s, "returned", frames, c) = ((e \o o) \o t) \o r
  BY <1>2, <1>4, <1>6 DEF Remaining
<1>8. Remaining(s, "on", more, c) = (o \o t) \o r
  BY <1>6 DEF Remaining
<1> HIDE DEF e, o, t, r
<1>9. (e \o o) \o t = e \o (o \o t)
  BY ONLY <1>2, <1>3, <1>5, AnyRegroup
<1>10. IsSequence(o \o t)
  BY ONLY <1>2, <1>3, AnyConcat
<1> DEFINE w == o \o t
<1>11. IsSequence(w)
  BY <1>10
<1>12. Remaining(s, "returned", frames, c) = (e \o w) \o r /\ Remaining(s, "on", more, c) = w \o r
  BY <1>7, <1>8, <1>9
<1> HIDE DEF w
<1>13. (e \o w) \o r = e \o (w \o r)
  BY ONLY <1>4, <1>5, <1>11, AnyRegroup
<1>14. IsSequence(w \o r)
  BY ONLY <1>4, <1>11, AnyConcat
<1> QED BY <1>12, <1>13, <1>14 DEF e

\* What is left depends on the body only, besides what it is given.
LEMMA SameRemaining ==
  ASSUME body' = body
  PROVE  /\ \A s, p, frames, c : Remaining(s, p, frames, c)' = Remaining(s, p, frames, c)
         /\ \A s : Aliases(s)' = Aliases(s)
<1>1. AliasTable' = AliasTable
  BY DEF AliasTable
<1>2. \A s, n : ItemsIn(s, n)' = ItemsIn(s, n)
  BY DEF ItemsIn
<1>3. \A s, n, k : ItemsFrom(s, n, k)' = ItemsFrom(s, n, k)
  BY <1>1, <1>2 DEF ItemsFrom
<1>4. \A f : IsUnion(f)' = IsUnion(f)
  BY DEF IsUnion
<1>5. \A s, f : AfterOpened(s, f)' = AfterOpened(s, f)
  <2> SUFFICES ASSUME NEW s, NEW f PROVE AfterOpened(s, f)' = AfterOpened(s, f)
    OBVIOUS
  <2>1. AfterOpened(s, f)' =
          IF IsUnion(f)' THEN IF f.at = 1 THEN AliasTable'[body'.queries[f.query].right] ELSE << >>
          ELSE <<ItemsIn(s, f.query)'[f.at].alias>> \o ItemsFrom(s, f.query, f.at + 1)'
    BY DEF AfterOpened
  <2> QED BY <1>1, <1>2, <1>3, <1>4, <2>1 DEF AfterOpened
<1>6. \A s, p, f : AtTop(s, p, f)' = AtTop(s, p, f)
  <2> SUFFICES ASSUME NEW s, NEW p, NEW f PROVE AtTop(s, p, f)' = AtTop(s, p, f)
    OBVIOUS
  <2>1. AtTop(s, p, f)' =
          CASE p = "visit" ->
                 IF IsUnion(f)'
                 THEN IF f.at = 1 THEN AliasTable'[body'.queries[f.query].left] \o AliasTable'[body'.queries[f.query].right]
                      ELSE AliasTable'[body'.queries[f.query].right]
                 ELSE IF f.at <= Len(ItemsIn(s, f.query)') THEN ItemsFrom(s, f.query, f.at)' ELSE << >>
            [] p = "on" -> ItemsFrom(s, f.query, f.at + 1)'
            [] OTHER -> AfterOpened(s, f)'
    BY DEF AtTop
  <2> QED BY <1>1, <1>2, <1>3, <1>4, <1>5, <2>1 DEF AtTop
<1>7. \A s, frames : Above(s, frames)' = Above(s, frames)
  <2> SUFFICES ASSUME NEW s, NEW frames PROVE Above(s, frames)' = Above(s, frames)
    OBVIOUS
  <2>1. Above(s, frames)' = FlattenSeq([i \in DOMAIN frames |-> AfterOpened(s, frames[i])'])
    BY Zenon DEF Above
  <2>2. [i \in DOMAIN frames |-> AfterOpened(s, frames[i])'] = [i \in DOMAIN frames |-> AfterOpened(s, frames[i])]
    BY <1>5
  <2> QED BY <2>1, <2>2 DEF Above
<1>8. \A s, p, c : AtRoot(s, p, c)' = AtRoot(s, p, c)
  <2>1. \A s : CteLists(s)' = CteLists(s)
    BY <1>1 DEF CteLists
  <2> SUFFICES ASSUME NEW s, NEW p, NEW c PROVE AtRoot(s, p, c)' = AtRoot(s, p, c)
    OBVIOUS
  <2>2. AtRoot(s, p, c)' =
          IF s.kind \notin {"select", "ctas"} THEN << >>
          ELSE IF p = "ctes" THEN FlattenSeq(Rest(CteLists(s)', c)) \o AliasTable'[s.query]
          ELSE IF c <= Len(s.ctes) THEN FlattenSeq(Rest(CteLists(s)', c + 1)) \o AliasTable'[s.query] ELSE << >>
    BY DEF AtRoot
  <2> QED BY <1>1, <2>1, <2>2 DEF AtRoot
<1>9. \A s, p, frames, c : Remaining(s, p, frames, c)' = Remaining(s, p, frames, c)
  <2> SUFFICES ASSUME NEW s, NEW p, NEW frames, NEW c PROVE Remaining(s, p, frames, c)' = Remaining(s, p, frames, c)
    OBVIOUS
  <2>1. Remaining(s, p, frames, c)' =
          IF frames = << >> THEN AtRoot(s, p, c)'
          ELSE AtTop(s, p, frames[1])' \o Above(s, Tail(frames))' \o AtRoot(s, p, c)'
    BY DEF Remaining
  <2> QED BY <1>6, <1>7, <1>8, <2>1 DEF Remaining
<1>10. \A s : Aliases(s)' = Aliases(s)
  BY DEF Aliases
<1> QED BY <1>9, <1>10

-----------------------------------------------------------------------------
(* Names are registered once, unless two derived tables share an alias.    *)

\* A name registered for the first time, with what the last query maps.
LEMMA NewName ==
  ASSUME Registered, NEW R, NEW rank, Grounded(R, rank, expansions), IsSequence(returned), MapsReal(returned, R),
         NEW o, o \notin R, o[1] # "base", Remember(o)
  PROVE  /\ Registered'
         /\ \E more : Grounded(R \cup {o}, more, expansions')
<1> DEFINE D == DOMAIN expansions
           e == [n \in DOMAIN returned |-> returned[n].sources]
           more == [x \in R \cup {o} |-> IF x = o THEN 0 ELSE rank[x] + 1]
<1>1. expansions' = [x \in D \cup {o} |-> IF x = o THEN e ELSE expansions[x]]
  BY DEF Remember
<1>2. DOMAIN expansions' = D \cup {o} /\ expansions'[o] = e /\ \A x \in D : x # o => expansions'[x] = expansions[x]
  BY <1>1
<1>3. IsSequence(e) /\ DOMAIN e = DOMAIN returned
  <2>1. e = [n \in DOMAIN returned |-> e[n]]
    OBVIOUS
  <2> HIDE DEF e
  <2> QED BY <2>1, AlongFacts
<1>4. \A n \in DOMAIN e : e[n] = returned[n].sources
  OBVIOUS
<1> HIDE DEF e
<1>5. Registered'
  BY FS_AddElement, <1>2, <1>3 DEF Registered
<1>6. more \in [R \cup {o} -> Nat] /\ more[o] = 0 /\ \A x \in R : more[x] = rank[x] + 1 /\ rank[x] \in Nat
  BY DEF Grounded
<1> HIDE DEF more
<1>7. ASSUME NEW x \in R \cup {o}
      PROVE  x \in DOMAIN expansions' /\ \A n \in DOMAIN expansions'[x] : \A c \in expansions'[x][n] :
               Real(c, R \cup {o}) /\ (c.owner \in R \cup {o} => more[x] < more[c.owner])
  <2>1. CASE x = o
    <3> SUFFICES ASSUME NEW n \in DOMAIN e, NEW c \in e[n]
                 PROVE  Real(c, R \cup {o}) /\ (c.owner \in R \cup {o} => more[o] < more[c.owner])
      BY <1>2, <2>1
    <3>1. Real(c, R)
      BY <1>3, <1>4 DEF MapsReal
    <3>2. c.owner \in R \cup {o} => c.owner \in R
      BY <3>1 DEF Real, IsVirtual
    <3> QED BY <1>6, <3>1, <3>2 DEF Real
  <2>2. CASE x # o
    <3>1. x \in R /\ x \in D /\ expansions'[x] = expansions[x]
      BY <1>2, <2>2 DEF Grounded
    <3> SUFFICES ASSUME NEW n \in DOMAIN expansions[x], NEW c \in expansions[x][n]
                 PROVE  Real(c, R \cup {o}) /\ (c.owner \in R \cup {o} => more[x] < more[c.owner])
      BY <1>2, <3>1
    <3>2. Real(c, R) /\ (c.owner \in R => rank[x] < rank[c.owner])
      BY <3>1 DEF Grounded
    <3>3. c.owner \in R \cup {o} => c.owner \in R
      BY <3>2 DEF Real, IsVirtual
    <3>4. c.owner \in R => more[x] < more[c.owner]
      BY <1>6, <3>1, <3>2
    <3> QED BY <3>2, <3>3, <3>4 DEF Real
  <2> QED BY <2>1, <2>2
<1>8. Grounded(R \cup {o}, more, expansions')
  BY <1>6, <1>7 DEF Grounded
<1> QED BY <1>5, <1>8

\* The columns of a name that is registered are real.
LEMMA VirtualReal ==
  ASSUME NEW o, NEW names, IsSequence(names), NEW R, o \in R
  PROVE  IsSequence(Virtual(o, names)) /\ \A c \in Range(Virtual(o, names)) : Real(c, R)
<1> DEFINE m == Virtual(o, names)
<1>1. m = [n \in DOMAIN names |-> m[n]] /\ \A n \in DOMAIN names : Real(m[n], R)
  BY DEF Virtual, Real
<1> HIDE DEF m
<1>2. IsSequence(m) /\ \A x \in Range(m) : \E i \in DOMAIN names : x = m[i]
  BY <1>1, AlongFacts
<1> QED BY <1>1, <1>2 DEF m

\* One more binding of real columns.
LEMMA BindReal ==
  ASSUME NEW scope, IsScope(scope), NEW alias, NEW columns, IsSequence(columns), NEW R,
         ScopeReal(scope, R), \A c \in Range(columns) : Real(c, R)
  PROVE  ScopeReal(Bind(scope, [alias |-> alias, columns |-> columns]), R)
<1> DEFINE b == [alias |-> alias, columns |-> columns]
           after == Bind(scope, b)
<1>1. \A j \in DOMAIN after : after[j] = b \/ (j \in DOMAIN scope /\ after[j] = scope[j])
  BY BindFacts
<1>2. b.columns = columns
  OBVIOUS
<1> HIDE DEF after, b
<1>3. ScopeReal(after, R)
  BY <1>1, <1>2 DEF ScopeReal
<1> QED BY <1>3 DEF after, b

\* A stack with another frame on top, with one more, and with one less.
LEMMA RealStack ==
  ASSUME NEW frames, Frames(frames), NEW R, FramesReal(frames, R)
  PROVE  /\ frames # << >> =>
              /\ FramesReal(Tail(frames), R) /\ ScopeReal(frames[1].scope, R) /\ MapsReal(frames[1].maps, R)
              /\ \A f : ScopeReal(f.scope, R) /\ MapsReal(f.maps, R) => FramesReal([frames EXCEPT ![1] = f], R)
         /\ \A f : ScopeReal(f.scope, R) /\ MapsReal(f.maps, R) => FramesReal(<<f>> \o frames, R)
<1>1. IsSequence(frames)
  BY DEF Frames
<1>2. ASSUME frames # << >>
      PROVE  FramesReal(Tail(frames), R) /\ ScopeReal(frames[1].scope, R) /\ MapsReal(frames[1].maps, R)
  <2> DEFINE t == Tail(frames)
  <2>1. 1 \in DOMAIN frames /\ \A i \in DOMAIN t : i + 1 \in DOMAIN frames /\ t[i] = frames[i + 1]
    BY <1>1, <1>2, HeadTail
  <2> HIDE DEF t
  <2>2. FramesReal(t, R)
    BY <2>1 DEF FramesReal
  <2> QED BY <2>1, <2>2 DEF FramesReal, t
<1>3. ASSUME NEW f, ScopeReal(f.scope, R), MapsReal(f.maps, R), frames # << >> PROVE FramesReal([frames EXCEPT ![1] = f], R)
  <2> DEFINE g == [frames EXCEPT ![1] = f]
  <2>1. DOMAIN g = DOMAIN frames /\ \A i \in DOMAIN frames : g[i] = f \/ g[i] = frames[i]
    OBVIOUS
  <2> HIDE DEF g
  <2>2. FramesReal(g, R)
    BY <1>3, <2>1 DEF FramesReal
  <2> QED BY <2>2 DEF g
<1>4. ASSUME NEW f, ScopeReal(f.scope, R), MapsReal(f.maps, R) PROVE FramesReal(<<f>> \o frames, R)
  <2> DEFINE e == <<f>>
             g == e \o frames
  <2>1. IsSequence(e) /\ Len(e) = 1 /\ (\A i \in 1..Len(e) : e[i] = f)
    BY AnySingle
  <2>2. g = e \o frames
    OBVIOUS
  <2> HIDE DEF e, g
  <2>3. JoinOf(g, e, frames)
    BY ONLY <1>1, <2>1, <2>2, JoinFacts
  <2>4. /\ IsSequence(g) /\ Len(frames) \in Nat /\ Len(g) = 1 + Len(frames)
        /\ \A i \in 1..1 : g[i] = f
        /\ \A i \in 1..Len(frames) : g[1 + i] = frames[i]
    BY ONLY <2>1, <2>3 DEF JoinOf
  <2>5. DOMAIN g = 1..Len(g) /\ DOMAIN frames = 1..Len(frames)
    BY <1>1, <2>4, AnySequence
  <2>6. \A i \in DOMAIN g : g[i] = f \/ \E j \in DOMAIN frames : g[i] = frames[j]
    <3> SUFFICES ASSUME NEW i \in DOMAIN g PROVE g[i] = f \/ \E j \in DOMAIN frames : g[i] = frames[j]
      OBVIOUS
    <3>1. i \in 1..1 \/ (i - 1 \in 1..Len(frames) /\ 1 + (i - 1) = i)
      <4>1. i \in 1..(1 + Len(frames)) /\ Len(frames) \in Nat
        BY <2>4, <2>5
      <4> QED BY ONLY <4>1
    <3> QED BY <2>4, <2>5, <3>1
  <2>7. FramesReal(g, R)
    BY <1>4, <2>6 DEF FramesReal
  <2> QED BY <2>7 DEF g, e
<1> QED BY <1>2, <1>3, <1>4

\* What a step within a statement leaves, when no name is registered.
LEMMA GroundCarried ==
  ASSUME body' = body, current' = current, Busy, GroundInv, expansions' = expansions, cte' \in {cte, cte + 1}, cte \in Nat,
         Remaining(ThisStatement, pc', stack', cte') = Remaining(ThisStatement, pc, stack, cte), pc' # "raised",
         \A R, rank : Grounded(R, rank, expansions) /\ AllReal(R) => AllReal(R)'
  PROVE  GroundInv'
<1>1. ThisStatement' = ThisStatement
  BY SameStatement
<1>2. Aliases(ThisStatement)' = Aliases(ThisStatement)
  BY <1>1, SameRemaining
<1>3. Remaining(ThisStatement, pc, stack, cte)' = Remaining(ThisStatement, pc', stack', cte')
  BY <1>1, SameRemaining
<1>4. Distinct(Aliases(ThisStatement))' = Distinct(Aliases(ThisStatement))
  BY <1>2 DEF Distinct
<1>5. ASSUME NEW R, NEW rank, NEW before, Passed(R, rank, before) PROVE Passed(R, rank, before)'
  <2>1. \A o \in R : Had(o, ThisStatement, cte, Range(before))'
    <3>1. \A k \in 1..(cte - 1) : k \in 1..(cte' - 1)
      <4> SUFFICES ASSUME NEW d, d \in {cte, cte + 1} PROVE \A k \in 1..(cte - 1) : k \in 1..(d - 1)
        OBVIOUS
      <4> QED BY ONLY cte \in Nat, d \in {cte, cte + 1}
    <3> QED BY <1>1, <1>5, <3>1 DEF Passed, Had
  <2>2. Grounded(R, rank, expansions)' /\ AllReal(R)'
    BY <1>5 DEF Passed, Grounded
  <2>3. Aliases(ThisStatement)' = before \o Remaining(ThisStatement, pc, stack, cte)'
    BY <1>2, <1>3, <1>5 DEF Passed
  <2> QED BY <1>5, <2>1, <2>2, <2>3 DEF Passed
<1>6. ASSUME Distinct(Aliases(ThisStatement))' PROVE \E R, rank, before : Passed(R, rank, before)'
  <2>1. PICK R, rank, before : Passed(R, rank, before)
    BY <1>4, <1>6 DEF GroundInv
  <2> QED BY <1>5, <2>1
<1> QED BY <1>6 DEF GroundInv

\* Where a step within a statement leads.
LEMMA ShapeCarried ==
  ASSUME body' = body, current' = current, Registered', Visiting, Frames(stack'), AtPlace(pc', stack'),
         pc' = "returned" => IsSequence(returned'), cte' \in 1..(Len(ThisStatement.ctes) + 1), IsScope(cte_scope')
  PROVE  ShapeInv'
<1>1. ThisStatement' = ThisStatement /\ Visiting' = Visiting
  BY SameStatement
<1>2. \A f : IsFrame(f)' = IsFrame(f) /\ Opened(f)' = Opened(f) /\ IsUnion(f)' = IsUnion(f) /\ FrameItems(f)' = FrameItems(f)
  BY SameStatement
<1>3. Frames(stack)'
  BY <1>2 DEF Frames
<1>4. AtPlace(pc, stack)'
  BY <1>1, <1>2 DEF AtPlace
<1>5. IsScope(cte_scope)'
  BY DEF IsScope
<1> QED BY <1>1, <1>3, <1>4, <1>5 DEF ShapeInv

\* A step within a query starts there.
LEMMA InsideFacts ==
  ASSUME OrderInv, ShapeInv, pc \in {"visit", "on", "returned"}, pc = "returned" => stack # << >>
  PROVE  Inside1
<1>1. Busy /\ pc # "ctes" /\ pc # "raised"
  BY DEF Busy
<1>2. Placed
  BY <1>1 DEF OrderInv, Placed
<1>3. /\ Registered /\ Visiting /\ Frames(stack) /\ AtPlace(pc, stack) /\ cte \in 1..(Len(ThisStatement.ctes) + 1)
      /\ IsScope(cte_scope)
  BY <1>1 DEF ShapeInv
<1>4. stack # << >>
  BY <1>3 DEF AtPlace
<1>5. Top = stack[1] /\ 1 \in DOMAIN stack
  BY <1>3, <1>4, HeadTail DEF Top, Frames
<1>6. IsFrame(stack[1])
  BY <1>3, <1>5 DEF Frames
<1>7. InUnion = IsUnion(stack[1])
  BY <1>5 DEF InUnion, IsMerge, ThisQuery, IsUnion
<1>8. Items = FrameItems(stack[1]) /\ Items = ItemsIn(ThisStatement, stack[1].query)
  BY <1>5 DEF Items, FrameItems
<1>9. DOMAIN Items = 1..Len(Items) /\ Len(Items) \in Nat
  BY <1>2, <1>6, <1>8, TopFacts
<1>10. stack[1].at \in Nat \ {0} /\ IsScope(stack[1].scope) /\ IsSequence(stack[1].maps)
  BY <1>6 DEF IsFrame
<1>11. IsSequence(Chain)
  BY <1>3, ChainFacts
<1>12. cte \in Nat
  BY <1>3
<1> QED BY <1>1, <1>2, <1>3, <1>4, <1>5, <1>6, <1>7, <1>8, <1>9, <1>10, <1>11, <1>12 DEF Inside1

\* The ways a step moves it.
LEMMA MovedIs ==
  ASSUME NEW frames, Frames(frames), frames # << >>
  PROVE  LET f == frames[1]
         IN  /\ \A place : [frames EXCEPT ![1].at = place] = [frames EXCEPT ![1] = Moved(f, place, f.scope, f.maps)]
             /\ \A scope : [frames EXCEPT ![1].scope = scope] = [frames EXCEPT ![1] = Moved(f, f.at, scope, f.maps)]
             /\ \A place, maps : Retold(frames, place, maps) = [frames EXCEPT ![1] = Moved(f, place, f.scope, maps)]
<1>1. 1 \in DOMAIN frames
  BY HeadTail DEF Frames
<1>2. IsFrame(frames[1])
  BY <1>1 DEF Frames
<1> DEFINE f == frames[1]
           x == f.query
           y == f.at
           z == f.scope
           w == f.maps
<1>3. f = [query |-> x, at |-> y, scope |-> z, maps |-> w]
  BY <1>2 DEF IsFrame
<1> HIDE DEF f, x, y, z, w
<1>4. ASSUME NEW place PROVE [f EXCEPT !.at = place] = [query |-> x, at |-> place, scope |-> z, maps |-> w]
  BY ONLY <1>3
<1>5. ASSUME NEW scope PROVE [f EXCEPT !.scope = scope] = [query |-> x, at |-> y, scope |-> scope, maps |-> w]
  BY ONLY <1>3
<1>6. ASSUME NEW place, NEW maps
      PROVE  [[f EXCEPT !.at = place] EXCEPT !.maps = maps] = [query |-> x, at |-> place, scope |-> z, maps |-> maps]
  <2> DEFINE h == [f EXCEPT !.at = place]
  <2>1. h = [query |-> x, at |-> place, scope |-> z, maps |-> w]
    BY <1>4
  <2> HIDE DEF h
  <2>2. [h EXCEPT !.maps = maps] = [query |-> x, at |-> place, scope |-> z, maps |-> maps]
    BY ONLY <2>1
  <2> QED BY ONLY <2>2 DEF h
<1>7. ASSUME NEW place
      PROVE  [frames EXCEPT ![1].at = place] = [frames EXCEPT ![1] = Moved(f, place, f.scope, f.maps)]
  BY <1>4 DEF Moved, x, z, w, f
<1>8. ASSUME NEW scope
      PROVE  [frames EXCEPT ![1].scope = scope] = [frames EXCEPT ![1] = Moved(f, f.at, scope, f.maps)]
  BY <1>5 DEF Moved, x, y, w, f
<1>9. ASSUME NEW place, NEW maps
      PROVE  Retold(frames, place, maps) = [frames EXCEPT ![1] = Moved(f, place, f.scope, maps)]
  BY <1>1, <1>6 DEF f, Retold, Moved, x, z
<1> QED BY <1>7, <1>8, <1>9 DEF f

\* What it is then.
LEMMA MovedFacts ==
  ASSUME NEW f, IsFrame(f), NEW place \in Nat \ {0}, NEW scope, IsScope(scope), NEW maps, IsSequence(maps)
  PROVE  LET g == Moved(f, place, scope, maps)
         IN  IsFrame(g) /\ g.query = f.query /\ g.at = place /\ g.scope = scope /\ g.maps = maps
BY DEF Moved, IsFrame

\* What a step that moves the top leaves.
LEMMA TopStep ==
  ASSUME Inside1, GroundInv, body' = body, current' = current, expansions' = expansions, cte' = cte, cte_scope' = cte_scope,
         NEW g, IsFrame(g), stack' = [stack EXCEPT ![1] = g], pc' \in {"visit", "on"}, AtPlace(pc', stack'),
         AtTop(ThisStatement, pc, stack[1]) = AtTop(ThisStatement, pc', g),
         \A R, rank : Grounded(R, rank, expansions) /\ AllReal(R) => ScopeReal(g.scope, R) /\ MapsReal(g.maps, R)
  PROVE  ShapeInv' /\ GroundInv' /\ StaysOwed
<1>1. /\ Frames(stack) /\ stack # << >> /\ Placed /\ Busy /\ Registered /\ Visiting /\ IsScope(cte_scope)
      /\ cte \in 1..(Len(ThisStatement.ctes) + 1) /\ cte \in Nat /\ pc # "ctes"
  BY DEF Inside1
<1>2. Frames(stack') /\ stack' # << >> /\ stack'[1] = g /\ Tail(stack') = Tail(stack)
  BY <1>1, TopReplaced
<1>3. Registered'
  BY <1>1 DEF Registered
<1>4. pc' # "returned" /\ pc' # "raised" /\ pc' # "ctes"
  OBVIOUS
<1>5. ShapeInv'
  BY <1>1, <1>2, <1>3, <1>4, ShapeCarried
<1>6. Remaining(ThisStatement, pc', stack', cte) = Remaining(ThisStatement, pc, stack, cte)
  <2>1. AtTop(ThisStatement, pc, stack[1]) = AtTop(ThisStatement, pc', stack'[1])
    BY <1>2
  <2>2. pc # "ctes" /\ pc' # "ctes" /\ stack # << >> /\ stack' # << >> /\ Tail(stack') = Tail(stack)
        /\ cte \in 1..(Len(ThisStatement.ctes) + 1) /\ Placed
    BY <1>1, <1>2, <1>4
  <2> QED BY ONLY <2>1, <2>2, TopMoved
<1>7. ASSUME NEW R, NEW rank, Grounded(R, rank, expansions), AllReal(R) PROVE AllReal(R)'
  <2>1. FramesReal(stack', R)
    BY <1>1, <1>7, RealStack DEF AllReal
  <2> QED BY <1>4, <1>7, <2>1 DEF AllReal, FramesReal
<1>8. GroundInv'
  BY <1>1, <1>4, <1>6, <1>7, GroundCarried
<1> QED BY <1>5, <1>6, <1>8 DEF StaysOwed

\* A table is bound.
LEMMA BindTableKept ==
  ASSUME OrderInv, ShapeInv, GroundInv, BindTable
  PROVE  ShapeInv' /\ GroundInv' /\ StaysOwed
<1>1. pc = "visit" /\ pc' = "on" /\ ~InUnion /\ Top.at <= Len(Items) /\ ThisItem.kind = "table"
      /\ stack' = BindTop(Exposed(ThisItem), Lookup(ThisItem.schema, ThisItem.name))
      /\ body' = body /\ current' = current /\ expansions' = expansions /\ cte' = cte /\ cte_scope' = cte_scope
  BY DEF BindTable, InFrom
<1>2. Inside1
  BY <1>1, InsideFacts
<1> DEFINE f == stack[1]
           cols == Lookup(ThisItem.schema, ThisItem.name)
           scope == Bind(f.scope, [alias |-> Exposed(ThisItem), columns |-> cols])
           g == Moved(f, f.at, scope, f.maps)
<1>3. /\ IsFrame(f) /\ f.at \in Nat \ {0} /\ IsScope(f.scope) /\ IsSequence(f.maps) /\ Placed /\ ~IsUnion(f)
      /\ Items = FrameItems(f) /\ DOMAIN Items = 1..Len(Items) /\ Len(Items) \in Nat /\ Top = f
  BY <1>1, <1>2 DEF Inside1
<1>4. IsSequence(cols) /\ \A n \in DOMAIN cols : ~IsVirtual(cols[n])
  BY LookupFacts
<1> HIDE DEF cols
<1>5. IsScope(scope)
  BY <1>3, <1>4, BindFacts
<1>6. stack' = [stack EXCEPT ![1] = g]
  BY <1>1, <1>2, MovedIs DEF BindTop, cols, Inside1
<1> HIDE DEF f, scope, g
<1>7. IsFrame(g) /\ g.query = f.query /\ g.at = f.at /\ g.scope = scope /\ g.maps = f.maps
  BY <1>3, <1>5, MovedFacts DEF g
<1>8. f.at \in DOMAIN FrameItems(f) /\ FrameItems(f)[f.at].kind = "table"
  BY <1>1, <1>3 DEF ThisItem
<1>9. AtPlace("on", stack') /\ stack'[1] = g
  <2>1. stack' # << >> /\ stack'[1] = g
    BY <1>2, <1>6, <1>7, TopReplaced DEF Inside1
  <2>2. ~IsUnion(g) /\ FrameItems(g) = FrameItems(f)
    BY <1>3, <1>7 DEF IsUnion, FrameItems
  <2> QED BY <1>7, <1>8, <2>1, <2>2 DEF AtPlace
<1>10. AtTop(ThisStatement, "visit", f) = AtTop(ThisStatement, "on", g)
  BY <1>3, <1>8, TopFacts, <1>7, Zenon DEF AtTop
<1>11. ASSUME NEW R, AllReal(R) PROVE ScopeReal(g.scope, R) /\ MapsReal(g.maps, R)
  BY <1>2, <1>11, RealStack, <1>4, <1>3, BindReal, <1>7 DEF AllReal, Inside1, f, Range, Real, scope
<1> QED BY <1>1, <1>2, <1>6, <1>7, <1>9, <1>10, <1>11, TopStep DEF f

\* Each element of a joined sequence is of one of the two.
LEMMA JoinElements ==
  ASSUME NEW s, NEW t, IsSequence(s), IsSequence(t)
  PROVE  ElementsOf(s \o t, s, t)
<1> DEFINE w == s \o t
<1>1. JoinOf(w, s, t)
  BY JoinFacts
<1> HIDE DEF w
<1>2. IsSequence(w)
  BY <1>1 DEF JoinOf
<1>3. DOMAIN w = 1..Len(w) /\ DOMAIN s = 1..Len(s) /\ DOMAIN t = 1..Len(t)
  BY <1>2, AnySequence
<1>4. /\ Len(s) \in Nat /\ Len(t) \in Nat /\ Len(w) = Len(s) + Len(t)
      /\ \A i \in 1..Len(s) : w[i] = s[i]
      /\ \A i \in 1..Len(t) : w[Len(s) + i] = t[i]
  BY <1>1 DEF JoinOf
<1>5. ASSUME NEW n \in 1..Len(w)
      PROVE  (n \in 1..Len(s) /\ w[n] = s[n]) \/ (\E m \in 1..Len(t) : w[n] = t[m])
  <2>1. CASE n <= Len(s)
    BY ONLY <1>4, <1>5, <2>1
  <2>2. CASE n > Len(s)
    <3>1. n - Len(s) \in 1..Len(t) /\ Len(s) + (n - Len(s)) = n
      BY ONLY <1>4, <1>5, <2>2
    <3> QED BY <1>4, <3>1
  <2> QED BY <1>4, <2>1, <2>2
<1> QED BY <1>2, <1>3, <1>5 DEF w, ElementsOf

\* One more element.
LEMMA AppendElements ==
  ASSUME NEW s, IsSequence(s), NEW e
  PROVE  /\ IsSequence(Append(s, e))
         /\ \A n \in DOMAIN Append(s, e) : (n \in DOMAIN s /\ Append(s, e)[n] = s[n]) \/ Append(s, e)[n] = e
<1> DEFINE w == Append(s, e)
<1>1. /\ IsSequence(w) /\ Len(s) \in Nat /\ Len(w) = Len(s) + 1
      /\ (\A i \in 1..Len(s) : w[i] = s[i]) /\ w[Len(s) + 1] = e
  BY AnyAppend
<1> HIDE DEF w
<1>2. DOMAIN w = 1..Len(w) /\ DOMAIN s = 1..Len(s)
  BY <1>1, AnySequence
<1>3. \A n \in 1..Len(w) : n \in 1..Len(s) \/ n = Len(s) + 1
  BY ONLY <1>1
<1> QED BY <1>1, <1>2, <1>3 DEF w

\* A step to the next item or element of a query.
LEMMA TopAdvanced ==
  ASSUME Inside1, GroundInv, body' = body, current' = current, expansions' = expansions, cte' = cte, cte_scope' = cte_scope,
         NEW maps, IsSequence(maps), stack' = [stack EXCEPT ![1] = Moved(stack[1], stack[1].at + 1, stack[1].scope, maps)],
         pc' = "visit", ~InUnion, (pc = "on" /\ Top.at \in DOMAIN Items) \/ (pc = "visit" /\ Top.at > Len(Items)),
         \A R, rank : Grounded(R, rank, expansions) /\ AllReal(R) => MapsReal(maps, R)
  PROVE  ShapeInv' /\ GroundInv' /\ StaysOwed
<1> DEFINE f == stack[1]
           place == f.at + 1
           g == Moved(f, place, f.scope, maps)
<1>1. /\ IsFrame(f) /\ f.at \in Nat \ {0} /\ IsScope(f.scope) /\ Placed /\ ~IsUnion(f) /\ Frames(stack) /\ stack # << >>
      /\ Items = FrameItems(f) /\ DOMAIN Items = 1..Len(Items) /\ Len(Items) \in Nat /\ Top = f
      /\ Items = ItemsIn(ThisStatement, f.query)
  BY DEF Inside1
<1>2. place \in Nat \ {0}
  BY <1>1
<1>3. stack' = [stack EXCEPT ![1] = g]
  OBVIOUS
<1>4. (pc = "on" /\ f.at \in DOMAIN FrameItems(f)) \/ (pc = "visit" /\ f.at > Len(FrameItems(f)))
  BY <1>1
<1> HIDE DEF f
<1>6. IsFrame(g) /\ g.query = f.query /\ g.at = place /\ g.scope = f.scope /\ g.maps = maps
  BY <1>1, <1>2, MovedFacts
<1> HIDE DEF g
<1>7. ~IsUnion(g) /\ FrameItems(g) = FrameItems(f) /\ ItemsIn(ThisStatement, g.query) = ItemsIn(ThisStatement, f.query)
  BY <1>1, <1>6 DEF IsUnion, FrameItems
<1>8. stack' # << >> /\ stack'[1] = g
  BY <1>1, <1>3, <1>6, TopReplaced
<1>9. AtPlace(pc', stack')
  BY <1>7, <1>8 DEF AtPlace
<1>10. AtTop(ThisStatement, pc, f) = AtTop(ThisStatement, pc', g)
  <2>1. CASE pc = "on" /\ f.at \in DOMAIN FrameItems(f)
    BY <1>1, <1>6, <2>1, TopFacts, Zenon
  <2>2. CASE pc = "visit" /\ f.at > Len(FrameItems(f))
    <3>1. AtTop(ThisStatement, "visit", f) = << >>
      BY <1>1, <2>2, TopFacts, Zenon
    <3>2. g.at > Len(FrameItems(g))
      <4>1. f.at \in Nat /\ Len(FrameItems(f)) \in Nat /\ place > Len(FrameItems(f))
        BY <1>1, <2>2
      <4> QED BY ONLY <4>1, <1>6, <1>7
    <3>3. AtTop(ThisStatement, "visit", g) = << >>
      BY <1>1, <1>6, <1>7, <3>2, TopFacts, Zenon
    <3> QED BY <2>2, <3>1, <3>3
  <2> QED BY <1>4, <2>1, <2>2
<1>11. ASSUME NEW R, NEW rank, Grounded(R, rank, expansions), AllReal(R)
       PROVE  ScopeReal(g.scope, R) /\ MapsReal(g.maps, R)
  BY <1>1, <1>11, RealStack, <1>6 DEF AllReal, f
<1> QED BY <1>3, <1>6, <1>9, <1>10, <1>11, TopStep DEF f

\* A join condition is read.
LEMMA CollectJoinConditionKept ==
  ASSUME OrderInv, ShapeInv, GroundInv, CollectJoinCondition
  PROVE  ShapeInv' /\ GroundInv' /\ StaysOwed
<1>1. pc = "on" /\ pc' = "visit" /\ stack' = [stack EXCEPT ![1].at = @ + 1]
      /\ body' = body /\ current' = current /\ expansions' = expansions /\ cte' = cte /\ cte_scope' = cte_scope
  BY DEF CollectJoinCondition
<1>2. Inside1
  BY <1>1, InsideFacts
<1>3. stack' = [stack EXCEPT ![1] = Moved(stack[1], stack[1].at + 1, stack[1].scope, stack[1].maps)]
  BY <1>1, <1>2, MovedIs DEF Inside1
<1>4. IsSequence(stack[1].maps)
  BY <1>2 DEF Inside1
<1>5. ~InUnion /\ Top.at \in DOMAIN Items
  BY <1>1, <1>2 DEF Inside1, AtPlace
<1>6. ASSUME NEW R, AllReal(R) PROVE MapsReal(stack[1].maps, R)
  BY <1>2, <1>6, RealStack DEF AllReal, Inside1
<1> QED BY <1>1, <1>2, <1>3, <1>4, <1>5, <1>6, TopAdvanced

\* A select element is passed over.
LEMMA SkipElementKept ==
  ASSUME OrderInv, ShapeInv, GroundInv, SkipElement
  PROVE  ShapeInv' /\ GroundInv' /\ StaysOwed
<1>1. pc = "visit" /\ pc' = "visit" /\ stack' = [stack EXCEPT ![1].at = @ + 1] /\ ~InUnion /\ Top.at > Len(Items)
      /\ body' = body /\ current' = current /\ expansions' = expansions /\ cte' = cte /\ cte_scope' = cte_scope
  BY DEF SkipElement, InSelect
<1>2. Inside1
  BY <1>1, InsideFacts
<1>3. stack' = [stack EXCEPT ![1] = Moved(stack[1], stack[1].at + 1, stack[1].scope, stack[1].maps)]
  BY <1>1, <1>2, MovedIs DEF Inside1
<1>4. IsSequence(stack[1].maps)
  BY <1>2 DEF Inside1
<1>5. ASSUME NEW R, AllReal(R) PROVE MapsReal(stack[1].maps, R)
  BY <1>2, <1>5, RealStack DEF AllReal, Inside1
<1> QED BY <1>1, <1>2, <1>3, <1>4, <1>5, TopAdvanced

\* A star is expanded.
LEMMA ExpandStarKept ==
  ASSUME OrderInv, ShapeInv, GroundInv, ExpandStar
  PROVE  ShapeInv' /\ GroundInv' /\ StaysOwed
<1> DEFINE columns == Star(ThisElement.qualifier)
           fresh == [n \in DOMAIN columns |-> [name |-> columns[n].column, sources |-> {columns[n]}, is_direct |-> TRUE]]
           maps == stack[1].maps \o fresh
<1>1. pc = "visit" /\ pc' = "visit" /\ stack' = [stack EXCEPT ![1].at = @ + 1, ![1].maps = @ \o fresh]
      /\ ~InUnion /\ Top.at > Len(Items)
      /\ body' = body /\ current' = current /\ expansions' = expansions /\ cte' = cte /\ cte_scope' = cte_scope
  BY DEF ExpandStar, InSelect
<1>2. Inside1
  BY <1>1, InsideFacts
<1>3. Frames(stack) /\ stack # << >> /\ IsScope(cte_scope) /\ IsSequence(stack[1].maps)
  BY <1>2 DEF Inside1
<1>4. IsSequence(columns) /\ \A R : ChainReal(Chain, R) /\
          ScopeReal(stack[1].scope, R) => \A c \in Range(columns) : Real(c, R)
  BY <1>3, StarFacts
<1> HIDE DEF columns
<1>5. IsSequence(fresh) /\ \A n \in DOMAIN fresh : n \in DOMAIN columns /\ fresh[n].sources = {columns[n]}
  <2>1. fresh = [n \in DOMAIN columns |-> fresh[n]]
    OBVIOUS
  <2>2. IsSequence(fresh)
    <3> HIDE DEF fresh
    <3> QED BY <1>4, <2>1, AlongFacts
  <2> QED BY <2>2
<1>6. stack' = Retold(stack, stack[1].at + 1, maps)
  BY <1>1, <1>3 DEF Retold
<1> HIDE DEF fresh
<1>7. stack' = [stack EXCEPT ![1] = Moved(stack[1], stack[1].at + 1, stack[1].scope, maps)]
  BY <1>3, <1>6, MovedIs
<1>8. /\ IsSequence(maps)
      /\ \A n \in DOMAIN maps : (n \in DOMAIN stack[1].maps /\ maps[n] = stack[1].maps[n]) \/
             (\E m \in DOMAIN fresh : maps[n] = fresh[m])
  <2> DEFINE old == stack[1].maps
  <2>1. IsSequence(old) /\ IsSequence(fresh)
    BY <1>3, <1>5
  <2> HIDE DEF old
  <2>2. ElementsOf(old \o fresh, old, fresh)
    BY ONLY <2>1, JoinElements
  <2>3. maps = old \o fresh
    BY DEF old
  <2> HIDE DEF maps
  <2>4. /\ IsSequence(maps)
        /\ \A n \in DOMAIN maps : (n \in DOMAIN old /\ maps[n] = old[n]) \/ (\E m \in DOMAIN fresh : maps[n] = fresh[m])
    BY ONLY <2>2, <2>3 DEF ElementsOf
  <2> QED BY <2>4 DEF old
<1>9. IsSequence(maps)
  BY <1>8
<1> HIDE DEF maps
<1>10. ASSUME NEW R, AllReal(R) PROVE MapsReal(maps, R)
  <2>1. MapsReal(stack[1].maps, R) /\ ScopeReal(stack[1].scope, R)
    BY <1>3, <1>10, RealStack DEF AllReal
  <2>2. ChainReal(Chain, R)
    BY <1>3, <1>10, ChainFacts DEF AllReal, FramesReal
  <2>3. MapsReal(fresh, R)
    BY <1>4, <1>5, <2>1, <2>2 DEF MapsReal, Range
  <2> QED BY <1>8, <2>1, <2>3 DEF MapsReal
<1> QED BY <1>1, <1>2, <1>7, <1>9, <1>10, TopAdvanced

\* A column is mapped.
LEMMA MapScalarKept ==
  ASSUME OrderInv, ShapeInv, GroundInv, MapScalar
  PROVE  ShapeInv' /\ GroundInv' /\ StaysOwed
<1> DEFINE old == stack[1].maps
           expr == ThisElement.expr
           elem == ThisElement
           map == [name |-> NameOf(elem, Len(old) + 1), sources |-> Found(Walked(expr), Chain),
                   is_direct |-> expr.form \in {"column", "opaque"}]
           maps == Append(old, map)
<1>1. pc = "visit" /\ pc' = "visit" /\ ~InUnion /\ Top.at > Len(Items)
      /\ body' = body /\ current' = current /\ expansions' = expansions /\ cte' = cte /\ cte_scope' = cte_scope
  BY DEF MapScalar, InSelect
<1>2. Inside1
  BY <1>1, InsideFacts
<1>3. Frames(stack) /\ stack # << >> /\ IsScope(cte_scope) /\ IsSequence(stack[1].maps) /\ Registered /\ IsSequence(Chain)
  BY <1>2 DEF Inside1
<1>4. stack' = Retold(stack, stack[1].at + 1, maps)
  BY <1>3 DEF MapScalar, Retold
<1>5. map.sources = Trace(Matches(Walked(expr), Chain))
  BY DEF Found
<1> HIDE DEF map, old
<1>6. stack' = [stack EXCEPT ![1] = Moved(stack[1], stack[1].at + 1, stack[1].scope, maps)]
  BY <1>3, <1>4, MovedIs
<1>7. IsSequence(maps) /\ \A n \in DOMAIN maps : (n \in DOMAIN old /\ maps[n] = old[n]) \/ maps[n] = map
  <2>1. IsSequence(old)
    BY <1>3 DEF old
  <2> QED BY <2>1, AppendElements
<1>8. ASSUME NEW R, NEW rank, Grounded(R, rank, expansions), AllReal(R) PROVE MapsReal(maps, R)
  <2>1. MapsReal(old, R)
    BY <1>3, <1>8, RealStack DEF AllReal, old
  <2>2. ChainReal(Chain, R)
    BY <1>3, <1>8, ChainFacts DEF AllReal, FramesReal
  <2>3. \A c \in Matches(Walked(expr), Chain) : Real(c, R)
    BY <1>3, <2>2, MatchesReal
  <2>4. \A c \in map.sources : Real(c, R)
    BY <1>3, <1>5, <1>8, <2>3, TracedIsReal
  <2> HIDE DEF maps
  <2> QED BY <1>7, <2>1, <2>4 DEF MapsReal
<1> HIDE DEF maps
<1> QED BY <1>1, <1>2, <1>6, <1>7, <1>8, TopAdvanced

\* A table reference is passed over.
LEMMA SkipTableKept ==
  ASSUME OrderInv, ShapeInv, GroundInv, SkipTable
  PROVE  ShapeInv' /\ GroundInv' /\ StaysOwed
<1> DEFINE f == stack[1]
<1>1. pc = "visit" /\ pc' = "on" /\ ~InUnion /\ Top.at <= Len(Items) /\ ThisItem.kind = "other" /\ stack' = stack
      /\ body' = body /\ current' = current /\ expansions' = expansions /\ cte' = cte /\ cte_scope' = cte_scope
  BY DEF SkipTable, InFrom
<1>2. Inside1
  BY <1>1, InsideFacts
<1>3. /\ IsFrame(f) /\ f.at \in Nat \ {0} /\ Placed /\ ~IsUnion(f) /\ Frames(stack) /\ stack # << >>
      /\ Items = FrameItems(f) /\ DOMAIN Items = 1..Len(Items) /\ Len(Items) \in Nat /\ Top = f
  BY <1>1, <1>2 DEF Inside1
<1>4. f.at \in DOMAIN FrameItems(f) /\ FrameItems(f)[f.at].kind = "other"
  BY <1>1, <1>3 DEF ThisItem
<1>5. AtPlace("on", stack')
  BY <1>1, <1>3, <1>4 DEF AtPlace
<1>6. AtTop(ThisStatement, "visit", f) = AtTop(ThisStatement, "on", f)
  BY <1>3, <1>4, TopFacts
<1>7. stack' = [stack EXCEPT ![1] = f]
  <2>1. stack = [i \in DOMAIN stack |-> stack[i]]
    BY <1>3 DEF Frames, IsSequence
  <2> QED BY <1>1, <2>1
<1>8. ASSUME NEW R, AllReal(R) PROVE ScopeReal(f.scope, R) /\ MapsReal(f.maps, R)
  BY <1>3, <1>8, RealStack DEF AllReal
<1> HIDE DEF f
<1> QED BY <1>1, <1>2, <1>3, <1>5, <1>6, <1>7, <1>8, TopStep DEF f

\* The left side of a UNION is done.
LEMMA LeftDoneKept ==
  ASSUME OrderInv, ShapeInv, GroundInv, LeftDone
  PROVE  ShapeInv' /\ GroundInv' /\ StaysOwed
<1> DEFINE f == stack[1]
           g == Moved(f, 2, f.scope, returned)
<1>1. pc = "returned" /\ pc' = "visit" /\ stack # << >> /\ InUnion /\ Top.at = 1
      /\ stack' = [stack EXCEPT ![1].at = 2, ![1].maps = returned]
      /\ body' = body /\ current' = current /\ expansions' = expansions /\ cte' = cte /\ cte_scope' = cte_scope
  BY DEF LeftDone
<1>2. Inside1
  BY <1>1, InsideFacts
<1>3. /\ IsFrame(f) /\ f.at = 1 /\ IsScope(f.scope) /\ Placed /\ IsUnion(f) /\ Frames(stack)
  BY <1>1, <1>2 DEF Inside1
<1>4. IsSequence(returned)
  BY <1>1, <1>2 DEF Inside1, ShapeInv
<1>5. stack' = [stack EXCEPT ![1] = g]
  <2>1. stack' = Retold(stack, 2, returned)
    BY <1>1 DEF Retold
  <2>2. Frames(stack) /\ stack # << >>
    BY <1>1, <1>3
  <2>3. Retold(stack, 2, returned) = [stack EXCEPT ![1] = Moved(stack[1], 2, stack[1].scope, returned)]
    BY ONLY <2>2, MovedIs
  <2> QED BY <2>1, <2>3
<1> HIDE DEF f, g
<1>6. IsFrame(g) /\ g.query = f.query /\ g.at = 2 /\ g.scope = f.scope /\ g.maps = returned
  <2>1. 2 \in Nat \ {0}
    OBVIOUS
  <2> QED BY <1>3, <1>4, <2>1, MovedFacts DEF g
<1>7. stack' # << >> /\ stack'[1] = g
  BY <1>1, <1>3, <1>5, <1>6, TopReplaced, Zenon
<1>8. AtPlace("visit", stack')
  BY <1>6, <1>7 DEF AtPlace
<1>9. AtTop(ThisStatement, "returned", f) = AtTop(ThisStatement, "visit", g)
  BY <1>3, <1>6, TopFacts, Zenon DEF AtTop
<1>10. ASSUME NEW R, AllReal(R) PROVE ScopeReal(g.scope, R) /\ MapsReal(g.maps, R)
  <2>1. ScopeReal(f.scope, R) /\ MapsReal(returned, R)
    BY <1>1, <1>3, <1>10, RealStack DEF AllReal, f
  <2> QED BY <1>6, <2>1
<1> QED BY <1>1, <1>2, <1>5, <1>6, <1>8, <1>9, <1>10, TopStep DEF f

\* A query is opened inside the one on top.
LEMMA QueryOpened ==
  ASSUME Inside1, GroundInv, body' = body, current' = current, expansions' = expansions, cte' = cte, cte_scope' = cte_scope,
         pc = "visit", pc' = "visit", NEW n \in DOMAIN body.queries, stack' = <<Frame(n)>> \o stack, Opened(stack[1]),
         AtTop(ThisStatement, "visit", stack[1]) = AliasTable[n] \o AfterOpened(ThisStatement, stack[1])
  PROVE  ShapeInv' /\ GroundInv' /\ StaysOwed
<1>1. /\ Frames(stack) /\ stack # << >> /\ Placed /\ Busy /\ Registered /\ Visiting /\ IsScope(cte_scope)
      /\ cte \in 1..(Len(ThisStatement.ctes) + 1) /\ cte \in Nat
  BY DEF Inside1
<1>2. IsFrame(Frame(n)) /\ Frame(n).query = n /\ Frame(n).at = 1 /\ Frame(n).scope = << >> /\ Frame(n).maps = << >>
  BY NewFrame DEF IsLevel
<1>3. Frames(stack') /\ stack'[1] = Frame(n) /\ stack' # << >>
  BY <1>1, <1>2, FramePushed
<1>4. AtPlace(pc', stack')
  BY <1>2, <1>3 DEF AtPlace
<1>5. Registered'
  BY <1>1 DEF Registered
<1>6. ShapeInv'
  BY <1>1, <1>3, <1>4, <1>5, ShapeCarried
<1>7. Remaining(ThisStatement, pc', stack', cte) = Remaining(ThisStatement, pc, stack, cte)
  <2>1. Remaining(ThisStatement, "visit", <<Frame(n)>> \o stack, cte) = Remaining(ThisStatement, "visit", stack, cte)
    BY ONLY <1>1, <1>2, Opened(stack[1]), n \in DOMAIN body.queries, QueryPushed,
            AtTop(ThisStatement, "visit", stack[1]) = AliasTable[n] \o AfterOpened(ThisStatement, stack[1])
  <2> QED BY <2>1
<1>8. ASSUME NEW R, AllReal(R) PROVE AllReal(R)'
  BY <1>2, <1>8, <1>1, RealStack DEF ScopeReal, MapsReal, AllReal, FramesReal
<1>9. GroundInv'
  BY <1>1, <1>7, <1>8, GroundCarried
<1> QED BY <1>6, <1>7, <1>9 DEF StaysOwed

\* The query on top is done.
LEMMA QueryClosed ==
  ASSUME Inside1, GroundInv, body' = body, current' = current, expansions' = expansions, cte' = cte, cte_scope' = cte_scope,
         pc' = "returned", stack' = Tail(stack), IsSequence(returned'),
         AtTop(ThisStatement, pc, stack[1]) = << >>,
         \A R : AllReal(R) => MapsReal(returned', R)
  PROVE  ShapeInv' /\ GroundInv' /\ StaysOwed
<1>1. /\ Frames(stack) /\ stack # << >> /\ Placed /\ Busy /\ Registered /\ Visiting /\ IsScope(cte_scope)
      /\ cte \in 1..(Len(ThisStatement.ctes) + 1) /\ cte \in Nat /\ pc # "ctes"
  BY DEF Inside1
<1>2. Frames(stack') /\ (stack' # << >> => Opened(stack'[1]))
  BY <1>1, FramePopped
<1>3. AtPlace(pc', stack')
  BY <1>2 DEF AtPlace
<1>4. Registered'
  BY <1>1 DEF Registered
<1>5. ShapeInv'
  BY <1>1, <1>2, <1>3, <1>4, ShapeCarried
<1>6. Remaining(ThisStatement, pc', stack', cte) = Remaining(ThisStatement, pc, stack, cte)
  <2>1. Remaining(ThisStatement, "returned", Tail(stack), cte) = Remaining(ThisStatement, pc, stack, cte)
    BY ONLY <1>1, AtTop(ThisStatement, pc, stack[1]) = << >>, QueryPopped
  <2> QED BY <2>1
<1>7. ASSUME NEW R, AllReal(R) PROVE AllReal(R)'
  <2>1. FramesReal(stack', R)
    BY <1>1, <1>7, RealStack DEF AllReal
  <2> QED BY <1>7, <2>1 DEF AllReal, FramesReal
<1>8. GroundInv'
  BY <1>1, <1>6, <1>7, GroundCarried
<1> QED BY <1>5, <1>6, <1>8 DEF StaysOwed

\* The query of a derived table is opened.
LEMMA OpenDerivedKept ==
  ASSUME OrderInv, ShapeInv, GroundInv, OpenDerived
  PROVE  ShapeInv' /\ GroundInv' /\ StaysOwed
<1> DEFINE f == stack[1]
           n == ThisItem.query
<1>1. pc = "visit" /\ pc' = "visit" /\ ~InUnion /\ Top.at <= Len(Items) /\ ThisItem.kind = "derived"
      /\ stack' = <<Frame(n)>> \o stack
      /\ body' = body /\ current' = current /\ expansions' = expansions /\ cte' = cte /\ cte_scope' = cte_scope
  BY DEF OpenDerived, InFrom
<1>2. Inside1
  BY <1>1, InsideFacts
<1>3. /\ IsFrame(f) /\ f.at \in Nat \ {0} /\ Placed /\ ~IsUnion(f)
      /\ Items = FrameItems(f) /\ DOMAIN Items = 1..Len(Items) /\ Len(Items) \in Nat /\ Top = f
  BY <1>1, <1>2 DEF Inside1
<1>4. f.at \in DOMAIN FrameItems(f) /\ FrameItems(f)[f.at].kind = "derived" /\ n = FrameItems(f)[f.at].query
  BY <1>1, <1>3 DEF ThisItem
<1>5. Opened(f)
  BY <1>3, <1>4 DEF Opened
<1> HIDE DEF f, n
<1>6. n \in DOMAIN body.queries /\ AtTop(ThisStatement, "visit", f) = AliasTable[n] \o AfterOpened(ThisStatement, f)
  BY <1>3, <1>4, TopFacts
<1> QED BY <1>1, <1>2, <1>5, <1>6, QueryOpened DEF f

\* A side of a UNION is opened.
LEMMA OpenBranchKept ==
  ASSUME OrderInv, ShapeInv, GroundInv, OpenBranch
  PROVE  ShapeInv' /\ GroundInv' /\ StaysOwed
<1> DEFINE f == stack[1]
           n == IF f.at = 1 THEN body.queries[f.query].left ELSE body.queries[f.query].right
<1>1. pc = "visit" /\ pc' = "visit" /\ InUnion /\
          stack' = <<Frame(IF Top.at = 1 THEN ThisQuery.left ELSE ThisQuery.right)>> \o stack
      /\ body' = body /\ current' = current /\ expansions' = expansions /\ cte' = cte /\ cte_scope' = cte_scope
  BY DEF OpenBranch
<1>2. Inside1
  BY <1>1, InsideFacts
<1>3. IsFrame(f) /\ Placed /\ IsUnion(f) /\ Top = f /\ AtPlace(pc, stack)
  BY <1>1, <1>2 DEF Inside1
<1>4. f.at \in {1, 2} /\ Opened(f)
  BY <1>1, <1>3 DEF AtPlace, Opened
<1>5. stack' = <<Frame(n)>> \o stack
  BY <1>1, <1>3 DEF ThisQuery
<1> HIDE DEF f
<1>6. /\ body.queries[f.query].left \in DOMAIN body.queries /\ body.queries[f.query].right \in DOMAIN body.queries
      /\ f.at = 1 => AtTop(ThisStatement, "visit", f) =
             AliasTable[body.queries[f.query].left] \o AfterOpened(ThisStatement, f)
      /\ f.at = 2 => AtTop(ThisStatement, "visit", f) =
             AliasTable[body.queries[f.query].right] \o AfterOpened(ThisStatement, f)
  BY <1>3, TopFacts, Zenon
<1>7. n \in DOMAIN body.queries /\ AtTop(ThisStatement, "visit", f) = AliasTable[n] \o AfterOpened(ThisStatement, f)
  <2>1. CASE f.at = 1
    BY <1>6, <2>1
  <2>2. CASE f.at = 2
    <3>1. f.at # 1
      BY ONLY <2>2
    <3>2. n = body.queries[f.query].right
      BY <3>1
    <3> HIDE DEF n
    <3> QED BY <1>6, <2>2, <3>2
  <2> QED BY <1>4, <2>1, <2>2
<1> HIDE DEF n
<1> QED BY <1>1, <1>2, <1>4, <1>5, <1>7, QueryOpened DEF f

\* A query is done.
LEMMA ReturnKept ==
  ASSUME OrderInv, ShapeInv, GroundInv, Return
  PROVE  ShapeInv' /\ GroundInv' /\ StaysOwed
<1> DEFINE f == stack[1]
<1>1. pc = "visit" /\ pc' = "returned" /\ ~InUnion /\ Top.at > Len(Items) + Len(Elements)
      /\ returned' = Top.maps /\ stack' = Tail(stack)
      /\ body' = body /\ current' = current /\ expansions' = expansions /\ cte' = cte /\ cte_scope' = cte_scope
  BY DEF Return
<1>2. Inside1
  BY <1>1, InsideFacts
<1>3. /\ IsFrame(f) /\ f.at \in Nat \ {0} /\ IsSequence(f.maps) /\ Placed /\ ~IsUnion(f) /\ Frames(stack) /\ stack # << >>
      /\ Items = FrameItems(f) /\ DOMAIN Items = 1..Len(Items) /\ Len(Items) \in Nat /\ Top = f
  BY <1>1, <1>2 DEF Inside1
<1>4. f.at > Len(FrameItems(f))
  <2>1. Len(Elements) \in Nat
    <3>1. IsSequence(Elements)
      BY <1>3, LevelFacts DEF Placed, ThisStatement, Elements, IsFrame
    <3> QED BY <3>1, AnySequence
  <2>2. f.at > Len(Items) + Len(Elements)
    BY <1>1, <1>3
  <2>3. f.at \in Nat /\ Len(Items) \in Nat
    BY <1>3
  <2>4. f.at > Len(Items)
    BY ONLY <2>1, <2>2, <2>3
  <2> QED BY <1>3, <2>4
<1>5. AtTop(ThisStatement, pc, f) = << >>
  BY <1>1, <1>3, <1>4, TopFacts, Zenon
<1>6. ASSUME NEW R, AllReal(R) PROVE MapsReal(returned', R)
  BY <1>1, <1>3, <1>6, RealStack DEF AllReal
<1> QED BY <1>1, <1>2, <1>3, <1>5, <1>6, QueryClosed

\* The columns of two queries, by position.
LEMMA MergeFacts ==
  ASSUME NEW left, NEW right, IsSequence(left), IsSequence(right)
  PROVE  /\ IsSequence(MergeByOrdinal(left, right))
         /\ \A R : MapsReal(left, R) /\ MapsReal(right, R) => MapsReal(MergeByOrdinal(left, right), R)
<1> DEFINE w == MergeByOrdinal(left, right)
<1>1. DOMAIN left = 1..Len(left) /\ Len(left) \in Nat /\ DOMAIN right = 1..Len(right) /\ Len(right) \in Nat
  BY AnySequence
<1>2. w = [n \in DOMAIN left \cup DOMAIN right |-> w[n]] /\ DOMAIN w = DOMAIN left \cup DOMAIN right
  BY DEF MergeByOrdinal
<1>3. \A n \in DOMAIN w : w[n].sources = UNION {side[n].sources : side \in {s \in {left, right} : n \in DOMAIN s}}
  BY DEF MergeByOrdinal
<1> HIDE DEF w
<1>4. IsSequence(w)
  <2>1. CASE Len(left) <= Len(right)
    <3>1. DOMAIN left \cup DOMAIN right = DOMAIN right
      BY ONLY <1>1, <2>1
    <3> QED BY <1>2, <3>1, AlongFacts
  <2>2. CASE Len(left) > Len(right)
    <3>1. DOMAIN left \cup DOMAIN right = DOMAIN left
      BY ONLY <1>1, <2>2
    <3> QED BY <1>2, <3>1, AlongFacts
  <2> QED BY <1>1, <2>1, <2>2
<1>5. ASSUME NEW R, MapsReal(left, R), MapsReal(right, R), NEW n \in DOMAIN w, NEW c \in w[n].sources
      PROVE  Real(c, R)
  <2>1. PICK side \in {s \in {left, right} : n \in DOMAIN s} : c \in side[n].sources
    BY <1>3, <1>5
  <2> QED BY <1>5, <2>1 DEF MapsReal
<1> QED BY <1>4, <1>5 DEF w, MapsReal

\* Both sides of a UNION are done.
LEMMA RightDoneKept ==
  ASSUME OrderInv, ShapeInv, GroundInv, RightDone
  PROVE  ShapeInv' /\ GroundInv' /\ StaysOwed
<1> DEFINE f == stack[1]
<1>1. pc = "returned" /\ pc' = "returned" /\ stack # << >> /\ InUnion /\ Top.at = 2
      /\ returned' = MergeByOrdinal(Top.maps, returned) /\ stack' = Tail(stack)
      /\ body' = body /\ current' = current /\ expansions' = expansions /\ cte' = cte /\ cte_scope' = cte_scope
  BY DEF RightDone
<1>2. Inside1
  BY <1>1, InsideFacts
<1>3. /\ IsFrame(f) /\ f.at = 2 /\ IsSequence(f.maps) /\ Placed /\ IsUnion(f) /\ Frames(stack) /\ Top = f
  BY <1>1, <1>2 DEF Inside1
<1>4. IsSequence(returned)
  BY <1>1, <1>2 DEF Inside1, ShapeInv
<1>5. AtTop(ThisStatement, "returned", f) = << >>
  BY <1>3, TopFacts, Zenon DEF AtTop
<1>6. returned' = MergeByOrdinal(f.maps, returned)
  BY <1>1, <1>3
<1> HIDE DEF f
<1>7. IsSequence(returned')
  BY <1>3, <1>4, <1>6, MergeFacts
<1>8. ASSUME NEW R, AllReal(R) PROVE MapsReal(returned', R)
  <2>1. MapsReal(f.maps, R) /\ MapsReal(returned, R)
    BY <1>1, <1>3, <1>8, RealStack DEF AllReal, f
  <2> QED BY <1>3, <1>4, <1>6, <2>1, MergeFacts
<1> QED BY <1>1, <1>2, <1>5, <1>7, <1>8, QueryClosed DEF f

\* A name that is registered, again or not.
LEMMA StillRegistered ==
  ASSUME Registered, IsSequence(returned), NEW o, o[1] # "base", Remember(o)
  PROVE  Registered'
<1> DEFINE D == DOMAIN expansions
           e == [n \in DOMAIN returned |-> returned[n].sources]
<1>1. expansions' = [x \in D \cup {o} |-> IF x = o THEN e ELSE expansions[x]]
  BY DEF Remember
<1>2. DOMAIN expansions' = D \cup {o} /\ expansions'[o] = e /\ \A x \in D : x # o => expansions'[x] = expansions[x]
  BY <1>1
<1>3. IsSequence(e)
  <2>1. e = [n \in DOMAIN returned |-> e[n]]
    OBVIOUS
  <2> HIDE DEF e
  <2> QED BY <2>1, AlongFacts
<1> HIDE DEF e
<1>4. IsFiniteSet(D \cup {o})
  BY FS_AddElement DEF Registered
<1>5. \A x \in D \cup {o} : x[1] # "base" /\ IsSequence(expansions'[x])
  BY <1>2, <1>3 DEF Registered
<1> QED BY <1>2, <1>4, <1>5 DEF Registered

\* What has passed after a step.
LEMMA PassedOn ==
  ASSUME body' = body, current' = current, NEW Q, NEW more, NEW seen, IsSequence(seen),
         Aliases(ThisStatement) = seen \o Remaining(ThisStatement, pc', stack', cte'),
         \A o \in Q : Had(o, ThisStatement, cte', Range(seen)),
         Grounded(Q, more, expansions'), FramesReal(stack', Q), ScopeReal(cte_scope', Q), pc' # "returned"
  PROVE  Passed(Q, more, seen)'
<1>1. ThisStatement' = ThisStatement
  BY SameStatement
<1>2. Aliases(ThisStatement)' = Aliases(ThisStatement)
  BY <1>1, SameRemaining
<1>3. Remaining(ThisStatement, pc, stack, cte)' = Remaining(ThisStatement, pc', stack', cte')
  BY <1>1, SameRemaining
<1>4. \A o \in Q : Had(o, ThisStatement, cte, Range(seen))'
  BY <1>1 DEF Had
<1>5. Grounded(Q, more, expansions)'
  BY DEF Grounded
<1>6. AllReal(Q)'
  BY DEF AllReal, FramesReal, ScopeReal
<1>7. Aliases(ThisStatement)' = seen \o Remaining(ThisStatement, pc, stack, cte)'
  BY <1>2, <1>3
<1> QED BY <1>4, <1>5, <1>6, <1>7 DEF Passed

\* A derived table is bound: its alias has its turn, and the name is new.
LEMMA BindDerivedKept ==
  ASSUME OrderInv, ShapeInv, GroundInv, BindDerived
  PROVE  ShapeInv' /\ GroundInv' /\ TurnOf(ThisItem.alias)
<1> DEFINE f == stack[1]
           alias == ThisItem.alias
           owner == <<"derived", alias>>
           names == [n \in DOMAIN returned |-> returned[n].name]
           cols == Virtual(owner, names)
           scope == Bind(f.scope, [alias |-> alias, columns |-> cols])
           g == Moved(f, f.at, scope, f.maps)
<1>1. pc = "returned" /\ pc' = "on" /\ ~InUnion /\ stack # << >> /\ stack' = BindTop(alias, cols) /\ Remember(owner)
      /\ body' = body /\ current' = current /\ cte' = cte /\ cte_scope' = cte_scope
  BY DEF BindDerived
<1>2. Inside1
  BY <1>1, InsideFacts
<1>3. /\ IsFrame(f) /\ f.at \in Nat \ {0} /\ IsScope(f.scope) /\ IsSequence(f.maps) /\ Placed /\ ~IsUnion(f) /\ Top = f
      /\ Items = FrameItems(f) /\ Frames(stack) /\ AtPlace(pc, stack) /\ Registered /\ Visiting /\ Busy
      /\ IsScope(cte_scope) /\ cte \in 1..(Len(ThisStatement.ctes) + 1)
  BY <1>1, <1>2 DEF Inside1
<1>4. IsSequence(returned)
  BY <1>1, <1>3 DEF ShapeInv
<1>5. Opened(f)
  BY <1>1, <1>3 DEF AtPlace
<1>6. f.at \in DOMAIN FrameItems(f) /\ alias = FrameItems(f)[f.at].alias
  BY <1>3, <1>5 DEF Opened, ThisItem
<1>7. IsSequence(names)
  <2>1. names = [n \in DOMAIN returned |-> names[n]]
    OBVIOUS
  <2> HIDE DEF names
  <2> QED BY <1>4, <2>1, AlongFacts
<1> HIDE DEF alias, names
<1>8. owner[1] # "base"
  OBVIOUS
<1> HIDE DEF owner
<1>9. IsSequence(cols) /\ \A R : owner \in R => \A c \in Range(cols) : Real(c, R)
  BY <1>7, VirtualReal
<1>10. stack' = [stack EXCEPT ![1] = g]
  BY <1>1, <1>3, MovedIs DEF BindTop
<1> HIDE DEF cols
<1>11. IsScope(scope)
  BY <1>3, <1>9, BindFacts
<1> HIDE DEF f, scope, g
<1>12. IsFrame(g) /\ g.query = f.query /\ g.at = f.at /\ g.scope = scope /\ g.maps = f.maps
  BY <1>3, <1>11, MovedFacts DEF g
<1>13. ~IsUnion(g) /\ FrameItems(g) = FrameItems(f)
  BY <1>3, <1>12 DEF IsUnion, FrameItems
<1>14. Frames(stack') /\ stack' # << >> /\ stack'[1] = g /\ Tail(stack') = Tail(stack)
  <2>1. Frames(stack) /\ stack # << >> /\ IsFrame(g)
    BY <1>1, <1>3, <1>12
  <2> QED BY ONLY <1>10, <2>1, TopReplaced
<1>15. AtPlace("on", stack')
  BY <1>6, <1>12, <1>13, <1>14 DEF AtPlace
<1>16. Registered'
  BY <1>1, <1>3, <1>4, <1>8, StillRegistered
<1>17. ShapeInv'
  BY <1>1, <1>3, <1>14, <1>15, <1>16, ShapeCarried
<1>18. /\ Remaining(ThisStatement, "returned", stack, cte) = <<alias>> \o Remaining(ThisStatement, "on", stack', cte)
       /\ IsSequence(Remaining(ThisStatement, "on", stack', cte))
  <2>1. ~IsUnion(stack[1]) /\ Opened(stack[1]) /\ stack'[1].query = stack[1].query /\ stack'[1].at = stack[1].at
        /\ alias = FrameItems(stack[1])[stack[1].at].alias
    BY <1>3, <1>5, <1>6, <1>12, <1>14 DEF f
  <2>2. Placed /\ Frames(stack) /\ stack # << >> /\ cte \in 1..(Len(ThisStatement.ctes) + 1) /\ stack' # << >>
        /\ Tail(stack') = Tail(stack)
    BY <1>1, <1>3, <1>14
  <2> QED BY ONLY <2>1, <2>2, AliasTaken
<1> DEFINE rest == Remaining(ThisStatement, "on", stack', cte)
<1>19. ASSUME Distinct(Aliases(ThisStatement)), NEW R, NEW rank, NEW before, Passed(R, rank, before)
       PROVE  \E Q, more, seen : Passed(Q, more, seen)'
  <2>a. PICK seen : seen = before \o <<alias>>
    OBVIOUS
  <2>b. PICK Q : Q = R \cup {owner}
    OBVIOUS
  <2>1. IsSequence(before) /\ Aliases(ThisStatement) = before \o (<<alias>> \o rest) /\ IsSequence(rest)
    BY <1>1, <1>18, <1>19 DEF Passed
  <2> HIDE DEF rest
  <2>2. OnlyThere(before, alias, rest)
    <3> DEFINE w == Aliases(ThisStatement)
    <3>1. \A i, j \in DOMAIN w : w[i] = w[j] => i = j
      BY <1>19 DEF Distinct
    <3> HIDE DEF w
    <3>2. w = before \o (<<alias>> \o rest)
      BY <2>1 DEF w
    <3> QED BY ONLY <2>1, <3>1, <3>2, DistinctSplit
  <2>3. alias \notin Range(before) /\ before \o (<<alias>> \o rest) = seen \o rest /\ IsSequence(seen)
        /\ Range(seen) = Range(before) \cup {alias}
    BY <2>2, <2>a DEF OnlyThere
  <2>4. \A o \in R : Had(o, ThisStatement, cte, Range(before))
    BY <1>19 DEF Passed
  <2>5. owner \notin R
    BY <2>3, <2>4 DEF Had, owner
  <2>6. Grounded(R, rank, expansions) /\ AllReal(R) /\ MapsReal(returned, R)
    BY <1>1, <1>19 DEF Passed, AllReal
  <2>7. PICK more : Grounded(Q, more, expansions')
    BY <1>1, <1>3, <1>4, <1>8, <2>5, <2>6, <2>b, NewName
  <2>8. R \subseteq Q /\ owner \in Q
    BY <2>b
  <2>9. \A o \in Q : Had(o, ThisStatement, cte', Range(seen))
    BY <1>1, <2>3, <2>4, <2>b DEF Had, owner
  <2>10. ScopeReal(cte_scope', Q)
    BY <1>1, <2>6, <2>8, MoreReal DEF AllReal
  <2>11. FramesReal(stack, Q)
    <3>1. FramesReal(stack, R)
      BY <2>6 DEF AllReal
    <3> QED BY <2>8, <3>1, MoreReal DEF FramesReal
  <2>12. ScopeReal(f.scope, Q) /\ MapsReal(f.maps, Q)
    BY <1>1, <1>3, <2>11, RealStack DEF f
  <2>13. ScopeReal(scope, Q)
    BY <1>3, <1>9, <2>8, <2>12, BindReal DEF scope
  <2>14. ScopeReal(g.scope, Q) /\ MapsReal(g.maps, Q)
    BY <1>12, <2>12, <2>13
  <2>15. FramesReal(stack', Q)
    <3>1. Frames(stack) /\ stack # << >>
      BY <1>1, <1>3
    <3> QED BY ONLY <1>10, <2>11, <2>14, <3>1, RealStack
  <2>16. Aliases(ThisStatement) = seen \o Remaining(ThisStatement, pc', stack', cte')
    BY <1>1, <2>1, <2>3 DEF rest
  <2>17. Passed(Q, more, seen)'
    <3>1. body' = body /\ current' = current /\ pc' # "returned" /\ IsSequence(seen)
      BY <1>1, <2>3
    <3> QED BY ONLY <2>7, <2>9, <2>10, <2>15, <2>16, <3>1, PassedOn
  <2> QED BY <2>17
<1>20. Aliases(ThisStatement)' = Aliases(ThisStatement)
  <2>1. ThisStatement' = ThisStatement
    BY <1>1, SameStatement
  <2> QED BY <1>1, <2>1, SameRemaining
<1>21. Distinct(Aliases(ThisStatement))' = Distinct(Aliases(ThisStatement))
  BY <1>20 DEF Distinct
<1>22. GroundInv'
  BY <1>1, <1>3, <1>19, <1>21 DEF GroundInv
<1>23. TurnOf(ThisItem.alias)
  <2>1. ThisItem.alias = alias
    BY DEF alias
  <2> QED BY ONLY <1>1, <1>18, <2>1 DEF TurnOf
<1> QED BY <1>17, <1>22, <1>23

\* The common table expressions of a statement have names of their own.
LEMMA CteNames ==
  ASSUME Placed
  PROVE  /\ DOMAIN ThisStatement.ctes = 1..Len(ThisStatement.ctes) /\ Len(ThisStatement.ctes) \in Nat
         /\ \A c, d \in DOMAIN ThisStatement.ctes : c < d => ThisStatement.ctes[c].name # ThisStatement.ctes[d].name
<1>1. \A b \in Bodies : \A k \in DOMAIN b.statements : \A c, d \in DOMAIN b.statements[k].ctes :
        c < d => b.statements[k].ctes[c].name # b.statements[k].ctes[d].name
  BY BodyAssumption
<1>3. DOMAIN ThisStatement.ctes = 1..Len(ThisStatement.ctes) /\ Len(ThisStatement.ctes) \in Nat
  BY StatementFacts DEF Placed, ThisStatement
<1> QED BY <1>1, <1>3 DEF Placed, ThisStatement

\* A common table expression is registered: its name is new.
LEMMA RegisterCteKept ==
  ASSUME OrderInv, ShapeInv, GroundInv, RegisterCte
  PROVE  ShapeInv' /\ GroundInv'
<1> DEFINE this == ThisStatement.ctes[cte]
           tag == this.name
           owner == <<"cte", tag>>
           names == [n \in DOMAIN returned |-> IF n <= Len(this.columns) THEN this.columns[n] ELSE returned[n].name]
           cols == Virtual(owner, names)
           scope == Bind(cte_scope, [alias |-> tag, columns |-> cols])
           N == Len(ThisStatement.ctes)
<1>1. pc = "returned" /\ pc' = "ctes" /\ stack = << >> /\ stack' = stack /\ InCtes /\ cte_scope' = scope /\ Remember(owner)
      /\ cte' = cte + 1 /\ body' = body /\ current' = current
  BY DEF RegisterCte
<1>2. ThisStatement.kind \in {"select", "ctas"} /\ cte <= N
  BY <1>1 DEF InCtes
<1>3. Busy
  BY <1>1 DEF Busy
<1>4. Placed
  BY <1>3 DEF OrderInv, Placed
<1>5. Registered /\ IsScope(cte_scope) /\ cte \in 1..(N + 1) /\ IsSequence(returned) /\ Visiting /\ Frames(stack)
  BY <1>1, <1>3 DEF ShapeInv
<1>6. DOMAIN ThisStatement.ctes = 1..N /\ N \in Nat
      /\ \A c, d \in DOMAIN ThisStatement.ctes : c < d => ThisStatement.ctes[c].name # ThisStatement.ctes[d].name
  BY <1>4, CteNames
<1>7. IsSequence(names)
  <2>1. names = [n \in DOMAIN returned |-> names[n]]
    OBVIOUS
  <2> HIDE DEF names
  <2> QED BY <1>5, <2>1, AlongFacts
<1> HIDE DEF names, this, N
<1>8. tag = ThisStatement.ctes[cte].name
  BY DEF this
<1> HIDE DEF tag
<1>9. owner[1] # "base"
  OBVIOUS
<1> HIDE DEF owner
<1>10. IsSequence(cols) /\ \A R : owner \in R => \A c \in Range(cols) : Real(c, R)
  BY <1>7, VirtualReal
<1> HIDE DEF cols
<1>11. IsScope(scope)
  BY <1>5, <1>10, BindFacts
<1> HIDE DEF scope
<1>12. cte \in Nat /\ cte + 1 \in 1..(N + 1) /\ cte \in 1..N /\ cte \in 1..((cte + 1) - 1) /\
           \A k \in 1..(cte - 1) : k \in 1..N /\ k < cte /\ k \in 1..((cte + 1) - 1)
  <2>1. cte \in 1..(N + 1) /\ cte <= N /\ N \in Nat
    BY <1>2, <1>5, <1>6
  <2> QED BY ONLY <2>1
<1>13. AtPlace(pc', stack')
  BY <1>1, <1>2 DEF AtPlace
<1>14. Registered'
  BY <1>1, <1>5, <1>9, StillRegistered
<1>15. ShapeInv'
  BY <1>1, <1>5, <1>11, <1>12, <1>13, <1>14, ShapeCarried DEF N
<1>16. Remaining(ThisStatement, pc', stack', cte') = Remaining(ThisStatement, pc, stack, cte)
  BY <1>4, <1>5, RootFacts, ThisIsAStatement, <1>2, <1>1 DEF N, AtTheRoot, Remaining
<1>17. ASSUME NEW R, NEW rank, NEW before, Passed(R, rank, before)
       PROVE  \E Q, more, seen : Passed(Q, more, seen)'
  <2>1. PICK Q : Q = R \cup {owner}
    OBVIOUS
  <2>2. \A o \in R : Had(o, ThisStatement, cte, Range(before))
    BY <1>17 DEF Passed
  <2>3. owner \notin R
    <3> SUFFICES ASSUME owner \in R PROVE FALSE
      OBVIOUS
    <3>1. PICK k \in 1..(cte - 1) : owner = <<"cte", ThisStatement.ctes[k].name>>
      BY <2>2 DEF Had, owner
    <3>2. ThisStatement.ctes[k].name = ThisStatement.ctes[cte].name
      BY <1>8, <3>1 DEF owner
    <3> QED BY <1>6, <1>12, <3>1, <3>2
  <2>4. Grounded(R, rank, expansions) /\ AllReal(R) /\ MapsReal(returned, R)
    BY <1>1, <1>17 DEF Passed, AllReal
  <2>5. PICK more : Grounded(Q, more, expansions')
    BY <1>1, <1>5, <1>9, <2>1, <2>3, <2>4, NewName
  <2>6. R \subseteq Q /\ owner \in Q
    BY <2>1
  <2>7. \A o \in Q : Had(o, ThisStatement, cte', Range(before))
    BY <1>1, <1>12, <2>2, <1>8, <2>1 DEF Had, owner
  <2>8. ScopeReal(cte_scope, Q)
    BY <2>4, <2>6, MoreReal DEF AllReal
  <2>9. ScopeReal(cte_scope', Q)
    BY <1>1, <1>5, <1>10, <2>6, <2>8, BindReal DEF scope
  <2>10. FramesReal(stack', Q)
    BY <1>1 DEF FramesReal
  <2>11. IsSequence(before) /\ Aliases(ThisStatement) = before \o Remaining(ThisStatement, pc', stack', cte')
    BY <1>16, <1>17 DEF Passed
  <2>12. body' = body /\ current' = current /\ pc' # "returned"
    BY <1>1
  <2>13. Passed(Q, more, before)'
    BY ONLY <2>5, <2>7, <2>9, <2>10, <2>11, <2>12, PassedOn
  <2> QED BY <2>13
<1>18. Aliases(ThisStatement)' = Aliases(ThisStatement)
  <2>1. ThisStatement' = ThisStatement
    BY <1>1, SameStatement
  <2> QED BY <1>1, <2>1, SameRemaining
<1>19. Distinct(Aliases(ThisStatement))' = Distinct(Aliases(ThisStatement))
  BY <1>18 DEF Distinct
<1>20. GroundInv'
  BY <1>1, <1>3, <1>17, <1>19 DEF GroundInv
<1> QED BY <1>15, <1>20

\* The next query of a statement is opened.
LEMMA OpenStatementQueryKept ==
  ASSUME OrderInv, ShapeInv, GroundInv, OpenStatementQuery
  PROVE  ShapeInv' /\ GroundInv'
<1> DEFINE s == ThisStatement
           n == IF cte <= Len(s.ctes) THEN s.ctes[cte].query ELSE s.query
<1>1. pc = "ctes" /\ pc' = "visit" /\ stack' = <<Frame(n)>> /\ cte_scope' = cte_scope /\ expansions' = expansions
      /\ cte' = cte /\ body' = body /\ current' = current
  BY DEF OpenStatementQuery
<1>2. Busy
  BY <1>1 DEF Busy
<1>3. Placed
  BY <1>2 DEF OrderInv, Placed
<1>4. Registered /\ IsScope(cte_scope) /\ cte \in 1..(Len(s.ctes) + 1) /\ Visiting /\ stack = << >>
      /\ s.kind \in {"select", "ctas"}
  BY <1>1, <1>2 DEF ShapeInv, AtPlace
<1>5. Len(s.ctes) \in Nat /\ cte \in Nat
  BY <1>3, <1>4, CteNames
<1>6. AtTheRoot(s, cte)
  BY <1>3, <1>4, RootFacts, ThisIsAStatement
<1>7. n \in DOMAIN body.queries /\ AtRoot(s, "ctes", cte) = AliasTable[n] \o AtRoot(s, "visit", cte)
  <2>1. CASE cte <= Len(s.ctes)
    BY <1>4, <1>6, <2>1 DEF AtTheRoot
  <2>2. CASE ~(cte <= Len(s.ctes))
    <3>1. cte = Len(s.ctes) + 1
      <4>1. cte \in 1..(Len(s.ctes) + 1)
        BY <1>4
      <4> QED BY ONLY <4>1, <1>5, <2>2
    <3> QED BY <1>4, <1>6, <2>2, <3>1 DEF AtTheRoot
  <2> QED BY <2>1, <2>2
<1> HIDE DEF s, n
<1>8. IsFrame(Frame(n)) /\ Frame(n).query = n /\ Frame(n).at = 1 /\ Frame(n).scope = << >> /\ Frame(n).maps = << >>
  BY <1>7, NewFrame DEF IsLevel
<1>9. IsSequence(<< >>) /\ Frames(<< >>)
  BY AnyEmpty DEF Frames
<1>10. Frames(stack') /\ stack'[1] = Frame(n) /\ stack' # << >> /\ Tail(stack') = << >>
  <2>1. <<Frame(n)>> \o << >> = <<Frame(n)>>
    OBVIOUS
  <2>2. /\ Frames(<<Frame(n)>> \o << >>) /\ (<<Frame(n)>> \o << >>)[1] = Frame(n) /\ <<Frame(n)>> \o << >> # << >>
        /\ Tail(<<Frame(n)>> \o << >>) = << >>
    BY ONLY <1>8, <1>9, FramePushed
  <2> QED BY ONLY <1>1, <2>1, <2>2
<1>11. AtPlace(pc', stack')
  BY <1>1, <1>8, <1>10 DEF AtPlace
<1>12. Registered'
  BY <1>1, <1>4 DEF Registered
<1>13. ShapeInv'
  BY <1>1, <1>4, <1>10, <1>11, <1>12, ShapeCarried DEF s
<1>14. Remaining(ThisStatement, pc', stack', cte') = Remaining(ThisStatement, pc, stack, cte)
  <2>1. Remaining(ThisStatement, pc, stack, cte) = AliasTable[n] \o AtRoot(s, "visit", cte)
    BY <1>1, <1>4, <1>7 DEF Remaining, s
  <2>2. Above(ThisStatement, << >>) = << >>
    BY <1>3, <1>9, AboveFacts
  <2>3. AtTop(ThisStatement, "visit", Frame(n)) = AliasTable[n] /\ IsSequence(AliasTable[n])
    <3>1. n # 0 /\ IsSequence(AliasTable[n])
      <4>1. body \in Bodies
        BY <1>3 DEF Placed
      <4>2. DOMAIN body.queries = 1..Len(body.queries)
        BY <4>1, BodyFacts
      <4>3. n # 0
        BY ONLY <1>7, <4>2
      <4> QED BY <1>7, <4>1, <4>3, AliasesUnfold
    <3>2. AStatement(ThisStatement) /\ IsLevel(ThisStatement, n)
      BY <1>3, <1>7, ThisIsAStatement DEF IsLevel
    <3> QED BY <1>8, <3>1, <3>2, AtStart
  <2>4. Remaining(ThisStatement, "visit", stack', cte) = (AliasTable[n] \o << >>) \o AtRoot(s, "visit", cte)
    BY <1>10, <2>2, <2>3 DEF Remaining, s
  <2>5. AliasTable[n] \o << >> = AliasTable[n]
    BY <2>3, AnyUnit
  <2> QED BY <1>1, <2>1, <2>4, <2>5
<1>15. ASSUME NEW R, AllReal(R) PROVE AllReal(R)'
  BY <1>8, <1>1, <1>10, <1>15 DEF ScopeReal, MapsReal, FramesReal, AllReal
<1>16. GroundInv'
  BY <1>1, <1>2, <1>5, <1>14, <1>15, GroundCarried
<1> QED BY <1>13, <1>16

\* A statement is begun: nothing of it is registered.
LEMMA StartShape ==
  ASSUME OrderInv, ShapeInv, StartStatement, NEW s, s = body.statements[Head(pending)]
  PROVE  /\ AStatement(s) /\ s.kind \in {"select", "ctas", "insert", "values", "merge"} /\ ThisStatement' = s /\ Busy'
         /\ ShapeInv'
<1>1. pc = "statements" /\ pending # << >> /\ current' = Head(pending) /\ body' = body /\ cte' = 1 /\ cte_scope' = << >>
      /\ expansions' = expansions /\ s.kind \in {"select", "ctas", "insert", "values", "merge"}
      /\ pc' = (CASE s.kind \in {"select", "ctas"} -> "ctes"
                  [] s.kind = "values" -> "no source"
                  [] OTHER -> "visit")
      /\ stack' = (CASE s.kind = "insert" -> <<Frame(s.query)>>
                     [] s.kind = "merge" -> <<Frame(0)>>
                     [] OTHER -> << >>)
  BY DEF StartStatement
<1>2. body \in Bodies /\ Head(pending) \in DOMAIN body.statements
  <2>1. body \in Bodies /\ pending \in Seq(DOMAIN body.statements) /\ pending # << >>
    BY <1>1 DEF OrderInv
  <2>2. Head(pending) \in DOMAIN body.statements
    BY ONLY <2>1
  <2> QED BY <2>1, <2>2
<1>3. AStatement(s) /\ ThisStatement' = s
  BY <1>1, <1>2 DEF AStatement, ThisStatement
<1>4. pc' \in {"ctes", "no source", "visit"} /\ Busy'
  BY <1>1 DEF Busy
<1>5. 1 \in 1..(Len(s.ctes) + 1)
  <2>1. Len(s.ctes) \in Nat
    BY <1>2, StatementFacts
  <2> QED BY ONLY <2>1
<1>6. IsScope(<< >>) /\ IsSequence(<< >>) /\ DOMAIN << >> = {}
  BY AnyEmpty DEF IsScope
<1>7. s.kind = "insert" => s.query \in DOMAIN body.queries
  BY <1>2, BodyAssumption
<1>8. Registered'
  BY <1>1 DEF ShapeInv, Registered
<1>9. ASSUME NEW n, n \in DOMAIN body.queries \/ (n = 0 /\ s.kind = "merge"), stack' = <<Frame(n)>>, pc' = "visit"
      PROVE  Frames(stack)' /\ AtPlace(pc, stack)'
  <2>1. stack'[1] = Frame(n) /\ DOMAIN stack' = {1} /\ stack' # << >>
    BY <1>9
  <2>2. IsSequence(stack')
    BY <1>9, AnySingle
  <2>3. /\ Frame(n) = [query |-> Frame(n).query, at |-> Frame(n).at, scope |-> Frame(n).scope, maps |-> Frame(n).maps]
        /\ Frame(n).query = n /\ Frame(n).at = 1 /\ Frame(n).scope = << >> /\ Frame(n).maps = << >>
    BY DEF Frame
  <2>4. IsLevel(ThisStatement, n)'
    BY <1>1, <1>3, <1>9 DEF IsLevel
  <2>5. IsFrame(stack[1])'
    BY <1>6, <2>1, <2>3, <2>4 DEF IsFrame, IsScope
  <2>6. Frames(stack)'
    BY <2>1, <2>2, <2>5 DEF Frames, IsSequence
  <2>7. stack'[1].at = 1
    BY <2>1, <2>3
  <2>8. AtPlace(pc, stack)'
    BY <1>9, <2>1, <2>7 DEF AtPlace
  <2> QED BY <2>6, <2>8
<1>10. Frames(stack)' /\ AtPlace(pc, stack)'
  <2>1. CASE s.kind \in {"select", "ctas", "values"}
    BY <1>1, <2>1, <1>3, <1>6 DEF Frames, AtPlace, IsSequence
  <2>2. CASE s.kind = "insert"
    <3>1. stack' = <<Frame(s.query)>> /\ pc' = "visit"
      BY <1>1, <2>2
    <3> QED BY <1>7, <1>9, <2>2, <3>1
  <2>3. CASE s.kind = "merge"
    <3>1. stack' = <<Frame(0)>> /\ pc' = "visit"
      BY <1>1, <2>3
    <3> QED BY <1>9, <2>3, <3>1
  <2> QED BY <1>1, <2>1, <2>2, <2>3
<1>11. Visiting'
  BY <1>1, <1>3 DEF Visiting
<1>12. (cte \in 1..(Len(ThisStatement.ctes) + 1))' /\ IsScope(cte_scope)'
  BY <1>1, <1>3, <1>5, <1>6 DEF IsScope, IsSequence
<1>13. ShapeInv'
  BY <1>4, <1>8, <1>10, <1>11, <1>12 DEF ShapeInv
<1> QED BY <1>1, <1>3, <1>4, <1>13

\* No query waits.
LEMMA NothingAbove == ASSUME NEW s PROVE Above(s, << >>) = << >>
<1> DEFINE m(t) == [i \in DOMAIN t |-> AfterOpened(s, t[i])]
<1>1. m(<< >>) = << >>
  OBVIOUS
<1>2. \A t : Above(s, t) = FlattenSeq(m(t))
  BY Zenon DEF Above
<1> QED BY <1>1, <1>2, FlatEmpty

\* What is left of it is all of it, but for the parts that are not visited.
LEMMA StartRemains ==
  ASSUME NEW s, AStatement(s), s.kind \in {"select", "ctas", "insert", "values", "merge"}, NEW p, NEW frames,
         p = CASE s.kind \in {"select", "ctas"} -> "ctes"
               [] s.kind = "values" -> "no source"
               [] OTHER -> "visit",
         frames = CASE s.kind = "insert" -> <<Frame(s.query)>>
                    [] s.kind = "merge" -> <<Frame(0)>>
                    [] OTHER -> << >>
  PROVE  \E before : IsSequence(before) /\ Aliases(s) = before \o Remaining(s, p, frames, 1)
<1>1. AtTheRoot(s, 1)
  <2>1. Len(s.ctes) \in Nat
    BY StatementFacts DEF AStatement
  <2>2. 1 \in 1..(Len(s.ctes) + 1)
    BY ONLY <2>1
  <2> QED BY <2>2, RootFacts
<1>2. IsSequence(Aliases(s)) /\ IsSequence(FlattenSeq(CteLists(s)))
  BY <1>1 DEF AtTheRoot
<1>3. CASE s.kind \in {"select", "ctas"}
  <2>1. p = "ctes" /\ frames = << >>
    BY <1>3
  <2>2. Remaining(s, p, frames, 1) = Aliases(s)
    BY <1>1, <1>3, <2>1 DEF Remaining, AtTheRoot
  <2>3. << >> \o Aliases(s) = Aliases(s) /\ IsSequence(<< >>)
    BY <1>2, AnyUnit, AnyEmpty
  <2> QED BY <2>2, <2>3
<1>4. CASE s.kind = "values"
  BY <1>4, <1>2, AnyUnit DEF Remaining, AtRoot
<1>5. CASE s.kind \in {"insert", "merge"}
  <2> DEFINE n == IF s.kind = "insert" THEN s.query ELSE 0
             own == IF s.kind = "insert" THEN AliasTable[s.query] ELSE Inside(<<s.target, s.using>>, AliasTable)
  <2>1. p = "visit" /\ frames = <<Frame(n)>>
    BY <1>5
  <2>2. Aliases(s) = FlattenSeq(CteLists(s)) \o own
    BY <1>1, <1>5 DEF AtTheRoot
  <2>3. s.kind = "insert" => s.query \in DOMAIN body.queries
    BY <1>1 DEF AtTheRoot
  <2>4. body \in Bodies /\ DOMAIN body.queries = 1..Len(body.queries)
    BY BodyFacts DEF AStatement
  <2>5. s.kind = "insert" => n # 0
    <3>1. s.kind = "insert" => n \in 1..Len(body.queries)
      BY <2>3, <2>4
    <3> QED BY ONLY <3>1
  <2>6. IsLevel(s, n)
    BY <1>5, <2>3 DEF IsLevel
  <2>7. Frame(n).query = n /\ Frame(n).at = 1
    BY DEF Frame
  <2>8. AtTop(s, "visit", Frame(n)) = own
    <3>1. /\ n # 0 => AtTop(s, "visit", Frame(n)) = AliasTable[n]
          /\ n = 0 => AtTop(s, "visit", Frame(n)) = Inside(<<s.target, s.using>>, AliasTable)
      <4> HIDE DEF n
      <4> QED BY <2>6, <2>7, AtStart
    <3> QED BY <1>5, <2>5, <3>1
  <2>9. IsSequence(own)
    <3>1. IsSequence(AtTop(s, "visit", Frame(n)))
      <4>1. CASE s.kind = "insert"
        BY <2>3, <2>4, <2>8, <4>1, AliasesUnfold
      <4>2. CASE s.kind = "merge"
        <5>1. 1 \in 1..(Len(ItemsIn(s, 0)) + 1) /\ ItemsIn(s, 0) = <<s.target, s.using>>
          <6>1. ItemsIn(s, 0) = <<s.target, s.using>>
            BY DEF ItemsIn
          <6>2. Len(ItemsIn(s, 0)) \in Nat
            BY <4>2, LevelFacts, AnySequence DEF IsLevel, AStatement
          <6>3. 1 \in 1..(Len(ItemsIn(s, 0)) + 1)
            BY ONLY <6>2
          <6> QED BY <6>1, <6>3
        <5>2. ItemsOneByOne(s, 0, 1)
          BY <2>6, <4>2, <5>1, ItemsFromFacts
        <5>3. IsSequence(Inside(<<s.target, s.using>>, AliasTable))
          BY <5>1, <5>2 DEF ItemsOneByOne
        <5> QED BY <2>8, <4>2, <5>3
      <4> QED BY <1>5, <4>1, <4>2
    <3> QED BY <2>8, <3>1
  <2> HIDE DEF own, n
  <2>10. Above(s, << >>) = << >>
    BY NothingAbove
  <2>11. AtRoot(s, "visit", 1) = << >>
    BY <1>5 DEF AtRoot
  <2>12. Remaining(s, p, frames, 1) = (own \o << >>) \o << >>
    <3>1. frames # << >> /\ frames[1] = Frame(n) /\ Tail(frames) = << >>
      BY <2>1
    <3> QED BY <2>1, <2>8, <2>10, <2>11, <3>1 DEF Remaining
  <2>13. own \o << >> = own
    BY <2>9, AnyUnit
  <2> QED BY <1>2, <2>2, <2>12, <2>13
<1> QED BY <1>3, <1>4, <1>5

\* A statement is begun: no name of it is registered.
LEMMA StartStatementKept ==
  ASSUME OrderInv, ShapeInv, GroundInv, StartStatement
  PROVE  ShapeInv' /\ GroundInv'
<1>1. PICK s : s = body.statements[Head(pending)]
  OBVIOUS
<1>2. pc # "raised" /\ body' = body /\ cte' = 1 /\ cte_scope' = << >>
      /\ pc' = (CASE s.kind \in {"select", "ctas"} -> "ctes"
                  [] s.kind = "values" -> "no source"
                  [] OTHER -> "visit")
      /\ stack' = (CASE s.kind = "insert" -> <<Frame(s.query)>>
                     [] s.kind = "merge" -> <<Frame(0)>>
                     [] OTHER -> << >>)
  BY <1>1 DEF StartStatement
<1>3. AStatement(s) /\ s.kind \in {"select", "ctas", "insert", "values", "merge"} /\ ThisStatement' = s /\ Busy' /\ ShapeInv'
  BY <1>1, StartShape
<1>4. PICK before : IsSequence(before) /\ Aliases(s) = before \o Remaining(s, pc', stack', 1)
  BY ONLY <1>2, <1>3, StartRemains
<1>5. Aliases(ThisStatement)' = before \o Remaining(ThisStatement, pc, stack, cte)'
  BY <1>2, <1>3, SameRemaining, <1>4
<1>6. pc' \in {"ctes", "no source", "visit"}
  BY <1>2
<1> DEFINE rank == [x \in {} |-> 0]
<1>7. Grounded({}, rank, expansions)'
  BY DEF Grounded
<1>8. AllReal({})'
  <2>1. ASSUME NEW i \in DOMAIN stack' PROVE stack'[i].scope = << >> /\ stack'[i].maps = << >>
    <3>1. stack' = << >> \/ \E n : stack' = <<Frame(n)>>
      BY <1>2
    <3>2. DOMAIN << >> = {}
      OBVIOUS
    <3>3. PICK n : stack' = <<Frame(n)>>
      BY <2>1, <3>1, <3>2
    <3>4. stack'[i] = Frame(n)
      BY <2>1, <3>3
    <3> QED BY <3>4 DEF Frame
  <2>2. FramesReal(stack, {})'
    BY <2>1 DEF FramesReal, ScopeReal, MapsReal
  <2>3. ScopeReal(cte_scope, {})'
    <3>1. cte_scope' = << >>
      BY <1>2
    <3>2. DOMAIN << >> = {}
      BY ONLY TRUE
    <3> QED BY ONLY <3>1, <3>2 DEF ScopeReal
  <2> QED BY <1>6, <2>2, <2>3 DEF AllReal
<1>9. Passed({}, rank, before)'
  BY <1>4, <1>5, <1>7, <1>8 DEF Passed
<1>10. GroundInv'
  <2> HIDE DEF rank
  <2>1. (\E R, r, b : Passed(R, r, b))'
    BY <1>9
  <2> QED BY <1>6, <2>1 DEF GroundInv
<1> QED BY <1>3, <1>10

\* Between statements nothing is left of the last one.
LEMMA BetweenStatements ==
  ASSUME ShapeInv, expansions' = expansions, pc' \in {"statements", "done"}
  PROVE  ShapeInv' /\ GroundInv'
<1>1. Registered'
  BY DEF ShapeInv, Registered
<1>2. ~Busy' /\ pc' # "raised"
  BY DEF Busy
<1> QED BY <1>1, <1>2 DEF ShapeInv, GroundInv

\* The recursion has no end: an alias has been used twice.
LEMMA OverflowKept ==
  ASSUME OrderInv, ShapeInv, GroundInv, Overflow
  PROVE  ShapeInv' /\ GroundInv'
<1>1. pc \in {"on", "visit", "returned"} /\ pc' = "raised" /\ body' = body /\ current' = current /\ expansions' = expansions
      /\ \E refs : Endless(Matches(refs, Chain))
  BY DEF Overflow, InSelect, AtEnd
<1>2. Busy
  BY <1>1 DEF Busy
<1>3. Frames(stack) /\ IsScope(cte_scope) /\ Registered /\ Busy /\ IsSequence(Chain)
  BY <1>2, ChainFacts DEF ShapeInv
<1>4. ~Distinct(Aliases(ThisStatement))
  <2> SUFFICES ASSUME Distinct(Aliases(ThisStatement)) PROVE FALSE
    OBVIOUS
  <2>1. PICK R, rank, before : Passed(R, rank, before)
    BY <1>3 DEF GroundInv
  <2>2. Grounded(R, rank, expansions) /\ AllReal(R)
    BY <2>1 DEF Passed
  <2>3. ChainReal(Chain, R)
    BY <1>3, <2>2, ChainFacts DEF AllReal, FramesReal
  <2>4. PICK refs : Endless(Matches(refs, Chain))
    BY <1>1
  <2>5. \A c \in Matches(refs, Chain) : Real(c, R)
    BY <1>3, <2>3, MatchesReal
  <2> QED BY <1>3, <2>2, <2>4, <2>5, TracingEnds
<1>5. Registered' /\ ~Busy'
  BY <1>1, <1>3 DEF Registered, Busy
<1>6. ThisStatement' = ThisStatement
  BY <1>1, SameStatement
<1>7. Aliases(ThisStatement)' = Aliases(ThisStatement)
  BY <1>1, <1>6, SameRemaining
<1>8. ~Distinct(Aliases(ThisStatement))'
  BY <1>4, <1>7 DEF Distinct
<1> QED BY <1>5, <1>8 DEF ShapeInv, GroundInv

\* Nothing happens.
LEMMA StutterKept ==
  ASSUME ShapeInv, GroundInv, UNCHANGED vars
  PROVE  ShapeInv' /\ GroundInv'
<1>1. /\ body' = body /\ pc' = pc /\ current' = current /\ cte' = cte /\ cte_scope' = cte_scope /\ stack' = stack
      /\ returned' = returned /\ expansions' = expansions
  BY DEF vars
<1>2. Registered' /\ Busy' = Busy
  BY <1>1 DEF ShapeInv, Registered, Busy
<1>3. ThisStatement' = ThisStatement
  BY <1>1, SameStatement
<1>4. Aliases(ThisStatement)' = Aliases(ThisStatement)
  BY <1>1, <1>3, SameRemaining
<1>5. Distinct(Aliases(ThisStatement))' = Distinct(Aliases(ThisStatement))
  BY <1>4 DEF Distinct
<1>6. CASE ~Busy
  BY <1>1, <1>2, <1>5, <1>6 DEF ShapeInv, GroundInv
<1>7. CASE Busy
  <2>1. /\ Visiting /\ Frames(stack) /\ AtPlace(pc, stack) /\ (pc = "returned" => IsSequence(returned))
        /\ cte \in 1..(Len(ThisStatement.ctes) + 1) /\ IsScope(cte_scope) /\ pc # "raised"
    BY <1>7 DEF ShapeInv, Busy
  <2>2. ShapeInv'
    BY <1>1, <1>2, <2>1, ShapeCarried
  <2>3. cte \in Nat
    BY <2>1
  <2>4. \A R : AllReal(R) => AllReal(R)'
    BY <1>1 DEF AllReal, FramesReal, ScopeReal, MapsReal
  <2>5. GroundInv'
    BY <1>1, <1>7, <2>1, <2>3, <2>4, GroundCarried
  <2> QED BY <2>2, <2>5
<1> QED BY <1>6, <1>7

\* Nothing is visited at the start.
LEMMA ShapeInit == Init => ShapeInv /\ GroundInv
<1> SUFFICES ASSUME Init PROVE ShapeInv /\ GroundInv
  OBVIOUS
<1>1. pc = "statements" /\ expansions = << >>
  BY DEF Init
<1>2. ~Busy /\ pc # "raised"
  BY <1>1 DEF Busy
<1>3. Registered
  BY <1>1, FS_EmptySet DEF Registered
<1> QED BY <1>2, <1>3 DEF ShapeInv, GroundInv

\* Every step keeps the stack in shape and the names grounded.
LEMMA ShapeKept == OrderInv /\ ShapeInv /\ GroundInv /\ [Next]_vars => ShapeInv' /\ GroundInv'
<1> SUFFICES ASSUME OrderInv, ShapeInv, GroundInv, [Next]_vars PROVE ShapeInv' /\ GroundInv'
  OBVIOUS
<1>1. CASE Unfold
  BY <1>1, BetweenStatements DEF Unfold
<1>2. CASE StartStatement
  BY <1>2, StartStatementKept
<1>3. CASE AllDone
  BY <1>3, BetweenStatements DEF AllDone
<1>4. CASE SkipValues
  BY <1>4, BetweenStatements DEF SkipValues
<1>5. CASE OpenStatementQuery
  BY <1>5, OpenStatementQueryKept
<1>6. CASE BindTable
  BY <1>6, BindTableKept
<1>7. CASE SkipTable
  BY <1>7, SkipTableKept
<1>8. CASE OpenDerived
  BY <1>8, OpenDerivedKept
<1>9. CASE BindDerived
  BY <1>9, BindDerivedKept
<1>10. CASE CollectJoinCondition
  BY <1>10, CollectJoinConditionKept
<1>11. CASE MapScalar
  BY <1>11, MapScalarKept
<1>12. CASE ExpandStar
  BY <1>12, ExpandStarKept
<1>13. CASE SkipElement
  BY <1>13, SkipElementKept
<1>14. CASE Return
  BY <1>14, ReturnKept
<1>15. CASE Overflow
  BY <1>15, OverflowKept
<1>16. CASE OpenBranch
  BY <1>16, OpenBranchKept
<1>17. CASE LeftDone
  BY <1>17, LeftDoneKept
<1>18. CASE RightDone
  BY <1>18, RightDoneKept
<1>19. CASE RegisterCte
  BY <1>19, RegisterCteKept
<1>20. CASE FinishStatement
  BY <1>20, BetweenStatements DEF FinishStatement
<1>21. CASE UNCHANGED vars
  BY <1>21, StutterKept
<1> QED BY <1>1, <1>2, <1>3, <1>4, <1>5, <1>6, <1>7, <1>8, <1>9, <1>10, <1>11, <1>12, <1>13, <1>14, <1>15, <1>16, <1>17, <1>18,
     <1>19, <1>20, <1>21 DEF Next

\* Tracing a virtual column has no end only where two derived tables of the statement
\* have the same alias (_expand_virtual_column): whatever the body, no other one makes the
\* extractor overflow its stack.
THEOREM OverflowNeedsReusedAlias == Spec => []RaisesOnlyOnReusedAlias
<1>1. Init => OrderInv /\ ShapeInv /\ GroundInv
  BY OrderInit, ShapeInit
<1>2. OrderInv /\ ShapeInv /\ GroundInv /\ [Next]_vars => OrderInv' /\ ShapeInv' /\ GroundInv'
  BY OrderKept, ShapeKept
<1>3. GroundInv => RaisesOnlyOnReusedAlias
  BY DEF GroundInv, RaisesOnlyOnReusedAlias
<1> QED BY <1>1, <1>2, <1>3, PTL DEF Spec

-----------------------------------------------------------------------------
(* Sequences of columns, place by place.                                   *)

\* Flattened, each place of the one list has the same place in the other.
LEMMA FlatAligned ==
  ASSUME NEW a, NEW b, IsSequence(a), IsSequence(b), Len(a) = Len(b),
         \A i \in DOMAIN a : IsSequence(a[i]) /\ IsSequence(b[i]) /\ Len(a[i]) = Len(b[i])
  PROVE  SamePlaces(FlattenSeq(a), FlattenSeq(b), a, b)
<1> DEFINE N == Len(a)
<1>1. DOMAIN a = 1..N /\ DOMAIN b = 1..N /\ N \in Nat /\ Len(b) = N
  BY AnySequence
<1>2. \A i \in 1..N : IsSequence(a[i]) /\ IsSequence(b[i]) /\ Len(a[i]) = Len(b[i])
  BY <1>1
<1>3. PICK h : Joins(h, a, Len(a)) /\ FlattenSeq(a) = h[Len(a)] /\ IsSequence(FlattenSeq(a))
  BY <1>1, <1>2, FlatRuns
<1>4. PICK k : Joins(k, b, Len(b)) /\ FlattenSeq(b) = k[Len(b)] /\ IsSequence(FlattenSeq(b))
  BY <1>1, <1>2, FlatRuns
<1>5. Joins(h, a, N) /\ Joins(k, b, N) /\ FlattenSeq(a) = h[N] /\ FlattenSeq(b) = k[N]
  BY <1>1, <1>3, <1>4
<1> HIDE DEF N
<1> DEFINE Q == {n \in 0..N : SamePlaces(h[n], k[n], a, b)}
<1>6. 0 \in Q
  BY <1>1, <1>5 DEF Joins, SamePlaces
<1>7. ASSUME NEW n \in 1..N, n - 1 \in Q PROVE n \in Q
  <2> DEFINE u == h[n - 1]
             w == k[n - 1]
             x == a[n]
             y == b[n]
  <2>1. /\ IsSequence(u) /\ IsSequence(w) /\ IsSequence(x) /\ IsSequence(y) /\ Len(x) = Len(y)
        /\ h[n] = u \o x /\ k[n] = w \o y /\ SamePlaces(u, w, a, b)
    BY <1>2, <1>5, <1>7 DEF Joins
  <2> HIDE DEF u, w
  <2>2. JoinOf(u \o x, u, x) /\ JoinOf(w \o y, w, y)
    BY <2>1, JoinFacts
  <2>3. /\ Len(u) \in Nat /\ Len(x) \in Nat /\ Len(u) = Len(w) /\ Len(u \o x) = Len(u) + Len(x)
        /\ Len(w \o y) = Len(u) + Len(x)
        /\ \A i \in 1..Len(u) : (u \o x)[i] = u[i] /\ (w \o y)[i] = w[i]
        /\ \A i \in 1..Len(x) : (u \o x)[Len(u) + i] = x[i] /\ (w \o y)[Len(u) + i] = y[i]
    BY <2>1, <2>2 DEF JoinOf, SamePlaces
  <2>4. ASSUME NEW j \in 1..Len(u \o x)
        PROVE  \E i \in DOMAIN a : \E m \in DOMAIN a[i] : (u \o x)[j] = a[i][m] /\ (w \o y)[j] = b[i][m]
    <3>1. CASE j <= Len(u)
      <4>1. j \in 1..Len(u)
        BY ONLY <2>3, <2>4, <3>1
      <4> QED BY <2>1, <2>3, <4>1 DEF SamePlaces
    <3>2. CASE j > Len(u)
      <4>1. j - Len(u) \in 1..Len(x) /\ Len(u) + (j - Len(u)) = j
        BY ONLY <2>3, <2>4, <3>2
      <4>2. j - Len(u) \in DOMAIN x /\ n \in DOMAIN a
        BY <1>1, <2>1, <4>1, AnySequence
      <4>3. (u \o x)[j] = x[j - Len(u)] /\ (w \o y)[j] = y[j - Len(u)]
        BY <2>3, <4>1
      <4> QED BY <4>2, <4>3
    <3> QED BY <2>3, <3>1, <3>2
  <2>5. SamePlaces(h[n], k[n], a, b)
    <3>1. Len(u \o x) = Len(w \o y)
      BY <2>3
    <3>2. SamePlaces(u \o x, w \o y, a, b)
      BY <2>4, <3>1 DEF SamePlaces
    <3> QED BY <2>1, <3>2
  <2>6. n \in 0..N
    BY <1>1
  <2> QED BY <2>5, <2>6
<1>8. N \in Q
  <2> HIDE DEF Q
  <2>1. \A n \in 0..N : n \in Q
    BY <1>1, <1>6, <1>7, Induct
  <2> QED BY <1>1, <2>1
<1> QED BY <1>5, <1>8

\* What an element of a select list produces is a sequence.
LEMMA ProducedFacts ==
  ASSUME NEW items, IsSequence(items), NEW tables, IsTables(tables, items), NEW elem
  PROVE  IsSequence(Produced(tables, items, elem))
<1> DEFINE m == [i \in DOMAIN items |-> IF elem.qualifier \in {None, Exposed(items[i])} THEN tables[i] ELSE << >>]
<1>1. IsSequence(FlattenSeq(m))
  <2>1. m = [i \in DOMAIN items |-> m[i]] /\ DOMAIN m = DOMAIN items
    OBVIOUS
  <2>2. \A i \in DOMAIN items : IsSequence(m[i])
    BY AnyEmpty DEF IsTables
  <2> HIDE DEF m
  <2>3. IsSequence(m)
    BY <2>1, AlongFacts
  <2> QED BY <2>1, <2>2, <2>3, AnyFlatten
<1>2. CASE elem.kind = "scalar"
  <2> DEFINE x == [name |-> IF elem.alias = None /\ elem.expr.form = "column" THEN elem.expr.refs[1].name ELSE elem.alias,
                   from |-> From(tables, items, elem.expr.refs)]
  <2>1. Produced(tables, items, elem) = <<x>>
    BY <1>2 DEF Produced
  <2> HIDE DEF x
  <2> QED BY <2>1, AnySingle
<1>3. CASE elem.kind = "star"
  <2>1. Produced(tables, items, elem) = FlattenSeq(m)
    BY <1>3 DEF Produced
  <2> QED BY <1>1, <2>1
<1>4. CASE elem.kind \notin {"scalar", "star"}
  <2>1. Produced(tables, items, elem) = << >>
    BY <1>4 DEF Produced
  <2> QED BY <2>1, AnyEmpty
<1> QED BY <1>2, <1>3, <1>4

\* The first j elements of a list.
LEMMA FrontFacts ==
  ASSUME NEW elements, IsSequence(elements), NEW j \in 0..Len(elements)
  PROVE  /\ IsSequence(FirstOf(elements, j)) /\ Len(FirstOf(elements, j)) = j /\ DOMAIN FirstOf(elements, j) = 1..j
         /\ \A i \in 1..j : FirstOf(elements, j)[i] = elements[i]
         /\ j = Len(elements) => FirstOf(elements, j) = elements
<1>1. elements \in Seq(Range(elements)) /\ DOMAIN elements = 1..Len(elements) /\ Len(elements) \in Nat
  BY AnySequence
<1> DEFINE f == FirstOf(elements, j)
           S == Range(elements)
<1>2. f \in Seq(S) /\ Len(f) = j /\ \A i \in 1..j : f[i] = elements[i]
  <2> HIDE DEF S
  <2> QED BY <1>1 DEF FirstOf, S
<1> HIDE DEF f
<1>3. IsSequence(f) /\ DOMAIN f = 1..j
  BY <1>2 DEF IsSequence
<1>4. j = Len(elements) => f = elements
  BY <1>1, <1>2, <1>3, AnyEqual DEF IsSequence
<1> QED BY <1>2, <1>3, <1>4 DEF f

\* The columns of a select list, one element after another.
LEMMA ColumnsStep ==
  ASSUME NEW items, IsSequence(items), NEW tables, IsTables(tables, items), NEW elements, IsSequence(elements)
  PROVE  /\ ColumnsOf(tables, items, FirstOf(elements, 0)) = << >>
         /\ \A j \in 0..Len(elements) : IsSequence(ColumnsOf(tables, items, FirstOf(elements, j)))
         /\ \A j \in 1..Len(elements) :
              ColumnsOf(tables, items, FirstOf(elements, j))
                = ColumnsOf(tables, items, FirstOf(elements, j - 1)) \o Produced(tables, items, elements[j])
         /\ ColumnsOf(tables, items, FirstOf(elements, Len(elements))) = ColumnsOf(tables, items, elements)
<1> DEFINE P(e) == Produced(tables, items, e)
           m(j) == [e \in DOMAIN FirstOf(elements, j) |-> P(FirstOf(elements, j)[e])]
<1>1. Len(elements) \in Nat /\ DOMAIN elements = 1..Len(elements)
  BY AnySequence
<1>2. \A j : ColumnsOf(tables, items, FirstOf(elements, j)) = FlattenSeq(m(j))
  BY Zenon DEF ColumnsOf
<1>3. \A e : IsSequence(P(e))
  BY ProducedFacts
<1> HIDE DEF P
<1>4. ASSUME NEW j \in 0..Len(elements)
      PROVE  m(j) = [e \in 1..j |-> P(elements[e])] /\ IsSequence(m(j)) /\ Len(m(j)) = j /\ DOMAIN m(j) = 1..j
  BY FrontFacts, <1>1, Listed1
<1> HIDE DEF m
<1>5. ASSUME NEW j \in 0..Len(elements) PROVE \A n \in DOMAIN m(j) : IsSequence(m(j)[n])
  BY <1>3, <1>4
<1>6. 0 \in 0..Len(elements) /\ Len(elements) \in 0..Len(elements)
  BY ONLY <1>1
<1>7. ColumnsOf(tables, items, FirstOf(elements, 0)) = << >>
  BY <1>4, <1>6, <1>2, FlatEmpty DEF IsSequence
<1>8. ASSUME NEW j \in 0..Len(elements) PROVE IsSequence(ColumnsOf(tables, items, FirstOf(elements, j)))
  BY <1>2, <1>4, <1>5, AnyFlatten
<1>9. ASSUME NEW j \in 1..Len(elements)
      PROVE  ColumnsOf(tables, items, FirstOf(elements, j))
               = ColumnsOf(tables, items, FirstOf(elements, j - 1)) \o P(elements[j])
  <2>1. j \in 0..Len(elements) /\ j - 1 \in 0..Len(elements) /\ j - 1 \in Nat /\ (j - 1) + 1 = j /\ j \in 1..j
        /\ \A i \in 1..(j - 1) : i \in 1..j
    BY ONLY <1>1, <1>9
  <2>2. m(j) = [e \in 1..j |-> P(elements[e])] /\ IsSequence(m(j)) /\ Len(m(j)) = (j - 1) + 1
        /\ m(j - 1) = [e \in 1..(j - 1) |-> P(elements[e])]
    BY <1>4, <2>1
  <2>3. m(j - 1) = [n \in 1..(j - 1) |-> m(j)[n]]
    BY <2>1, <2>2
  <2>4. \A n \in DOMAIN m(j) : IsSequence(m(j)[n])
    BY <1>5, <2>1
  <2>5. FlattenSeq(m(j)) = FlattenSeq(m(j - 1)) \o m(j)[(j - 1) + 1]
    BY ONLY <2>1, <2>2, <2>3, <2>4, FlatStep
  <2>6. m(j)[(j - 1) + 1] = P(elements[j])
    BY <2>1, <2>2
  <2> QED BY <1>2, <2>5, <2>6
<1>10. FirstOf(elements, Len(elements)) = elements
  BY <1>6, FrontFacts
<1> QED BY <1>7, <1>8, <1>9, <1>10 DEF P

-----------------------------------------------------------------------------
(* What a query is built from.                                             *)

\* A query is built from itself and from what its parts are built from.
LEMMA BuiltUnfolds ==
  ASSUME body \in Bodies
  PROVE  \A n \in DOMAIN body.queries :
           BuiltFrom(body.queries, n) = {n} \cup UNION {BuiltFrom(body.queries, p) : p \in Parts(body.queries[n])}
<1> DEFINE N == Len(body.queries)
           V == SUBSET Nat
           parts == [n \in 1..N |-> Parts(body.queries[n])]
           Row(n, s) == {n} \cup UNION {s[p] : p \in parts[n] \cap DOMAIN s}
           G == [n \in 1..N |-> [s \in Seq(V) |-> Row(n, s)]]
           Step(g) == [m \in DOMAIN body.queries |-> {m} \cup UNION {g[p] : p \in Parts(body.queries[m])}]
           of == CHOOSE g : g = Step(g)
<1>1. DOMAIN body.queries = 1..N /\ N \in Nat /\ \A n \in 1..N : Parts(body.queries[n]) \subseteq 1..(n - 1)
  BY BodyFacts DEF Layers
<1>2. \A n \in 1..N : parts[n] = Parts(body.queries[n]) /\ parts[n] \subseteq 1..(n - 1)
  BY <1>1
<1> HIDE DEF N, parts
<1>3. ASSUME NEW n \in 1..N, NEW s \in Seq(V) PROVE Row(n, s) \in V
  <2>1. \A p \in DOMAIN s : s[p] \in V
    <3> HIDE DEF V
    <3> QED OBVIOUS
  <2>2. n \in Nat
    BY <1>1
  <2> QED BY <2>1, <2>2
<1>4. G \in [1..N -> [Seq(V) -> V]]
  <2> HIDE DEF Row, V
  <2> QED BY <1>3
<1>5. \A n \in 1..N : \A s \in Seq(V) : G[n][s] = Row(n, s)
  <2> HIDE DEF Row, V
  <2> QED OBVIOUS
<1> HIDE DEF G
<1>6. PICK g : Builds(g, V, G, N)
  <2> HIDE DEF V
  <2> QED BY <1>1, <1>4, DeepRuns
<1>7. ASSUME NEW n \in 1..N PROVE g[n] = {n} \cup UNION {g[p] : p \in parts[n]}
  <2> DEFINE t == [i \in 1..(n - 1) |-> g[i]]
  <2>1. t \in Seq(V) /\ g[n] = G[n][t]
    <3> HIDE DEF V
    <3> QED BY <1>6 DEF Builds
  <2>2. g[n] = Row(n, t)
    <3> HIDE DEF t, V, Row
    <3> QED BY <1>5, <2>1
  <2>3. DOMAIN t = 1..(n - 1) /\ \A p \in 1..(n - 1) : t[p] = g[p]
    OBVIOUS
  <2> HIDE DEF t
  <2>4. parts[n] \cap DOMAIN t = parts[n] /\ \A p \in parts[n] : t[p] = g[p]
    BY <1>2, <2>3
  <2> QED BY <2>2, <2>4
<1> HIDE DEF Row, V
<1>8. \E x : x = Step(x)
  <2> DEFINE y == [m \in 1..N |-> g[m]]
  <2>1. \A n \in 1..N : y[n] = {n} \cup UNION {y[p] : p \in parts[n]}
    <3>1. ASSUME NEW n \in 1..N PROVE y[n] = {n} \cup UNION {y[p] : p \in parts[n]}
      <4>1. \A p \in parts[n] : p \in 1..N
        BY <1>1, <1>2
      <4>2. \A p \in parts[n] : y[p] = g[p]
        BY <4>1
      <4>3. y[n] = g[n]
        OBVIOUS
      <4> HIDE DEF y
      <4> QED BY <1>7, <4>2, <4>3
    <3> QED BY <3>1
  <2>2. y = [m \in 1..N |-> y[m]]
    OBVIOUS
  <2> HIDE DEF y
  <2>3. y = [m \in 1..N |-> {m} \cup UNION {y[p] : p \in parts[m]}]
    BY <2>1, <2>2
  <2>4. y = Step(y)
    BY <1>1, <1>2, <2>3
  <2> QED BY <2>4
<1> HIDE DEF Step
<1>9. of = Step(of)
  BY <1>8
<1>10. \A m : BuiltFrom(body.queries, m) = of[m]
  BY Zenon DEF BuiltFrom, of, Step
<1> HIDE DEF of
<1>11. \A m \in 1..N : of[m] = {m} \cup UNION {of[p] : p \in Parts(body.queries[m])}
  BY <1>1, <1>9 DEF Step
<1> QED BY <1>1, <1>10, <1>11

\* Everything a query is built from has its own parts among it.
LEMMA BuiltClosed ==
  ASSUME body \in Bodies
  PROVE  \A n \in DOMAIN body.queries : BuiltOf(n)
<1> DEFINE N == Len(body.queries)
           B(n) == BuiltFrom(body.queries, n)
           P(n) == Parts(body.queries[n])
           Q == {k \in 0..N : \A n \in 1..k : BuiltOf(n)}
<1>1. DOMAIN body.queries = 1..N /\ N \in Nat /\ \A n \in 1..N : P(n) \subseteq 1..(n - 1)
  BY BodyFacts DEF Layers
<1>2. \A n \in 1..N : B(n) = {n} \cup UNION {B(p) : p \in P(n)}
  BY <1>1, BuiltUnfolds
<1>3. \A n : BuiltOf(n) <=> n \in B(n) /\ B(n) \subseteq 1..n /\ \A m \in B(n) : P(m) \subseteq B(n)
  BY DEF BuiltOf
<1> HIDE DEF N, B, P
<1>4. 0 \in Q
  BY <1>1
<1>5. ASSUME NEW k \in 1..N, k - 1 \in Q PROVE k \in Q
  <2>1. \A n \in 1..(k - 1) : BuiltOf(n)
    BY <1>5
  <2>2. k \in Nat /\ k \in 0..N /\ (\A n \in 1..k : n = k \/ n \in 1..(k - 1)) /\ (\A n \in 1..(k - 1) : n \in 1..k) /\ k \in 1..k
        /\ \A n \in 1..(k - 1) : 1..n \subseteq 1..k
    <3>1. N \in Nat /\ k \in 1..N
      BY <1>1
    <3> QED BY ONLY <3>1
  <2>3. B(k) = {k} \cup UNION {B(p) : p \in P(k)} /\ P(k) \subseteq 1..(k - 1)
    BY <1>1, <1>2
  <2>4. \A p \in P(k) : p \in B(p) /\ B(p) \subseteq 1..p /\ B(p) \subseteq B(k) /\ \A m \in B(p) : P(m) \subseteq B(p)
    BY <1>3, <2>1, <2>3
  <2>5. k \in B(k)
    BY <2>3
  <2>6. B(k) \subseteq 1..k
    BY <2>2, <2>3, <2>4
  <2>7. \A m \in B(k) : P(m) \subseteq B(k)
    BY <2>3, <2>4
  <2>8. BuiltOf(k)
    BY <1>3, <2>5, <2>6, <2>7
  <2> QED BY <2>1, <2>2, <2>8
<1>6. N \in Q
  <2> HIDE DEF Q
  <2>1. \A n \in 0..N : n \in Q
    BY <1>1, <1>4, <1>5, Induct
  <2> QED BY <1>1, <2>1
<1> QED BY <1>1, <1>6

\* The levels of a statement without common table expressions.
LEMMA LevelsFacts ==
  ASSUME NEW s, AStatement(s), s.ctes = << >>, s.kind \in {"select", "ctas", "insert", "merge"}
  PROVE  LevelsOf(s)
<1> DEFINE N == Len(body.queries)
           B(n) == BuiltFrom(body.queries, n)
           P(n) == Parts(body.queries[n])
           K == QueriesOf(body.queries, s)
<1>1. PICK k \in DOMAIN body.statements : s = body.statements[k]
  BY DEF AStatement
<1>2. body \in Bodies
  BY DEF AStatement
<1>3. DOMAIN body.queries = 1..N /\ N \in Nat /\ \A n \in 1..N : P(n) \subseteq 1..(n - 1)
  BY <1>2, BodyFacts DEF Layers
<1>4. \A n \in 1..N : n \in B(n) /\ B(n) \subseteq 1..n /\ \A m \in B(n) : P(m) \subseteq B(n)
  BY <1>2, <1>3, BuiltClosed DEF BuiltOf
<1>5. /\ s.kind \in {"select", "ctas", "insert"} => s.query \in 1..N
      /\ s.kind = "merge" => s.query = 0
      /\ s.using.kind = "derived" => s.kind = "merge" /\ s.using.query \in 1..N
      /\ s.using.kind # "derived" => s.using.query = 0
      /\ s.query \in 0..N
  <2>1. /\ s.kind \in {"select", "ctas", "insert", "update"} => s.query \in DOMAIN body.queries
        /\ s.kind = "merge" => s.query = 0
        /\ s.using.kind = "derived" => s.kind = "merge"
        /\ s.using.query \in IF s.using.kind = "derived" THEN DOMAIN body.queries ELSE {0}
        /\ s.query \in 0..Len(body.queries)
    BY <1>1, <1>2, BodyAssumption
  <2> QED BY <1>3, <2>1
<1>6. Range(Roots(s)) \ {0} = {s.query, s.using.query} \ {0}
  BY DEF Roots, Range
<1>7. K = UNION {B(n) : n \in {s.query, s.using.query} \ {0}}
  BY <1>6 DEF QueriesOf
<1>8. Levels(s) = K \cup (IF s.kind = "merge" THEN {0} ELSE {})
  BY DEF Levels
<1>i. \A p : InnerQuery(s, p) <=> p \in K /\ p \in Levels(s) /\ p # s.query /\ p \in 1..N /\ p # 0
  BY <1>3 DEF InnerQuery
<1> HIDE DEF N, B, P, K
<1>9. ASSUME NEW n \in K PROVE /\ n \in 1..N /\ n # 0 /\ P(n) \subseteq K
                               /\ s.kind # "merge" => n <= s.query
  <2>1. PICK r \in {s.query, s.using.query} \ {0} : n \in B(r)
    BY <1>7
  <2>2. r \in 1..N
    <3>1. \A x \in 0..N : x # 0 => x \in 1..N
      BY ONLY <1>3
    <3> QED BY <1>5, <3>1
  <2>3. n \in 1..r /\ P(n) \subseteq B(r) /\ B(r) \subseteq K
    BY <1>4, <1>7, <2>1, <2>2
  <2>4. n \in 1..N /\ n # 0 /\ n <= r
    BY ONLY <1>3, <2>2, <2>3
  <2>5. s.kind # "merge" => r = s.query
    BY <1>5, <2>1
  <2> QED BY <2>3, <2>4, <2>5
<1>10. ASSUME NEW n \in K, NEW p \in P(n) PROVE InnerQuery(s, p)
  <2>1. p \in 1..(n - 1) /\ n \in 1..N /\ p \in K
    BY <1>3, <1>9
  <2>2. p \in 1..N /\ p # 0 /\ p < n
    BY ONLY <1>3, <2>1
  <2>3. p # s.query
    <3>1. CASE s.kind = "merge"
      BY <1>5, <2>2, <3>1
    <3>2. CASE s.kind # "merge"
      <4>1. n <= s.query /\ s.query \in 0..N
        BY <1>5, <1>9, <3>2
      <4> QED BY ONLY <4>1, <2>1, <2>2, <1>3
    <3> QED BY <3>1, <3>2
  <2> QED BY <1>8, <1>i, <2>1, <2>2, <2>3
<1>11. \A n \in Levels(s) : IsLevel(s, n)
  BY <1>3, <1>8, <1>9 DEF IsLevel
<1>12. s.query \in Levels(s)
  <2>1. CASE s.kind = "merge"
    BY <1>5, <1>8, <2>1
  <2>2. CASE s.kind # "merge"
    <3>1. s.query \in 1..N
      BY <1>5, <2>2
    <3>2. s.query # 0
      BY ONLY <3>1, <1>3
    <3> QED BY <1>4, <1>7, <1>8, <3>1, <3>2
  <2> QED BY <2>1, <2>2
<1>13. \A n \in Levels(s) \ {0} : n \in K /\ n \in 1..N
  BY <1>8, <1>9
<1>14. 0 \in Levels(s) => s.kind = "merge"
  BY <1>8, <1>9
<1>15. s.kind = "merge" /\ s.using.kind = "derived" => InnerQuery(s, s.using.query)
  <2> SUFFICES ASSUME s.kind = "merge", s.using.kind = "derived" PROVE InnerQuery(s, s.using.query)
    OBVIOUS
  <2>1. s.using.query \in 1..N /\ s.query = 0
    BY <1>5
  <2>2. s.using.query # 0
    BY ONLY <1>3, <2>1
  <2>3. s.using.query \in K
    BY <1>4, <1>7, <2>1, <2>2
  <2> QED BY <1>8, <1>i, <2>1, <2>2, <2>3
<1> QED BY <1>3, <1>10, <1>11, <1>12, <1>13, <1>14, <1>15 DEF LevelsOf, K, P

-----------------------------------------------------------------------------
(* What a query means: the columns that SqlMeaning gives it.               *)

\* The columns of a table of the model are a sequence.
LEMMA TableFacts ==
  ASSUME NEW schema, NEW name
  PROVE  /\ IsSequence(TableColumns(schema, name))
         /\ \A n \in DOMAIN TableColumns(schema, name) : \E c :
              /\ TableColumns(schema, name)[n].from = {c} /\ TableColumns(schema, name)[n].name = c.column
              /\ ~IsVirtual(c)
<1>1. CASE Table(schema, name) = {}
  <2>1. TableColumns(schema, name) = << >>
    BY <1>1 DEF TableColumns
  <2> QED BY <2>1, AnyEmpty
<1>2. CASE Table(schema, name) # {}
  <2> DEFINE i == CHOOSE o \in Table(schema, name) : TRUE
             m == [n \in DOMAIN Objects[i].columns |-> [name |-> Objects[i].columns[n], from |-> {BaseColumn(i, n)}]]
  <2>1. TableColumns(schema, name) = m
    BY <1>2 DEF TableColumns
  <2>2. i \in DOMAIN Objects
    BY <1>2 DEF Table
  <2> HIDE DEF i
  <2>3. Objects[i].columns \in Seq(Names)
    <3> DEFINE S == [schema : Names, name : Names, columns : Seq(Names)]
    <3>1. Objects \in Seq(S)
      BY BodyAssumption
    <3>2. \A o \in S : o.columns \in Seq(Names)
      OBVIOUS
    <3> HIDE DEF S
    <3>3. Objects[i] \in S
      BY <2>2, <3>1, TypedSequence
    <3> QED BY <3>2, <3>3
  <2>4. IsSequence(Objects[i].columns)
    BY <2>3 DEF IsSequence
  <2>5. m = [n \in DOMAIN Objects[i].columns |-> m[n]] /\ DOMAIN m = DOMAIN Objects[i].columns
    OBVIOUS
  <2>6. \A n \in DOMAIN Objects[i].columns : m[n].name = Objects[i].columns[n] /\ m[n].from = {BaseColumn(i, n)}
    OBVIOUS
  <2>7. \A n : BaseColumn(i, n).column = Objects[i].columns[n] /\ ~IsVirtual(BaseColumn(i, n))
    BY DEF BaseColumn, IsVirtual
  <2> HIDE DEF m
  <2>8. IsSequence(m)
    BY <2>4, <2>5, AlongFacts
  <2> QED BY <2>1, <2>5, <2>6, <2>7, <2>8
<1> QED BY <1>1, <1>2

\* Without common table expressions, what a table of a FROM has.
LEMMA ItemMeans ==
  ASSUME NEW s, s.ctes = << >>, NEW n, NEW item, NEW of
  PROVE  /\ item.kind = "derived" => ItemColumns(s, n, item, of) = of[item.query]
         /\ item.kind = "other" => ItemColumns(s, n, item, of) = << >>
         /\ item.kind \notin {"derived", "other"} => ItemColumns(s, n, item, of) = TableColumns(item.schema, item.name)
<1>1. CteOf(s, item, n) = {}
  BY DEF CteOf
<1> QED BY <1>1 DEF ItemColumns

\* The tables of a FROM depend on the derived ones only.
LEMMA TablesMean ==
  ASSUME NEW s, s.ctes = << >>, NEW n, NEW items, IsSequence(items), NEW f,
         \A i \in DOMAIN items : items[i].kind = "derived" => IsSequence(f[items[i].query])
  PROVE  /\ IsTables(TablesOf(s, n, items, f), items)
         /\ \A i \in DOMAIN items : TablesOf(s, n, items, f)[i] = ItemColumns(s, n, items[i], f)
<1>1. \A i \in DOMAIN items : IsSequence(ItemColumns(s, n, items[i], f))
  <2> SUFFICES ASSUME NEW i \in DOMAIN items PROVE IsSequence(ItemColumns(s, n, items[i], f))
    OBVIOUS
  <2> QED BY ItemMeans, TableFacts, AnyEmpty
<1> QED BY <1>1 DEF TablesOf, IsTables

\* Two meanings that agree on the derived tables of a FROM give it the same tables.
LEMMA TablesSame ==
  ASSUME NEW s, s.ctes = << >>, NEW n, NEW items, NEW f, NEW g,
         \A i \in DOMAIN items : items[i].kind = "derived" => f[items[i].query] = g[items[i].query]
  PROVE  TablesOf(s, n, items, f) = TablesOf(s, n, items, g)
<1>1. \A i \in DOMAIN items : ItemColumns(s, n, items[i], f) = ItemColumns(s, n, items[i], g)
  <2> SUFFICES ASSUME NEW i \in DOMAIN items PROVE ItemColumns(s, n, items[i], f) = ItemColumns(s, n, items[i], g)
    OBVIOUS
  <2> QED BY ItemMeans
<1> QED BY <1>1 DEF TablesOf

\* What a query means depends on the queries below it only.
LEMMA QueryMeans ==
  ASSUME body \in Bodies, NEW s, s.ctes = << >>, NEW n \in DOMAIN body.queries, NEW f,
         \A m \in 1..(n - 1) : IsSequence(f[m])
  PROVE  /\ IsSequence(QueryColumns(body.queries, s, n, f))
         /\ \A g : (\A m \in 1..(n - 1) : f[m] = g[m]) =>
              QueryColumns(body.queries, s, n, f) = QueryColumns(body.queries, s, n, g)
<1> DEFINE q == body.queries[n]
<1>1. /\ q \in Query
      /\ \A i \in DOMAIN q.from : q.from[i].kind = "derived" => q.from[i].query \in 1..(n - 1)
      /\ q.kind = "union" => q.left \in 1..(n - 1) /\ q.right \in 1..(n - 1)
  <2>1. /\ \A i \in DOMAIN q.from : q.from[i].query \in IF q.from[i].kind = "derived" THEN 1..(n - 1) ELSE {0}
        /\ {q.left, q.right} \subseteq IF q.kind = "union" THEN 1..(n - 1) ELSE {0}
    BY BodyAssumption
  <2>2. q \in Query
    BY BodyFacts
  <2> HIDE DEF q
  <2> QED BY <2>1, <2>2
<1>2. IsSequence(q.from) /\ IsSequence(q.select)
  <2>1. q.from \in Seq(Item) /\ q.select \in Seq(Elem)
    BY <1>1 DEF Query
  <2> QED BY <2>1 DEF IsSequence
<1> DEFINE U(h) == [i \in DOMAIN h[q.left] \cap DOMAIN h[q.right] |->
                      [name |-> h[q.left][i].name, from |-> h[q.left][i].from \cup h[q.right][i].from]]
           C(h) == ColumnsOf(TablesOf(s, n, q.from, h), q.from, q.select)
<1>3. \A h : QueryColumns(body.queries, s, n, h) = IF q.kind = "union" THEN U(h) ELSE C(h)
  BY DEF QueryColumns
<1> HIDE DEF q
<1>4. q.kind = "union" => IsSequence(U(f))
  <2> SUFFICES ASSUME q.kind = "union" PROVE IsSequence(U(f))
    OBVIOUS
  <2> DEFINE a == f[q.left]
             b == f[q.right]
             w == U(f)
  <2>1. DOMAIN a = 1..Len(a) /\ Len(a) \in Nat /\ DOMAIN b = 1..Len(b) /\ Len(b) \in Nat
    BY <1>1, AnySequence
  <2>2. w = [i \in DOMAIN a \cap DOMAIN b |-> w[i]]
    OBVIOUS
  <2> HIDE DEF w, a, b
  <2>3. \E k \in Nat : DOMAIN a \cap DOMAIN b = 1..k
    <3>1. CASE Len(a) <= Len(b)
      <4>1. DOMAIN a \cap DOMAIN b = 1..Len(a)
        BY ONLY <2>1, <3>1
      <4> QED BY <2>1, <4>1
    <3>2. CASE Len(a) > Len(b)
      <4>1. DOMAIN a \cap DOMAIN b = 1..Len(b)
        BY ONLY <2>1, <3>2
      <4> QED BY <2>1, <4>1
    <3> QED BY <2>1, <3>1, <3>2
  <2>4. PICK k \in Nat : DOMAIN a \cap DOMAIN b = 1..k
    BY <2>3
  <2> QED BY <2>2, <2>4, Listed1 DEF w
<1>5. IsSequence(C(f))
  <2> DEFINE T == TablesOf(s, n, q.from, f)
  <2>1. IsTables(T, q.from)
    BY <1>1, <1>2, TablesMean
  <2> HIDE DEF T
  <2>2. /\ \A j \in 0..Len(q.select) : IsSequence(ColumnsOf(T, q.from, FirstOf(q.select, j)))
        /\ ColumnsOf(T, q.from, FirstOf(q.select, Len(q.select))) = ColumnsOf(T, q.from, q.select)
    BY <1>2, <2>1, ColumnsStep
  <2>3. Len(q.select) \in 0..Len(q.select)
    <3>1. Len(q.select) \in Nat
      BY <1>2, AnySequence
    <3> QED BY ONLY <3>1
  <2> QED BY <2>2, <2>3 DEF T
<1>6. ASSUME NEW g, \A m \in 1..(n - 1) : f[m] = g[m] PROVE q.kind = "union" => U(f) = U(g)
  BY <1>1, <1>6
<1>7. ASSUME NEW g, \A m \in 1..(n - 1) : f[m] = g[m] PROVE C(f) = C(g)
  <2>1. TablesOf(s, n, q.from, f) = TablesOf(s, n, q.from, g)
    BY <1>1, <1>7, TablesSame
  <2> QED BY <2>1
<1> HIDE DEF U, C
<1> QED BY <1>3, <1>4, <1>5, <1>6, <1>7

\* Meant gives every query of the body its columns, from the queries before it.
LEMMA MeantUnfolds ==
  ASSUME body \in Bodies, NEW s, s.ctes = << >>
  PROVE  Meaning(s)
<1> DEFINE N == Len(body.queries)
           QC(n, f) == QueryColumns(body.queries, s, n, f)
           Step(g) == [n \in 0..N |-> IF n = 0 THEN << >>
                                      ELSE LET inner == g[n - 1] IN Append(inner, QueryColumns(body.queries, s, n, inner))]
           of == CHOOSE g : g = Step(g)
           Q == {k \in 0..N : \E h : DOMAIN h = 0..k /\ Computes(h, s, k)}
<1>1. DOMAIN body.queries = 1..N /\ N \in Nat
  BY BodyFacts
<1>2. \A h, k : Computes(h, s, k) <=> h[0] = << >> /\ \A n \in 1..k : h[n] = Append(h[n - 1], QC(n, h[n - 1]))
  BY DEF Computes
<1>3. \A n \in 1..N : \A f : (\A m \in 1..(n - 1) : IsSequence(f[m])) =>
        /\ IsSequence(QC(n, f))
        /\ \A g : (\A m \in 1..(n - 1) : f[m] = g[m]) => QC(n, f) = QC(n, g)
  BY <1>1, QueryMeans
<1>4. Meant(body.queries, s) = of[N]
  BY Zenon DEF Meant, of, Step
<1>s. \A g : Step(g) = [n \in 0..N |-> IF n = 0 THEN << >> ELSE Append(g[n - 1], QC(n, g[n - 1]))]
  OBVIOUS
<1> HIDE DEF N, QC, Step
<1>5. 0 \in Q
  <2> DEFINE h == [i \in {0} |-> << >>]
  <2>1. DOMAIN h = 0..0 /\ h[0] = << >> /\ 0 \in 0..N /\ \A n \in 1..0 : FALSE
    BY <1>1
  <2> HIDE DEF h
  <2>2. Computes(h, s, 0)
    BY <1>2, <2>1
  <2> QED BY <2>1, <2>2
<1>6. ASSUME NEW k \in 1..N, k - 1 \in Q PROVE k \in Q
  <2>1. PICK h : DOMAIN h = 0..(k - 1) /\ Computes(h, s, k - 1)
    BY <1>6
  <2> DEFINE e == Append(h[k - 1], QC(k, h[k - 1]))
             w == [i \in 0..k |-> IF i = k THEN e ELSE h[i]]
  <2>2. /\ k \in 0..N /\ 0 \in 0..k /\ 0 # k /\ (\A n \in 1..k : n \in 0..k /\ n - 1 \in 0..k /\ n - 1 # k)
        /\ \A n \in 1..k : n # k => n \in 1..(k - 1)
    <3>1. N \in Nat /\ k \in 1..N
      BY <1>1
    <3> QED BY ONLY <3>1
  <2> HIDE DEF e
  <2>3. DOMAIN w = 0..k /\ w[0] = << >> /\ w[k] = e
    BY <1>2, <2>1, <2>2
  <2>4. \A n \in 1..k : w[n] = Append(w[n - 1], QC(n, w[n - 1]))
    <3> SUFFICES ASSUME NEW n \in 1..k PROVE w[n] = Append(w[n - 1], QC(n, w[n - 1]))
      OBVIOUS
    <3>1. w[n - 1] = h[n - 1] /\ n \in 0..k
      BY <2>2
    <3>2. CASE n = k
      BY <2>3, <3>1, <3>2 DEF e
    <3>3. CASE n # k
      <4>1. w[n] = h[n] /\ n \in 1..(k - 1)
        BY <2>2, <3>1, <3>3
      <4>2. h[n] = Append(h[n - 1], QC(n, h[n - 1]))
        BY <1>2, <2>1, <4>1
      <4> HIDE DEF w
      <4> QED BY <3>1, <4>1, <4>2
    <3> QED BY <3>2, <3>3
  <2> HIDE DEF w
  <2>5. Computes(w, s, k)
    BY <1>2, <2>3, <2>4
  <2> QED BY <2>2, <2>3, <2>5
<1>7. N \in Q
  <2> HIDE DEF Q
  <2>1. \A n \in 0..N : n \in Q
    BY <1>1, <1>5, <1>6, Induct
  <2> QED BY <1>1, <2>1
<1>8. PICK h : DOMAIN h = 0..N /\ Computes(h, s, N)
  BY <1>7
<1>n. 0 \in 0..N /\ (\A n \in 1..N : n \in 0..N /\ n # 0 /\ n - 1 \in 0..N) /\ \A n \in 0..N : n # 0 => n \in 1..N
  BY ONLY <1>1
<1>9. \E g : g = Step(g)
  <2> DEFINE g == [n \in 0..N |-> h[n]]
  <2>1. g[0] = << >> /\ \A n \in 1..N : g[n] = Append(g[n - 1], QC(n, g[n - 1]))
    BY <1>2, <1>8, <1>n
  <2>2. g = [n \in 0..N |-> g[n]]
    OBVIOUS
  <2> HIDE DEF g
  <2>3. \A n \in 0..N : g[n] = IF n = 0 THEN << >> ELSE Append(g[n - 1], QC(n, g[n - 1]))
    BY <1>n, <2>1
  <2>4. g = Step(g)
    BY <1>s, <2>2, <2>3
  <2> QED BY <2>4
<1>10. of = Step(of)
  BY <1>9
<1> HIDE DEF of
<1>11. of[0] = << >> /\ \A n \in 1..N : of[n] = Append(of[n - 1], QC(n, of[n - 1]))
  BY <1>n, <1>s, <1>10
<1> DEFINE F(k) == /\ IsSequence(of[k]) /\ Len(of[k]) = k
                   /\ \A j \in 1..k : of[k][j] = QC(j, of[k]) /\ IsSequence(of[k][j])
           W == {k \in 0..N : F(k)}
<1>12. 0 \in W
  BY <1>n, <1>11, AnyEmpty
<1>13. ASSUME NEW k \in 1..N, k - 1 \in W PROVE k \in W
  <2> DEFINE u == of[k - 1]
             v == of[k]
             e == QC(k, u)
  <2>1. /\ k \in 0..N /\ k \in Nat /\ (k - 1) + 1 = k /\ (\A j \in 1..k : j = k \/ j \in 1..(k - 1))
        /\ \A j \in 1..(k - 1) : j \in 1..k /\ j \in 1..N /\ \A m \in 1..(j - 1) : m \in 1..(k - 1)
    <3>1. N \in Nat /\ k \in 1..N
      BY <1>1
    <3> QED BY ONLY <3>1
  <2>2. IsSequence(u) /\ Len(u) = k - 1 /\ \A j \in 1..(k - 1) : u[j] = QC(j, u) /\ IsSequence(u[j])
    BY <1>13
  <2>3. v = Append(u, e)
    BY <1>11
  <2>4. IsSequence(e)
    BY <1>3, <2>2
  <2> HIDE DEF u, v, e
  <2>5. IsSequence(v) /\ Len(v) = k /\ (\A j \in 1..(k - 1) : v[j] = u[j]) /\ v[k] = e
    BY <2>2, <2>3, AnyAppend, <2>1
  <2>6. ASSUME NEW j \in 1..(k - 1) PROVE QC(j, v) = QC(j, u)
    BY <2>1, <2>2, <2>5, <1>3
  <2>7. QC(k, v) = QC(k, u)
    BY <1>3, <2>2, <2>5
  <2>8. \A j \in 1..k : v[j] = QC(j, v) /\ IsSequence(v[j])
    BY <2>1, <2>2, <2>4, <2>5, <2>6, <2>7 DEF e
  <2> QED BY <2>1, <2>5, <2>8 DEF v
<1>14. N \in W
  <2> HIDE DEF W
  <2>1. \A n \in 0..N : n \in W
    BY <1>1, <1>12, <1>13, Induct
  <2> QED BY <1>1, <2>1
<1>15. F(N)
  BY <1>14
<1> QED BY <1>1, <1>4, <1>15 DEF Meaning, QC, N

-----------------------------------------------------------------------------
(* What a plain statement means, level by level.                           *)

\* The uses of an expression are of the columns it is computed from, and of its window.
LEMMA InFacts ==
  ASSUME NEW c, NEW r, IsSequence(r)
  PROVE  IsSequence(In(c, r)) /\ \A i \in DOMAIN r : \E use \in Range(In(c, r)) : use.ref = r[i]
<1> DEFINE m == In(c, r)
<1>1. m = [i \in DOMAIN r |-> m[i]] /\ DOMAIN m = DOMAIN r /\ \A i \in DOMAIN r : m[i].ref = r[i]
  BY DEF In
<1> HIDE DEF m
<1>2. IsSequence(m)
  BY <1>1, AlongFacts
<1> QED BY <1>1, <1>2 DEF m, Range

\* The parts of an expression.
LEMMA ExprFacts ==
  ASSUME NEW x \in Expr
  PROVE  /\ IsSequence(x.refs) /\ DOMAIN x.refs = 1..Len(x.refs) /\ Len(x.refs) \in Nat
         /\ IsSequence(x.partition) /\ IsSequence(x.order)
         /\ x.form \in {"column", "call", "aggregate", "computed", "case", "simple case", "literal", "subquery", "opaque"}
         /\ x.form = "literal" => x.refs = << >>
         /\ x.form = "case" => Len(x.refs) = 3
         /\ x.form = "simple case" => Len(x.refs) = 4
<1>1. /\ x.refs \in Seq(Ref) /\ x.partition \in Seq(Ref) /\ x.order \in Seq(Ref)
      /\ x.form \in {"column", "call", "aggregate", "computed", "case", "simple case", "literal", "subquery", "opaque"}
      /\ x.form = "literal" => x.refs = << >>
      /\ x.form = "case" => Len(x.refs) = 3
      /\ x.form = "simple case" => Len(x.refs) = 4
  BY DEF Expr
<1>2. \A r \in Seq(Ref) : IsSequence(r)
  BY DEF IsSequence
<1> HIDE DEF Ref
<1> QED BY <1>1, <1>2, AnySequence

\* The branches of a CASE.
LEMMA BranchesFacts ==
  ASSUME NEW refs
  PROVE  IsSequence(Branches(refs)) /\ \A i \in 1..3 : \E use \in Range(Branches(refs)) : use.ref = refs[i]
<1> DEFINE m == [i \in 1..3 |-> [context |-> <<"CASE_WHEN", "CASE_THEN", "CASE_ELSE">>[i], ref |-> refs[i]]]
           t == <<1, 2, 3>>
<1>1. t \in Seq(Nat) /\ DOMAIN t = 1..3
  OBVIOUS
<1>2. m = [i \in DOMAIN t |-> m[i]] /\ IsSequence(t) /\ DOMAIN m = 1..3 /\ \A i \in 1..3 : m[i].ref = refs[i]
  BY <1>1 DEF IsSequence
<1>3. Branches(refs) = m
  BY DEF Branches
<1> HIDE DEF m, t
<1>4. IsSequence(m) /\ \A i \in 1..3 : m[i] \in Range(m)
  BY <1>2, AlongFacts DEF Range
<1> QED BY <1>2, <1>3, <1>4

\* Every column an expression is computed from is one of its uses.
LEMMA ExprUses ==
  ASSUME NEW x \in Expr, NEW c
  PROVE  IsSequence(UsesOfExpr(c, x)) /\ \A i \in DOMAIN x.refs : \E use \in Range(UsesOfExpr(c, x)) : use.ref = x.refs[i]
<1> DEFINE P == In("PARTITION_BY", x.partition)
           O == In("ORDER_BY", x.order)
<1>1. /\ IsSequence(x.refs) /\ DOMAIN x.refs = 1..Len(x.refs) /\ IsSequence(P) /\ IsSequence(O)
      /\ (x.form = "case" => Len(x.refs) = 3) /\ (x.form = "simple case" => Len(x.refs) = 4)
  BY ExprFacts, InFacts
<1>2. \E head : /\ UsesOfExpr(c, x) = head \o P \o O /\ IsSequence(head)
                /\ \A i \in DOMAIN x.refs : \E use \in Range(head) : use.ref = x.refs[i]
  <2>1. CASE x.form = "aggregate"
    <3>1. UsesOfExpr(c, x) = In("AGGREGATE_ARG", x.refs) \o P \o O
      BY <2>1 DEF UsesOfExpr
    <3> DEFINE h == In("AGGREGATE_ARG", x.refs)
    <3>2. IsSequence(h) /\ \A i \in DOMAIN x.refs : \E use \in Range(h) : use.ref = x.refs[i]
      BY <1>1, InFacts
    <3> HIDE DEF P, O, h
    <3>3. UsesOfExpr(c, x) = h \o P \o O
      BY <3>1 DEF h
    <3> QED BY <3>2, <3>3
  <2>2. CASE x.form = "case"
    <3>1. UsesOfExpr(c, x) = Branches(x.refs) \o P \o O
      BY <2>2 DEF UsesOfExpr
    <3>2. DOMAIN x.refs = 1..3
      BY <1>1, <2>2
    <3> DEFINE h == Branches(x.refs)
    <3>3. IsSequence(h) /\ \A i \in DOMAIN x.refs : \E use \in Range(h) : use.ref = x.refs[i]
      BY <3>2, BranchesFacts
    <3>4. UsesOfExpr(c, x) = h \o P \o O
      BY <3>1
    <3> HIDE DEF P, O, h
    <3> QED BY <3>3, <3>4
  <2>4. CASE x.form = "simple case"
    <3> DEFINE a == In(c, <<x.refs[1]>>)
               b == Branches(Tail(x.refs))
               h == a \o b
    <3>1. UsesOfExpr(c, x) = h \o P \o O
      BY <2>4 DEF UsesOfExpr
    <3>2. IsSequence(a) /\ \E use \in Range(a) : use.ref = x.refs[1]
      <4>1. IsSequence(<<x.refs[1]>>) /\ 1 \in DOMAIN <<x.refs[1]>> /\ <<x.refs[1]>>[1] = x.refs[1]
        BY AnySingle
      <4> QED BY <4>1, InFacts
    <3>3. IsSequence(b) /\ \A i \in 1..3 : \E use \in Range(b) : use.ref = x.refs[i + 1]
      <4>1. IsSequence(b) /\ \A i \in 1..3 : \E use \in Range(b) : use.ref = Tail(x.refs)[i]
        BY BranchesFacts
      <4>2. Len(x.refs) = 4 /\ IsSequence(x.refs)
        BY <1>1, <2>4
      <4>3. \A i \in 1..3 : Tail(x.refs)[i] = x.refs[i + 1]
        <5>1. x.refs # << >>
          <6>1. ASSUME x.refs = << >> PROVE Len(x.refs) = 0
            BY <6>1
          <6>2. 4 # 0
            OBVIOUS
          <6> QED BY ONLY <4>2, <6>1, <6>2, Zenon
        <5>2. /\ IsSequence(Tail(x.refs)) /\ Len(Tail(x.refs)) = 4 - 1
              /\ \A i \in DOMAIN Tail(x.refs) : Tail(x.refs)[i] = x.refs[i + 1]
          BY <4>2, <5>1, HeadTail
        <5>3. DOMAIN Tail(x.refs) = 1..(4 - 1)
          BY <5>2, AnySequence
        <5> QED BY ONLY <5>2, <5>3
      <4> QED BY <4>1, <4>3
    <3> HIDE DEF a, b
    <3>4. IsSequence(h) /\ Range(a) \subseteq Range(h) /\ Range(b) \subseteq Range(h)
      BY <3>2, <3>3, AnyConcat
    <3>5. ASSUME NEW i \in DOMAIN x.refs PROVE \E use \in Range(h) : use.ref = x.refs[i]
      <4>1. i = 1 \/ \E k \in 1..3 : i = k + 1
        <5>1. DOMAIN x.refs = 1..4
          BY <1>1, <2>4
        <5>2. i \in 1..4
          BY <5>1, <3>5
        <5>3. i # 1 => i - 1 \in 1..3 /\ i = (i - 1) + 1
          BY ONLY <5>2
        <5> QED BY ONLY <5>3
      <4> HIDE DEF h
      <4> QED BY <3>2, <3>3, <3>4, <4>1
    <3> HIDE DEF h, P, O
    <3> QED BY <3>1, <3>4, <3>5
  <2>3. CASE x.form \notin {"aggregate", "case", "simple case"}
    <3>1. UsesOfExpr(c, x) = In(c, x.refs) \o P \o O
      BY <2>3 DEF UsesOfExpr
    <3> DEFINE h == In(c, x.refs)
    <3>2. IsSequence(h) /\ \A i \in DOMAIN x.refs : \E use \in Range(h) : use.ref = x.refs[i]
      BY <1>1, InFacts
    <3> HIDE DEF P, O, h
    <3>3. UsesOfExpr(c, x) = h \o P \o O
      BY <3>1 DEF h
    <3> QED BY <3>2, <3>3
  <2> QED BY <2>1, <2>2, <2>3, <2>4
<1>3. PICK head : /\ UsesOfExpr(c, x) = head \o P \o O /\ IsSequence(head)
                  /\ \A i \in DOMAIN x.refs : \E use \in Range(head) : use.ref = x.refs[i]
  BY <1>2
<1> HIDE DEF P, O
<1>4. IsSequence(head \o P) /\ Range(head) \subseteq Range(head \o P)
  BY <1>1, <1>3, AnyConcat
<1>5. IsSequence((head \o P) \o O) /\ Range(head \o P) \subseteq Range((head \o P) \o O)
  BY <1>1, <1>4, AnyConcat
<1> QED BY <1>3, <1>4, <1>5

\* A list of sequences, one per element of another.
LEMMA EachFlat ==
  ASSUME NEW s, IsSequence(s), NEW m, m = [i \in DOMAIN s |-> m[i]], \A i \in DOMAIN s : IsSequence(m[i])
  PROVE  IsSequence(FlattenSeq(m)) /\ \A i \in DOMAIN s : Range(m[i]) \subseteq Range(FlattenSeq(m))
<1>1. IsSequence(m) /\ DOMAIN m = DOMAIN s
  BY AlongFacts
<1>2. Range(FlattenSeq(m)) = UNION {Range(m[n]) : n \in DOMAIN m} /\ IsSequence(FlattenSeq(m))
  BY <1>1, AnyFlatten
<1> QED BY <1>1, <1>2

\* The clauses of a query.
LEMMA QueryShape ==
  ASSUME NEW q \in Query
  PROVE  /\ IsSequence(q.from) /\ IsSequence(q.select) /\ IsSequence(q.where) /\ IsSequence(q.group_by) /\ IsSequence(q.having)
         /\ \A e \in DOMAIN q.select : q.select[e] \in Elem /\ q.select[e].expr \in Expr
         /\ \A e \in DOMAIN q.where : q.where[e] \in Expr
         /\ \A e \in DOMAIN q.having : q.having[e] \in Expr
         /\ \A i \in DOMAIN q.from : /\ q.from[i] \in Item /\ IsSequence(q.from[i].on)
                                     /\ \A c \in DOMAIN q.from[i].on : /\ q.from[i].on[c] \in Comparison
                                                                       /\ IsSequence(q.from[i].on[c].left)
                                                                       /\ IsSequence(q.from[i].on[c].right)
<1>1. q.select \in Seq(Elem) /\ q.from \in Seq(Item) /\ q.where \in Seq(Expr) /\ q.group_by \in Seq(Ref) /\ q.having \in Seq(Expr)
  BY DEF Query
<1>2. \A x \in Elem : x.expr \in Expr
  BY DEF Elem
<1>3. \A x \in Item : x.on \in Seq(Comparison)
  BY DEF Item
<1>4. \A x \in Comparison : x.left \in Seq(Ref) /\ x.right \in Seq(Ref)
  BY DEF Comparison
<1>5. \A r \in Seq(Ref) : IsSequence(r)
  BY DEF IsSequence
<1>6. \A r \in Seq(Comparison) : IsSequence(r) /\ \A c \in DOMAIN r : r[c] \in Comparison
  <2> HIDE DEF Comparison
  <2> QED BY TypedSequence
<1> HIDE DEF Elem, Item, Expr, Comparison, Ref
<1>7. IsSequence(q.select) /\ \A e \in DOMAIN q.select : q.select[e] \in Elem
  BY <1>1, TypedSequence
<1>8. IsSequence(q.from) /\ \A i \in DOMAIN q.from : q.from[i] \in Item
  BY <1>1, TypedSequence
<1>9. IsSequence(q.where) /\ \A e \in DOMAIN q.where : q.where[e] \in Expr
  BY <1>1, TypedSequence
<1>10. IsSequence(q.having) /\ \A e \in DOMAIN q.having : q.having[e] \in Expr
  BY <1>1, TypedSequence
<1>11. IsSequence(q.group_by)
  BY <1>1, <1>5
<1> QED BY <1>2, <1>3, <1>4, <1>5, <1>6, <1>7, <1>8, <1>9, <1>10, <1>11

\* The columns of a select list and of a join condition are among those a query uses.
LEMMA QueryUses ==
  ASSUME NEW q \in Query
  PROVE  /\ \A e \in DOMAIN q.select : Range(UsesOfExpr("PROJECTION", q.select[e].expr)) \subseteq Range(UsesOfQuery(q))
         /\ \A i \in DOMAIN q.from : Range(UsesOfOn(q.from[i].on)) \subseteq Range(UsesOfQuery(q))
<1> DEFINE a == [e \in DOMAIN q.select |-> UsesOfExpr("PROJECTION", q.select[e].expr)]
           b == [i \in DOMAIN q.from |-> UsesOfOn(q.from[i].on)]
           c == [e \in DOMAIN q.where |-> UsesOfExpr("WHERE", q.where[e])]
           d == In("GROUP_BY", q.group_by)
           h == [e \in DOMAIN q.having |-> UsesOfExpr("HAVING", q.having[e])]
<1>0. UsesOfQuery(q) = FlattenSeq(a) \o FlattenSeq(b) \o FlattenSeq(c) \o d \o FlattenSeq(h)
  BY DEF UsesOfQuery
<1>1. a = [e \in DOMAIN q.select |-> a[e]] /\ \A e \in DOMAIN q.select : a[e] = UsesOfExpr("PROJECTION", q.select[e].expr)
  OBVIOUS
<1>2. b = [e \in DOMAIN q.from |-> b[e]] /\ \A i \in DOMAIN q.from : b[i] = UsesOfOn(q.from[i].on)
  OBVIOUS
<1>3. c = [e \in DOMAIN q.where |-> c[e]] /\ \A e \in DOMAIN q.where : c[e] = UsesOfExpr("WHERE", q.where[e])
  OBVIOUS
<1>4. h = [e \in DOMAIN q.having |-> h[e]] /\ \A e \in DOMAIN q.having : h[e] = UsesOfExpr("HAVING", q.having[e])
  OBVIOUS
<1>5. IsSequence(d)
  BY QueryShape, InFacts
<1> HIDE DEF a, b, c, d, h
<1>6. IsSequence(FlattenSeq(a)) /\ \A e \in DOMAIN q.select : Range(a[e]) \subseteq Range(FlattenSeq(a))
  <2>1. \A e \in DOMAIN q.select : IsSequence(a[e])
    BY <1>1, QueryShape, ExprUses
  <2>2. IsSequence(q.select)
    BY QueryShape
  <2> QED BY ONLY <1>1, <2>1, <2>2, EachFlat
<1>7. IsSequence(FlattenSeq(b)) /\ \A e \in DOMAIN q.from : Range(b[e]) \subseteq Range(FlattenSeq(b))
  <2>1. ASSUME NEW i \in DOMAIN q.from PROVE IsSequence(b[i])
    <3> DEFINE on == q.from[i].on
               m == [k \in DOMAIN on |-> In("JOIN_ON", on[k].left \o on[k].right)]
    <3>1. b[i] = FlattenSeq(m)
      BY <1>2 DEF UsesOfOn
    <3>2. IsSequence(on) /\ \A k \in DOMAIN on : IsSequence(on[k].left) /\ IsSequence(on[k].right)
      BY QueryShape
    <3>3. m = [k \in DOMAIN on |-> m[k]] /\ \A k \in DOMAIN on : m[k] = In("JOIN_ON", on[k].left \o on[k].right)
      OBVIOUS
    <3> HIDE DEF on, m
    <3>4. \A k \in DOMAIN on : IsSequence(m[k])
      BY <3>2, AnyConcat, <3>3, InFacts
    <3>5. IsSequence(FlattenSeq(m))
      BY ONLY <3>2, <3>3, <3>4, EachFlat
    <3> QED BY <3>1, <3>5
  <2>2. IsSequence(q.from)
    BY QueryShape
  <2> QED BY ONLY <1>2, <2>1, <2>2, EachFlat
<1>8. IsSequence(FlattenSeq(c))
  <2>1. \A e \in DOMAIN q.where : IsSequence(c[e])
    BY <1>3, QueryShape, ExprUses
  <2>2. IsSequence(q.where)
    BY QueryShape
  <2> QED BY ONLY <1>3, <2>1, <2>2, EachFlat
<1>9. IsSequence(FlattenSeq(h))
  <2>1. \A e \in DOMAIN q.having : IsSequence(h[e])
    BY <1>4, QueryShape, ExprUses
  <2>2. IsSequence(q.having)
    BY QueryShape
  <2> QED BY ONLY <1>4, <2>1, <2>2, EachFlat
<1> DEFINE u == FlattenSeq(a) \o FlattenSeq(b)
           v == u \o FlattenSeq(c)
           w == v \o d
<1>10. IsSequence(u) /\ Range(u) = Range(FlattenSeq(a)) \cup Range(FlattenSeq(b))
  BY <1>6, <1>7, AnyConcat
<1>11. IsSequence(v) /\ Range(u) \subseteq Range(v)
  <2> HIDE DEF u
  <2> QED BY <1>8, <1>10, AnyConcat
<1>12. IsSequence(w) /\ Range(v) \subseteq Range(w)
  <2> HIDE DEF v
  <2> QED BY <1>5, <1>11, AnyConcat
<1>13. UsesOfQuery(q) = w \o FlattenSeq(h)
  BY <1>0
<1>14. Range(w) \subseteq Range(w \o FlattenSeq(h))
  <2> HIDE DEF w
  <2> QED BY <1>9, <1>12, AnyConcat
<1> HIDE DEF u, v, w
<1> QED BY <1>1, <1>2, <1>6, <1>7, <1>10, <1>11, <1>12, <1>13, <1>14

\* What is walked of an expression is named by it.
LEMMA WalkedFacts ==
  ASSUME NEW x \in Expr, x.form \notin {"opaque", "subquery"}
  PROVE  /\ IsSequence(Walked(x))
         /\ \A i \in DOMAIN Walked(x) : \E j \in DOMAIN x.refs : Walked(x)[i] = x.refs[j]
<1>1. /\ IsSequence(x.refs) /\ DOMAIN x.refs = 1..Len(x.refs) /\ Len(x.refs) \in Nat
      /\ x.form \in {"column", "call", "aggregate", "computed", "case", "simple case", "literal"}
      /\ x.form = "literal" => x.refs = << >>
      /\ x.form = "case" => Len(x.refs) = 3
  BY ExprFacts
<1>2. CASE x.form = "case"
  <2>1. Walked(x) = Tail(x.refs)
    BY <1>2 DEF Walked
  <2>2. x.refs # << >>
    BY <1>1, <1>2
  <2>3. IsSequence(Tail(x.refs)) /\ \A i \in DOMAIN Tail(x.refs) : i + 1 \in DOMAIN x.refs /\ Tail(x.refs)[i] = x.refs[i + 1]
    BY <1>1, <2>2, HeadTail
  <2> QED BY <2>1, <2>3
<1>3. CASE x.form = "literal"
  <2>1. Walked(x) = << >>
    BY <1>3 DEF Walked
  <2> QED BY <2>1, AnyEmpty
<1>4. CASE x.form \in {"column", "call", "aggregate", "computed", "simple case"}
  <2>1. Walked(x) = x.refs
    BY <1>4 DEF Walked
  <2> QED BY <1>1, <2>1
<1> QED BY <1>1, <1>2, <1>3, <1>4

\* Every level of a statement has that shape.
LEMMA LevelShapes ==
  ASSUME NEW s, Lined(s), NEW n \in Levels(s)
  PROVE  LevelShape(s, n)
<1> DEFINE items == ItemsIn(s, n)
           elements == ElementsIn(s, n)
           M == Meant(body.queries, s)
<1>1. PICK k \in DOMAIN body.statements : s = body.statements[k]
  BY DEF AStatement, Lined
<1>2. body \in Bodies /\ AStatement(s) /\ s.ctes = << >>
  BY DEF AStatement, Lined
<1>3. LevelsOf(s) /\ IsLevel(s, n)
  BY LevelsFacts DEF Lined, LevelsOf
<1>4. /\ IsSequence(items) /\ IsSequence(elements)
      /\ \A i \in DOMAIN items :
           items[i].kind = "derived" => items[i].query \in DOMAIN body.queries /\ items[i].alias # None
  BY <1>1, <1>2, <1>3, LevelFacts
<1>5. /\ DOMAIN items = 1..Len(items) /\ Len(items) \in Nat /\ DOMAIN elements = 1..Len(elements) /\ Len(elements) \in Nat
  BY <1>4, AnySequence
<1>6. s \in Statement
  BY <1>1, <1>2, StatementFacts
<1>7. s.target \in Item /\ s.using \in Item /\ \A e \in DOMAIN s.sets : s.sets[e].expr \in Expr
  <2>1. s.target \in Item /\ s.using \in Item /\ s.sets \in Seq([prefix : Maybe, column : Names, expr : Expr])
    BY <1>6 DEF Statement
  <2> DEFINE S == [prefix : Maybe, column : Names, expr : Expr]
  <2>2. \A x \in S : x.expr \in Expr
    OBVIOUS
  <2> HIDE DEF S
  <2>3. s.sets \in Seq(S)
    BY <2>1 DEF S
  <2>4. \A e \in DOMAIN s.sets : s.sets[e] \in S
    BY <2>3, TypedSequence
  <2> QED BY <2>1, <2>2, <2>4
<1>8. Meaning(s)
  BY <1>2, MeantUnfolds
<1>9. \A x \in Item : x.kind \in {"table", "derived", "other"}
  BY DEF Item
<1>10. \A x \in Elem : x.kind \in {"scalar", "star", "variable", "other"}
  BY DEF Elem
<1>11. CASE n = 0
  <2>1. s.kind = "merge" /\ items = <<s.target, s.using>> /\ Place(n) = Len(body.queries) + 1
    BY <1>3, <1>11 DEF LevelsOf, ItemsIn, Place
  <2>2. s.query = 0 /\ s.target.kind # "derived"
    BY <1>1, <1>2, <2>1, BodyAssumption
  <2>3. DOMAIN items = {1, 2} /\ items[1] = s.target /\ items[2] = s.using
    BY <2>1
  <2>4. s.using.kind = "derived" => InnerQuery(s, s.using.query)
    BY <1>3, <2>1 DEF LevelsOf
  <2>5. /\ DOMAIN elements = DOMAIN s.sets
        /\ \A e \in DOMAIN s.sets : elements[e].kind = "scalar" /\ elements[e].expr = s.sets[e].expr
    BY <1>11 DEF ElementsIn
  <2> HIDE DEF items, elements, M
  <2>6. \A i \in DOMAIN items : items[i].kind = "derived" => InnerQuery(s, items[i].query) /\ items[i].alias # None
    BY <1>4, <2>2, <2>3, <2>4
  <2>7. \A i \in DOMAIN items : items[i].kind = "derived" => IsSequence(M[items[i].query])
    BY <1>8, <2>6 DEF Meaning, InnerQuery, M
  <2>8. IsTables(TablesOf(s, Place(n), items, M), items) /\
          \A i \in DOMAIN items : TablesOf(s, Place(n), items, M)[i] = ItemColumns(s, Place(n), items[i], M)
    BY <1>2, <1>4, <2>7, TablesMean
  <2>9. LevelTables(s, n) = TablesOf(s, Place(n), items, M)
    BY DEF LevelTables, Tables, items, M
  <2>10. \A i \in DOMAIN items : items[i].kind \in {"table", "derived", "other"}
    BY <1>7, <1>9, <2>3
  <2>11. \A e \in DOMAIN elements : elements[e].expr \in Expr /\ elements[e].kind \in {"scalar", "star", "variable", "other"}
    BY <1>7, <2>5
  <2> QED BY <1>4, <1>5, <1>11, <2>1, <2>2, <2>5, <2>6, <2>8, <2>9, <2>10, <2>11 DEF LevelShape, items, elements, M
<1>12. CASE n # 0
  <2>1. n \in DOMAIN body.queries /\ \A p \in Parts(body.queries[n]) : InnerQuery(s, p)
    BY <1>3, <1>12 DEF LevelsOf
  <2>2. body.queries[n] \in Query /\ items = body.queries[n].from /\ elements = body.queries[n].select /\ Place(n) = n
    BY <1>2, <1>12, <2>1, BodyFacts DEF ItemsIn, ElementsIn, Place
  <2>3. \A i \in DOMAIN items : items[i].kind = "derived" => items[i].query \in Parts(body.queries[n])
    BY <2>2 DEF Parts
  <2> HIDE DEF items, elements, M
  <2>4. \A i \in DOMAIN items : items[i].kind = "derived" => InnerQuery(s, items[i].query) /\ items[i].alias # None
    BY <1>4, <2>1, <2>3
  <2>7. \A i \in DOMAIN items : items[i].kind = "derived" => IsSequence(M[items[i].query])
    BY <1>8, <2>4 DEF Meaning, InnerQuery, M
  <2>8. IsTables(TablesOf(s, Place(n), items, M), items) /\
          \A i \in DOMAIN items : TablesOf(s, Place(n), items, M)[i] = ItemColumns(s, Place(n), items[i], M)
    BY <1>2, <1>4, <2>7, TablesMean
  <2>9. LevelTables(s, n) = TablesOf(s, Place(n), items, M)
    BY DEF LevelTables, Tables, items, M
  <2>10. \A i \in DOMAIN items : items[i].kind \in {"table", "derived", "other"}
    BY <1>9, <2>2, QueryShape
  <2>11. \A e \in DOMAIN elements : elements[e].expr \in Expr /\ elements[e].kind \in {"scalar", "star", "variable", "other"}
    BY <1>10, <2>2, QueryShape
  <2> QED BY <1>4, <1>5, <1>12, <2>1, <2>2, <2>4, <2>8, <2>9, <2>10, <2>11 DEF LevelShape, items, elements, M
<1> QED BY <1>11, <1>12

\* A set with one member is not empty.
LEMMA OneIsSome == ASSUME NEW S, Cardinality(S) = 1 PROVE S # {}
<1>1. Cardinality({}) = 0
  BY FS_EmptySet
<1> QED BY <1>1

\* What is plain of a statement is plain of each of its levels.
LEMMA PlainLevels ==
  ASSUME NEW s, Lined(s), Covered(s), NEW n \in Levels(s)
  PROVE  LevelPlain(s, n)
<1> DEFINE items == ItemsIn(s, n)
           elements == ElementsIn(s, n)
           M == Meant(body.queries, s)
<1>1. LevelShape(s, n)
  BY LevelShapes
<1>2. Plain(s) /\ ~StarOf(s, {"derived"}) /\ s.ctes = << >>
  BY DEF Covered
<1>3. \A i \in DOMAIN items : items[i].kind # "other" /\ (items[i].kind = "table" => Finds(items[i]))
  <2> SUFFICES ASSUME NEW i \in DOMAIN items PROVE items[i].kind # "other" /\ (items[i].kind = "table" => Finds(items[i]))
    OBVIOUS
  <2>1. <<n, i>> \in ItemsOf(s) /\ ItemAt(s, <<n, i>>) = items[i]
    BY DEF ItemsOf, ItemAt
  <2>2. ItemAt(s, <<n, i>>).kind # "other" /\ FindsWhatItMeans(s, <<n, i>>)
    BY <1>2, <2>1 DEF Plain
  <2>3. CteOf(s, ItemAt(s, <<n, i>>), Place(n)) = {}
    BY <1>2 DEF CteOf
  <2> HIDE DEF items
  <2> QED BY <2>1, <2>2, <2>3 DEF FindsWhatItMeans
<1>4. \A i, j \in DOMAIN items : Exposed(items[i]) = Exposed(items[j]) => i = j
  <2>1. Distinct([i \in DOMAIN items |-> Exposed(items[i])])
    BY <1>2 DEF Plain
  <2> HIDE DEF items
  <2> QED BY <2>1 DEF Distinct
<1>5. \A e \in DOMAIN elements : /\ elements[e].kind # "other" /\ elements[e].expr.form \notin {"opaque", "subquery"}
                                 /\ Range(Walked(elements[e].expr)) = Range(elements[e].expr.refs)
  <2>1. \A elem \in Range(elements) : /\ elem.kind # "other" /\ elem.expr.form \notin {"opaque", "subquery"}
                                      /\ Range(Walked(elem.expr)) = Range(elem.expr.refs)
    BY <1>2 DEF Plain
  <2> HIDE DEF elements
  <2> QED BY <2>1 DEF Range
<1>6. Compiled(body.queries, s) /\ KeepsNames(s)
  BY <1>2 DEF Plain
<1>7. CASE n = 0
  <2>1. /\ s.kind = "merge" /\ s.query = 0 /\ items = <<s.target, s.using>> /\ Place(n) = Len(body.queries) + 1
        /\ \A e \in DOMAIN elements : elements[e].kind = "scalar" /\ e \in DOMAIN s.sets /\ elements[e].expr = s.sets[e].expr
    BY <1>1, <1>7 DEF LevelShape
  <2>2. LevelTables(s, n) = TablesOf(s, Len(body.queries) + 1, <<s.target, s.using>>, M)
    BY <2>1 DEF LevelTables, Tables
  <2>3. \A k \in DOMAIN s.sets : \A i \in DOMAIN s.sets[k].expr.refs :
          Cardinality(Named(TablesOf(s, Len(body.queries) + 1, <<s.target, s.using>>, M),
                            <<s.target, s.using>>, s.sets[k].expr.refs[i])) = 1
    BY <1>6, <2>1 DEF Compiled
  <2> HIDE DEF items, elements, M
  <2>4. \A e \in DOMAIN elements : \A i \in DOMAIN elements[e].expr.refs :
          Named(LevelTables(s, n), items, elements[e].expr.refs[i]) # {}
    BY <2>1, <2>2, <2>3, OneIsSome
  <2>5. \A e \in DOMAIN elements : elements[e].kind # "star"
    BY <2>1
  <2> QED BY <1>3, <1>4, <1>5, <1>7, <2>1, <2>4, <2>5 DEF LevelPlain, items, elements
<1>8. CASE n # 0
  <2> DEFINE q == body.queries[n]
  <2>1. n \in QueriesOf(body.queries, s) /\ q \in Query /\ Place(n) = n /\ items = q.from /\ elements = q.select
    BY <1>1, <1>8, LevelsFacts DEF LevelShape, LevelsOf, Lined
  <2>2. LevelTables(s, n) = TablesOf(s, n, q.from, M)
    BY <2>1 DEF LevelTables, Tables
  <2>3. /\ \A use \in Range(UsesOfQuery(q)) : Cardinality(Named(TablesOf(s, n, q.from, M), q.from, use.ref)) = 1
        /\ \A e \in DOMAIN q.select :
             q.select[e].kind = "star" => q.select[e].qualifier \in {None} \cup {Exposed(item) : item \in Range(q.from)}
        /\ q.kind = "union" => Len(M[q.left]) = Len(M[q.right])
    BY <1>6, <2>1 DEF Compiled
  <2>4. \A e \in DOMAIN elements : elements[e].kind = "star" => \A i \in DOMAIN items : items[i].kind # "derived"
    BY <1>2, <2>1 DEF StarOf
  <2>5. n # s.query => \A e \in DOMAIN elements : elements[e].kind = "scalar" /\ elements[e].alias = None =>
          \/ Len(LevelColumns(s, n, e - 1)) + 1 > Len(body.declared)
          \/ /\ elements[e].expr.form = "column"
             /\ body.declared[Len(LevelColumns(s, n, e - 1)) + 1] = elements[e].expr.refs[1].name
    <3> SUFFICES ASSUME n # s.query, NEW e \in DOMAIN elements, elements[e].kind = "scalar", elements[e].alias = None
                 PROVE  \/ Len(LevelColumns(s, n, e - 1)) + 1 > Len(body.declared)
                        \/ /\ elements[e].expr.form = "column"
                           /\ body.declared[Len(LevelColumns(s, n, e - 1)) + 1] = elements[e].expr.refs[1].name
      OBVIOUS
    <3>1. LevelColumns(s, n, e - 1) = ColumnsOf(Tables(s, n, M), q.from, SubSeq(q.select, 1, e - 1))
      BY <2>1 DEF LevelColumns, LevelTables, FirstOf
    <3>2. n \in QueriesOf(body.queries, s) \ {s.query} /\ e \in DOMAIN q.select /\ q.select[e].kind = "scalar" /\ q.select[e].alias = None
      BY <2>1
    <3>3. \/ Len(ColumnsOf(Tables(s, n, M), q.from, SubSeq(q.select, 1, e - 1))) + 1 > Len(body.declared)
          \/ /\ q.select[e].expr.form = "column"
             /\ body.declared[Len(ColumnsOf(Tables(s, n, M), q.from, SubSeq(q.select, 1, e - 1))) + 1]
                  = q.select[e].expr.refs[1].name
      BY <1>6, <3>2 DEF KeepsNames
    <3> QED BY <2>1, <3>1, <3>3
  <2> HIDE DEF items, elements, M, q
  <2>6. \A e \in DOMAIN elements : elements[e].kind = "star" =>
          elements[e].qualifier = None \/ \E i \in DOMAIN items : Exposed(items[i]) = elements[e].qualifier
    BY <2>1, <2>3 DEF Range
  <2>7. \A e \in DOMAIN elements : \A i \in DOMAIN elements[e].expr.refs :
          Named(LevelTables(s, n), items, elements[e].expr.refs[i]) # {}
    <3> SUFFICES ASSUME NEW e \in DOMAIN elements, NEW i \in DOMAIN elements[e].expr.refs
                 PROVE  Named(LevelTables(s, n), items, elements[e].expr.refs[i]) # {}
      OBVIOUS
    <3>1. elements[e].expr \in Expr
      BY <1>1 DEF LevelShape, elements
    <3>2. PICK use \in Range(UsesOfExpr("PROJECTION", elements[e].expr)) : use.ref = elements[e].expr.refs[i]
      BY <3>1, ExprUses
    <3>3. use \in Range(UsesOfQuery(q))
      BY <2>1, <3>2, QueryUses
    <3> QED BY <2>1, <2>2, <2>3, <3>2, <3>3, OneIsSome
  <2>8. q.kind = "union" => Len(M[q.left]) = Len(M[q.right])
    BY <2>3
  <2>9. body.queries[n].kind = "union" =>
           Len(Meant(body.queries, s)[body.queries[n].left]) = Len(Meant(body.queries, s)[body.queries[n].right])
    BY <2>8 DEF q, M
  <2> QED BY <1>3, <1>4, <1>5, <2>4, <2>5, <2>6, <2>7, <2>9 DEF LevelPlain, items, elements
<1> QED BY <1>7, <1>8

\* The levels of a statement of the premise.
LEMMA LevelsOk ==
  ASSUME NEW s, Lined(s), Covered(s), NEW n \in Levels(s)
  PROVE  LevelOk(s, n)
<1> DEFINE items == ItemsIn(s, n)
           elements == ElementsIn(s, n)
           M == Meant(body.queries, s)
<1>1. LevelShape(s, n) /\ LevelPlain(s, n)
  BY LevelShapes, PlainLevels
<1>2. s.ctes = << >> /\ body \in Bodies /\ AStatement(s)
  BY DEF Covered, Lined, AStatement
<1>3. ASSUME NEW i \in DOMAIN items PROVE ItemOk(s, n, i)
  <2>1. /\ LevelTables(s, n)[i] = ItemColumns(s, Place(n), items[i], M)
        /\ items[i].kind \in {"table", "derived"} /\ (items[i].kind = "table" => Finds(items[i]))
        /\ items[i].kind = "derived" => InnerQuery(s, items[i].query) /\ items[i].alias # None
    <3>1. items[i].kind \in {"table", "derived", "other"} /\ items[i].kind # "other"
      BY <1>1, <1>3 DEF LevelShape, LevelPlain
    <3>2. items[i].kind \in {"table", "derived"}
      <4> HIDE DEF items
      <4> QED BY <3>1
    <3> QED BY <1>1, <1>3, <3>2 DEF LevelShape, LevelPlain
  <2>2. /\ items[i].kind = "derived" => ItemColumns(s, Place(n), items[i], M) = M[items[i].query]
        /\ items[i].kind = "table" => ItemColumns(s, Place(n), items[i], M) = TableColumns(items[i].schema, items[i].name)
    BY <1>2, ItemMeans
  <2> QED BY <2>1, <2>2 DEF ItemOk
<1>4. ASSUME NEW e \in DOMAIN elements PROVE ElementOk(s, n, e)
  <2> DEFINE elem == elements[e]
  <2>1. elem.expr \in Expr /\ elem.kind \in {"scalar", "star", "variable", "other"}
    BY <1>1, <1>4 DEF LevelShape
  <2>2. /\ elem.kind # "other" /\ elem.expr.form \notin {"opaque", "subquery"}
        /\ Range(Walked(elem.expr)) = Range(elem.expr.refs)
    BY <1>1, <1>4 DEF LevelPlain
  <2>3. /\ IsSequence(Walked(elem.expr))
        /\ \A i \in DOMAIN Walked(elem.expr) : \E j \in DOMAIN elem.expr.refs : Walked(elem.expr)[i] = elem.expr.refs[j]
        /\ IsSequence(elem.expr.refs)
    <3> HIDE DEF elem
    <3> QED BY <2>1, <2>2, WalkedFacts, ExprFacts
  <2>4. elem.kind = "scalar" => RefsMean(s, n, Walked(elem.expr))
    <3> SUFFICES ASSUME elem.kind = "scalar" PROVE RefsMean(s, n, Walked(elem.expr))
      OBVIOUS
    <3>1. \A j \in DOMAIN elem.expr.refs : Named(LevelTables(s, n), items, elem.expr.refs[j]) # {}
      BY <1>1, <1>4 DEF LevelPlain
    <3> HIDE DEF elem
    <3> QED BY <2>3, <3>1 DEF RefsMean, items
  <2>5. elem.kind = "star" =>
           /\ elem.qualifier = None \/ \E i \in DOMAIN items : Exposed(items[i]) = elem.qualifier
           /\ \A i \in DOMAIN items : items[i].kind = "table"
    <3> SUFFICES ASSUME elem.kind = "star"
                 PROVE /\ elem.qualifier = None \/ \E i \in DOMAIN items : Exposed(items[i]) = elem.qualifier
                       /\ \A i \in DOMAIN items : items[i].kind = "table"
      OBVIOUS
    <3>1. /\ elem.qualifier = None \/ \E i \in DOMAIN items : Exposed(items[i]) = elem.qualifier
          /\ \A i \in DOMAIN items : items[i].kind # "derived" /\ items[i].kind # "other"
      BY <1>1, <1>4 DEF LevelPlain
    <3>2. \A i \in DOMAIN items : items[i].kind \in {"table", "derived", "other"}
      BY <1>1 DEF LevelShape
    <3> HIDE DEF items, elem
    <3> QED BY <3>1, <3>2
  <2>6. n # s.query /\ elem.kind = "scalar" /\ elem.alias = None =>
           \/ Len(LevelColumns(s, n, e - 1)) + 1 > Len(body.declared)
           \/ elem.expr.form = "column" /\ body.declared[Len(LevelColumns(s, n, e - 1)) + 1] = elem.expr.refs[1].name
    BY <1>1, <1>4 DEF LevelPlain
  <2>7. elem.kind \in {"scalar", "star", "variable"}
    <3> HIDE DEF elem
    <3> QED BY <2>1, <2>2
  <2> QED BY <2>2, <2>3, <2>4, <2>5, <2>6, <2>7 DEF ElementOk, elem
<1>5. IsSequence(items) /\ IsSequence(elements) /\ IsTables(LevelTables(s, n), items)
  BY <1>1 DEF LevelShape
<1>6. ColumnsOf(LevelTables(s, n), items, FirstOf(elements, Len(elements))) = ColumnsOf(LevelTables(s, n), items, elements)
  BY <1>5, ColumnsStep
<1>7. n = 0 \/ body.queries[n].kind # "union" => QueryMeant(s, n) = LevelColumns(s, n, Len(elements))
  <2>1. CASE n = 0
    BY <1>6, <2>1 DEF QueryMeant, LevelColumns
  <2>2. CASE n # 0
    <3>1. /\ n \in DOMAIN body.queries /\ Place(n) = n /\ items = body.queries[n].from /\ elements = body.queries[n].select
      BY <1>1, <2>2 DEF LevelShape
    <3>2. M[n] = QueryColumns(body.queries, s, n, M)
      BY <1>2, <3>1, MeantUnfolds DEF Meaning
    <3>3. body.queries[n].kind # "union" => M[n] = ColumnsOf(TablesOf(s, n, items, M), items, elements)
      BY <3>1, <3>2 DEF QueryColumns
    <3>4. LevelTables(s, n) = TablesOf(s, n, items, M)
      BY <3>1 DEF LevelTables, Tables
    <3> QED BY <1>6, <2>2, <3>3, <3>4 DEF QueryMeant, LevelColumns
  <2> QED BY <2>1, <2>2
<1>8. n # 0 /\ body.queries[n].kind = "union" =>
        LET q == body.queries[n]
        IN /\ InnerQuery(s, q.left) /\ InnerQuery(s, q.right) /\ Len(M[q.left]) = Len(M[q.right])
           /\ IsSequence(M[q.left]) /\ IsSequence(M[q.right])
           /\ M[n] = [i \in DOMAIN M[q.left] \cap DOMAIN M[q.right] |->
                        [name |-> M[q.left][i].name, from |-> M[q.left][i].from \cup M[q.right][i].from]]
  <2> SUFFICES ASSUME n # 0, body.queries[n].kind = "union"
               PROVE LET q == body.queries[n]
                     IN /\ InnerQuery(s, q.left) /\ InnerQuery(s, q.right) /\ Len(M[q.left]) = Len(M[q.right])
                        /\ IsSequence(M[q.left]) /\ IsSequence(M[q.right])
                        /\ M[n] = [i \in DOMAIN M[q.left] \cap DOMAIN M[q.right] |->
                                     [name |-> M[q.left][i].name, from |-> M[q.left][i].from \cup M[q.right][i].from]]
    BY Zenon
  <2> DEFINE q == body.queries[n]
  <2>1. n \in DOMAIN body.queries /\ \A p \in Parts(q) : InnerQuery(s, p)
    BY LevelsFacts DEF LevelsOf, Lined
  <2>2. q.left \in Parts(q) /\ q.right \in Parts(q)
    BY DEF Parts
  <2>3. M[n] = QueryColumns(body.queries, s, n, M)
    BY <1>2, <2>1, MeantUnfolds DEF Meaning
  <2>4. InnerQuery(s, q.left) /\ InnerQuery(s, q.right)
    BY <2>1, <2>2
  <2>5. IsSequence(M[q.left]) /\ IsSequence(M[q.right])
    BY <2>4, <1>2, MeantUnfolds DEF InnerQuery, Meaning
  <2>6. Len(M[q.left]) = Len(M[q.right])
    BY <1>1 DEF LevelPlain
  <2>7. M[n] = [i \in DOMAIN M[q.left] \cap DOMAIN M[q.right] |->
                        [name |-> M[q.left][i].name, from |-> M[q.left][i].from \cup M[q.right][i].from]]
    BY <2>3, Zenon DEF QueryColumns
  <2> QED BY <2>4, <2>5, <2>6, <2>7, Zenon
<1>9. \A i, j \in DOMAIN items : Exposed(items[i]) = Exposed(items[j]) => i = j
  BY <1>1 DEF LevelPlain
<1>10. /\ DOMAIN items = 1..Len(items) /\ Len(items) \in Nat
       /\ DOMAIN elements = 1..Len(elements) /\ Len(elements) \in Nat
  BY <1>5, AnySequence
<1> QED BY <1>3, <1>4, <1>5, <1>7, <1>8, <1>9, <1>10, Zenon DEF LevelOk

-----------------------------------------------------------------------------
(* What the visit tells: the columns it has bound and mapped come from what is meant.*)

\* Tracing columns that are settled takes one step.
LEMMA TraceSettled ==
  ASSUME Registered, NEW L, NEW cols, \A c \in cols : Settled(c, L)
  PROVE  /\ BaseOf(Trace(cols)) = UNION {Direct(c) : c \in cols}
         /\ \A c \in Trace(cols) : Clear(c, L)
<1> DEFINE E(c) == IF SourcesOf(c) = {} THEN {c} ELSE SourcesOf(c)
           W(set) == UNION {E(c) : c \in set}
           N == Depth
<1>1. N \in Nat /\ IsFiniteSet(Pairs) /\ N = Cardinality(Pairs)
  BY DepthFacts
<1>2. PICK to : TracedTo(cols, to) /\ Trace(cols) = to[N]
  BY <1>1, TraceUnfolds
<1>3. to[0] = cols /\ \A k \in 1..N : to[k] = W(to[k - 1])
  BY <1>2 DEF TracedTo
<1>4. \A c : ~IsVirtual(c) => SourcesOf(c) = {}
  BY DEF IsVirtual, SourcesOf, Known, Registered
<1>5. \A c : Clear(c, L) => E(c) = {c}
  BY <1>4 DEF Clear
<1>6. \A c : Settled(c, L) => \A d \in E(c) : Clear(d, L)
  BY <1>4 DEF Settled, Clear
<1>7. \A c : Settled(c, L) => BaseOf(E(c)) = Direct(c)
  <2> SUFFICES ASSUME NEW c, Settled(c, L) PROVE BaseOf(E(c)) = Direct(c)
    OBVIOUS
  <2>1. CASE ~IsVirtual(c)
    BY <1>4, <2>1 DEF BaseOf, Direct
  <2>2. CASE IsVirtual(c) /\ SourcesOf(c) = {}
    BY <2>2 DEF BaseOf, Direct
  <2>3. CASE IsVirtual(c) /\ SourcesOf(c) # {}
    BY <2>3 DEF Direct
  <2> QED BY <2>1, <2>2, <2>3
<1>8. N = 0 => \A c : SourcesOf(c) = {}
  <2> SUFFICES ASSUME N = 0, NEW c, SourcesOf(c) # {} PROVE FALSE
    OBVIOUS
  <2>1. Pairs = {}
    <3>1. Cardinality(Pairs) = 0
      BY <1>1
    <3> QED BY <1>1, <3>1, FS_EmptySet
  <2>2. Known(c)
    BY DEF SourcesOf
  <2>3. <<c.owner, c.ordinal>> \in Pairs
    BY <2>2 DEF Known, Pairs
  <2> QED BY <2>1, <2>3
<1> HIDE DEF E, N
<1>9. \A d \in W(cols) : Clear(d, L)
  BY <1>6
<1>10. W(W(cols)) = W(cols)
  <2> DEFINE V == W(cols)
  <2>1. \A d \in V : E(d) = {d}
    BY <1>5, <1>9
  <2> HIDE DEF V
  <2>2. UNION {E(d) : d \in V} = V
    BY <2>1
  <2> QED BY <2>2 DEF V
<1>11. Trace(cols) = W(cols)
  <2>1. CASE N = 0
    BY <1>8, <2>1, <1>2, <1>3 DEF E
  <2>2. CASE N # 0
    <3> DEFINE V == W(cols)
               Q == {k \in 0..N : k = 0 \/ to[k] = V}
    <3>1. 0 \in Q
      BY <1>1
    <3>2. ASSUME NEW k \in 1..N, k - 1 \in Q PROVE k \in Q
      <4>1. k \in 0..N /\ k - 1 \in 0..N
        <5>1. N \in Nat /\ k \in 1..N
          BY <1>1
        <5> QED BY ONLY <5>1
      <4>2. to[k] = W(to[k - 1])
        BY <1>3
      <4>3. k - 1 = 0 \/ to[k - 1] = V
        BY <3>2
      <4>4. to[k] = V
        BY <1>3, <1>10, <4>2, <4>3
      <4> QED BY <4>1, <4>4
    <3>3. N \in Q
      <4> HIDE DEF Q
      <4>1. \A k \in 0..N : k \in Q
        BY <1>1, <3>1, <3>2, Induct
      <4> QED BY <1>1, <4>1
    <3> QED BY <1>2, <2>2, <3>3
  <2> QED BY <2>1, <2>2
<1>12. BaseOf(W(cols)) = UNION {Direct(c) : c \in cols}
  BY <1>7 DEF BaseOf
<1> QED BY <1>9, <1>11, <1>12

-----------------------------------------------------------------------------
(* Steps that leave what is told.                                          *)

\* A step that leaves the body leaves what its statements mean.
LEMMA SameMeaning == ASSUME body' = body PROVE SameBody
<1>1. \A s, n : ItemsIn(s, n)' = ItemsIn(s, n) /\ ElementsIn(s, n)' = ElementsIn(s, n)
  BY DEF ItemsIn, ElementsIn
<1>2. \A n : Place(n)' = Place(n)
  BY DEF Place
<1>3. \A s, n, of : Tables(s, n, of)' = Tables(s, n, of)
  BY <1>1, <1>2 DEF Tables
<1>4. \A s, n : LevelTables(s, n)' = LevelTables(s, n)
  BY <1>3 DEF LevelTables
<1>5. \A s, n, k : LevelColumns(s, n, k)' = LevelColumns(s, n, k)
  BY <1>1, <1>4 DEF LevelColumns
<1>6. \A s, n : QueryMeant(s, n)' = QueryMeant(s, n)
  BY <1>1, <1>4 DEF QueryMeant
<1>7. \A s : Levels(s)' = Levels(s)
  BY DEF Levels
<1>8. \A f : IsUnion(f)' = IsUnion(f)
  BY DEF IsUnion
<1>9. \A s, f : Awaited(s, f)' = Awaited(s, f)
  BY <1>1, <1>8 DEF Awaited
<1>10. \A s, frames : Wanted(s, frames)' = Wanted(s, frames) /\ Linked(s, frames)' = Linked(s, frames)
  BY <1>9 DEF Wanted, Linked
<1>11. \A s, f : Mapped(s, f)' = Mapped(s, f)
  BY <1>1 DEF Mapped
<1>12. \A s, p, f : Bound(s, p, f)' = Bound(s, p, f)
  BY <1>1 DEF Bound
<1> QED BY <1>1, <1>4, <1>5, <1>6, <1>7, <1>8, <1>9, <1>10, <1>11, <1>12 DEF SameBody

\* A step that leaves the body leaves which statements SourcesExact is about.
LEMMA SamePremise ==
  ASSUME body' = body
  PROVE  \A s : Covered(s)' = Covered(s) /\ Expected(s)' = Expected(s) /\ Lined(s)' = Lined(s)
<1> SUFFICES ASSUME NEW s PROVE Covered(s)' = Covered(s) /\ Expected(s)' = Expected(s) /\ Lined(s)' = Lined(s)
  OBVIOUS
<1>1. \A n : ItemsIn(s, n)' = ItemsIn(s, n) /\ ElementsIn(s, n)' = ElementsIn(s, n)
  BY DEF ItemsIn, ElementsIn
<1>2. \A n : Place(n)' = Place(n)
  BY DEF Place
<1>3. \A n, of : Tables(s, n, of)' = Tables(s, n, of)
  BY <1>1, <1>2 DEF Tables
<1>4. Expected(s)' = Expected(s)
  BY <1>1, <1>3 DEF Expected
<1>5. Levels(s)' = Levels(s)
  BY DEF Levels
<1>6. ItemsOf(s)' = ItemsOf(s)
  BY <1>1, <1>5 DEF ItemsOf
<1>7. \A p : ItemAt(s, p)' = ItemAt(s, p)
  BY <1>1 DEF ItemAt
<1>8. \A p : FindsWhatItMeans(s, p)' = FindsWhatItMeans(s, p)
  BY <1>2, <1>7 DEF FindsWhatItMeans
<1>9. KeepsNames(s)' = KeepsNames(s)
  BY <1>3 DEF KeepsNames
<1>10. Aliases(s)' = Aliases(s)
  BY SameRemaining
<1>11. Plain(s)' = Plain(s)
  BY <1>1, <1>5, <1>6, <1>7, <1>8, <1>9, <1>10 DEF Plain
<1>12. StarOf(s, {"derived"})' = StarOf(s, {"derived"})
  BY DEF StarOf
<1>13. Lined(s)' = Lined(s)
  BY DEF Lined, AStatement
<1> QED BY <1>4, <1>11, <1>12, <1>13 DEF Covered

\* What is told of columns and maps is still told after a step in which fewer aliases are owed.
LEMMA MapsCarried ==
  ASSUME NEW L, NEW K, K \subseteq L, Stays(L)
  PROVE  /\ \A c : Clear(c, L) => Clear(c, K)'
         /\ \A cols, means : ColumnsTell(cols, means, L) => ColumnsTell(cols, means, K)'
         /\ \A maps, means, named : MapsTell(maps, means, named, L) => MapsTell(maps, means, named, K)'
<1>1. \A c : Clear(c, L) => Clear(c, K)'
  BY DEF Clear, Stays, IsVirtual
<1>2. \A c : Settled(c, L) => Settled(c, K)' /\ Direct(c)' = Direct(c)
  <2> SUFFICES ASSUME NEW c, Settled(c, L) PROVE Settled(c, K)' /\ Direct(c)' = Direct(c)
    OBVIOUS
  <2>1. CASE ~IsVirtual(c)
    BY <2>1 DEF Settled, Direct, IsVirtual
  <2>2. CASE IsVirtual(c)
    BY <2>2, <1>1 DEF Settled, Stays, Direct, BaseOf, IsVirtual
  <2> QED BY <2>1, <2>2
<1>3. \A c, m : ColumnTells(c, m, L) => ColumnTells(c, m, K)'
  <2> SUFFICES ASSUME NEW c, NEW m, ColumnTells(c, m, L) PROVE ColumnTells(c, m, K)'
    OBVIOUS
  <2>1. c.column = m.name /\ Settled(c, L) /\ Direct(c) = m.from
    BY DEF ColumnTells
  <2>2. Settled(c, K)' /\ Direct(c)' = Direct(c)
    BY <1>2, <2>1
  <2> QED BY <2>1, <2>2 DEF ColumnTells
<1>4. \A cols, means : ColumnsTell(cols, means, L) => ColumnsTell(cols, means, K)'
  BY <1>3 DEF ColumnsTell
<1>5. \A r, m : MapTells(r, m, L) => MapTells(r, m, K)'
  <2> SUFFICES ASSUME NEW r, NEW m, MapTells(r, m, L) PROVE MapTells(r, m, K)'
    OBVIOUS
  <2>1. /\ r = [name |-> r.name, sources |-> r.sources, is_direct |-> r.is_direct]
        /\ BaseOf(r.sources) = m.from /\ \A c \in r.sources : Clear(c, L)
    BY DEF MapTells
  <2>2. BaseOf(r.sources)' = BaseOf(r.sources)
    BY DEF BaseOf, IsVirtual
  <2> QED BY <1>1, <2>1, <2>2 DEF MapTells
<1>6. \A maps, means, named : MapsTell(maps, means, named, L) => MapsTell(maps, means, named, K)'
  BY <1>5 DEF MapsTell
<1> QED BY <1>1, <1>4, <1>6

\* What is told of a frame is still told after a step in which fewer aliases are owed.
LEMMA FramesCarried ==
  ASSUME body' = body, NEW L, NEW K, K \subseteq L, Stays(L)
  PROVE  \A s, p, f : FrameTells(s, p, f, L) => FrameTells(s, p, f, K)'
<1>1. SameBody
  BY SameMeaning
<1>2. \A s, n, scope, k : ScopeTells(s, n, scope, k, L) => ScopeTells(s, n, scope, k, K)'
  <2> SUFFICES ASSUME NEW s, NEW n, NEW scope, NEW k, ScopeTells(s, n, scope, k, L) PROVE ScopeTells(s, n, scope, k, K)'
    OBVIOUS
  <2>1. /\ IsSequence(scope) /\ Len(scope) = k
        /\ \A i \in 1..k :
             /\ scope[i].alias = Exposed(ItemsIn(s, n)[i])
             /\ ColumnsTell(scope[i].columns, LevelTables(s, n)[i], L)
             /\ ItemsIn(s, n)[i].kind = "table" => \A c \in Range(scope[i].columns) : ~IsVirtual(c)
    BY DEF ScopeTells
  <2>2. \A i \in 1..k : ColumnsTell(scope[i].columns, LevelTables(s, n)[i], K)'
    <3> SUFFICES ASSUME NEW i \in 1..k PROVE ColumnsTell(scope[i].columns, LevelTables(s, n)[i], K)'
      OBVIOUS
    <3> DEFINE m == LevelTables(s, n)[i]
    <3>1. PICK x : x = m
      OBVIOUS
    <3>2. m' = x
      BY <1>1, <3>1 DEF SameBody
    <3>3. ColumnsTell(scope[i].columns, x, K)'
      BY <2>1, <3>1, MapsCarried
    <3> HIDE DEF m
    <3>4. ColumnsTell(scope[i].columns, m, K)'
      BY <3>2, <3>3 DEF ColumnsTell
    <3> QED BY <3>4 DEF m
  <2>3. ItemsIn(s, n)' = ItemsIn(s, n) /\ \A c : IsVirtual(c)' = IsVirtual(c)
    BY <1>1 DEF SameBody, IsVirtual
  <2> QED BY <2>1, <2>2, <2>3 DEF ScopeTells
<1> SUFFICES ASSUME NEW s, NEW p, NEW f, FrameTells(s, p, f, L) PROVE FrameTells(s, p, f, K)'
  OBVIOUS
<1>3. /\ Bound(s, p, f)' = Bound(s, p, f) /\ Mapped(s, f)' = Mapped(s, f) /\ IsUnion(f)' = IsUnion(f)
      /\ ElementsIn(s, f.query)' = ElementsIn(s, f.query) /\ Levels(s)' = Levels(s)
  BY <1>1 DEF SameBody
<1>4. SpecTells(s, p, f, L) => SpecTells(s, p, f, K)'
  <2> SUFFICES ASSUME SpecTells(s, p, f, L) PROVE SpecTells(s, p, f, K)'
    OBVIOUS
  <2>1. PICK k : k = Bound(s, p, f)
    OBVIOUS
  <2>2. PICK m : m = LevelColumns(s, f.query, Mapped(s, f))
    OBVIOUS
  <2>3. LevelColumns(s, f.query, Mapped(s, f))' = m
    BY <1>1, <1>3, <2>2 DEF SameBody
  <2>4. ScopeTells(s, f.query, f.scope, k, L) /\ MapsTell(f.maps, m, f.query # s.query, L)
        /\ Mapped(s, f) <= Len(ElementsIn(s, f.query))
    BY <2>1, <2>2 DEF SpecTells
  <2>5. ScopeTells(s, f.query, f.scope, k, K)' /\ MapsTell(f.maps, m, f.query # s.query, K)'
    BY <1>2, <2>4, MapsCarried
  <2>6. Bound(s, p, f)' = k
    BY <1>3, <2>1
  <2>7. ScopeTells(s, f.query, f.scope, Bound(s, p, f), K)'
    BY <2>5, <2>6 DEF ScopeTells
  <2>8. MapsTell(f.maps, LevelColumns(s, f.query, Mapped(s, f)), f.query # s.query, K)'
    BY <2>3, <2>5 DEF MapsTell
  <2>9. (Mapped(s, f) <= Len(ElementsIn(s, f.query)))'
    BY <1>3, <2>4
  <2> QED BY <2>7, <2>8, <2>9 DEF SpecTells
<1>5. IsUnion(f) /\ f.at = 2 => MapsTell(f.maps, Meant(body.queries, s)[body.queries[f.query].left], TRUE, K)'
  <2> SUFFICES ASSUME IsUnion(f) /\ f.at = 2
               PROVE  MapsTell(f.maps, Meant(body.queries, s)[body.queries[f.query].left], TRUE, K)'
    OBVIOUS
  <2>1. PICK m : m = Meant(body.queries, s)[body.queries[f.query].left]
    OBVIOUS
  <2>2. MapsTell(f.maps, m, TRUE, L)
    BY <2>1 DEF FrameTells
  <2>3. MapsTell(f.maps, m, TRUE, K)'
    BY <2>2, MapsCarried
  <2>4. m = (Meant(body.queries, s)[body.queries[f.query].left])'
    BY <2>1
  <2> QED BY <2>3, <2>4, Zenon DEF MapsTell
<1> QED BY <1>3, <1>4, <1>5 DEF FrameTells

\* What is told of the results does not change.
LEMMA SameResults ==
  ASSUME body' = body, NEW r
  PROVE  IsExact(r)' = IsExact(r)
<1>1. \A s : Covered(s)' = Covered(s) /\ Expected(s)' = Expected(s)
  BY SamePremise
<1>2. Produces(r)' = Produces(r)
  BY DEF Produces
<1>3. \A cols : BaseOf(cols)' = BaseOf(cols)
  BY DEF BaseOf, IsVirtual
<1> QED BY <1>1, <1>2, <1>3 DEF IsExact

\* A step within a statement, from what it leaves.
LEMMA Assembled ==
  ASSUME body' = body, current' = current, results' = results, TellInv, Busy, pc # "no source", pc' # "no source",
         NEW K, K = Owed', NEW s, s = ThisStatement, NEW p, p = pc', NEW frames, frames = stack', NEW ret, ret = returned',
         Covered(s) =>
           /\ \A i \in DOMAIN frames : FrameTells(s, IF i = 1 THEN p ELSE "visit", frames[i], K)'
           /\ Linked(s, frames)
           /\ p = "returned" => ResultTells(s, Wanted(s, frames), ret, K)'
  PROVE  TellInv'
<1>1. SameBody
  BY SameMeaning
<1>2. ThisStatement' = s
  BY SameStatement
<1>3. Covered(s)' = Covered(s)
  BY SamePremise
<1>4. ThisStatement.kind # "values"
  BY DEF TellInv
<1>5. (Busy => (pc = "no source" <=> ThisStatement.kind = "values"))'
  BY <1>2, <1>4
<1>6. (\A i \in DOMAIN results : IsExact(results[i]))'
  BY SameResults DEF TellInv
<1>7. Covered(s) => Tells(s, p, frames, K)'
  <2> SUFFICES ASSUME Covered(s) PROVE Tells(s, p, frames, K)'
    OBVIOUS
  <2>1. FramesTell(s, p, frames, K)'
    BY DEF FramesTell
  <2>2. Linked(s, frames)'
    BY <1>1 DEF SameBody
  <2>3. (p = "returned" => ResultTells(s, Wanted(s, frames), returned, K))'
    <3>1. PICK w : w = Wanted(s, frames)
      OBVIOUS
    <3>2. Wanted(s, frames)' = w
      BY <1>1, <3>1 DEF SameBody
    <3>3. p = "returned" => ResultTells(s, w, ret, K)'
      BY <3>2
    <3>4. p = "returned" => ResultTells(s, w, returned, K)'
      BY <3>3 DEF ResultTells
    <3> QED BY <3>2, <3>4
  <2> QED BY <2>1, <2>2, <2>3 DEF Tells
<1>8. (Busy /\ pc # "no source" /\ Covered(ThisStatement) => Tells(ThisStatement, pc, stack, Owed))'
  BY <1>2, <1>3, <1>7
<1> QED BY <1>5, <1>6, <1>8 DEF TellInv

-----------------------------------------------------------------------------
(* Frames come and go.                                                     *)

\* A step within a statement in which no alias has its turn, from what it leaves.
LEMMA StepTells ==
  ASSUME body' = body, current' = current, results' = results, expansions' = expansions, StaysOwed, TellInv,
         Busy, pc # "no source", pc' # "no source",
         NEW L, L = Owed, NEW s, s = ThisStatement, NEW p, p = pc', NEW frames, frames = stack', NEW ret, ret = returned',
         Covered(s) =>
           /\ FramesTell(s, p, frames, L) /\ Linked(s, frames)
           /\ p = "returned" => ResultTells(s, Wanted(s, frames), ret, L)
  PROVE  TellInv'
<1>1. Owed' = L
  <2>1. ThisStatement' = ThisStatement
    BY SameStatement
  <2>2. \A x, q, w, c : Remaining(x, q, w, c)' = Remaining(x, q, w, c)
    BY SameRemaining
  <2>3. Remaining(ThisStatement, pc, stack, cte)' = Remaining(ThisStatement, pc', stack', cte')
    BY <2>1, <2>2
  <2> QED BY <2>3 DEF StaysOwed, Owed
<1>2. Stays(L)
  BY DEF Stays, SourcesOf, Known, IsVirtual
<1>3. \A x, q, f : FrameTells(x, q, f, L) => FrameTells(x, q, f, L)'
  BY <1>2, FramesCarried
<1>4. Covered(s) => /\ \A i \in DOMAIN frames : FrameTells(s, IF i = 1 THEN p ELSE "visit", frames[i], L)'
                    /\ Linked(s, frames)
                    /\ p = "returned" => ResultTells(s, Wanted(s, frames), ret, L)'
  <2> SUFFICES ASSUME Covered(s)
               PROVE  /\ \A i \in DOMAIN frames : FrameTells(s, IF i = 1 THEN p ELSE "visit", frames[i], L)'
                      /\ Linked(s, frames)
                      /\ p = "returned" => ResultTells(s, Wanted(s, frames), ret, L)'
    OBVIOUS
  <2>1. \A i \in DOMAIN frames : FrameTells(s, IF i = 1 THEN p ELSE "visit", frames[i], L)
    BY DEF FramesTell
  <2>2. \A i \in DOMAIN frames : FrameTells(s, IF i = 1 THEN p ELSE "visit", frames[i], L)'
    <3> SUFFICES ASSUME NEW i \in DOMAIN frames PROVE FrameTells(s, IF i = 1 THEN p ELSE "visit", frames[i], L)'
      OBVIOUS
    <3>1. PICK q : q = IF i = 1 THEN p ELSE "visit"
      OBVIOUS
    <3>2. PICK f : f = frames[i]
      OBVIOUS
    <3>3. FrameTells(s, q, f, L)
      BY <2>1, <3>1, <3>2
    <3>4. FrameTells(s, q, f, L)'
      BY <1>3, <3>3
    <3> QED BY <3>1, <3>2, <3>4
  <2>3. p = "returned" => ResultTells(s, Wanted(s, frames), ret, L)'
    <3> SUFFICES ASSUME p = "returned" PROVE ResultTells(s, Wanted(s, frames), ret, L)'
      OBVIOUS
    <3>1. PICK w : w = Wanted(s, frames)
      OBVIOUS
    <3>2. PICK m : m = QueryMeant(s, w)
      OBVIOUS
    <3>3. MapsTell(ret, m, w # s.query, L)
      BY <3>1, <3>2 DEF ResultTells
    <3>4. MapsTell(ret, m, w # s.query, L)'
      BY <1>2, <3>3, MapsCarried
    <3>5. SameBody
      BY SameMeaning
    <3>6. Wanted(s, frames)' = w /\ QueryMeant(s, w)' = m
      BY <3>1, <3>2, <3>5 DEF SameBody
    <3> QED BY <3>4, <3>6 DEF ResultTells
  <2> QED BY <2>2, <2>3
<1> QED BY <1>1, <1>4, Assembled

\* What is told, and meant, at the top of the stack.
LEMMA InTell ==
  ASSUME Inside1, TellInv, pc # "no source", NEW s, s = ThisStatement, Covered(s), NEW L, L = Owed, NEW f, f = stack[1]
  PROVE  /\ Lined(s) /\ FramesTell(s, pc, stack, L) /\ Linked(s, stack)
         /\ FrameTells(s, pc, f, L) /\ f.query \in Levels(s) /\ LevelOk(s, f.query) /\ IsFrame(f)
         /\ pc = "returned" => ResultTells(s, Wanted(s, stack), returned, L)
<1>1. /\ Placed /\ Busy /\ Visiting /\ Frames(stack) /\ stack # << >> /\ IsFrame(f)
  BY DEF Inside1
<1>2. s.kind # "values"
  BY <1>1 DEF TellInv
<1>3. Lined(s)
  BY <1>1, <1>2, ThisIsAStatement DEF Lined, Visiting, Covered
<1>4. Tells(s, pc, stack, L)
  BY <1>1 DEF TellInv
<1>5. 1 \in DOMAIN stack
  BY <1>1, HeadTail DEF Frames
<1>6. FrameTells(s, pc, f, L)
  BY <1>4, <1>5 DEF Tells, FramesTell
<1>7. f.query \in Levels(s)
  BY <1>6 DEF FrameTells
<1>8. LevelOk(s, f.query)
  BY <1>3, <1>7, LevelsOk
<1> QED BY <1>1, <1>3, <1>4, <1>6, <1>7, <1>8 DEF Tells

\* Outside a join condition, what a frame tells does not depend on the visit's place.
LEMMA SamePlace ==
  ASSUME NEW s, NEW f, NEW L, NEW p, NEW q, p # "on", q # "on", FrameTells(s, p, f, L)
  PROVE  FrameTells(s, q, f, L)
<1>1. Bound(s, p, f) = Bound(s, q, f)
  BY DEF Bound
<1> QED BY <1>1 DEF FrameTells, SpecTells

\* A frame on top for the same query leaves the stack linked.
LEMMA LinkedRetold ==
  ASSUME NEW s, NEW frames, Linked(s, frames), Frames(frames), frames # << >>, NEW g, g.query = frames[1].query
  PROVE  RetoldAs(s, frames, g)
<1> DEFINE w == [frames EXCEPT ![1] = g]
<1>1. IsSequence(frames) /\ DOMAIN frames = 1..Len(frames) /\ Len(frames) \in Nat /\ 1 \in DOMAIN frames
  BY AnySequence, HeadTail DEF Frames
<1>2. w = [i \in DOMAIN frames |-> w[i]] /\ w[1] = g /\ \A i \in DOMAIN frames : i # 1 => w[i] = frames[i]
  BY <1>1
<1> HIDE DEF w
<1>3. DOMAIN w = DOMAIN frames /\ Len(w) = Len(frames)
  BY <1>1, <1>2, AlongFacts
<1>4. Linked(s, w)
  <2> SUFFICES ASSUME NEW i \in DOMAIN w PROVE w[i].query = IF i = Len(w) THEN s.query ELSE Awaited(s, w[i + 1])
    BY DEF Linked
  <2>1. w[i].query = frames[i].query
    BY <1>2, <1>3
  <2>2. frames[i].query = IF i = Len(frames) THEN s.query ELSE Awaited(s, frames[i + 1])
    BY <1>3 DEF Linked
  <2>3. i # Len(frames) => i + 1 \in DOMAIN frames /\ i + 1 # 1
    <3>1. i \in 1..Len(frames) /\ Len(frames) \in Nat
      BY <1>1, <1>3
    <3>2. i # Len(frames) => i + 1 \in 1..Len(frames) /\ i + 1 # 1
      BY ONLY <3>1
    <3> QED BY <1>1, <3>2
  <2> QED BY <1>2, <1>3, <2>1, <2>2, <2>3
<1> QED BY <1>2, <1>3, <1>4 DEF w, RetoldAs

\* A frame on top for the same query, telling as much, leaves the stack telling.
LEMMA TopRetold ==
  ASSUME NEW s, NEW p, NEW q, NEW frames, NEW L, FramesTell(s, p, frames, L), Linked(s, frames), Frames(frames),
         frames # << >>, NEW g, g.query = frames[1].query, FrameTells(s, q, g, L)
  PROVE  FramesTell(s, q, [frames EXCEPT ![1] = g], L) /\ Linked(s, [frames EXCEPT ![1] = g])
<1> DEFINE w == [frames EXCEPT ![1] = g]
<1>1. Linked(s, w) /\ DOMAIN w = DOMAIN frames /\ w[1] = g /\ \A i \in DOMAIN frames : i # 1 => w[i] = frames[i]
  BY LinkedRetold DEF RetoldAs
<1> HIDE DEF w
<1>2. FramesTell(s, q, w, L)
  BY <1>1 DEF FramesTell
<1> QED BY <1>1, <1>2 DEF w

\* A frame on top for the query that the stack waits for leaves the stack telling.
LEMMA TopPushed ==
  ASSUME NEW s, NEW frames, NEW L, FramesTell(s, "visit", frames, L), Linked(s, frames), Frames(frames), frames # << >>,
         NEW g, g.query = Awaited(s, frames[1]), FrameTells(s, "visit", g, L)
  PROVE  FramesTell(s, "visit", <<g>> \o frames, L) /\ Linked(s, <<g>> \o frames)
<1> DEFINE w == <<g>> \o frames
<1>1. IsSequence(frames) /\ DOMAIN frames = 1..Len(frames) /\ Len(frames) \in Nat /\ 1 \in DOMAIN frames
  BY AnySequence, HeadTail DEF Frames
<1>2. IsSequence(w) /\ Len(w) = 1 + Len(frames) /\ w[1] = g /\ (\A i \in 1..Len(frames) : w[1 + i] = frames[i])
  <2>1. IsSequence(<<g>>) /\ Len(<<g>>) = 1 /\ <<g>>[1] = g
    BY AnySingle
  <2>2. JoinOf(w, <<g>>, frames)
    BY <1>1, <2>1, JoinFacts
  <2> HIDE DEF w
  <2> QED BY <2>1, <2>2 DEF JoinOf
<1> HIDE DEF w
<1>3. DOMAIN w = 1..(Len(frames) + 1)
  <2>1. DOMAIN w = 1..Len(w)
    BY <1>2, AnySequence
  <2> QED BY ONLY <1>1, <1>2, <2>1
<1>4. ASSUME NEW i \in DOMAIN w
      PROVE  i = 1 \/ (i # 1 /\ i - 1 \in DOMAIN frames /\ w[i] = frames[i - 1])
  <2>1. i = 1 \/ (i # 1 /\ i - 1 \in 1..Len(frames) /\ 1 + (i - 1) = i)
    BY ONLY <1>1, <1>3, <1>4
  <2> QED BY <1>1, <1>2, <2>1
<1>5. FramesTell(s, "visit", w, L)
  <2> SUFFICES ASSUME NEW i \in DOMAIN w PROVE FrameTells(s, "visit", w[i], L)
    BY DEF FramesTell
  <2> QED BY <1>2, <1>4 DEF FramesTell
<1>6. Linked(s, w)
  <2> SUFFICES ASSUME NEW i \in DOMAIN w PROVE w[i].query = IF i = Len(w) THEN s.query ELSE Awaited(s, w[i + 1])
    BY DEF Linked
  <2>1. CASE i = 1
    BY <1>1, <1>2, <2>1
  <2>2. CASE i # 1
    <3>1. i - 1 \in DOMAIN frames /\ w[i] = frames[i - 1]
      BY <1>4, <2>2
    <3>2. frames[i - 1].query = IF i - 1 = Len(frames) THEN s.query ELSE Awaited(s, frames[(i - 1) + 1])
      BY <3>1 DEF Linked
    <3>3. (i - 1 = Len(frames) <=> i = Len(w)) /\ (i # Len(w) => i \in 1..Len(frames) /\ (i - 1) + 1 = i /\ 1 + i = i + 1)
      <4>1. i - 1 \in 1..Len(frames)
        BY <1>1, <3>1
      <4>2. i \in 1..(Len(frames) + 1)
        BY <1>3
      <4> QED BY ONLY <1>1, <1>2, <4>1, <4>2
    <3>4. i # Len(w) => w[i + 1] = frames[(i - 1) + 1]
      BY <1>2, <3>3
    <3> QED BY <3>1, <3>2, <3>3, <3>4
  <2> QED BY <2>1, <2>2
<1> QED BY <1>5, <1>6 DEF w

\* Without its top, the stack waits for the query of that top.
LEMMA TopPopped ==
  ASSUME NEW s, NEW p, NEW frames, NEW L, FramesTell(s, p, frames, L), Linked(s, frames), Frames(frames), frames # << >>
  PROVE  /\ FramesTell(s, "returned", Tail(frames), L) /\ Linked(s, Tail(frames))
         /\ Wanted(s, Tail(frames)) = frames[1].query
<1> DEFINE w == Tail(frames)
<1>1. IsSequence(frames) /\ DOMAIN frames = 1..Len(frames) /\ Len(frames) \in Nat /\ 1 \in DOMAIN frames
      /\ IsSequence(w) /\ Len(w) = Len(frames) - 1 /\ \A i \in DOMAIN w : i + 1 \in DOMAIN frames /\ w[i] = frames[i + 1]
  BY AnySequence, HeadTail DEF Frames
<1> HIDE DEF w
<1>2. DOMAIN w = 1..Len(w) /\ Len(w) \in Nat
  BY <1>1, AnySequence
<1>3. FramesTell(s, "returned", w, L)
  <2> SUFFICES ASSUME NEW i \in DOMAIN w PROVE FrameTells(s, IF i = 1 THEN "returned" ELSE "visit", w[i], L)
    BY DEF FramesTell
  <2>1. i + 1 # 1
    <3>1. i \in 1..Len(w)
      BY <1>2
    <3> QED BY ONLY <3>1, <1>2
  <2>2. FrameTells(s, "visit", w[i], L)
    BY <1>1, <2>1 DEF FramesTell
  <2> QED BY <2>2, SamePlace
<1>4. Linked(s, w)
  <2> SUFFICES ASSUME NEW i \in DOMAIN w PROVE w[i].query = IF i = Len(w) THEN s.query ELSE Awaited(s, w[i + 1])
    BY DEF Linked
  <2>1. w[i] = frames[i + 1] /\ i + 1 \in DOMAIN frames
    BY <1>1
  <2>2. frames[i + 1].query = IF i + 1 = Len(frames) THEN s.query ELSE Awaited(s, frames[(i + 1) + 1])
    BY <2>1 DEF Linked
  <2>3. (i + 1 = Len(frames) <=> i = Len(w)) /\ (i # Len(w) => i + 1 \in 1..Len(w))
    <3>1. i \in 1..Len(w)
      BY <1>2
    <3> QED BY ONLY <1>1, <1>2, <3>1
  <2>4. i # Len(w) => w[i + 1] = frames[(i + 1) + 1]
    BY <1>1, <1>2, <2>3
  <2> QED BY <2>1, <2>2, <2>3, <2>4
<1>5. Wanted(s, w) = frames[1].query
  <2>1. frames[1].query = IF 1 = Len(frames) THEN s.query ELSE Awaited(s, frames[1 + 1])
    BY <1>1 DEF Linked
  <2>2. CASE 1 = Len(frames)
    <3>1. Len(w) = 0
      <4>1. Len(w) = Len(frames) - 1
        BY <1>1
      <4> QED BY ONLY <2>2, <4>1
    <3>2. w = << >>
      BY <1>1, <3>1 DEF IsSequence
    <3> QED BY <2>1, <2>2, <3>2 DEF Wanted
  <2>3. CASE 1 # Len(frames)
    <3>1. 1 \in 1..Len(w)
      BY ONLY <1>1, <1>2, <2>3
    <3>2. w[1] = frames[1 + 1] /\ w # << >>
      <4>1. 1 \in DOMAIN w
        BY <1>2, <3>1
      <4> QED BY <1>1, <4>1
    <3> QED BY <2>1, <2>3, <3>2 DEF Wanted
  <2> QED BY <2>1, <2>2, <2>3
<1> QED BY <1>3, <1>4, <1>5 DEF w

\* A frame just opened has nothing to tell.
LEMMA FreshTells ==
  ASSUME NEW s, Lined(s), Covered(s), NEW n \in Levels(s), NEW L
  PROVE  FrameTells(s, "visit", Frame(n), L) /\ Frame(n).query = n
<1> DEFINE f == Frame(n)
           items == ItemsIn(s, n)
           elements == ElementsIn(s, n)
<1>1. f.query = n /\ f.at = 1 /\ f.scope = << >> /\ f.maps = << >>
  BY DEF Frame
<1> HIDE DEF f
<1>2. LevelOk(s, n)
  BY LevelsOk
<1>3. Len(items) \in Nat /\ Len(elements) \in Nat /\ IsSequence(items) /\ IsSequence(elements) /\ IsTables(LevelTables(s, n), items)
  BY <1>2 DEF LevelOk
<1>4. LevelColumns(s, n, 0) = << >>
  BY <1>3, ColumnsStep DEF LevelColumns
<1> HIDE DEF items, elements
<1>5. Mapped(s, f) = 0 /\ Bound(s, "visit", f) = 0
  <2>1. Mapped(s, f) = IF 1 <= Len(items) THEN 0 ELSE 1 - 1 - Len(items)
    BY <1>1 DEF Mapped, items
  <2>2. Bound(s, "visit", f) = IF 1 <= Len(items) THEN 1 - 1 ELSE Len(items)
    BY <1>1 DEF Bound, items
  <2>3. Len(items) \in Nat
    BY <1>3
  <2> QED BY ONLY <2>1, <2>2, <2>3
<1>6. MapsTell(<< >>, << >>, n # s.query, L)
  BY AnyEmpty DEF MapsTell
<1>7. ScopeTells(s, n, << >>, 0, L)
  BY AnyEmpty DEF ScopeTells
<1>8. 0 <= Len(elements)
  BY <1>3
<1>9. SpecTells(s, "visit", f, L)
  BY <1>1, <1>4, <1>5, <1>6, <1>7, <1>8 DEF SpecTells, elements
<1> QED BY <1>1, <1>9 DEF FrameTells, f

\* Opening a query that the top waits for.
LEMMA PushTells ==
  ASSUME body' = body, current' = current, results' = results, expansions' = expansions, StaysOwed, TellInv, Inside1,
         pc = "visit", pc' = "visit",
         NEW n, stack' = <<Frame(n)>> \o stack,
         Covered(ThisStatement) => n = Awaited(ThisStatement, stack[1]) /\ n \in Levels(ThisStatement)
  PROVE  TellInv'
<1>0. PICK s, L, frames, ret, w, p : /\ s = ThisStatement /\ L = Owed /\ frames = stack /\ ret = returned' /\ w = stack'
                                     /\ p = pc'
  OBVIOUS
<1>1. Frames(frames) /\ frames # << >> /\ Busy
  BY <1>0 DEF Inside1
<1>2. Covered(s) => FramesTell(s, p, w, L) /\ Linked(s, w) /\ (p = "returned" => ResultTells(s, Wanted(s, w), ret, L))
  <2> SUFFICES ASSUME Covered(s) PROVE FramesTell(s, p, w, L) /\ Linked(s, w)
    BY <1>0
  <2>1. Lined(s) /\ FramesTell(s, "visit", frames, L) /\ Linked(s, frames)
    BY <1>0, InTell
  <2>2. n = Awaited(s, frames[1]) /\ n \in Levels(s)
    BY <1>0
  <2>3. FrameTells(s, "visit", Frame(n), L) /\ Frame(n).query = n
    BY <2>1, <2>2, FreshTells
  <2>4. FramesTell(s, "visit", <<Frame(n)>> \o frames, L) /\ Linked(s, <<Frame(n)>> \o frames)
    BY <1>1, <2>1, <2>2, <2>3, TopPushed
  <2> QED BY <1>0, <2>4
<1> QED BY <1>0, <1>1, <1>2, StepTells

\* The query of a derived table is opened.
LEMMA OpenDerivedTells ==
  ASSUME OrderInv, ShapeInv, GroundInv, TellInv, OpenDerived
  PROVE  TellInv'
<1>1. /\ pc = "visit" /\ ~InUnion /\ Top.at <= Len(Items) /\ ThisItem.kind = "derived"
      /\ stack' = <<Frame(ThisItem.query)>> \o stack
      /\ UNCHANGED <<body, pc, current, expansions, results>>
  BY DEF OpenDerived, InFrom
<1>2. Inside1 /\ StaysOwed
  BY <1>1, InsideFacts, OpenDerivedKept
<1>3. PICK n : n = ThisItem.query
  OBVIOUS
<1>4. Covered(ThisStatement) => n = Awaited(ThisStatement, stack[1]) /\ n \in Levels(ThisStatement)
  <2> SUFFICES ASSUME Covered(ThisStatement) PROVE n = Awaited(ThisStatement, stack[1]) /\ n \in Levels(ThisStatement)
    OBVIOUS
  <2>0. PICK s, f : s = ThisStatement /\ f = stack[1]
    OBVIOUS
  <2>1. LevelOk(s, f.query)
    BY <1>1, <1>2, <2>0, InTell
  <2>2. /\ ThisItem = ItemsIn(s, f.query)[f.at] /\ ~IsUnion(f) /\ f.at \in Nat \ {0} /\ f.at <= Len(ItemsIn(s, f.query))
    BY <1>1, <1>2, <2>0 DEF Inside1, ThisItem
  <2>3. f.at \in DOMAIN ItemsIn(s, f.query)
    <3>1. DOMAIN ItemsIn(s, f.query) = 1..Len(ItemsIn(s, f.query)) /\ Len(ItemsIn(s, f.query)) \in Nat
      BY <2>1, Zenon DEF LevelOk
    <3>2. f.at \in 1..Len(ItemsIn(s, f.query))
      BY ONLY <2>2, <3>1
    <3> QED BY <3>1, <3>2
  <2>4. ItemOk(s, f.query, f.at)
    BY <2>1, <2>3, Zenon DEF LevelOk
  <2>5. InnerQuery(s, n)
    BY <1>1, <1>3, <2>2, <2>4 DEF ItemOk
  <2> QED BY <1>3, <2>0, <2>2, <2>5 DEF InnerQuery, Awaited
<1> QED BY <1>1, <1>2, <1>3, <1>4, PushTells

\* A side of a UNION is opened.
LEMMA OpenBranchTells ==
  ASSUME OrderInv, ShapeInv, GroundInv, TellInv, OpenBranch
  PROVE  TellInv'
<1>1. /\ pc = "visit" /\ InUnion
      /\ stack' = <<Frame(IF Top.at = 1 THEN ThisQuery.left ELSE ThisQuery.right)>> \o stack
      /\ UNCHANGED <<body, pc, current, expansions, results>>
  BY DEF OpenBranch
<1>2. Inside1 /\ StaysOwed
  BY <1>1, InsideFacts, OpenBranchKept
<1>3. PICK n : n = IF Top.at = 1 THEN ThisQuery.left ELSE ThisQuery.right
  OBVIOUS
<1>4. Covered(ThisStatement) => n = Awaited(ThisStatement, stack[1]) /\ n \in Levels(ThisStatement)
  <2> SUFFICES ASSUME Covered(ThisStatement) PROVE n = Awaited(ThisStatement, stack[1]) /\ n \in Levels(ThisStatement)
    OBVIOUS
  <2>0. PICK s, f : s = ThisStatement /\ f = stack[1]
    OBVIOUS
  <2>1. LevelOk(s, f.query)
    BY <1>1, <1>2, <2>0, InTell
  <2>2. IsUnion(f) /\ Top = f /\ ThisQuery = body.queries[f.query]
    BY <1>1, <1>2, <2>0 DEF Inside1, ThisQuery
  <2>3. InnerQuery(s, body.queries[f.query].left) /\ InnerQuery(s, body.queries[f.query].right)
    BY <2>1, <2>2, Zenon DEF LevelOk, IsUnion
  <2> QED BY <1>3, <2>0, <2>2, <2>3 DEF InnerQuery, Awaited
<1> QED BY <1>1, <1>2, <1>3, <1>4, PushTells

\* The top is moved.
LEMMA MoveTells ==
  ASSUME body' = body, current' = current, results' = results, expansions' = expansions, StaysOwed, TellInv, Inside1,
         pc # "no source", pc' \in {"visit", "on"},
         NEW g, stack' = [stack EXCEPT ![1] = g], g.query = stack[1].query,
         Covered(ThisStatement) => FrameTells(ThisStatement, pc', g, Owed)
  PROVE  TellInv'
<1>0. PICK s, L, frames, ret, w, p, q : /\ s = ThisStatement /\ L = Owed /\ frames = stack /\ ret = returned' /\ w = stack'
                                        /\ p = pc' /\ q = pc
  OBVIOUS
<1>1. Frames(frames) /\ frames # << >> /\ Busy
  BY <1>0 DEF Inside1
<1>2. Covered(s) => FramesTell(s, p, w, L) /\ Linked(s, w) /\ (p = "returned" => ResultTells(s, Wanted(s, w), ret, L))
  <2> SUFFICES ASSUME Covered(s) PROVE FramesTell(s, p, w, L) /\ Linked(s, w)
    BY <1>0
  <2>1. Lined(s) /\ FramesTell(s, q, frames, L) /\ Linked(s, frames)
    BY <1>0, InTell
  <2>2. FrameTells(s, p, g, L) /\ g.query = frames[1].query
    BY <1>0
  <2>4. FramesTell(s, p, [frames EXCEPT ![1] = g], L) /\ Linked(s, [frames EXCEPT ![1] = g])
    BY <1>1, <2>1, <2>2, TopRetold
  <2> QED BY <1>0, <2>4
<1>3. p # "no source"
  BY <1>0
<1> QED BY <1>0, <1>1, <1>2, <1>3, StepTells

\* The top is closed, and what it maps is returned.
LEMMA PopTells ==
  ASSUME body' = body, current' = current, results' = results, expansions' = expansions, StaysOwed, TellInv, Inside1,
         pc # "no source", pc' = "returned", stack' = Tail(stack),
         Covered(ThisStatement) => ResultTells(ThisStatement, stack[1].query, returned', Owed)
  PROVE  TellInv'
<1>0. PICK s, L, frames, ret, w, p, q : /\ s = ThisStatement /\ L = Owed /\ frames = stack /\ ret = returned' /\ w = stack'
                                        /\ p = pc' /\ q = pc
  OBVIOUS
<1>1. Frames(frames) /\ frames # << >> /\ Busy
  BY <1>0 DEF Inside1
<1>2. Covered(s) => FramesTell(s, p, w, L) /\ Linked(s, w) /\ (p = "returned" => ResultTells(s, Wanted(s, w), ret, L))
  <2> SUFFICES ASSUME Covered(s) PROVE FramesTell(s, p, w, L) /\ Linked(s, w) /\ ResultTells(s, Wanted(s, w), ret, L)
    OBVIOUS
  <2>1. Lined(s) /\ FramesTell(s, q, frames, L) /\ Linked(s, frames)
    BY <1>0, InTell
  <2>2. ResultTells(s, frames[1].query, ret, L)
    BY <1>0
  <2>4. /\ FramesTell(s, "returned", Tail(frames), L) /\ Linked(s, Tail(frames))
        /\ Wanted(s, Tail(frames)) = frames[1].query
    BY <1>1, <2>1, TopPopped
  <2>5. w = Tail(frames) /\ p = "returned"
    BY <1>0
  <2> QED BY <2>2, <2>4, <2>5
<1>3. p # "no source"
  BY <1>0
<1> QED BY <1>0, <1>1, <1>2, <1>3, StepTells

-----------------------------------------------------------------------------
(* Elements and conditions are passed.                                     *)

\* The place of a frame after the next step.
LEMMA AdvanceTells ==
  ASSUME NEW s, NEW f, LevelOk(s, f.query), IsFrame(f), ~IsUnion(f), NEW L, NEW p, FrameTells(s, p, f, L), NEW maps,
         \/ p = "on" /\ f.at \in DOMAIN ItemsIn(s, f.query) /\ maps = f.maps
         \/ /\ p = "visit" /\ f.at > Len(ItemsIn(s, f.query))
            /\ f.at <= Len(ItemsIn(s, f.query)) + Len(ElementsIn(s, f.query))
            /\ MapsTell(maps, LevelColumns(s, f.query, f.at - Len(ItemsIn(s, f.query))), f.query # s.query, L)
  PROVE  FrameTells(s, "visit", Moved(f, f.at + 1, f.scope, maps), L) /\ Moved(f, f.at + 1, f.scope, maps).query = f.query
<1> DEFINE g == Moved(f, f.at + 1, f.scope, maps)
           N == Len(ItemsIn(s, f.query))
           E == Len(ElementsIn(s, f.query))
<1>1. N \in Nat /\ E \in Nat /\ DOMAIN ItemsIn(s, f.query) = 1..N /\ f.at \in Nat \ {0}
  BY Zenon DEF LevelOk, IsFrame
<1>2. g.query = f.query /\ g.at = f.at + 1 /\ g.scope = f.scope /\ g.maps = maps
  BY DEF Moved
<1>3. /\ f.query \in Levels(s) /\ ScopeTells(s, f.query, f.scope, Bound(s, p, f), L)
      /\ MapsTell(f.maps, LevelColumns(s, f.query, Mapped(s, f)), f.query # s.query, L)
  BY DEF FrameTells, SpecTells
<1> HIDE DEF g
<1>a. Mapped(s, g) = IF f.at + 1 <= N THEN 0 ELSE (f.at + 1) - 1 - N
  <2>1. Mapped(s, g) = IF g.at <= Len(ItemsIn(s, g.query)) THEN 0 ELSE g.at - 1 - Len(ItemsIn(s, g.query))
    BY Zenon DEF Mapped
  <2> QED BY <1>2, <2>1, Zenon
<1>b. Mapped(s, f) = IF f.at <= N THEN 0 ELSE f.at - 1 - N
  BY ONLY TRUE DEF Mapped
<1>c. Bound(s, "visit", g) = IF f.at + 1 <= N THEN (f.at + 1) - 1 ELSE N
  <2>1. Bound(s, "visit", g) = IF g.at <= Len(ItemsIn(s, g.query)) THEN g.at - 1 ELSE Len(ItemsIn(s, g.query))
    BY ONLY TRUE DEF Bound
  <2> QED BY <1>2, <2>1, Zenon
<1>d. p = "on" => Bound(s, p, f) = f.at
  BY ONLY TRUE DEF Bound
<1>e. p = "visit" => Bound(s, p, f) = IF f.at <= N THEN f.at - 1 ELSE N
  BY ONLY TRUE DEF Bound
<1>4. /\ Mapped(s, g) = IF f.at + 1 <= N THEN 0 ELSE (f.at + 1) - 1 - N
      /\ Mapped(s, f) = IF f.at <= N THEN 0 ELSE f.at - 1 - N
      /\ Bound(s, "visit", g) = IF f.at + 1 <= N THEN (f.at + 1) - 1 ELSE N
      /\ p = "on" => Bound(s, p, f) = f.at
      /\ p = "visit" => Bound(s, p, f) = IF f.at <= N THEN f.at - 1 ELSE N
  <2> HIDE DEF N
  <2> QED BY ONLY <1>a, <1>b, <1>c, <1>d, <1>e
<1>5. IsUnion(g) = IsUnion(f)
  BY <1>2 DEF IsUnion
<1> HIDE DEF N, E
<1>6. CASE p = "on"
  <2>0. f.at \in 1..N /\ maps = f.maps
    BY <1>1, <1>6
  <2>m. PICK a : a = f.at
    OBVIOUS
  <2>1. Mapped(s, g) = 0 /\ Mapped(s, f) = 0 /\ Bound(s, "visit", g) = a /\ Bound(s, p, f) = a
    <3>1. Mapped(s, g) = (IF a + 1 <= N THEN 0 ELSE (a + 1) - 1 - N) /\ Mapped(s, f) = IF a <= N THEN 0 ELSE a - 1 - N
      BY <1>4, <2>m
    <3>2. Bound(s, "visit", g) = (IF a + 1 <= N THEN (a + 1) - 1 ELSE N) /\ Bound(s, p, f) = a
      BY <1>4, <1>6, <2>m
    <3>3. N \in Nat /\ a \in 1..N
      BY <1>1, <2>0, <2>m
    <3> QED BY ONLY <3>1, <3>2, <3>3
  <2>2. Mapped(s, g) <= E
    BY <1>1, <2>1
  <2>3. SpecTells(s, "visit", g, L)
    BY <1>2, <1>3, <2>0, <2>1, <2>2 DEF SpecTells, E
  <2> QED BY <1>2, <1>3, <1>5, <2>3 DEF FrameTells, g
<1>7. CASE p = "visit"
  <2>0. /\ f.at > N /\ f.at <= N + E
        /\ MapsTell(maps, LevelColumns(s, f.query, f.at - N), f.query # s.query, L)
    BY <1>7 DEF N, E
  <2>m. PICK a : a = f.at
    OBVIOUS
  <2>1. Mapped(s, g) = a - N /\ Bound(s, "visit", g) = N /\ Bound(s, p, f) = N /\ a - N <= E
    <3>1. Mapped(s, g) = IF a + 1 <= N THEN 0 ELSE (a + 1) - 1 - N
      BY <1>4, <2>m
    <3>2. /\ Bound(s, "visit", g) = (IF a + 1 <= N THEN (a + 1) - 1 ELSE N)
          /\ Bound(s, p, f) = IF a <= N THEN a - 1 ELSE N
      BY <1>4, <1>7, <2>m
    <3>3. N \in Nat /\ a \in Nat /\ E \in Nat /\ a > N /\ a <= N + E
      BY <1>1, <2>0, <2>m
    <3> QED BY ONLY <3>1, <3>2, <3>3
  <2>3. SpecTells(s, "visit", g, L)
    BY <1>2, <1>3, <2>0, <2>1, <2>m DEF SpecTells, E
  <2> QED BY <1>2, <1>3, <1>5, <2>3 DEF FrameTells, g
<1> QED BY <1>6, <1>7

\* The pairs of a join condition leave what is told of columns.
LEMMA CollectJoinConditionTells ==
  ASSUME OrderInv, ShapeInv, GroundInv, TellInv, CollectJoinCondition
  PROVE  TellInv'
<1>1. /\ pc = "on" /\ pc' = "visit" /\ stack' = [stack EXCEPT ![1].at = @ + 1]
      /\ UNCHANGED <<body, current, expansions, results>>
  BY DEF CollectJoinCondition
<1>2. Inside1 /\ StaysOwed
  BY <1>1, InsideFacts, CollectJoinConditionKept
<1>3. PICK f : f = stack[1]
  OBVIOUS
<1>4. PICK g : g = Moved(f, f.at + 1, f.scope, f.maps)
  OBVIOUS
<1>5. stack' = [stack EXCEPT ![1] = g]
  BY <1>1, <1>2, <1>3, <1>4, MovedIs DEF Inside1
<1>6. g.query = f.query
  BY <1>4 DEF Moved
<1>7. Covered(ThisStatement) => FrameTells(ThisStatement, pc', g, Owed)
  <2> SUFFICES ASSUME Covered(ThisStatement) PROVE FrameTells(ThisStatement, pc', g, Owed)
    OBVIOUS
  <2>0. PICK s, L, p : s = ThisStatement /\ L = Owed /\ p = pc
    OBVIOUS
  <2>1. LevelOk(s, f.query) /\ IsFrame(f) /\ FrameTells(s, p, f, L)
    BY <1>1, <1>2, <1>3, <2>0, InTell
  <2>2. ~IsUnion(f) /\ f.at \in DOMAIN ItemsIn(s, f.query)
    BY <1>1, <1>2, <1>3, <2>0 DEF Inside1, AtPlace, FrameItems
  <2>3. FrameTells(s, "visit", g, L)
    BY <1>1, <1>4, <2>0, <2>1, <2>2, AdvanceTells
  <2> QED BY <1>1, <2>0, <2>3
<1> QED BY <1>1, <1>2, <1>3, <1>5, <1>6, <1>7, MoveTells

\* The elements of a level, one after another.
LEMMA LevelNext ==
  ASSUME NEW s, NEW n, LevelOk(s, n), NEW e \in 1..Len(ElementsIn(s, n))
  PROVE  /\ LevelColumns(s, n, e)
              = LevelColumns(s, n, e - 1) \o Produced(LevelTables(s, n), ItemsIn(s, n), ElementsIn(s, n)[e])
         /\ IsSequence(LevelColumns(s, n, e - 1))
         /\ IsSequence(Produced(LevelTables(s, n), ItemsIn(s, n), ElementsIn(s, n)[e]))
         /\ ElementOk(s, n, e)
<1> DEFINE items == ItemsIn(s, n)
           elements == ElementsIn(s, n)
           tables == LevelTables(s, n)
<1>1. /\ IsSequence(items) /\ IsSequence(elements) /\ IsTables(tables, items)
      /\ e \in DOMAIN elements /\ Len(elements) \in Nat
  BY Zenon DEF LevelOk
<1>2. e - 1 \in 0..Len(elements)
  <2>1. e \in 1..Len(elements)
    OBVIOUS
  <2> QED BY ONLY <1>1, <2>1
<1>3. ElementOk(s, n, e)
  BY <1>1 DEF LevelOk
<1>5. \A k : LevelColumns(s, n, k) = ColumnsOf(tables, items, FirstOf(elements, k))
  BY DEF LevelColumns
<1>6. e \in 1..Len(elements)
  OBVIOUS
<1> HIDE DEF items, elements, tables
<1>4. IsSequence(Produced(tables, items, elements[e]))
  BY <1>1, ProducedFacts
<1>7. /\ IsSequence(ColumnsOf(tables, items, FirstOf(elements, e - 1)))
      /\ ColumnsOf(tables, items, FirstOf(elements, e))
           = ColumnsOf(tables, items, FirstOf(elements, e - 1)) \o Produced(tables, items, elements[e])
  <2>1. /\ \A j \in 0..Len(elements) : IsSequence(ColumnsOf(tables, items, FirstOf(elements, j)))
        /\ \A j \in 1..Len(elements) :
              ColumnsOf(tables, items, FirstOf(elements, j))
                = ColumnsOf(tables, items, FirstOf(elements, j - 1)) \o Produced(tables, items, elements[j])
    BY <1>1, ColumnsStep
  <2> QED BY <1>2, <1>6, <2>1
<1> QED BY <1>3, <1>4, <1>5, <1>7, Zenon DEF items, elements, tables

\* The top maps its next element: what it has then.
LEMMA ElementTells ==
  ASSUME body' = body, current' = current, results' = results, expansions' = expansions, StaysOwed, TellInv, Inside1,
         pc = "visit", pc' = "visit", NEW kinds, InSelect(kinds), NEW maps,
         stack' = [stack EXCEPT ![1] = Moved(stack[1], stack[1].at + 1, stack[1].scope, maps)],
         \A s, n, e, f, L : ElementKept(maps, s, n, e, f, L)
  PROVE  TellInv'
<1>0. PICK s, L, f : s = ThisStatement /\ L = Owed /\ f = stack[1]
  OBVIOUS
<1>1. PICK n : n = f.query
  OBVIOUS
<1>2. PICK e : e = f.at - Len(ItemsIn(s, n))
  OBVIOUS
<1>3. PICK g : g = Moved(f, f.at + 1, f.scope, maps)
  OBVIOUS
<1>4. g.query = f.query
  BY <1>3 DEF Moved
<1>5. Covered(s) => FrameTells(s, "visit", g, L)
  <2> SUFFICES ASSUME Covered(s) PROVE FrameTells(s, "visit", g, L)
    OBVIOUS
  <2>1. Lined(s) /\ LevelOk(s, n) /\ IsFrame(f) /\ FrameTells(s, "visit", f, L)
    BY <1>0, <1>1, InTell
  <2>2. /\ ~IsUnion(f) /\ Top = f /\ Items = ItemsIn(s, n) /\ ThisStatement = s /\ Top.query = n
        /\ Top.at > Len(Items) /\ Top.at <= Len(Items) + Len(Elements)
    BY <1>0, <1>1 DEF InSelect, Inside1
  <2>3. Elements = ElementsIn(s, n)
    BY <2>2 DEF Elements
  <2>4. ThisElement = ElementsIn(s, n)[e]
    BY <1>2, <2>2, <2>3 DEF ThisElement
  <2>5. e \in 1..Len(ElementsIn(s, n)) /\ f.at > Len(ItemsIn(s, n)) /\ f.at <= Len(ItemsIn(s, n)) + Len(ElementsIn(s, n))
    <3>1. PICK N, E, a : N = Len(ItemsIn(s, n)) /\ E = Len(ElementsIn(s, n)) /\ a = f.at
      OBVIOUS
    <3>2. N \in Nat /\ E \in Nat /\ a \in Nat /\ a > N /\ a <= N + E /\ e = a - N
      BY <1>2, <2>1, <2>2, <2>3, <3>1 DEF LevelOk, IsFrame
    <3>3. e \in 1..E
      BY ONLY <3>2
    <3> QED BY <3>1, <3>2, <3>3
  <2>6. SpecTells(s, "visit", f, L)
    BY <2>1, <2>2 DEF FrameTells
  <2>7. Bound(s, "visit", f) = Len(ItemsIn(s, n)) /\ Mapped(s, f) = e - 1
    <3>1. PICK N, a : N = Len(ItemsIn(s, n)) /\ a = f.at
      BY Zenon
    <3>2. N \in Nat /\ a \in Nat /\ a > N /\ e = a - N
      BY <1>2, <2>1, <2>5, <3>1, Zenon DEF LevelOk, IsFrame
    <3>3. Bound(s, "visit", f) = (IF a <= N THEN a - 1 ELSE N) /\ Mapped(s, f) = IF a <= N THEN 0 ELSE a - 1 - N
      BY <1>1, <3>1 DEF Bound, Mapped
    <3>4. Bound(s, "visit", f) = N /\ Mapped(s, f) = e - 1
      BY ONLY <3>2, <3>3
    <3> QED BY <3>1, <3>4
  <2>8. ScopeTells(s, n, f.scope, Len(ItemsIn(s, n)), L) /\ MapsTell(f.maps, LevelColumns(s, n, e - 1), n # s.query, L)
    BY <1>1, <2>6, <2>7 DEF SpecTells
  <2>9. MapsTell(maps, LevelColumns(s, n, e), n # s.query, L)
    <3>1. ElementKept(maps, s, n, e, f, L)
      OBVIOUS
    <3> QED BY <1>0, <1>1, <1>2, <2>1, <2>2, <2>4, <2>5, <2>8, <3>1 DEF ElementKept
  <2> QED BY <1>1, <1>2, <1>3, <2>1, <2>2, <2>5, <2>9, AdvanceTells
<1>6. Covered(ThisStatement) => FrameTells(ThisStatement, pc', g, Owed)
  BY <1>0, <1>5
<1> QED BY <1>0, <1>3, <1>4, <1>6, MoveTells

\* An element that produces no column, such as a variable assignment, is passed.
LEMMA SkipElementTells ==
  ASSUME OrderInv, ShapeInv, GroundInv, TellInv, SkipElement
  PROVE  TellInv'
<1>1. /\ InSelect({"variable", "other"}) /\ pc = "visit" /\ pc' = "visit" /\ stack' = [stack EXCEPT ![1].at = @ + 1]
      /\ UNCHANGED <<body, current, expansions, results>> /\ ThisElement.kind \in {"variable", "other"}
  BY DEF SkipElement, InSelect
<1>2. Inside1 /\ StaysOwed
  BY <1>1, InsideFacts, SkipElementKept
<1>3. PICK maps : maps = stack[1].maps
  OBVIOUS
<1>5. stack' = [stack EXCEPT ![1] = Moved(stack[1], stack[1].at + 1, stack[1].scope, maps)]
  BY <1>1, <1>2, <1>3, MovedIs DEF Inside1
<1>6. \A s, n, e, f, L : ElementKept(maps, s, n, e, f, L)
  <2> SUFFICES ASSUME NEW s, NEW n, NEW e, NEW f, NEW L PROVE ElementKept(maps, s, n, e, f, L)
    OBVIOUS
  <2> SUFFICES ASSUME f = stack[1], e \in 1..Len(ElementsIn(s, n)), LevelOk(s, n),
                      ThisElement = ElementsIn(s, n)[e],
                      MapsTell(f.maps, LevelColumns(s, n, e - 1), n # s.query, L)
               PROVE  MapsTell(maps, LevelColumns(s, n, e), n # s.query, L)
    BY DEF ElementKept
  <2>1. /\ LevelColumns(s, n, e) = LevelColumns(s, n, e - 1) \o Produced(LevelTables(s, n), ItemsIn(s, n), ThisElement)
        /\ IsSequence(LevelColumns(s, n, e - 1)) /\ ElementOk(s, n, e)
    BY LevelNext
  <2>2. ThisElement.kind \notin {"scalar", "star"}
    BY <1>1
  <2>3. Produced(LevelTables(s, n), ItemsIn(s, n), ThisElement) = << >>
    BY <2>2 DEF Produced
  <2>4. LevelColumns(s, n, e) = LevelColumns(s, n, e - 1)
    BY <2>1, <2>3, AnyUnit
  <2> QED BY <1>3, <2>4
<1> QED BY <1>1, <1>2, <1>5, <1>6, ElementTells

-----------------------------------------------------------------------------
(* Columns are resolved and mapped.                                        *)

\* The scope of a level resolves each name it means, to the same base columns.
LEMMA ResolveMeans ==
  ASSUME NEW s, NEW n, LevelOk(s, n), NEW L, NEW chain, IsSequence(chain), 1 \in DOMAIN chain,
         ScopeTells(s, n, chain[1], Len(ItemsIn(s, n)), L),
         NEW ref, Named(LevelTables(s, n), ItemsIn(s, n), ref) # {}
  PROVE  Answers(s, n, ref, chain, L)
<1> DEFINE items == ItemsIn(s, n)
           tables == LevelTables(s, n)
           scope == chain[1]
           cols == Columns(scope, ref.prefix, ref.name)
           means == Named(tables, items, ref)
<1>1. DOMAIN items = 1..Len(items) /\ Len(items) \in Nat /\ IsTables(tables, items)
  BY DEF LevelOk
<1>2. /\ IsSequence(scope) /\ Len(scope) = Len(items)
      /\ \A i \in 1..Len(items) : scope[i].alias = Exposed(items[i]) /\ ColumnsTell(scope[i].columns, tables[i], L)
  BY DEF ScopeTells
<1> HIDE DEF items, tables, scope
<1>3. DOMAIN scope = DOMAIN items /\ DOMAIN tables = DOMAIN items
  BY <1>1, <1>2, AnySequence DEF IsTables
<1>4. \A i \in DOMAIN items :
        /\ scope[i].alias = Exposed(items[i])
        /\ DOMAIN scope[i].columns = DOMAIN tables[i]
        /\ \A k \in DOMAIN tables[i] : ColumnTells(scope[i].columns[k], tables[i][k], L)
  <2> SUFFICES ASSUME NEW i \in DOMAIN items
               PROVE  /\ scope[i].alias = Exposed(items[i])
                      /\ DOMAIN scope[i].columns = DOMAIN tables[i]
                      /\ \A k \in DOMAIN tables[i] : ColumnTells(scope[i].columns[k], tables[i][k], L)
    OBVIOUS
  <2>1. scope[i].alias = Exposed(items[i]) /\ ColumnsTell(scope[i].columns, tables[i], L)
    BY <1>1, <1>2
  <2> QED BY <2>1, AnySequence DEF ColumnsTell
<1>5. ASSUME NEW c \in cols PROVE Settled(c, L) /\ \E m \in means : Direct(c) = m.from
  <2>p. PICK i \in DOMAIN items : \E k \in DOMAIN scope[i].columns :
          c = scope[i].columns[k] /\ ref.prefix \in {None, scope[i].alias} /\ c.column = ref.name
    BY <1>3 DEF Columns, Range
  <2>1. PICK k \in DOMAIN scope[i].columns :
          c = scope[i].columns[k] /\ ref.prefix \in {None, scope[i].alias} /\ c.column = ref.name
    BY <2>p
  <2>2. ColumnTells(c, tables[i][k], L) /\ k \in DOMAIN tables[i]
    BY <1>4, <2>1
  <2>3. tables[i][k] \in means
    BY <1>4, <2>1, <2>2 DEF ColumnTells, Named, Range
  <2> QED BY <2>2, <2>3 DEF ColumnTells
<1>6. ASSUME NEW m \in means PROVE \E c \in cols : Direct(c) = m.from
  <2>p. PICK i \in DOMAIN items : \E k \in DOMAIN tables[i] :
          m = tables[i][k] /\ ref.prefix \in {None, Exposed(items[i])} /\ m.name = ref.name
    BY DEF Named, Range
  <2>1. PICK k \in DOMAIN tables[i] :
          m = tables[i][k] /\ ref.prefix \in {None, Exposed(items[i])} /\ m.name = ref.name
    BY <2>p
  <2>2. ColumnTells(scope[i].columns[k], m, L) /\ k \in DOMAIN scope[i].columns
    BY <1>4, <2>1
  <2>3. scope[i].columns[k] \in cols
    BY <1>3, <1>4, <2>1, <2>2 DEF ColumnTells, Columns, Range
  <2> QED BY <2>2, <2>3 DEF ColumnTells
<1>7. PICK w \in means : TRUE
  BY DEF means, items, tables
<1>8. Serves(scope, ref)
  <2>1. CASE ref.prefix = None
    <3>1. cols # {}
      BY <1>6, <1>7
    <3> QED BY <2>1, <3>1 DEF Serves
  <2>2. CASE ref.prefix # None
    BY <1>7, <2>2, <1>3, <1>4 DEF Named, Serves
  <2> QED BY <2>1, <2>2
<1>9. Resolve(ref, chain) = cols
  <2> DEFINE serving == {i \in DOMAIN chain : Serves(chain[i], ref)}
             first == CHOOSE i \in serving : \A j \in serving : i <= j
  <2>1. 1 \in serving
    BY <1>8 DEF scope
  <2>2. \A j \in serving : 1 <= j
    <3>1. DOMAIN chain = 1..Len(chain) /\ Len(chain) \in Nat
      BY AnySequence
    <3>2. serving \subseteq DOMAIN chain
      OBVIOUS
    <3> HIDE DEF serving
    <3>3. \A j \in 1..Len(chain) : 1 <= j
      BY ONLY <3>1
    <3> QED BY <3>1, <3>2, <3>3
  <2>3. serving \subseteq Nat
    <3>1. DOMAIN chain = 1..Len(chain) /\ Len(chain) \in Nat
      BY AnySequence
    <3>2. serving \subseteq DOMAIN chain
      OBVIOUS
    <3> HIDE DEF serving
    <3> QED BY <3>1, <3>2
  <2>4. Resolve(ref, chain) = IF serving = {} THEN {} ELSE Columns(chain[first], ref.prefix, ref.name)
    BY Zenon DEF Resolve
  <2> HIDE DEF serving
  <2>5. first \in serving /\ \A j \in serving : first <= j
    BY <2>1, <2>2
  <2> HIDE DEF first
  <2>6. first = 1
    <3>1. first \in Nat /\ first <= 1 /\ 1 <= first
      BY <2>1, <2>2, <2>3, <2>5
    <3> QED BY ONLY <3>1
  <2> QED BY <2>1, <2>4, <2>6 DEF scope
<1> HIDE DEF cols, means
<1>10. UNION {Direct(c) : c \in cols} = UNION {m.from : m \in means}
  BY <1>5, <1>6
<1> QED BY <1>5, <1>9, <1>10 DEF Answers, cols, means, scope, items, tables

\* The columns of an expression are traced to the base columns they mean.
LEMMA FoundMeans ==
  ASSUME Registered, NEW s, NEW n, LevelOk(s, n), NEW L, NEW chain, IsSequence(chain), 1 \in DOMAIN chain,
         ScopeTells(s, n, chain[1], Len(ItemsIn(s, n)), L), NEW refs, RefsMean(s, n, refs)
  PROVE  /\ BaseOf(Found(refs, chain)) = From(LevelTables(s, n), ItemsIn(s, n), refs)
         /\ \A c \in Found(refs, chain) : Clear(c, L)
<1> DEFINE R(i) == Resolve(refs[i], chain)
           M(i) == Named(LevelTables(s, n), ItemsIn(s, n), refs[i])
           all == Matches(refs, chain)
<1>1. ASSUME NEW i \in DOMAIN refs
      PROVE  (\A c \in R(i) : Settled(c, L)) /\ UNION {Direct(c) : c \in R(i)} = UNION {m.from : m \in M(i)}
  <2>1. Answers(s, n, refs[i], chain, L)
    BY <1>1, ResolveMeans DEF RefsMean
  <2> QED BY <2>1 DEF Answers
<1>2. all = UNION {R(i) : i \in DOMAIN refs}
  BY DEF Matches
<1>3. From(LevelTables(s, n), ItemsIn(s, n), refs) = UNION {c.from : c \in UNION {M(i) : i \in DOMAIN refs}}
  BY DEF From
<1>4. Found(refs, chain) = Trace(all)
  BY DEF Found
<1> HIDE DEF R, M, all
<1>5. \A c \in all : Settled(c, L)
  BY <1>1, <1>2
<1>6. BaseOf(Trace(all)) = UNION {Direct(c) : c \in all} /\ \A c \in Trace(all) : Clear(c, L)
  BY <1>5, TraceSettled
<1>7. \A x : x \in UNION {Direct(c) : c \in all} <=> \E i \in DOMAIN refs : x \in UNION {Direct(c) : c \in R(i)}
  BY <1>2
<1>8. \A x : x \in UNION {c.from : c \in UNION {M(i) : i \in DOMAIN refs}} <=> \E i \in DOMAIN refs : x \in UNION {m.from : m \in M(i)}
  OBVIOUS
<1>9. \A x : x \in UNION {Direct(c) : c \in all} <=> x \in UNION {c.from : c \in UNION {M(i) : i \in DOMAIN refs}}
  BY <1>1, <1>7, <1>8
<1>10. UNION {Direct(c) : c \in all} = UNION {c.from : c \in UNION {M(i) : i \in DOMAIN refs}}
  BY <1>9
<1> QED BY <1>3, <1>4, <1>6, <1>10

\* The scope of the top is the nearest.
LEMMA ChainTop ==
  ASSUME Inside1
  PROVE  IsSequence(Chain) /\ 1 \in DOMAIN Chain /\ Chain[1] = stack[1].scope
<1> DEFINE a == [i \in DOMAIN stack |-> stack[i].scope]
           b == <<cte_scope>>
<1>1. IsSequence(stack) /\ stack # << >> /\ IsSequence(Chain)
  BY DEF Inside1, Frames
<1>2. 1 \in DOMAIN stack
  BY <1>1, HeadTail
<1>3. a = [i \in DOMAIN stack |-> a[i]] /\ a[1] = stack[1].scope
  BY <1>2
<1>4. Chain = a \o b
  BY DEF Chain, Parents
<1>5. IsSequence(b)
  BY AnySingle
<1> HIDE DEF a, b
<1>6. IsSequence(a) /\ DOMAIN a = DOMAIN stack
  BY <1>1, <1>3, AlongFacts
<1>7. DOMAIN a = 1..Len(a)
  BY <1>6, AnySequence
<1>8. JoinOf(a \o b, a, b)
  BY <1>5, <1>6, JoinFacts
<1>9. (a \o b)[1] = a[1] /\ IsSequence(a \o b) /\ Len(a) \in Nat /\ Len(b) \in Nat /\ Len(a \o b) = Len(a) + Len(b)
  BY <1>2, <1>6, <1>7, <1>8 DEF JoinOf
<1>10. 1 \in 1..Len(a \o b)
  <2>1. 1 \in 1..Len(a)
    BY <1>2, <1>6, <1>7
  <2> QED BY ONLY <1>9, <2>1
<1>11. 1 \in DOMAIN (a \o b)
  BY <1>9, <1>10, AnySequence
<1> QED BY <1>1, <1>3, <1>4, <1>9, <1>11

\* Appending is joining with a sequence of one.
LEMMA AppendIs == ASSUME NEW s, IsSequence(s), NEW e PROVE Append(s, e) = s \o <<e>>
<1> DEFINE u == Append(s, e)
           w == s \o <<e>>
<1>1. /\ IsSequence(u) /\ Len(s) \in Nat /\ Len(u) = Len(s) + 1
      /\ \A i \in 1..Len(s) : u[i] = s[i]
      /\ u[Len(s) + 1] = e
  BY AnyAppend
<1>2. IsSequence(<<e>>) /\ Len(<<e>>) = 1 /\ <<e>>[1] = e
  BY AnySingle
<1>3. JoinOf(w, s, <<e>>)
  BY <1>2, JoinFacts
<1> HIDE DEF u, w
<1>4. IsSequence(w) /\ Len(w) = Len(s) + 1 /\ (\A i \in 1..Len(s) : w[i] = s[i]) /\ w[Len(s) + 1] = e
  BY <1>2, <1>3 DEF JoinOf
<1>5. \A i \in 1..Len(u) : u[i] = w[i]
  <2> SUFFICES ASSUME NEW i \in 1..Len(u) PROVE u[i] = w[i]
    OBVIOUS
  <2>1. i \in 1..Len(s) \/ i = Len(s) + 1
    <3>1. i \in 1..Len(u)
      OBVIOUS
    <3> QED BY ONLY <1>1, <3>1
  <2> QED BY <1>1, <1>4, <2>1
<1> QED BY <1>1, <1>4, <1>5, AnyEqual DEF u, w

\* What is told of two lists is told of the whole.
LEMMA MapsGrow ==
  ASSUME NEW a, NEW b, NEW c, NEW d, NEW named, NEW L, MapsTell(a, b, named, L), MapsTell(c, d, named, L)
  PROVE  MapsTell(a \o c, b \o d, named, L)
<1> DEFINE u == a \o c
           w == b \o d
           T(r, m) == MapTells(r, m, L) /\ (named => r.name = m.name)
<1>1. /\ IsSequence(a) /\ IsSequence(b) /\ Len(a) = Len(b) /\ IsSequence(c) /\ IsSequence(d) /\ Len(c) = Len(d)
      /\ \A i \in DOMAIN a : T(a[i], b[i])
      /\ \A i \in DOMAIN c : T(c[i], d[i])
  BY DEF MapsTell
<1>2. JoinOf(u, a, c) /\ JoinOf(w, b, d)
  BY <1>1, JoinFacts
<1> HIDE DEF u, w, T
<1>3. /\ IsSequence(u) /\ IsSequence(w) /\ Len(a) \in Nat /\ Len(c) \in Nat /\ Len(u) = Len(a) + Len(c) /\ Len(w) = Len(u)
      /\ \A i \in 1..Len(a) : u[i] = a[i] /\ w[i] = b[i]
      /\ \A i \in 1..Len(c) : u[Len(a) + i] = c[i] /\ w[Len(a) + i] = d[i]
  BY <1>1, <1>2 DEF JoinOf
<1>4. DOMAIN u = 1..Len(u) /\ DOMAIN a = 1..Len(a) /\ DOMAIN c = 1..Len(c)
  BY <1>1, <1>3, AnySequence
<1>5. ASSUME NEW i \in DOMAIN u PROVE T(u[i], w[i])
  <2>1. i \in 1..Len(a) \/ (i - Len(a) \in 1..Len(c) /\ Len(a) + (i - Len(a)) = i)
    <3>1. i \in 1..Len(u)
      BY <1>4
    <3> QED BY ONLY <1>3, <3>1
  <2>2. CASE i \in 1..Len(a)
    BY <1>1, <1>3, <1>4, <2>2
  <2>3. CASE i - Len(a) \in 1..Len(c) /\ Len(a) + (i - Len(a)) = i
    <3>1. u[i] = c[i - Len(a)] /\ w[i] = d[i - Len(a)]
      BY <1>3, <2>3
    <3> QED BY <1>1, <1>4, <2>3, <3>1
  <2> QED BY <2>1, <2>2, <2>3
<1> QED BY <1>3, <1>5 DEF MapsTell, T, u, w

\* A map that tells a column is a list of maps that tells a list of one.
LEMMA MapsSingle ==
  ASSUME NEW r, NEW m, NEW named, NEW L, MapTells(r, m, L), named => r.name = m.name
  PROVE  MapsTell(<<r>>, <<m>>, named, L)
<1>1. IsSequence(<<r>>) /\ IsSequence(<<m>>) /\ Len(<<r>>) = Len(<<m>>)
  BY AnySingle
<1>2. \A i \in DOMAIN <<r>> : i = 1
  OBVIOUS
<1>3. <<r>>[1] = r /\ <<m>>[1] = m
  OBVIOUS
<1> QED BY <1>1, <1>2, <1>3 DEF MapsTell

\* The sources of names do not depend on the order of the names.
LEMMA FromSame ==
  ASSUME NEW tables, NEW items, NEW r, NEW w, Range(r) = Range(w)
  PROVE  From(tables, items, r) = From(tables, items, w)
<1> DEFINE N(x) == Named(tables, items, x)
<1>1. \A v : {N(v[i]) : i \in DOMAIN v} = {N(x) : x \in Range(v)}
  BY DEF Range
<1>2. {N(r[i]) : i \in DOMAIN r} = {N(w[i]) : i \in DOMAIN w}
  BY <1>1
<1> QED BY <1>2 DEF From

\* A scalar element maps one column, to what its expression means.
LEMMA MapScalarTells ==
  ASSUME OrderInv, ShapeInv, GroundInv, TellInv, MapScalar
  PROVE  TellInv'
<1> DEFINE elem == ThisElement
           expr == elem.expr
<1>0. PICK f : f = stack[1]
  OBVIOUS
<1>m. PICK x : x = [name |-> NameOf(elem, Len(f.maps) + 1), sources |-> Found(Walked(expr), Chain),
                    is_direct |-> expr.form \in {"column", "opaque"}]
  OBVIOUS
<1>1. /\ InSelect({"scalar"}) /\ pc = "visit" /\ pc' = "visit" /\ ThisElement.kind = "scalar"
      /\ UNCHANGED <<body, current, expansions, results>>
      /\ stack' = [stack EXCEPT ![1].at = @ + 1,
                        ![1].maps = Append(@, [name |-> NameOf(ThisElement, Len(@) + 1),
                                               sources |-> Found(Walked(expr), Chain),
                                               is_direct |-> expr.form \in {"column", "opaque"}])]
  BY DEF MapScalar, InSelect
<1>2. Inside1 /\ StaysOwed
  BY <1>1, InsideFacts, MapScalarKept
<1>3. PICK maps : maps = f.maps \o <<x>>
  OBVIOUS
<1>4. IsSequence(f.maps) /\ f.maps \o <<x>> = Append(f.maps, x)
  BY <1>0, <1>2, AppendIs DEF Inside1
<1>5. stack' = [stack EXCEPT ![1] = Moved(stack[1], stack[1].at + 1, stack[1].scope, maps)]
  <2>1. stack' = Retold(stack, stack[1].at + 1, maps)
    BY <1>0, <1>1, <1>2, <1>3, <1>4, <1>m DEF Inside1, Retold
  <2>2. Frames(stack) /\ stack # << >>
    BY <1>2 DEF Inside1
  <2>3. Retold(stack, stack[1].at + 1, maps) = [stack EXCEPT ![1] = Moved(stack[1], stack[1].at + 1, stack[1].scope, maps)]
    BY <2>2, MovedIs
  <2> QED BY <2>1, <2>3
<1>6. \A s, n, e, g, L : ElementKept(maps, s, n, e, g, L)
  <2> SUFFICES ASSUME NEW s, NEW n, NEW e, NEW g, NEW L PROVE ElementKept(maps, s, n, e, g, L)
    OBVIOUS
  <2> SUFFICES ASSUME g = stack[1], e \in 1..Len(ElementsIn(s, n)), LevelOk(s, n),
                      ThisElement = ElementsIn(s, n)[e],
                      ScopeTells(s, n, g.scope, Len(ItemsIn(s, n)), L),
                      MapsTell(g.maps, LevelColumns(s, n, e - 1), n # s.query, L)
               PROVE  MapsTell(maps, LevelColumns(s, n, e), n # s.query, L)
    BY DEF ElementKept
  <2> DEFINE m == [name |-> IF elem.alias = None /\ elem.expr.form = "column" THEN elem.expr.refs[1].name ELSE elem.alias,
                   from |-> From(LevelTables(s, n), ItemsIn(s, n), expr.refs)]
             at == Len(LevelColumns(s, n, e - 1)) + 1
  <2>1. /\ LevelColumns(s, n, e) = LevelColumns(s, n, e - 1) \o Produced(LevelTables(s, n), ItemsIn(s, n), elem)
        /\ ElementOk(s, n, e)
    BY LevelNext
  <2>2. Produced(LevelTables(s, n), ItemsIn(s, n), elem) = <<m>>
    BY <1>1 DEF Produced
  <2>3. /\ Range(Walked(expr)) = Range(expr.refs) /\ RefsMean(s, n, Walked(expr))
        /\ n # s.query /\ elem.alias = None =>
                at > Len(body.declared) \/ (expr.form = "column" /\ body.declared[at] = expr.refs[1].name)
    BY <1>1, <2>1 DEF ElementOk
  <2>4. BaseOf(Found(Walked(expr), Chain)) = From(LevelTables(s, n), ItemsIn(s, n), expr.refs)
        /\ \A c \in Found(Walked(expr), Chain) : Clear(c, L)
    <3>1. IsSequence(Chain) /\ 1 \in DOMAIN Chain /\ Chain[1] = g.scope /\ Registered
      BY <1>2, ChainTop DEF Inside1
    <3> HIDE DEF expr
    <3>2. From(LevelTables(s, n), ItemsIn(s, n), Walked(expr)) = From(LevelTables(s, n), ItemsIn(s, n), expr.refs)
      BY <2>3, FromSame
    <3> QED BY <2>3, <3>1, <3>2, FoundMeans
  <2>5. MapTells(x, m, L)
    BY <1>m, <2>3, <2>4 DEF MapTells
  <2>6. n # s.query => x.name = m.name
    <3> SUFFICES ASSUME n # s.query PROVE x.name = m.name
      OBVIOUS
    <3>1. Len(f.maps) + 1 = at /\ at \in Nat
      BY <1>0, AnySequence DEF MapsTell
    <3>2. x.name = NameOf(elem, at)
      BY <1>m, <3>1
    <3>3. CASE elem.alias # None
      <4>1. NameOf(elem, at) = elem.alias
        BY <3>3 DEF NameOf
      <4> QED BY <3>2, <3>3, <4>1
    <3>4. CASE elem.alias = None
      <4> HIDE DEF at
      <4>0. Len(body.declared) \in Nat
        BY <1>2, BodyAssumption DEF Inside1, Placed
      <4>1. CASE at > Len(body.declared)
        <5>1. ~(at <= Len(body.declared))
          BY ONLY <3>1, <4>0, <4>1
        <5>2. NameOf(elem, at) = IF expr.form = "column" THEN expr.refs[1].name ELSE None
          BY <3>4, <4>1, <5>1, Zenon DEF NameOf
        <5> QED BY <3>2, <3>4, <5>2
      <4>2. CASE ~(at > Len(body.declared))
        <5>1. at <= Len(body.declared)
          BY ONLY <3>1, <4>0, <4>2
        <5>2. NameOf(elem, at) = body.declared[at]
          BY <3>4, <4>2, <5>1, Zenon DEF NameOf
        <5>3. expr.form = "column" /\ body.declared[at] = expr.refs[1].name
          BY <2>3, <3>4, <4>2 DEF at
        <5> QED BY <3>2, <3>4, <5>2, <5>3
      <4> QED BY <4>1, <4>2
    <3> QED BY <3>3, <3>4
  <2> HIDE DEF m
  <2>7. MapsTell(<<x>>, <<m>>, n # s.query, L)
    BY <2>5, <2>6, MapsSingle
  <2>8. MapsTell(f.maps \o <<x>>, LevelColumns(s, n, e - 1) \o <<m>>, n # s.query, L)
    BY <1>0, <2>7, MapsGrow
  <2> QED BY <1>3, <2>1, <2>2, <2>8
<1> QED BY <1>1, <1>2, <1>5, <1>6, ElementTells

\* A star whose qualifier the scope of its own query has expands to that scope.
LEMMA StarHere ==
  ASSUME Inside1, NEW q, q = None \/ \E i \in DOMAIN stack[1].scope : stack[1].scope[i].alias = q
  PROVE  Star(q) = Starred(stack[1].scope, q)
<1> DEFINE with == {i \in DOMAIN Chain : \E b \in Range(Chain[i]) : b.alias = q}
           first == CHOOSE i \in with : \A j \in with : i <= j
           bindings == IF q = None THEN Top.scope ELSE IF with = {} THEN << >> ELSE Chain[first]
<1>1. IsSequence(Chain) /\ 1 \in DOMAIN Chain /\ Chain[1] = stack[1].scope /\ Top = stack[1]
  BY ChainTop DEF Inside1
<1>2. Star(q) = Starred(bindings, q)
  BY Zenon DEF Star, Starred
<1>3. with \subseteq DOMAIN Chain
  OBVIOUS
<1>4. q # None => 1 \in with
  BY <1>1 DEF Range
<1> HIDE DEF with
<1>5. q # None => first = 1
  <2> SUFFICES ASSUME q # None PROVE first = 1
    OBVIOUS
  <2>1. DOMAIN Chain = 1..Len(Chain) /\ Len(Chain) \in Nat
    BY <1>1, AnySequence
  <2>2. with \subseteq 1..Len(Chain)
    BY <1>3, <2>1
  <2>3. \A j \in with : j \in Nat /\ 1 <= j
    BY ONLY <2>1, <2>2
  <2>4. first \in with /\ \A j \in with : first <= j
    BY <1>4, <2>3
  <2> HIDE DEF first
  <2>5. first \in Nat /\ first <= 1 /\ 1 <= first
    BY <1>4, <2>3, <2>4
  <2> QED BY ONLY <2>5
<1>6. bindings = stack[1].scope
  BY <1>1, <1>4, <1>5
<1> HIDE DEF bindings
<1> QED BY <1>2, <1>6

\* A star over base tables stands for the columns it means.
LEMMA StarMeans ==
  ASSUME NEW s, NEW n, LevelOk(s, n), NEW L, NEW scope, ScopeTells(s, n, scope, Len(ItemsIn(s, n)), L),
         NEW elem, elem.kind = "star", \A i \in DOMAIN ItemsIn(s, n) : ItemsIn(s, n)[i].kind = "table"
  PROVE  StarTells(Starred(scope, elem.qualifier), Produced(LevelTables(s, n), ItemsIn(s, n), elem))
<1> DEFINE items == ItemsIn(s, n)
           tables == LevelTables(s, n)
           q == elem.qualifier
           a == [i \in DOMAIN scope |-> IF q \in {None, scope[i].alias} THEN scope[i].columns ELSE << >>]
           b == [i \in DOMAIN items |-> IF q \in {None, Exposed(items[i])} THEN tables[i] ELSE << >>]
<1>1. DOMAIN items = 1..Len(items) /\ Len(items) \in Nat /\ IsSequence(items) /\ IsTables(tables, items)
      /\ \A i \in DOMAIN items : items[i].kind = "table"
  BY DEF LevelOk
<1>2. /\ IsSequence(scope) /\ Len(scope) = Len(items)
      /\ \A i \in 1..Len(items) : /\ scope[i].alias = Exposed(items[i])
                                  /\ ColumnsTell(scope[i].columns, tables[i], L)
                                  /\ items[i].kind = "table" => \A c \in Range(scope[i].columns) : ~IsVirtual(c)
  BY DEF ScopeTells
<1>3. Produced(tables, items, elem) = FlattenSeq(b)
  BY Zenon DEF Produced
<1>4. Starred(scope, q) = FlattenSeq(a)
  BY DEF Starred
<1> HIDE DEF items, tables, q
<1>5. DOMAIN scope = DOMAIN items
  BY <1>1, <1>2, AnySequence
<1>6. a = [i \in DOMAIN scope |-> a[i]] /\ b = [i \in DOMAIN items |-> b[i]]
  OBVIOUS
<1>7. ASSUME NEW i \in DOMAIN items
      PROVE  /\ IsSequence(a[i]) /\ IsSequence(b[i]) /\ Len(a[i]) = Len(b[i]) /\ DOMAIN a[i] = 1..Len(a[i])
             /\ \A m \in DOMAIN a[i] : ~IsVirtual(a[i][m]) /\ ColumnTells(a[i][m], b[i][m], L)
  <2>1. /\ scope[i].alias = Exposed(items[i]) /\ ColumnsTell(scope[i].columns, tables[i], L)
        /\ \A c \in Range(scope[i].columns) : ~IsVirtual(c)
    BY <1>1, <1>2
  <2>2. CASE q \in {None, Exposed(items[i])}
    <3>1. a[i] = scope[i].columns /\ b[i] = tables[i]
      BY <1>5, <2>1, <2>2
    <3> QED BY <2>1, <3>1, AnySequence DEF ColumnsTell, Range
  <2>3. CASE q \notin {None, Exposed(items[i])}
    BY <1>5, <2>1, <2>3, AnyEmpty
  <2> QED BY <2>2, <2>3
<1> HIDE DEF a, b
<1>8. IsSequence(a) /\ IsSequence(b) /\ Len(a) = Len(scope) /\ Len(b) = Len(items) /\ DOMAIN a = DOMAIN items /\ DOMAIN b = DOMAIN items
  BY <1>2, <1>6, AlongFacts, <1>1, <1>5
<1>9. SamePlaces(FlattenSeq(a), FlattenSeq(b), a, b)
  BY <1>2, <1>7, <1>8, FlatAligned
<1>10. IsSequence(FlattenSeq(a)) /\ IsSequence(FlattenSeq(b))
  BY <1>7, <1>8, AnyFlatten
<1> DEFINE u == FlattenSeq(a)
           w == FlattenSeq(b)
<1> HIDE DEF u, w
<1>11. SamePlaces(u, w, a, b) /\ IsSequence(u) /\ IsSequence(w) /\ DOMAIN u = 1..Len(u)
  BY <1>9, <1>10, AnySequence DEF u, w
<1>12. Len(u) = Len(w)
  BY <1>11 DEF SamePlaces
<1>13. ASSUME NEW j \in DOMAIN u
       PROVE  ~IsVirtual(u[j]) /\ u[j].column = w[j].name /\ {u[j]} = w[j].from
  <2>1. \E i \in DOMAIN a : \E m \in DOMAIN a[i] : u[j] = a[i][m] /\ w[j] = b[i][m]
    BY <1>11 DEF SamePlaces
  <2>2. PICK i \in DOMAIN a : \E m \in DOMAIN a[i] : u[j] = a[i][m] /\ w[j] = b[i][m]
    BY <2>1
  <2>3. PICK m \in DOMAIN a[i] : u[j] = a[i][m] /\ w[j] = b[i][m]
    BY <2>2
  <2>4. ~IsVirtual(u[j]) /\ ColumnTells(u[j], w[j], L)
    BY <1>7, <1>8, <2>3
  <2> QED BY <2>4 DEF ColumnTells, Direct
<1> QED BY <1>3, <1>4, <1>11, <1>12, <1>13 DEF StarTells, u, w, q, tables, items

\* A star maps the columns it stands for, each to itself.
LEMMA ExpandStarTells ==
  ASSUME OrderInv, ShapeInv, GroundInv, TellInv, ExpandStar
  PROVE  TellInv'
<1>0. PICK f, columns, q : f = stack[1] /\ q = ThisElement.qualifier /\ columns = Star(q)
  OBVIOUS
<1> DEFINE fresh == [n \in DOMAIN columns |-> [name |-> columns[n].column, sources |-> {columns[n]}, is_direct |-> TRUE]]
<1>1. /\ InSelect({"star"}) /\ pc = "visit" /\ pc' = "visit" /\ ThisElement.kind = "star"
      /\ UNCHANGED <<body, current, expansions, results>>
      /\ stack' = [stack EXCEPT ![1].at = @ + 1, ![1].maps = @ \o fresh]
  BY <1>0 DEF ExpandStar, InSelect
<1>2. Inside1 /\ StaysOwed
  BY <1>1, InsideFacts, ExpandStarKept
<1>x. fresh = [n \in DOMAIN columns |-> fresh[n]]
      /\ \A n \in DOMAIN columns : fresh[n] = [name |-> columns[n].column, sources |-> {columns[n]}, is_direct |-> TRUE]
  OBVIOUS
<1> HIDE DEF fresh
<1>3. PICK maps : maps = f.maps \o fresh
  OBVIOUS
<1>5. stack' = [stack EXCEPT ![1] = Moved(stack[1], stack[1].at + 1, stack[1].scope, maps)]
  <2>1. stack' = Retold(stack, stack[1].at + 1, maps)
    BY <1>0, <1>1, <1>2, <1>3 DEF Inside1, Retold
  <2>2. Frames(stack) /\ stack # << >>
    BY <1>2 DEF Inside1
  <2> QED BY <2>1, <2>2, MovedIs
<1>6. \A s, n, e, g, L : ElementKept(maps, s, n, e, g, L)
  <2> SUFFICES ASSUME NEW s, NEW n, NEW e, NEW g, NEW L PROVE ElementKept(maps, s, n, e, g, L)
    OBVIOUS
  <2> SUFFICES ASSUME g = stack[1], e \in 1..Len(ElementsIn(s, n)), LevelOk(s, n),
                      ThisElement = ElementsIn(s, n)[e],
                      ScopeTells(s, n, g.scope, Len(ItemsIn(s, n)), L),
                      MapsTell(g.maps, LevelColumns(s, n, e - 1), n # s.query, L)
               PROVE  MapsTell(maps, LevelColumns(s, n, e), n # s.query, L)
    BY DEF ElementKept
  <2> DEFINE means == Produced(LevelTables(s, n), ItemsIn(s, n), ThisElement)
  <2>1. /\ LevelColumns(s, n, e) = LevelColumns(s, n, e - 1) \o means
        /\ ElementOk(s, n, e)
    BY LevelNext
  <2>2. /\ q = None \/ \E i \in DOMAIN ItemsIn(s, n) : Exposed(ItemsIn(s, n)[i]) = q
        /\ \A i \in DOMAIN ItemsIn(s, n) : ItemsIn(s, n)[i].kind = "table"
    BY <1>0, <1>1, <2>1 DEF ElementOk
  <2>3. StarTells(Starred(g.scope, q), means)
    BY <1>0, <1>1, <2>2, StarMeans
  <2>4. q = None \/ \E i \in DOMAIN g.scope : g.scope[i].alias = q
    BY AnySequence, <2>2, Zenon DEF LevelOk, ScopeTells
  <2>5. columns = Starred(g.scope, q)
    BY <1>0, <1>2, <2>4, StarHere
  <2> HIDE DEF means
  <2>6. /\ IsSequence(columns) /\ IsSequence(means) /\ Len(columns) = Len(means)
        /\ \A j \in DOMAIN columns : /\ ~IsVirtual(columns[j]) /\ columns[j].column = means[j].name
                                     /\ {columns[j]} = means[j].from
    BY <2>3, <2>5 DEF StarTells
  <2>7. IsSequence(fresh) /\ DOMAIN fresh = DOMAIN columns /\ Len(fresh) = Len(columns)
    BY <1>x, <2>6, AlongFacts
  <2>8. ASSUME NEW j \in DOMAIN fresh PROVE MapTells(fresh[j], means[j], L) /\ fresh[j].name = means[j].name
    <3>1. fresh[j] = [name |-> columns[j].column, sources |-> {columns[j]}, is_direct |-> TRUE]
      BY <1>x, <2>7
    <3>2. ~IsVirtual(columns[j]) /\ columns[j].column = means[j].name /\ {columns[j]} = means[j].from
      BY <2>6, <2>7
    <3>3. BaseOf({columns[j]}) = {columns[j]} /\ \A c \in {columns[j]} : Clear(c, L)
      BY <3>2 DEF BaseOf, Clear
    <3>4. PICK r, c : r = fresh[j] /\ c = columns[j]
      OBVIOUS
    <3>5. r.name = c.column /\ r.sources = {c} /\ r = [name |-> r.name, sources |-> r.sources, is_direct |-> r.is_direct]
      BY ONLY <3>1, <3>4
    <3>6. MapTells(r, means[j], L)
      BY <3>2, <3>3, <3>4, <3>5 DEF MapTells
    <3> QED BY <3>2, <3>4, <3>5, <3>6
  <2>9. MapsTell(fresh, means, n # s.query, L)
    BY <2>6, <2>7, <2>8 DEF MapsTell
  <2>10. MapsTell(f.maps \o fresh, LevelColumns(s, n, e - 1) \o means, n # s.query, L)
    BY <1>0, <2>9, MapsGrow
  <2> QED BY <1>3, <2>1, <2>10
<1> QED BY <1>1, <1>2, <1>5, <1>6, ElementTells

-----------------------------------------------------------------------------
(* Tables are bound.                                                       *)

\* A name that is new joins the scope at the end.
LEMMA BindIsAppend ==
  ASSUME NEW scope, IsSequence(scope), NEW alias, NEW columns, \A i \in DOMAIN scope : scope[i].alias # alias
  PROVE  LET b == [alias |-> alias, columns |-> columns]
         IN  /\ IsSequence(Bind(scope, b)) /\ Len(scope) \in Nat /\ Len(Bind(scope, b)) = Len(scope) + 1
             /\ \A i \in 1..Len(scope) : Bind(scope, b)[i] = scope[i]
             /\ Bind(scope, b)[Len(scope) + 1] = b
<1> DEFINE b == [alias |-> alias, columns |-> columns]
<1>1. b.alias = alias
  OBVIOUS
<1> HIDE DEF b
<1>2. Bind(scope, b) = Append(scope, b)
  BY <1>1 DEF Bind
<1>3. /\ IsSequence(Bind(scope, b)) /\ Len(scope) \in Nat /\ Len(Bind(scope, b)) = Len(scope) + 1
      /\ \A i \in 1..Len(scope) : Bind(scope, b)[i] = scope[i]
      /\ Bind(scope, b)[Len(scope) + 1] = b
  BY <1>2, AnyAppend
<1> QED BY <1>3, Zenon DEF b

\* A frame that binds its next table, with the columns that table means, tells of it.
LEMMA BindTells ==
  ASSUME NEW s, NEW f, IsFrame(f), ~IsUnion(f), LevelOk(s, f.query), f.at \in DOMAIN ItemsIn(s, f.query),
         NEW L, FrameTells(s, "visit", f, L),
         NEW alias, alias = Exposed(ItemsIn(s, f.query)[f.at]),
         NEW columns, ColumnsTell(columns, LevelTables(s, f.query)[f.at], L),
         ItemsIn(s, f.query)[f.at].kind = "table" => \A c \in Range(columns) : ~IsVirtual(c)
  PROVE  FrameTells(s, "on", BoundFrame(f, alias, columns), L) /\ BoundFrame(f, alias, columns).query = f.query
<1>0. PICK n, k, items, tables, scope, N :
        /\ n = f.query /\ k = f.at /\ items = ItemsIn(s, n) /\ tables = LevelTables(s, n) /\ scope = f.scope
        /\ N = Len(items)
  BY Zenon
<1> DEFINE b == [alias |-> alias, columns |-> columns]
           after == Bind(scope, b)
           g == BoundFrame(f, alias, columns)
<1>1. /\ DOMAIN items = 1..N /\ N \in Nat /\ k \in 1..N
      /\ \A i, j \in DOMAIN items : Exposed(items[i]) = Exposed(items[j]) => i = j
  BY <1>0, Zenon DEF LevelOk
<1>2. n \in Levels(s) /\ SpecTells(s, "visit", f, L)
  BY <1>0 DEF FrameTells
<1>3. Bound(s, "visit", f) = k - 1 /\ Bound(s, "on", f) = k /\ Mapped(s, f) = 0
  <2>1. Bound(s, "visit", f) = (IF k <= N THEN k - 1 ELSE N) /\ Mapped(s, f) = (IF k <= N THEN 0 ELSE k - 1 - N)
        /\ Bound(s, "on", f) = k
    BY <1>0 DEF Bound, Mapped
  <2> QED BY ONLY <1>1, <2>1
<1>4. /\ IsSequence(scope) /\ Len(scope) = k - 1
      /\ \A i \in 1..(k - 1) : /\ scope[i].alias = Exposed(items[i])
                               /\ ColumnsTell(scope[i].columns, tables[i], L)
                               /\ items[i].kind = "table" => \A c \in Range(scope[i].columns) : ~IsVirtual(c)
      /\ 0 <= Len(ElementsIn(s, n)) /\ MapsTell(f.maps, LevelColumns(s, n, 0), n # s.query, L)
  BY <1>0, <1>2, <1>3 DEF SpecTells, ScopeTells
<1>5. \A i \in DOMAIN scope : scope[i].alias # alias
  <2> SUFFICES ASSUME NEW i \in DOMAIN scope PROVE scope[i].alias # alias
    OBVIOUS
  <2>1. i \in 1..(k - 1)
    BY <1>4, AnySequence
  <2>2. i \in 1..N /\ i # k
    BY ONLY <1>1, <2>1
  <2>3. Exposed(items[i]) # Exposed(items[k])
    BY <1>1, <2>2
  <2> QED BY <1>0, <1>4, <2>1, <2>3
<1>6. /\ IsSequence(after) /\ Len(after) = (k - 1) + 1 /\ (\A i \in 1..(k - 1) : after[i] = scope[i])
      /\ after[(k - 1) + 1] = b
  BY <1>4, <1>5, BindIsAppend
<1>7. b.alias = alias /\ b.columns = columns
  OBVIOUS
<1> HIDE DEF b, after
<1>8. g.query = n /\ g.at = k /\ g.scope = after /\ g.maps = f.maps
  BY <1>0 DEF Moved, BoundFrame, after, b
<1> HIDE DEF g
<1>9. (k - 1) + 1 = k
  BY ONLY <1>1
<1>10. ScopeTells(s, n, after, k, L)
  <2>1. ASSUME NEW i \in 1..k
        PROVE  /\ after[i].alias = Exposed(items[i])
               /\ ColumnsTell(after[i].columns, tables[i], L)
               /\ items[i].kind = "table" => \A c \in Range(after[i].columns) : ~IsVirtual(c)
    <3>1. i \in 1..(k - 1) \/ i = k
      <4>1. i \in 1..k
        OBVIOUS
      <4> QED BY ONLY <1>1, <4>1
    <3>2. CASE i \in 1..(k - 1)
      BY <1>4, <1>6, <3>2
    <3>3. CASE i = k
      BY <1>0, <1>6, <1>7, <1>9, <3>3
    <3> QED BY <3>1, <3>2, <3>3
  <2> QED BY <1>0, <1>6, <1>9, <2>1 DEF ScopeTells
<1>11. Bound(s, "on", g) = k /\ Mapped(s, g) = 0 /\ IsUnion(g) = IsUnion(f)
  <2>1. Mapped(s, g) = Mapped(s, f)
    BY <1>0, <1>8 DEF Mapped
  <2> QED BY <1>0, <1>3, <1>8, <2>1 DEF Bound, IsUnion
<1>12. SpecTells(s, "on", g, L)
  BY <1>4, <1>8, <1>10, <1>11 DEF SpecTells
<1> QED BY <1>0, <1>2, <1>8, <1>11, <1>12 DEF FrameTells, g

\* What a table is found to have is what it means.
LEMMA FindsTells ==
  ASSUME NEW item, Finds(item), NEW L
  PROVE  /\ ColumnsTell(Lookup(item.schema, item.name), TableColumns(item.schema, item.name), L)
         /\ \A c \in Range(Lookup(item.schema, item.name)) : ~IsVirtual(c)
<1> DEFINE found == Lookup(item.schema, item.name)
           meant == TableColumns(item.schema, item.name)
<1>1. IsSequence(found) /\ \A n \in DOMAIN found : ~IsVirtual(found[n])
  BY LookupFacts
<1>2. IsSequence(meant) /\ \A n \in DOMAIN meant : \E c : meant[n].from = {c} /\ meant[n].name = c.column /\ ~IsVirtual(c)
  BY TableFacts
<1>3. DOMAIN found = DOMAIN meant /\ \A n \in DOMAIN meant : meant[n].from = {found[n]}
  BY DEF Finds
<1> HIDE DEF found, meant
<1>4. Len(found) = Len(meant)
  <2>1. DOMAIN found = 1..Len(found) /\ DOMAIN meant = 1..Len(meant) /\ Len(found) \in Nat /\ Len(meant) \in Nat
    BY <1>1, <1>2, AnySequence
  <2>2. PICK a, b : a = Len(found) /\ b = Len(meant)
    BY Zenon
  <2>3. a \in Nat /\ b \in Nat /\ 1..a = 1..b
    BY <1>3, <2>1, <2>2, Zenon
  <2>4. (a > 0 => a \in 1..b) /\ (b > 0 => b \in 1..a)
    BY ONLY <2>3
  <2>5. a = b
    BY ONLY <2>3, <2>4
  <2> QED BY <2>2, <2>5
<1>5. ASSUME NEW n \in DOMAIN found PROVE ColumnTells(found[n], meant[n], L)
  <2>1. PICK c : meant[n].from = {c} /\ meant[n].name = c.column
    BY <1>2, <1>3
  <2>2. c = found[n]
    BY <1>3, <2>1
  <2> QED BY <1>1, <2>1, <2>2 DEF ColumnTells, Settled, Direct
<1> QED BY <1>1, <1>2, <1>4, <1>5 DEF ColumnsTell, Range, found, meant

\* A table of the model is bound with its own columns.
LEMMA BindTableTells ==
  ASSUME OrderInv, ShapeInv, GroundInv, TellInv, BindTable
  PROVE  TellInv'
<1>1. /\ pc = "visit" /\ pc' = "on" /\ ~InUnion /\ Top.at <= Len(Items) /\ ThisItem.kind = "table"
      /\ stack' = BindTop(Exposed(ThisItem), Lookup(ThisItem.schema, ThisItem.name))
      /\ UNCHANGED <<body, current, expansions, results>>
  BY DEF BindTable, InFrom
<1>2. Inside1 /\ StaysOwed
  BY <1>1, InsideFacts, BindTableKept
<1>3. PICK f, item, columns, alias : f = stack[1] /\ item = ThisItem /\ columns = Lookup(ThisItem.schema, ThisItem.name)
                                     /\ alias = Exposed(ThisItem)
  OBVIOUS
<1>4. PICK g : g = BoundFrame(f, alias, columns)
  OBVIOUS
<1>5. stack' = [stack EXCEPT ![1] = g]
  BY <1>2, <1>1, <1>3, <1>4, MovedIs DEF Inside1, BindTop, BoundFrame
<1>6. g.query = f.query
  BY <1>4 DEF Moved, BoundFrame
<1>7. Covered(ThisStatement) => FrameTells(ThisStatement, pc', g, Owed)
  <2> SUFFICES ASSUME Covered(ThisStatement) PROVE FrameTells(ThisStatement, pc', g, Owed)
    OBVIOUS
  <2>0. PICK s, L, p : s = ThisStatement /\ L = Owed /\ p = pc
    OBVIOUS
  <2>1. LevelOk(s, f.query) /\ IsFrame(f) /\ FrameTells(s, p, f, L)
    BY <1>1, <1>2, <1>3, <2>0, InTell
  <2>2. /\ item = ItemsIn(s, f.query)[f.at] /\ ~IsUnion(f) /\ f.at \in Nat \ {0} /\ f.at <= Len(ItemsIn(s, f.query))
        /\ item.kind = "table" /\ p = "visit"
    BY <1>1, <1>2, <1>3, <2>0 DEF Inside1, ThisItem
  <2>3. f.at \in DOMAIN ItemsIn(s, f.query)
    <3>1. DOMAIN ItemsIn(s, f.query) = 1..Len(ItemsIn(s, f.query)) /\ Len(ItemsIn(s, f.query)) \in Nat
      BY <2>1, Zenon DEF LevelOk
    <3>2. f.at \in 1..Len(ItemsIn(s, f.query))
      BY ONLY <2>2, <3>1
    <3> QED BY <3>1, <3>2
  <2>4. ItemOk(s, f.query, f.at)
    BY <2>1, <2>3, Zenon DEF LevelOk
  <2>5. Finds(item) /\ LevelTables(s, f.query)[f.at] = TableColumns(item.schema, item.name)
    BY <2>2, <2>4 DEF ItemOk
  <2>6. ColumnsTell(columns, LevelTables(s, f.query)[f.at], L) /\ \A c \in Range(columns) : ~IsVirtual(c)
    BY <1>3, <2>5, FindsTells
  <2>7. FrameTells(s, "on", g, L)
    BY <1>3, <1>4, <2>1, <2>2, <2>3, <2>6, BindTells
  <2> QED BY <1>1, <2>0, <2>7
<1> QED BY <1>1, <1>2, <1>3, <1>5, <1>6, <1>7, MoveTells

\* A table reference the code does not support is not in the premise.
LEMMA SkipTableTells ==
  ASSUME OrderInv, ShapeInv, GroundInv, TellInv, SkipTable
  PROVE  TellInv'
<1>1. /\ pc = "visit" /\ pc' = "on" /\ ~InUnion /\ Top.at <= Len(Items) /\ ThisItem.kind = "other"
      /\ UNCHANGED <<body, current, expansions, results, stack, returned>>
  BY DEF SkipTable, InFrom
<1>2. Inside1 /\ StaysOwed
  BY <1>1, InsideFacts, SkipTableKept
<1>0. PICK s, L, p, frames, ret, f, q, item :
         s = ThisStatement /\ L = Owed /\ p = pc' /\ frames = stack' /\ ret = returned' /\ f = stack[1] /\ q = pc /\ item = ThisItem
  OBVIOUS
<1>3. ~Covered(s)
  <2> SUFFICES ASSUME Covered(s) PROVE FALSE
    OBVIOUS
  <2>1. LevelOk(s, f.query) /\ IsFrame(f)
    BY <1>1, <1>2, <1>0, InTell
  <2>2. /\ item = ItemsIn(s, f.query)[f.at] /\ f.at \in Nat \ {0} /\ f.at <= Len(ItemsIn(s, f.query)) /\ item.kind = "other"
    BY <1>1, <1>2, <1>0 DEF Inside1, ThisItem
  <2>3. f.at \in DOMAIN ItemsIn(s, f.query)
    <3>1. DOMAIN ItemsIn(s, f.query) = 1..Len(ItemsIn(s, f.query)) /\ Len(ItemsIn(s, f.query)) \in Nat
      BY <2>1, Zenon DEF LevelOk
    <3>2. f.at \in 1..Len(ItemsIn(s, f.query))
      BY ONLY <2>2, <3>1
    <3> QED BY <3>1, <3>2
  <2>4. ItemOk(s, f.query, f.at)
    BY <2>1, <2>3, Zenon DEF LevelOk
  <2> QED BY <2>2, <2>4 DEF ItemOk
<1>4. Busy /\ pc # "no source" /\ p # "no source"
  BY <1>0, <1>1, <1>2 DEF Inside1
<1> QED BY <1>0, <1>1, <1>2, <1>3, <1>4, StepTells

-----------------------------------------------------------------------------
(* Queries return.                                                         *)

\* A query whose elements are all mapped returns what it means.
LEMMA ReturnTells ==
  ASSUME OrderInv, ShapeInv, GroundInv, TellInv, Return
  PROVE  TellInv'
<1>1. /\ pc = "visit" /\ pc' = "returned" /\ ~InUnion /\ Top.at > Len(Items) + Len(Elements)
      /\ stack' = Tail(stack) /\ returned' = Top.maps
      /\ UNCHANGED <<body, current, expansions, results>>
  BY DEF Return
<1>2. Inside1 /\ StaysOwed
  BY <1>1, InsideFacts, ReturnKept
<1>3. Covered(ThisStatement) => ResultTells(ThisStatement, stack[1].query, returned', Owed)
  <2> SUFFICES ASSUME Covered(ThisStatement) PROVE ResultTells(ThisStatement, stack[1].query, returned', Owed)
    OBVIOUS
  <2>0. PICK s, L, f, n, ret : s = ThisStatement /\ L = Owed /\ f = stack[1] /\ n = f.query /\ ret = returned'
    OBVIOUS
  <2>1. LevelOk(s, n) /\ IsFrame(f) /\ FrameTells(s, "visit", f, L)
    BY <1>1, <1>2, <2>0, InTell
  <2>2. ~IsUnion(f) /\ Top = f /\ Items = ItemsIn(s, n) /\ ret = f.maps
    BY <1>1, <1>2, <2>0 DEF Inside1
  <2>3. Elements = ElementsIn(s, n)
    BY <2>0, <2>2 DEF Elements
  <2>4. SpecTells(s, "visit", f, L)
    BY <2>1, <2>2 DEF FrameTells
  <2>5. PICK N, E, a, m : N = Len(ItemsIn(s, n)) /\ E = Len(ElementsIn(s, n)) /\ a = f.at /\ m = Mapped(s, f)
    BY Zenon
  <2>6. N \in Nat /\ E \in Nat /\ a \in Nat /\ a > N + E /\ m <= E /\ m = IF a <= N THEN 0 ELSE a - 1 - N
    BY <2>1, <2>5, <1>1, <2>2, <2>3, <2>0, <2>4, Zenon DEF LevelOk, IsFrame, SpecTells, Mapped
  <2>7. m = E
    BY ONLY <2>6
  <2>8. MapsTell(f.maps, LevelColumns(s, n, E), n # s.query, L)
    BY <2>0, <2>4, <2>5, <2>7 DEF SpecTells
  <2>9. QueryMeant(s, n) = LevelColumns(s, n, E)
    <3>1. n = 0 \/ body.queries[n].kind # "union"
      BY <2>0, <2>2 DEF IsUnion
    <3> QED BY <2>1, <2>5, <3>1 DEF LevelOk
  <2>10. ResultTells(s, n, ret, L)
    BY <2>2, <2>8, <2>9 DEF ResultTells
  <2> QED BY <2>0, <2>10
<1> QED BY <1>1, <1>2, <1>3, PopTells

\* A UNION means its two sides, position by position.
LEMMA UnionMeans ==
  ASSUME NEW s, NEW f, IsUnion(f), LevelOk(s, f.query)
  PROVE  UnionOk(s, f, body.queries[f.query].left, body.queries[f.query].right)
<1>1. PICK q, n, M : n = f.query /\ q = body.queries[n] /\ M = Meant(body.queries, s)
  OBVIOUS
<1>2. n # 0 /\ q.kind = "union"
  BY <1>1 DEF IsUnion
<1>3. /\ InnerQuery(s, q.left) /\ InnerQuery(s, q.right) /\ Len(M[q.left]) = Len(M[q.right])
      /\ IsSequence(M[q.left]) /\ IsSequence(M[q.right])
      /\ M[n] = [i \in DOMAIN M[q.left] \cap DOMAIN M[q.right] |->
                   [name |-> M[q.left][i].name, from |-> M[q.left][i].from \cup M[q.right][i].from]]
  BY <1>1, <1>2, Zenon DEF LevelOk
<1>4. q.left # 0 /\ q.right # 0 /\ q.left # s.query /\ q.right # s.query
  BY <1>3 DEF InnerQuery
<1>5. \A m : m # 0 => QueryMeant(s, m) = M[m]
  BY <1>1 DEF QueryMeant
<1>6. PICK l, r : l = q.left /\ r = q.right
  OBVIOUS
<1>7. /\ l # 0 /\ r # 0 /\ l # s.query /\ r # s.query /\ QueryMeant(s, l) = M[l] /\ QueryMeant(s, r) = M[r]
      /\ Len(M[l]) = Len(M[r]) /\ IsSequence(M[l]) /\ IsSequence(M[r])
  BY <1>3, <1>4, <1>5, <1>6
<1>8. QueryMeant(s, n) = [i \in DOMAIN M[l] \cap DOMAIN M[r] |-> [name |-> M[l][i].name, from |-> M[l][i].from \cup M[r][i].from]]
  BY <1>2, <1>3, <1>5, <1>6
<1>9. l = body.queries[f.query].left /\ r = body.queries[f.query].right
  BY <1>1, <1>6
<1>10. UnionOk(s, f, l, r)
  BY <1>1, <1>7, <1>8, <1>9, Zenon DEF UnionOk
<1> QED BY <1>9, <1>10

\* The left side of a UNION is kept until the right side is done.
LEMMA LeftDoneTells ==
  ASSUME OrderInv, ShapeInv, GroundInv, TellInv, LeftDone
  PROVE  TellInv'
<1>1. /\ pc = "returned" /\ pc' = "visit" /\ stack # << >> /\ InUnion /\ Top.at = 1
      /\ stack' = [stack EXCEPT ![1].at = 2, ![1].maps = returned]
      /\ UNCHANGED <<body, current, expansions, results>>
  BY DEF LeftDone
<1>2. Inside1 /\ StaysOwed
  BY <1>1, InsideFacts, LeftDoneKept
<1>3. PICK f, g, ret : f = stack[1] /\ ret = returned /\ g = Moved(f, 2, f.scope, ret)
  OBVIOUS
<1>4. stack' = [stack EXCEPT ![1] = g]
  <2>1. stack' = Retold(stack, 2, ret)
    BY <1>1, <1>3 DEF Retold
  <2>2. Frames(stack) /\ stack # << >>
    BY <1>2 DEF Inside1
  <2> QED BY <1>3, <2>1, <2>2, MovedIs
<1>5. g.query = f.query /\ g.at = 2 /\ g.maps = ret
  BY <1>3 DEF Moved
<1>6. Covered(ThisStatement) => FrameTells(ThisStatement, pc', g, Owed)
  <2> SUFFICES ASSUME Covered(ThisStatement) PROVE FrameTells(ThisStatement, pc', g, Owed)
    OBVIOUS
  <2>0. PICK s, L : s = ThisStatement /\ L = Owed
    OBVIOUS
  <2>1. LevelOk(s, f.query) /\ f.query \in Levels(s) /\ ResultTells(s, Wanted(s, stack), ret, L)
    BY <1>1, <1>2, <1>3, <2>0, InTell
  <2>2. IsUnion(f) /\ f.at = 1
    BY <1>1, <1>2, <1>3 DEF Inside1
  <2>3. Wanted(s, stack) = body.queries[f.query].left
    BY <1>1, <1>3, <2>2 DEF Wanted, Awaited
  <2>4. MapsTell(ret, Meant(body.queries, s)[body.queries[f.query].left], TRUE, L)
    <3>1. UnionOk(s, f, body.queries[f.query].left, body.queries[f.query].right)
      BY <2>1, <2>2, UnionMeans
    <3>2. PICK left : left = body.queries[f.query].left
      OBVIOUS
    <3>3. left # s.query /\ QueryMeant(s, left) = Meant(body.queries, s)[left]
      BY <3>1, <3>2, Zenon DEF UnionOk
    <3>4. MapsTell(ret, QueryMeant(s, left), left # s.query, L)
      BY <2>1, <2>3, <3>2 DEF ResultTells
    <3>5. (left # s.query) = TRUE
      BY <3>3
    <3> QED BY <3>2, <3>3, <3>4, <3>5
  <2>5. IsUnion(g)
    BY <1>5, <2>2 DEF IsUnion
  <2> QED BY <1>5, <2>0, <2>1, <2>4, <2>5 DEF FrameTells
<1> QED BY <1>1, <1>2, <1>3, <1>4, <1>5, <1>6, MoveTells

\* Two sides merged by position tell what the UNION means.
LEMMA MergeTells ==
  ASSUME NEW left, NEW right, NEW a, NEW b, NEW L, MapsTell(left, a, TRUE, L), MapsTell(right, b, TRUE, L), Len(a) = Len(b),
         NEW m, m = [i \in DOMAIN a \cap DOMAIN b |-> [name |-> a[i].name, from |-> a[i].from \cup b[i].from]], NEW named
  PROVE  MapsTell(MergeByOrdinal(left, right), m, named, L)
<1>1. /\ IsSequence(left) /\ IsSequence(a) /\ Len(left) = Len(a) /\ IsSequence(right) /\ IsSequence(b) /\ Len(right) = Len(b)
      /\ \A n \in DOMAIN left : MapTells(left[n], a[n], L) /\ left[n].name = a[n].name
      /\ \A n \in DOMAIN right : MapTells(right[n], b[n], L) /\ right[n].name = b[n].name
  BY DEF MapsTell
<1>2. PICK N, D : N = Len(a) /\ D = 1..N
  OBVIOUS
<1>3. DOMAIN left = D /\ DOMAIN right = D /\ DOMAIN a = D /\ DOMAIN b = D /\ N \in Nat
  BY <1>1, <1>2, AnySequence
<1>4. PICK w : w = MergeByOrdinal(left, right)
  OBVIOUS
<1>5. w = [n \in D |-> [name |-> left[n].name, sources |-> left[n].sources \cup right[n].sources, is_direct |-> FALSE]]
  <2>1. w = [n \in DOMAIN left \cup DOMAIN right |->
              [name |-> IF n \in DOMAIN left THEN left[n].name ELSE right[n].name,
               sources |-> UNION {side[n].sources : side \in {s \in {left, right} : n \in DOMAIN s}},
               is_direct |-> FALSE]]
    BY <1>4, Zenon DEF MergeByOrdinal
  <2>2. \A n \in D : UNION {side[n].sources : side \in {s \in {left, right} : n \in DOMAIN s}}
                       = left[n].sources \cup right[n].sources
    <3> SUFFICES ASSUME NEW n \in D
                 PROVE  UNION {side[n].sources : side \in {s \in {left, right} : n \in DOMAIN s}}
                          = left[n].sources \cup right[n].sources
      OBVIOUS
    <3>1. {s \in {left, right} : n \in DOMAIN s} = {left, right}
      BY <1>3
    <3>2. UNION {side[n].sources : side \in {left, right}} = left[n].sources \cup right[n].sources
      OBVIOUS
    <3> QED BY <3>1, <3>2
  <2> QED BY <1>3, <2>1, <2>2
<1>6. m = [i \in D |-> [name |-> a[i].name, from |-> a[i].from \cup b[i].from]]
  BY <1>3
<1>7. w = [n \in 1..N |-> w[n]] /\ m = [n \in 1..N |-> m[n]]
  BY <1>2, <1>5, <1>6
<1>8. IsSequence(w) /\ Len(w) = N /\ DOMAIN w = D /\ IsSequence(m) /\ Len(m) = N
  BY <1>2, <1>3, <1>7, Listed1
<1>9. ASSUME NEW n \in D PROVE MapTells(w[n], m[n], L) /\ w[n].name = m[n].name
  <2>1. PICK r, x : r = w[n] /\ x = m[n]
    OBVIOUS
  <2>2. r = [name |-> left[n].name, sources |-> left[n].sources \cup right[n].sources, is_direct |-> FALSE]
        /\ x = [name |-> a[n].name, from |-> a[n].from \cup b[n].from]
    BY <1>5, <1>6, <2>1
  <2>3. /\ BaseOf(left[n].sources) = a[n].from /\ \A c \in left[n].sources : Clear(c, L)
        /\ BaseOf(right[n].sources) = b[n].from /\ \A c \in right[n].sources : Clear(c, L)
        /\ left[n].name = a[n].name
    BY <1>1, <1>3 DEF MapTells
  <2>4. r.sources = left[n].sources \cup right[n].sources /\ r.name = left[n].name
        /\ r = [name |-> r.name, sources |-> r.sources, is_direct |-> r.is_direct]
        /\ x.name = a[n].name /\ x.from = a[n].from \cup b[n].from
    BY ONLY <2>2
  <2>5. BaseOf(r.sources) = x.from
    BY <2>3, <2>4 DEF BaseOf
  <2>6. \A c \in r.sources : Clear(c, L)
    BY <2>3, <2>4
  <2> QED BY <2>1, <2>3, <2>4, <2>5, <2>6 DEF MapTells
<1> QED BY <1>4, <1>8, <1>9 DEF MapsTell

\* The two sides of a UNION are merged, and returned.
LEMMA RightDoneTells ==
  ASSUME OrderInv, ShapeInv, GroundInv, TellInv, RightDone
  PROVE  TellInv'
<1>1. /\ pc = "returned" /\ pc' = "returned" /\ stack # << >> /\ InUnion /\ Top.at = 2
      /\ stack' = Tail(stack) /\ returned' = MergeByOrdinal(Top.maps, returned)
      /\ UNCHANGED <<body, current, expansions, results>>
  BY DEF RightDone
<1>2. Inside1 /\ StaysOwed
  BY <1>1, InsideFacts, RightDoneKept
<1>3. Covered(ThisStatement) => ResultTells(ThisStatement, stack[1].query, returned', Owed)
  <2> SUFFICES ASSUME Covered(ThisStatement) PROVE ResultTells(ThisStatement, stack[1].query, returned', Owed)
    OBVIOUS
  <2>0. PICK s, L, f, n, ret, p : s = ThisStatement /\ L = Owed /\ f = stack[1] /\ n = f.query /\ ret = returned /\ p = pc
    OBVIOUS
  <2>1. LevelOk(s, n) /\ FrameTells(s, p, f, L) /\ ResultTells(s, Wanted(s, stack), ret, L)
    BY <1>1, <1>2, <2>0, InTell
  <2>2. IsUnion(f) /\ f.at = 2 /\ Top = f
    BY <1>1, <1>2, <2>0 DEF Inside1
  <2>3. PICK left, right, M : left = body.queries[n].left /\ right = body.queries[n].right /\ M = Meant(body.queries, s)
    OBVIOUS
  <2>4. Wanted(s, stack) = right
    BY <1>1, <2>0, <2>2, <2>3 DEF Wanted, Awaited
  <2>5. UnionOk(s, f, left, right)
    BY <2>0, <2>1, <2>2, <2>3, UnionMeans
  <2>6. /\ right # s.query /\ QueryMeant(s, right) = M[right] /\ Len(M[left]) = Len(M[right])
        /\ QueryMeant(s, n) = [i \in DOMAIN M[left] \cap DOMAIN M[right] |->
                                 [name |-> M[left][i].name, from |-> M[left][i].from \cup M[right][i].from]]
    BY <2>0, <2>3, <2>5, Zenon DEF UnionOk
  <2>7. MapsTell(f.maps, M[left], TRUE, L)
    BY <2>0, <2>1, <2>2, <2>3 DEF FrameTells
  <2>8. MapsTell(ret, M[right], TRUE, L)
    BY <2>1, <2>4, <2>6 DEF ResultTells
  <2>9. PICK named : named = (n # s.query)
    OBVIOUS
  <2>10. MapsTell(MergeByOrdinal(f.maps, ret), QueryMeant(s, n), named, L)
    <3>1. PICK a, b, m : a = M[left] /\ b = M[right] /\ m = QueryMeant(s, n)
      OBVIOUS
    <3>2. m = [i \in DOMAIN a \cap DOMAIN b |-> [name |-> a[i].name, from |-> a[i].from \cup b[i].from]] /\ Len(a) = Len(b)
      BY <2>6, <3>1
    <3>3. MapsTell(f.maps, a, TRUE, L) /\ MapsTell(ret, b, TRUE, L)
      BY <2>7, <2>8, <3>1
    <3>4. MapsTell(MergeByOrdinal(f.maps, ret), m, named, L)
      BY ONLY <3>2, <3>3, MergeTells
    <3> QED BY <3>1, <3>4
  <2>11. ResultTells(s, n, MergeByOrdinal(f.maps, ret), L)
    BY <2>9, <2>10 DEF ResultTells
  <2> QED BY <1>1, <2>0, <2>2, <2>11
<1> QED BY <1>1, <1>2, <1>3, PopTells

-----------------------------------------------------------------------------
(* Derived tables are bound.                                               *)

\* Binding a derived table tells what it means.
LEMMA BindHere == BindAnywhere
BY BindTells DEF BindAnywhere, BindFrom

\* Binding a derived table tells what it means, after a step too.
LEMMA BindNext == BindAnywhere'
BY BindHere, PTL

\* Every level of a plain statement is well formed.
LEMMA LevelsHere == LevelsAnywhere
BY LevelsOk DEF LevelsAnywhere

\* Every level of a plain statement is well formed, after a step too.
LEMMA LevelsNext == LevelsAnywhere'
BY LevelsHere, PTL

\* What comes after an element in a sequence without repetition is not it.
LEMMA DistinctAfter ==
  ASSUME NEW a, IsSequence(a), NEW x, NEW b, IsSequence(b), NEW w, w = a \o (<<x>> \o b),
         \A i, j \in DOMAIN w : w[i] = w[j] => i = j
  PROVE  x \notin Range(b)
<1> DEFINE t == <<x>> \o b
<1>1. IsSequence(<<x>>) /\ Len(<<x>>) = 1 /\ <<x>>[1] = x
  BY AnySingle
<1>2. JoinOf(t, <<x>>, b)
  BY <1>1, JoinFacts
<1>3. w = a \o t
  OBVIOUS
<1> HIDE DEF t
<1>4. IsSequence(t) /\ Len(t) = 1 + Len(b) /\ t[1] = x /\ (\A i \in 1..Len(b) : t[1 + i] = b[i]) /\ Len(b) \in Nat
  BY <1>1, <1>2 DEF JoinOf
<1>5. JoinOf(w, a, t)
  BY <1>3, <1>4, JoinFacts
<1>6. IsSequence(w) /\ Len(a) \in Nat /\ Len(w) = Len(a) + Len(t) /\ \A i \in 1..Len(t) : w[Len(a) + i] = t[i]
  BY <1>5 DEF JoinOf
<1>7. DOMAIN w = 1..Len(w) /\ DOMAIN b = 1..Len(b)
  BY <1>6, AnySequence
<1> SUFFICES ASSUME NEW i \in DOMAIN b, b[i] = x PROVE FALSE
  BY DEF Range
<1>8. PICK A, B, W, T : A = Len(a) /\ B = Len(b) /\ W = Len(w) /\ T = Len(t)
  OBVIOUS
<1>9. A \in Nat /\ B \in Nat /\ W = A + T /\ T = 1 + B /\ i \in 1..B
  BY <1>4, <1>6, <1>7, <1>8
<1>10. 1 + i \in 1..T /\ 1 \in 1..T /\ A + (1 + i) \in 1..W /\ A + 1 \in 1..W /\ A + (1 + i) # A + 1
  BY ONLY <1>9
<1>11. w[A + (1 + i)] = t[1 + i] /\ w[A + 1] = t[1]
  BY <1>6, <1>8, <1>10
<1>12. t[1 + i] = b[i]
  BY <1>4, <1>7
<1>13. PICK p, q : p = A + (1 + i) /\ q = A + 1
  OBVIOUS
<1>14. p \in DOMAIN w /\ q \in DOMAIN w /\ p # q
  BY <1>7, <1>8, <1>10, <1>13
<1>15. w[p] = x /\ w[q] = x
  BY <1>4, <1>11, <1>12, <1>13
<1> QED BY ONLY <1>14, <1>15, \A k, j \in DOMAIN w : w[k] = w[j] => k = j

\* When an alias has its turn, it was owed and is no more.
LEMMA TurnTaken ==
  ASSUME GroundInv, Busy, Covered(ThisStatement), body' = body, current' = current, NEW x, TurnOf(x)
  PROVE  Owed' \subseteq Owed /\ x \in Owed /\ x \notin Owed'
<1> DEFINE now == Remaining(ThisStatement, pc, stack, cte)
           rest == Remaining(ThisStatement, pc', stack', cte')
<1>1. now = <<x>> \o rest /\ IsSequence(rest)
  BY DEF TurnOf
<1>2. Owed = Range(now)
  BY DEF Owed
<1>3. Owed' = Range(rest)
  BY SameStatement, SameRemaining DEF Owed
<1>4. Distinct(Aliases(ThisStatement))
  BY DEF Covered, Plain
<1>5. PICK before : IsSequence(before) /\ Aliases(ThisStatement) = before \o now
  BY <1>4 DEF GroundInv, Passed
<1> HIDE DEF now, rest
<1>6. x \notin Range(rest)
  <2>1. PICK w : w = Aliases(ThisStatement)
    OBVIOUS
  <2>2. \A i, j \in DOMAIN w : w[i] = w[j] => i = j
    BY <1>4, <2>1 DEF Distinct
  <2>3. w = before \o (<<x>> \o rest) /\ IsSequence(before)
    BY <1>1, <1>5, <2>1
  <2> QED BY ONLY <1>1, <2>2, <2>3, DistinctAfter
<1>7. Range(now) = {x} \cup Range(rest)
  <2>1. IsSequence(<<x>>) /\ Range(<<x>>) = {x}
    BY AnySingle
  <2> QED BY <1>1, <2>1, AnyConcat
<1> QED BY <1>2, <1>3, <1>6, <1>7

\* The virtual columns of a query whose result tells what it means.
LEMMA VirtualTells ==
  ASSUME NEW x, NEW L, NEW K, K \subseteq L, x \notin K, Stays(L), Remember(<<"derived", x>>), IsSequence(returned),
         NEW means, MapsTell(returned, means, TRUE, L), NEW columns,
         columns = Virtual(<<"derived", x>>, [n \in DOMAIN returned |-> returned[n].name])
  PROVE  ColumnsTell(columns, means, K)'
<1>1. PICK o, names : o = <<"derived", x>> /\ names = [n \in DOMAIN returned |-> returned[n].name]
  OBVIOUS
<1>2. /\ IsSequence(means) /\ Len(returned) = Len(means)
      /\ \A n \in DOMAIN returned : MapTells(returned[n], means[n], L) /\ returned[n].name = means[n].name
  BY DEF MapsTell
<1>3. columns = [n \in DOMAIN returned |-> [owner |-> o, column |-> returned[n].name, ordinal |-> n]]
  BY <1>1 DEF Virtual
<1>4. columns = [n \in DOMAIN returned |-> columns[n]]
  BY <1>3
<1>5. IsSequence(columns) /\ DOMAIN columns = DOMAIN returned /\ Len(columns) = Len(returned)
  BY <1>4, AlongFacts
<1>6. o \in DOMAIN expansions' /\ expansions'[o] = [n \in DOMAIN returned |-> returned[n].sources]
  BY <1>1 DEF Remember
<1>7. ASSUME NEW n \in DOMAIN columns PROVE ColumnTells(columns[n], means[n], K)'
  <2>1. PICK c, r, m : c = columns[n] /\ r = returned[n] /\ m = means[n]
    OBVIOUS
  <2>2. c.owner = o /\ c.column = r.name /\ c.ordinal = n
    BY <1>3, <1>5, <2>1
  <2>3. r.name = m.name /\ BaseOf(r.sources) = m.from /\ \A d \in r.sources : Clear(d, L)
    BY <1>2, <1>5, <2>1 DEF MapTells
  <2>4. o[1] # "base" /\ o[2] = x
    BY <1>1
  <2>5. IsVirtual(c)
    BY <2>2, <2>4 DEF IsVirtual
  <2>6. SourcesOf(c)' = r.sources
    BY <1>5, <1>6, <2>1, <2>2 DEF SourcesOf, Known
  <2>7. \A d \in r.sources : Clear(d, K)'
    BY <2>3, MapsCarried
  <2>8. Settled(c, K)'
    BY <2>2, <2>4, <2>6, <2>7 DEF Settled
  <2>9. Direct(c)' = m.from
    <3>1. Direct(c)' = BaseOf(r.sources)
      BY <2>5, <2>6 DEF Direct, BaseOf, IsVirtual
    <3> QED BY <2>3, <3>1
  <2>10. ColumnTells(c, m, K)'
    BY <2>2, <2>3, <2>8, <2>9 DEF ColumnTells
  <2> QED BY <2>1, <2>10 DEF ColumnTells
<1>8. \A n \in DOMAIN columns : ColumnTells(columns[n], means[n], K)'
  BY <1>7
<1> QED BY <1>2, <1>5, <1>8 DEF ColumnsTell

\* A derived table is bound with virtual columns, that its query's result gives their sources.
LEMMA BindDerivedTells ==
  ASSUME OrderInv, ShapeInv, GroundInv, TellInv, BindDerived
  PROVE  TellInv'
<1>0. PICK s, L, K, f, x, frames, ret, item :
         /\ s = ThisStatement /\ L = Owed /\ K = Owed' /\ f = stack[1] /\ item = ThisItem /\ x = ThisItem.alias
         /\ frames = stack /\ ret = returned
  OBVIOUS
<1>c. PICK columns : columns = Virtual(<<"derived", x>>, [n \in DOMAIN ret |-> ret[n].name])
  OBVIOUS
<1>1. /\ pc = "returned" /\ pc' = "on" /\ stack # << >> /\ ~InUnion
      /\ stack' = BindTop(x, columns) /\ Remember(<<"derived", x>>)
      /\ UNCHANGED <<body, current, returned, results>>
  BY <1>0, <1>c DEF BindDerived
<1>2. Inside1 /\ TurnOf(x)
  BY <1>0, <1>1, InsideFacts, BindDerivedKept
<1>3. /\ Frames(frames) /\ frames # << >> /\ Busy /\ ~IsUnion(f) /\ AtPlace(pc, frames) /\ IsFrame(f)
      /\ item = ItemsIn(s, f.query)[f.at] /\ FrameItems(f) = ItemsIn(s, f.query)
  BY <1>0, <1>1, <1>2 DEF Inside1, ThisItem
<1>4. PICK g, w : g = BoundFrame(f, x, columns) /\ w = [frames EXCEPT ![1] = g]
  OBVIOUS
<1>5. stack' = w /\ g.query = f.query
  BY <1>0, <1>1, <1>3, <1>4, MovedIs DEF BindTop, BoundFrame, Moved
<1>6. IsSequence(ret)
  BY <1>0, <1>1, <1>3 DEF ShapeInv
<1>7. Covered(s) => /\ \A i \in DOMAIN w : FrameTells(s, IF i = 1 THEN "on" ELSE "visit", w[i], K)'
                    /\ Linked(s, w)
  <2> SUFFICES ASSUME Covered(s)
               PROVE  (\A i \in DOMAIN w : FrameTells(s, IF i = 1 THEN "on" ELSE "visit", w[i], K)') /\ Linked(s, w)
    OBVIOUS
  <2>1. /\ Lined(s) /\ FramesTell(s, "returned", frames, L) /\ Linked(s, frames)
        /\ FrameTells(s, "returned", f, L) /\ LevelOk(s, f.query)
        /\ ResultTells(s, Wanted(s, frames), ret, L)
    BY <1>0, <1>1, <1>2, InTell
  <2>2. K \subseteq L /\ x \in L /\ x \notin K
    BY <1>0, <1>1, <1>2, <1>3, TurnTaken
  <2>3. Stays(L)
    <3> SUFFICES ASSUME NEW c, IsVirtual(c), c.owner[2] \notin L PROVE SourcesOf(c)' = SourcesOf(c)
      BY DEF Stays
    <3>1. PICK o : o = <<"derived", x>>
      OBVIOUS
    <3>2. o[2] = x
      BY <3>1
    <3>3. c.owner # o
      BY <2>2, <3>2
    <3>4. /\ DOMAIN expansions' = DOMAIN expansions \cup {o}
          /\ \A q \in DOMAIN expansions : q # o => expansions'[q] = expansions[q]
      BY <1>1, <3>1 DEF Remember
    <3> QED BY <3>3, <3>4 DEF SourcesOf, Known
  <2>4. f.at \in DOMAIN ItemsIn(s, f.query) /\ item.kind = "derived"
    <3>1. Opened(f)
      BY <1>0, <1>1, <1>3 DEF AtPlace
    <3> QED BY <1>3, <3>1 DEF Opened
  <2>5. ItemOk(s, f.query, f.at)
    BY <2>1, <2>4, Zenon DEF LevelOk
  <2>6. InnerQuery(s, item.query) /\ x # None /\ LevelTables(s, f.query)[f.at] = Meant(body.queries, s)[item.query]
    BY <1>0, <1>3, <2>4, <2>5 DEF ItemOk
  <2>7. x = Exposed(item)
    BY <1>0, <2>6 DEF Exposed
  <2>8. PICK means : means = LevelTables(s, f.query)[f.at]
    OBVIOUS
  <2>9. MapsTell(ret, means, TRUE, L)
    <3>1. PICK m : m = item.query
      OBVIOUS
    <3>2. Wanted(s, frames) = m /\ m # s.query /\ m # 0
      BY <1>0, <1>3, <2>6, <3>1 DEF Wanted, Awaited, InnerQuery
    <3>3. MapsTell(ret, QueryMeant(s, m), m # s.query, L)
      BY <2>1, <3>2 DEF ResultTells
    <3>4. QueryMeant(s, m) = means
      BY <2>6, <2>8, <3>1, <3>2 DEF QueryMeant
    <3>5. (m # s.query) = TRUE
      BY <3>2
    <3> QED BY <3>3, <3>4, <3>5
  <2>10. ColumnsTell(columns, means, K)'
    <3>1. returned = ret
      BY <1>0
    <3> QED BY <1>1, <1>c, <1>6, <2>2, <2>3, <2>9, <3>1, VirtualTells
  <2>11. \A q, h : FrameTells(s, q, h, L) => FrameTells(s, q, h, K)'
    BY <1>1, <2>2, <2>3, FramesCarried
  <2>12. FrameTells(s, "visit", f, K)'
    <3>1. FrameTells(s, "visit", f, L)
      BY <2>1, SamePlace
    <3> QED BY <2>11, <3>1
  <2>13. FrameTells(s, "on", g, K)'
    <3>1. SameBody
      BY <1>1, SameMeaning
    <3>2. ThisStatement' = ThisStatement /\ IsFrame(f)' = IsFrame(f) /\ IsUnion(f)' = IsUnion(f)
      BY <1>1, SameStatement
    <3>3. LevelOk(s, f.query)'
      BY <1>1, <2>1, SamePremise, <2>12, LevelsNext DEF FrameTells, LevelsAnywhere
    <3>4. (ItemsIn(s, f.query))' = ItemsIn(s, f.query) /\ (LevelTables(s, f.query))' = LevelTables(s, f.query)
      BY <3>1 DEF SameBody
    <3>5. BindFrom(s, f, K, x, columns)'
      <4>1. ColumnsTell(columns, LevelTables(s, f.query)[f.at], K)'
        <5>1. (LevelTables(s, f.query)[f.at])' = means
          BY <2>8, <3>4
        <5> QED BY <2>10, <5>1 DEF ColumnsTell
      <4>2. IsFrame(f)' /\ ~IsUnion(f)' /\ (f.at \in DOMAIN ItemsIn(s, f.query))'
        BY <1>3, <2>4, <3>2, <3>4
      <4>3. (x = Exposed(ItemsIn(s, f.query)[f.at]))' /\ (ItemsIn(s, f.query)[f.at].kind # "table")'
        <5>1. Exposed(item)' = Exposed(item)
          BY DEF Exposed
        <5> QED BY <1>3, <2>4, <2>7, <3>4 DEF Exposed
      <4> QED BY <2>12, <3>3, <4>1, <4>2, <4>3 DEF BindFrom
    <3>6. FrameTells(s, "on", BoundFrame(f, x, columns), K)'
      BY <3>5, BindNext DEF BindAnywhere
    <3>7. BoundFrame(f, x, columns)' = g
      BY <1>4 DEF BoundFrame, Moved, Bind
    <3> QED BY <3>6, <3>7 DEF FrameTells
  <2>14. RetoldAs(s, frames, g)
    BY <1>0, <1>3, <1>5, <2>1, LinkedRetold
  <2>15. Linked(s, w) /\ DOMAIN w = DOMAIN frames /\ w[1] = g /\ \A i \in DOMAIN frames : i # 1 => w[i] = frames[i]
    BY <1>4, <2>14 DEF RetoldAs
  <2>16. ASSUME NEW i \in DOMAIN w PROVE FrameTells(s, IF i = 1 THEN "on" ELSE "visit", w[i], K)'
    <3>1. CASE i = 1
      BY <2>13, <2>15, <3>1 DEF FrameTells
    <3>2. CASE i # 1
      <4>1. PICK h : h = w[i]
        OBVIOUS
      <4>2. FrameTells(s, "visit", h, L)
        BY <2>1, <2>15, <3>2, <4>1 DEF FramesTell
      <4>3. FrameTells(s, "visit", h, K)'
        BY <2>11, <4>2
      <4> QED BY <3>2, <4>1, <4>3 DEF FrameTells
    <3> QED BY <3>1, <3>2
  <2> QED BY <2>15, <2>16
<1>8. PICK p : p = pc'
  OBVIOUS
<1>9. Covered(s) => /\ \A i \in DOMAIN w : FrameTells(s, IF i = 1 THEN p ELSE "visit", w[i], K)'
                    /\ Linked(s, w)
                    /\ p = "returned" => ResultTells(s, Wanted(s, w), ret, K)'
  BY <1>1, <1>7, <1>8
<1>10. w = stack' /\ ret = returned' /\ pc # "no source" /\ pc' # "no source"
  BY <1>0, <1>1, <1>5
<1> QED BY <1>0, <1>1, <1>3, <1>8, <1>9, <1>10, Assembled

-----------------------------------------------------------------------------
(* Statements begin and end.                                               *)

\* Between statements.
LEMMA IdleTells ==
  ASSUME body' = body, results' = results, TellInv, ~Busy'
  PROVE  TellInv'
<1>1. (\A i \in DOMAIN results : IsExact(results[i]))'
  BY SameResults DEF TellInv
<1> QED BY <1>1 DEF TellInv

\* A statement is done.
LEMMA ToldTells ==
  ASSUME body' = body, IsSequence(results), TellInv, ~Busy', NEW r, results' = Append(results, r), IsExact(r)
  PROVE  TellInv'
<1>1. PICK w : w = Append(results, r)
  OBVIOUS
<1>2. /\ IsSequence(w) /\ Len(results) \in Nat /\ Len(w) = Len(results) + 1
      /\ \A i \in 1..Len(results) : w[i] = results[i]
      /\ w[Len(results) + 1] = r
  BY <1>1, AnyAppend
<1>3. ASSUME NEW i \in DOMAIN w PROVE IsExact(w[i])'
  <2>1. i \in 1..Len(results) \/ i = Len(results) + 1
    <3>1. i \in 1..Len(w)
      BY <1>2, AnySequence
    <3> QED BY ONLY <1>2, <3>1
  <2>2. IsExact(w[i])
    <3>1. CASE i \in 1..Len(results)
      <4>1. i \in DOMAIN results
        BY <3>1, AnySequence
      <4> QED BY <1>2, <3>1, <4>1 DEF TellInv
    <3>2. CASE i = Len(results) + 1
      BY <1>2, <3>2
    <3> QED BY <2>1, <3>1, <3>2
  <2>3. PICK x : x = w[i]
    OBVIOUS
  <2>4. IsExact(x)'
    BY <2>2, <2>3, SameResults
  <2> QED BY <2>3, <2>4
<1>4. (\A i \in DOMAIN results : IsExact(results[i]))'
  BY <1>1, <1>3
<1> QED BY <1>4 DEF TellInv

\* An INSERT of values is done: it produces nothing.
LEMMA SkipValuesTells ==
  ASSUME OrderInv, ShapeInv, GroundInv, TellInv, SkipValues
  PROVE  TellInv'
<1>1. /\ pc = "no source" /\ pc' = "statements" /\ body' = body
      /\ results' = Append(results, [statement |-> current, maps |-> << >>])
  BY DEF SkipValues
<1>2. PICK r : r = [statement |-> current, maps |-> << >>]
  OBVIOUS
<1>3. r.statement = current
  BY <1>2
<1>4. ThisStatement.kind = "values"
  BY <1>1 DEF TellInv, Busy
<1>5. IsExact(r)
  BY <1>3, <1>4 DEF IsExact, Produces, ThisStatement
<1>6. IsSequence(results) /\ ~Busy'
  BY <1>1 DEF OrderInv, Busy
<1> QED BY <1>1, <1>2, <1>5, <1>6, ToldTells

\* A statement is begun: nothing has been told of it.
LEMMA StartStatementTells ==
  ASSUME OrderInv, ShapeInv, GroundInv, TellInv, StartStatement
  PROVE  TellInv'
<1>0. PICK s, p, w, K : s = body.statements[Head(pending)] /\ p = pc' /\ w = stack' /\ K = Owed'
  OBVIOUS
<1>1. /\ p = CASE s.kind \in {"select", "ctas"} -> "ctes"
               [] s.kind = "values" -> "no source"
               [] OTHER -> "visit"
      /\ w = CASE s.kind = "insert" -> <<Frame(s.query)>>
               [] s.kind = "merge" -> <<Frame(0)>>
               [] OTHER -> << >>
      /\ UNCHANGED <<body, results, expansions>>
  BY <1>0 DEF StartStatement
<1>2. AStatement(s) /\ s.kind \in {"select", "ctas", "insert", "values", "merge"} /\ ThisStatement' = s
  BY <1>0, StartShape
<1>3. p = "no source" <=> s.kind = "values"
  BY <1>1, <1>2
<1>4. s.kind # "values" /\ Covered(s) => /\ \A i \in DOMAIN w : FrameTells(s, "visit", w[i], K)'
                                         /\ Linked(s, w)
  <2> SUFFICES ASSUME s.kind # "values", Covered(s)
               PROVE  (\A i \in DOMAIN w : FrameTells(s, "visit", w[i], K)') /\ Linked(s, w)
    OBVIOUS
  <2>1. Lined(s)
    BY <1>2 DEF Lined, Covered
  <2>2. CASE s.kind \in {"select", "ctas"}
    <3>1. w = << >>
      BY <1>1, <2>2
    <3>2. DOMAIN w = {}
      BY <3>1
    <3> QED BY <3>2 DEF Linked
  <2>3. CASE s.kind \in {"insert", "merge"}
    <3>1. s.query \in Levels(s)
      BY <2>1, LevelsFacts DEF Lined, LevelsOf
    <3>2. w = <<Frame(s.query)>>
      <4>1. s.kind = "merge" => s.query = 0
        <5>1. s.kind = "merge" => 0 \in Levels(s)
          BY DEF Levels
        <5> QED BY <2>1, <5>1, LevelShapes DEF LevelShape
      <4> QED BY <1>1, <2>3, <4>1
    <3>3. PICK f : f = Frame(s.query)
      OBVIOUS
    <3>4. FrameTells(s, "visit", f, K) /\ f.query = s.query
      BY <2>1, <3>1, <3>3, FreshTells
    <3>5. Stays(K)
      BY <1>1 DEF Stays, SourcesOf, Known, IsVirtual
    <3>6. FrameTells(s, "visit", f, K)'
      BY <1>1, <3>4, <3>5, FramesCarried
    <3>7. IsSequence(w) /\ Len(w) = 1 /\ w[1] = f /\ \A i \in DOMAIN w : i = 1
      <4>1. w = <<f>>
        BY <3>2, <3>3
      <4> QED BY <4>1, AnySingle
    <3> QED BY <3>4, <3>6, <3>7 DEF Linked
  <2> QED BY <1>2, <2>2, <2>3
<1>5. s.kind # "values" /\ Covered(s) => Tells(s, p, w, K)'
  <2> SUFFICES ASSUME s.kind # "values", Covered(s) PROVE Tells(s, p, w, K)'
    OBVIOUS
  <2>1. SameBody
    BY <1>1, SameMeaning
  <2>2. Linked(s, w)'
    BY <1>4, <2>1 DEF SameBody
  <2>3. p \in {"ctes", "visit"} /\ (p = "ctes" => DOMAIN w = {})
    BY <1>1, <1>2
  <2>4. FramesTell(s, p, w, K)'
    <3> SUFFICES ASSUME NEW i \in DOMAIN w PROVE FrameTells(s, IF i = 1 THEN p ELSE "visit", w[i], K)'
      BY DEF FramesTell
    <3>1. p = "visit"
      BY <2>3
    <3>2. FrameTells(s, "visit", w[i], K)'
      BY <1>4
    <3>3. (IF i = 1 THEN p ELSE "visit") = "visit"
      BY <3>1
    <3> QED BY <3>2, <3>3 DEF FrameTells
  <2> QED BY <2>2, <2>3, <2>4 DEF Tells
<1>6. Covered(s)' = Covered(s)
  BY <1>1, SamePremise
<1>7. (Busy => (pc = "no source" <=> ThisStatement.kind = "values"))'
  BY <1>0, <1>2, <1>3
<1>8. (Busy /\ pc # "no source" /\ Covered(ThisStatement) => Tells(ThisStatement, pc, stack, Owed))'
  BY <1>2, <1>6, <1>0, <1>3, <1>5
<1>9. (\A i \in DOMAIN results : IsExact(results[i]))'
  BY <1>1, SameResults DEF TellInv
<1> QED BY <1>7, <1>8, <1>9 DEF TellInv

\* The query of a statement is opened: its frame has nothing to tell.
LEMMA OpenStatementQueryTells ==
  ASSUME OrderInv, ShapeInv, GroundInv, TellInv, OpenStatementQuery
  PROVE  TellInv'
<1>1. /\ pc = "ctes" /\ pc' = "visit"
      /\ stack' = <<Frame(IF cte <= Len(ThisStatement.ctes) THEN ThisStatement.ctes[cte].query ELSE ThisStatement.query)>>
      /\ UNCHANGED <<body, current, expansions, results>>
  BY DEF OpenStatementQuery
<1>2. Busy /\ Placed /\ Visiting /\ cte \in 1..(Len(ThisStatement.ctes) + 1)
  BY <1>1 DEF ShapeInv, OrderInv, Busy, Placed
<1>0. PICK s, p, w, K, ret : s = ThisStatement /\ p = pc' /\ w = stack' /\ K = Owed' /\ ret = returned'
  OBVIOUS
<1>3. Covered(s) => /\ \A i \in DOMAIN w : FrameTells(s, IF i = 1 THEN p ELSE "visit", w[i], K)'
                    /\ Linked(s, w)
                    /\ p = "returned" => ResultTells(s, Wanted(s, w), ret, K)'
  <2> SUFFICES ASSUME Covered(s)
               PROVE  (\A i \in DOMAIN w : FrameTells(s, IF i = 1 THEN p ELSE "visit", w[i], K)') /\ Linked(s, w)
    BY <1>0, <1>1
  <2>1. s.kind # "values"
    BY <1>0, <1>1, <1>2 DEF TellInv
  <2>2. Lined(s)
    BY <1>0, <1>2, <2>1, ThisIsAStatement DEF Lined, Visiting, Covered
  <2>3. s.query \in Levels(s)
    BY <2>2, LevelsFacts DEF Lined, LevelsOf
  <2>4. PICK f : f = Frame(s.query)
    OBVIOUS
  <2>5. w = <<f>>
    <3>1. s.ctes = << >>
      BY DEF Covered
    <3>2. Len(s.ctes) = 0
      BY <3>1
    <3>3. cte \in 1..(Len(s.ctes) + 1)
      BY <1>0, <1>2
    <3>4. ~(cte <= Len(s.ctes))
      BY ONLY <3>2, <3>3
    <3> QED BY <1>0, <1>1, <2>4, <3>4
  <2>6. FrameTells(s, "visit", f, K) /\ f.query = s.query
    BY <2>2, <2>3, <2>4, FreshTells
  <2>7. Stays(K)
    BY <1>1 DEF Stays, SourcesOf, Known, IsVirtual
  <2>8. FrameTells(s, "visit", f, K)'
    BY <1>1, <2>6, <2>7, FramesCarried
  <2>9. IsSequence(w) /\ Len(w) = 1 /\ w[1] = f /\ \A i \in DOMAIN w : i = 1
    BY <2>5, AnySingle
  <2>10. p = "visit"
    BY <1>0, <1>1
  <2> QED BY <2>6, <2>8, <2>9, <2>10 DEF Linked, FrameTells
<1>4. pc # "no source" /\ pc' # "no source"
  BY <1>1
<1> QED BY <1>0, <1>1, <1>2, <1>3, <1>4, Assembled

\* A common table expression is not in the premise.
LEMMA RegisterCteTells ==
  ASSUME OrderInv, ShapeInv, GroundInv, TellInv, RegisterCte
  PROVE  TellInv'
<1>1. /\ pc = "returned" /\ pc' = "ctes" /\ InCtes /\ UNCHANGED <<body, current, results>>
  BY DEF RegisterCte
<1>2. Busy /\ cte \in 1..(Len(ThisStatement.ctes) + 1)
  BY <1>1 DEF ShapeInv, Busy
<1>0. PICK s, p, w, K, ret : s = ThisStatement /\ p = pc' /\ w = stack' /\ K = Owed' /\ ret = returned'
  OBVIOUS
<1>3. ~Covered(s)
  <2> SUFFICES ASSUME s.ctes = << >> PROVE FALSE
    BY DEF Covered
  <2>1. Len(s.ctes) = 0
    OBVIOUS
  <2>2. cte <= Len(s.ctes) /\ cte \in 1..(Len(s.ctes) + 1)
    BY <1>0, <1>1, <1>2 DEF InCtes
  <2> QED BY ONLY <2>1, <2>2
<1>4. pc # "no source" /\ pc' # "no source"
  BY <1>1
<1> QED BY <1>0, <1>1, <1>2, <1>3, <1>4, Assembled

\* The columns of the target are as many as the statement names, or its table has.
LEMMA TargetWidth ==
  ASSUME NEW s, s = ThisStatement, AStatement(s), Plain(s)
  PROVE  IsSequence(TargetColumns) /\ Len(TargetColumns) = Width(s)
<1>1. PICK k \in DOMAIN body.statements : s = body.statements[k]
  BY DEF AStatement
<1>2. s \in Statement /\ (s.kind = "insert" => s.target.kind = "table")
  BY <1>1, StatementFacts DEF AStatement
<1>3. CASE s.kind # "insert"
  <2>1. TargetColumns = << >>
    BY <1>3 DEF TargetColumns
  <2> QED BY <1>3, <2>1, AnyEmpty DEF Width
<1>4. CASE s.kind = "insert" /\ s.columns # << >>
  BY <1>2, <1>4, TypedSequence DEF TargetColumns, Statement, Width
<1>5. CASE s.kind = "insert" /\ ~(s.columns # << >>)
  <2> DEFINE found == Lookup(s.target.schema, s.target.name)
             meant == TableColumns(s.target.schema, s.target.name)
             t == [n \in DOMAIN found |-> found[n].column]
  <2>1. TargetColumns = t
    BY <1>2, <1>5 DEF TargetColumns
  <2>2. Width(s) = Len(meant)
    BY <1>5 DEF Width
  <2>3. Finds(s.target)
    BY <1>5 DEF Plain
  <2>4. Len(found) = Len(meant) /\ IsSequence(found)
    BY <2>3, FindsTells DEF ColumnsTell
  <2>5. t = [n \in DOMAIN found |-> t[n]]
    OBVIOUS
  <2> HIDE DEF found, meant, t
  <2>6. IsSequence(t) /\ Len(t) = Len(found)
    BY <2>4, <2>5, AlongFacts
  <2> QED BY <2>1, <2>2, <2>4, <2>6
<1> QED BY <1>3, <1>4, <1>5

\* Realigned keeps the sources of every column it does not drop.
LEMMA RealignedFacts ==
  ASSUME IsSequence(TargetColumns), NEW maps, IsSequence(maps),
         \A n \in DOMAIN maps : \E name, sources, direct : maps[n] = [name |-> name, sources |-> sources, is_direct |-> direct]
  PROVE  Aligned(Realigned(maps), maps, Len(TargetColumns))
<1>1. PICK t, m : t = TargetColumns /\ m = Realigned(maps)
  OBVIOUS
<1>2. PICK T, N : T = Len(t) /\ N = Len(maps)
  OBVIOUS
<1>3. DOMAIN t = 1..T /\ DOMAIN maps = 1..N /\ T \in Nat /\ N \in Nat
  BY <1>1, <1>2, AnySequence
<1>4. m = IF t = << >> THEN maps ELSE [n \in DOMAIN maps \cap DOMAIN t |-> [maps[n] EXCEPT !.name = t[n]]]
  BY <1>1 DEF Realigned
<1>5. CASE t = << >>
  <2>1. m = maps
    BY <1>4, <1>5
  <2>2. Len(m) <= Len(maps)
    BY <1>2, <1>3, <2>1
  <2> QED BY <1>1, <2>1, <2>2 DEF Aligned
<1>6. CASE t # << >>
  <2>1. PICK k : k = IF T <= N THEN T ELSE N
    OBVIOUS
  <2>2. k \in Nat /\ k <= N /\ k <= T /\ (1..N) \cap (1..T) = 1..k
    BY ONLY <1>3, <2>1
  <2>3. m = [n \in 1..k |-> [maps[n] EXCEPT !.name = t[n]]]
    BY <1>3, <1>4, <1>6, <2>2
  <2>4. m = [n \in 1..k |-> m[n]]
    BY <2>3
  <2>5. IsSequence(m) /\ Len(m) = k /\ DOMAIN m = 1..k
    BY <2>2, <2>4, Listed1
  <2>6. T # 0
    <3>1. IsSequence(t)
      BY <1>1
    <3> QED BY <1>2, <1>6, <3>1 DEF IsSequence
  <2>7. ASSUME NEW n \in DOMAIN maps, n <= T PROVE n \in DOMAIN m /\ m[n].sources = maps[n].sources
    <3>1. n \in 1..k
      <4>1. n \in 1..N
        BY <1>3
      <4> QED BY ONLY <1>3, <2>1, <2>7, <4>1
    <3>2. m[n] = [maps[n] EXCEPT !.name = t[n]]
      BY <2>3, <3>1
    <3>3. PICK a, b, c : maps[n] = [name |-> a, sources |-> b, is_direct |-> c]
      OBVIOUS
    <3>4. m[n].sources = b /\ maps[n].sources = b
      BY ONLY <3>2, <3>3
    <3> QED BY <2>5, <3>1, <3>4
  <2>8. \A n \in DOMAIN maps : T = 0 \/ n <= T => n \in DOMAIN m /\ m[n].sources = maps[n].sources
    BY <2>6, <2>7
  <2> QED BY <1>1, <1>2, <2>2, <2>5, <2>8 DEF Aligned
<1> QED BY <1>5, <1>6

\* A statement is done: its lineage is what its query returned, under the names of its target.
LEMMA FinishStatementTells ==
  ASSUME OrderInv, ShapeInv, GroundInv, TellInv, FinishStatement
  PROVE  TellInv'
<1>1. /\ pc = "returned" /\ pc' = "statements" /\ stack = << >> /\ body' = body
      /\ results' = Append(results, [statement |-> current, maps |-> Realigned(returned)])
  BY DEF FinishStatement, AtEnd
<1>2. Busy /\ Placed /\ Visiting /\ IsSequence(returned) /\ IsSequence(results) /\ ~Busy'
  BY <1>1 DEF ShapeInv, OrderInv, Busy, Placed
<1>0. PICK s, L, maps, r : /\ s = ThisStatement /\ L = Owed /\ maps = returned
                           /\ r = [statement |-> current, maps |-> Realigned(maps)]
  OBVIOUS
<1>3. r.statement = current /\ r.maps = Realigned(maps) /\ body.statements[r.statement] = s
  BY <1>0 DEF ThisStatement
<1>4. PICK meant, width : meant = Expected(s) /\ width = Width(s)
  OBVIOUS
<1>5. Covered(s) => /\ Len(r.maps) <= Len(meant)
                    /\ \A n \in DOMAIN meant : width = 0 \/ n <= width =>
                         n \in DOMAIN r.maps /\ BaseOf(r.maps[n].sources) = meant[n].from
  <2> SUFFICES ASSUME Covered(s)
               PROVE  /\ Len(r.maps) <= Len(meant)
                      /\ \A n \in DOMAIN meant : width = 0 \/ n <= width =>
                           n \in DOMAIN r.maps /\ BaseOf(r.maps[n].sources) = meant[n].from
    OBVIOUS
  <2>1. s.kind # "values"
    BY <1>0, <1>1, <1>2 DEF TellInv
  <2>2. Lined(s)
    BY <1>0, <1>2, <2>1, ThisIsAStatement DEF Lined, Visiting, Covered
  <2>3. Tells(s, "returned", << >>, L)
    BY <1>0, <1>1, <1>2 DEF TellInv
  <2>4. ResultTells(s, s.query, maps, L)
    BY <1>0, <2>3 DEF Tells, Wanted
  <2>5. meant = QueryMeant(s, s.query)
    <3>1. s.query \in Levels(s)
      BY <2>2, LevelsFacts DEF Lined, LevelsOf
    <3>2. s.kind = "merge" => s.query = 0
      <4>1. s.kind = "merge" => 0 \in Levels(s)
        BY DEF Levels
      <4> QED BY <2>2, <4>1, LevelShapes DEF LevelShape
    <3>3. s.query = 0 => s.kind = "merge"
      BY <2>2, <3>1, LevelShapes DEF LevelShape
    <3>4. CASE s.kind = "merge"
      BY <3>2, <3>4, <1>4 DEF Expected, QueryMeant, LevelTables
    <3>5. CASE s.kind # "merge"
      <4>1. meant = Meant(body.queries, s)[s.query]
        BY <1>4, <3>5 DEF Expected
      <4> QED BY <3>3, <3>5, <4>1 DEF QueryMeant
    <3> QED BY <3>4, <3>5
  <2>6. /\ IsSequence(maps) /\ IsSequence(meant) /\ Len(maps) = Len(meant)
        /\ \A n \in DOMAIN maps : MapTells(maps[n], meant[n], L)
    BY <2>4, <2>5 DEF ResultTells, MapsTell
  <2>7. \A n \in DOMAIN maps : \E name, sources, direct : maps[n] = [name |-> name, sources |-> sources, is_direct |-> direct]
    BY <2>6 DEF MapTells
  <2>8. IsSequence(TargetColumns) /\ Len(TargetColumns) = width
    BY <1>0, <1>4, <2>2, TargetWidth DEF Lined, Covered
  <2>9. Aligned(Realigned(maps), maps, width)
    BY <2>6, <2>7, <2>8, RealignedFacts
  <2>10. /\ Len(r.maps) <= Len(maps)
         /\ \A n \in DOMAIN maps : width = 0 \/ n <= width => n \in DOMAIN r.maps /\ r.maps[n].sources = maps[n].sources
    BY <1>3, <2>9 DEF Aligned
  <2>11. DOMAIN maps = DOMAIN meant
    BY <2>6, AnySequence
  <2>12. ASSUME NEW n \in DOMAIN meant, width = 0 \/ n <= width
         PROVE  n \in DOMAIN r.maps /\ BaseOf(r.maps[n].sources) = meant[n].from
    BY <2>10, <2>11, <2>12, <2>6 DEF MapTells
  <2>13. Len(r.maps) <= Len(meant)
    BY <2>6, <2>10
  <2> QED BY <2>12, <2>13
<1>6. IsExact(r)
  BY <1>3, <1>4, <1>5, Zenon DEF IsExact, Width
<1> QED BY <1>0, <1>1, <1>2, <1>6, ToldTells

\* Nothing happens.
LEMMA StutterTells ==
  ASSUME OrderInv, ShapeInv, GroundInv, TellInv, UNCHANGED vars
  PROVE  TellInv'
<1>1. UNCHANGED <<body, pc, current, cte, stack, returned, expansions, results>>
  BY DEF vars
<1>2. CASE ~Busy
  <2>1. ~Busy'
    BY <1>1, <1>2 DEF Busy
  <2> QED BY <1>1, <2>1, IdleTells
<1>3. CASE Busy /\ pc = "no source"
  BY <1>1, SameStatement, <1>3, SameResults DEF TellInv
<1>4. CASE Busy /\ pc # "no source"
  <2>0. PICK s, L, p, frames, ret : s = ThisStatement /\ L = Owed /\ p = pc' /\ frames = stack' /\ ret = returned'
    OBVIOUS
  <2>1. StaysOwed
    BY <1>1 DEF StaysOwed
  <2>2. Covered(s) => /\ FramesTell(s, p, frames, L) /\ Linked(s, frames)
                      /\ p = "returned" => ResultTells(s, Wanted(s, frames), ret, L)
    BY <1>1, <1>4, <2>0 DEF TellInv, Tells
  <2>3. p # "no source"
    BY <1>1, <1>4, <2>0
  <2> QED BY <1>1, <1>4, <2>0, <2>1, <2>2, <2>3, StepTells
<1> QED BY <1>2, <1>3, <1>4

\* Every step keeps what has been told exact.
LEMMA TellKept ==
  ASSUME OrderInv, ShapeInv, GroundInv, TellInv, [Next]_vars
  PROVE  TellInv'
<1>1. ASSUME Unfold \/ AllDone \/ Overflow PROVE TellInv'
  <2>1. body' = body /\ results' = results /\ ~Busy'
    BY <1>1, Zenon DEF Unfold, AllDone, Overflow, Busy
  <2> QED BY <2>1, IdleTells
<1>2. CASE UNCHANGED vars
  BY <1>2, StutterTells
<1> QED BY <1>1, <1>2, StartStatementTells, SkipValuesTells, OpenStatementQueryTells, BindTableTells, SkipTableTells, OpenDerivedTells,
     BindDerivedTells, CollectJoinConditionTells, MapScalarTells, ExpandStarTells, SkipElementTells, ReturnTells, OpenBranchTells,
     LeftDoneTells, RightDoneTells, RegisterCteTells, FinishStatementTells DEF Next

\* Before the first statement nothing has been told.
LEMMA TellInit == Init => TellInv
<1> SUFFICES ASSUME Init PROVE TellInv
  OBVIOUS
<1>1. ~Busy /\ DOMAIN results = {}
  BY DEF Init, Busy
<1> QED BY <1>1 DEF TellInv

\* The columns a statement produces come from exactly the base columns they are computed
\* from, in a plain statement without common table expressions or a star over a derived
\* table: however its derived tables, joins, unions, stars and INSERT columns are nested,
\* the visitor's scopes and its maps say what SqlMeaning says of its queries
\* (_visit_query_spec, _map_select_element, _merge_by_ordinal).
THEOREM SourcesAlwaysExact == Spec => []SourcesExact
<1>1. Init => OrderInv /\ ShapeInv /\ GroundInv /\ TellInv
  BY OrderInit, ShapeInit, TellInit
<1>2. OrderInv /\ ShapeInv /\ GroundInv /\ TellInv /\ [Next]_vars => (OrderInv /\ ShapeInv /\ GroundInv /\ TellInv)'
  BY OrderKept, ShapeKept, TellKept
<1>3. TellInv => SourcesExact
  <2> SUFFICES ASSUME TellInv PROVE SourcesExact
    OBVIOUS
  <2>1. \A i \in DOMAIN results : IsExact(results[i])
    BY DEF TellInv
  <2> QED BY <2>1 DEF SourcesExact, IsExact, Covered
<1> QED BY <1>1, <1>2, <1>3, PTL DEF Spec
==============================================================================
