--------------------- MODULE OrchestratorReadersProofs ----------------------
(***************************************************************************)
(* Proofs about the two readers: what TLC checks on a few files holds of   *)
(* every file that is a tree of activities or a list of calls and chains.  *)
(*                                                                         *)
(* The operators come first: what FlattenSeq and the three loops of the    *)
(* readers return, by induction on the number of their steps, and what the *)
(* least closed set Under(tops) loses when a node is taken out.  Then the  *)
(* inductive invariant ReadersInv, one lemma per part of it.               *)
(***************************************************************************)
EXTENDS OrchestratorReaders, SequencesExt, WellFoundedInduction, TLAPS

-----------------------------------------------------------------------------
(* Loops and sequences.                                                    *)

\* A set of numbers that is not empty has a least one.
LEMMA LeastOf ==
  ASSUME NEW S \in SUBSET Nat, S # {}
  PROVE  \E n \in S : \A m \in S : n <= m
<1>1. PICK n \in S : \A m \in S : <<m, n>> \notin OpToRel(<, Nat)
  BY NatLessThanWellFounded, WFMin
<1>2. \A m \in S : m \in Nat /\ n \in Nat
  OBVIOUS
<1>3. \A m \in S : ~ (m < n)
  BY <1>1, <1>2 DEF OpToRel
<1> QED
  BY <1>2, <1>3

IsLoop(h, S, base, N, F) ==
  h \in [0..N -> S] /\ h[0] = base /\ \A n \in 1..N : h[n] = F[n][h[n - 1]]

\* A loop of N steps over values of S has a run.
LEMMA LoopRuns ==
  ASSUME NEW S, NEW base \in S, NEW N \in Nat, NEW F \in [1..N -> [S -> S]]
  PROVE  \E h : IsLoop(h, S, base, N, F)
<1> DEFINE Runs(k) == {h \in [0..k -> S] : h[0] = base /\ \A n \in 1..k : h[n] = F[n][h[n - 1]]}
           bad == {k \in 0..N : Runs(k) = {}}
<1>1. SUFFICES ASSUME bad # {} PROVE FALSE
  BY DEF IsLoop
<1>2. PICK k \in bad : \A m \in bad : k <= m
  <2>1. bad \in SUBSET Nat
    OBVIOUS
  <2> HIDE DEF bad
  <2> QED
    BY <1>1, <2>1, LeastOf
<1>3. k \in 0..N /\ Runs(k) = {}
  OBVIOUS
<1>4. k # 0
  <2>1. [i \in 0..0 |-> base] \in Runs(0)
    OBVIOUS
  <2> QED
    BY <1>3, <2>1
<1>5. k - 1 \in 0..N /\ k \in 1..N /\ ~ (k <= k - 1)
  BY <1>3, <1>4
<1>6. PICK g : g \in Runs(k - 1)
  <2> HIDE DEF Runs
  <2> QED
    BY <1>2, <1>5
<1> DEFINE h == [i \in 0..k |-> IF i = k THEN F[k][g[k - 1]] ELSE g[i]]
<1>7. g \in [0..(k - 1) -> S] /\ g[0] = base /\ \A n \in 1..(k - 1) : g[n] = F[n][g[n - 1]]
  BY <1>6
<1>8. F[k][g[k - 1]] \in S
  BY <1>5, <1>7
<1>9. h \in [0..k -> S] /\ h[0] = base
  BY <1>4, <1>5, <1>7, <1>8
<1>10. ASSUME NEW n \in 1..k PROVE h[n] = F[n][h[n - 1]]
  <2>1. CASE n = k
    BY <1>5, <2>1
  <2>2. CASE n # k
    <3>1. n \in 1..(k - 1) /\ h[n] = g[n] /\ h[n - 1] = g[n - 1]
      BY <1>5, <2>2
    <3> QED
      BY <1>7, <3>1
  <2> QED
    BY <2>1, <2>2
<1>11. h \in Runs(k)
  BY <1>9, <1>10
<1> QED
  BY <1>3, <1>11

\* What holds at 0 and is handed on by every step of a loop holds at all of them.
LEMMA Induct ==
  ASSUME NEW N \in Nat, NEW Q, 0 \in Q, \A n \in 1..N : n - 1 \in Q => n \in Q
  PROVE  \A n \in 0..N : n \in Q
<1> DEFINE bad == {n \in 0..N : n \notin Q}
<1>1. SUFFICES ASSUME bad # {} PROVE FALSE
  OBVIOUS
<1>2. PICK k \in bad : \A m \in bad : k <= m
  <2>1. bad \in SUBSET Nat
    OBVIOUS
  <2> HIDE DEF bad
  <2> QED
    BY <1>1, <2>1, LeastOf
<1>3. k \in 0..N /\ k \notin Q
  OBVIOUS
<1>4. k \in 1..N /\ k - 1 \in 0..N /\ ~ (k <= k - 1)
  BY <1>3
<1>5. k - 1 \in Q
  BY <1>2, <1>4
<1> QED
  BY <1>3, <1>4, <1>5

\* Two sequences, one after the other.
LEMMA ConcatFacts ==
  ASSUME NEW S, NEW a \in Seq(S), NEW b \in Seq(S)
  PROVE  /\ a \o b \in Seq(S)
         /\ Len(a \o b) = Len(a) + Len(b)
         /\ \A i \in 1..Len(a) : (a \o b)[i] = a[i]
         /\ \A i \in 1..Len(b) : (a \o b)[Len(a) + i] = b[i]
         /\ Range(a \o b) = Range(a) \cup Range(b)
<1>1. a \o b \in Seq(S) /\ Len(a \o b) = Len(a) + Len(b)
  OBVIOUS
<1>2. \A i \in 1..Len(a) : (a \o b)[i] = a[i]
  OBVIOUS
<1>3. \A i \in 1..Len(b) : (a \o b)[Len(a) + i] = b[i]
  OBVIOUS
<1>4. DOMAIN a = 1..Len(a) /\ DOMAIN b = 1..Len(b) /\ DOMAIN (a \o b) = 1..(Len(a) + Len(b))
      /\ Len(a) \in Nat /\ Len(b) \in Nat
  OBVIOUS
<1> DEFINE c == a \o b
<1> HIDE DEF c
<1>5. DOMAIN c = 1..(Len(a) + Len(b)) /\ (\A i \in 1..Len(a) : c[i] = a[i])
      /\ \A i \in 1..Len(b) : c[Len(a) + i] = b[i]
  BY <1>2, <1>3, <1>4 DEF c
<1>6. ASSUME NEW x PROVE x \in Range(c) <=> x \in Range(a) \cup Range(b)
  <2>1. ASSUME x \in Range(c) PROVE x \in Range(a) \cup Range(b)
    <3>1. PICK i \in 1..(Len(a) + Len(b)) : x = c[i]
      BY <1>5, <2>1 DEF Range
    <3>2. CASE i \in 1..Len(a)
      BY <1>4, <1>5, <3>1, <3>2 DEF Range
    <3>3. CASE i \notin 1..Len(a)
      <4>1. i - Len(a) \in 1..Len(b) /\ i = Len(a) + (i - Len(a))
        BY <1>4, <3>3
      <4>2. c[i] = b[i - Len(a)]
        BY <1>5, <4>1
      <4> QED
        BY <1>4, <3>1, <4>1, <4>2 DEF Range
    <3> QED
      BY <3>2, <3>3
  <2>2. ASSUME x \in Range(a) PROVE x \in Range(c)
    <3>1. PICK i \in 1..Len(a) : x = a[i]
      BY <1>4, <2>2 DEF Range
    <3>2. i \in 1..(Len(a) + Len(b))
      BY <1>4
    <3> QED
      BY <1>5, <3>1, <3>2 DEF Range
  <2>3. ASSUME x \in Range(b) PROVE x \in Range(c)
    <3>1. PICK i \in 1..Len(b) : x = b[i]
      BY <1>4, <2>3 DEF Range
    <3>2. Len(a) + i \in 1..(Len(a) + Len(b)) /\ c[Len(a) + i] = b[i]
      BY <1>4, <1>5
    <3> QED
      BY <1>5, <3>1, <3>2 DEF Range
  <2> QED
    BY <2>1, <2>2, <2>3
<1>7. Range(c) = Range(a) \cup Range(b)
  BY <1>6
<1> QED
  BY <1>1, <1>2, <1>3, <1>7 DEF c

\* One element more at the end.
LEMMA AppendFacts ==
  ASSUME NEW S, NEW a \in Seq(S), NEW x \in S
  PROVE  /\ Append(a, x) \in Seq(S)
         /\ Len(Append(a, x)) = Len(a) + 1
         /\ \A i \in 1..Len(a) : Append(a, x)[i] = a[i]
         /\ Append(a, x)[Len(a) + 1] = x
         /\ Range(Append(a, x)) = Range(a) \cup {x}
<1>1. /\ Append(a, x) \in Seq(S)
      /\ Len(Append(a, x)) = Len(a) + 1
      /\ Append(a, x)[Len(a) + 1] = x
  OBVIOUS
<1>2. \A i \in 1..Len(a) : Append(a, x)[i] = a[i]
  OBVIOUS
<1>3. DOMAIN a = 1..Len(a) /\ Len(a) \in Nat /\ DOMAIN Append(a, x) = 1..(Len(a) + 1)
  OBVIOUS
<1> DEFINE c == Append(a, x)
<1>4. /\ DOMAIN c = 1..(Len(a) + 1) /\ c[Len(a) + 1] = x
      /\ \A i \in 1..Len(a) : c[i] = a[i]
  BY <1>1, <1>2, <1>3
<1> HIDE DEF c
<1>5. \A i \in 1..(Len(a) + 1) : i = Len(a) + 1 \/ i \in 1..Len(a)
  BY <1>3
<1>6. Len(a) + 1 \in 1..(Len(a) + 1) /\ \A i \in 1..Len(a) : i \in 1..(Len(a) + 1)
  BY <1>3
<1>7. Range(c) = Range(a) \cup {x}
  BY <1>3, <1>4, <1>5, <1>6 DEF Range
<1> QED
  BY <1>1, <1>2, <1>7 DEF c

\* The elements of a sequence are in the set it is made of.
LEMMA RangeFacts ==
  ASSUME NEW S, NEW a \in Seq(S)
  PROVE  /\ Range(a) \subseteq S
         /\ \A i \in 1..Len(a) : a[i] \in Range(a)
         /\ \A x \in Range(a) : \E i \in 1..Len(a) : x = a[i]
         /\ a = << >> <=> Range(a) = {}
<1>1. DOMAIN a = 1..Len(a) /\ Len(a) \in Nat
  OBVIOUS
<1>2. \A i \in 1..Len(a) : a[i] \in S
  OBVIOUS
<1>3. a = << >> <=> Len(a) = 0
  OBVIOUS
<1>4. Len(a) # 0 => 1 \in 1..Len(a)
  BY <1>1
<1>5. Len(a) = 0 => 1..Len(a) = {}
  BY <1>1
<1> QED
  BY <1>1, <1>2, <1>3, <1>4, <1>5 DEF Range

\* A sequence without its head.
LEMMA TailFacts ==
  ASSUME NEW S, NEW a \in Seq(S), a # << >>
  PROVE  /\ Head(a) \in S /\ Head(a) = a[1] /\ Tail(a) \in Seq(S)
         /\ Len(Tail(a)) = Len(a) - 1 /\ 1 \in 1..Len(a)
         /\ \A i \in 1..Len(Tail(a)) : Tail(a)[i] = a[i + 1]
         /\ Range(a) = {Head(a)} \cup Range(Tail(a))
         /\ IsInjective(a) => IsInjective(Tail(a)) /\ Head(a) \notin Range(Tail(a))
<1>1. /\ Head(a) \in S /\ Head(a) = a[1] /\ Tail(a) \in Seq(S)
      /\ Len(Tail(a)) = Len(a) - 1 /\ 1 \in 1..Len(a)
  OBVIOUS
<1>2. \A i \in 1..Len(Tail(a)) : Tail(a)[i] = a[i + 1]
  OBVIOUS
<1>3. DOMAIN a = 1..Len(a) /\ Len(a) \in Nat /\ DOMAIN Tail(a) = 1..(Len(a) - 1)
  BY <1>1
<1> DEFINE c == Tail(a)
           h == Head(a)
<1>4. /\ DOMAIN c = 1..(Len(a) - 1) /\ h = a[1]
      /\ \A i \in 1..(Len(a) - 1) : c[i] = a[i + 1]
  BY <1>1, <1>2, <1>3
<1> HIDE DEF c, h
<1>5. Len(a) - 1 \in Nat /\ \A i \in 1..(Len(a) - 1) : i + 1 \in 1..Len(a) /\ i + 1 # 1
  BY <1>1, <1>3
<1>6. \A i \in 1..Len(a) : i = 1 \/ (i - 1 \in 1..(Len(a) - 1) /\ i = (i - 1) + 1)
  BY <1>3
<1>7. Range(a) = {h} \cup Range(c)
  <2>1. ASSUME NEW x \in Range(a) PROVE x \in {h} \cup Range(c)
    <3>1. PICK i \in 1..Len(a) : x = a[i]
      BY <1>3 DEF Range
    <3>2. CASE i = 1
      BY <1>4, <3>1, <3>2
    <3>3. CASE i # 1
      <4>1. i - 1 \in 1..(Len(a) - 1) /\ i = (i - 1) + 1
        BY <1>6, <3>3
      <4>2. x = c[i - 1]
        BY <1>4, <3>1, <4>1
      <4> QED
        BY <1>4, <4>1, <4>2 DEF Range
    <3> QED
      BY <3>2, <3>3
  <2>2. ASSUME NEW x \in Range(c) PROVE x \in Range(a)
    BY <1>3, <1>4, <1>5 DEF Range
  <2>3. h \in Range(a)
    BY <1>1, <1>3, <1>4 DEF Range
  <2> QED
    BY <2>1, <2>2, <2>3
<1>8. ASSUME IsInjective(a) PROVE IsInjective(c) /\ h \notin Range(c)
  <2>1. \A i, j \in 1..Len(a) : a[i] = a[j] => i = j
    BY <1>3, <1>8 DEF IsInjective
  <2>2. ASSUME NEW i \in 1..(Len(a) - 1), NEW j \in 1..(Len(a) - 1), c[i] = c[j] PROVE i = j
    <3>1. a[i + 1] = a[j + 1]
      BY <1>4, <2>2
    <3>2. i + 1 = j + 1
      BY <1>5, <2>1, <3>1
    <3> QED
      BY <3>2
  <2>3. h \notin Range(c)
    BY <1>1, <1>4, <1>5, <2>1 DEF Range
  <2> QED
    BY <1>4, <2>2, <2>3 DEF IsInjective
<1> QED
  BY <1>1, <1>2, <1>7, <1>8 DEF c, h

\* Two sequences without an element in common, one after the other.
LEMMA InjectiveConcat ==
  ASSUME NEW S, NEW a \in Seq(S), NEW b \in Seq(S),
         IsInjective(a), IsInjective(b), Range(a) \cap Range(b) = {}
  PROVE  IsInjective(a \o b)
<1> DEFINE c == a \o b
           la == Len(a)
           lb == Len(b)
<1>1. /\ la \in Nat /\ lb \in Nat /\ DOMAIN a = 1..la /\ DOMAIN b = 1..lb /\ DOMAIN c = 1..(la + lb)
  OBVIOUS
<1>2. (\A i \in 1..la : c[i] = a[i]) /\ \A i \in 1..lb : c[la + i] = b[i]
  BY ConcatFacts
<1> HIDE DEF c, la, lb
<1>3. \A i \in 1..(la + lb) : i \in 1..la \/ (i - la \in 1..lb /\ i = la + (i - la))
  BY <1>1
<1>4. ASSUME NEW i \in 1..(la + lb), NEW j \in 1..(la + lb), c[i] = c[j] PROVE i = j
  <2>1. CASE i \in 1..la /\ j \in 1..la
    BY <1>1, <1>2, <1>4, <2>1 DEF IsInjective
  <2>2. CASE i \in 1..la /\ j \notin 1..la
    <3>1. c[i] \in Range(a) /\ c[j] \in Range(b)
      BY <1>1, <1>2, <1>3, <2>2 DEF Range
    <3> QED
      BY <1>4, <3>1
  <2>3. CASE i \notin 1..la /\ j \in 1..la
    <3>1. c[i] \in Range(b) /\ c[j] \in Range(a)
      BY <1>1, <1>2, <1>3, <2>3 DEF Range
    <3> QED
      BY <1>4, <3>1
  <2>4. CASE i \notin 1..la /\ j \notin 1..la
    <3>1. i - la \in 1..lb /\ j - la \in 1..lb /\ c[i] = b[i - la] /\ c[j] = b[j - la]
      BY <1>2, <1>3, <2>4
    <3>2. i - la = j - la
      BY <1>1, <1>4, <3>1 DEF IsInjective
    <3> QED
      BY <1>1, <3>2
  <2> QED
    BY <2>1, <2>2, <2>3, <2>4
<1> QED
  BY <1>1, <1>4 DEF IsInjective, c

\* FlattenSeq joins the sequences it is given.
LEMMA FlattenFacts ==
  ASSUME NEW S, NEW seqs \in Seq(Seq(S))
  PROVE  /\ FlattenSeq(seqs) \in Seq(S)
         /\ Range(FlattenSeq(seqs)) = UNION {Range(seqs[n]) : n \in 1..Len(seqs)}
<1> DEFINE N == Len(seqs)
           Q == Seq(S)
<1>1. N \in Nat /\ \A n \in 1..N : seqs[n] \in Q
  <2>1. seqs \in Seq(Q)
    OBVIOUS
  <2> HIDE DEF Q
  <2> QED
    BY <2>1
<1>2. CASE N = 0
  <2>1. FlattenSeq(seqs) = seqs /\ seqs = << >> /\ 1..N = {}
    <3>1. FlattenSeq(seqs) = seqs
      BY <1>2 DEF FlattenSeq
    <3>2. seqs = << >> /\ 1..N = {}
      BY <1>2
    <3> QED
      BY <3>1, <3>2
  <2>2. << >> \in Seq(S) /\ Range(<< >>) = {}
    BY DEF Range
  <2> QED
    BY <2>1, <2>2
<1>3. CASE N # 0
  <2> DEFINE Step(g) == [i \in 1..N |-> IF i = 1 THEN seqs[i] ELSE g[i - 1] \o seqs[i]]
             flatten == CHOOSE g : g = Step(g)
             F == [n \in 1..N |-> [sofar \in Q |-> sofar \o seqs[n]]]
             base == << >>
  <2>1. FlattenSeq(seqs) = flatten[N]
    BY <1>3 DEF FlattenSeq
  <2>2. \A sofar \in Q : \A n \in 1..N : sofar \o seqs[n] \in Q
    BY <1>1, ConcatFacts
  <2>3. base \in Q
    OBVIOUS
  <2>4. F \in [1..N -> [Q -> Q]]
    <3> HIDE DEF Q
    <3> QED
      BY <2>2
  <2>5. \E h : IsLoop(h, Q, base, N, F)
    <3> HIDE DEF F, N, Q, base
    <3> QED
      BY <1>1, <2>3, <2>4, LoopRuns
  <2>6. PICK h : h \in [0..N -> Q] /\ h[0] = base /\ \A n \in 1..N : h[n] = F[n][h[n - 1]]
    <3> HIDE DEF F, N, Q, base
    <3> QED
      BY <2>5 DEF IsLoop
  <2> DEFINE k == [n \in 1..N |-> h[n]]
  <2>7. \A n \in 1..N : h[n - 1] \in Q /\ h[n] = h[n - 1] \o seqs[n]
    <3>1. ASSUME NEW n \in 1..N PROVE h[n - 1] \in Q /\ h[n] = h[n - 1] \o seqs[n]
      <4>1. h[n - 1] \in Q
        <5>1. n - 1 \in 0..N
          BY <1>1
        <5> HIDE DEF Q
        <5> QED
          BY <2>6, <5>1
      <4>2. F[n][h[n - 1]] = h[n - 1] \o seqs[n]
        <5> HIDE DEF Q
        <5> QED
          BY <4>1
      <4> QED
        BY <2>6, <4>1, <4>2
    <3> QED
      BY <3>1
  <2>8. \A n \in 1..N : k[n] = IF n = 1 THEN seqs[n] ELSE k[n - 1] \o seqs[n]
    <3>1. ASSUME NEW n \in 1..N, n = 1 PROVE h[n] = seqs[n]
      <4>1. h[n - 1] = << >>
        BY <2>6, <3>1
      <4>2. << >> \o seqs[n] = seqs[n]
        BY <1>1
      <4> QED
        BY <2>7, <4>1, <4>2
    <3>2. \A n \in 1..N : n # 1 => n - 1 \in 1..N
      BY <1>1
    <3> HIDE DEF N
    <3> QED
      BY <2>7, <3>1, <3>2
  <2>9. k = Step(k)
    <3>1. k = [n \in 1..N |-> k[n]]
      OBVIOUS
    <3> HIDE DEF k
    <3> QED
      BY <2>8, <3>1
  <2> HIDE DEF Step
  <2>10. flatten = Step(flatten)
    BY <2>9
  <2> HIDE DEF flatten
  <2>11. \A n \in 1..N : flatten[n] = IF n = 1 THEN seqs[n] ELSE flatten[n - 1] \o seqs[n]
    BY <2>10 DEF Step
  <2> DEFINE Joined(n) == UNION {Range(seqs[m]) : m \in 1..n}
             good == {0} \cup {n \in 1..N : flatten[n] \in Q /\ Range(flatten[n]) = Joined(n)}
  <2>12. ASSUME NEW n \in 1..N, n - 1 \in good PROVE n \in good
    <3>1. CASE n = 1
      <4>1. flatten[n] = seqs[n] /\ seqs[n] \in Q
        BY <1>1, <2>11, <3>1
      <4>2. Joined(n) = Range(seqs[n])
        <5>1. 1..n = {n}
          BY <3>1
        <5> QED
          BY <5>1
      <4> QED
        BY <4>1, <4>2
    <3>2. CASE n # 1
      <4>1. n - 1 \in 1..N /\ n - 1 # 0
        BY <1>1, <3>2
      <4>2. flatten[n - 1] \in Q /\ Range(flatten[n - 1]) = Joined(n - 1) /\ seqs[n] \in Q
        BY <1>1, <2>12, <4>1
      <4>3. flatten[n] = flatten[n - 1] \o seqs[n]
        BY <2>11, <3>2
      <4>4. flatten[n] \in Q /\ Range(flatten[n]) = Range(flatten[n - 1]) \cup Range(seqs[n])
        BY <4>2, <4>3, ConcatFacts
      <4>5. Joined(n) = Joined(n - 1) \cup Range(seqs[n])
        <5>1. 1..n = (1..(n - 1)) \cup {n}
          BY <1>1, <4>1
        <5> QED
          BY <5>1
      <4> QED
        BY <4>2, <4>4, <4>5
    <3> QED
      BY <3>1, <3>2
  <2>13. \A n \in 0..N : n \in good
    <3>1. 0 \in good
      OBVIOUS
    <3>2. \A n \in 1..N : n - 1 \in good => n \in good
      BY <2>12
    <3> HIDE DEF good, N
    <3> QED
      BY <1>1, <3>1, <3>2, Induct
  <2>14. N \in good /\ N # 0
    <3>1. N \in 0..N
      BY <1>1
    <3> HIDE DEF good
    <3> QED
      BY <1>3, <2>13, <3>1
  <2> QED
    BY <2>1, <2>14
<1> QED
  BY <1>2, <1>3

\* A new element does not repeat one that is there.
LEMMA InjectiveAppend ==
  ASSUME NEW S, NEW a \in Seq(S), NEW x \in S, IsInjective(a), x \notin Range(a)
  PROVE  IsInjective(Append(a, x))
<1> DEFINE c == Append(a, x)
<1>1. DOMAIN a = 1..Len(a) /\ DOMAIN c = 1..(Len(a) + 1) /\ Len(a) \in Nat
  OBVIOUS
<1>2. c[Len(a) + 1] = x /\ \A i \in 1..Len(a) : c[i] = a[i] /\ a[i] # x
  BY <1>1, AppendFacts DEF Range
<1> HIDE DEF c
<1>3. \A i \in 1..(Len(a) + 1) : i = Len(a) + 1 \/ i \in 1..Len(a)
  BY <1>1
<1>4. \A i, j \in 1..(Len(a) + 1) : c[i] = c[j] => i = j
  BY <1>1, <1>2, <1>3 DEF IsInjective
<1> QED
  BY <1>1, <1>4 DEF IsInjective, c

-----------------------------------------------------------------------------
(* The loops of the readers.                                               *)

\* Only keeps the elements that are in the set.
LEMMA OnlyFacts ==
  ASSUME NEW S, NEW seq \in Seq(S), NEW T
  PROVE  Only(seq, T) \in Seq(S) /\ Range(Only(seq, T)) = Range(seq) \cap T
<1> DEFINE N == Len(seq)
           Q == Seq(S)
           Step(g) == [n \in 0..N |-> IF n = 0 THEN << >>
                                      ELSE IF seq[n] \in T THEN Append(g[n - 1], seq[n]) ELSE g[n - 1]]
           kept == CHOOSE g : g = Step(g)
           F == [n \in 1..N |-> [sofar \in Q |-> IF seq[n] \in T THEN Append(sofar, seq[n]) ELSE sofar]]
           base == << >>
<1>1. Only(seq, T) = kept[N]
  BY DEF Only
<1>2. N \in Nat /\ \A n \in 1..N : seq[n] \in S
  OBVIOUS
<1>3. \A sofar \in Q : \A n \in 1..N : Append(sofar, seq[n]) \in Q
  BY <1>2, AppendFacts
<1>4. base \in Q
  OBVIOUS
<1>5. F \in [1..N -> [Q -> Q]]
  <2> HIDE DEF Q
  <2> QED
    BY <1>3
<1>6. \E h : IsLoop(h, Q, base, N, F)
  <2> HIDE DEF F, N, Q, base
  <2> QED
    BY <1>2, <1>4, <1>5, LoopRuns
<1>7. PICK h : h \in [0..N -> Q] /\ h[0] = base /\ \A n \in 1..N : h[n] = F[n][h[n - 1]]
  <2> HIDE DEF F, N, Q, base
  <2> QED
    BY <1>6 DEF IsLoop
<1>8. h = Step(h)
  <2>1. ASSUME NEW n \in 0..N
        PROVE  h[n] = IF n = 0 THEN << >>
                      ELSE IF seq[n] \in T THEN Append(h[n - 1], seq[n]) ELSE h[n - 1]
    <3>1. CASE n = 0
      BY <1>7, <3>1
    <3>2. CASE n # 0
      <4>1. n \in 1..N /\ n - 1 \in 0..N
        BY <1>2, <3>2
      <4> HIDE DEF Q
      <4>2. h[n - 1] \in Q
        BY <1>7, <4>1
      <4>3. F[n][h[n - 1]] = IF seq[n] \in T THEN Append(h[n - 1], seq[n]) ELSE h[n - 1]
        BY <4>1, <4>2
      <4>4. h[n] = F[n][h[n - 1]]
        BY <1>7, <4>1
      <4> QED
        BY <3>2, <4>3, <4>4
    <3> QED
      BY <3>1, <3>2
  <2>2. h = [n \in 0..N |-> h[n]]
    <3> HIDE DEF Q
    <3> QED
      BY <1>7
  <2> HIDE DEF Q
  <2> QED
    BY <2>1, <2>2
<1> HIDE DEF Step
<1>9. kept = Step(kept)
  BY <1>8
<1> HIDE DEF kept
<1>10. \A n \in 0..N : kept[n] = IF n = 0 THEN << >>
                                 ELSE IF seq[n] \in T THEN Append(kept[n - 1], seq[n]) ELSE kept[n - 1]
  BY <1>9 DEF Step
<1> DEFINE Seen(n) == {seq[m] : m \in 1..n}
           good == {n \in 0..N : kept[n] \in Q /\ Range(kept[n]) = Seen(n) \cap T}
<1>11. 0 \in good
  <2>1. kept[0] = << >> /\ << >> \in Q /\ Range(<< >>) = {} /\ Seen(0) = {} /\ 0 \in 0..N
    <3>1. 0 \in 0..N
      BY <1>2
    <3>2. 1..0 = {}
      OBVIOUS
    <3> QED
      BY <1>10, <3>1, <3>2 DEF Range
  <2> QED
    BY <2>1
<1>12. ASSUME NEW n \in 1..N, n - 1 \in good PROVE n \in good
  <2>1. n \in 0..N /\ n # 0
    BY <1>2
  <2>2. kept[n - 1] \in Q /\ Range(kept[n - 1]) = Seen(n - 1) \cap T
    BY <1>12
  <2>3. Seen(n) = Seen(n - 1) \cup {seq[n]}
    <3>1. 1..n = (1..(n - 1)) \cup {n}
      BY <1>2
    <3> QED
      BY <3>1
  <2>4. CASE seq[n] \in T
    <3>1. kept[n] = Append(kept[n - 1], seq[n])
      BY <1>10, <2>1, <2>4
    <3>2. kept[n] \in Q /\ Range(kept[n]) = Range(kept[n - 1]) \cup {seq[n]}
      BY <1>2, <2>2, <3>1, AppendFacts
    <3> QED
      BY <2>1, <2>2, <2>3, <2>4, <3>2
  <2>5. CASE seq[n] \notin T
    <3>1. kept[n] = kept[n - 1]
      BY <1>10, <2>1, <2>5
    <3> QED
      BY <2>1, <2>2, <2>3, <2>5, <3>1
  <2> QED
    BY <2>4, <2>5
<1>13. \A n \in 0..N : n \in good
  <2>1. \A n \in 1..N : n - 1 \in good => n \in good
    BY <1>12
  <2> HIDE DEF good, N
  <2> QED
    BY <1>2, <1>11, <2>1, Induct
<1>14. kept[N] \in Q /\ Range(kept[N]) = Seen(N) \cap T
  <2>1. N \in 0..N
    BY <1>2
  <2> QED
    BY <1>13, <2>1
<1>15. Seen(N) = Range(seq)
  BY DEF Range
<1> QED
  BY <1>1, <1>14, <1>15

\* KnownEdges keeps every edge between two tasks, once.
LEMMA KnownEdgesFacts ==
  ASSUME NEW S, edges \in Seq(S)
  PROVE  /\ KnownEdges \in Seq(S) /\ IsInjective(KnownEdges)
         /\ Range(KnownEdges) = Range(edges) \cap (TaskIds \X TaskIds)
<1> DEFINE N == Len(edges)
           Q == Seq(S)
           T == TaskIds \X TaskIds
           Step(g) == [n \in 0..N |->
             IF n = 0 THEN << >>
             ELSE IF edges[n] \in T \ Range(g[n - 1]) THEN Append(g[n - 1], edges[n])
             ELSE g[n - 1]]
           out == CHOOSE g : g = Step(g)
           More(sofar, n) == IF edges[n] \in T \ Range(sofar) THEN Append(sofar, edges[n]) ELSE sofar
           F == [n \in 1..N |-> [sofar \in Q |-> More(sofar, n)]]
           base == << >>
<1>1. KnownEdges = out[N]
  BY DEF KnownEdges
<1>2. N \in Nat /\ \A n \in 1..N : edges[n] \in S
  OBVIOUS
<1> HIDE DEF T
<1>3. \A sofar \in Q : \A n \in 1..N : More(sofar, n) \in Q
  BY <1>2, AppendFacts
<1>4. base \in Q
  OBVIOUS
<1>5. F \in [1..N -> [Q -> Q]]
  <2> HIDE DEF Q, More
  <2> QED
    BY <1>3
<1>6. \E h : IsLoop(h, Q, base, N, F)
  <2> HIDE DEF F, N, Q, base
  <2> QED
    BY <1>2, <1>4, <1>5, LoopRuns
<1>7. PICK h : h \in [0..N -> Q] /\ h[0] = base /\ \A n \in 1..N : h[n] = F[n][h[n - 1]]
  <2> HIDE DEF F, N, Q, base
  <2> QED
    BY <1>6 DEF IsLoop
<1>8. h = Step(h)
  <2>1. ASSUME NEW n \in 0..N
        PROVE  h[n] = IF n = 0 THEN << >>
                      ELSE IF edges[n] \in T \ Range(h[n - 1]) THEN Append(h[n - 1], edges[n])
                      ELSE h[n - 1]
    <3>1. CASE n = 0
      BY <1>7, <3>1
    <3>2. CASE n # 0
      <4>1. n \in 1..N /\ n - 1 \in 0..N
        BY <1>2, <3>2
      <4> HIDE DEF Q
      <4>2. h[n - 1] \in Q
        BY <1>7, <4>1
      <4>3. F[n][h[n - 1]] = More(h[n - 1], n)
        <5> HIDE DEF More
        <5> QED
          BY <4>1, <4>2
      <4>4. h[n] = F[n][h[n - 1]]
        BY <1>7, <4>1
      <4> QED
        BY <3>2, <4>3, <4>4
    <3> QED
      BY <3>1, <3>2
  <2>2. h = [n \in 0..N |-> h[n]]
    <3> HIDE DEF Q
    <3> QED
      BY <1>7
  <2> HIDE DEF Q
  <2> QED
    BY <2>1, <2>2
<1>9. out = CHOOSE g : g = Step(g)
  BY DEF T
<1> HIDE DEF Step, out
<1>10. out = Step(out)
  BY <1>8, <1>9
<1>11. \A n \in 0..N : out[n] = IF n = 0 THEN << >>
                                ELSE IF edges[n] \in T \ Range(out[n - 1]) THEN Append(out[n - 1], edges[n])
                                ELSE out[n - 1]
  BY <1>10 DEF Step
<1> DEFINE Met(n) == {edges[m] : m \in 1..n}
           good == {n \in 0..N : out[n] \in Q /\ IsInjective(out[n]) /\ Range(out[n]) = Met(n) \cap T}
<1>12. 0 \in good
  <2>1. 0 \in 0..N /\ Met(0) = {}
    <3>1. 1..0 = {}
      OBVIOUS
    <3> QED
      BY <1>2, <3>1
  <2>2. out[0] = << >>
    BY <1>11, <2>1
  <2>3. << >> \in Q /\ Range(<< >>) = {} /\ IsInjective(<< >>)
    BY DEF Range, IsInjective
  <2> QED
    BY <2>1, <2>2, <2>3
<1>13. ASSUME NEW n \in 1..N, n - 1 \in good PROVE n \in good
  <2>1. n \in 0..N /\ n # 0
    BY <1>2
  <2>2. out[n - 1] \in Q /\ IsInjective(out[n - 1]) /\ Range(out[n - 1]) = Met(n - 1) \cap T
    BY <1>13
  <2>3. Met(n) = Met(n - 1) \cup {edges[n]}
    <3>1. 1..n = (1..(n - 1)) \cup {n}
      BY <1>2
    <3> QED
      BY <3>1
  <2>4. CASE edges[n] \in T \ Range(out[n - 1])
    <3>1. out[n] = Append(out[n - 1], edges[n])
      BY <1>11, <2>1, <2>4
    <3>2. out[n] \in Q /\ Range(out[n]) = Range(out[n - 1]) \cup {edges[n]}
      BY <1>2, <2>2, <3>1, AppendFacts
    <3>3. IsInjective(out[n])
      BY <1>2, <2>2, <2>4, <3>1, InjectiveAppend
    <3> QED
      BY <2>1, <2>2, <2>3, <2>4, <3>2, <3>3
  <2>5. CASE edges[n] \notin T \ Range(out[n - 1])
    <3>1. out[n] = out[n - 1]
      BY <1>11, <2>1, <2>5
    <3> QED
      BY <2>1, <2>2, <2>3, <2>5, <3>1
  <2> QED
    BY <2>4, <2>5
<1>14. \A n \in 0..N : n \in good
  <2>1. \A n \in 1..N : n - 1 \in good => n \in good
    BY <1>13
  <2> HIDE DEF good, N
  <2> QED
    BY <1>2, <1>12, <2>1, Induct
<1>15. out[N] \in Q /\ IsInjective(out[N]) /\ Range(out[N]) = Met(N) \cap T
  <2>1. N \in 0..N
    BY <1>2
  <2> QED
    BY <1>14, <2>1
<1>16. Met(N) = Range(edges)
  BY DEF Range
<1> QED
  BY <1>1, <1>9, <1>15, <1>16 DEF T, out, Step

\* Where the known edges into a task begin.
Starts(known, id) == {e[1] : e \in {e \in Range(known) : e[2] = id}}

\* The predecessors of a task are the ends the known edges into it begin at.
LEMMA PredecessorsFacts ==
  ASSUME NEW S, NEW known \in Seq(S \X S), NEW id
  PROVE  /\ Predecessors(known, id) \in Seq(S)
         /\ Range(Predecessors(known, id)) = Starts(known, id)
<1> DEFINE Into == {e \in Range(known) : e[2] = id}
           into == Only(known, Into)
           P == S \X S
<1>1. into \in Seq(P) /\ Range(into) = Range(known) \cap Into
  <2> HIDE DEF P, Into
  <2>1. known \in Seq(P)
    BY DEF P
  <2> QED
    BY <2>1, OnlyFacts
<1>2. Predecessors(known, id) = [i \in DOMAIN into |-> into[i][1]]
  BY DEF Predecessors
<1> HIDE DEF into
<1>3. DOMAIN into = 1..Len(into) /\ Len(into) \in Nat /\ \A i \in 1..Len(into) : into[i] \in P
  <2> HIDE DEF P
  <2> QED
    BY <1>1
<1>4. \A i \in 1..Len(into) : into[i][1] \in S
  BY <1>3
<1> DEFINE pre == [i \in 1..Len(into) |-> into[i][1]]
<1>5. pre \in Seq(S)
  BY <1>3, <1>4
<1>6. Range(pre) = {e[1] : e \in Range(into)}
  BY <1>3 DEF Range
<1>7. Range(into) = Into
  BY <1>1
<1> QED
  BY <1>2, <1>3, <1>5, <1>6, <1>7 DEF Starts

\* Pairs are the two sides combined.
LEMMA PairsFacts ==
  ASSUME NEW S, NEW a \in Seq(S), NEW b \in Seq(S)
  PROVE  Pairs(a, b) \in Seq(S \X S) /\ Range(Pairs(a, b)) = Range(a) \X Range(b)
<1> DEFINE P == S \X S
           row(i) == [j \in DOMAIN b |-> <<a[i], b[j]>>]
           rows == [i \in DOMAIN a |-> row(i)]
<1>1. /\ DOMAIN a = 1..Len(a) /\ Len(a) \in Nat /\ \A i \in 1..Len(a) : a[i] \in S
  OBVIOUS
<1>2. /\ DOMAIN b = 1..Len(b) /\ Len(b) \in Nat /\ \A i \in 1..Len(b) : b[i] \in S
  OBVIOUS
<1>3. ASSUME NEW i \in 1..Len(a)
      PROVE  row(i) \in Seq(P) /\ Range(row(i)) = {<<a[i], y>> : y \in Range(b)}
  <2>1. \A j \in 1..Len(b) : <<a[i], b[j]>> \in P
    BY <1>1, <1>2
  <2>2. row(i) \in Seq(P)
    <3> HIDE DEF P
    <3> QED
      BY <1>2, <2>1
  <2> QED
    BY <2>2 DEF Range
<1>4. rows \in Seq(Seq(P)) /\ Len(rows) = Len(a) /\ \A i \in 1..Len(a) : rows[i] = row(i)
  <2> HIDE DEF P
  <2>1. \A i \in 1..Len(a) : row(i) \in Seq(P)
    BY <1>3
  <2> HIDE DEF row
  <2> QED
    BY <1>1, <2>1
<1>5. Pairs(a, b) = FlattenSeq(rows)
  BY DEF Pairs
<1> HIDE DEF P, rows
<1>6. FlattenSeq(rows) \in Seq(P) /\ Range(FlattenSeq(rows)) = UNION {Range(rows[i]) : i \in 1..Len(rows)}
  BY <1>4, FlattenFacts
<1> DEFINE Row(i) == {<<a[i], y>> : y \in Range(b)}
<1>7. UNION {Range(rows[i]) : i \in 1..Len(rows)} = UNION {Row(i) : i \in 1..Len(a)}
  <2>1. \A i \in 1..Len(a) : Range(rows[i]) = Row(i)
    BY <1>3, <1>4
  <2> HIDE DEF Row, row
  <2> QED
    BY <1>4, <2>1
<1>8. UNION {Row(i) : i \in 1..Len(a)} = Range(a) \X Range(b)
  BY <1>1 DEF Range
<1> QED
  BY <1>5, <1>6, <1>7, <1>8 DEF P

\* Backwards turns every pair round.
LEMMA BackwardsFacts ==
  ASSUME NEW S, NEW pairs \in Seq(S \X S)
  PROVE  /\ Backwards(pairs) \in Seq(S \X S)
         /\ Range(Backwards(pairs)) = {<<e[2], e[1]>> : e \in Range(pairs)}
<1> DEFINE P == S \X S
<1>1. DOMAIN pairs = 1..Len(pairs) /\ Len(pairs) \in Nat /\ \A i \in 1..Len(pairs) : pairs[i] \in P
  <2> HIDE DEF P
  <2>1. pairs \in Seq(P)
    BY DEF P
  <2> QED
    BY <2>1
<1>2. \A i \in 1..Len(pairs) : <<pairs[i][2], pairs[i][1]>> \in P
  BY <1>1
<1>3. Backwards(pairs) = [i \in 1..Len(pairs) |-> <<pairs[i][2], pairs[i][1]>>]
  BY <1>1 DEF Backwards
<1>4. Backwards(pairs) \in Seq(P)
  <2> HIDE DEF P
  <2> QED
    BY <1>1, <1>2, <1>3
<1>5. Range(Backwards(pairs)) = {<<e[2], e[1]>> : e \in Range(pairs)}
  BY <1>1, <1>3 DEF Range
<1> QED
  BY <1>4, <1>5

-----------------------------------------------------------------------------
(* The tasks of a DAG and the edges of its chains.                         *)

\* The ids the calls of the file give their tasks.
Given == {file.calls[i].task_id : i \in DOMAIN file.calls} \ {Nothing}

\* What is known of the file at hand.
LEMMA FileFacts ==
  ASSUME file \in Files
  PROVE  /\ file.suffix \in {".json", ".py", "other"}
         /\ file.nodes \in Seq(AdfNode) /\ file.pipelines \in Seq(Seq(DOMAIN file.nodes))
         /\ \A i \in DOMAIN file.nodes : file.nodes[i].nested \in Seq(Seq(DOMAIN file.nodes))
         /\ ListedOnce(file)
         /\ file.calls \in Seq(Call) /\ file.chains \in Seq(Chain)
         /\ \A i \in DOMAIN file.chains :
              /\ Len(file.chains[i].operands) = Len(file.chains[i].ops) + 1
              /\ (\A j \in DOMAIN file.chains[i].ops : file.chains[i].ops[j] \in {">>", "<<"})
                 \/ (Len(file.chains[i].ops) = 1 /\ Len(file.chains[i].operands[1]) <= 1)
BY ReadersAssumption

\* The calls of a file, and the ids among them.
LEMMA CallFacts ==
  ASSUME file \in Files
  PROVE  /\ DOMAIN file.calls = 1..Len(file.calls) /\ Len(file.calls) \in Nat
         /\ \A i \in DOMAIN file.calls : file.calls[i] \in Call
         /\ Given \subseteq Ids
<1>1. file.calls \in Seq(Call)
  BY FileFacts
<1>2. DOMAIN file.calls = 1..Len(file.calls) /\ Len(file.calls) \in Nat
      /\ \A i \in DOMAIN file.calls : file.calls[i] \in Call
  <2> DEFINE c == file.calls
             R == Call
  <2>1. c \in Seq(R)
    BY <1>1
  <2> HIDE DEF c, R
  <2>2. DOMAIN c = 1..Len(c) /\ Len(c) \in Nat /\ \A i \in DOMAIN c : c[i] \in R
    BY <2>1
  <2> QED
    BY <2>2 DEF c, R
<1>3. \A i \in DOMAIN file.calls : file.calls[i].task_id \in Ids \cup {Nothing}
  BY <1>2 DEF Call
<1> QED
  BY <1>2, <1>3 DEF Given

\* A variable that was assigned stands for a task of the file.
LEMMA TaskOfFacts ==
  ASSUME file \in Files, NEW v, Assigned(v) # {}
  PROVE  TaskOf(v) \in Given
<1> DEFINE N == Len(file.calls)
           back == {N - i : i \in Assigned(v)}
<1>1. N \in Nat /\ Assigned(v) \subseteq 1..N /\ Assigned(v) \subseteq DOMAIN file.calls
  BY CallFacts DEF Assigned
<1>2. \E n \in back : \A m \in back : n <= m
  <2>1. back \in SUBSET Nat
    BY <1>1
  <2>2. back # {}
    OBVIOUS
  <2> HIDE DEF back
  <2> QED
    BY <2>1, <2>2, LeastOf
<1>3. \E i \in Assigned(v) : \A j \in Assigned(v) : j <= i
  <2>1. PICK i \in Assigned(v) : \A m \in back : N - i <= m
    BY <1>2
  <2>2. \A j \in Assigned(v) : N - i <= N - j
    BY <2>1
  <2>3. \A j \in Assigned(v) : j <= i
    BY <1>1, <2>2
  <2> QED
    BY <2>3
<1> DEFINE last == CHOOSE i \in Assigned(v) : \A j \in Assigned(v) : j <= i
<1>4. last \in Assigned(v)
  BY <1>3
<1>5. TaskOf(v) = file.calls[last].task_id
  BY DEF TaskOf
<1> HIDE DEF last
<1> QED
  BY <1>1, <1>4, <1>5 DEF Assigned, Given

\* An operand stands for tasks of the file.
LEMMA TasksOfFacts ==
  ASSUME file \in Files, NEW operand \in Seq(Vars)
  PROVE  TasksOf(operand) \in Seq(Given)
<1> DEFINE K == {v \in Vars : Assigned(v) # {}}
           known == Only(operand, K)
<1>1. known \in Seq(Vars) /\ Range(known) = Range(operand) \cap K
  <2> HIDE DEF K
  <2> QED
    BY OnlyFacts
<1>2. TasksOf(operand) = [i \in DOMAIN known |-> TaskOf(known[i])]
  BY DEF TasksOf
<1> HIDE DEF known
<1>3. DOMAIN known = 1..Len(known) /\ Len(known) \in Nat
  BY <1>1
<1>4. \A i \in 1..Len(known) : known[i] \in K
  BY <1>1, <1>3 DEF Range
<1>5. \A i \in 1..Len(known) : TaskOf(known[i]) \in Given
  BY <1>4, TaskOfFacts
<1> QED
  BY <1>2, <1>3, <1>5

\* A chain of the file: what it is made of.
Fits(chain) ==
  /\ chain.operands \in Seq(Seq(Vars)) /\ chain.ops \in Seq({">>", "<<", "set_downstream", "set_upstream"})
  /\ Len(chain.operands) = Len(chain.ops) + 1

\* The chains of a file.
LEMMA ChainFacts ==
  ASSUME file \in Files
  PROVE  /\ DOMAIN file.chains = 1..Len(file.chains) /\ Len(file.chains) \in Nat
         /\ \A i \in DOMAIN file.chains : Fits(file.chains[i])
<1>1. file.chains \in Seq(Chain)
  BY FileFacts
<1>2. DOMAIN file.chains = 1..Len(file.chains) /\ Len(file.chains) \in Nat
      /\ \A i \in DOMAIN file.chains : file.chains[i] \in Chain
  <2> DEFINE c == file.chains
             R == Chain
  <2>1. c \in Seq(R)
    BY <1>1
  <2> HIDE DEF c, R
  <2>2. DOMAIN c = 1..Len(c) /\ Len(c) \in Nat /\ \A i \in DOMAIN c : c[i] \in R
    BY <2>1
  <2> QED
    BY <2>2 DEF c, R
<1>3. \A i \in DOMAIN file.chains : Len(file.chains[i].operands) = Len(file.chains[i].ops) + 1
  BY FileFacts
<1>4. \A c \in Chain : c.operands \in Seq(Seq(Vars)) /\ c.ops \in Seq({">>", "<<", "set_downstream", "set_upstream"})
  <2> DEFINE A == Seq(Seq(Vars))
             B == Seq({">>", "<<", "set_downstream", "set_upstream"})
  <2>1. Chain = [operands : A, ops : B]
    BY DEF Chain
  <2> HIDE DEF A, B
  <2>2. \A c \in Chain : c.operands \in A /\ c.ops \in B
    BY <2>1
  <2> QED
    BY <2>2 DEF A, B
<1> QED
  BY <1>2, <1>3, <1>4 DEF Fits

\* A chain has one operand more than operators, and each stands for tasks.
LEMMA OperandFacts ==
  ASSUME file \in Files, NEW chain, Fits(chain)
  PROVE  /\ Len(chain.ops) \in Nat /\ DOMAIN chain.ops = 1..Len(chain.ops)
         /\ Len(chain.operands) = Len(chain.ops) + 1
         /\ \A n \in 1..Len(chain.operands) : TasksOf(chain.operands[n]) \in Seq(Given)
<1> DEFINE A == Seq(Vars)
           o == chain.operands
<1>1. o \in Seq(A)
  BY DEF Fits
<1>2. Len(chain.ops) \in Nat /\ DOMAIN chain.ops = 1..Len(chain.ops) /\ Len(o) = Len(chain.ops) + 1
  BY DEF Fits
<1>3. \A n \in 1..Len(o) : o[n] \in A
  <2> HIDE DEF A, o
  <2> QED
    BY <1>1
<1>4. \A n \in 1..Len(o) : TasksOf(o[n]) \in Seq(Given)
  BY <1>3, TasksOfFacts
<1> QED
  BY <1>2, <1>4

\* What a chain stands for as an operand is made of tasks of the file.
LEMMA TargetsFacts ==
  ASSUME file \in Files, NEW chain, Fits(chain), NEW n \in 1..Len(chain.operands)
  PROVE  /\ Targets(chain)[n] \in Seq(Given)
         /\ n = 1 \/ chain.ops[n - 1] # "<<" => Targets(chain)[n] = TasksOf(chain.operands[n])
<1> DEFINE N == Len(chain.operands)
           Q == Seq(Given)
           here(k) == TasksOf(chain.operands[k])
           first(k) == k = 1 \/ chain.ops[k - 1] # "<<"
           Step(g) == [k \in 1..N |-> IF first(k) THEN here(k) ELSE g[k - 1]]
           of == CHOOSE g : g = Step(g)
           F == [k \in 1..N |-> [sofar \in Q |-> IF first(k) THEN here(k) ELSE sofar]]
           base == << >>
<1>1. Targets(chain) = of
  BY DEF Targets
<1>2. N \in Nat /\ \A k \in 1..N : here(k) \in Q
  BY OperandFacts
<1>3. base \in Q
  OBVIOUS
<1>4. F \in [1..N -> [Q -> Q]]
  <2> HIDE DEF Q, first, here
  <2> QED
    BY <1>2
<1>5. \E h : IsLoop(h, Q, base, N, F)
  <2> HIDE DEF F, N, Q, base
  <2> QED
    BY <1>2, <1>3, <1>4, LoopRuns
<1>6. PICK h : h \in [0..N -> Q] /\ h[0] = base /\ \A k \in 1..N : h[k] = F[k][h[k - 1]]
  <2> HIDE DEF F, N, Q, base
  <2> QED
    BY <1>5 DEF IsLoop
<1> DEFINE k0 == [k \in 1..N |-> h[k]]
<1>7. k0 = Step(k0)
  <2>1. ASSUME NEW k \in 1..N
        PROVE  k0[k] = IF first(k) THEN here(k) ELSE k0[k - 1]
    <3>1. k - 1 \in 0..N
      BY <1>2
    <3>2. h[k - 1] \in Q
      <4> HIDE DEF Q, F
      <4> QED
        BY <1>6, <3>1
    <3>3. h[k] = IF first(k) THEN here(k) ELSE h[k - 1]
      <4>1. F[k][h[k - 1]] = IF first(k) THEN here(k) ELSE h[k - 1]
        <5> HIDE DEF Q, first, here
        <5> QED
          BY <3>2
      <4> QED
        BY <1>6, <4>1
    <3>4. ~ first(k) => k - 1 \in 1..N
      BY <1>2
    <3> HIDE DEF first, here
    <3> QED
      BY <3>3, <3>4
  <2>2. k0 = [k \in 1..N |-> k0[k]]
    OBVIOUS
  <2> HIDE DEF k0, first, here
  <2> QED
    BY <2>1, <2>2
<1> HIDE DEF Step
<1>8. of = Step(of)
  BY <1>7
<1> HIDE DEF of
<1>9. \A k \in 1..N : of[k] = IF first(k) THEN here(k) ELSE of[k - 1]
  BY <1>8 DEF Step
<1> DEFINE good == {0} \cup {k \in 1..N : of[k] \in Q}
<1>10. ASSUME NEW k \in 1..N, k - 1 \in good PROVE k \in good
  <2>1. CASE first(k)
    BY <1>2, <1>9, <2>1
  <2>2. CASE ~ first(k)
    <3>1. k - 1 # 0
      BY <1>2, <2>2
    <3>2. of[k - 1] \in Q
      BY <1>10, <3>1
    <3> QED
      BY <1>9, <2>2, <3>2
  <2> QED
    BY <2>1, <2>2
<1>11. \A k \in 0..N : k \in good
  <2>1. 0 \in good
    OBVIOUS
  <2>2. \A k \in 1..N : k - 1 \in good => k \in good
    BY <1>10
  <2> HIDE DEF good, N
  <2> QED
    BY <1>2, <2>1, <2>2, Induct
<1>12. n \in 0..N /\ n # 0
  BY <1>2
<1>13. of[n] \in Q
  BY <1>11, <1>12
<1> QED
  BY <1>1, <1>9, <1>13

\* The edges of one operator are between tasks of the file.
LEMMA EdgesOfFacts ==
  ASSUME file \in Files, NEW chain, Fits(chain), NEW n \in DOMAIN chain.ops
  PROVE  /\ EdgesOf(chain, n) \in Seq(Given \X Given)
         /\ Range(EdgesOf(chain, n)) =
              LET here == Range(Targets(chain)[n])
                  there == Range(TasksOf(chain.operands[n + 1]))
              IN  IF chain.ops[n] \in {">>", "set_downstream"} THEN here \X there ELSE there \X here
<1> DEFINE a == Targets(chain)[n]
           b == TasksOf(chain.operands[n + 1])
<1>1. n \in 1..Len(chain.operands) /\ n + 1 \in 1..Len(chain.operands)
  BY OperandFacts
<1>2. a \in Seq(Given) /\ b \in Seq(Given)
  BY <1>1, OperandFacts, TargetsFacts
<1>3. EdgesOf(chain, n) = IF chain.ops[n] \in {">>", "set_downstream"} THEN Pairs(a, b) ELSE Backwards(Pairs(a, b))
  BY DEF EdgesOf
<1> HIDE DEF a, b
<1>4. Pairs(a, b) \in Seq(Given \X Given) /\ Range(Pairs(a, b)) = Range(a) \X Range(b)
  BY <1>2, PairsFacts
<1>5. /\ Backwards(Pairs(a, b)) \in Seq(Given \X Given)
      /\ Range(Backwards(Pairs(a, b))) = {<<e[2], e[1]>> : e \in Range(Pairs(a, b))}
  BY <1>4, BackwardsFacts
<1>6. {<<e[2], e[1]>> : e \in Range(a) \X Range(b)} = Range(b) \X Range(a)
  <2> DEFINE A == Range(a)
             B == Range(b)
  <2> HIDE DEF A, B
  <2>1. ASSUME NEW z \in B \X A PROVE z \in {<<e[2], e[1]>> : e \in A \X B}
    <3>1. <<z[2], z[1]>> \in A \X B /\ z = <<<<z[2], z[1]>>[2], <<z[2], z[1]>>[1]>>
      BY <2>1
    <3> QED
      BY <3>1
  <2>2. {<<e[2], e[1]>> : e \in A \X B} = B \X A
    BY <2>1
  <2> QED
    BY <2>2 DEF A, B
<1> QED
  BY <1>3, <1>4, <1>5, <1>6 DEF a, b

\* A level of the walk collects the edges of one operator of every chain that has one.
Level == FlattenSeq([i \in DOMAIN file.chains |->
                      LET c == file.chains[i]
                      IN  IF Len(c.ops) >= at THEN EdgesOf(c, Len(c.ops) + 1 - at) ELSE << >>])

\* What a level collects is the edges of those operators, all of them.
LEMMA LevelFacts ==
  ASSUME file \in Files, at \in Nat \ {0}
  PROVE  /\ Level \in Seq(Given \X Given)
         /\ Range(Level) = UNION {IF Len(file.chains[i].ops) >= at
                                   THEN Range(EdgesOf(file.chains[i], Len(file.chains[i].ops) + 1 - at)) ELSE {}
                                   : i \in DOMAIN file.chains}
<1> DEFINE P == Given \X Given
           N == Len(file.chains)
           row(i) == IF Len(file.chains[i].ops) >= at
                     THEN EdgesOf(file.chains[i], Len(file.chains[i].ops) + 1 - at) ELSE << >>
           Row(i) == IF Len(file.chains[i].ops) >= at
                     THEN Range(EdgesOf(file.chains[i], Len(file.chains[i].ops) + 1 - at)) ELSE {}
           rows == [i \in 1..N |-> row(i)]
<1>1. DOMAIN file.chains = 1..N /\ N \in Nat /\ \A i \in 1..N : Fits(file.chains[i])
  BY ChainFacts
<1>2. ASSUME NEW i \in 1..N PROVE row(i) \in Seq(P) /\ Range(row(i)) = Row(i)
  <2>1. CASE Len(file.chains[i].ops) >= at
    <3>1. Len(file.chains[i].ops) + 1 - at \in DOMAIN file.chains[i].ops
      <4>1. Len(file.chains[i].ops) \in Nat /\ DOMAIN file.chains[i].ops = 1..Len(file.chains[i].ops)
        BY <1>1, OperandFacts
      <4>2. Len(file.chains[i].ops) + 1 - at \in 1..Len(file.chains[i].ops)
        BY <2>1, <4>1
      <4> QED
        BY <4>1, <4>2
    <3>2. EdgesOf(file.chains[i], Len(file.chains[i].ops) + 1 - at) \in Seq(P)
      BY <1>1, <3>1, EdgesOfFacts
    <3> QED
      BY <2>1, <3>2
  <2>2. CASE ~ (Len(file.chains[i].ops) >= at)
    <3>1. << >> \in Seq(P) /\ Range(<< >>) = {}
      BY DEF Range
    <3>2. row(i) = << >> /\ Row(i) = {}
      BY <2>2
    <3> HIDE DEF row, Row, P
    <3> QED
      BY <3>1, <3>2
  <2> QED
    BY <2>1, <2>2
<1>3. Level = FlattenSeq(rows)
  BY <1>1 DEF Level
<1> HIDE DEF row, Row, P
<1>4. rows \in Seq(Seq(P)) /\ Len(rows) = N /\ \A i \in 1..N : rows[i] = row(i)
  <2>1. \A i \in 1..N : row(i) \in Seq(P)
    BY <1>2
  <2> HIDE DEF N
  <2> QED
    BY <1>1, <2>1
<1> HIDE DEF rows
<1>5. FlattenSeq(rows) \in Seq(P) /\ Range(FlattenSeq(rows)) = UNION {Range(rows[i]) : i \in 1..Len(rows)}
  BY <1>4, FlattenFacts
<1>6. UNION {Range(rows[i]) : i \in 1..Len(rows)} = UNION {Row(i) : i \in 1..N}
  BY <1>2, <1>4
<1>7. Level \in Seq(P) /\ Range(Level) = UNION {Row(i) : i \in 1..N}
  BY <1>3, <1>5, <1>6
<1> QED
  BY <1>1, <1>7 DEF P, Row

-----------------------------------------------------------------------------
(* The tree of a pipeline.                                                 *)

\* The nodes of a file, and what is nested in them.
LEMMA NodeFacts ==
  ASSUME file \in Files
  PROVE  /\ DOMAIN file.nodes = 1..Len(file.nodes) /\ Len(file.nodes) \in Nat
         /\ \A i \in DOMAIN file.nodes :
              /\ file.nodes[i] \in AdfNode
              /\ Descend(file.nodes[i]) \in Seq(DOMAIN file.nodes)
              /\ Kids(i) \subseteq DOMAIN file.nodes
         /\ DOMAIN file.pipelines = 1..Len(file.pipelines) /\ Len(file.pipelines) \in Nat
         /\ \A p \in DOMAIN file.pipelines :
              /\ file.pipelines[p] \in Seq(DOMAIN file.nodes)
              /\ Range(file.pipelines[p]) \subseteq DOMAIN file.nodes
<1> DEFINE c == file.nodes
           R == AdfNode
           D == DOMAIN file.nodes
           Q == Seq(D)
           ps == file.pipelines
<1>1. c \in Seq(R) /\ ps \in Seq(Q) /\ \A i \in D : c[i].nested \in Seq(Q)
  BY FileFacts
<1>2. DOMAIN c = 1..Len(c) /\ Len(c) \in Nat /\ \A i \in DOMAIN c : c[i] \in R
  <2> HIDE DEF c, R
  <2> QED
    BY <1>1
<1>3. DOMAIN ps = 1..Len(ps) /\ Len(ps) \in Nat /\ \A i \in DOMAIN ps : ps[i] \in Q
  <2> HIDE DEF ps, Q
  <2> QED
    BY <1>1
<1>4. \A i \in D : Descend(c[i]) \in Q
  BY <1>1, FlattenFacts DEF Descend
<1>5. \A i \in D : Kids(i) \subseteq D
  BY <1>4, RangeFacts DEF Kids
<1>6. \A p \in DOMAIN ps : Range(ps[p]) \subseteq D
  <2> HIDE DEF D
  <2> QED
    BY <1>3, RangeFacts
<1> QED
  BY <1>2, <1>3, <1>4, <1>5, <1>6

\* Under(tops) is the least set of nodes that has tops and what is nested in its nodes.
LEMMA UnderFacts ==
  ASSUME file \in Files, NEW tops \in SUBSET DOMAIN file.nodes
  PROVE  /\ tops \subseteq Under(tops) /\ Under(tops) \subseteq DOMAIN file.nodes
         /\ \A j \in Under(tops) : Kids(j) \subseteq Under(tops)
         /\ \A S \in SUBSET DOMAIN file.nodes :
              tops \subseteq S /\ (\A j \in S : Kids(j) \subseteq S) => Under(tops) \subseteq S
<1>1. \A S \in SUBSET DOMAIN file.nodes :
        tops \subseteq S /\ (\A j \in S : Kids(j) \subseteq S) => Under(tops) \subseteq S
  BY DEF Under
<1>2. tops \subseteq Under(tops) /\ Under(tops) \subseteq DOMAIN file.nodes
  BY DEF Under
<1>3. ASSUME NEW j \in Under(tops), NEW i \in Kids(j) PROVE i \in Under(tops)
  <2>1. i \in DOMAIN file.nodes
    BY <1>2, NodeFacts
  <2>2. ASSUME NEW S \in SUBSET DOMAIN file.nodes, tops \subseteq S, \A k \in S : Kids(k) \subseteq S PROVE i \in S
    <3>1. j \in S
      BY <1>1, <2>2
    <3> QED
      BY <2>2, <3>1
  <2> QED
    BY <2>1, <2>2 DEF Under
<1> QED
  BY <1>1, <1>2, <1>3

\* A node no other one holds may be taken out and what is nested in it put in its place.
LEMMA UnderPop ==
  ASSUME file \in Files, NEW tops \in SUBSET DOMAIN file.nodes, NEW h \in tops,
         \A i \in Under(tops) : h \notin Kids(i)
  PROVE  Under((tops \ {h}) \cup Kids(h)) = Under(tops) \ {h}
<1> DEFINE next == (tops \ {h}) \cup Kids(h)
           D == DOMAIN file.nodes
<1>1. next \subseteq D
  BY NodeFacts
<1>2. /\ tops \subseteq Under(tops) /\ Under(tops) \subseteq D
      /\ \A j \in Under(tops) : Kids(j) \subseteq Under(tops)
  BY UnderFacts
<1>3. /\ next \subseteq Under(next) /\ Under(next) \subseteq D
      /\ \A j \in Under(next) : Kids(j) \subseteq Under(next)
  <2> HIDE DEF next
  <2> QED
    BY <1>1, UnderFacts
<1>4. Under(next) \subseteq Under(tops) \ {h}
  <2> DEFINE S == Under(tops) \ {h}
  <2>1. next \subseteq S
    BY <1>2
  <2>2. \A j \in S : Kids(j) \subseteq S
    BY <1>2
  <2>3. S \in SUBSET D
    BY <1>2
  <2> HIDE DEF S, next
  <2>4. Under(next) \subseteq S
    BY <1>1, <2>1, <2>2, <2>3, UnderFacts
  <2> QED
    BY <2>4 DEF S
<1>5. Under(tops) \subseteq Under(next) \cup {h}
  <2> DEFINE S == Under(next) \cup {h}
  <2>1. tops \subseteq S
    BY <1>3
  <2>2. \A j \in S : Kids(j) \subseteq S
    BY <1>3
  <2>3. S \in SUBSET D
    BY <1>3
  <2> HIDE DEF S
  <2>4. Under(tops) \subseteq S
    BY <2>1, <2>2, <2>3, UnderFacts
  <2> QED
    BY <2>4 DEF S
<1> QED
  BY <1>4, <1>5

\* What waits of a pipeline is listed once, and nothing of it is nested in what is left.
Waits(list) ==
  /\ IsInjective(list)
  /\ \A i \in Under(Range(list)) : Kids(i) \cap Range(list) = {}

\* The next activity of the walk is taken from the list and what it holds put first.
Opened(list) == IF file.nodes[Head(list)].is_object THEN Descend(file.nodes[Head(list)]) \o Tail(list) ELSE Tail(list)

\* The walk stays on a list that waits, and what is under the list loses its head alone.
LEMMA OpenedFacts ==
  ASSUME file \in Files, NEW list \in Seq(DOMAIN file.nodes), list # << >>, Waits(list)
  PROVE  /\ Head(list) \in DOMAIN file.nodes /\ Opened(list) \in Seq(DOMAIN file.nodes)
         /\ Waits(Opened(list))
         /\ Under(Range(Opened(list))) = Under(Range(list)) \ {Head(list)}
         /\ Head(list) \in Under(Range(list))
         /\ \A i \in Under(Range(list)) : Head(list) \notin Kids(i)
         /\ Kids(Head(list)) \subseteq Under(Range(list))
<1> DEFINE D == DOMAIN file.nodes
           h == Head(list)
           rest == Tail(list)
           inside == Descend(file.nodes[h])
           next == Opened(list)
           tops == Range(list)
<1>1. /\ h \in D /\ rest \in Seq(D) /\ tops = {h} \cup Range(rest)
      /\ IsInjective(rest) /\ h \notin Range(rest)
  <2> HIDE DEF D
  <2> QED
    BY TailFacts DEF Waits, D
<1>2. inside \in Seq(D) /\ Kids(h) \subseteq D /\ tops \subseteq D
  <2>1. tops \subseteq D
    <3> HIDE DEF D
    <3> QED
      BY RangeFacts DEF D
  <2> QED
    BY <1>1, <2>1, NodeFacts
<1>3. /\ tops \subseteq Under(tops) /\ \A j \in Under(tops) : Kids(j) \subseteq Under(tops)
  BY <1>2, UnderFacts
<1>4. \A i \in Under(tops) : Kids(i) \cap tops = {}
  BY DEF Waits
<1>5. h \in Under(tops) /\ Kids(h) \subseteq Under(tops) /\ \A i \in Under(tops) : h \notin Kids(i)
  BY <1>1, <1>3, <1>4
<1>6. /\ \A i \in D : IsInjective(Descend(file.nodes[i]))
      /\ \A i, j \in D : j # i => Range(Descend(file.nodes[j])) \cap Range(Descend(file.nodes[i])) = {}
  BY FileFacts DEF ListedOnce
<1>7. /\ next \in Seq(D) /\ IsInjective(next) /\ Range(next) = (tops \ {h}) \cup Kids(h)
  <2>1. CASE file.nodes[h].is_object
    <3>1. next = inside \o rest /\ Kids(h) = Range(inside)
      BY <2>1 DEF Opened, Kids
    <3>2. IsInjective(inside) /\ Range(inside) \cap Range(rest) = {}
      BY <1>1, <1>4, <1>5, <1>6, <3>1
    <3>3. next \in Seq(D) /\ Range(next) = Range(inside) \cup Range(rest)
      <4> HIDE DEF D, inside, rest
      <4> QED
        BY <1>1, <1>2, <3>1, ConcatFacts
    <3>4. IsInjective(next)
      <4> HIDE DEF D, inside, rest
      <4> QED
        BY <1>1, <1>2, <3>1, <3>2, InjectiveConcat
    <3> QED
      BY <1>1, <3>1, <3>3, <3>4
  <2>2. CASE ~ file.nodes[h].is_object
    <3>1. next = rest /\ Kids(h) = {}
      BY <2>2 DEF Opened, Kids
    <3> QED
      BY <1>1, <3>1
  <2> QED
    BY <2>1, <2>2
<1>8. Under(Range(next)) = Under(tops) \ {h}
  <2> HIDE DEF tops, h, next
  <2> QED
    BY <1>1, <1>2, <1>5, <1>7, UnderPop
<1>9. ASSUME NEW i \in Under(Range(next)), NEW k \in Kids(i), k \in Range(next) PROVE FALSE
  <2>1. i \in Under(tops) /\ i # h /\ i \in D
    BY <1>2, <1>8, UnderFacts
  <2>2. k \in Kids(h)
    BY <1>4, <1>7, <1>9, <2>1
  <2>3. k \in Range(Descend(file.nodes[i])) /\ k \in Range(Descend(file.nodes[h]))
    BY <1>9, <2>2 DEF Kids
  <2> QED
    BY <1>1, <1>6, <2>1, <2>3
<1>10. Waits(next)
  BY <1>7, <1>9 DEF Waits
<1> QED
  BY <1>1, <1>5, <1>7, <1>8, <1>10

\* What a pipeline begins with.
LEMMA TopsWait ==
  ASSUME file \in Files, NEW p \in DOMAIN file.pipelines
  PROVE  Waits(file.pipelines[p])
<1> DEFINE list == file.pipelines[p]
<1>1. Range(list) \subseteq DOMAIN file.nodes
  BY NodeFacts
<1>2. Under(Range(list)) \subseteq DOMAIN file.nodes
  BY <1>1, UnderFacts
<1>3. IsInjective(list) /\ \A i \in DOMAIN file.nodes : Range(list) \cap Range(Descend(file.nodes[i])) = {}
  BY FileFacts DEF ListedOnce
<1>4. \A i \in Under(Range(list)) : Kids(i) \cap Range(list) = {}
  BY <1>2, <1>3 DEF Kids
<1> QED
  BY <1>3, <1>4 DEF Waits

\* Nothing is under an empty list.
LEMMA NothingWaits ==
  ASSUME file \in Files
  PROVE  Under({}) = {}
BY UnderFacts

-----------------------------------------------------------------------------
(* The inductive invariant.                                                *)

\* What an activity, an edge and a pipeline read are made of.
Texts == SqlFields \cup {"literal", "template", "list"}
Warnings ==
  {"unsupported activity type", "not a SQL source", "no SQL text", "env cannot resolve", "no conn_id",
   "no sql= parameter", "sql template file not found", "dynamic sql= expression", "not a mssql connection"}
Activity ==
  [from : Nat, id : Ids, supported : BOOLEAN, sql : Texts \cup {Nothing}, env : EnvRefs \cup {Nothing},
   order : Nat, depends_on : Seq(Ids), warnings : SUBSET Warnings]
Edge == Ids \X Ids
Pipeline == [activities : Seq(Activity), edges : Seq(Edge)]

TypeInv ==
  /\ file \in Files
  /\ pc \in {"can_read", "pipelines", "walk", "calls", "chains", "failed", "done"}
  /\ claimed \in {"unasked", "no", "raises", "yes"}
  /\ pipeline \in Nat \ {0} /\ at \in Nat \ {0} /\ counter \in Nat
  /\ pending \in Seq(DOMAIN file.nodes)
  /\ tasks \in Seq(Activity) /\ edges \in Seq(Edge) /\ holds \in Seq(Pipeline)

\* Which reader is at work, and what it has not begun with.
PhaseInv ==
  /\ pc \in {"pipelines", "walk"} => IsAdf /\ claimed = "yes"
  /\ pc \in {"calls", "chains", "failed"} => ~IsAdf /\ claimed = "yes"
  /\ pc \in {"can_read", "pipelines"} => pending = << >> /\ tasks = << >> /\ edges = << >> /\ counter = 0
  /\ pc = "can_read" => pipeline = 1 /\ at = 1
  /\ pc = "calls" => edges = << >>
  /\ pc # "done" /\ ~IsAdf => holds = << >>
  /\ pc = "can_read" \/ (pc = "done" /\ claimed # "yes") => holds = << >>

\* An activity says of its node or call what the reader makes of it.
Built(act) ==
  IF IsAdf
  THEN /\ act.from \in Named(DOMAIN file.nodes)
       /\ act = AdfActivity(act.from, file.nodes[act.from], act.order)
  ELSE /\ act.from \in DOMAIN file.calls
       /\ file.calls[act.from].task_id # Nothing /\ file.calls[act.from].sql # "unreadable"
       /\ act = [AirflowTask(act.from, file.calls[act.from], act.order) EXCEPT !.depends_on = act.depends_on]

BuiltInv ==
  /\ \A n \in DOMAIN tasks : Built(tasks[n])
  /\ \A p \in DOMAIN holds : \A n \in DOMAIN holds[p].activities : Built(holds[p].activities[n])

\* Activities in the order of the walk, each of an object of its own.
Walked(acts) ==
  /\ \A n \in DOMAIN acts : acts[n].order = n
  /\ \A m, n \in DOMAIN acts : acts[m].from = acts[n].from => m = n
  /\ \A m, n \in DOMAIN acts : acts[m].from \in Kids(acts[n].from) => n < m
Froms(acts) == {acts[n].from : n \in DOMAIN acts}
Tops(p) == Range(file.pipelines[p])

\* The edges are the dependencies of the activities.
Joined(acts, es) ==
  Range(es) = UNION {{<<d, acts[n].id>> : d \in Range(acts[n].depends_on)} : n \in DOMAIN acts}

\* A pipeline that was read: every activity it holds, in order, and their dependencies.
Whole(hold, p) ==
  /\ Walked(hold.activities) /\ Joined(hold.activities, hold.edges)
  /\ Froms(hold.activities) = Named(Under(Tops(p)))

\* What has been visited and what is under the list still to visit are apart, and
\* together what the pipeline holds.
Split(acts, list, p) ==
  /\ Waits(list)
  /\ Froms(acts) \cup Named(Under(Range(list))) = Named(Under(Tops(p)))
  /\ Froms(acts) \cap Under(Range(list)) = {}

WalkInv ==
  IsAdf =>
    /\ Len(holds) = pipeline - 1 /\ pipeline <= Len(file.pipelines) + 1
    /\ \A p \in DOMAIN holds : Whole(holds[p], p)
    /\ Read => pipeline = Len(file.pipelines) + 1
    /\ pc = "walk" =>
         /\ pipeline <= Len(file.pipelines) /\ counter = Len(tasks)
         /\ Walked(tasks) /\ Joined(tasks, edges) /\ Split(tasks, pending, pipeline)

\* The tasks are those of the calls seen, one for each id, from the last call with it.
Met(ts, seen) ==
  /\ \A m, n \in DOMAIN ts : ts[m].id = ts[n].id => m = n
  /\ {ts[n].id : n \in DOMAIN ts} = {file.calls[i].task_id : i \in seen} \ {Nothing}
  /\ \A n \in DOMAIN ts : \A i \in seen : file.calls[i].task_id = ts[n].id => i <= ts[n].from
Seen == IF pc = "calls" THEN 1..(at - 1) ELSE DOMAIN file.calls

\* The edges of the operators above a level.
Taken(chain, level) == {n \in DOMAIN chain.ops : n > Len(chain.ops) + 1 - level}
Collected(level) ==
  UNION {UNION {Range(EdgesOf(file.chains[i], n)) : n \in Taken(file.chains[i], level)} : i \in DOMAIN file.chains}

DagInv ==
  ~IsAdf =>
    /\ pc \in {"calls", "chains"} => Met(tasks, Seen)
    /\ pc = "calls" => at <= Len(file.calls) + 1
    /\ pc = "chains" => Range(edges) = Collected(at)
    /\ Read => Len(holds) = 1
    /\ TasksAgree /\ RightChainsExact

ReadersInv == TypeInv /\ PhaseInv /\ BuiltInv /\ WalkInv /\ DagInv

\* The field an activity's text is from is one of those asked for, or none.
LEMMA FirstOfType ==
  ASSUME NEW node, NEW fields \in Seq(SqlFields)
  PROVE  FirstOf(node, fields) \in Texts \cup {Nothing}
<1> DEFINE present == Only(fields, node.fields)
<1>1. present \in Seq(SqlFields)
  BY OnlyFacts
<1>2. FirstOf(node, fields) = IF present = << >> THEN Nothing ELSE Head(present)
  BY DEF FirstOf
<1> HIDE DEF present
<1>3. present # << >> => Head(present) \in SqlFields
  <2> DEFINE F == SqlFields
  <2>1. present \in Seq(F)
    BY <1>1
  <2> HIDE DEF F
  <2>2. present # << >> => Head(present) \in F
    BY <2>1
  <2> QED
    BY <2>2 DEF F
<1> QED
  BY <1>2, <1>3 DEF Texts

\* An ADF activity is an activity, and its node names its dependencies.
LEMMA AdfActivityType ==
  ASSUME file \in Files, NEW i \in DOMAIN file.nodes, file.nodes[i].name # Nothing, NEW order \in Nat
  PROVE  /\ AdfActivity(i, file.nodes[i], order) \in Activity
         /\ file.nodes[i].depends_on \in Seq(Ids) /\ file.nodes[i].name \in Ids
<1> DEFINE node == file.nodes[i]
<1>1. node \in AdfNode /\ i \in Nat
  BY NodeFacts
<1>2. node.name \in Ids \cup {Nothing} /\ node.env \in EnvRefs \cup {Nothing} /\ node.depends_on \in Seq(Ids)
  <2> DEFINE D == Seq(Ids)
             L == Seq(Seq(Nat))
             T == {"proc", "script", "lookup", "copy", "other"}
             K == SUBSET SqlFields
  <2>1. AdfNode = [is_object : BOOLEAN, name : Ids \cup {Nothing}, type : T, fields : K, sql_source : BOOLEAN,
                   env : EnvRefs \cup {Nothing}, depends_on : D, nested : L]
    BY DEF AdfNode
  <2> HIDE DEF D, L, T, K, node
  <2>2. node.name \in Ids \cup {Nothing} /\ node.env \in EnvRefs \cup {Nothing} /\ node.depends_on \in D
    BY <1>1, <2>1
  <2> QED
    BY <2>2 DEF D
<1>3. AdfSql(node) \in Texts \cup {Nothing}
  <2>1. /\ <<"storedProcedureName">> \in Seq(SqlFields) /\ <<"scripts", "text", "query">> \in Seq(SqlFields)
        /\ <<"sqlReaderQuery", "sqlReaderStoredProcedureName">> \in Seq(SqlFields)
    BY DEF SqlFields
  <2>2. /\ FirstOf(node, <<"storedProcedureName">>) \in Texts \cup {Nothing}
        /\ FirstOf(node, <<"scripts", "text", "query">>) \in Texts \cup {Nothing}
        /\ FirstOf(node, <<"sqlReaderQuery", "sqlReaderStoredProcedureName">>) \in Texts \cup {Nothing}
    BY <2>1, FirstOfType
  <2> HIDE DEF node
  <2> QED
    BY <2>2 DEF AdfSql
<1> HIDE DEF node
<1>4. AdfWarnings(node) \in SUBSET Warnings
  BY DEF AdfWarnings, Warnings
<1>5. AdfSupported(node) \in BOOLEAN
  BY DEF AdfSupported
<1>6. node.name \in Ids
  BY <1>2 DEF node
<1>7. AdfActivity(i, node, order) \in Activity
  <2> DEFINE W == AdfWarnings(node)
             A == AdfSupported(node)
             Q == AdfSql(node)
             U == SUBSET Warnings
             X == Texts \cup {Nothing}
             D == Seq(Ids)
  <2>1. W \in U /\ A \in BOOLEAN /\ Q \in X /\ node.depends_on \in D
    BY <1>2, <1>3, <1>4, <1>5
  <2>2. /\ Activity = [from : Nat, id : Ids, supported : BOOLEAN, sql : X, env : EnvRefs \cup {Nothing},
                       order : Nat, depends_on : D, warnings : U]
        /\ AdfActivity(i, node, order) =
             [from |-> i, id |-> node.name, supported |-> A, sql |-> Q,
              env |-> node.env, order |-> order, depends_on |-> node.depends_on, warnings |-> W]
    BY DEF Activity, AdfActivity
  <2> HIDE DEF W, A, Q, U, X, D
  <2> QED
    BY <1>1, <1>2, <1>6, <2>1, <2>2
<1> QED
  BY <1>2, <1>6, <1>7 DEF node

\* So is a task of a DAG.
LEMMA AirflowTaskType ==
  ASSUME file \in Files, NEW i \in DOMAIN file.calls, file.calls[i].task_id # Nothing, NEW order \in Nat
  PROVE  AirflowTask(i, file.calls[i], order) \in Activity
<1> DEFINE call == file.calls[i]
<1>1. call \in Call /\ i \in Nat
  BY CallFacts
<1>2. call.task_id \in Ids /\ call.env \in EnvRefs \cup {Nothing}
  BY <1>1 DEF Call
<1> HIDE DEF call
<1>3. AirflowSql(call) \in Texts \cup {Nothing}
  BY DEF AirflowSql, Texts
<1>4. AirflowWarnings(call) \in SUBSET Warnings
  BY DEF AirflowWarnings, Warnings
<1>5. AirflowSupported(call) \in BOOLEAN
  BY DEF AirflowSupported
<1>6. << >> \in Seq(Ids)
  OBVIOUS
<1>7. AirflowTask(i, call, order) \in Activity
  <2> DEFINE W == AirflowWarnings(call)
             A == AirflowSupported(call)
             Q == AirflowSql(call)
             U == SUBSET Warnings
             X == Texts \cup {Nothing}
             D == Seq(Ids)
             none == << >>
  <2>1. W \in U /\ A \in BOOLEAN /\ Q \in X /\ none \in D
    BY <1>3, <1>4, <1>5, <1>6
  <2>2. /\ Activity = [from : Nat, id : Ids, supported : BOOLEAN, sql : X, env : EnvRefs \cup {Nothing},
                       order : Nat, depends_on : D, warnings : U]
        /\ AirflowTask(i, call, order) =
             [from |-> i, id |-> call.task_id, supported |-> A, sql |-> Q,
              env |-> call.env, order |-> order, depends_on |-> none, warnings |-> W]
    BY DEF Activity, AirflowTask
  <2> HIDE DEF W, A, Q, U, X, D, none
  <2> QED
    BY <1>1, <1>2, <2>1, <2>2
<1> QED
  BY <1>7 DEF call

\* A task that is there already keeps its place; the others are as they were.
LEMMA KeepKnown ==
  ASSUME NEW S, NEW seq \in Seq(S), NEW task \in S, NEW j \in 1..Len(seq), seq[j].id = task.id
  PROVE  /\ Keep(seq, task) \in Seq(S) /\ Len(Keep(seq, task)) = Len(seq)
         /\ DOMAIN Keep(seq, task) = 1..Len(seq)
         /\ \A i \in 1..Len(seq) : seq[i].id = task.id => Keep(seq, task)[i] = task
         /\ \A i \in 1..Len(seq) : seq[i].id # task.id => Keep(seq, task)[i] = seq[i]
<1> DEFINE c == [i \in 1..Len(seq) |-> IF seq[i].id = task.id THEN task ELSE seq[i]]
<1>1. DOMAIN seq = 1..Len(seq) /\ Len(seq) \in Nat /\ \A i \in 1..Len(seq) : seq[i] \in S
  OBVIOUS
<1>2. Keep(seq, task) = c
  BY <1>1 DEF Keep
<1>3. \A i \in 1..Len(seq) : (IF seq[i].id = task.id THEN task ELSE seq[i]) \in S
  BY <1>1
<1>4. c \in Seq(S) /\ Len(c) = Len(seq) /\ DOMAIN c = 1..Len(seq)
  BY <1>1, <1>3
<1>5. \A i \in 1..Len(seq) : c[i] = IF seq[i].id = task.id THEN task ELSE seq[i]
  OBVIOUS
<1> HIDE DEF c
<1> QED
  BY <1>2, <1>4, <1>5

\* A task that is not there yet is put at the end.
LEMMA KeepNew ==
  ASSUME NEW S, NEW seq \in Seq(S), NEW task, \A i \in 1..Len(seq) : seq[i].id # task.id
  PROVE  Keep(seq, task) = Append(seq, task)
<1>1. DOMAIN seq = 1..Len(seq)
  OBVIOUS
<1> QED
  BY <1>1 DEF Keep

\* An edge for every dependency of the activity.
LEMMA EdgesIntoFacts ==
  ASSUME NEW a, a.depends_on \in Seq(Ids), a.name \in Ids
  PROVE  /\ EdgesInto(a) \in Seq(Edge)
         /\ Range(EdgesInto(a)) = {<<d, a.name>> : d \in Range(a.depends_on)}
<1> DEFINE ds == a.depends_on
<1>1. DOMAIN ds = 1..Len(ds) /\ Len(ds) \in Nat /\ \A i \in 1..Len(ds) : ds[i] \in Ids
  OBVIOUS
<1>2. \A i \in 1..Len(ds) : <<ds[i], a.name>> \in Edge
  BY <1>1 DEF Edge
<1>3. EdgesInto(a) = [i \in 1..Len(ds) |-> <<ds[i], a.name>>]
  BY <1>1 DEF EdgesInto
<1>4. EdgesInto(a) \in Seq(Edge)
  <2> HIDE DEF ds
  <2>1. [i \in 1..Len(ds) |-> <<ds[i], a.name>>] \in Seq(Edge)
    BY <1>1, <1>2
  <2> QED
    BY <1>3, <2>1
<1>5. Range(EdgesInto(a)) = {<<d, a.name>> : d \in Range(ds)}
  BY <1>1, <1>3 DEF Range
<1> QED
  BY <1>4, <1>5

-----------------------------------------------------------------------------
(* What every step keeps.                                                  *)

\* A file is read once: what is said of it alone stays.
LEMMA FileKept ==
  ASSUME file' = file, NEW x
  PROVE  /\ IsAdf' = IsAdf /\ Given' = Given
         /\ Kids(x)' = Kids(x) /\ Under(x)' = Under(x) /\ Named(x)' = Named(x)
         /\ Waits(x)' = Waits(x) /\ Tops(x)' = Tops(x)
         /\ Built(x)' = Built(x) /\ Walked(x)' = Walked(x)
         /\ TasksOf(x)' = TasksOf(x) /\ Targets(x)' = Targets(x) /\ Meant(x)' = Meant(x)
<1>1. IsAdf' = IsAdf /\ Given' = Given
  BY DEF IsAdf, Given
<1>2. \A i : Kids(i)' = Kids(i)
  BY DEF Kids
<1>3. \A T : Under(T)' = Under(T)
  BY <1>2 DEF Under
<1>4. \A T : Named(T)' = Named(T)
  BY DEF Named
<1>5. \A T : Waits(T)' = Waits(T)
  BY <1>2, <1>3 DEF Waits
<1>6. \A T : Tops(T)' = Tops(T)
  BY DEF Tops
<1>7. \A T : Built(T)' = Built(T)
  BY <1>1, <1>4 DEF Built
<1>8. \A T : Walked(T)' = Walked(T)
  BY <1>2 DEF Walked
<1>9. \A v : Assigned(v)' = Assigned(v)
  BY DEF Assigned
<1>10. \A v : TaskOf(v)' = TaskOf(v)
  BY <1>9 DEF TaskOf
<1>11. \A o : TasksOf(o)' = TasksOf(o)
  BY <1>9, <1>10 DEF TasksOf
<1>12. \A c : Targets(c)' = Targets(c)
  BY <1>11 DEF Targets
<1>13. \A c : Meant(c)' = Meant(c)
  BY <1>11 DEF Meant
<1> QED
  BY <1>1, <1>2, <1>3, <1>4, <1>5, <1>6, <1>7, <1>8, <1>11, <1>12, <1>13

\* So do the edges of an operator.
LEMMA EdgesOfKept ==
  ASSUME file' = file, NEW c, NEW n
  PROVE  EdgesOf(c, n)' = EdgesOf(c, n)
<1>1. \A o : TasksOf(o)' = TasksOf(o) /\ Targets(o)' = Targets(o)
  BY FileKept
<1> QED
  BY <1>1 DEF EdgesOf

\* Every step keeps the types, and no step changes the file.
LEMMA TypeKept ==
  ASSUME TypeInv, PhaseInv, [Next]_vars
  PROVE  TypeInv' /\ file' = file
<1>f. file' = file
  BY DEF Next, vars, CanRead, OpenPipeline, SkipNonObject, SkipUnnamed, Visit, ClosePipeline, PipelinesDone,
     SkipCall, BuildTask, ReadRaises, CallsDone, CollectLevel, AttachDependencies
<1>t. file \in Files /\ pending \in Seq(DOMAIN file.nodes) /\ tasks \in Seq(Activity) /\ edges \in Seq(Edge)
      /\ at \in Nat \ {0} /\ counter \in Nat /\ pipeline \in Nat \ {0}
  BY DEF TypeInv
<1>e. /\ << >> \in Seq(DOMAIN file.nodes) /\ << >> \in Seq(Activity) /\ << >> \in Seq(Edge)
  OBVIOUS
<1>g. Given \X Given \subseteq Edge
  BY <1>t, CallFacts DEF Edge
<1>s. \A q \in Seq(Given \X Given) : q \in Seq(Edge)
  <2> DEFINE G == Given \X Given
  <2>1. G \subseteq Edge
    BY <1>g
  <2> HIDE DEF G
  <2>2. \A q \in Seq(G) : q \in Seq(Edge)
    BY <2>1
  <2> QED
    BY <2>2 DEF G
<1>0. CASE UNCHANGED vars
  BY <1>0, <1>f DEF vars, TypeInv
<1>1. CASE CanRead
  <2>1. pc' \in {"pipelines", "calls", "done"} /\ claimed' \in {"no", "raises", "yes"}
    BY <1>1 DEF CanRead, Answer
  <2> QED
    BY <1>1, <1>f, <2>1 DEF CanRead, TypeInv
<1>2. CASE OpenPipeline
  <2>1. pending' \in Seq(DOMAIN file.nodes)
    <3>1. pipeline \in DOMAIN file.pipelines
      BY <1>2, <1>t, NodeFacts DEF OpenPipeline
    <3> QED
      BY <1>2, <1>t, <3>1, NodeFacts DEF OpenPipeline
  <2> QED
    BY <1>2, <1>f, <2>1 DEF OpenPipeline, TypeInv
<1>3. CASE SkipNonObject \/ SkipUnnamed \/ Visit
  <2> DEFINE D == DOMAIN file.nodes
             h == Head(pending)
  <2>1. pending # << >> /\ pc' = pc /\ claimed' = claimed /\ pipeline' = pipeline /\ at' = at /\ holds' = holds
    BY <1>3 DEF SkipNonObject, SkipUnnamed, Visit
  <2>2. h \in D /\ Tail(pending) \in Seq(D)
    <3> HIDE DEF D
    <3>1. pending \in Seq(D)
      BY <1>t DEF D
    <3> QED
      BY <2>1, <3>1, TailFacts
  <2>3. Descend(ThisActivity) \in Seq(D)
    BY <1>t, <2>2, NodeFacts DEF ThisActivity
  <2>4. Descend(ThisActivity) \o Tail(pending) \in Seq(D)
    <3> HIDE DEF D
    <3> QED
      BY <2>2, <2>3, ConcatFacts
  <2>5. pending' \in Seq(D)
    BY <1>3, <2>2, <2>4 DEF SkipNonObject, SkipUnnamed, Visit
  <2>6. CASE SkipNonObject \/ SkipUnnamed
    BY <1>f, <2>1, <2>5, <2>6 DEF SkipNonObject, SkipUnnamed, TypeInv
  <2>7. CASE Visit
    <3>1. counter' = counter + 1 /\ counter' \in Nat
      BY <1>t, <2>7 DEF Visit
    <3>2. /\ AdfActivity(h, ThisActivity, counter') \in Activity
          /\ ThisActivity.depends_on \in Seq(Ids) /\ ThisActivity.name \in Ids
      BY <1>t, <2>2, <2>7, <3>1, AdfActivityType DEF Visit, ThisActivity
    <3>3. tasks' \in Seq(Activity)
      BY <1>t, <2>7, <3>2, AppendFacts DEF Visit
    <3>4. edges' \in Seq(Edge)
      BY <1>t, <2>7, <3>2, EdgesIntoFacts, ConcatFacts DEF Visit
    <3> QED
      BY <1>f, <2>1, <2>5, <3>1, <3>3, <3>4 DEF TypeInv
  <2> QED
    BY <1>3, <2>6, <2>7
<1>h. \A as \in Seq(Activity), es \in Seq(Edge) : [activities |-> as, edges |-> es] \in Pipeline
  BY DEF Pipeline
<1>4. CASE ClosePipeline
  <2>1. holds \in Seq(Pipeline) /\ [activities |-> tasks, edges |-> edges] \in Pipeline
    BY <1>h, <1>t DEF TypeInv
  <2>2. holds' \in Seq(Pipeline)
    BY <1>4, <2>1, AppendFacts DEF ClosePipeline
  <2>3. pipeline' \in Nat \ {0}
    BY <1>4, <1>t DEF ClosePipeline
  <2> QED
    BY <1>4, <1>e, <1>f, <2>2, <2>3 DEF ClosePipeline, TypeInv
<1>5. CASE PipelinesDone
  BY <1>5, <1>f DEF PipelinesDone, TypeInv
<1>6. CASE SkipCall
  <2>1. at' \in Nat \ {0}
    BY <1>6, <1>t DEF SkipCall
  <2> QED
    BY <1>6, <1>f, <2>1 DEF SkipCall, TypeInv
<1>7. CASE BuildTask
  <2>1. at' \in Nat \ {0} /\ counter' \in Nat
    BY <1>7, <1>t DEF BuildTask
  <2>2. at \in DOMAIN file.calls /\ ThisCall.task_id # Nothing
    BY <1>7, <1>t, CallFacts DEF BuildTask
  <2>3. AirflowTask(at, ThisCall, counter') \in Activity
    BY <1>t, <2>1, <2>2, AirflowTaskType DEF ThisCall
  <2>4. tasks' \in Seq(Activity)
    <3> DEFINE task == AirflowTask(at, ThisCall, counter')
    <3>1. tasks' = Keep(tasks, task) /\ task \in Activity
      BY <1>7, <2>3 DEF BuildTask
    <3> HIDE DEF task
    <3>2. CASE \E j \in 1..Len(tasks) : tasks[j].id = task.id
      BY <1>t, <3>1, <3>2, KeepKnown
    <3>3. CASE \A j \in 1..Len(tasks) : tasks[j].id # task.id
      <4>1. tasks' = Append(tasks, task)
        BY <1>t, <3>1, <3>3, KeepNew
      <4> QED
        BY <1>t, <3>1, <4>1, AppendFacts
    <3> QED
      BY <3>2, <3>3
  <2> QED
    BY <1>7, <1>f, <2>1, <2>4 DEF BuildTask, TypeInv
<1>8. CASE ReadRaises
  BY <1>8, <1>f DEF ReadRaises, TypeInv
<1>9. CASE CallsDone
  BY <1>9, <1>f DEF CallsDone, TypeInv
<1>10. CASE CollectLevel
  <2>1. edges' = edges \o Level
    BY <1>10 DEF CollectLevel, Level
  <2>2. Level \in Seq(Edge)
    BY <1>s, <1>t, LevelFacts
  <2>3. edges' \in Seq(Edge)
    BY <1>t, <2>1, <2>2, ConcatFacts
  <2>4. at' \in Nat \ {0}
    BY <1>10, <1>t DEF CollectLevel
  <2> QED
    BY <1>10, <1>f, <2>3, <2>4 DEF CollectLevel, TypeInv
<1>11. CASE AttachDependencies
  <2> DEFINE acts == [i \in DOMAIN tasks |-> [tasks[i] EXCEPT !.depends_on = Predecessors(KnownEdges, tasks[i].id)]]
  <2>1. KnownEdges \in Seq(Edge)
    BY <1>t, KnownEdgesFacts
  <2>2. \A id : Predecessors(KnownEdges, id) \in Seq(Ids)
    BY <2>1, PredecessorsFacts DEF Edge
  <2>3. DOMAIN tasks = 1..Len(tasks) /\ Len(tasks) \in Nat /\ \A i \in 1..Len(tasks) : tasks[i] \in Activity
    BY <1>t
  <2>4. \A act \in Activity, ds \in Seq(Ids) : [act EXCEPT !.depends_on = ds] \in Activity
    <3> DEFINE U == SUBSET Warnings
               X == Texts \cup {Nothing}
               D == Seq(Ids)
    <3>1. Activity = [from : Nat, id : Ids, supported : BOOLEAN, sql : X, env : EnvRefs \cup {Nothing},
                       order : Nat, depends_on : D, warnings : U]
      BY DEF Activity
    <3> HIDE DEF U, X, D
    <3>2. \A act \in Activity, ds \in D : [act EXCEPT !.depends_on = ds] \in Activity
      BY <3>1
    <3> QED
      BY <3>2 DEF D
  <2>5. \A i \in 1..Len(tasks) :
          [tasks[i] EXCEPT !.depends_on = Predecessors(KnownEdges, tasks[i].id)] \in Activity
    BY <2>2, <2>3, <2>4
  <2>6. acts \in Seq(Activity)
    BY <2>3, <2>5
  <2>7. holds' = <<[activities |-> acts, edges |-> KnownEdges]>>
    BY <1>11 DEF AttachDependencies
  <2>8. [activities |-> acts, edges |-> KnownEdges] \in Pipeline
    BY <1>h, <2>1, <2>6
  <2> HIDE DEF acts
  <2>9. holds' \in Seq(Pipeline)
    BY <2>7, <2>8
  <2> QED
    BY <1>11, <1>f, <2>9 DEF AttachDependencies, TypeInv
<1> QED
  BY <1>0, <1>1, <1>2, <1>3, <1>4, <1>5, <1>6, <1>7, <1>8, <1>9, <1>10, <1>11, <1>f DEF Next

\* Every step keeps to the reader the file is for.
LEMMA PhaseKept ==
  ASSUME TypeInv, PhaseInv, [Next]_vars, file' = file
  PROVE  PhaseInv'
<1>1. IsAdf' = IsAdf
  BY FileKept
<1>2. CASE CanRead
  <2>1. /\ pc' \in {"pipelines", "calls", "done"}
        /\ pc' = "pipelines" => IsAdf /\ claimed' = "yes"
        /\ pc' = "calls" => ~IsAdf /\ claimed' = "yes"
    BY <1>2 DEF CanRead, Answer, IsAdf
  <2> QED
    BY <1>1, <1>2, <2>1 DEF CanRead, PhaseInv
<1>3. CASE ~CanRead
  BY <1>1, <1>3 DEF PhaseInv, Next, vars, OpenPipeline, SkipNonObject, SkipUnnamed, Visit, ClosePipeline,
     PipelinesDone, SkipCall, BuildTask, ReadRaises, CallsDone, CollectLevel, AttachDependencies
<1> QED
  BY <1>2, <1>3

\* The fields of an activity that are looked at.
LEMMA ActivityFacts ==
  ASSUME NEW act \in Activity
  PROVE  act.from \in Nat /\ act.id \in Ids /\ act.order \in Nat /\ act.depends_on \in Seq(Ids)
<1> DEFINE U == SUBSET Warnings
           X == Texts \cup {Nothing}
           D == Seq(Ids)
<1>1. Activity = [from : Nat, id : Ids, supported : BOOLEAN, sql : X, env : EnvRefs \cup {Nothing},
                   order : Nat, depends_on : D, warnings : U]
  BY DEF Activity
<1> HIDE DEF U, X, D
<1>2. act.from \in Nat /\ act.id \in Ids /\ act.order \in Nat /\ act.depends_on \in D
  BY <1>1
<1> QED
  BY <1>2 DEF D

\* The node the walk is at.
LEMMA HeadFacts ==
  ASSUME TypeInv, pending # << >>
  PROVE  Head(pending) \in DOMAIN file.nodes
<1> DEFINE D == DOMAIN file.nodes
<1>1. pending \in Seq(D)
  BY DEF TypeInv
<1> HIDE DEF D
<1>2. Head(pending) \in D
  BY <1>1, TailFacts
<1> QED
  BY <1>2 DEF D

\* What the two constructors put in the fields of an activity.
LEMMA AdfBuilt ==
  ASSUME IsAdf, NEW i \in Named(DOMAIN file.nodes), NEW order
  PROVE  /\ Built(AdfActivity(i, file.nodes[i], order))
         /\ AdfActivity(i, file.nodes[i], order).from = i
         /\ AdfActivity(i, file.nodes[i], order).order = order
         /\ AdfActivity(i, file.nodes[i], order).id = file.nodes[i].name
         /\ AdfActivity(i, file.nodes[i], order).depends_on = file.nodes[i].depends_on
<1> DEFINE act == AdfActivity(i, file.nodes[i], order)
<1>1. /\ act.from = i /\ act.order = order /\ act.id = file.nodes[i].name
      /\ act.depends_on = file.nodes[i].depends_on
  BY DEF AdfActivity
<1> HIDE DEF act
<1>2. act = AdfActivity(act.from, file.nodes[act.from], act.order)
  BY <1>1 DEF act
<1>3. Built(act)
  BY <1>1, <1>2 DEF Built
<1> QED
  BY <1>1, <1>3 DEF act

\* The same of a task.
LEMMA AirflowBuilt ==
  ASSUME ~IsAdf, NEW i \in DOMAIN file.calls, file.calls[i].task_id # Nothing,
         file.calls[i].sql # "unreadable", NEW order
  PROVE  /\ Built(AirflowTask(i, file.calls[i], order))
         /\ AirflowTask(i, file.calls[i], order).from = i
         /\ AirflowTask(i, file.calls[i], order).id = file.calls[i].task_id
<1> DEFINE act == AirflowTask(i, file.calls[i], order)
<1>1. /\ act.from = i /\ act.order = order /\ act.id = file.calls[i].task_id
      /\ act = [act EXCEPT !.depends_on = act.depends_on]
  BY DEF AirflowTask
<1> HIDE DEF act
<1>2. act = [AirflowTask(act.from, file.calls[act.from], act.order) EXCEPT !.depends_on = act.depends_on]
  <2>1. AirflowTask(act.from, file.calls[act.from], act.order) = act
    BY <1>1 DEF act
  <2> QED
    BY <1>1, <2>1
<1>3. Built(act)
  BY <1>1, <1>2 DEF Built
<1> QED
  BY <1>1, <1>3 DEF act

\* A task with its dependencies is the task but for them.
LEMMA DependsFacts ==
  ASSUME NEW act \in Activity, NEW ds
  PROVE  LET new == [act EXCEPT !.depends_on = ds]
         IN  /\ new.from = act.from /\ new.id = act.id /\ new.order = act.order /\ new.depends_on = ds
             /\ new.sql = act.sql /\ new.env = act.env /\ new.warnings = act.warnings
             /\ ~IsAdf /\ Built(act) => Built(new)
<1> DEFINE new == [act EXCEPT !.depends_on = ds]
           U == SUBSET Warnings
           X == Texts \cup {Nothing}
           D == Seq(Ids)
<1>1. Activity = [from : Nat, id : Ids, supported : BOOLEAN, sql : X, env : EnvRefs \cup {Nothing},
                   order : Nat, depends_on : D, warnings : U]
  BY DEF Activity
<1>2. /\ new.from = act.from /\ new.id = act.id /\ new.order = act.order /\ new.depends_on = ds
      /\ new.sql = act.sql /\ new.env = act.env /\ new.warnings = act.warnings
  <2> HIDE DEF U, X, D
  <2> QED
    BY <1>1
<1>3. ASSUME ~IsAdf, Built(act) PROVE Built(new)
  <2> DEFINE task == AirflowTask(act.from, file.calls[act.from], act.order)
  <2>1. act = [task EXCEPT !.depends_on = act.depends_on]
    BY <1>3 DEF Built
  <2>2. [[task EXCEPT !.depends_on = act.depends_on] EXCEPT !.depends_on = ds] = [task EXCEPT !.depends_on = ds]
    BY DEF AirflowTask
  <2>3. new = [task EXCEPT !.depends_on = ds]
    BY <2>1, <2>2
  <2> HIDE DEF new, task
  <2>4. new = [task EXCEPT !.depends_on = new.depends_on]
    BY <1>2, <2>3
  <2> QED
    BY <1>2, <1>3, <2>4 DEF Built, task
<1> QED
  BY <1>2, <1>3

\* The tasks a reader has so far and those of the pipelines it is done with are built.
LEMMA BuiltKept ==
  ASSUME TypeInv, PhaseInv, BuiltInv, [Next]_vars, file' = file
  PROVE  BuiltInv'
<1>f. IsAdf' = IsAdf /\ \A act : Built(act)' = Built(act)
  BY FileKept
<1>same. ASSUME tasks' = tasks, holds' = holds PROVE BuiltInv'
  BY <1>f, <1>same DEF BuiltInv
<1>t. /\ DOMAIN tasks = 1..Len(tasks) /\ Len(tasks) \in Nat /\ DOMAIN holds = 1..Len(holds) /\ Len(holds) \in Nat
      /\ \A n \in 1..Len(tasks) : tasks[n] \in Activity /\ Built(tasks[n])
  <2>1. tasks \in Seq(Activity) /\ holds \in Seq(Pipeline)
    BY DEF TypeInv
  <2>2. /\ DOMAIN tasks = 1..Len(tasks) /\ Len(tasks) \in Nat /\ DOMAIN holds = 1..Len(holds) /\ Len(holds) \in Nat
        /\ \A n \in 1..Len(tasks) : tasks[n] \in Activity
    BY <2>1
  <2> QED
    BY <2>2 DEF BuiltInv
<1>1. CASE Visit
  <2> DEFINE act == AdfActivity(Head(pending), ThisActivity, counter')
  <2>1. Head(pending) \in Named(DOMAIN file.nodes) /\ IsAdf /\ holds' = holds /\ counter' \in Nat
        /\ Head(pending) \in DOMAIN file.nodes
    BY <1>1, HeadFacts DEF Visit, PhaseInv, TypeInv, Named, ThisActivity
  <2>2. Built(act)
    BY <2>1, AdfBuilt DEF ThisActivity
  <2>3. tasks' = Append(tasks, act)
    BY <1>1 DEF Visit
  <2>4. act \in Activity
    BY <1>1, <2>1, AdfActivityType DEF TypeInv, Visit, ThisActivity
  <2> HIDE DEF act
  <2>5. Len(tasks') = Len(tasks) + 1 /\ (\A n \in 1..Len(tasks) : tasks'[n] = tasks[n])
        /\ tasks'[Len(tasks) + 1] = act /\ DOMAIN tasks' = 1..(Len(tasks) + 1)
    BY <2>3, <2>4, AppendFacts DEF TypeInv
  <2>6. \A n \in 1..(Len(tasks) + 1) : n = Len(tasks) + 1 \/ n \in 1..Len(tasks)
    BY <1>t
  <2>7. \A n \in DOMAIN tasks' : Built(tasks'[n])
    BY <1>t, <2>2, <2>5, <2>6
  <2> QED
    BY <1>f, <2>1, <2>7 DEF BuiltInv
<1>2. CASE ClosePipeline
  <2> DEFINE new == [activities |-> tasks, edges |-> edges]
  <2>1. holds' = Append(holds, new) /\ tasks' = << >>
    BY <1>2 DEF ClosePipeline
  <2>2. new.activities = tasks
    OBVIOUS
  <2>3. new \in Pipeline /\ holds \in Seq(Pipeline)
    BY DEF Pipeline, TypeInv
  <2> HIDE DEF new
  <2>4. Len(holds') = Len(holds) + 1 /\ (\A n \in 1..Len(holds) : holds'[n] = holds[n])
        /\ holds'[Len(holds) + 1] = new /\ DOMAIN holds' = 1..(Len(holds) + 1)
    BY <2>1, <2>3, AppendFacts
  <2>5. \A p \in 1..(Len(holds) + 1) : p = Len(holds) + 1 \/ p \in 1..Len(holds)
    BY <1>t
  <2>6. ASSUME NEW p \in DOMAIN holds', NEW n \in DOMAIN holds'[p].activities PROVE Built(holds'[p].activities[n])
    <3>1. CASE p \in 1..Len(holds)
      BY <1>t, <2>4, <2>6, <3>1 DEF BuiltInv
    <3>2. CASE p = Len(holds) + 1
      BY <1>t, <2>2, <2>4, <2>6, <3>2
    <3> QED
      BY <2>4, <2>5, <3>1, <3>2
  <2>7. DOMAIN tasks' = {}
    BY <2>1
  <2> QED
    BY <1>f, <2>6, <2>7 DEF BuiltInv
<1>3. CASE BuildTask
  <2> DEFINE act == AirflowTask(at, ThisCall, counter')
  <2>1. at \in DOMAIN file.calls /\ ThisCall.task_id # Nothing /\ ThisCall.sql # "unreadable"
        /\ counter' \in Nat /\ ~IsAdf /\ holds' = holds /\ tasks' = Keep(tasks, act)
    BY <1>3, CallFacts DEF BuildTask, TypeInv, PhaseInv
  <2>2. act \in Activity /\ Built(act)
    BY <2>1, AirflowTaskType, AirflowBuilt DEF ThisCall, TypeInv
  <2> HIDE DEF act
  <2>3. tasks \in Seq(Activity)
    BY DEF TypeInv
  <2>4. CASE \E i \in 1..Len(tasks) : tasks[i].id = act.id
    <3>1. /\ DOMAIN tasks' = 1..Len(tasks)
          /\ \A i \in 1..Len(tasks) : tasks[i].id = act.id => tasks'[i] = act
          /\ \A i \in 1..Len(tasks) : tasks[i].id # act.id => tasks'[i] = tasks[i]
      BY <2>1, <2>2, <2>3, <2>4, KeepKnown
    <3>2. \A n \in DOMAIN tasks' : Built(tasks'[n])
      BY <1>t, <2>2, <3>1
    <3> QED
      BY <1>f, <2>1, <3>2 DEF BuiltInv
  <2>5. CASE ~ \E i \in 1..Len(tasks) : tasks[i].id = act.id
    <3>1. tasks' = Append(tasks, act)
      BY <2>1, <2>3, <2>5, KeepNew
    <3>2. Len(tasks') = Len(tasks) + 1 /\ (\A n \in 1..Len(tasks) : tasks'[n] = tasks[n])
          /\ tasks'[Len(tasks) + 1] = act /\ DOMAIN tasks' = 1..(Len(tasks) + 1)
      BY <2>2, <2>3, <3>1, AppendFacts
    <3>3. \A n \in 1..(Len(tasks) + 1) : n = Len(tasks) + 1 \/ n \in 1..Len(tasks)
      BY <1>t
    <3>4. \A n \in DOMAIN tasks' : Built(tasks'[n])
      BY <1>t, <2>2, <3>2, <3>3
    <3> QED
      BY <1>f, <2>1, <3>4 DEF BuiltInv
  <2> QED
    BY <2>4, <2>5
<1>4. CASE AttachDependencies
  <2> DEFINE acts == [i \in DOMAIN tasks |-> [tasks[i] EXCEPT !.depends_on = Predecessors(KnownEdges, tasks[i].id)]]
             new == [activities |-> acts, edges |-> KnownEdges]
  <2>1. holds' = <<new>> /\ tasks' = tasks /\ ~IsAdf
    BY <1>4 DEF AttachDependencies, PhaseInv
  <2>2. \A n \in DOMAIN tasks : Built(acts[n])
    <3>1. ASSUME NEW n \in DOMAIN tasks PROVE Built(acts[n])
      <4>1. tasks[n] \in Activity /\ Built(tasks[n])
        BY <1>t
      <4> QED
        BY <2>1, <4>1, DependsFacts
    <3> QED
      BY <3>1
  <2>3. DOMAIN acts = DOMAIN tasks /\ new.activities = acts
    OBVIOUS
  <2> HIDE DEF new, acts
  <2>4. DOMAIN holds' = {1} /\ holds'[1] = new
    BY <2>1
  <2>5. \A p \in DOMAIN holds' : \A n \in DOMAIN holds'[p].activities : Built(holds'[p].activities[n])
    BY <2>2, <2>3, <2>4
  <2> QED
    BY <1>f, <2>1, <2>5 DEF BuiltInv
<1>5. CASE ~ (Visit \/ ClosePipeline \/ BuildTask \/ AttachDependencies)
  <2>1. tasks' = tasks /\ holds' = holds
    BY <1>5 DEF Next, vars, CanRead, OpenPipeline, SkipNonObject, SkipUnnamed, PipelinesDone, SkipCall,
       ReadRaises, CallsDone, CollectLevel
  <2> QED
    BY <1>same, <2>1
<1> QED
  BY <1>1, <1>2, <1>3, <1>4, <1>5

\* What is built and passed over has a reason.
LEMMA BuiltExplained ==
  ASSUME file \in Files, NEW act, Built(act), act.sql = Nothing \/ act.env = Nothing
  PROVE  act.warnings # {} \/ (~IsAdf /\ file.calls[act.from].sql = "empty list")
<1>1. CASE IsAdf
  <2> DEFINE node == file.nodes[act.from]
  <2>1. act.from \in DOMAIN file.nodes /\ act = AdfActivity(act.from, node, act.order)
    BY <1>1 DEF Built, Named
  <2>2. act.sql = AdfSql(node) /\ act.env = node.env /\ act.warnings = AdfWarnings(node)
    BY <2>1 DEF AdfActivity
  <2>3. node.type \in {"proc", "script", "lookup", "copy", "other"} /\ node.sql_source \in BOOLEAN
    <3>1. node \in AdfNode
      BY <2>1, NodeFacts
    <3> DEFINE D == Seq(Ids)
               L == Seq(Seq(Nat))
               T == {"proc", "script", "lookup", "copy", "other"}
               K == SUBSET SqlFields
    <3>2. AdfNode = [is_object : BOOLEAN, name : Ids \cup {Nothing}, type : T, fields : K, sql_source : BOOLEAN,
                     env : EnvRefs \cup {Nothing}, depends_on : D, nested : L]
      BY DEF AdfNode
    <3> HIDE DEF D, L, T, K, node
    <3>3. node.type \in T /\ node.sql_source \in BOOLEAN
      BY <3>1, <3>2
    <3> QED
      BY <3>3 DEF T
  <2> HIDE DEF node
  <2>4. CASE AdfSql(node) = Nothing
    BY <2>2, <2>4 DEF AdfWarnings
  <2>5. CASE node.env = Nothing /\ AdfSql(node) # Nothing
    <3>1. CASE AdfSupported(node)
      BY <2>2, <2>5, <3>1 DEF AdfWarnings
    <3>2. CASE ~AdfSupported(node)
      <4>1. node.type = "other" \/ (node.type \in {"lookup", "copy"} /\ ~node.sql_source)
        BY <2>3, <2>5, <3>2 DEF AdfSupported
      <4> QED
        BY <2>2, <4>1 DEF AdfWarnings
    <3> QED
      BY <3>1, <3>2
  <2> QED
    BY <2>2, <2>4, <2>5
<1>2. CASE ~IsAdf
  <2> DEFINE call == file.calls[act.from]
             task == AirflowTask(act.from, call, act.order)
  <2>1. /\ act.from \in DOMAIN file.calls /\ call.sql # "unreadable"
        /\ act = [task EXCEPT !.depends_on = act.depends_on]
    BY <1>2 DEF Built
  <2>2. act.sql = AirflowSql(call) /\ act.env = call.env /\ act.warnings = AirflowWarnings(call)
    BY <2>1 DEF AirflowTask
  <2>3. call.sql \in {"literal", "template", "missing", "unreadable", "list", "empty list", "dynamic", "none"}
    <3>1. call \in Call
      BY <2>1, CallFacts
    <3> QED
      BY <3>1 DEF Call
  <2> HIDE DEF call, task
  <2>4. CASE call.env = Nothing
    BY <2>2, <2>4 DEF AirflowWarnings
  <2>5. CASE AirflowSql(call) = Nothing
    <3>1. call.sql \in {"missing", "empty list", "dynamic", "none"}
      BY <2>1, <2>3, <2>5, ReadersAssumption DEF AirflowSql
    <3>2. call.sql = "empty list" \/ AirflowWarnings(call) # {}
      BY <3>1 DEF AirflowWarnings
    <3> QED
      BY <1>2, <2>2, <3>2 DEF call
  <2> QED
    BY <2>2, <2>4, <2>5
<1> QED
  BY <1>1, <1>2

\* So the activities of the pipelines read are explained.
LEMMA ExplainedHolds ==
  ASSUME TypeInv, BuiltInv
  PROVE  Explained
BY BuiltExplained DEF Explained, BuiltInv, TypeInv

-----------------------------------------------------------------------------
(* The walk of a pipeline.                                                 *)

\* The walk goes on if what is said of it holds of the next values.
LEMMA WalkOn ==
  ASSUME file' = file,
         Len(holds') = pipeline' - 1, pipeline' <= Len(file.pipelines) + 1,
         \A p \in DOMAIN holds' : Whole(holds'[p], p),
         Read' => pipeline' = Len(file.pipelines) + 1,
         pc' = "walk" =>
           /\ pipeline' <= Len(file.pipelines) /\ counter' = Len(tasks')
           /\ Walked(tasks') /\ Joined(tasks', edges') /\ Split(tasks', pending', pipeline')
  PROVE  WalkInv'
<1>1. \A x : /\ Walked(x)' = Walked(x) /\ Under(x)' = Under(x) /\ Named(x)' = Named(x)
             /\ Tops(x)' = Tops(x) /\ Waits(x)' = Waits(x)
  BY FileKept
<1>2. (\A p \in DOMAIN holds : Whole(holds[p], p))'
  BY <1>1 DEF Whole
<1>3. pc' = "walk" => (Walked(tasks) /\ Split(tasks, pending, pipeline))'
  BY <1>1 DEF Split
<1> QED
  BY <1>2, <1>3 DEF WalkInv

\* Nothing is built yet.
LEMMA NoneYet ==
  Walked(<< >>) /\ Joined(<< >>, << >>) /\ Froms(<< >>) = {} /\ Range(<< >>) = {}
<1>1. DOMAIN << >> = {}
  OBVIOUS
<1> QED
  BY <1>1 DEF Walked, Joined, Froms, Range

\* One step of the walk, with the activity at the head built or not.
LEMMA WalkStep ==
  ASSUME TypeInv, PhaseInv, WalkInv, file' = file, pc = "walk", pending # << >>, IsAdf,
         pending' = Opened(pending),
         UNCHANGED <<pc, claimed, pipeline, holds>>,
         counter' = Len(tasks') /\ Walked(tasks') /\ Joined(tasks', edges'),
         \/ Head(pending) \in Named(DOMAIN file.nodes) /\ Froms(tasks') = Froms(tasks) \cup {Head(pending)}
         \/ Head(pending) \notin Named(DOMAIN file.nodes) /\ Froms(tasks') = Froms(tasks)
  PROVE  WalkInv'
<1> DEFINE left == Under(Range(pending))
           h == Head(pending)
<1>1. /\ pipeline <= Len(file.pipelines) /\ Split(tasks, pending, pipeline)
      /\ Len(holds) = pipeline - 1 /\ pipeline <= Len(file.pipelines) + 1
      /\ \A p \in DOMAIN holds : Whole(holds[p], p)
  BY DEF WalkInv
<1>2. /\ Waits(pending') /\ Under(Range(pending')) = left \ {h} /\ h \in left /\ h \in DOMAIN file.nodes
  <2> DEFINE D == DOMAIN file.nodes
  <2>1. pending \in Seq(D) /\ file \in Files
    BY DEF TypeInv
  <2>2. Waits(pending)
    BY <1>1 DEF Split
  <2>3. /\ Waits(Opened(pending)) /\ Under(Range(Opened(pending))) = Under(Range(pending)) \ {Head(pending)}
        /\ Head(pending) \in Under(Range(pending)) /\ Head(pending) \in D
    BY <2>1, <2>2, OpenedFacts
  <2> QED
    BY <2>3
<1>3. h \in Named(left) <=> h \in Named(DOMAIN file.nodes)
  BY <1>2 DEF Named
<1>4. Named(left \ {h}) = Named(left) \ {h}
  BY DEF Named
<1>5. Froms(tasks) \cup Named(left) = Named(Under(Tops(pipeline))) /\ Froms(tasks) \cap left = {}
  BY <1>1 DEF Split
<1> HIDE DEF left, h
<1>6. Split(tasks', pending', pipeline)
  <2>1. CASE h \in Named(DOMAIN file.nodes)
    <3>1. Froms(tasks') = Froms(tasks) \cup {h}
      BY <2>1 DEF h
    <3>2. Froms(tasks') \cup Named(left \ {h}) = Named(Under(Tops(pipeline)))
      BY <1>3, <1>4, <1>5, <2>1, <3>1
    <3>3. Froms(tasks') \cap (left \ {h}) = {}
      BY <1>5, <3>1
    <3> QED
      BY <1>2, <3>2, <3>3 DEF Split
  <2>2. CASE h \notin Named(DOMAIN file.nodes)
    <3>1. Froms(tasks') = Froms(tasks)
      BY <2>2 DEF h
    <3>2. Froms(tasks') \cup Named(left \ {h}) = Named(Under(Tops(pipeline)))
      BY <1>3, <1>4, <1>5, <2>2, <3>1
    <3>3. Froms(tasks') \cap (left \ {h}) = {}
      BY <1>5, <3>1
    <3> QED
      BY <1>2, <3>2, <3>3 DEF Split
  <2> QED
    BY <2>1, <2>2
<1>7. pc' # "done"
  OBVIOUS
<1> QED
  BY <1>1, <1>6, <1>7, WalkOn DEF Read

\* An activity visited goes to the end, with a number of its own, and its
\* dependencies with it.
LEMMA VisitFacts ==
  ASSUME TypeInv, PhaseInv, WalkInv, file' = file, IsAdf, Visit
  PROVE  /\ counter' = Len(tasks') /\ Walked(tasks') /\ Joined(tasks', edges')
         /\ Froms(tasks') = Froms(tasks) \cup {Head(pending)}
<1> DEFINE h == Head(pending)
           act == AdfActivity(h, ThisActivity, counter')
           N == Len(tasks)
           D == DOMAIN file.nodes
<1>1. /\ pc = "walk" /\ pending # << >> /\ counter' = counter + 1 /\ tasks' = Append(tasks, act)
      /\ edges' = edges \o EdgesInto(ThisActivity) /\ ThisActivity.is_object /\ ThisActivity.name # Nothing
  BY DEF Visit
<1>2. /\ counter = N /\ Walked(tasks) /\ Joined(tasks, edges) /\ Split(tasks, pending, pipeline)
  BY <1>1 DEF WalkInv
<1>3. /\ tasks \in Seq(Activity) /\ edges \in Seq(Edge) /\ counter' \in Nat /\ h \in D /\ h \in Named(D)
  BY <1>1, HeadFacts DEF TypeInv, Named, ThisActivity
<1>4. /\ act \in Activity /\ ThisActivity.depends_on \in Seq(Ids) /\ ThisActivity.name \in Ids
  BY <1>1, <1>3, AdfActivityType DEF TypeInv, ThisActivity
<1>5. /\ act.from = h /\ act.order = counter' /\ act.id = ThisActivity.name
      /\ act.depends_on = ThisActivity.depends_on
  BY <1>3, AdfBuilt DEF ThisActivity
<1>6. /\ Head(pending) \in Under(Range(pending))
      /\ \A i \in Under(Range(pending)) : Head(pending) \notin Kids(i)
      /\ Kids(Head(pending)) \subseteq Under(Range(pending))
  <2>1. pending \in Seq(D) /\ file \in Files
    BY DEF TypeInv
  <2>2. Waits(pending)
    BY <1>2 DEF Split
  <2> QED
    BY <1>1, <2>1, <2>2, OpenedFacts
<1>7. Froms(tasks) \cap Under(Range(pending)) = {}
  BY <1>2 DEF Split
<1> HIDE DEF act, h, D
<1>8. /\ N \in Nat /\ DOMAIN tasks = 1..N /\ Len(tasks') = N + 1 /\ DOMAIN tasks' = 1..(N + 1)
      /\ (\A n \in 1..N : tasks'[n] = tasks[n]) /\ tasks'[N + 1] = act
  BY <1>1, <1>3, <1>4, AppendFacts
<1> DEFINE from(n) == tasks'[n].from
<1>9. /\ from(N + 1) = h /\ \A n \in 1..N : from(n) = tasks[n].from /\ from(n) \in Froms(tasks)
  BY <1>5, <1>8 DEF Froms
<1>10. \A n \in 1..(N + 1) : n = N + 1 \/ n \in 1..N
  BY <1>8
<1>11. Froms(tasks') = Froms(tasks) \cup {h}
  <2>1. N + 1 \in 1..(N + 1) /\ \A n \in 1..N : n \in 1..(N + 1)
    BY <1>8
  <2> QED
    BY <1>8, <1>9, <1>10, <2>1 DEF Froms
<1>12. counter' = Len(tasks')
  BY <1>1, <1>2, <1>8
<1>13. Walked(tasks')
  <2>1. ASSUME NEW n \in 1..(N + 1) PROVE tasks'[n].order = n
    <3>1. CASE n = N + 1
      BY <1>5, <1>8, <1>12, <3>1
    <3>2. CASE n \in 1..N
      BY <1>2, <1>8, <3>2 DEF Walked
    <3> QED
      BY <1>10, <3>1, <3>2
  <2>2. h \in Under(Range(pending)) /\ h \notin Froms(tasks)
    BY <1>6, <1>7 DEF h
  <2>3. ASSUME NEW m \in 1..(N + 1), NEW n \in 1..(N + 1), from(m) = from(n) PROVE m = n
    <3>1. CASE m \in 1..N /\ n \in 1..N
      <4>1. tasks[m].from = tasks[n].from
        BY <1>9, <2>3, <3>1
      <4> QED
        BY <1>2, <1>8, <3>1, <4>1 DEF Walked
    <3>2. CASE m = N + 1 /\ n \in 1..N
      BY <1>9, <2>2, <2>3, <3>2
    <3>3. CASE m \in 1..N /\ n = N + 1
      BY <1>9, <2>2, <2>3, <3>3
    <3> QED
      BY <1>10, <3>1, <3>2, <3>3
  <2>4. ASSUME NEW m \in 1..(N + 1), NEW n \in 1..(N + 1), from(m) \in Kids(from(n)) PROVE n < m
    <3>1. CASE m \in 1..N /\ n \in 1..N
      <4>1. tasks[m].from \in Kids(tasks[n].from)
        BY <1>9, <2>4, <3>1
      <4> QED
        BY <1>2, <1>8, <3>1, <4>1 DEF Walked
    <3>2. CASE n = N + 1
      <4>1. from(m) \in Under(Range(pending))
        BY <1>6, <1>9, <2>4, <3>2 DEF h
      <4>2. m = N + 1
        BY <1>7, <1>9, <1>10, <4>1
      <4> QED
        BY <1>6, <1>9, <2>2, <2>4, <3>2, <4>2 DEF h
    <3>3. CASE m = N + 1 /\ n \in 1..N
      BY <1>8, <3>3
    <3> QED
      BY <1>10, <3>1, <3>2, <3>3
  <2> QED
    BY <1>8, <2>1, <2>3, <2>4 DEF Walked
<1>14. Joined(tasks', edges')
  <2> DEFINE into(ts, n) == {<<d, ts[n].id>> : d \in Range(ts[n].depends_on)}
  <2>1. Range(edges') = Range(edges) \cup {<<d, ThisActivity.name>> : d \in Range(ThisActivity.depends_on)}
    BY <1>1, <1>3, <1>4, ConcatFacts, EdgesIntoFacts
  <2>2. into(tasks', N + 1) = {<<d, ThisActivity.name>> : d \in Range(ThisActivity.depends_on)}
    BY <1>5, <1>8
  <2>3. \A n \in 1..N : into(tasks', n) = into(tasks, n)
    BY <1>8
  <2>4. Range(edges) = UNION {into(tasks, n) : n \in 1..N}
    BY <1>2, <1>8 DEF Joined
  <2>5. N + 1 \in 1..(N + 1) /\ \A n \in 1..N : n \in 1..(N + 1)
    BY <1>8
  <2> HIDE DEF into
  <2>6. UNION {into(tasks', n) : n \in 1..(N + 1)} = (UNION {into(tasks, n) : n \in 1..N}) \cup into(tasks', N + 1)
    BY <1>10, <2>3, <2>5
  <2>7. Range(edges') = UNION {into(tasks', n) : n \in DOMAIN tasks'}
    BY <1>8, <2>1, <2>2, <2>4, <2>6
  <2> QED
    BY <2>7 DEF Joined, into
<1> QED
  BY <1>11, <1>12, <1>13, <1>14 DEF h

\* The reader of ADF files, step by step.
LEMMA WalkKept ==
  ASSUME TypeInv, PhaseInv, WalkInv, [Next]_vars, file' = file
  PROVE  WalkInv'
<1>a. CASE ~IsAdf
  BY <1>a, FileKept DEF WalkInv
<1>b. CASE IsAdf
  <2>t. /\ DOMAIN file.pipelines = 1..Len(file.pipelines) /\ Len(file.pipelines) \in Nat
        /\ pipeline \in Nat \ {0} /\ file \in Files
    BY NodeFacts DEF TypeInv
  <2>w. /\ Len(holds) = pipeline - 1 /\ pipeline <= Len(file.pipelines) + 1
        /\ \A p \in DOMAIN holds : Whole(holds[p], p)
        /\ Read => pipeline = Len(file.pipelines) + 1
        /\ pc = "walk" =>
             /\ pipeline <= Len(file.pipelines) /\ counter = Len(tasks)
             /\ Walked(tasks) /\ Joined(tasks, edges) /\ Split(tasks, pending, pipeline)
    BY <1>b DEF WalkInv
  <2>0. CASE UNCHANGED vars
    BY <2>0, <2>w, WalkOn DEF vars, Read
  <2>1. CASE CanRead
    <3>1. pc' # "walk" /\ ~Read' /\ holds' = holds /\ pipeline' = pipeline
      BY <1>b, <2>1 DEF CanRead, Answer, IsAdf, Read
    <3> QED
      BY <2>w, <3>1, WalkOn
  <2>2. CASE OpenPipeline
    <3>1. /\ pipeline \in DOMAIN file.pipelines /\ pending' = file.pipelines[pipeline] /\ pc' = "walk"
          /\ tasks' = << >> /\ edges' = << >> /\ counter' = 0 /\ UNCHANGED <<holds, pipeline>>
      BY <2>2, <2>t DEF OpenPipeline, PhaseInv
    <3>2. Waits(pending')
      BY <2>t, <3>1, TopsWait
    <3>3. Range(pending') = Tops(pipeline)
      BY <3>1 DEF Tops
    <3>4. Split(tasks', pending', pipeline')
      BY <3>1, <3>2, <3>3, NoneYet DEF Split
    <3>5. Walked(tasks') /\ Joined(tasks', edges') /\ counter' = Len(tasks')
      BY <3>1, NoneYet
    <3>6. pipeline' <= Len(file.pipelines)
      BY <2>t, <3>1
    <3> QED
      BY <2>w, <3>1, <3>4, <3>5, <3>6, WalkOn DEF Read
  <2>3. CASE SkipNonObject \/ SkipUnnamed
    <3>1. /\ pc = "walk" /\ pending # << >> /\ UNCHANGED <<pc, claimed, pipeline, holds, tasks, counter, edges>>
          /\ pending' = Opened(pending) /\ Head(pending) \notin Named(DOMAIN file.nodes)
      BY <2>3 DEF SkipNonObject, SkipUnnamed, Opened, ThisActivity, Named
    <3>2. counter' = Len(tasks') /\ Walked(tasks') /\ Joined(tasks', edges') /\ Froms(tasks') = Froms(tasks)
      BY <2>w, <3>1
    <3> QED
      BY <1>b, <3>1, <3>2, WalkStep
  <2>4. CASE Visit
    <3>1. /\ pc = "walk" /\ pending # << >> /\ UNCHANGED <<pc, claimed, pipeline, holds>>
          /\ pending' = Opened(pending)
      BY <2>4 DEF Visit, Opened, ThisActivity
    <3>2. Head(pending) \in Named(DOMAIN file.nodes)
      BY <2>4, <3>1, HeadFacts DEF Visit, Named, ThisActivity
    <3>3. /\ counter' = Len(tasks') /\ Walked(tasks') /\ Joined(tasks', edges')
          /\ Froms(tasks') = Froms(tasks) \cup {Head(pending)}
      BY <1>b, <2>4, VisitFacts
    <3> QED
      BY <1>b, <3>1, <3>2, <3>3, WalkStep
  <2>5. CASE ClosePipeline
    <3> DEFINE new == [activities |-> tasks, edges |-> edges]
    <3>1. /\ pc = "walk" /\ pending = << >> /\ pc' = "pipelines" /\ pipeline' = pipeline + 1
          /\ holds' = Append(holds, new)
      BY <2>5 DEF ClosePipeline
    <3>2. Froms(tasks) = Named(Under(Tops(pipeline)))
      <4>1. Range(pending) = {} /\ Under({}) = {} /\ Named({}) = {}
        BY <2>t, <3>1, NoneYet, NothingWaits DEF Named
      <4>2. Froms(tasks) \cup Named(Under(Range(pending))) = Named(Under(Tops(pipeline)))
        BY <2>w, <3>1 DEF Split
      <4> QED
        BY <4>1, <4>2
    <3>3. Whole(new, pipeline)
      BY <2>w, <3>1, <3>2 DEF Whole
    <3>4. new \in Pipeline /\ holds \in Seq(Pipeline)
      BY DEF TypeInv, Pipeline
    <3> HIDE DEF new
    <3>5. /\ Len(holds') = Len(holds) + 1 /\ DOMAIN holds' = 1..(Len(holds) + 1)
          /\ (\A p \in 1..Len(holds) : holds'[p] = holds[p]) /\ holds'[Len(holds) + 1] = new
          /\ DOMAIN holds = 1..Len(holds) /\ Len(holds) \in Nat
      BY <3>1, <3>4, AppendFacts
    <3>6. \A p \in 1..(Len(holds) + 1) : p = pipeline \/ p \in 1..Len(holds)
      BY <2>w, <2>t, <3>5
    <3>7. holds'[pipeline] = new
      BY <2>t, <2>w, <3>5
    <3>8. \A p \in DOMAIN holds' : Whole(holds'[p], p)
      BY <2>w, <3>3, <3>5, <3>6, <3>7
    <3>9. Len(holds') = pipeline' - 1 /\ pipeline' <= Len(file.pipelines) + 1
      BY <2>t, <2>w, <3>1, <3>5
    <3> QED
      BY <3>1, <3>8, <3>9, WalkOn DEF Read
  <2>6. CASE PipelinesDone
    <3>1. pipeline = Len(file.pipelines) + 1 /\ pc' = "done" /\ UNCHANGED <<holds, pipeline>>
      BY <2>6, <2>t, <2>w DEF PipelinesDone
    <3> QED
      BY <2>w, <3>1, WalkOn
  <2>7. ~ (SkipCall \/ BuildTask \/ ReadRaises \/ CallsDone \/ CollectLevel \/ AttachDependencies)
    BY <1>b DEF PhaseInv, SkipCall, BuildTask, ReadRaises, CallsDone, CollectLevel, AttachDependencies
  <2> QED
    BY <2>0, <2>1, <2>2, <2>3, <2>4, <2>5, <2>6, <2>7 DEF Next
<1> QED
  BY <1>a, <1>b

\* A file read to its end keeps the two promises on the activities of its pipelines.
LEMMA WholeFacts ==
  ASSUME TypeInv, WalkInv
  PROVE  EveryActivityOnce
<1>1. SUFFICES ASSUME Read, IsAdf
               PROVE  /\ Len(holds) = Len(file.pipelines)
                      /\ \A p \in DOMAIN holds :
                           LET acts == holds[p].activities
                               place(i) == CHOOSE n \in DOMAIN acts : acts[n].from = i
                           IN  /\ {acts[n].from : n \in DOMAIN acts} = Named(Under(Range(file.pipelines[p])))
                               /\ \A n \in DOMAIN acts : acts[n].order = n /\ place(acts[n].from) = n
                               /\ \A n \in DOMAIN acts : \A i \in Named(Kids(acts[n].from)) : n < place(i)
  BY DEF EveryActivityOnce
<1>2. /\ Len(holds) = pipeline - 1 /\ pipeline = Len(file.pipelines) + 1 /\ Len(file.pipelines) \in Nat
      /\ \A p \in DOMAIN holds : Whole(holds[p], p)
  BY <1>1, NodeFacts DEF WalkInv, TypeInv
<1>3. Len(holds) = Len(file.pipelines)
  BY <1>2
<1>4. DOMAIN holds = DOMAIN file.pipelines /\ file \in Files
  <2>1. DOMAIN holds = 1..Len(holds) /\ DOMAIN file.pipelines = 1..Len(file.pipelines)
    BY NodeFacts DEF TypeInv
  <2> QED
    BY <1>3, <2>1 DEF TypeInv
<1>5. ASSUME NEW p \in DOMAIN holds
      PROVE  LET acts == holds[p].activities
                 place(i) == CHOOSE n \in DOMAIN acts : acts[n].from = i
             IN  /\ {acts[n].from : n \in DOMAIN acts} = Named(Under(Range(file.pipelines[p])))
                 /\ \A n \in DOMAIN acts : acts[n].order = n /\ place(acts[n].from) = n
                 /\ \A n \in DOMAIN acts : \A i \in Named(Kids(acts[n].from)) : n < place(i)
  <2> DEFINE acts == holds[p].activities
             place(i) == CHOOSE n \in DOMAIN acts : acts[n].from = i
             all == Under(Tops(p))
  <2>1. Walked(acts) /\ Froms(acts) = Named(all)
    BY <1>2, <1>5 DEF Whole
  <2>2. \A i \in all : Kids(i) \subseteq all
    BY <1>4, <1>5, NodeFacts, UnderFacts DEF Tops
  <2> HIDE DEF acts, all
  <2>3. \A n \in DOMAIN acts : acts[n].order = n
    BY <2>1 DEF Walked
  <2>4. \A n \in DOMAIN acts : place(acts[n].from) = n
    BY <2>1 DEF Walked
  <2>5. ASSUME NEW n \in DOMAIN acts, NEW i \in Named(Kids(acts[n].from)) PROVE n < place(i)
    <3>1. acts[n].from \in all
      BY <2>1 DEF Froms, Named
    <3>2. i \in Named(all) /\ i \in Kids(acts[n].from)
      BY <2>2, <3>1 DEF Named
    <3>3. PICK m \in DOMAIN acts : acts[m].from = i
      BY <2>1, <3>2 DEF Froms
    <3>4. place(i) = m
      BY <2>4, <3>3
    <3>5. n < m
      BY <2>1, <3>2, <3>3 DEF Walked
    <3> QED
      BY <3>4, <3>5
  <2>6. {acts[n].from : n \in DOMAIN acts} = Named(Under(Range(file.pipelines[p])))
    BY <2>1 DEF Froms, all, Tops
  <2> QED
    BY <2>3, <2>4, <2>5, <2>6 DEF acts
<1> QED
  BY <1>3, <1>5

-----------------------------------------------------------------------------
(* The calls and chains of a DAG.                                          *)

\* The reading of a DAG goes on if what is said of it holds of the next values.
LEMMA DagOn ==
  ASSUME file' = file, pc' # "done", holds' = << >>,
         pc' \in {"calls", "chains"} => Met(tasks', Seen'),
         pc' = "calls" => at' <= Len(file.calls) + 1,
         pc' = "chains" => Range(edges') = Collected(at')
  PROVE  DagInv'
<1>1. Met(tasks, Seen)' <=> Met(tasks', Seen')
  BY DEF Met
<1>2. Collected(at)' = Collected(at')
  <2>1. \A c, n : EdgesOf(c, n)' = EdgesOf(c, n)
    BY EdgesOfKept
  <2> QED
    BY <2>1 DEF Collected, Taken
<1>3. ~Read' /\ DOMAIN holds' = {}
  BY DEF Read
<1>4. DependenciesAgree'
  BY <1>3 DEF DependenciesAgree
<1>5. LastDefinitionWins' /\ RightChainsExact'
  BY <1>3 DEF LastDefinitionWins, RightChainsExact
<1> QED
  BY <1>1, <1>2, <1>3, <1>4, <1>5 DEF DagInv, TasksAgree

\* A call is met.
LEMMA MeetCall ==
  ASSUME TypeInv, NEW seen, Met(tasks, seen), \A i \in seen : i \in Nat /\ i <= at, at \in DOMAIN file.calls,
         ThisCall.task_id = Nothing
  PROVE  Met(tasks, seen \cup {at})
<1>1. tasks \in Seq(Activity)
  BY DEF TypeInv
<1>2. \A n \in DOMAIN tasks : tasks[n].id \in Ids
  <2>1. \A n \in DOMAIN tasks : tasks[n] \in Activity
    BY <1>1
  <2> QED
    BY <2>1, ActivityFacts
<1>3. \A n \in DOMAIN tasks : file.calls[at].task_id # tasks[n].id
  BY <1>2, ReadersAssumption DEF ThisCall
<1>4. {file.calls[i].task_id : i \in seen \cup {at}} \ {Nothing} = {file.calls[i].task_id : i \in seen} \ {Nothing}
  BY DEF ThisCall
<1> QED
  BY <1>3, <1>4 DEF Met

\* A task put in the dict takes the place of the one with its id.
LEMMA MeetTask ==
  ASSUME TypeInv, NEW seen, Met(tasks, seen), \A i \in seen : i \in Nat /\ i <= at, at \in DOMAIN file.calls,
         NEW task \in Activity, task.id = ThisCall.task_id, task.from = at
  PROVE  Met(Keep(tasks, task), seen \cup {at})
<1> DEFINE k == Keep(tasks, task)
           N == Len(tasks)
           ids(ts) == {ts[n].id : n \in DOMAIN ts}
           met(is) == {file.calls[i].task_id : i \in is}
<1>1. tasks \in Seq(Activity) /\ DOMAIN tasks = 1..N /\ N \in Nat /\ at \in Nat
  BY DEF TypeInv
<1>2. /\ \A m, n \in 1..N : tasks[m].id = tasks[n].id => m = n
      /\ ids(tasks) = met(seen) \ {Nothing}
      /\ \A n \in 1..N : \A i \in seen : file.calls[i].task_id = tasks[n].id => i <= tasks[n].from
  BY <1>1 DEF Met
<1>3. task.id # Nothing /\ task.id = file.calls[at].task_id
  BY ActivityFacts, ReadersAssumption DEF ThisCall
<1>4. met(seen \cup {at}) \ {Nothing} = (met(seen) \ {Nothing}) \cup {task.id}
  BY <1>3
<1>5. CASE \E j \in 1..N : tasks[j].id = task.id
  <2>1. /\ DOMAIN k = 1..N
        /\ \A i \in 1..N : tasks[i].id = task.id => k[i] = task
        /\ \A i \in 1..N : tasks[i].id # task.id => k[i] = tasks[i]
    BY <1>1, <1>5, KeepKnown
  <2> HIDE DEF k
  <2>2. \A i \in 1..N : k[i].id = tasks[i].id
    BY <2>1
  <2>3. \A m, n \in 1..N : k[m].id = k[n].id => m = n
    BY <1>2, <2>2
  <2>4. ids(k) = met(seen \cup {at}) \ {Nothing}
    <3>1. ids(k) = ids(tasks)
      BY <1>1, <2>1, <2>2
    <3>2. task.id \in ids(tasks)
      BY <1>1, <1>5
    <3> HIDE DEF ids, met
    <3> QED
      BY <1>2, <1>4, <3>1, <3>2
  <2>5. ASSUME NEW n \in 1..N, NEW i \in seen \cup {at}, file.calls[i].task_id = k[n].id PROVE i <= k[n].from
    <3>1. CASE tasks[n].id = task.id
      BY <1>1, <2>1, <2>5, <3>1
    <3>2. CASE tasks[n].id # task.id
      <4>1. k[n] = tasks[n] /\ i # at
        BY <1>3, <2>1, <2>2, <2>5, <3>2
      <4> QED
        BY <1>2, <2>5, <4>1
    <3> QED
      BY <3>1, <3>2
  <2> QED
    BY <2>1, <2>3, <2>4, <2>5 DEF Met, k
<1>6. CASE \A j \in 1..N : tasks[j].id # task.id
  <2>1. k = Append(tasks, task)
    BY <1>1, <1>6, KeepNew
  <2>2. /\ Len(k) = N + 1 /\ DOMAIN k = 1..(N + 1) /\ k[N + 1] = task
        /\ \A i \in 1..N : k[i] = tasks[i]
    BY <1>1, <2>1, AppendFacts
  <2> HIDE DEF k
  <2>3. \A n \in 1..(N + 1) : n = N + 1 \/ n \in 1..N
    BY <1>1
  <2>4. \A m, n \in 1..(N + 1) : k[m].id = k[n].id => m = n
    BY <1>2, <1>6, <2>2, <2>3
  <2>5. ids(k) = met(seen \cup {at}) \ {Nothing}
    <3>1. ids(k) = ids(tasks) \cup {task.id}
      <4>1. N + 1 \in 1..(N + 1) /\ \A n \in 1..N : n \in 1..(N + 1)
        BY <1>1
      <4> QED
        BY <1>1, <2>2, <2>3, <4>1
    <3> HIDE DEF ids, met
    <3> QED
      BY <1>2, <1>4, <3>1
  <2>6. ASSUME NEW n \in 1..(N + 1), NEW i \in seen \cup {at}, file.calls[i].task_id = k[n].id PROVE i <= k[n].from
    <3>1. CASE n = N + 1
      BY <1>1, <2>2, <3>1
    <3>2. CASE n \in 1..N
      <4>1. k[n] = tasks[n] /\ i # at
        BY <1>3, <1>6, <2>2, <2>6, <3>2
      <4> QED
        BY <1>2, <2>6, <3>2, <4>1
    <3> QED
      BY <2>3, <3>1, <3>2
  <2> QED
    BY <2>2, <2>4, <2>5, <2>6 DEF Met, k
<1> QED
  BY <1>5, <1>6

\* A level adds the edges of one operator of every chain that has one.
LEMMA CollectedFacts ==
  ASSUME file \in Files, at \in Nat \ {0}
  PROVE  /\ Collected(1) = {}
         /\ Collected(at + 1) = Collected(at) \cup Range(Level)
         /\ (\A i \in DOMAIN file.chains : Len(file.chains[i].ops) < at) =>
              Collected(at) = UNION {UNION {Range(EdgesOf(file.chains[i], n)) : n \in DOMAIN file.chains[i].ops}
                                     : i \in DOMAIN file.chains}
<1> DEFINE C == DOMAIN file.chains
           ops(i) == file.chains[i].ops
           es(i, n) == Range(EdgesOf(file.chains[i], n))
           T(i, l) == Taken(file.chains[i], l)
           last(i) == Len(ops(i)) + 1 - at
<1>1. \A i \in C : Len(ops(i)) \in Nat /\ DOMAIN ops(i) = 1..Len(ops(i))
  BY ChainFacts, OperandFacts
<1>2. \A i \in C : \A l : T(i, l) = {n \in DOMAIN ops(i) : n > Len(ops(i)) + 1 - l}
  BY DEF Taken
<1>3. \A l : Collected(l) = UNION {UNION {es(i, n) : n \in T(i, l)} : i \in C}
  BY DEF Collected
<1> HIDE DEF C, ops, es, T
<1>4. \A i \in C : T(i, 1) = {}
  BY <1>1, <1>2
<1>5. Collected(1) = {}
  BY <1>3, <1>4
<1>6. ASSUME NEW i \in C
      PROVE  T(i, at + 1) = T(i, at) \cup (IF Len(ops(i)) >= at THEN {last(i)} ELSE {})
  <2>1. Len(ops(i)) \in Nat /\ DOMAIN ops(i) = 1..Len(ops(i))
    BY <1>1
  <2>2. ASSUME NEW n PROVE n \in T(i, at + 1) <=> n \in T(i, at) \/ (Len(ops(i)) >= at /\ n = last(i))
    <3>1. \A k \in 1..Len(ops(i)) : k > Len(ops(i)) + 1 - (at + 1) <=> k > Len(ops(i)) + 1 - at \/ k = last(i)
      BY <2>1
    <3>2. Len(ops(i)) >= at <=> last(i) \in 1..Len(ops(i))
      BY <2>1
    <3>3. n \in T(i, at + 1) <=> n \in 1..Len(ops(i)) /\ n > Len(ops(i)) + 1 - (at + 1)
      BY <1>2, <2>1
    <3>4. n \in T(i, at) <=> n \in 1..Len(ops(i)) /\ n > Len(ops(i)) + 1 - at
      BY <1>2, <2>1
    <3> HIDE DEF last
    <3> QED
      BY <3>1, <3>2, <3>3, <3>4
  <2> HIDE DEF last
  <2> QED
    BY <2>2
<1>7. Range(Level) = UNION {IF Len(ops(i)) >= at THEN es(i, last(i)) ELSE {} : i \in C}
  BY LevelFacts DEF C, ops, es
<1> HIDE DEF last
<1>8. Collected(at + 1) = Collected(at) \cup Range(Level)
  <2>1. ASSUME NEW x PROVE x \in Collected(at + 1) <=> x \in Collected(at) \/ x \in Range(Level)
    <3>1. x \in Collected(at + 1) <=> \E i \in C : \E n \in T(i, at + 1) : x \in es(i, n)
      BY <1>3
    <3>2. x \in Collected(at) <=> \E i \in C : \E n \in T(i, at) : x \in es(i, n)
      BY <1>3
    <3>3. x \in Range(Level) <=> \E i \in C : Len(ops(i)) >= at /\ x \in es(i, last(i))
      BY <1>7
    <3>4. \A i \in C : \A n : n \in T(i, at + 1) <=> n \in T(i, at) \/ (Len(ops(i)) >= at /\ n = last(i))
      BY <1>6
    <3> QED
      BY <3>1, <3>2, <3>3, <3>4
  <2> QED
    BY <2>1
<1>9. ASSUME \A i \in C : Len(ops(i)) < at
      PROVE  Collected(at) = UNION {UNION {es(i, n) : n \in DOMAIN ops(i)} : i \in C}
  <2>1. \A i \in C : T(i, at) = DOMAIN ops(i)
    <3>1. ASSUME NEW i \in C PROVE T(i, at) = DOMAIN ops(i)
      <4>1. Len(ops(i)) \in Nat /\ DOMAIN ops(i) = 1..Len(ops(i)) /\ Len(ops(i)) < at
        BY <1>1, <1>9
      <4>2. \A n \in 1..Len(ops(i)) : n > Len(ops(i)) + 1 - at
        BY <4>1
      <4>3. T(i, at) = {n \in DOMAIN ops(i) : n > Len(ops(i)) + 1 - at}
        BY <1>2
      <4> QED
        BY <4>1, <4>2, <4>3
    <3> QED
      BY <3>1
  <2> QED
    BY <1>3, <2>1
<1> QED
  BY <1>5, <1>8, <1>9 DEF C, ops, es

\* Every edge collected is between two tasks of the file.
LEMMA CollectedEnds ==
  ASSUME file \in Files, NEW level
  PROVE  Collected(level) \subseteq Given \X Given
<1>1. ASSUME NEW i \in DOMAIN file.chains, NEW n \in Taken(file.chains[i], level)
      PROVE  Range(EdgesOf(file.chains[i], n)) \subseteq Given \X Given
  <2> DEFINE G == Given \X Given
             es == EdgesOf(file.chains[i], n)
  <2>1. es \in Seq(G)
    BY <1>1, ChainFacts, EdgesOfFacts DEF Taken
  <2> HIDE DEF G, es
  <2>2. Range(es) \subseteq G
    BY <2>1, RangeFacts
  <2> QED
    BY <2>2 DEF G, es
<1> QED
  BY <1>1 DEF Collected

\* In a chain of >> alone, and in one of a single operator, what stands left of an
\* operator is the operand next to it.
LEMMA PlainChain ==
  ASSUME file \in Files, NEW chain, Fits(chain),
         Len(chain.ops) > 1 => \A j \in DOMAIN chain.ops : chain.ops[j] = ">>"
  PROVE  UNION {Range(EdgesOf(chain, n)) : n \in DOMAIN chain.ops} = Meant(chain)
<1> DEFINE here(n) == Range(TasksOf(chain.operands[n]))
           there(n) == Range(TasksOf(chain.operands[n + 1]))
           said(n) == IF chain.ops[n] \in {">>", "set_downstream"} THEN here(n) \X there(n) ELSE there(n) \X here(n)
<1>1. ASSUME NEW n \in DOMAIN chain.ops PROVE Range(EdgesOf(chain, n)) = said(n)
  <2>1. /\ n \in 1..Len(chain.ops) /\ Len(chain.ops) \in Nat /\ Len(chain.operands) = Len(chain.ops) + 1
        /\ DOMAIN chain.ops = 1..Len(chain.ops)
    BY OperandFacts
  <2>2. n \in 1..Len(chain.operands)
    BY <2>1
  <2>3. n = 1 \/ chain.ops[n - 1] # "<<"
    <3>1. CASE n = 1
      BY <3>1
    <3>2. CASE n # 1
      <4>1. n - 1 \in 1..Len(chain.ops) /\ Len(chain.ops) > 1
        BY <2>1, <3>2
      <4>2. chain.ops[n - 1] = ">>"
        BY <2>1, <4>1
      <4> QED
        BY <4>2
    <3> QED
      BY <3>1, <3>2
  <2>4. Targets(chain)[n] = TasksOf(chain.operands[n])
    BY <2>2, <2>3, TargetsFacts
  <2>5. Range(EdgesOf(chain, n)) =
          LET left == Range(Targets(chain)[n])
              right == Range(TasksOf(chain.operands[n + 1]))
          IN  IF chain.ops[n] \in {">>", "set_downstream"} THEN left \X right ELSE right \X left
    BY EdgesOfFacts
  <2> QED
    BY <2>4, <2>5
<1>2. Meant(chain) = UNION {said(n) : n \in DOMAIN chain.ops}
  BY DEF Meant
<1> HIDE DEF said
<1> QED
  BY <1>1, <1>2

\* The tasks with their dependencies.
Attached == [i \in DOMAIN tasks |-> [tasks[i] EXCEPT !.depends_on = Predecessors(KnownEdges, tasks[i].id)]]

\* They are the tasks they were, with the starts of the known edges into them.
LEMMA AttachedFacts ==
  ASSUME TypeInv
  PROVE  /\ DOMAIN Attached = DOMAIN tasks
         /\ \A n \in DOMAIN tasks :
              /\ Attached[n].id = tasks[n].id /\ Attached[n].from = tasks[n].from
              /\ Range(Attached[n].depends_on) = Starts(KnownEdges, tasks[n].id)
<1>1. DOMAIN Attached = DOMAIN tasks
  BY DEF Attached
<1>2. ASSUME NEW n \in DOMAIN tasks
      PROVE  /\ Attached[n].id = tasks[n].id /\ Attached[n].from = tasks[n].from
             /\ Attached[n].depends_on = Predecessors(KnownEdges, tasks[n].id)
  <2> DEFINE ds == Predecessors(KnownEdges, tasks[n].id)
  <2>1. tasks[n] \in Activity
    BY DEF TypeInv
  <2>2. Attached[n] = [tasks[n] EXCEPT !.depends_on = ds]
    BY DEF Attached
  <2> HIDE DEF ds
  <2>3. Attached[n].id = tasks[n].id /\ Attached[n].from = tasks[n].from /\ Attached[n].depends_on = ds
    BY <2>1, <2>2, DependsFacts
  <2> QED
    BY <2>3 DEF ds
<1>3. KnownEdges \in Seq(Ids \X Ids)
  BY KnownEdgesFacts DEF TypeInv, Edge
<1>4. \A id : Range(Predecessors(KnownEdges, id)) = Starts(KnownEdges, id)
  BY <1>3, PredecessorsFacts
<1> QED
  BY <1>1, <1>2, <1>4

\* The last step of the reading of a DAG makes good every promise on it.
LEMMA AttachKept ==
  ASSUME TypeInv, PhaseInv, DagInv, AttachDependencies, file' = file
  PROVE  DagInv'
<1> DEFINE known == KnownEdges
           acts == Attached
           new == [activities |-> acts, edges |-> known]
<1>1. /\ pc = "chains" /\ ~IsAdf /\ holds' = <<new>> /\ pc' = "done" /\ file \in Files /\ IsAdf' = IsAdf
      /\ \A i \in DOMAIN file.chains : Len(file.chains[i].ops) < at
  BY FileKept DEF AttachDependencies, PhaseInv, TypeInv, Attached
<1>2. /\ Met(tasks, DOMAIN file.calls) /\ Range(edges) = Collected(at)
  BY <1>1 DEF DagInv, Seen
<1>3. TaskIds = Given
  BY <1>2 DEF Met, TaskIds, Given
<1>4. /\ known \in Seq(Edge) /\ IsInjective(known) /\ Range(known) = Range(edges)
  <2>1. /\ known \in Seq(Edge) /\ IsInjective(known)
        /\ Range(known) = Range(edges) \cap (TaskIds \X TaskIds)
    BY KnownEdgesFacts DEF TypeInv
  <2>2. Range(edges) \subseteq Given \X Given
    BY <1>1, <1>2, CollectedEnds
  <2> QED
    BY <1>3, <2>1, <2>2
<1>5. \A e \in Range(known) : e \in TaskIds \X TaskIds
  BY <1>1, <1>2, <1>3, <1>4, CollectedEnds
<1>6. /\ DOMAIN acts = DOMAIN tasks
      /\ \A n \in DOMAIN tasks :
           /\ acts[n].id = tasks[n].id /\ acts[n].from = tasks[n].from
           /\ Range(acts[n].depends_on) = Starts(known, tasks[n].id)
  BY AttachedFacts
<1>7. new.activities = acts /\ new.edges = known
  OBVIOUS
<1> HIDE DEF acts, known, new
<1>8. holds'[1] = new /\ DOMAIN holds' = {1} /\ Len(holds') = 1
  BY <1>1
<1>9. Range(known) = UNION {{<<d, acts[n].id>> : d \in Range(acts[n].depends_on)} : n \in DOMAIN acts}
  <2>1. ASSUME NEW e \in Range(known)
        PROVE  e \in UNION {{<<d, acts[n].id>> : d \in Range(acts[n].depends_on)} : n \in DOMAIN acts}
    <3>1. e = <<e[1], e[2]>> /\ e[2] \in TaskIds
      BY <1>5
    <3>2. PICK n \in DOMAIN tasks : tasks[n].id = e[2]
      BY <3>1 DEF TaskIds
    <3>3. e[1] \in Range(acts[n].depends_on) /\ acts[n].id = e[2]
      BY <1>6, <3>2 DEF Starts
    <3>4. e \in {<<d, acts[n].id>> : d \in Range(acts[n].depends_on)}
      BY <3>1, <3>3
    <3> QED
      BY <1>6, <3>2, <3>4
  <2>2. ASSUME NEW n \in DOMAIN acts, NEW d \in Range(acts[n].depends_on)
        PROVE  <<d, acts[n].id>> \in Range(known)
    <3>1. PICK e \in Range(known) : e[2] = tasks[n].id /\ d = e[1]
      BY <1>6, <2>2 DEF Starts
    <3>2. e = <<e[1], e[2]>>
      BY <1>5, <3>1
    <3> QED
      BY <1>6, <3>1, <3>2
  <2> QED
    BY <2>1, <2>2
<1>10. \A e \in Range(known) : \E m, n \in DOMAIN acts : acts[m].id = e[1] /\ acts[n].id = e[2]
  BY <1>5, <1>6 DEF TaskIds
<1>11. DependenciesAgree'
  BY <1>4, <1>7, <1>8, <1>9, <1>10 DEF DependenciesAgree
<1>12. LastDefinitionWins'
  <2>1. /\ \A n \in DOMAIN acts : \A m \in DOMAIN acts : acts[m].id = acts[n].id => m = n
        /\ \A n \in DOMAIN acts : \A i \in DOMAIN file.calls : file.calls[i].task_id = acts[n].id => i <= acts[n].from
    BY <1>2, <1>6 DEF Met
  <2> QED
    BY <1>1, <1>7, <1>8, <2>1 DEF LastDefinitionWins
<1>13. RightChainsExact'
  <2>1. Range(known) = UNION {UNION {Range(EdgesOf(file.chains[i], n)) : n \in DOMAIN file.chains[i].ops}
                               : i \in DOMAIN file.chains}
    BY <1>1, <1>2, <1>4, CollectedFacts DEF TypeInv
  <2>2. ASSUME \A i \in DOMAIN file.chains : Len(file.chains[i].ops) > 1 =>
                 \A j \in DOMAIN file.chains[i].ops : file.chains[i].ops[j] = ">>"
        PROVE  Range(known) = UNION {Meant(file.chains[i]) : i \in DOMAIN file.chains}
    <3>1. \A i \in DOMAIN file.chains :
            UNION {Range(EdgesOf(file.chains[i], n)) : n \in DOMAIN file.chains[i].ops} = Meant(file.chains[i])
      BY <1>1, <2>2, ChainFacts, PlainChain
    <3> DEFINE collected(i) == UNION {Range(EdgesOf(file.chains[i], n)) : n \in DOMAIN file.chains[i].ops}
               meant(i) == Meant(file.chains[i])
    <3>2. \A i \in DOMAIN file.chains : collected(i) = meant(i)
      BY <3>1
    <3>3. Range(known) = UNION {collected(i) : i \in DOMAIN file.chains}
      BY <2>1
    <3> HIDE DEF collected, meant
    <3>4. Range(known) = UNION {meant(i) : i \in DOMAIN file.chains}
      BY <3>2, <3>3
    <3> QED
      BY <3>4 DEF meant
  <2>3. \A c : Meant(c)' = Meant(c)
    BY FileKept
  <2> QED
    BY <1>1, <1>7, <1>8, <2>2, <2>3 DEF RightChainsExact
<1> QED
  BY <1>1, <1>8, <1>11, <1>12, <1>13 DEF DagInv, TasksAgree

\* The reader of DAG files, step by step.
LEMMA DagKept ==
  ASSUME TypeInv, PhaseInv, DagInv, [Next]_vars, file' = file
  PROVE  DagInv'
<1>a. CASE IsAdf
  BY <1>a, FileKept DEF DagInv
<1>b. CASE ~IsAdf
  <2>t. /\ DOMAIN file.calls = 1..Len(file.calls) /\ Len(file.calls) \in Nat
        /\ at \in Nat \ {0} /\ file \in Files
    BY CallFacts DEF TypeInv
  <2>h. pc # "done" => holds = << >>
    BY <1>b DEF PhaseInv
  <2>0. CASE UNCHANGED vars
    <3>1. /\ \A x : Meant(x)' = Meant(x)
          /\ IsAdf' = IsAdf
      BY FileKept
    <3>2. \A c, n : EdgesOf(c, n)' = EdgesOf(c, n)
      BY EdgesOfKept
    <3>3. Collected(at)' = Collected(at)
      BY <2>0, <3>2 DEF Collected, Taken, vars
    <3>4. Met(tasks, Seen)' <=> Met(tasks, Seen)
      BY <2>0 DEF Met, Seen, vars
    <3>5. Read' <=> Read
      BY <2>0 DEF Read, vars
    <3>6. DependenciesAgree' <=> DependenciesAgree
      BY <2>0, <3>1 DEF DependenciesAgree, vars
    <3>7. LastDefinitionWins' <=> LastDefinitionWins
      BY <2>0, <3>1, <3>5 DEF LastDefinitionWins, vars
    <3>8. RightChainsExact' <=> RightChainsExact
      BY <2>0, <3>1, <3>5 DEF RightChainsExact, vars
    <3> QED
      BY <2>0, <3>1, <3>3, <3>4, <3>5, <3>6, <3>7, <3>8 DEF DagInv, TasksAgree, vars
  <2>1. CASE CanRead
    <3>1. CASE pc' = "calls"
      <4>1. tasks' = << >> /\ at' = 1 /\ holds' = << >> /\ Seen' = 1..0
        BY <2>1, <3>1 DEF CanRead, PhaseInv, Seen
      <4>2. Met(tasks', Seen')
        <5>1. 1..0 = {}
          OBVIOUS
        <5> QED
          BY <4>1, <5>1 DEF Met
      <4> QED
        BY <2>t, <3>1, <4>1, <4>2, DagOn
    <3>2. CASE pc' # "calls"
      <4>1. pc' = "done" /\ ~Read' /\ holds' = << >> /\ IsAdf' = IsAdf
        BY <1>b, <2>1, <3>2, FileKept DEF CanRead, Answer, IsAdf, Read, PhaseInv
      <4>2. DOMAIN holds' = {}
        BY <4>1
      <4>3. DependenciesAgree' /\ LastDefinitionWins' /\ RightChainsExact'
        BY <4>1, <4>2 DEF DependenciesAgree, LastDefinitionWins, RightChainsExact
      <4> QED
        BY <4>1, <4>3 DEF DagInv, TasksAgree
    <3> QED
      BY <3>1, <3>2
  <2>2. CASE SkipCall
    <3>1. /\ pc = "calls" /\ pc' = "calls" /\ at \in DOMAIN file.calls /\ at' = at + 1 /\ tasks' = tasks
          /\ holds' = << >> /\ ThisCall.task_id = Nothing
      BY <2>2, <2>t, <2>h DEF SkipCall
    <3>2. Seen = 1..(at - 1) /\ Seen' = Seen \cup {at}
      BY <2>t, <3>1 DEF Seen
    <3>3. Met(tasks, Seen) /\ \A i \in Seen : i \in Nat /\ i <= at
      BY <1>b, <2>t, <3>1, <3>2 DEF DagInv
    <3>4. Met(tasks', Seen')
      <4>1. Met(tasks, Seen \cup {at})
        BY <3>1, <3>3, MeetCall
      <4> QED
        BY <3>1, <3>2, <4>1
    <3>5. at' <= Len(file.calls) + 1
      BY <2>t, <3>1
    <3> QED
      BY <3>1, <3>4, <3>5, DagOn
  <2>3. CASE BuildTask
    <3> DEFINE task == AirflowTask(at, ThisCall, counter')
    <3>1. /\ pc = "calls" /\ pc' = "calls" /\ at \in DOMAIN file.calls /\ at' = at + 1
          /\ tasks' = Keep(tasks, task) /\ holds' = << >> /\ ThisCall.task_id # Nothing
          /\ ThisCall.sql # "unreadable" /\ counter' \in Nat
      BY <2>3, <2>t, <2>h DEF BuildTask, TypeInv
    <3>2. Seen = 1..(at - 1) /\ Seen' = Seen \cup {at}
      BY <2>t, <3>1 DEF Seen
    <3>3. Met(tasks, Seen) /\ \A i \in Seen : i \in Nat /\ i <= at
      BY <1>b, <2>t, <3>1, <3>2 DEF DagInv
    <3>4. task \in Activity /\ task.id = ThisCall.task_id /\ task.from = at
      BY <1>b, <2>t, <3>1, AirflowTaskType, AirflowBuilt DEF ThisCall
    <3> HIDE DEF task
    <3>5. Met(tasks', Seen')
      <4>1. Met(Keep(tasks, task), Seen \cup {at})
        BY <3>1, <3>3, <3>4, MeetTask
      <4> QED
        BY <3>1, <3>2, <4>1
    <3>6. at' <= Len(file.calls) + 1
      BY <2>t, <3>1
    <3> QED
      BY <3>1, <3>5, <3>6, DagOn
  <2>4. CASE ReadRaises
    <3>1. pc' = "failed" /\ holds' = << >>
      BY <2>4, <2>h DEF ReadRaises
    <3> QED
      BY <3>1, DagOn
  <2>5. CASE CallsDone
    <3>1. /\ pc = "calls" /\ pc' = "chains" /\ at > Len(file.calls) /\ at' = 1 /\ tasks' = tasks
          /\ edges' = << >> /\ holds' = << >>
      BY <2>5, <2>h DEF CallsDone, PhaseInv
    <3>2. at = Len(file.calls) + 1
      BY <1>b, <2>t, <3>1 DEF DagInv
    <3>3. Seen = DOMAIN file.calls /\ Seen' = DOMAIN file.calls
      BY <2>t, <3>1, <3>2 DEF Seen
    <3>4. Met(tasks', Seen')
      BY <1>b, <3>1, <3>3 DEF DagInv
    <3>5. Range(edges') = Collected(at')
      BY <2>t, <3>1, CollectedFacts, NoneYet
    <3> QED
      BY <3>1, <3>4, <3>5, DagOn
  <2>6. CASE CollectLevel
    <3>1. /\ pc = "chains" /\ pc' = "chains" /\ edges' = edges \o Level /\ at' = at + 1 /\ tasks' = tasks
          /\ holds' = << >>
      BY <2>6, <2>h DEF CollectLevel, Level
    <3>2. Met(tasks', Seen')
      <4>1. Seen' = Seen
        BY <3>1 DEF Seen
      <4> QED
        BY <1>b, <3>1, <4>1 DEF DagInv
    <3>3. Range(edges') = Range(edges) \cup Range(Level)
      <4>1. edges \in Seq(Edge)
        BY DEF TypeInv
      <4>2. Level \in Seq(Edge)
        <5> DEFINE G == Given \X Given
        <5>1. G \subseteq Edge /\ Level \in Seq(G)
          BY <2>t, CallFacts, LevelFacts DEF Edge
        <5> HIDE DEF G
        <5> QED
          BY <5>1
      <4> QED
        BY <3>1, <4>1, <4>2, ConcatFacts
    <3>4. Range(edges') = Collected(at')
      BY <1>b, <2>t, <3>1, <3>3, CollectedFacts DEF DagInv
    <3> QED
      BY <3>1, <3>2, <3>4, DagOn
  <2>7. CASE AttachDependencies
    BY <2>7, AttachKept
  <2>8. ~ (OpenPipeline \/ SkipNonObject \/ SkipUnnamed \/ Visit \/ ClosePipeline \/ PipelinesDone)
    BY <1>b DEF PhaseInv, OpenPipeline, SkipNonObject, SkipUnnamed, Visit, ClosePipeline, PipelinesDone
  <2> QED
    BY <2>0, <2>1, <2>2, <2>3, <2>4, <2>5, <2>6, <2>7, <2>8 DEF Next
<1> QED
  BY <1>a, <1>b

-----------------------------------------------------------------------------
(* The invariant of every behaviour, and what follows from it.             *)

\* Nothing is read yet.
LEMMA InitHolds == Init => ReadersInv
<1> SUFFICES ASSUME Init PROVE ReadersInv
  OBVIOUS
<1>1. /\ file \in Files /\ pc = "can_read" /\ claimed = "unasked" /\ pipeline = 1 /\ pending = << >> /\ at = 1
      /\ tasks = << >> /\ counter = 0 /\ edges = << >> /\ holds = << >>
  BY DEF Init
<1>2. DOMAIN holds = {} /\ DOMAIN tasks = {} /\ ~Read /\ Len(holds) = 0
  BY <1>1 DEF Read
<1>3. TypeInv
  BY <1>1 DEF TypeInv
<1>4. PhaseInv
  BY <1>1 DEF PhaseInv
<1>5. BuiltInv
  BY <1>2 DEF BuiltInv
<1>6. WalkInv
  <2>1. Len(file.pipelines) \in Nat
    BY <1>1, NodeFacts
  <2> QED
    BY <1>1, <1>2, <2>1 DEF WalkInv
<1>7. DagInv
  <2>1. DependenciesAgree /\ LastDefinitionWins /\ RightChainsExact
    BY <1>2 DEF DependenciesAgree, LastDefinitionWins, RightChainsExact
  <2> QED
    BY <1>1, <1>2, <2>1 DEF DagInv, TasksAgree
<1> QED
  BY <1>3, <1>4, <1>5, <1>6, <1>7 DEF ReadersInv

\* What is said of a file half read holds of every state.
LEMMA ReadersInvariant == Spec => []ReadersInv
<1>1. ReadersInv /\ [Next]_vars => ReadersInv'
  <2> SUFFICES ASSUME ReadersInv, [Next]_vars PROVE ReadersInv'
    OBVIOUS
  <2>1. TypeInv /\ PhaseInv /\ BuiltInv /\ WalkInv /\ DagInv
    BY DEF ReadersInv
  <2>2. TypeInv' /\ file' = file
    BY <2>1, TypeKept
  <2>3. PhaseInv'
    BY <2>1, <2>2, PhaseKept
  <2>4. BuiltInv'
    BY <2>1, <2>2, BuiltKept
  <2>5. WalkInv'
    BY <2>1, <2>2, WalkKept
  <2>6. DagInv'
    BY <2>1, <2>2, DagKept
  <2> QED
    BY <2>2, <2>3, <2>4, <2>5, <2>6 DEF ReadersInv
<1> QED
  BY <1>1, InitHolds, PTL DEF Spec

\* Whatever the nesting of a pipeline, each of its named activities is built once,
\* numbered as the walk meets it, a container before what it holds (_walk_activities).
THEOREM EveryActivityAlwaysOnce == Spec => []EveryActivityOnce
<1>1. ReadersInv => EveryActivityOnce
  BY WholeFacts DEF ReadersInv
<1> QED
  BY <1>1, ReadersInvariant, PTL

\* Whatever a node or a call is made of, an activity without SQL text or connection
\* carries a warning, but for the empty list of an operator (_to_activity, _build_task).
THEOREM AlwaysExplained == Spec => []Explained
<1>1. ReadersInv => Explained
  BY ExplainedHolds DEF ReadersInv
<1> QED
  BY <1>1, ReadersInvariant, PTL

\* An edge of a pipeline and the depends_on of the activity it ends at never
\* disagree, and in a DAG an id is that of one task, the last one given it.
THEOREM TasksAlwaysAgree == Spec => []TasksAgree
<1>1. ASSUME ReadersInv PROVE TasksAgree
  <2>1. CASE ~IsAdf
    BY <1>1, <2>1 DEF ReadersInv, DagInv
  <2>2. CASE IsAdf
    <3>1. \A p \in DOMAIN holds : Joined(holds[p].activities, holds[p].edges)
      BY <1>1, <2>2 DEF ReadersInv, WalkInv, Whole
    <3>2. DependenciesAgree
      BY <2>2, <3>1 DEF DependenciesAgree, Joined
    <3> QED
      BY <2>2, <3>2 DEF TasksAgree, LastDefinitionWins
  <2> QED
    BY <2>1, <2>2
<1> QED
  BY <1>1, ReadersInvariant, PTL

\* However many chains and however long, as long as those of more than one operator
\* use >> alone, the edges read are those the file states (_emit_shift).
THEOREM RightChainsAlwaysExact == Spec => []RightChainsExact
<1>1. ASSUME ReadersInv PROVE RightChainsExact
  <2>1. CASE ~IsAdf
    BY <1>1, <2>1 DEF ReadersInv, DagInv
  <2>2. CASE IsAdf
    BY <2>2 DEF RightChainsExact
  <2> QED
    BY <2>1, <2>2
<1> QED
  BY <1>1, ReadersInvariant, PTL

=============================================================================
