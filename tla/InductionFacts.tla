---------------------------- MODULE InductionFacts ----------------------------
(***************************************************************************)
(* Induction over numbers and sequences in a form the provers can use: no  *)
(* fact here takes an operator, each speaks of the set of counterexamples  *)
(* to a claim and names a smallest one.                                    *)
(***************************************************************************)
EXTENDS SeqParts, SequenceTheorems, FiniteSetTheorems, TLAPS

\* A non-empty set of naturals has a least element, because the intervals 0..n
\* are well-founded under inclusion.
LEMMA LeastNatural ==
    ASSUME NEW S \in SUBSET Nat, S # {}
    PROVE  \E n \in S : \A m \in S : n <= m
<1> DEFINE T == {0..n : n \in S}
           R == StrictSubsetOrdering(Nat)
<1>1. IsWellFoundedOn(R, FiniteSubsetsOf(Nat))
  BY FS_StrictSubsetOrderingWellFounded
<1>2. T \subseteq FiniteSubsetsOf(Nat) /\ T # {}
  <2>1. ASSUME NEW n \in S PROVE 0..n \in FiniteSubsetsOf(Nat)
    <3>1. IsFiniteSet(0..n)
      BY FS_Interval
    <3> QED
      BY <3>1 DEF FiniteSubsetsOf
  <2> QED
    BY <2>1
<1>3. \E x \in T : \A y \in T : ~(<<y, x>> \in R)
  <2> HIDE DEF R, T
  <2> QED
    BY <1>1, <1>2, WFMin
<1>4. PICK n \in S : \A m \in S : ~(<<0..m, 0..n>> \in R)
  BY <1>3
<1>5. ASSUME NEW m \in S, m < n PROVE FALSE
  <2>1. 0..m \in SUBSET Nat /\ 0..n \in SUBSET Nat /\ 0..m \subseteq 0..n
    BY <1>5
  <2>2. n \in 0..n /\ n \notin 0..m
    BY <1>5
  <2>3. <<0..m, 0..n>> \in R
    BY <2>1, <2>2 DEF StrictSubsetOrdering
  <2> QED
    BY <2>3, <1>4
<1> QED
  BY <1>5

\* A non-empty set of naturals below a bound has a greatest element.
LEMMA GreatestNatural ==
    ASSUME NEW b \in Nat, NEW S \in SUBSET 0..b, S # {}
    PROVE  \E n \in S : \A m \in S : m <= n
<1> DEFINE T == {b - n : n \in S}
<1>1. T \in SUBSET Nat /\ T # {}
  <2>1. ASSUME NEW n \in S PROVE b - n \in Nat
    OBVIOUS
  <2> QED
    BY <2>1
<1>2. PICK k \in T : \A j \in T : k <= j
  <2> HIDE DEF T
  <2> QED
    BY <1>1, LeastNatural
<1>3. PICK n \in S : k = b - n
  BY DEF T
<1>4. ASSUME NEW m \in S PROVE m <= n
  <2>1. b - m \in T
    OBVIOUS
  <2>2. b - n <= b - m /\ m \in 0..b /\ n \in 0..b
    BY <1>2, <1>3, <2>1
  <2> QED
    BY <2>2
<1> QED
  BY <1>4

\* A non-empty set of sequences has one that is empty or is not in the set any
\* more without its last element.
LEMMA ShortestSequence ==
    ASSUME NEW M, NEW T \in SUBSET Seq(M), T # {}
    PROVE  \E t \in T : \/ t = <<>>
                       \/ \E u \in Seq(M), e \in M : t = Append(u, e) /\ u \notin T
<1> DEFINE S == {Len(t) : t \in T}
<1>1. S \in SUBSET Nat /\ S # {}
  <2>1. \A t \in T : Len(t) \in Nat
    BY LenProperties
  <2> QED
    BY <2>1
<1>2. PICK n \in S : \A m \in S : n <= m
  <2> HIDE DEF S
  <2> QED
    BY <1>1, LeastNatural
<1>3. PICK t \in T : n = Len(t)
  BY DEF S
<1>4. CASE t # <<>>
  <2>1. PICK u \in Seq(M), e \in M : t = Append(u, e)
    BY <1>4, SequenceEmptyOrAppend
  <2>2. Len(t) = Len(u) + 1 /\ Len(u) \in Nat
    BY <2>1, AppendProperties, LenProperties
  <2>3. u \notin T
    BY <1>2, <1>3, <2>2
  <2> QED
    BY <2>1, <2>3
<1> QED
  BY <1>4

(***************************************************************************)
(* What Part selects of a sequence.                                        *)
(***************************************************************************)

\* The recursion of Part.
Scan(g, s, K) ==
    g = [n \in 0..Len(s) |->
           IF n = 0 THEN <<>>
           ELSE IF s[n] \in K THEN Append(g[n - 1], s[n]) ELSE g[n - 1]]

LEMMA ScanOfAppend ==
    ASSUME NEW M, NEW s \in Seq(M), NEW e \in M, NEW K, NEW g, Scan(g, s, K)
    PROVE  \E h : Scan(h, Append(s, e), K)
<1> DEFINE t == Append(s, e)
           h == [n \in 0..Len(t) |->
                   IF n <= Len(s) THEN g[n]
                   ELSE IF e \in K THEN Append(g[Len(s)], e) ELSE g[Len(s)]]
<1>1. /\ Len(s) \in Nat /\ Len(t) = Len(s) + 1 /\ t[Len(s) + 1] = e
      /\ \A i \in 1..Len(s) : t[i] = s[i]
  BY AppendProperties, LenProperties
<1> HIDE DEF t
<1>2. \A n \in 0..Len(t) :
        h[n] = IF n = 0 THEN <<>>
               ELSE IF t[n] \in K THEN Append(h[n - 1], t[n]) ELSE h[n - 1]
  <2> SUFFICES ASSUME NEW n \in 0..Len(t)
               PROVE  h[n] = IF n = 0 THEN <<>>
                             ELSE IF t[n] \in K THEN Append(h[n - 1], t[n]) ELSE h[n - 1]
    OBVIOUS
  <2>1. CASE n = 0
    BY <1>1, <2>1 DEF Scan
  <2>2. CASE n \in 1..Len(s)
    <3>1. h[n] = g[n] /\ h[n - 1] = g[n - 1] /\ t[n] = s[n]
      BY <1>1, <2>2
    <3>2. n \in 0..Len(s) /\ n # 0
      BY <1>1, <2>2
    <3> HIDE DEF h
    <3>3. g[n] = IF s[n] \in K THEN Append(g[n - 1], s[n]) ELSE g[n - 1]
      BY <3>2 DEF Scan
    <3> QED
      BY <3>1, <3>2, <3>3
  <2>3. CASE n = Len(s) + 1
    BY <1>1, <2>3
  <2> QED
    BY <1>1, <2>1, <2>2, <2>3
<1>3. h = [n \in 0..Len(t) |->
             IF n = 0 THEN <<>>
             ELSE IF t[n] \in K THEN Append(h[n - 1], t[n]) ELSE h[n - 1]]
  BY <1>2
<1> HIDE DEF h
<1>4. Scan(h, t, K)
  BY <1>3 DEF Scan
<1> QED
  BY <1>4 DEF t

LEMMA ScanExists ==
    ASSUME NEW M, NEW s \in Seq(M), NEW K
    PROVE  \E g : Scan(g, s, K)
<1> DEFINE T == {t \in Seq(M) : ~\E g : Scan(g, t, K)}
<1> SUFFICES ASSUME T # {} PROVE FALSE
  OBVIOUS
<1>1. PICK t \in T : \/ t = <<>>
                     \/ \E u \in Seq(M), e \in M : t = Append(u, e) /\ u \notin T
  <2> HIDE DEF T
  <2> QED
    BY ShortestSequence DEF T
<1>2. CASE t = <<>>
  <2>1. Scan([n \in 0..0 |-> <<>>], <<>>, K)
    BY DEF Scan
  <2> QED
    BY <1>2, <2>1
<1>3. CASE \E u \in Seq(M), e \in M : t = Append(u, e) /\ u \notin T
  <2>1. PICK u \in Seq(M), e \in M : t = Append(u, e) /\ u \notin T
    BY <1>3
  <2>2. PICK g : Scan(g, u, K)
    BY <2>1
  <2>3. \E h : Scan(h, Append(u, e), K)
    BY <2>2, ScanOfAppend
  <2> QED
    BY <2>1, <2>3
<1> QED
  BY <1>1, <1>2, <1>3

\* Two scans agree as far as their sequences do.
LEMMA ScanUnique ==
    ASSUME NEW M, NEW s \in Seq(M), NEW t \in Seq(M), Len(s) <= Len(t),
           \A i \in 1..Len(s) : t[i] = s[i],
           NEW K, NEW g, NEW h, Scan(g, s, K), Scan(h, t, K)
    PROVE  \A n \in 0..Len(s) : h[n] = g[n]
<1> DEFINE S == {n \in 0..Len(s) : h[n] # g[n]}
<1> SUFFICES ASSUME S # {} PROVE FALSE
  OBVIOUS
<1>1. Len(s) \in Nat /\ Len(t) \in Nat
  BY LenProperties
<1>2. PICK n \in S : \A m \in S : n <= m
  <2>1. S \in SUBSET Nat
    BY <1>1
  <2> HIDE DEF S
  <2> QED
    BY <2>1, LeastNatural
<1>3. n \in 0..Len(s) /\ n \in 0..Len(t) /\ h[n] # g[n]
  BY <1>1
<1>4. /\ g[n] = IF n = 0 THEN <<>>
                ELSE IF s[n] \in K THEN Append(g[n - 1], s[n]) ELSE g[n - 1]
      /\ h[n] = IF n = 0 THEN <<>>
                ELSE IF t[n] \in K THEN Append(h[n - 1], t[n]) ELSE h[n - 1]
  BY <1>3 DEF Scan
<1>5. n # 0
  BY <1>3, <1>4
<1>6. n - 1 \in 0..Len(s) /\ n \in 1..Len(s) /\ ~(n <= n - 1)
  BY <1>1, <1>3, <1>5
<1>7. h[n - 1] = g[n - 1]
  BY <1>2, <1>6
<1> QED
  BY <1>3, <1>4, <1>5, <1>6, <1>7

LEMMA PartIsScan ==
    ASSUME NEW M, NEW s \in Seq(M), NEW K
    PROVE  \E g : Scan(g, s, K) /\ Part(s, K) = g[Len(s)]
<1>1. \E g : Scan(g, s, K)
  BY ScanExists
<1>2. Scan(CHOOSE g : Scan(g, s, K), s, K)
  BY <1>1
<1>3. Part(s, K) = (CHOOSE g : Scan(g, s, K))[Len(s)]
  BY Zenon DEF Part, Scan
<1> QED
  BY <1>2, <1>3

LEMMA PartOfEmpty == ASSUME NEW K PROVE Part(<<>>, K) = <<>>
<1>1. <<>> \in Seq({}) /\ Len(<<>>) = 0
  BY EmptySeq
<1>2. PICK g : Scan(g, <<>>, K) /\ Part(<<>>, K) = g[0]
  BY <1>1, PartIsScan
<1> QED
  BY <1>1, <1>2 DEF Scan

LEMMA PartOfAppend ==
    ASSUME NEW M, NEW s \in Seq(M), NEW e \in M, NEW K
    PROVE  Part(Append(s, e), K) = IF e \in K THEN Append(Part(s, K), e) ELSE Part(s, K)
<1> DEFINE t == Append(s, e)
<1>1. /\ t \in Seq(M) /\ Len(s) \in Nat /\ Len(t) = Len(s) + 1 /\ t[Len(s) + 1] = e
      /\ \A i \in 1..Len(s) : t[i] = s[i]
  BY AppendProperties, LenProperties
<1> HIDE DEF t
<1>2. PICK g : Scan(g, s, K) /\ Part(s, K) = g[Len(s)]
  BY PartIsScan
<1>3. PICK h : Scan(h, t, K) /\ Part(t, K) = h[Len(t)]
  BY <1>1, PartIsScan
<1>4. h[Len(s)] = g[Len(s)]
  <2>1. \A n \in 0..Len(s) : h[n] = g[n]
    BY <1>1, <1>2, <1>3, ScanUnique
  <2> QED
    BY <1>1, <2>1
<1>5. h[Len(t)] = IF e \in K THEN Append(h[Len(s)], e) ELSE h[Len(s)]
  <2>1. Len(t) \in 0..Len(t) /\ Len(t) # 0 /\ Len(t) - 1 = Len(s)
    BY <1>1
  <2>2. h[Len(t)] = IF t[Len(t)] \in K THEN Append(h[Len(t) - 1], t[Len(t)])
                                       ELSE h[Len(t) - 1]
    BY <1>3, <2>1 DEF Scan
  <2> QED
    BY <1>1, <2>1, <2>2
<1> QED
  BY <1>2, <1>3, <1>4, <1>5 DEF t

LEMMA PartType ==
    ASSUME NEW M, NEW s \in Seq(M), NEW K
    PROVE  Part(s, K) \in Seq(M)
<1> DEFINE T == {t \in Seq(M) : Part(t, K) \notin Seq(M)}
<1> SUFFICES ASSUME T # {} PROVE FALSE
  OBVIOUS
<1>1. PICK t \in T : \/ t = <<>>
                     \/ \E u \in Seq(M), e \in M : t = Append(u, e) /\ u \notin T
  <2> HIDE DEF T
  <2> QED
    BY ShortestSequence DEF T
<1>2. CASE t = <<>>
  BY <1>2, PartOfEmpty, EmptySeq
<1>3. ASSUME NEW u \in Seq(M), NEW e \in M, t = Append(u, e), u \notin T PROVE FALSE
  <2>1. Part(u, K) \in Seq(M)
    BY <1>3
  <2>2. Append(Part(u, K), e) \in Seq(M)
    BY <2>1, AppendProperties
  <2>3. Part(t, K) = IF e \in K THEN Append(Part(u, K), e) ELSE Part(u, K)
    BY <1>3, PartOfAppend
  <2> QED
    BY <2>1, <2>2, <2>3
<1> QED
  BY <1>1, <1>2, <1>3

\* An element as a sequence of its own: what Append adds, \o adds.
LEMMA OneMore ==
    ASSUME NEW M, NEW e \in M, NEW one, one = <<e>>
    PROVE  one \in Seq(M) /\ \A s \in Seq(M) : Append(s, e) = s \o one
<1>1. one \in Seq(M)
  OBVIOUS
<1>2. ASSUME NEW s \in Seq(M) PROVE Append(s, e) = s \o <<e>>
  BY AppendIsConcat
<1> QED
  BY <1>1, <1>2

\* What one more element adds to the part of s in K.
Selects(s, e, K) ==
    Part(s \o <<e>>, K) = IF e \in K THEN Part(s, K) \o <<e>> ELSE Part(s, K)

LEMMA PartOfOneMore ==
    ASSUME NEW M, NEW e \in M, NEW K
    PROVE  \A s \in Seq(M) : Selects(s, e, K)
<1> DEFINE one == <<e>>
<1> SUFFICES ASSUME NEW s \in Seq(M)
             PROVE  Part(s \o one, K) = IF e \in K THEN Part(s, K) \o one ELSE Part(s, K)
  BY DEF Selects
<1>1. Append(s, e) = s \o one
  BY OneMore
<1>2. Append(Part(s, K), e) = Part(s, K) \o one
  BY OneMore, PartType
<1>3. Part(Append(s, e), K) = IF e \in K THEN Append(Part(s, K), e) ELSE Part(s, K)
  BY PartOfAppend
<1> QED
  BY <1>1, <1>2, <1>3

\* Associativity of \o, stated once so that a step can name the instance it uses.
Associates(a, b, c) == (a \o b) \o c = a \o (b \o c)

LEMMA ConcatAssociates ==
    ASSUME NEW M
    PROVE  \A a, b, c \in Seq(M) : Associates(a, b, c)
  BY ConcatAssociative DEF Associates

LEMMA PartOfConcat ==
    ASSUME NEW M, NEW s \in Seq(M), NEW r \in Seq(M), NEW K
    PROVE  Part(s \o r, K) = Part(s, K) \o Part(r, K)
<1> DEFINE T == {t \in Seq(M) : Part(s \o t, K) # Part(s, K) \o Part(t, K)}
<1> SUFFICES ASSUME T # {} PROVE FALSE
  OBVIOUS
<1>1. PICK t \in T : \/ t = <<>>
                     \/ \E u \in Seq(M), e \in M : t = Append(u, e) /\ u \notin T
  <2> HIDE DEF T
  <2> QED
    BY ShortestSequence DEF T
<1>2. CASE t = <<>>
  <2>1. s \o <<>> = s /\ Part(s, K) \o <<>> = Part(s, K)
    BY PartType, ConcatEmptySeq
  <2> QED
    BY <1>2, <2>1, PartOfEmpty
<1>3. ASSUME NEW u \in Seq(M), NEW e \in M, t = Append(u, e), u \notin T PROVE FALSE
  <2> DEFINE one == <<e>>
             su == s \o u
             ps == Part(s, K)
             pu == Part(u, K)
  <2>2. Part(su, K) = ps \o pu /\ Part(s \o t, K) # ps \o Part(t, K)
    BY <1>3
  <2> HIDE DEF T
  <2>1. one \in Seq(M) /\ t = u \o one
    BY <1>3, OneMore
  <2>3. \A x \in Seq(M) : Selects(x, e, K)
    BY <1>3, PartOfOneMore
  <2>4. su \in Seq(M) /\ ps \in Seq(M) /\ pu \in Seq(M)
    BY <1>3, PartType, ConcatProperties
  <2> HIDE DEF one
  <2>5. s \o t = su \o one
    <3>1. Associates(s, u, one)
      BY <1>3, <2>1, ConcatAssociates
    <3> QED
      BY <2>1, <3>1 DEF Associates
  <2> HIDE DEF su, ps, pu
  <2>6. (ps \o pu) \o one = ps \o (pu \o one)
    <3>1. Associates(ps, pu, one)
      BY <2>1, <2>4, ConcatAssociates
    <3> QED
      BY <3>1 DEF Associates
  <2>7. Part(su \o one, K) = IF e \in K THEN Part(su, K) \o one ELSE Part(su, K)
    <3>1. Selects(su, e, K)
      BY <2>3, <2>4
    <3> QED
      BY <3>1 DEF Selects, one
  <2>8. Part(t, K) = IF e \in K THEN pu \o one ELSE pu
    <3>1. Selects(u, e, K)
      BY <1>3, <2>3
    <3> QED
      BY <2>1, <3>1 DEF Selects, one, pu
  <2> QED
    BY <2>2, <2>5, <2>6, <2>7, <2>8
<1> QED
  BY <1>1, <1>2, <1>3

\* Whatever is selected was there, and is in the set.
LEMMA PartElements ==
    ASSUME NEW M, NEW s \in Seq(M), NEW K
    PROVE  \A i \in 1..Len(Part(s, K)) :
              Part(s, K)[i] \in K /\ \E j \in 1..Len(s) : s[j] = Part(s, K)[i]
<1> DEFINE Good(t) == \A i \in 1..Len(Part(t, K)) :
              Part(t, K)[i] \in K /\ \E j \in 1..Len(t) : t[j] = Part(t, K)[i]
           T == {t \in Seq(M) : ~Good(t)}
<1> SUFFICES ASSUME T # {} PROVE FALSE
  OBVIOUS
<1>1. PICK t \in T : \/ t = <<>>
                     \/ \E u \in Seq(M), e \in M : t = Append(u, e) /\ u \notin T
  <2> HIDE DEF T
  <2> QED
    BY ShortestSequence DEF T
<1>2. CASE t = <<>>
  <2>1. Part(t, K) = <<>> /\ Len(Part(t, K)) = 0
    BY <1>2, PartOfEmpty
  <2>2. Good(t)
    BY <2>1
  <2> QED
    BY <2>2
<1>3. ASSUME NEW u \in Seq(M), NEW e \in M, t = Append(u, e), u \notin T PROVE FALSE
  <2> DEFINE p == Part(u, K)
             q == Part(t, K)
  <2>1. p \in Seq(M) /\ Len(p) \in Nat
    BY PartType, LenProperties
  <2>2. /\ Len(t) = Len(u) + 1 /\ Len(u) \in Nat /\ t[Len(u) + 1] = e
        /\ \A j \in 1..Len(u) : t[j] = u[j]
    BY <1>3, AppendProperties, LenProperties
  <2>3. q = IF e \in K THEN Append(p, e) ELSE p
    BY <1>3, PartOfAppend
  <2>4. Good(u)
    BY <1>3
  <2> HIDE DEF p, q
  <2>5. ASSUME NEW i \in 1..Len(q)
        PROVE  q[i] \in K /\ \E j \in 1..Len(t) : t[j] = q[i]
    <3>1. CASE i \in 1..Len(p) /\ q[i] = p[i]
      <4>1. PICK j \in 1..Len(u) : u[j] = p[i]
        BY <2>4, <3>1 DEF p
      <4>2. j \in 1..Len(t) /\ t[j] = q[i]
        BY <2>2, <3>1, <4>1
      <4>3. q[i] \in K
        BY <2>4, <3>1 DEF p
      <4> QED
        BY <4>2, <4>3
    <3>2. CASE e \in K /\ q[i] = e
      <4>1. Len(t) \in 1..Len(t) /\ t[Len(t)] = e
        BY <2>2
      <4> QED
        BY <3>2, <4>1
    <3>3. \/ i \in 1..Len(p) /\ q[i] = p[i]
          \/ e \in K /\ q[i] = e
      <4>1. CASE e \in K
        <5>1. /\ Len(q) = Len(p) + 1 /\ q[Len(p) + 1] = e
              /\ \A k \in 1..Len(p) : q[k] = p[k]
          BY <2>1, <2>3, <4>1, AppendProperties
        <5> QED
          BY <2>1, <2>5, <4>1, <5>1
      <4>2. CASE e \notin K
        BY <2>3, <2>5, <4>2
      <4> QED
        BY <4>1, <4>2
    <3> QED
      BY <3>1, <3>2, <3>3
  <2>6. Good(t)
    BY <2>5 DEF q
  <2> QED
    BY <2>6
<1> QED
  BY <1>1, <1>2, <1>3

\* A sequence in the set is selected whole.
LEMMA PartOfAll ==
    ASSUME NEW M, NEW s \in Seq(M), NEW K, \A i \in 1..Len(s) : s[i] \in K
    PROVE  Part(s, K) = s
<1> DEFINE T == {t \in Seq(M) : (\A i \in 1..Len(t) : t[i] \in K) /\ Part(t, K) # t}
<1> SUFFICES ASSUME T # {} PROVE FALSE
  OBVIOUS
<1>1. PICK t \in T : \/ t = <<>>
                     \/ \E u \in Seq(M), e \in M : t = Append(u, e) /\ u \notin T
  <2> HIDE DEF T
  <2> QED
    BY ShortestSequence DEF T
<1>2. CASE t = <<>>
  BY <1>2, PartOfEmpty
<1>3. ASSUME NEW u \in Seq(M), NEW e \in M, t = Append(u, e), u \notin T PROVE FALSE
  <2>1. /\ Len(t) = Len(u) + 1 /\ Len(u) \in Nat /\ t[Len(u) + 1] = e
        /\ \A j \in 1..Len(u) : t[j] = u[j]
    BY <1>3, AppendProperties, LenProperties
  <2>2. \A i \in 1..Len(t) : t[i] \in K
    BY <1>1
  <2>3. e \in K /\ \A i \in 1..Len(u) : u[i] \in K
    <3>1. Len(t) \in 1..Len(t) /\ \A i \in 1..Len(u) : i \in 1..Len(t)
      BY <2>1
    <3> QED
      BY <2>1, <2>2, <3>1
  <2>4. Part(u, K) = u
    BY <1>3, <2>3
  <2>5. Part(t, K) = t
    BY <1>3, <2>3, <2>4, PartOfAppend
  <2> QED
    BY <2>5
<1> QED
  BY <1>1, <1>2, <1>3
===============================================================================
