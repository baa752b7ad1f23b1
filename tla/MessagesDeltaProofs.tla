-------------------------- MODULE MessagesDeltaProofs --------------------------
(***************************************************************************)
(* What the merge of a request with the saved history returns, for every   *)
(* history and every request.                                              *)
(***************************************************************************)
EXTENDS MessagesDelta, InductionFacts

(***************************************************************************)
(* Dropping the start of a sequence.                                       *)
(***************************************************************************)
LEMMA DropProperties ==
    ASSUME NEW M, NEW s \in Seq(M), NEW n \in 0..Len(s)
    PROVE  /\ Drop(s, n) \in Seq(M)
           /\ Len(Drop(s, n)) = Len(s) - n
           /\ \A i \in 1..(Len(s) - n) : Drop(s, n)[i] = s[n + i]
<1>1. Len(s) \in Nat /\ n + 1 \in Int
      /\ \A i \in (n + 1)..Len(s) : s[i] \in M
  BY LenProperties, ElementOfSeq
<1>2. /\ SubSeq(s, n + 1, Len(s)) \in Seq(M)
      /\ Len(SubSeq(s, n + 1, Len(s)))
           = IF n + 1 <= Len(s) THEN Len(s) - (n + 1) + 1 ELSE 0
      /\ \A i \in 1..(Len(s) - (n + 1) + 1) :
           SubSeq(s, n + 1, Len(s))[i] = s[(n + 1) + i - 1]
  BY <1>1, SubSeqProperties
<1> QED
  BY <1>1, <1>2 DEF Drop

LEMMA DropConcat ==
    ASSUME NEW M, NEW s \in Seq(M), NEW u \in Seq(M)
    PROVE  Drop(s \o u, Len(s)) = u
<1>1. s \o u \in Seq(M) /\ Len(s \o u) = Len(s) + Len(u)
      /\ Len(s) \in Nat /\ Len(u) \in Nat
  BY ConcatProperties, LenProperties
<1>2. /\ Drop(s \o u, Len(s)) \in Seq(M)
      /\ Len(Drop(s \o u, Len(s))) = Len(u)
      /\ \A i \in 1..Len(u) : Drop(s \o u, Len(s))[i] = (s \o u)[Len(s) + i]
  <2> DEFINE v == s \o u
  <2>1. v \in Seq(M) /\ Len(s) \in 0..Len(v) /\ Len(v) - Len(s) = Len(u)
    BY <1>1
  <2> HIDE DEF v
  <2>2. /\ Drop(v, Len(s)) \in Seq(M) /\ Len(Drop(v, Len(s))) = Len(v) - Len(s)
        /\ \A i \in 1..(Len(v) - Len(s)) : Drop(v, Len(s))[i] = v[Len(s) + i]
    BY <2>1, DropProperties
  <2> QED
    BY <2>1, <2>2 DEF v
<1>3. ASSUME NEW i \in 1..Len(u) PROVE (s \o u)[Len(s) + i] = u[i]
  BY <1>1, ConcatProperties
<1> QED
  BY <1>2, <1>3, SeqEqual

(***************************************************************************)
(* The two lengths Delta chooses exist and are unique.                     *)
(***************************************************************************)
LEMMA ShorterType ==
    ASSUME NEW M, NEW s \in Seq(M), NEW t \in Seq(M)
    PROVE  Shorter(s, t) \in Nat /\ Shorter(s, t) <= Len(s) /\ Shorter(s, t) <= Len(t)
           /\ Len(s) \in Nat /\ Len(t) \in Nat
  BY LenProperties DEF Shorter

LEMMA CommonPrefixProperties ==
    ASSUME NEW M, NEW s \in Seq(M), NEW t \in Seq(M)
    PROVE  /\ CommonPrefix(s, t) \in 0..Shorter(s, t)
           /\ \A i \in 1..CommonPrefix(s, t) : s[i] = t[i]
           /\ CommonPrefix(s, t) < Shorter(s, t) =>
                s[CommonPrefix(s, t) + 1] # t[CommonPrefix(s, t) + 1]
<1> DEFINE b == Shorter(s, t)
           S == {k \in 0..b : k < b => s[k + 1] # t[k + 1]}
<1>1. b \in Nat
  BY ShorterType
<1>2. PICK k \in S : \A j \in S : k <= j
  <2>1. b \in S
    BY <1>1
  <2>2. S \in SUBSET Nat /\ S # {}
    BY <2>1
  <2> HIDE DEF S
  <2> QED
    BY <2>2, LeastNatural
<1>3. \A i \in 1..k : s[i] = t[i]
  <2> SUFFICES ASSUME NEW i \in 1..k PROVE s[i] = t[i]
    OBVIOUS
  <2>1. i - 1 \in 0..b /\ i - 1 < b /\ i - 1 \notin S
    BY <1>1, <1>2
  <2> QED
    BY <2>1
<1>4. \E n \in 0..Shorter(s, t) :
        /\ \A i \in 1..n : s[i] = t[i]
        /\ n < Shorter(s, t) => s[n + 1] # t[n + 1]
  BY <1>2, <1>3
<1> QED
  BY <1>4 DEF CommonPrefix

\* What the code keeps of a request: the messages after a part of its start that
\* the history contains, as its own start or as its end.
LEMMA DeltaIsDrop ==
    ASSUME NEW M, NEW s \in Seq(M), NEW t \in Seq(M)
    PROVE  \E n \in 0..Len(t), k \in 0..Len(s) :
             /\ Delta(s, t) = Drop(t, n)
             /\ n + k <= Len(s)
             /\ \A i \in 1..n : s[k + i] = t[i]
<1> DEFINE p == CommonPrefix(s, t)
           O == Overlaps(s, t)
<1>1. /\ Shorter(s, t) \in Nat /\ Shorter(s, t) <= Len(s) /\ Shorter(s, t) <= Len(t)
      /\ Len(s) \in Nat /\ Len(t) \in Nat
      /\ p \in 0..Shorter(s, t) /\ \A i \in 1..p : s[i] = t[i]
  BY ShorterType, CommonPrefixProperties
<1>2. CASE p > 0
  <2>1. Delta(s, t) = Drop(t, p)
    BY <1>2 DEF Delta
  <2> HIDE DEF p
  <2>2. p \in 0..Len(t) /\ 0 \in 0..Len(s) /\ p + 0 <= Len(s)
        /\ \A i \in 1..p : s[0 + i] = t[i]
    BY <1>1
  <2> QED
    BY <2>1, <2>2
<1>3. CASE ~(p > 0) /\ O # {}
  <2> DEFINE n == CHOOSE n \in O : \A m \in O : m <= n
  <2>1. O \in SUBSET 0..Shorter(s, t)
    BY <1>1 DEF Overlaps
  <2>2. \E m \in O : \A j \in O : j <= m
    <3> HIDE DEF O
    <3> QED
      BY <1>1, <1>3, <2>1, GreatestNatural
  <2>3. n \in O
    <3> HIDE DEF O
    <3> QED
      BY <2>2
  <2>4. Delta(s, t) = Drop(t, n)
    BY <1>3 DEF Delta
  <2> HIDE DEF n, p
  <2>5. n \in 1..Shorter(s, t) /\ \A i \in 1..n : s[Len(s) - n + i] = t[i]
    BY <2>3 DEF Overlaps
  <2>6. n \in 0..Len(t) /\ Len(s) - n \in 0..Len(s) /\ n + (Len(s) - n) <= Len(s)
    BY <1>1, <2>5
  <2> QED
    BY <2>4, <2>5, <2>6
<1>4. CASE ~(p > 0) /\ O = {}
  <2>1. Delta(s, t) = t
    BY <1>4 DEF Delta
  <2>2. Drop(t, 0) = t
    BY SubSeqFull DEF Drop
  <2> QED
    BY <1>1, <2>1, <2>2
<1> QED
  BY <1>2, <1>3, <1>4

(***************************************************************************)
(* What a caller may rely on.                                              *)
(***************************************************************************)

LEMMA DeltaType ==
    ASSUME NEW M, NEW s \in Seq(M), NEW t \in Seq(M)
    PROVE  Delta(s, t) \in Seq(M)
  BY DeltaIsDrop, DropProperties

\* When nothing is left of a request, the history has its last message.
LEMMA NothingNew ==
    ASSUME NEW M, NEW s \in Seq(M), NEW t \in Seq(M),
           t # <<>>, Delta(s, t) = <<>>
    PROVE  \E i \in 1..Len(s) : s[i] = t[Len(t)]
<1>1. PICK n \in 0..Len(t), k \in 0..Len(s) :
        Delta(s, t) = Drop(t, n) /\ n + k <= Len(s) /\ \A i \in 1..n : s[k + i] = t[i]
  BY DeltaIsDrop
<1>2. Len(s) \in Nat /\ Len(t) \in Nat /\ Len(t) >= 1
  BY LenProperties, EmptySeq
<1>3. n = Len(t)
  BY <1>1, <1>2, DropProperties
<1>4. k + n \in 1..Len(s) /\ s[k + n] = t[n]
  BY <1>1, <1>2, <1>3
<1> QED
  BY <1>3, <1>4

\* When something is left, it ends as the request does.
LEMMA NewestLast ==
    ASSUME NEW M, NEW s \in Seq(M), NEW t \in Seq(M),
           Delta(s, t) # <<>>
    PROVE  /\ Len(Delta(s, t)) \in 1..Len(t)
           /\ Delta(s, t)[Len(Delta(s, t))] = t[Len(t)]
<1>1. PICK n \in 0..Len(t) : Delta(s, t) = Drop(t, n)
  BY DeltaIsDrop
<1>2. Len(t) \in Nat /\ Len(Drop(t, n)) = Len(t) - n /\ Drop(t, n) \in Seq(M)
      /\ \A i \in 1..(Len(t) - n) : Drop(t, n)[i] = t[n + i]
  BY DropProperties, LenProperties
<1>3. Len(t) - n # 0
  BY <1>1, <1>2, EmptySeq
<1> QED
  BY <1>1, <1>2, <1>3

\* A request that resends the whole history leaves what follows it.
LEMMA DeltaOfExtension ==
    ASSUME NEW M, NEW s \in Seq(M), NEW u \in Seq(M), s # <<>>
    PROVE  Delta(s, s \o u) = u
<1> DEFINE t == s \o u
           p == CommonPrefix(s, t)
<1>1. /\ t \in Seq(M) /\ Len(t) = Len(s) + Len(u)
      /\ Len(s) \in Nat /\ Len(u) \in Nat /\ Len(s) >= 1
      /\ \A i \in 1..Len(s) : t[i] = s[i]
  BY ConcatProperties, LenProperties, EmptySeq
<1> HIDE DEF t
<1>2. Shorter(s, t) = Len(s)
  BY <1>1 DEF Shorter
<1>3. p \in 0..Len(s) /\ (p < Len(s) => s[p + 1] # t[p + 1])
  <2>1. t \in Seq(M)
    BY <1>1
  <2>2. /\ CommonPrefix(s, t) \in 0..Shorter(s, t)
        /\ CommonPrefix(s, t) < Shorter(s, t) =>
             s[CommonPrefix(s, t) + 1] # t[CommonPrefix(s, t) + 1]
    BY <2>1, CommonPrefixProperties
  <2> QED
    BY <1>2, <2>2
<1> HIDE DEF p
<1>4. p = Len(s)
  BY <1>1, <1>3
<1>5. Delta(s, t) = Drop(t, Len(s))
  BY <1>1, <1>4 DEF Delta, p
<1> QED
  BY <1>5, DropConcat DEF t

\* The first request of a thread is new as a whole.
LEMMA DeltaOfEmpty ==
    ASSUME NEW M, NEW t \in Seq(M)
    PROVE  Delta(<<>>, t) = t
<1>1. <<>> \in Seq(M) /\ Len(<<>>) = 0 /\ Len(t) \in Nat
  BY LenProperties, EmptySeq
<1>2. Shorter(<<>>, t) = 0
  BY <1>1 DEF Shorter
<1>3. CommonPrefix(<<>>, t) = 0
  <2>1. CommonPrefix(<<>>, t) \in 0..Shorter(<<>>, t)
    BY <1>1, CommonPrefixProperties
  <2> QED
    BY <1>2, <2>1
<1>4. Overlaps(<<>>, t) = {}
  BY <1>2 DEF Overlaps
<1> QED
  BY <1>3, <1>4 DEF Delta

\* A single message the history does not have is new.
LEMMA DeltaOfNewMessage ==
    ASSUME NEW M, NEW s \in Seq(M), NEW e \in M,
           \A i \in 1..Len(s) : s[i] # e
    PROVE  Delta(s, <<e>>) = <<e>>
<1>1. <<e>> \in Seq(M) /\ Len(<<e>>) = 1 /\ <<e>>[1] = e /\ <<e>> # <<>>
  OBVIOUS
<1>2. Delta(s, <<e>>) # <<>>
  BY <1>1, NothingNew
<1>3. Delta(s, <<e>>) \in Seq(M)
      /\ Len(Delta(s, <<e>>)) = 1 /\ Delta(s, <<e>>)[1] = e
  <2> DEFINE t == <<e>>
  <2>1. t \in Seq(M) /\ Len(t) = 1 /\ t[1] = e /\ Delta(s, t) # <<>>
    BY <1>1, <1>2
  <2> HIDE DEF t
  <2>2. /\ Delta(s, t) \in Seq(M) /\ Len(Delta(s, t)) \in 1..Len(t)
        /\ Delta(s, t)[Len(Delta(s, t))] = t[Len(t)]
    BY <2>1, NewestLast, DeltaType
  <2>3. Len(Delta(s, t)) = 1
    BY <2>1, <2>2
  <2>4. Delta(s, t)[1] = e
    BY <2>1, <2>2, <2>3, Zenon
  <2> QED
    BY <2>2, <2>3, <2>4 DEF t
<1> QED
  BY <1>1, <1>3, SeqEqual

\* A single message that the history ends with is not new.
LEMMA DeltaOfLastMessage ==
    ASSUME NEW M, NEW s \in Seq(M), NEW e \in M,
           s # <<>>, s[Len(s)] = e
    PROVE  Delta(s, <<e>>) = <<>>
<1> DEFINE t == <<e>>
           p == CommonPrefix(s, t)
           O == Overlaps(s, t)
<1>1. t \in Seq(M) /\ Len(t) = 1 /\ t[1] = e
      /\ Len(s) \in Nat /\ Len(s) >= 1
  BY LenProperties, EmptySeq
<1> HIDE DEF t
<1>2. Shorter(s, t) = 1
  BY <1>1 DEF Shorter
<1>3. Drop(t, 1) = <<>>
  <2>1. 1 \in 0..Len(t)
    BY <1>1
  <2>2. Drop(t, 1) \in Seq(M) /\ Len(Drop(t, 1)) = Len(t) - 1
    BY <1>1, <2>1, DropProperties
  <2>3. Len(Drop(t, 1)) = 0
    BY <1>1, <2>2
  <2> QED
    BY <2>2, <2>3, EmptySeq
<1>4. p \in 0..1
  BY <1>1, <1>2, CommonPrefixProperties
<1>5. O = {1}
  <2>1. O = {n \in 1..1 : \A i \in 1..n : s[Len(s) - n + i] = t[i]}
    BY <1>2 DEF Overlaps
  <2>2. \A i \in 1..1 : s[Len(s) - 1 + i] = t[i]
    BY <1>1
  <2> QED
    BY <2>1, <2>2
<1>6. (CHOOSE n \in O : \A m \in O : m <= n) = 1
  BY <1>5
<1>7. p > 0 => p = 1
  BY <1>4
<1>8. Delta(s, t) = Drop(t, 1)
  BY <1>4, <1>5, <1>6, <1>7 DEF Delta
<1> QED
  BY <1>3, <1>8 DEF t
===============================================================================
