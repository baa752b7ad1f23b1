------------------------- MODULE MCMessagesDeltaProofs -------------------------
(***************************************************************************)
(* Proofs about every pair of a history and a request, of any length and   *)
(* over any set of messages.                                               *)
(***************************************************************************)
EXTENDS MCMessagesDelta, MessagesDeltaProofs

TypeInv == existing \in Seq(Message) /\ incoming \in Seq(Message)

LEMMA TypeInit == Init => TypeInv
  BY EmptySeq DEF Init, TypeInv

LEMMA TypeNext == TypeInv /\ [Next]_<<existing, incoming>> => TypeInv'
<1> SUFFICES ASSUME TypeInv, [Next]_<<existing, incoming>> PROVE TypeInv'
  OBVIOUS
<1>1. CASE Persisted
  BY <1>1, AppendProperties DEF TypeInv, Persisted
<1>2. CASE Resent
  BY <1>2, AppendProperties DEF TypeInv, Resent
<1>3. CASE UNCHANGED <<existing, incoming>>
  BY <1>3 DEF TypeInv
<1> QED
  BY <1>1, <1>2, <1>3 DEF Next

\* The messages of a prefix, spelled out.
LEMMA PrefixConcat ==
    ASSUME NEW M, NEW s \in Seq(M), NEW t \in Seq(M), IsPrefix(s, t)
    PROVE  t = s \o Drop(t, Len(s))
<1>1. Len(s) \in Nat /\ Len(t) \in Nat /\ Len(s) <= Len(t)
  BY LenProperties DEF IsPrefix
<1>2. SubSeq(t, 1, Len(s)) = s
  BY SubSeqFull DEF IsPrefix
<1>3. SubSeq(t, 1, Len(s)) \o SubSeq(t, Len(s) + 1, Len(t)) = SubSeq(t, 1, Len(t))
  <2>1. 1 \in 1..(Len(t) + 1) /\ Len(s) \in (1 - 1)..Len(t) /\ Len(t) \in Len(s)..Len(t)
    BY <1>1
  <2> QED
    BY <2>1, ConcatAdjacentSubSeq
<1> QED
  BY <1>2, <1>3, SubSeqFull DEF Drop

\* Resending the whole history and then new messages appends the new messages
\* and nothing else, whatever repeats among them.
THEOREM WholeHistoryResentCorrect == Spec => []WholeHistoryResent
<1>1. TypeInv => WholeHistoryResent
  <2> SUFFICES ASSUME TypeInv, existing # <<>>, IsPrefix(existing, incoming)
               PROVE  existing \o Delta(existing, incoming) = incoming
    BY DEF WholeHistoryResent
  <2> DEFINE u == Drop(incoming, Len(existing))
  <2>1. incoming = existing \o u
    BY PrefixConcat DEF TypeInv
  <2>2. u \in Seq(Message)
    <3>1. Len(existing) \in 0..Len(incoming)
      BY LenProperties DEF TypeInv, IsPrefix
    <3> QED
      BY <3>1, DropProperties DEF TypeInv
  <2> HIDE DEF u
  <2>3. Delta(existing, existing \o u) = u
    BY <2>2, DeltaOfExtension DEF TypeInv
  <2> QED
    BY <2>1, <2>3
<1> QED
  BY <1>1, TypeInit, TypeNext, PTL DEF Spec

\* Resending a window of a history in which no message repeats appends exactly
\* the messages after the window.
THEOREM WindowResentCorrect == Spec => []WindowResent
<1>1. TypeInv => WindowResent
  <2> SUFFICES ASSUME TypeInv, NEW n \in Overlaps(existing, incoming),
                      IsInjective(existing \o Drop(incoming, n))
               PROVE  Delta(existing, incoming) = Drop(incoming, n)
    BY DEF WindowResent
  <2> DEFINE s == existing
             t == incoming
             p == CommonPrefix(s, t)
  <2>1. /\ s \in Seq(Message) /\ t \in Seq(Message)
        /\ Shorter(s, t) \in Nat /\ Shorter(s, t) <= Len(s) /\ Shorter(s, t) <= Len(t)
        /\ Len(s) \in Nat /\ Len(t) \in Nat
    BY ShorterType DEF TypeInv
  <2>2. /\ p \in 0..Shorter(s, t)
        /\ \A i \in 1..p : s[i] = t[i]
        /\ p < Shorter(s, t) => s[p + 1] # t[p + 1]
    BY <2>1, CommonPrefixProperties
  <2>3. n \in 1..Shorter(s, t) /\ \A i \in 1..n : s[Len(s) - n + i] = t[i]
    BY DEF Overlaps
  <2>4. ASSUME NEW i \in 1..Len(s), NEW j \in 1..Len(s), s[i] = s[j]
        PROVE  i = j
    <3>1. Drop(t, n) \in Seq(Message)
      BY <2>1, <2>3, DropProperties
    <3> DEFINE v == Drop(t, n)
    <3> HIDE DEF v
    <3>2. v \in Seq(Message) /\ IsInjective(s \o v)
      BY <3>1 DEF v
    <3>3. /\ s \o v \in Seq(Message) /\ Len(v) \in Nat
          /\ Len(s \o v) = Len(s) + Len(v)
          /\ (s \o v)[i] = s[i] /\ (s \o v)[j] = s[j]
      BY <2>1, <3>2, ConcatProperties, LenProperties
    <3>4. i \in DOMAIN (s \o v) /\ j \in DOMAIN (s \o v)
      BY <2>1, <3>3, LenProperties
    <3> QED
      BY <2>4, <3>2, <3>3, <3>4 DEF IsInjective
  <2> HIDE DEF s, t, p
  \* Every overlap starts where the request's first message stands.
  <2>5. ASSUME NEW m \in Overlaps(s, t) PROVE m = n
    <3>1. m \in 1..Shorter(s, t) /\ s[Len(s) - m + 1] = t[1]
      BY DEF Overlaps
    <3>2. s[Len(s) - n + 1] = t[1] /\ Len(s) - n + 1 \in 1..Len(s)
          /\ Len(s) - m + 1 \in 1..Len(s)
      BY <2>1, <2>3, <3>1
    <3>3. Len(s) - n + 1 = Len(s) - m + 1
      BY <2>4, <3>1, <3>2
    <3> QED
      BY <2>1, <2>3, <3>1, <3>3
  <2>6. CASE p > 0
    <3>1. s[1] = t[1] /\ s[Len(s) - n + 1] = t[1]
      BY <2>1, <2>2, <2>3, <2>6
    <3>2. Len(s) - n + 1 = 1
      <4>1. 1 \in 1..Len(s) /\ Len(s) - n + 1 \in 1..Len(s)
        BY <2>1, <2>3
      <4>2. s[Len(s) - n + 1] = s[1]
        BY <3>1
      <4> QED
        BY <2>4, <4>1, <4>2
    <3>3. n = Len(s) /\ Shorter(s, t) = n
      BY <2>1, <2>3, <3>2
    <3>4. p = n
      BY <2>1, <2>2, <2>3, <3>3
    <3> QED
      BY <2>6, <3>4 DEF Delta, s, t, p
  <2>7. CASE ~(p > 0)
    <3>1. Overlaps(s, t) = {n}
      BY <2>5 DEF s, t
    <3>2. (CHOOSE m \in Overlaps(s, t) : \A k \in Overlaps(s, t) : k <= m) = n
      BY <2>1, <2>3, <3>1
    <3> QED
      BY <2>7, <3>1, <3>2 DEF Delta, s, t, p
  <2> QED
    BY <2>6, <2>7
<1> QED
  BY <1>1, TypeInit, TypeNext, PTL DEF Spec
===============================================================================
