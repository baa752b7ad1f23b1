------------------------------- MODULE SeqParts -------------------------------
(* The part of a sequence that is in a set.                                *)
EXTENDS Naturals, Sequences

\* The elements of s that are in K, in their order.  A recursive function, since
\* the provers know nothing of SelectSeq.
Part(s, K) ==
    LET part[n \in 0..Len(s)] ==
            IF n = 0 THEN <<>>
            ELSE IF s[n] \in K THEN Append(part[n - 1], s[n]) ELSE part[n - 1]
    IN  part[Len(s)]
===============================================================================
