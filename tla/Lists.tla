-------------------------------- MODULE Lists --------------------------------
(***************************************************************************)
(* filter() on a list, which most of the code's lists go through.  It is   *)
(* SelectSeq with a set instead of a test, and a recursive function, so    *)
(* that ListLemmas can say what it does to every list.                     *)
(***************************************************************************)
EXTENDS Naturals, Sequences

\* What is kept of the first i elements, for every i.
KeptSoFar(s, P) ==
    LET kept[i \in 0 .. Len(s)] ==
            IF i = 0 THEN <<>>
            ELSE IF s[i] \in P THEN Append(kept[i - 1], s[i]) ELSE kept[i - 1]
    IN  kept

\* The elements of s that are in P, in their order.
Kept(s, P) == KeptSoFar(s, P)[Len(s)]

\* truncate(n)
Take(s, n) == SubSeq(s, 1, IF n < Len(s) THEN n ELSE Len(s))
=============================================================================
