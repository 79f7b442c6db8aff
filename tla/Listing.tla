-------------------------------- MODULE Listing --------------------------------
(***************************************************************************)
(* Selecting, sorting and adding up the rows of a table, as list           *)
(* comprehensions, sorted() and sum() do. The arguments are sets and       *)
(* functions, so that a fact about one of these is a lemma.                *)
(***************************************************************************)
EXTENDS Integers, Sequences, FiniteSets, SequencesExt

\* The elements of s at the places I.
Kept(s, I) ==
    LET kept[n \in 0 .. Len(s)] ==
            IF n = 0 THEN <<>>
            ELSE IF n \in I THEN Append(kept[n - 1], s[n]) ELSE kept[n - 1]
    IN  kept[Len(s)]

\* The elements of s from the one with the least key; equals stay in order.
SortedBy(s, key) ==
    LET sorted[n \in 0 .. Len(s)] ==
            IF n = 0 THEN <<>>
            ELSE LET r == sorted[n - 1]
                     before == {i \in DOMAIN r : key[r[i]] <= key[s[n]]}
                 IN  InsertAt(r, Cardinality(before) + 1, s[n])
    IN  sorted[Len(s)]

First(n, s) == SubSeq(s, 1, Min({n, Len(s)}))

\* What f adds up to, and its mean, rounded to the nearest: halves go up where
\* Python goes to the even one.
SumOf(f) == FoldFunction(+, 0, f)
Rounded(n, d) == (2 * n + d) \div (2 * d)
Average(f) == Rounded(SumOf(f), Cardinality(DOMAIN f))
=============================================================================
