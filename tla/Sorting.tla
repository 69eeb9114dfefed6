------------------------------- MODULE Sorting ------------------------------
(***************************************************************************)
(* Rows in order, as ORDER BY, LIMIT and OFFSET return them.               *)
(***************************************************************************)
EXTENDS Naturals, Sequences, FiniteSets

\* The members of a finite set in an order, which is a set of pairs: in place k stands who
\* has k - 1 members before it.
Sorted(S, order) ==
    [k \in 1 .. Cardinality(S) |->
        CHOOSE i \in S : Cardinality({j \in S : <<j, i>> \in order}) = k - 1]

\* As many of the rows as there are up to a limit, after those that are skipped.
Rows(all, offset, limit) ==
    SubSeq(all, offset + 1, IF Len(all) < offset + limit THEN Len(all) ELSE offset + limit)

\* All rows but that in place k.
AllBut(all, k) == SubSeq(all, 1, k - 1) \o SubSeq(all, k + 1, Len(all))

=============================================================================
