---------------------------- MODULE ContentProofs ---------------------------
(* Proofs about MCContent and all its parts: those of ContentRequestsProofs,  *)
(* and paging, favorites, records of trips, search, recommendations,          *)
(* generated plans and the order of stops; and the types of them all, for     *)
(* any number of rows, images, requests, users and readers.                   *)
EXTENDS ContentRequestsProofs

-----------------------------------------------------------------------------
(* Sequences in an order, pages of them, and the least of a set.           *)

\* A strict order of the members of S, as a set of pairs, in which no two are equal.
Orders(R, S) ==
    /\ \A i, j \in S : <<i, j>> \in R => <<j, i>> \notin R
    /\ \A i, j, k \in S : <<i, j>> \in R /\ <<j, k>> \in R => <<i, k>> \in R
    /\ \A i, j \in S : i = j \/ <<i, j>> \in R \/ <<j, i>> \in R

\* seq has the members of S in the order R.
InTheOrder(seq, R, S) ==
       /\ seq \in Seq(S) /\ Len(seq) = Cardinality(S)
       /\ \A i \in S : \E k \in 1 .. Len(seq) : seq[k] = i
       /\ \A a, b \in 1 .. Len(seq) : a < b => <<seq[a], seq[b]>> \in R

\* The number of those before it is the rank of a member: later members have a higher
\* one, and each number below that of the members is the rank of one.
LEMMA Ranks ==
    ASSUME NEW S, IsFiniteSet(S), NEW R, Orders(R, S),
           NEW before \in [S -> SUBSET S], \A i, j \in S : j \in before[i] <=> <<j, i>> \in R
    PROVE  /\ Cardinality(S) \in Nat
           /\ \A i \in S : Cardinality(before[i]) \in 0 .. Cardinality(S) - 1
           /\ \A i, j \in S : <<i, j>> \in R => Cardinality(before[i]) < Cardinality(before[j])
           /\ \A k \in 0 .. Cardinality(S) - 1 : \E i \in S : Cardinality(before[i]) = k
<1> DEFINE n == Cardinality(S)
           rank == [i \in S |-> Cardinality(before[i])]
<1>1. n \in Nat /\ n = Cardinality(S)
  BY FS_CardinalityType
<1>2. \A i \in S : rank[i] = Cardinality(before[i])
  OBVIOUS
<1>3. rank = [i \in S |-> rank[i]]
  OBVIOUS
<1> HIDE DEF n, rank
<1>4. ASSUME NEW i \in S
      PROVE  IsFiniteSet(before[i]) /\ rank[i] = Cardinality(before[i]) /\ rank[i] \in 0 .. n - 1
  <2>1. before[i] \in SUBSET (S \ {i}) /\ rank[i] = Cardinality(before[i])
    BY <1>2 DEF Orders
  <2>2. IsFiniteSet(S \ {i}) /\ Cardinality(S \ {i}) = n - 1
    BY <1>1, FS_RemoveElement
  <2>3. IsFiniteSet(before[i]) /\ Cardinality(before[i]) <= Cardinality(S \ {i})
    BY <2>1, <2>2, FS_Subset
  <2>4. Cardinality(before[i]) \in Nat
    BY <2>3, FS_CardinalityType
  <2> QED
    BY <1>1, <2>1, <2>2, <2>3, <2>4
<1>5. ASSUME NEW i \in S, NEW j \in S, <<i, j>> \in R PROVE rank[i] < rank[j]
  <2>1. before[i] \in SUBSET before[j] /\ i \in before[j] /\ i \notin before[i]
    BY <1>5 DEF Orders
  <2>2. IsFiniteSet(before[j]) /\ rank[i] = Cardinality(before[i]) /\ rank[j] = Cardinality(before[j])
        /\ rank[i] \in Int /\ rank[j] \in Int
    BY <1>4
  <2>3. before[i] # before[j]
    BY <2>1
  <2>4. rank[i] <= rank[j] /\ rank[i] # rank[j]
    BY <2>1, <2>2, <2>3, FS_Subset
  <2> QED
    BY <2>2, <2>4
<1>6. rank \in [S -> 0 .. n - 1]
  BY <1>4, <1>3
<1>7. rank \in Surjection(S, 0 .. n - 1)
  <2>1. ASSUME NEW i \in S, NEW j \in S, rank[i] = rank[j] PROVE i = j
    <3>1. rank[i] \in Int
      BY <1>6
    <3>2. ~ (rank[i] < rank[j]) /\ ~ (rank[j] < rank[i])
      BY <2>1, <3>1
    <3> QED
      BY <3>2, <1>5 DEF Orders
  <2>2. rank \in Injection(S, 0 .. n - 1)
    BY <1>6, <2>1 DEF Injection, IsInjective
  <2>3. 0 \in Int /\ n - 1 \in Int
    BY <1>1
  <2>4. /\ IsFiniteSet(0 .. n - 1)
        /\ Cardinality(0 .. n - 1) = IF 0 > n - 1 THEN 0 ELSE n - 1 - 0 + 1
    BY <2>3, FS_Interval
  <2>5. Cardinality(0 .. n - 1) = n
    BY <1>1, <2>4
  <2> QED
    BY <1>1, <2>2, <2>4, <2>5, FS_Injection
<1>8. \A k \in 0 .. n - 1 : \E i \in S : rank[i] = k
  BY <1>7 DEF Surjection
<1> QED
  BY <1>1, <1>4, <1>5, <1>6, <1>8, <1>2

\* Who has k - 1 members before it stands in place k: such a sequence is in order.
LEMMA InOrderByRank ==
    ASSUME NEW S, IsFiniteSet(S), NEW R, Orders(R, S),
           NEW before \in [S -> SUBSET S], \A i, j \in S : j \in before[i] <=> <<j, i>> \in R,
           NEW seq \in [1 .. Cardinality(S) -> S],
           \A k \in 1 .. Cardinality(S) : Cardinality(before[seq[k]]) = k - 1
    PROVE  InTheOrder(seq, R, S)
<1> DEFINE n == Cardinality(S)
           rank(i) == Cardinality(before[i])
<1>1. n \in Nat /\ n = Cardinality(S)
  BY FS_CardinalityType
<1>2. /\ \A i \in S : rank(i) \in 0 .. n - 1
      /\ \A i, j \in S : <<i, j>> \in R => rank(i) < rank(j)
  BY Ranks
<1>3. \A k \in 1 .. n : seq[k] \in S /\ rank(seq[k]) = k - 1
  OBVIOUS
<1>4. seq \in [1 .. n -> S]
  OBVIOUS
<1> HIDE DEF n, rank
<1>5. seq \in Seq(S) /\ Len(seq) = n
  BY <1>1, <1>4
<1>6. ASSUME NEW i \in S, NEW j \in S, rank(i) = rank(j) PROVE i = j
  <2>1. rank(i) \in Int /\ ~ (rank(i) < rank(j)) /\ ~ (rank(j) < rank(i))
    BY <1>2, <1>6
  <2> QED
    BY <1>2, <2>1 DEF Orders
<1>7. ASSUME NEW i \in S PROVE \E k \in 1 .. n : seq[k] = i
  <2> DEFINE k == rank(i) + 1
  <2>1. k \in 1 .. n /\ k - 1 = rank(i)
    BY <1>1, <1>2
  <2> HIDE DEF k
  <2>2. seq[k] \in S /\ rank(seq[k]) = k - 1
    BY <2>1, <1>3
  <2>3. seq[k] = i
    BY <2>1, <2>2, <1>6
  <2> QED
    BY <2>1, <2>3
<1>8. ASSUME NEW a \in 1 .. n, NEW b \in 1 .. n, a < b PROVE <<seq[a], seq[b]>> \in R
  <2>1. seq[a] \in S /\ seq[b] \in S /\ rank(seq[a]) = a - 1 /\ rank(seq[b]) = b - 1
    BY <1>3
  <2>2. ~ (rank(seq[b]) < rank(seq[a])) /\ seq[a] # seq[b]
    BY <1>8, <2>1
  <2> QED
    BY <1>2, <2>1, <2>2 DEF Orders
<1> QED
  BY <1>1, <1>5, <1>7, <1>8 DEF InTheOrder


\* In place k of a sorted set stands who has k - 1 members before it.
ByRank(S, R, before) ==
    /\ before \in [S -> SUBSET S] /\ \A i, j \in S : j \in before[i] <=> <<j, i>> \in R
    /\ Sorted(S, R) \in [1 .. Cardinality(S) -> S]
    /\ \A k \in 1 .. Cardinality(S) : Cardinality(before[Sorted(S, R)[k]]) = k - 1

LEMMA SortedByRank ==
    ASSUME NEW S, IsFiniteSet(S), NEW R, Orders(R, S)
    PROVE  ByRank(S, R, [i \in S |-> {j \in S : <<j, i>> \in R}])
<1> DEFINE n == Cardinality(S)
           before == [i \in S |-> {j \in S : <<j, i>> \in R}]
           spot(k) == CHOOSE i \in S : Cardinality({j \in S : <<j, i>> \in R}) = k - 1
           seq == Sorted(S, R)
<1>1. before \in [S -> SUBSET S] /\ \A i, j \in S : j \in before[i] <=> <<j, i>> \in R
  OBVIOUS
<1>2. seq = [k \in 1 .. n |-> spot(k)]
  BY DEF Sorted
<1>3. \A k : (\E i \in S : Cardinality(before[i]) = k - 1) =>
          spot(k) \in S /\ Cardinality(before[spot(k)]) = k - 1
  OBVIOUS
<1>d. n = Cardinality(S)
  OBVIOUS
<1> HIDE DEF n, spot, before, seq
<1>4. n \in Nat /\ \A k \in 0 .. n - 1 : \E i \in S : Cardinality(before[i]) = k
  BY <1>1, <1>d, Ranks
<1>5. ASSUME NEW k \in 1 .. n PROVE spot(k) \in S /\ Cardinality(before[spot(k)]) = k - 1
  <2>1. k - 1 \in 0 .. n - 1
    BY <1>4
  <2> QED
    BY <2>1, <1>3, <1>4
<1>6. seq \in [1 .. n -> S] /\ \A k \in 1 .. n : Cardinality(before[seq[k]]) = k - 1
  BY <1>2, <1>5
<1>7. ByRank(S, R, before)
  BY <1>1, <1>6, <1>d DEF ByRank, seq
<1> QED
  BY <1>7 DEF before

\* Rows come in the order asked for.
LEMMA SortedInOrder ==
    ASSUME NEW S, IsFiniteSet(S), NEW R, Orders(R, S)
    PROVE  InTheOrder(Sorted(S, R), R, S)
<1> PICK before : ByRank(S, R, before)
  BY SortedByRank
<1> QED
  BY InOrderByRank DEF ByRank

\* A sequence over a set is one over a larger set.
LEMMA WiderSeq ==
    ASSUME NEW S, NEW T, S \subseteq T, NEW seq \in Seq(S)
    PROVE  seq \in Seq(T) /\ \A k \in 1 .. Len(seq) : seq[k] \in S
<1>1. Len(seq) \in Nat /\ \A k \in 1 .. Len(seq) : seq[k] \in S
  OBVIOUS
<1>2. seq = [k \in 1 .. Len(seq) |-> seq[k]]
  OBVIOUS
<1>3. [k \in 1 .. Len(seq) |-> seq[k]] \in [1 .. Len(seq) -> T]
  BY <1>1
<1> QED
  BY <1>1, <1>2, <1>3

\* The rows that come after those skipped.
Excerpt(S, all, offset, n, many) ==
    LET m == IF Len(all) < offset + n THEN Len(all) - offset ELSE n
    IN  /\ m \in Nat /\ offset + m <= Len(all)
        /\ many \in Seq(S) /\ Len(many) = m
        /\ \A k \in 1 .. m : offset + k \in 1 .. Len(all) /\ many[k] = all[offset + k]

LEMMA RowsAre ==
    ASSUME NEW S, NEW all \in Seq(S), NEW offset \in Nat, offset <= Len(all), NEW n \in Nat
    PROVE  Excerpt(S, all, offset, n, Rows(all, offset, n))
<1> DEFINE m == IF Len(all) < offset + n THEN Len(all) - offset ELSE n
           last == offset + m
<1>1. Len(all) \in Nat /\ \A k \in 1 .. Len(all) : all[k] \in S
  OBVIOUS
<1>2. m \in Nat /\ last \in Nat /\ last <= Len(all) /\ last = offset + m
  BY <1>1
<1>3. Rows(all, offset, n) = SubSeq(all, offset + 1, last)
  BY <1>1 DEF Rows
<1> HIDE DEF m, last
<1>4. offset + 1 \in Int /\ last \in Int /\ \A k \in offset + 1 .. last : all[k] \in S
  BY <1>1, <1>2
<1>5. /\ SubSeq(all, offset + 1, last) \in Seq(S)
      /\ Len(SubSeq(all, offset + 1, last)) =
            IF offset + 1 <= last THEN last - (offset + 1) + 1 ELSE 0
      /\ \A k \in 1 .. last - (offset + 1) + 1 :
            SubSeq(all, offset + 1, last)[k] = all[offset + 1 + k - 1]
  BY <1>4, SubSeqProperties
<1>6. /\ last - (offset + 1) + 1 = m /\ (offset + 1 <= last \/ m = 0)
      /\ \A k \in 1 .. m : offset + 1 + k - 1 = offset + k /\ offset + k \in 1 .. Len(all)
  BY <1>1, <1>2
<1>7. Len(SubSeq(all, offset + 1, last)) = m
  BY <1>2, <1>5, <1>6
<1>8. \A k \in 1 .. m : SubSeq(all, offset + 1, last)[k] = all[offset + k]
  BY <1>5, <1>6
<1> QED
  BY <1>2, <1>3, <1>5, <1>6, <1>7, <1>8 DEF m, Excerpt

\* As many as there are up to a limit: the first, and all if there are no more.
FirstFew(S, R, limit, some) ==
    /\ some \in Seq(S)
    /\ \A i \in S :
          \/ \E k \in 1 .. Len(some) : some[k] = i
          \/ Len(some) = limit /\ \A k \in 1 .. Len(some) : <<some[k], i>> \in R

LEMMA FirstRows ==
    ASSUME NEW S, NEW R, NEW all, InTheOrder(all, R, S), NEW limit \in Nat \ {0}
    PROVE  FirstFew(S, R, limit, Rows(all, 0, limit))
<1> DEFINE some == Rows(all, 0, limit)
           m == IF Len(all) < 0 + limit THEN Len(all) - 0 ELSE limit
<1>1. all \in Seq(S) /\ Len(all) \in Nat /\ 0 \in Nat /\ 0 <= Len(all)
  BY DEF InTheOrder
<1>2. m \in Nat /\ m <= Len(all) /\ (m # Len(all) => m = limit)
  BY <1>1
<1>3. /\ some \in Seq(S) /\ Len(some) = m
      /\ \A k \in 1 .. m : 0 + k \in 1 .. Len(all) /\ some[k] = all[0 + k]
  <2>1. Excerpt(S, all, 0, limit, some)
    BY <1>1, RowsAre
  <2> QED
    BY <2>1 DEF Excerpt
<1>4. \A k \in 1 .. m : k \in 1 .. Len(all) /\ some[k] = all[k]
  BY <1>2, <1>3
<1>5. \A i \in S : \E k \in 1 .. Len(all) : all[k] = i
  BY DEF InTheOrder
<1>6. \A k, l \in 1 .. Len(all) : k < l => <<all[k], all[l]>> \in R
  BY DEF InTheOrder
<1> HIDE DEF some, m
<1>7. ASSUME NEW i \in S
      PROVE  \/ \E k \in 1 .. m : some[k] = i
             \/ m = limit /\ \A k \in 1 .. m : <<some[k], i>> \in R
  <2>1. PICK l \in 1 .. Len(all) : all[l] = i
    BY <1>5
  <2>2. CASE l <= m
    BY <2>1, <2>2, <1>2, <1>4
  <2>3. CASE m < l
    <3>1. m = limit
      BY <2>3, <1>1, <1>2
    <3>2. ASSUME NEW k \in 1 .. m PROVE <<some[k], i>> \in R
      <4>1. k < l /\ k \in 1 .. Len(all) /\ some[k] = all[k]
        BY <2>3, <1>1, <1>2, <1>4
      <4> QED
        BY <4>1, <2>1, <1>6
    <3> QED
      BY <3>1, <3>2
  <2> QED
    BY <2>2, <2>3, <1>1, <1>2
<1>8. FirstFew(S, R, limit, some)
  BY <1>3, <1>7 DEF FirstFew
<1> QED
  BY <1>8 DEF some

\* What is shown after a page that has nothing of what was shown before.
Joined(S, old, some, new) ==
    /\ new \in Seq(S)
    /\ \A k, l \in 1 .. Len(new) : new[k] = new[l] => k = l
    /\ \A k \in 1 .. Len(new) : \/ \E l \in 1 .. Len(old) : new[k] = old[l]
                                \/ \E l \in 1 .. Len(some) : new[k] = some[l]
    /\ \A l \in 1 .. Len(old) : \E k \in 1 .. Len(new) : new[k] = old[l]
    /\ \A l \in 1 .. Len(some) : \E k \in 1 .. Len(new) : new[k] = some[l]

LEMMA PageAdded ==
    ASSUME NEW S, NEW old \in Seq(S), \A k, l \in 1 .. Len(old) : old[k] = old[l] => k = l,
           NEW some \in Seq(S), \A k, l \in 1 .. Len(some) : some[k] = some[l] => k = l,
           \A k \in 1 .. Len(old), l \in 1 .. Len(some) : old[k] # some[l],
           NEW new, new = old \o some
    PROVE  Joined(S, old, some, new)
<1>1. Len(old) \in Nat /\ Len(some) \in Nat
  OBVIOUS
<1>2. /\ new \in Seq(S) /\ Len(new) = Len(old) + Len(some)
      /\ \A k \in 1 .. Len(new) :
            new[k] = IF k <= Len(old) THEN old[k] ELSE some[k - Len(old)]
  BY ConcatProperties
<1>3. ASSUME NEW k \in 1 .. Len(new)
      PROVE  IF k <= Len(old) THEN k \in 1 .. Len(old) ELSE k - Len(old) \in 1 .. Len(some)
  BY <1>1, <1>2
<1>4. \A k, l \in 1 .. Len(new) : new[k] = new[l] => k = l
  <2> SUFFICES ASSUME NEW k \in 1 .. Len(new), NEW l \in 1 .. Len(new), new[k] = new[l]
               PROVE  k = l
    OBVIOUS
  <2>1. CASE k <= Len(old) /\ l <= Len(old)
    BY <2>1, <1>2, <1>3
  <2>2. CASE ~ (k <= Len(old)) /\ ~ (l <= Len(old))
    <3>1. k - Len(old) = l - Len(old)
      BY <2>2, <1>2, <1>3
    <3> QED
      BY <3>1, <1>1, <1>2
  <2>3. CASE (k <= Len(old)) # (l <= Len(old))
    BY <2>3, <1>2, <1>3
  <2> QED
    BY <2>1, <2>2, <2>3
<1>5. ASSUME NEW l \in 1 .. Len(old) PROVE l \in 1 .. Len(new) /\ new[l] = old[l]
  BY <1>1, <1>2
<1>6. ASSUME NEW l \in 1 .. Len(some)
      PROVE  Len(old) + l \in 1 .. Len(new) /\ new[Len(old) + l] = some[l]
  <2>1. Len(old) + l \in 1 .. Len(new) /\ ~ (Len(old) + l <= Len(old)) /\ Len(old) + l - Len(old) = l
    BY <1>1, <1>2
  <2> QED
    BY <2>1, <1>2
<1> QED
  BY <1>2, <1>3, <1>4, <1>5, <1>6 DEF Joined

\* A sequence without the one in place i.
Shorter(S, s, i, rest) ==
    /\ rest \in Seq(S) /\ Len(rest) = Len(s) - 1
    /\ \A k \in 1 .. Len(rest) : rest[k] = IF k < i THEN s[k] ELSE s[k + 1]

Removed(s, i) == SubSeq(s, 1, i - 1) \o SubSeq(s, i + 1, Len(s))

LEMMA ShorterSeq ==
    ASSUME NEW S, NEW s \in Seq(S), NEW i \in 1 .. Len(s)
    PROVE  Shorter(S, s, i, Removed(s, i))
<1> DEFINE head == SubSeq(s, 1, i - 1)
           tail == SubSeq(s, i + 1, Len(s))
           rest == Removed(s, i)
<1>1. Len(s) \in Nat /\ i \in Nat /\ \A k \in 1 .. Len(s) : s[k] \in S
  OBVIOUS
<1>2. /\ 1 \in Int /\ i - 1 \in Int /\ \A k \in 1 .. i - 1 : s[k] \in S
      /\ i + 1 \in Int /\ Len(s) \in Int /\ \A k \in i + 1 .. Len(s) : s[k] \in S
  BY <1>1
<1>3. /\ head \in Seq(S) /\ Len(head) = IF 1 <= i - 1 THEN i - 1 - 1 + 1 ELSE 0
      /\ \A k \in 1 .. i - 1 - 1 + 1 : head[k] = s[1 + k - 1]
  BY <1>2, SubSeqProperties
<1>4. /\ tail \in Seq(S) /\ Len(tail) = IF i + 1 <= Len(s) THEN Len(s) - (i + 1) + 1 ELSE 0
      /\ \A k \in 1 .. Len(s) - (i + 1) + 1 : tail[k] = s[i + 1 + k - 1]
  BY <1>2, SubSeqProperties
<1>r. rest = head \o tail
  BY DEF Removed
<1> HIDE DEF head, tail, rest
<1>5. /\ Len(head) = i - 1 /\ Len(tail) = Len(s) - i
      /\ i - 1 - 1 + 1 = i - 1 /\ Len(s) - (i + 1) + 1 = Len(s) - i
  BY <1>1, <1>3, <1>4
<1>6. \A k \in 1 .. i - 1 : head[k] = s[k]
  <2>1. \A k \in 1 .. i - 1 : 1 + k - 1 = k
    BY <1>1
  <2> QED
    BY <1>3, <1>5, <2>1
<1>7. \A k \in 1 .. Len(s) - i : tail[k] = s[i + k]
  <2>1. \A k \in 1 .. Len(s) - i : i + 1 + k - 1 = i + k
    BY <1>1
  <2> QED
    BY <1>4, <1>5, <2>1
<1>8. /\ rest \in Seq(S) /\ Len(rest) = Len(head) + Len(tail)
      /\ \A k \in 1 .. Len(rest) : rest[k] = IF k <= Len(head) THEN head[k] ELSE tail[k - Len(head)]
  <2>1. head \in Seq(S) /\ tail \in Seq(S)
    BY <1>3, <1>4
  <2> QED
    BY <2>1, <1>r, ConcatProperties
<1>9. Len(rest) = Len(s) - 1
  <2>1. Len(rest) = Len(head) + Len(tail)
    BY <1>8
  <2> QED
    BY <1>1, <1>5, <2>1
<1>10. ASSUME NEW k \in 1 .. Len(rest) PROVE rest[k] = IF k < i THEN s[k] ELSE s[k + 1]
  <2>1. CASE k < i
    <3>1. k \in 1 .. i - 1 /\ k <= Len(head)
      BY <2>1, <1>1, <1>5
    <3> QED
      BY <2>1, <3>1, <1>6, <1>8
  <2>2. CASE ~ (k < i)
    <3>1. /\ k - Len(head) \in 1 .. Len(s) - i /\ ~ (k <= Len(head))
          /\ i + (k - Len(head)) = k + 1
      BY <2>2, <1>1, <1>5, <1>9
    <3> QED
      BY <2>2, <3>1, <1>7, <1>8
  <2> QED
    BY <2>1, <2>2
<1>11. Shorter(S, s, i, rest)
  BY <1>8, <1>9, <1>10 DEF Shorter
<1> QED
  BY <1>11 DEF rest

\* If its members are distinct, it has all but the one.
LessOne(s, i, rest) ==
    /\ \A k, l \in 1 .. Len(rest) : rest[k] = rest[l] => k = l
    /\ \A x : (\E k \in 1 .. Len(rest) : rest[k] = x)
                  <=> x # s[i] /\ \E k \in 1 .. Len(s) : s[k] = x

LEMMA ShorterHas ==
    ASSUME NEW S, NEW s \in Seq(S), \A k, l \in 1 .. Len(s) : s[k] = s[l] => k = l,
           NEW i \in 1 .. Len(s), NEW rest, Shorter(S, s, i, rest)
    PROVE  LessOne(s, i, rest)
<1>1. Len(s) \in Nat /\ i \in Nat /\ Len(rest) = Len(s) - 1
  BY DEF Shorter
<1> DEFINE from(k) == IF k < i THEN k ELSE k + 1
<1>2. ASSUME NEW k \in 1 .. Len(rest) PROVE from(k) \in 1 .. Len(s) /\ rest[k] = s[from(k)] /\ from(k) # i
  BY <1>1 DEF Shorter
<1>3. \A k, l \in 1 .. Len(rest) : from(k) = from(l) => k = l
  BY <1>1
<1>4. ASSUME NEW m \in 1 .. Len(s), m # i PROVE \E k \in 1 .. Len(rest) : from(k) = m
  <2>1. CASE m < i
    BY <2>1, <1>1
  <2>2. CASE i < m
    <3>1. m - 1 \in 1 .. Len(rest) /\ from(m - 1) = m
      BY <2>2, <1>1
    <3> QED
      BY <3>1
  <2> QED
    BY <2>1, <2>2, <1>1, <1>4
<1> HIDE DEF from
<1>5. \A k, l \in 1 .. Len(rest) : rest[k] = rest[l] => k = l
  BY <1>2, <1>3
<1>6. ASSUME NEW x PROVE (\E k \in 1 .. Len(rest) : rest[k] = x)
                            <=> x # s[i] /\ \E k \in 1 .. Len(s) : s[k] = x
  <2>1. ASSUME NEW k \in 1 .. Len(rest), rest[k] = x
        PROVE  x # s[i] /\ \E m \in 1 .. Len(s) : s[m] = x
    BY <2>1, <1>2
  <2>2. ASSUME x # s[i], NEW m \in 1 .. Len(s), s[m] = x
        PROVE  \E k \in 1 .. Len(rest) : rest[k] = x
    <3>1. PICK k \in 1 .. Len(rest) : from(k) = m
      BY <2>2, <1>4
    <3> QED
      BY <2>2, <3>1, <1>2
  <2> QED
    BY <2>1, <2>2
<1> QED
  BY <1>5, <1>6 DEF LessOne

\* A set of naturals has a least member.
LEMMA LeastOf ==
    ASSUME NEW S \in SUBSET Nat, S # {}
    PROVE  \E x \in S : \A y \in S : x <= y
<1>1. PICK x \in S : \A y \in S : ~ (<<y, x>> \in OpToRel(<, Nat))
  BY NatLessThanWellFounded, WFMin
<1>2. ASSUME NEW y \in S PROVE x <= y
  <2>1. ~ (y < x)
    BY <1>1 DEF OpToRel
  <2> QED
    BY <2>1
<1> QED
  BY <1>2

-----------------------------------------------------------------------------
(* FeedPaging: lists by cursor.                                            *)

LEMMA SamePagingCardinality == \A S : Paging!Cardinality(S) = Cardinality(S)
BY DEF Paging!Cardinality, Cardinality

ClientRecord ==
    [cursor : {<<>>} \union ((1 .. MaxTime) \X Items), shown : Seq(Items), kept : SUBSET Items,
     done : BOOLEAN]

\* Nothing shown is behind the cursor; what was there all along has been shown or is.
ReadSoFar ==
    /\ client.cursor = <<>> /\ ~ client.done => client.shown = <<>>
    /\ client.cursor # <<>> =>
          \A m \in DOMAIN client.shown :
              ~ Paging!Before(client.cursor, Paging!Key(client.shown[m]))
    /\ \A i \in client.kept :
          /\ item[i].visible
          /\ \/ \E m \in DOMAIN client.shown : client.shown[m] = i
             \/ ~ client.done /\ Paging!Behind(i)

\* What was ever shown has a time.
Timed ==
    /\ \A i \in Items : item[i].visible => item[i].time # 0
    /\ \A m \in DOMAIN client.shown : item[client.shown[m]].time # 0

PagingInv ==
    Paging!TypeOK /\ client \in ClientRecord /\ Timed /\ ReadSoFar /\ Paging!NothingTwice

\* The keys of the items, and of cursors.
Keys == Nat \X Items

LEMMA KeysOrdered ==
    ASSUME ListAssumptions
    PROVE  /\ \A k, l \in Keys : Paging!Before(k, l) => ~ Paging!Before(l, k)
           /\ \A k, l, m \in Keys : Paging!Before(k, l) /\ Paging!Before(l, m) => Paging!Before(k, m)
           /\ \A k, l \in Keys : k = l \/ Paging!Before(k, l) \/ Paging!Before(l, k)
<1>1. Items \subseteq Nat
  BY DEF ListAssumptions
<1>2. \A k \in Keys : k[1] \in Nat /\ k[2] \in Nat /\ k = <<k[1], k[2]>>
  <2>1. \A k \in Keys : k[1] \in Nat /\ k[2] \in Items /\ k = <<k[1], k[2]>>
    BY DEF Keys
  <2> QED
    BY <1>1, <2>1
<1>3. \A k, l \in Keys : Paging!Before(k, l) => ~ Paging!Before(l, k)
  BY <1>2 DEF Paging!Before
<1>4. \A k, l, m \in Keys : Paging!Before(k, l) /\ Paging!Before(l, m) => Paging!Before(k, m)
  BY <1>2 DEF Paging!Before
<1>5. \A k, l \in Keys : k = l \/ Paging!Before(k, l) \/ Paging!Before(l, k)
  BY <1>2 DEF Paging!Before
<1> QED
  BY <1>3, <1>4, <1>5

\* The pairs of items of which the first is listed first.
Earlier(F) == {p \in F \X F : Paging!Before(Paging!Key(p[1]), Paging!Key(p[2]))}

LEMMA EarlierOrders ==
    ASSUME ListAssumptions, \A i \in Items : item[i].time \in Nat, NEW F \in SUBSET Items
    PROVE  Orders(Earlier(F), F)
<1>1. \A i \in F : Paging!Key(i) \in Keys
  BY DEF Paging!Key, Keys
<1>2. \A i, j \in F : Paging!Key(i) = Paging!Key(j) => i = j
  BY DEF Paging!Key
<1>3. \A i, j \in F : <<i, j>> \in Earlier(F) <=> Paging!Before(Paging!Key(i), Paging!Key(j))
  BY DEF Earlier
<1> QED
  BY <1>1, <1>2, <1>3, KeysOrdered DEF Orders

LEMMA SamePagingSorted == \A S, R : Paging!Sorted(S, R) = Sorted(S, R)
BY DEF Paging!Sorted, Sorted, Paging!Cardinality, Cardinality

LEMMA FoundInOrder ==
    ASSUME NEW F, IsFiniteSet(F), Orders(Earlier(F), F)
    PROVE  InTheOrder(Paging!InListOrder(F), Earlier(F), F)
<1>1. Paging!InListOrder(F) = Sorted(F, Earlier(F))
  BY SamePagingSorted DEF Paging!InListOrder, Earlier
<1> QED
  BY <1>1, SortedInOrder

\* The members of a sequence in order are distinct.
LEMMA InOrderDistinct ==
    ASSUME NEW S, NEW R, Orders(R, S), NEW seq, InTheOrder(seq, R, S)
    PROVE  /\ Len(seq) \in Nat
           /\ \A k \in 1 .. Len(seq) : seq[k] \in S
           /\ \A k, l \in 1 .. Len(seq) : seq[k] = seq[l] => k = l
<1>1. seq \in Seq(S)
  BY DEF InTheOrder
<1>2. Len(seq) \in Nat /\ \A k \in 1 .. Len(seq) : seq[k] \in S
  BY <1>1
<1>3. \A k, l \in 1 .. Len(seq) : k < l => seq[k] # seq[l]
  BY <1>2 DEF InTheOrder, Orders
<1> QED
  BY <1>2, <1>3

\* A page is the beginning of what was found; there is another if more was found, and then
\* all the rest comes after the last on the page.
FirstOf(S, R, limit, many, some) ==
    /\ some \in Seq(S)
    /\ \A k, l \in 1 .. Len(some) : some[k] = some[l] => k = l
    /\ IF Len(many) > limit
       THEN /\ many[limit] \in S
            /\ \A k \in 1 .. Len(some) : some[k] = many[limit] \/ <<some[k], many[limit]>> \in R
            /\ \A i \in S : (\E k \in 1 .. Len(some) : some[k] = i) \/ <<many[limit], i>> \in R
       ELSE \A i \in S : \E k \in 1 .. Len(some) : some[k] = i

LEMMA PageOf ==
    ASSUME NEW S, NEW R, Orders(R, S), NEW found, InTheOrder(found, R, S),
           NEW limit \in Nat \ {0}, NEW many,
           many = Rows(found, 0, limit + 1),
           NEW some, some = Rows(many, 0, limit)
    PROVE  FirstOf(S, R, limit, many, some)
<1> DEFINE m == IF Len(found) < limit + 1 THEN Len(found) ELSE limit + 1
           p == IF m > limit THEN limit ELSE m
<1>1. found \in Seq(S) /\ Len(found) \in Nat
  BY DEF InTheOrder
<1>a. \A k \in 1 .. Len(found) : found[k] \in S
  BY InOrderDistinct
<1>b. \A k, l \in 1 .. Len(found) : found[k] = found[l] => k = l
  BY InOrderDistinct
<1>c. \A k, l \in 1 .. Len(found) : k < l => <<found[k], found[l]>> \in R
  BY DEF InTheOrder
<1>9. ASSUME NEW i \in S PROVE \E k \in 1 .. Len(found) : found[k] = i
  BY DEF InTheOrder
<1>2. m \in 0 .. Len(found) /\ p \in 0 .. m /\ p \in 0 .. Len(found)
      /\ (m > limit => p = limit /\ p \in 1 .. Len(found)) /\ (~ (m > limit) => p = Len(found))
  BY <1>1
<1>3. many = SubSeq(found, 1, m)
  BY DEF Rows
<1> HIDE DEF m
<1>4. many \in Seq(S) /\ Len(many) = m /\ \A k \in 1 .. m : many[k] = found[k]
  <2>1. limit + 1 \in Nat /\ 0 \in Nat /\ 0 <= Len(found)
    BY <1>1
  <2>2. Excerpt(S, found, 0, limit + 1, many)
    BY <1>1, <2>1, RowsAre
  <2>3. m = IF Len(found) < 0 + (limit + 1) THEN Len(found) - 0 ELSE limit + 1
    BY <1>1 DEF m
  <2>4. \A k \in 1 .. m : 0 + k = k
    BY <1>2
  <2> QED
    BY <2>2, <2>3, <2>4 DEF Excerpt
<1>5. some = SubSeq(many, 1, p)
  BY <1>4, <1>1, <1>2 DEF Rows
<1> HIDE DEF p
<1>6. some \in Seq(S) /\ Len(some) = p /\ \A k \in 1 .. p : some[k] = many[k]
  BY <1>2, <1>4, <1>5, SubSeqProperties
<1>7. \A k \in 1 .. p : k \in 1 .. Len(found) /\ some[k] = found[k] /\ found[k] \in S
  BY <1>1, <1>2, <1>4, <1>6, <1>a
<1>8. \A k, l \in 1 .. p : some[k] = some[l] => k = l
  BY <1>7, <1>b
<1>10. CASE m > limit
  <2>1. many[limit] = found[p] /\ p \in 1 .. Len(found) /\ found[p] \in S
    BY <1>10, <1>1, <1>2, <1>4, <1>7
  <2>2. ASSUME NEW k \in 1 .. p PROVE some[k] = found[p] \/ <<some[k], found[p]>> \in R
    <3>1. CASE k < p
      BY <3>1, <1>7, <2>1, <1>c
    <3>2. CASE k = p
      BY <3>2, <1>7
    <3>3. k \in Int /\ p \in Int /\ k <= p
      BY <2>1, <1>1
    <3>4. k < p \/ k = p
      BY <3>3
    <3> QED
      BY <3>1, <3>2, <3>4
  <2>3. ASSUME NEW i \in S PROVE (\E k \in 1 .. p : some[k] = i) \/ <<found[p], i>> \in R
    <3>1. PICK k \in 1 .. Len(found) : found[k] = i
      BY <1>9
    <3>2. CASE k <= p
      BY <3>1, <3>2, <1>2, <1>7
    <3>3. CASE p < k
      BY <3>1, <3>3, <2>1, <1>c
    <3> QED
      BY <3>2, <3>3, <1>2
  <2> QED
    BY <1>4, <1>6, <1>8, <1>10, <2>1, <2>2, <2>3 DEF FirstOf
<1>11. CASE ~ (m > limit)
  BY <1>11, <1>2, <1>4, <1>6, <1>7, <1>8, <1>9 DEF FirstOf
<1> QED
  BY <1>10, <1>11 DEF FirstOf

LEMMA ReadPageStep ==
    ASSUME ListAssumptions, PagingInv, NEW limit \in PageSizes, Paging!ReadPage(limit)
    PROVE  PagingInv'
<1> DEFINE F == {i \in Items : item[i].visible /\ Paging!Behind(i)}
           R == Earlier(F)
           found == Paging!InListOrder(F)
           many == Rows(found, 0, limit + 1)
           some == Rows(many, 0, limit)
           next == IF Len(many) > limit THEN Paging!Key(many[limit]) ELSE <<>>
           new == client.shown \o some
<1>1. /\ client = [cursor |-> client.cursor, shown |-> client.shown, kept |-> client.kept,
                   done |-> client.done]
      /\ client.cursor \in {<<>>} \union ((1 .. MaxTime) \X Items)
      /\ client.shown \in Seq(Items) /\ client.kept \in SUBSET Items /\ ~ client.done
      /\ \A m, n \in DOMAIN client.shown : client.shown[m] = client.shown[n] => m = n
  BY DEF PagingInv, ClientRecord, Paging!NothingTwice, Paging!ReadPage
<1>2. /\ client' = [cursor |-> next, shown |-> new, kept |-> client.kept, done |-> next = <<>>]
      /\ item' = item /\ clock' = clock /\ list' = list
  <2>1. many = Paging!findManyWithCursor(limit) /\ next = Paging!nextCursor(many, limit)
    BY DEF Paging!findManyWithCursor, Paging!nextCursor, Paging!Shown, Paging!Rows, Rows
  <2>2. some = Paging!Rows(many, 0, limit)
    BY DEF Paging!Rows, Rows
  <2> HIDE DEF next, many, some
  <2> QED
    BY <1>1, <2>1, <2>2 DEF Paging!ReadPage
<1>3. limit \in Nat \ {0} /\ Items \subseteq Nat /\ F \in SUBSET Items /\ IsFiniteSet(F)
  BY FS_Subset DEF ListAssumptions
<1>4. \A i \in Items : item[i].time \in 0 .. MaxTime
  BY DEF PagingInv, Paging!TypeOK
<1>5. \A i \in F : item[i].visible /\ Paging!Behind(i) /\ item[i].time \in 1 .. MaxTime
  BY <1>4 DEF PagingInv, Timed, ListAssumptions
<1>6. \A i \in Items : item[i].visible /\ Paging!Behind(i) => i \in F
  OBVIOUS
<1>7. MaxTime \in Nat
  BY DEF ListAssumptions
<1>k. \A i \in F : Paging!Key(i) \in Keys
  BY <1>3, <1>5 DEF Paging!Key, Keys
<1> HIDE DEF F
<1>8. Orders(R, F)
  <2>1. \A i \in Items : item[i].time \in Nat
    BY <1>4, <1>7
  <2>2. Orders(Earlier(F), F)
    BY <1>3, <2>1, EarlierOrders
  <2> QED
    BY <2>2
<1>9. InTheOrder(found, R, F)
  BY <1>3, <1>8, FoundInOrder
<1>10. \A i, j \in F : <<i, j>> \in R <=> Paging!Before(Paging!Key(i), Paging!Key(j))
  BY DEF Earlier
<1>r. many = Rows(found, 0, limit + 1)
  OBVIOUS
<1>p. some = Rows(many, 0, limit)
  OBVIOUS
<1> DEFINE last == many[limit]
           more == Len(many) > limit
<1>12. next = IF more THEN Paging!Key(last) ELSE <<>>
  OBVIOUS
<1> HIDE DEF R, found, many, some, next, more, last
<1>11. FirstOf(F, R, limit, many, some)
  BY <1>3, <1>8, <1>9, <1>r, <1>p, PageOf
<1>a. more => /\ last \in F
              /\ \A k \in 1 .. Len(some) : some[k] = last \/ <<some[k], last>> \in R
              /\ \A i \in F : (\E k \in 1 .. Len(some) : some[k] = i) \/ <<last, i>> \in R
  BY <1>11 DEF FirstOf, more, last
<1>b. ~ more => \A i \in F : \E k \in 1 .. Len(some) : some[k] = i
  BY <1>11 DEF FirstOf, more
<1>n. new = client.shown \o some
  OBVIOUS
<1> HIDE DEF new
<1>c. some \in Seq(F) /\ \A k, l \in 1 .. Len(some) : some[k] = some[l] => k = l
  BY <1>11 DEF FirstOf
<1>13. some \in Seq(Items) /\ \A k \in 1 .. Len(some) : some[k] \in F
  BY <1>3, <1>c, WiderSeq
<1>14. \A k \in DOMAIN client.shown : k \in 1 .. Len(client.shown) /\ client.shown[k] \in Items
  BY <1>1
<1>15. ASSUME NEW k \in 1 .. Len(client.shown) PROVE client.shown[k] \notin F
  <2>1. k \in DOMAIN client.shown
    BY <1>1
  <2>2. client.cursor # <<>>
    BY <1>1, <2>1 DEF PagingInv, ReadSoFar
  <2>3. ~ Paging!Before(client.cursor, Paging!Key(client.shown[k]))
    BY <2>1, <2>2 DEF PagingInv, ReadSoFar
  <2> QED
    BY <2>2, <2>3, <1>5 DEF Paging!Behind
<1>16. /\ new \in Seq(Items)
       /\ \A k, l \in 1 .. Len(new) : new[k] = new[l] => k = l
       /\ \A k \in 1 .. Len(new) : \/ \E l \in 1 .. Len(client.shown) : new[k] = client.shown[l]
                                   \/ \E l \in 1 .. Len(some) : new[k] = some[l]
       /\ \A l \in 1 .. Len(client.shown) : \E k \in 1 .. Len(new) : new[k] = client.shown[l]
       /\ \A l \in 1 .. Len(some) : \E k \in 1 .. Len(new) : new[k] = some[l]
  <2>1. \A k, l \in 1 .. Len(client.shown) : client.shown[k] = client.shown[l] => k = l
    BY <1>1
  <2>2. \A k \in 1 .. Len(client.shown), l \in 1 .. Len(some) : client.shown[k] # some[l]
    BY <1>13, <1>15
  <2>3. client.shown \in Seq(Items) /\ \A k, l \in 1 .. Len(some) : some[k] = some[l] => k = l
    BY <1>1, <1>c
  <2>4. Joined(Items, client.shown, some, new)
    BY <1>13, <1>n, <2>1, <2>2, <2>3, PageAdded
  <2> QED
    BY <2>4 DEF Joined
<1>17. DOMAIN new = 1 .. Len(new) /\ DOMAIN client.shown = 1 .. Len(client.shown)
  BY <1>1, <1>16
<1>18. next \in {<<>>} \union ((1 .. MaxTime) \X Items)
  BY <1>3, <1>5, <1>a, <1>12 DEF Paging!Key
<1>19. client' \in ClientRecord /\ Paging!TypeOK'
  <2>1. (next = <<>>) \in BOOLEAN
    OBVIOUS
  <2> QED
    BY <1>1, <1>2, <1>16, <1>18, <2>1 DEF ClientRecord, PagingInv, Paging!TypeOK
<1>20. Paging!NothingTwice'
  BY <1>2, <1>16, <1>17 DEF Paging!NothingTwice
<1>21. Timed'
  <2>1. \A l \in 1 .. Len(some) : item[some[l]].time # 0
    BY <1>13, <1>5, <1>7
  <2>2. \A l \in 1 .. Len(client.shown) : item[client.shown[l]].time # 0
    BY <1>17 DEF PagingInv, Timed
  <2>3. ASSUME NEW k \in 1 .. Len(new) PROVE item[new[k]].time # 0
    <3>1. CASE \E l \in 1 .. Len(some) : new[k] = some[l]
      BY <2>1, <3>1
    <3>2. CASE \E l \in 1 .. Len(client.shown) : new[k] = client.shown[l]
      BY <2>2, <3>2
    <3> QED
      BY <1>16, <3>1, <3>2
  <2> QED
    BY <1>2, <1>17, <2>3 DEF PagingInv, Timed
<1>22. ReadSoFar'
  <2>1. (client.cursor = <<>> /\ ~ client.done => client.shown = <<>>)'
    BY <1>2
  <2>2. ASSUME next # <<>>, NEW k \in 1 .. Len(new)
        PROVE  ~ Paging!Before(next, Paging!Key(new[k]))
    <3>1. more /\ next = Paging!Key(last) /\ last \in F /\ next \in Keys
      BY <2>2, <1>k, <1>a, <1>12
    <3>2. CASE \E l \in 1 .. Len(some) : new[k] = some[l]
      <4>1. PICK l \in 1 .. Len(some) : new[k] = some[l]
        BY <3>2
      <4>2. some[l] \in F /\ Paging!Key(some[l]) \in Keys
            /\ (some[l] = last \/ <<some[l], last>> \in R)
        BY <3>1, <1>k, <1>a, <1>13
      <4> QED
        BY <4>1, <4>2, <3>1, <1>10, KeysOrdered
    <3>3. CASE \E l \in 1 .. Len(client.shown) : new[k] = client.shown[l]
      <4>1. PICK l \in 1 .. Len(client.shown) : new[k] = client.shown[l]
        BY <3>3
      <4>2. client.shown[l] \in Items /\ l \in DOMAIN client.shown
        BY <1>14, <1>17
      <4>3. client.cursor # <<>> /\ client.cursor \in Keys /\ Paging!Key(client.shown[l]) \in Keys
        BY <4>2, <1>1, <1>4, <1>7 DEF PagingInv, ReadSoFar, Keys, Paging!Key
      <4>4. ~ Paging!Before(client.cursor, Paging!Key(client.shown[l]))
        BY <4>2, <4>3 DEF PagingInv, ReadSoFar
      <4>5. Paging!Before(client.cursor, next)
        BY <3>1, <4>3, <1>5, <1>a DEF Paging!Behind
      <4> QED
        BY <4>1, <4>3, <4>4, <4>5, <3>1, KeysOrdered
    <3> QED
      BY <1>16, <3>2, <3>3
  <2>3. ASSUME NEW i \in client.kept
        PROVE  /\ item[i].visible
               /\ \/ \E k \in 1 .. Len(new) : new[k] = i
                  \/ next # <<>> /\ Paging!Before(next, Paging!Key(i))
    <3>1. i \in Items /\ item[i].visible
          /\ (\/ \E k \in DOMAIN client.shown : client.shown[k] = i
              \/ Paging!Behind(i))
      BY <1>1 DEF PagingInv, ReadSoFar
    <3>2. CASE \E k \in DOMAIN client.shown : client.shown[k] = i
      BY <3>1, <3>2, <1>16, <1>17
    <3>3. CASE Paging!Behind(i)
      <4>1. i \in F
        BY <3>1, <3>3, <1>6
      <4>2. CASE \E k \in 1 .. Len(some) : some[k] = i
        BY <3>1, <4>2, <1>16
      <4>3. CASE more /\ <<last, i>> \in R
        BY <3>1, <4>1, <4>3, <1>10, <1>a, <1>12 DEF Paging!Key
      <4> QED
        BY <4>1, <4>2, <4>3, <1>a, <1>b
    <3> QED
      BY <3>1, <3>2, <3>3
  <2> QED
    BY <1>2, <1>17, <2>1, <2>2, <2>3 DEF ReadSoFar, Paging!Behind, Paging!Before, Paging!Key,
        Paging!Ascending
<1> QED
  BY <1>19, <1>20, <1>21, <1>22 DEF PagingInv

LEMMA CreateItemStep ==
    ASSUME ListAssumptions, PagingInv, NEW i \in Items, Paging!Create(i)
    PROVE  PagingInv'
<1>1. /\ item \in [Items -> [time : 0 .. MaxTime, visible : BOOLEAN]] /\ clock \in 1 .. MaxTime
      /\ item[i] = [time |-> 0, visible |-> FALSE]
      /\ item' = [item EXCEPT ![i] = [time |-> clock, visible |-> TRUE]]
      /\ UNCHANGED <<clock, list, client>>
  BY DEF PagingInv, Paging!TypeOK, Paging!Create, Paging!NoItem
<1>2. MaxTime \in Nat /\ clock \in Nat /\ clock # 0 /\ clock \in 0 .. MaxTime
  BY <1>1 DEF ListAssumptions
<1>3. /\ item'[i].time # 0 /\ item'[i].visible
      /\ item' \in [Items -> [time : 0 .. MaxTime, visible : BOOLEAN]]
      /\ \A j \in Items : j # i => item'[j] = item[j]
  BY <1>1, <1>2
<1>4. client \in ClientRecord /\ \A m \in DOMAIN client.shown : client.shown[m] \in Items \ {i}
  BY <1>1 DEF PagingInv, Timed, ClientRecord
<1>5. client.kept \in SUBSET (Items \ {i})
  BY <1>1, <1>4 DEF PagingInv, ReadSoFar, ClientRecord
<1>6. Timed'
  BY <1>1, <1>3, <1>4 DEF PagingInv, Timed
<1>7. \A j \in Items \ {i} : item'[j] = item[j]
  BY <1>3
<1>8. ReadSoFar'
  <2>1. /\ client' = client /\ \A k, l : Paging!Before(k, l)' = Paging!Before(k, l)
        /\ \A j \in Items \ {i} : Paging!Key(j)' = Paging!Key(j)
    BY <1>1, <1>7 DEF Paging!Before, Paging!Key, Paging!Ascending
  <2>2. \A j \in Items \ {i} : Paging!Behind(j)' = Paging!Behind(j)
    BY <2>1 DEF Paging!Behind
  <2> QED
    BY <2>1, <2>2, <1>4, <1>5, <1>7 DEF PagingInv, ReadSoFar
<1> QED
  BY <1>1, <1>3, <1>6, <1>8 DEF PagingInv, Paging!TypeOK, Paging!NothingTwice, ClientRecord

LEMMA SetVisibleStep ==
    ASSUME ListAssumptions, PagingInv, NEW i \in Items, NEW visible \in BOOLEAN,
           Paging!SetVisible(i, visible)
    PROVE  PagingInv'
<1>1. /\ item \in [Items -> [time : 0 .. MaxTime, visible : BOOLEAN]]
      /\ item[i].time # 0 /\ client \in ClientRecord
      /\ item' = [item EXCEPT ![i].visible = visible]
      /\ client' = [client EXCEPT !.kept = IF visible THEN @ ELSE @ \ {i}]
      /\ UNCHANGED <<clock, list>>
  BY DEF PagingInv, Paging!TypeOK, Paging!SetVisible
<1>2. /\ client' \in ClientRecord
      /\ client'.shown = client.shown /\ client'.cursor = client.cursor
      /\ client'.done = client.done
      /\ client'.kept = IF visible THEN client.kept ELSE client.kept \ {i}
  BY <1>1 DEF ClientRecord
<1>3. /\ item' \in [Items -> [time : 0 .. MaxTime, visible : BOOLEAN]]
      /\ \A j \in Items : item'[j].time = item[j].time
      /\ \A j \in Items : item'[j].visible = IF j = i THEN visible ELSE item[j].visible
  BY <1>1
<1>4. \A m \in DOMAIN client.shown : client.shown[m] \in Items
  BY <1>1 DEF ClientRecord
<1>5. client.kept \in SUBSET Items
  BY <1>1 DEF ClientRecord
<1>6. Timed'
  BY <1>1, <1>2, <1>3, <1>4 DEF PagingInv, Timed
<1>7. \A j \in Items : Paging!Key(j)' = Paging!Key(j)
  BY <1>3 DEF Paging!Key
<1>8. \A k, l : Paging!Before(k, l)' = Paging!Before(k, l)
  BY <1>1 DEF Paging!Before, Paging!Ascending
<1>9. \A m \in DOMAIN client.shown : Paging!Key(client.shown[m])' = Paging!Key(client.shown[m])
  BY <1>4, <1>2, <1>7 DEF Paging!Key
<1>10. \A j \in Items : Paging!Behind(j)' = Paging!Behind(j)
  BY <1>2, <1>7, <1>8 DEF Paging!Behind
<1>11. ReadSoFar'
  <2>1. ASSUME client.cursor # <<>>, NEW m \in DOMAIN client.shown
        PROVE  ~ Paging!Before(client.cursor, Paging!Key(client.shown[m]))'
    BY <2>1, <1>2, <1>8, <1>9 DEF PagingInv, ReadSoFar
  <2>2. ASSUME NEW j \in client'.kept
        PROVE  /\ item'[j].visible
               /\ \/ \E m \in DOMAIN client.shown : client.shown[m] = j
                  \/ ~ client.done /\ Paging!Behind(j)'
    <3>1. j \in Items /\ j \in client.kept /\ (j # i \/ visible)
      BY <1>2, <1>5
    <3> QED
      BY <3>1, <1>3, <1>10 DEF PagingInv, ReadSoFar
  <2>3. client.cursor = <<>> /\ ~ client.done => client.shown = <<>>
    BY DEF PagingInv, ReadSoFar
  <2> QED
    BY <1>2, <2>1, <2>2, <2>3 DEF ReadSoFar
<1>12. Paging!TypeOK' /\ Paging!NothingTwice'
  BY <1>1, <1>2, <1>3 DEF PagingInv, Paging!TypeOK, Paging!NothingTwice, ClientRecord
<1> QED
  BY <1>2, <1>6, <1>11, <1>12 DEF PagingInv

LEMMA PagingInit == ASSUME ListAssumptions, Paging!Init PROVE PagingInv
<1>1. /\ item = [i \in Items |-> [time |-> 0, visible |-> FALSE]] /\ clock = 1
      /\ list \in Paging!Lists
      /\ client = [cursor |-> <<>>, shown |-> <<>>, kept |-> {}, done |-> FALSE]
  BY DEF Paging!Init, Paging!NoItem, Paging!Beginning
<1>2. MaxTime \in Nat \ {0}
  BY DEF ListAssumptions
<1>3. <<>> \in Seq(Items) /\ DOMAIN <<>> = {}
  OBVIOUS
<1> QED
  BY <1>1, <1>2, <1>3 DEF PagingInv, Paging!TypeOK, ClientRecord, Timed, ReadSoFar,
      Paging!NothingTwice

LEMMA RestartStep == ASSUME ListAssumptions, PagingInv, Paging!Restart PROVE PagingInv'
<1> DEFINE all == {i \in Items : item[i].visible}
<1>1. /\ client' = [cursor |-> <<>>, shown |-> <<>>, kept |-> all, done |-> FALSE]
      /\ UNCHANGED <<item, clock, list>>
  BY DEF Paging!Restart, Paging!Beginning, Paging!Shown
<1>2. <<>> \in Seq(Items) /\ DOMAIN <<>> = {}
  OBVIOUS
<1>3. all \in SUBSET Items /\ \A i \in all : item[i].visible
  OBVIOUS
<1> HIDE DEF all
<1>4. client' \in ClientRecord /\ Paging!TypeOK'
  BY <1>1, <1>2, <1>3 DEF PagingInv, Paging!TypeOK, ClientRecord
<1> QED
  BY <1>1, <1>2, <1>3, <1>4 DEF PagingInv, Timed, ReadSoFar, Paging!NothingTwice, Paging!Behind

LEMMA PagingUnmoved ==
    ASSUME PagingInv, UNCHANGED <<item, list, client>>
    PROVE  client' \in ClientRecord /\ Timed' /\ ReadSoFar' /\ Paging!NothingTwice'
<1>1. \A k, l : Paging!Before(k, l)' = Paging!Before(k, l)
  BY DEF Paging!Before, Paging!Ascending
<1>2. \A i : Paging!Key(i)' = Paging!Key(i) /\ Paging!Behind(i)' = Paging!Behind(i)
  BY <1>1 DEF Paging!Behind, Paging!Key
<1> QED
  BY <1>1, <1>2 DEF PagingInv, ClientRecord, Timed, ReadSoFar, Paging!NothingTwice

LEMMA PagingStep == ASSUME ListAssumptions, PagingInv, Paging!Next PROVE PagingInv'
<1>1. ASSUME NEW limit \in PageSizes,
             Paging!getFeeds(limit) \/ Paging!getComments(limit) \/ Paging!getUserBookmarks(limit)
      PROVE  PagingInv'
  <2>1. Paging!ReadPage(limit)
    BY <1>1 DEF Paging!getFeeds, Paging!getComments, Paging!getUserBookmarks
  <2> QED
    BY <2>1, <1>1, ReadPageStep
<1>2. CASE Paging!Restart
  BY <1>2, RestartStep
<1>3. CASE Paging!Tick
  <2>1. UNCHANGED <<item, list, client>> /\ clock' \in 1 .. MaxTime
    BY <1>3 DEF Paging!Tick, PagingInv, Paging!TypeOK, ListAssumptions
  <2> QED
    BY <2>1, PagingUnmoved DEF PagingInv, Paging!TypeOK
<1>4. ASSUME NEW i \in Items, Paging!Create(i) PROVE PagingInv'
  BY <1>4, CreateItemStep
<1>5. ASSUME NEW i \in Items, NEW visible \in BOOLEAN, Paging!SetVisible(i, visible)
      PROVE  PagingInv'
  BY <1>5, SetVisibleStep
<1> QED
  BY <1>1, <1>2, <1>3, <1>4, <1>5 DEF Paging!Next

LEMMA PagingSafe == ASSUME PagingInv PROVE Paging!NothingTwice /\ Paging!NothingMissed
<1>1. client.done => client.kept \subseteq {client.shown[n] : n \in DOMAIN client.shown}
  BY DEF PagingInv, ReadSoFar
<1> QED
  BY <1>1 DEF PagingInv, Paging!NothingMissed

LEMMA PagingStutters == ASSUME PagingInv, UNCHANGED pagingVars PROVE PagingInv'
BY PagingUnmoved DEF pagingVars, PagingInv, Paging!TypeOK

-----------------------------------------------------------------------------
(* DestinationSearch: lists by number, the search and what is nearby.      *)

LEMMA SameSearchCardinality == \A S : Searching!Cardinality(S) = Cardinality(S)
BY DEF Searching!Cardinality, Cardinality

LEMMA SameSearchSorted == \A S, R : Searching!Sorted(S, R) = Sorted(S, R)
BY DEF Searching!Sorted, Sorted, Searching!Cardinality, Cardinality

LEMMA SameSearchRows == \A all, offset, n : Searching!Rows(all, offset, n) = Rows(all, offset, n)
BY DEF Searching!Rows, Rows

\* The orders of the answers.
Firstly(f, S) == {p \in S \X S : Searching!Precedes(f, p[1], p[2])}
Closer(here, S) == {p \in S \X S : Searching!Nearer(here, p[1], p[2])}

LEMMA AnswersInOrder ==
    ASSUME ListAssumptions, NEW S \in SUBSET Locations
    PROVE  /\ IsFiniteSet(S)
           /\ \A f \in Searching!TieBreaks :
                 /\ Orders(Firstly(f, S), S)
                 /\ Searching!InOrder(S, f) = Sorted(S, Firstly(f, S))
                 /\ InTheOrder(Searching!InOrder(S, f), Firstly(f, S), S)
           /\ \A here \in Locations :
                 /\ Orders(Closer(here, S), S)
                 /\ InTheOrder(Searching!NearestFirst(here, S), Closer(here, S), S)
<1>1. IsFiniteSet(S) /\ S \subseteq Nat
  BY FS_Subset DEF ListAssumptions
<1>3. ASSUME NEW f \in Searching!TieBreaks PROVE Orders(Firstly(f, S), S)
  <2>1. /\ \A d \in S : Scores[d] \in Nat /\ f[d] \in Nat
        /\ \A d, e \in S : f[d] = f[e] => d = e
    BY DEF ListAssumptions, Searching!TieBreaks, Searching!IsInjective
  <2>2. \A d, e \in S : <<d, e>> \in Firstly(f, S) <=>
            Scores[d] < Scores[e] \/ (Scores[d] = Scores[e] /\ f[d] < f[e])
    BY DEF Firstly, Searching!Precedes
  <2> QED
    BY <2>1, <2>2 DEF Orders
<1>4. ASSUME NEW here \in Locations PROVE Orders(Closer(here, S), S)
  <2>1. here \in Nat
    BY DEF ListAssumptions
  <2>2. \A d, e \in S : <<d, e>> \in Closer(here, S) <=> Searching!Nearer(here, d, e)
    BY DEF Closer
  <2>3. \A d, e \in S : Searching!Nearer(here, d, e) => ~ Searching!Nearer(here, e, d)
    BY <1>1, <2>1 DEF Searching!Nearer, Searching!calculateDistanceKm
  <2>4. \A d, e, f \in S : Searching!Nearer(here, d, e) /\ Searching!Nearer(here, e, f) =>
            Searching!Nearer(here, d, f)
    BY <1>1, <2>1 DEF Searching!Nearer, Searching!calculateDistanceKm
  <2>5. \A d, e \in S : d = e \/ Searching!Nearer(here, d, e) \/ Searching!Nearer(here, e, d)
    BY <1>1, <2>1 DEF Searching!Nearer, Searching!calculateDistanceKm
  <2> QED
    BY <2>2, <2>3, <2>4, <2>5 DEF Orders
<1>5. /\ \A f : Searching!InOrder(S, f) = Sorted(S, Firstly(f, S))
      /\ \A here : Searching!NearestFirst(here, S) = Sorted(S, Closer(here, S))
  BY SameSearchSorted DEF Searching!InOrder, Searching!NearestFirst, Firstly, Closer
<1> QED
  BY <1>1, <1>3, <1>4, <1>5, SortedInOrder

\* An answer, whichever way the query has put what is equal, and how many rows it has.
Answer(f) == Searching!InOrder(Searching!Wanted, f)
Found == Cardinality(Searching!Wanted)

LEMMA WantedInOrder ==
    ASSUME ListAssumptions
    PROVE  /\ Searching!Wanted \in SUBSET Locations /\ IsFiniteSet(Searching!Wanted)
           /\ Found \in Nat
           /\ \A f \in Searching!TieBreaks :
                 /\ InTheOrder(Answer(f), Firstly(f, Searching!Wanted), Searching!Wanted)
                 /\ Answer(f) \in Seq(Locations) /\ Len(Answer(f)) = Found
                 /\ \A k \in 1 .. Found : Answer(f)[k] \in Searching!Wanted
<1>1. Searching!Wanted \in SUBSET Locations
  BY DEF Searching!Wanted, Searching!wherePublished, Searching!whereConditions,
      Searching!buildWhereClause
<1>2. IsFiniteSet(Searching!Wanted) /\ Found \in Nat
  BY <1>1, AnswersInOrder, FS_CardinalityType DEF Found
<1>3. ASSUME NEW f \in Searching!TieBreaks
      PROVE  /\ InTheOrder(Answer(f), Firstly(f, Searching!Wanted), Searching!Wanted)
             /\ Answer(f) \in Seq(Locations) /\ Len(Answer(f)) = Found
             /\ \A k \in 1 .. Found : Answer(f)[k] \in Searching!Wanted
  <2>1. InTheOrder(Answer(f), Firstly(f, Searching!Wanted), Searching!Wanted)
    BY <1>1, AnswersInOrder DEF Answer
  <2>2. Answer(f) \in Seq(Searching!Wanted) /\ Len(Answer(f)) = Found
    BY <2>1 DEF InTheOrder, Found
  <2> QED
    BY <1>1, <2>1, <2>2, WiderSeq
<1> QED
  BY <1>1, <1>2, <1>3

\* Wherever a row stands in an answer, those ahead of it stand before it, and nobody else
\* but its equals.
LEMMA PlaceInAnswer ==
    ASSUME ListAssumptions, NEW f \in Searching!TieBreaks, NEW k \in 1 .. Found,
           NEW d, d = Answer(f)[k]
    PROVE  /\ d \in Searching!Wanted
           /\ IsFiniteSet(Searching!Ahead(d)) /\ IsFiniteSet(Searching!Equals(d))
           /\ Cardinality(Searching!Ahead(d)) \in Nat /\ Cardinality(Searching!Equals(d)) \in Nat
           /\ Cardinality(Searching!Ahead(d)) <= k - 1
           /\ k - 1 < Cardinality(Searching!Ahead(d)) + Cardinality(Searching!Equals(d))
           /\ Cardinality(Searching!Ahead(d) \union Searching!Equals(d))
                 = Cardinality(Searching!Ahead(d)) + Cardinality(Searching!Equals(d))
<1> DEFINE W == Searching!Wanted
           R == Firstly(f, W)
           before == [i \in W |-> {j \in W : <<j, i>> \in R}]
           ahead == Searching!Ahead(d)
           equals == Searching!Equals(d)
<1>1. W \in SUBSET Locations /\ IsFiniteSet(W) /\ Found \in Nat /\ d \in W
  BY WantedInOrder
<1>2. /\ Cardinality(before[d]) = k - 1
      /\ before[d] \subseteq W /\ \A j \in W : j \in before[d] <=> <<j, d>> \in R
  <2>1. IsFiniteSet(W) /\ Orders(R, W) /\ Answer(f) = Sorted(W, R)
    BY <1>1, AnswersInOrder DEF Answer
  <2>2. ByRank(W, R, before)
    BY <2>1, SortedByRank
  <2> HIDE DEF before, R, W
  <2> QED
    BY <1>1, <2>1, <2>2 DEF ByRank, Found, W
<1>3. /\ ahead \subseteq W /\ equals \subseteq W /\ d \in equals /\ ahead \intersect equals = {}
      /\ \A e \in W : Scores[e] \in Nat
      /\ \A e \in W : e \in ahead <=> Scores[e] < Scores[d]
      /\ \A e \in W : e \in equals <=> Scores[e] = Scores[d]
  BY <1>1 DEF Searching!Ahead, Searching!Equals, ListAssumptions
<1>4. \A j \in W : <<j, d>> \in R <=>
          Scores[j] < Scores[d] \/ (Scores[j] = Scores[d] /\ f[j] < f[d])
  BY <1>1 DEF Firstly, Searching!Precedes
<1>5. f[d] \in Nat
  BY <1>1 DEF ListAssumptions, Searching!TieBreaks
<1> DEFINE mine == before[d]
<1> HIDE DEF W, R, before, ahead, equals
<1>6. ahead \subseteq mine /\ mine \subseteq (ahead \union equals) \ {d}
  <2>1. \A j \in ahead : j \in W /\ Scores[j] < Scores[d]
    BY <1>3
  <2>2. \A j \in W : j \in mine <=>
            Scores[j] < Scores[d] \/ (Scores[j] = Scores[d] /\ f[j] < f[d])
    BY <1>2, <1>4
  <2>3. d \notin mine
    BY <1>1, <1>3, <1>5, <2>2
  <2>4. \A j \in mine : j \in W /\ (Scores[j] < Scores[d] \/ Scores[j] = Scores[d])
    BY <1>2, <2>2
  <2>5. \A j \in mine : j \in ahead \/ j \in equals
    BY <1>3, <2>4
  <2> QED
    BY <2>1, <2>2, <2>3, <2>5
<1>7. Cardinality(mine) = k - 1
  BY <1>2
<1> HIDE DEF mine
<1>8. /\ IsFiniteSet(ahead) /\ IsFiniteSet(equals)
      /\ Cardinality(ahead) \in Nat /\ Cardinality(equals) \in Nat
  BY <1>1, <1>3, FS_Subset, FS_CardinalityType
<1>9. /\ IsFiniteSet(ahead \union equals)
      /\ Cardinality(ahead \union equals) = Cardinality(ahead) + Cardinality(equals)
  <2>1. Cardinality(ahead \intersect equals) = 0
    BY <1>3, FS_EmptySet
  <2>2. /\ IsFiniteSet(ahead \union equals)
        /\ Cardinality(ahead \union equals) =
              Cardinality(ahead) + Cardinality(equals) - Cardinality(ahead \intersect equals)
    BY <1>8, FS_Union
  <2> QED
    BY <1>8, <2>1, <2>2
<1>10. /\ IsFiniteSet((ahead \union equals) \ {d})
       /\ Cardinality((ahead \union equals) \ {d}) = Cardinality(ahead) + Cardinality(equals) - 1
  <2> DEFINE both == ahead \union equals
  <2>1. d \in both /\ IsFiniteSet(both)
        /\ Cardinality(both) = Cardinality(ahead) + Cardinality(equals)
    BY <1>3, <1>9
  <2> HIDE DEF both
  <2>2. IsFiniteSet(both \ {d}) /\ Cardinality(both \ {d}) = Cardinality(both) - 1
    BY <2>1, FS_RemoveElement
  <2>3. /\ IsFiniteSet(both \ {d})
        /\ Cardinality(both \ {d}) = Cardinality(ahead) + Cardinality(equals) - 1
    BY <1>8, <2>1, <2>2
  <2> QED
    BY <2>3 DEF both
<1>11. /\ IsFiniteSet(mine) /\ Cardinality(mine) <= Cardinality((ahead \union equals) \ {d})
       /\ Cardinality(ahead) <= Cardinality(mine)
  BY <1>6, <1>10, FS_Subset
<1>12. Cardinality(ahead) <= k - 1 /\ k - 1 < Cardinality(ahead) + Cardinality(equals)
  BY <1>7, <1>8, <1>10, <1>11
<1> QED
  BY <1>1, <1>8, <1>9, <1>12 DEF W, ahead, equals

\* Scores do not fall from an earlier place to a later one, of another answer either.
LEMMA ScoresRise ==
    ASSUME ListAssumptions, NEW f \in Searching!TieBreaks, NEW g \in Searching!TieBreaks,
           NEW k \in 1 .. Found, NEW l \in 1 .. Found, k < l
    PROVE  Scores[Answer(f)[k]] <= Scores[Answer(g)[l]]
<1> DEFINE d == Answer(f)[k]
           e == Answer(g)[l]
<1>1. /\ d \in Searching!Wanted /\ IsFiniteSet(Searching!Ahead(d))
      /\ Cardinality(Searching!Ahead(d)) \in Nat /\ Cardinality(Searching!Ahead(d)) <= k - 1
  BY PlaceInAnswer
<1>2. /\ e \in Searching!Wanted
      /\ l - 1 < Cardinality(Searching!Ahead(e)) + Cardinality(Searching!Equals(e))
      /\ Cardinality(Searching!Ahead(e) \union Searching!Equals(e))
            = Cardinality(Searching!Ahead(e)) + Cardinality(Searching!Equals(e))
      /\ Cardinality(Searching!Ahead(e)) \in Nat /\ Cardinality(Searching!Equals(e)) \in Nat
  BY PlaceInAnswer
<1> HIDE DEF d, e
<1>3. \A i \in Searching!Wanted : Scores[i] \in Nat
  BY WantedInOrder DEF ListAssumptions
<1>4. k \in Nat /\ l \in Nat
  OBVIOUS
<1>5. ASSUME Scores[e] < Scores[d] PROVE FALSE
  <2>1. Searching!Ahead(e) \union Searching!Equals(e) \subseteq Searching!Ahead(d)
    BY <1>1, <1>2, <1>3, <1>5 DEF Searching!Ahead, Searching!Equals
  <2>2. Cardinality(Searching!Ahead(e) \union Searching!Equals(e))
            <= Cardinality(Searching!Ahead(d))
    BY <1>1, <2>1, FS_Subset
  <2> QED
    BY <1>1, <1>2, <1>4, <2>2
<1>6. Scores[d] <= Scores[e]
  BY <1>1, <1>2, <1>3, <1>5
<1> QED
  BY <1>6 DEF d, e

\* What a page shows is the part of one answer that is in its place.
PageHolds(n) ==
    \E f \in Searching!TieBreaks : \A k \in 1 .. Len(shown) :
        Searching!skip(n) < k /\ k <= Searching!skip(n) + PageSize => shown[k] = Answer(f)[k]

Showed == /\ shown \in Seq(Locations) /\ Len(shown) <= Found
          /\ \A k \in 1 .. Len(shown) : \E f \in Searching!TieBreaks : shown[k] = Answer(f)[k]
          /\ \A n \in Nat \ {0} : PageHolds(n)

SearchInv ==
    /\ table \in Searching!Tables /\ place \in [Locations -> Searching!PlaceType]
    /\ filter \in Ids \union {None}
    /\ searchPc \in {"page", "hydrate", "done"} /\ page \in Nat \ {0}
    /\ searchPc = "hydrate" => table = "destinations" /\ term
    /\ quiet => Showed
    /\ quiet /\ searchPc # "done" => Len(shown) = Searching!skip(page)
    /\ quiet /\ searchPc = "page" => page = 1 \/ Len(shown) < Found
    /\ quiet /\ searchPc = "hydrate" =>
          /\ \E f \in Searching!TieBreaks :
                ids.rows = Rows(Answer(f), Searching!skip(page), PageSize)
          /\ ids.total = Found
    /\ quiet /\ searchPc = "done" => Len(shown) = Found

\* Where the pages begin.
LEMMA SkipIs ==
    ASSUME ListAssumptions, NEW n \in Nat \ {0}
    PROVE  /\ Searching!skip(n) \in Nat /\ n * PageSize = Searching!skip(n) + PageSize
           /\ Searching!skip(n + 1) = Searching!skip(n) + PageSize
<1>1. n - 1 \in Nat /\ n + 1 - 1 = n /\ PageSize \in Nat
  BY DEF ListAssumptions
<1>2. (n - 1) * PageSize \in Nat
  BY <1>1
<1>3. n * PageSize = (n - 1) * PageSize + PageSize
  BY <1>1
<1> QED
  BY <1>1, <1>2, <1>3 DEF Searching!skip

LEMMA LaterPage ==
    ASSUME ListAssumptions, NEW n \in Nat \ {0}, NEW m \in Nat \ {0}, n < m
    PROVE  Searching!skip(n) + PageSize <= Searching!skip(m)
<1>1. n - 1 \in Nat /\ m - 1 - n \in Nat /\ PageSize \in Nat
  BY DEF ListAssumptions
<1>2. (m - 1 - n) * PageSize \in Nat /\ n * PageSize \in Nat
  BY <1>1
<1>3. (m - 1) * PageSize = n * PageSize + (m - 1 - n) * PageSize
  BY <1>1
<1>4. n * PageSize <= (m - 1) * PageSize
  BY <1>2, <1>3
<1> QED
  BY <1>4, SkipIs DEF Searching!skip

\* The next page joins what was shown before.
LEMMA ShowStep ==
    ASSUME ListAssumptions, SearchInv, quiet, searchPc # "done",
           NEW f \in Searching!TieBreaks,
           NEW many, many = Rows(Answer(f), Searching!skip(page), PageSize),
           NEW total, total = Found,
           Searching!Show(many, total), UNCHANGED <<table, place, filter, term>>, quiet' = quiet
    PROVE  /\ page' \in Nat \ {0} /\ searchPc' \in {"page", "done"} /\ Showed'
           /\ searchPc' = "page" => (Len(shown) = Searching!skip(page) /\ Len(shown) < Found)'
           /\ searchPc' = "done" => (Len(shown) = Found)'
<1> DEFINE offset == Searching!skip(page)
           m == IF Found < offset + PageSize THEN Found - offset ELSE PageSize
<1>1. page \in Nat \ {0} /\ PageSize \in Nat \ {0}
  BY DEF SearchInv, ListAssumptions
<1>2. offset \in Nat /\ page * PageSize = offset + PageSize /\ page + 1 \in Nat \ {0}
      /\ Searching!skip(page + 1) = offset + PageSize
  BY <1>1, SkipIs
<1> HIDE DEF offset, m
<1>3. shown \in Seq(Locations) /\ Len(shown) = offset /\ offset <= Found
      /\ \A k \in 1 .. offset : \E g \in Searching!TieBreaks : shown[k] = Answer(g)[k]
  BY DEF SearchInv, Showed, offset
<1>4. Answer(f) \in Seq(Locations) /\ Len(Answer(f)) = Found /\ Found \in Nat
  BY WantedInOrder
<1>5. Excerpt(Locations, Answer(f), offset, PageSize, many)
  BY <1>1, <1>2, <1>3, <1>4, RowsAre DEF offset
<1>6. /\ m \in Nat /\ offset + m <= Found /\ many \in Seq(Locations) /\ Len(many) = m
      /\ \A k \in 1 .. m : many[k] = Answer(f)[offset + k]
  BY <1>4, <1>5 DEF Excerpt, m
<1>7. /\ shown' = shown \o many /\ Found' = Found /\ \A g : Answer(g)' = Answer(g)
      /\ IF offset + PageSize < Found THEN page' = page + 1 /\ searchPc' = "page"
         ELSE searchPc' = "done" /\ page' = page
  <2>1. Searching!Wanted' = Searching!Wanted
    BY DEF Searching!Wanted, Searching!wherePublished,
      Searching!whereConditions, Searching!buildWhereClause, Searching!Filtered
  <2> QED
    BY <1>2, <2>1 DEF Searching!Show, Answer, Found, Searching!InOrder, Searching!Precedes
<1>8. /\ shown' \in Seq(Locations) /\ Len(shown') = offset + m
      /\ \A k \in 1 .. offset + m : shown'[k] = IF k <= offset THEN shown[k] ELSE many[k - offset]
  <2>1. /\ shown \o many \in Seq(Locations) /\ Len(shown \o many) = Len(shown) + Len(many)
        /\ \A k \in 1 .. Len(shown) + Len(many) :
              (shown \o many)[k] = IF k <= Len(shown) THEN shown[k] ELSE many[k - Len(shown)]
    <3>1. shown \in Seq(Locations) /\ many \in Seq(Locations)
      BY <1>3, <1>6
    <3> QED
      BY <3>1, ConcatProperties
  <2>2. shown' = shown \o many /\ Len(shown) = offset /\ Len(many) = m
    BY <1>3, <1>6, <1>7
  <2> QED
    BY <2>1, <2>2
<1>9. /\ \A k \in 1 .. offset : shown'[k] = shown[k]
      /\ \A k \in 1 .. offset + m : offset < k => shown'[k] = Answer(f)[k]
  <2>1. ASSUME NEW k \in 1 .. offset PROVE shown'[k] = shown[k]
    BY <1>2, <1>6, <1>8
  <2>2. ASSUME NEW k \in 1 .. offset + m, offset < k PROVE shown'[k] = Answer(f)[k]
    <3>1. k - offset \in 1 .. m /\ offset + (k - offset) = k /\ ~ (k <= offset)
      BY <2>2, <1>2, <1>6
    <3> QED
      BY <3>1, <1>6, <1>8
  <2> QED
    BY <2>1, <2>2
<1>10. \A k \in 1 .. offset + m : \E g \in Searching!TieBreaks : shown'[k] = Answer(g)[k]
  <2> SUFFICES ASSUME NEW k \in 1 .. offset + m
               PROVE  \E g \in Searching!TieBreaks : shown'[k] = Answer(g)[k]
    OBVIOUS
  <2>1. CASE k <= offset
    <3>1. k \in 1 .. offset
      BY <2>1, <1>2
    <3> QED
      BY <3>1, <1>3, <1>9
  <2>2. CASE offset < k
    BY <2>2, <1>9
  <2> QED
    BY <2>1, <2>2, <1>2
<1>11. ASSUME NEW n \in Nat \ {0} PROVE PageHolds(n)'
  <2> DEFINE start == Searching!skip(n)
  <2>1. start \in Nat
    BY SkipIs
  <2>2. Searching!skip(n)' = start /\ Len(shown') = offset + m
    BY <1>8 DEF Searching!skip
  <2> HIDE DEF start
  <2>3. ASSUME NEW g \in Searching!TieBreaks,
               \A k \in 1 .. offset + m : start < k /\ k <= start + PageSize =>
                   shown'[k] = Answer(g)[k]
        PROVE  PageHolds(n)'
    BY <2>2, <2>3, <1>7 DEF PageHolds, Searching!TieBreaks
  <2>4. CASE n < page
    <3>1. start + PageSize <= offset
      BY <2>4, <1>1, LaterPage DEF start, offset
    <3>2. PICK g \in Searching!TieBreaks : \A k \in 1 .. offset :
              start < k /\ k <= start + PageSize => shown[k] = Answer(g)[k]
      BY <1>3 DEF SearchInv, Showed, PageHolds, start
    <3>3. \A k \in 1 .. offset + m : start < k /\ k <= start + PageSize =>
              k \in 1 .. offset
      BY <3>1, <2>1, <1>1, <1>2, <1>6
    <3> QED
      BY <2>3, <3>2, <3>3, <1>9
  <2>5. CASE n = page
    <3>1. start = offset
      BY <2>5 DEF start, offset
    <3> QED
      BY <2>3, <3>1, <1>9
  <2>6. CASE page < n
    <3>1. offset + PageSize <= start
      BY <2>6, <1>1, LaterPage DEF start, offset
    <3>2. \A k \in 1 .. offset + m : ~ (start < k)
      <4>1. m <= PageSize
        BY <1>1, <1>2, <1>3, <1>4 DEF m
      <4> QED
        BY <3>1, <4>1, <2>1, <1>1, <1>2, <1>6
    <3> QED
      BY <2>3, <3>2
  <2> QED
    BY <2>4, <2>5, <2>6, <1>1
<1>12. Showed'
  BY <1>6, <1>7, <1>8, <1>10, <1>11 DEF Showed, Searching!TieBreaks
<1>13. CASE offset + PageSize < Found
  <2>1. m = PageSize
    BY <1>13, <1>1, <1>2, <1>4 DEF m
  <2>2. page' = page + 1 /\ searchPc' = "page" /\ Searching!skip(page)' = offset + m
    BY <1>13, <1>2, <1>7, <2>1 DEF Searching!skip
  <2> QED
    BY <2>1, <2>2, <1>1, <1>2, <1>7, <1>8, <1>12, <1>13
<1>14. CASE ~ (offset + PageSize < Found)
  <2>1. offset \in Nat /\ PageSize \in Nat /\ offset <= Found
    BY <1>1, <1>2, <1>3
  <2>2. offset + m = Found
    <3>1. CASE Found < offset + PageSize
      BY <3>1, <2>1, <1>4 DEF m
    <3>2. CASE Found = offset + PageSize
      BY <3>2, <2>1, <1>4 DEF m
    <3> QED
      BY <3>1, <3>2, <1>14, <1>4, <2>1
  <2> QED
    BY <2>2, <1>1, <1>7, <1>8, <1>12, <1>14
<1> QED
  BY <1>13, <1>14

LEMMA InitSearch == ASSUME ListAssumptions, Searching!Init PROVE SearchInv
<1>1. /\ table \in Searching!Tables /\ place \in [Locations -> Searching!PlaceType]
      /\ filter \in Ids \union {None} /\ searchPc = "page" /\ page = 1 /\ shown = <<>>
  BY DEF Searching!Init
<1>2. Searching!skip(page) = 0
  BY <1>1, SMT DEF Searching!skip, ListAssumptions
<1>3. <<>> \in Seq(Locations) /\ Len(<<>>) = 0 /\ 1 \in Nat \ {0}
  OBVIOUS
<1>4. [d \in Locations |-> d] \in Searching!TieBreaks
  BY DEF Searching!TieBreaks, Searching!IsInjective
<1>5. \A n : PageHolds(n)
  BY <1>1, <1>3, <1>4 DEF PageHolds
<1>6. Showed
  BY <1>1, <1>3, <1>5, WantedInOrder DEF Showed
<1> QED
  BY <1>1, <1>2, <1>3, <1>6 DEF SearchInv

\* The queries of a page find what is wanted.
LEMMA SlicesAre ==
    \A S, f : Searching!Slice(S, f) = Rows(Searching!InOrder(S, f), Searching!skip(page), PageSize)
BY SameSearchRows DEF Searching!Slice

\* As long as nothing is edited.
LEMMA SameWanted ==
    ASSUME UNCHANGED <<table, place, filter, term>>
    PROVE  /\ Searching!Wanted' = Searching!Wanted /\ Found' = Found
           /\ \A f : Answer(f)' = Answer(f)
<1>1. Searching!Wanted' = Searching!Wanted
  BY DEF Searching!Wanted, Searching!wherePublished, Searching!whereConditions,
      Searching!buildWhereClause, Searching!Filtered
<1> QED
  BY <1>1 DEF Found, Answer, Searching!InOrder, Searching!Precedes

LEMMA ListStep ==
    ASSUME ListAssumptions, SearchInv, Searching!findMany \/ Searching!getAccommodations \/ Searching!getRestaurants
    PROVE  SearchInv'
<1> DEFINE found == Searching!Wanted
<1>1. PICK f \in Searching!TieBreaks :
        /\ searchPc = "page" /\ UNCHANGED <<table, place, filter, term, ids, quiet>>
        /\ Searching!Show(Searching!Slice(found, f), Searching!Cardinality(found))
  BY DEF Searching!findMany, Searching!getAccommodations, Searching!getRestaurants,
      Searching!ListPublished, Searching!Wanted
<1>2. /\ Searching!Slice(found, f) = Rows(Answer(f), Searching!skip(page), PageSize)
      /\ Searching!Cardinality(found) = Found
  BY SlicesAre, SameSearchCardinality DEF Answer, Found
<1> HIDE DEF found
<1>3. page' \in Nat \ {0} /\ searchPc' \in {"page", "done"}
  BY <1>1 DEF Searching!Show, SearchInv
<1>4. quiet => /\ Showed'
               /\ searchPc' = "page" =>
                     (Len(shown) = Searching!skip(page) /\ Len(shown) < Found)'
               /\ searchPc' = "done" => (Len(shown) = Found)'
  BY <1>1, <1>2, ShowStep
<1> QED
  BY <1>1, <1>3, <1>4 DEF SearchInv

LEMMA SearchStep == ASSUME ListAssumptions, SearchInv, Searching!search PROVE SearchInv'
<1>1. /\ table = "destinations" /\ searchPc = "page" /\ term /\ searchPc' = "hydrate"
      /\ UNCHANGED <<table, place, filter, term, page, shown, quiet>>
  BY DEF Searching!search
<1>2. Searching!whereConditions = Searching!Wanted
  BY <1>1 DEF Searching!Wanted
<1>3. PICK f \in Searching!TieBreaks :
        LET many == Searching!Slice(Searching!Wanted, f)
        IN  ids' = [rows |-> many,
                    total |-> IF many = <<>> THEN 0
                              ELSE Searching!Cardinality(Searching!Wanted)]
  BY <1>2 DEF Searching!search
<1> DEFINE many == Rows(Answer(f), Searching!skip(page), PageSize)
<1>4. ids'.rows = many /\ ids'.total = IF many = <<>> THEN 0 ELSE Found
  BY <1>3, SlicesAre, SameSearchCardinality DEF Answer, Found
<1>5. quiet /\ many = <<>> => Found = 0
  <2> SUFFICES ASSUME quiet, many = <<>> PROVE Found = 0
    OBVIOUS
  <2>1. Searching!skip(page) = Len(shown) /\ Len(shown) <= Found /\ shown \in Seq(Locations)
        /\ Answer(f) \in Seq(Locations) /\ Len(Answer(f)) = Found /\ Found \in Nat
        /\ Len(shown) \in Nat
        /\ (page = 1 \/ Len(shown) < Found) /\ PageSize \in Nat \ {0}
    BY <1>1, WantedInOrder DEF SearchInv, Showed, ListAssumptions
  <2>2. page = 1 => Searching!skip(page) = 0
    BY SMT DEF Searching!skip, ListAssumptions
  <2>3. Excerpt(Locations, Answer(f), Len(shown), PageSize, many)
    BY <2>1, RowsAre
  <2>4. Len(many) = IF Found < Len(shown) + PageSize THEN Found - Len(shown) ELSE PageSize
    BY <2>1, <2>3 DEF Excerpt
  <2>5. Len(many) = 0
    OBVIOUS
  <2> HIDE DEF many
  <2>6. Found = Len(shown)
    BY <2>1, <2>4, <2>5
  <2> QED
    BY <2>1, <2>2, <2>6
<1>6. /\ Found' = Found /\ \A g : Answer(g)' = Answer(g)
      /\ \A n : Searching!skip(n)' = Searching!skip(n)
  BY <1>1, SameWanted DEF Searching!skip
<1>7. Showed => Showed'
  <2>1. ASSUME NEW n, PageHolds(n) PROVE PageHolds(n)'
    BY <1>1, <1>6, <2>1 DEF PageHolds, Searching!TieBreaks
  <2>2. Searching!TieBreaks' = Searching!TieBreaks /\ shown' = shown
    BY <1>1 DEF Searching!TieBreaks
  <2> QED
    BY <1>6, <2>1, <2>2 DEF Showed
<1> HIDE DEF many
<1>8. /\ ids'.rows = Rows(Answer(f), Searching!skip(page), PageSize)
      /\ quiet => ids'.total = Found
  BY <1>4, <1>5 DEF many
<1>9. (\E g \in Searching!TieBreaks :
          ids.rows = Rows(Answer(g), Searching!skip(page), PageSize))'
  BY <1>1, <1>6, <1>8 DEF Searching!TieBreaks
<1>10. Searching!skip(page)' = Searching!skip(page)
  BY <1>1, <1>6
<1> QED
  BY <1>1, <1>6, <1>7, <1>8, <1>9, <1>10 DEF SearchInv

LEMMA HydrateStep == ASSUME ListAssumptions, SearchInv, Searching!hydrate PROVE SearchInv'
<1>1. /\ searchPc = "hydrate" /\ UNCHANGED <<table, place, filter, term, quiet>>
      /\ Searching!Show(ids.rows, ids.total)
  BY DEF Searching!hydrate
<1>2. page' \in Nat \ {0} /\ searchPc' \in {"page", "done"}
  BY <1>1 DEF Searching!Show, SearchInv
<1>3. quiet => /\ Showed'
               /\ searchPc' = "page" =>
                     (Len(shown) = Searching!skip(page) /\ Len(shown) < Found)'
               /\ searchPc' = "done" => (Len(shown) = Found)'
  <2> SUFFICES ASSUME quiet
               PROVE  /\ Showed'
                      /\ searchPc' = "page" =>
                            (Len(shown) = Searching!skip(page) /\ Len(shown) < Found)'
                      /\ searchPc' = "done" => (Len(shown) = Found)'
    OBVIOUS
  <2>1. PICK f \in Searching!TieBreaks :
            ids.rows = Rows(Answer(f), Searching!skip(page), PageSize)
    BY <1>1 DEF SearchInv
  <2>2. ids.total = Found
    BY <1>1 DEF SearchInv
  <2> QED
    BY <1>1, <2>1, <2>2, ShowStep
<1> QED
  BY <1>1, <1>2, <1>3 DEF SearchInv

LEMMA StatusStep ==
    ASSUME SearchInv, NEW d \in Locations, NEW status \in Searching!Statuses, NEW deleted \in BOOLEAN,
           Searching!SetStatus(d, status, deleted)
    PROVE  SearchInv'
<1>1. /\ place' = [place EXCEPT ![d].status = status, ![d].deleted = deleted]
      /\ quiet' = FALSE /\ UNCHANGED <<table, filter, term, searchPc, page, ids, shown>>
  BY DEF Searching!SetStatus
<1>2. place' \in [Locations -> Searching!PlaceType]
  BY <1>1 DEF SearchInv, Searching!PlaceType
<1> QED
  BY <1>1, <1>2 DEF SearchInv

LEMMA NextSearch == ASSUME ListAssumptions, SearchInv, Searching!Next PROVE SearchInv'
<1>1. ASSUME NEW d \in Locations, NEW status \in Searching!Statuses, NEW deleted \in BOOLEAN,
             \/ Searching!updateDestinationStatus(d, status, deleted)
             \/ Searching!updateAccommodationStatus(d, status, deleted)
             \/ Searching!updateRestaurantStatus(d, status, deleted)
      PROVE  SearchInv'
  BY <1>1, StatusStep DEF Searching!updateDestinationStatus,
      Searching!updateAccommodationStatus, Searching!updateRestaurantStatus
<1> QED
  BY <1>1, ListStep, SearchStep, HydrateStep DEF Searching!Next

LEMMA SearchStutters == ASSUME SearchInv, UNCHANGED searchVars PROVE SearchInv'
<1>1. UNCHANGED <<table, place, filter, term, searchPc, page, ids, shown, quiet>>
  BY DEF searchVars
<1>2. /\ Found' = Found /\ \A g : Answer(g)' = Answer(g)
      /\ \A n : Searching!skip(n)' = Searching!skip(n)
  BY <1>1, SameWanted DEF Searching!skip
<1>3. Searching!skip(page)' = Searching!skip(page)
  BY <1>1, <1>2
<1>4. Showed => Showed'
  BY <1>1, <1>2 DEF Showed, PageHolds, Searching!TieBreaks
<1>5. (\E g \in Searching!TieBreaks :
          ids.rows = Rows(Answer(g), Searching!skip(page), PageSize)) =>
      (\E g \in Searching!TieBreaks :
          ids.rows = Rows(Answer(g), Searching!skip(page), PageSize))'
  BY <1>1, <1>2, <1>3 DEF Searching!TieBreaks
<1> QED
  BY <1>1, <1>2, <1>3, <1>4, <1>5 DEF SearchInv

\* Who is in the first rows of a sorted set is in the set.
LEMMA OfferedAre ==
    ASSUME ListAssumptions, NEW S \in SUBSET Locations, NEW f \in Searching!TieBreaks
    PROVE  Searching!Range(Searching!Rows(Searching!InOrder(S, f), 0, PageSize)) \subseteq S
<1> DEFINE many == Rows(Searching!InOrder(S, f), 0, PageSize)
<1>1. FirstFew(S, Firstly(f, S), PageSize, many)
  BY AnswersInOrder, FirstRows DEF ListAssumptions
<1>2. Searching!Rows(Searching!InOrder(S, f), 0, PageSize) = many
  BY SameSearchRows
<1> HIDE DEF many
<1>3. many \in Seq(S)
  BY <1>1 DEF FirstFew
<1>4. \A k \in DOMAIN many : many[k] \in S
  BY <1>3
<1> QED
  BY <1>2, <1>4 DEF Searching!Range

\* Whoever has its equals on its page is seen once.
LEMMA PagesSafe ==
    ASSUME ListAssumptions, SearchInv
    PROVE  Searching!EveryPage
<1> SUFFICES ASSUME searchPc = "done", quiet
             PROVE  /\ Len(shown) = Searching!Cardinality(Searching!Wanted)
                    /\ Searching!Range(shown) \subseteq Searching!Wanted
                    /\ \A k, l \in DOMAIN shown : k < l => Scores[shown[k]] <= Scores[shown[l]]
                    /\ \A d \in Searching!Wanted : Searching!OnOnePage(d) =>
                          \E k \in DOMAIN shown : \A l \in DOMAIN shown :
                              shown[l] = d <=> l = k
  BY DEF Searching!EveryPage
<1>1. /\ Len(shown) = Found /\ Found \in Nat /\ DOMAIN shown = 1 .. Found
      /\ \A k \in 1 .. Found : \E f \in Searching!TieBreaks : shown[k] = Answer(f)[k]
      /\ \A n \in Nat \ {0} : PageHolds(n)
  BY WantedInOrder DEF SearchInv, Showed
<1>2. Searching!Range(shown) \subseteq Searching!Wanted
  BY <1>1, WantedInOrder DEF Searching!Range
<1>3. ASSUME NEW k \in 1 .. Found, NEW l \in 1 .. Found, k < l
      PROVE  Scores[shown[k]] <= Scores[shown[l]]
  <2>1. PICK f \in Searching!TieBreaks : shown[k] = Answer(f)[k]
    BY <1>1
  <2>2. PICK g \in Searching!TieBreaks : shown[l] = Answer(g)[l]
    BY <1>1
  <2> QED
    BY <2>1, <2>2, <1>3, ScoresRise
<1>4. ASSUME NEW d \in Searching!Wanted, Searching!OnOnePage(d)
      PROVE  \E k \in 1 .. Found : \A l \in 1 .. Found : shown[l] = d <=> l = k
  <2> DEFINE ahead == Cardinality(Searching!Ahead(d))
             equals == Cardinality(Searching!Equals(d))
  <2>1. PICK n \in 1 .. page : /\ Searching!skip(n) <= ahead
                               /\ ahead + equals <= Searching!skip(n) + PageSize
    BY <1>4, SameSearchCardinality DEF Searching!OnOnePage
  <2>2. n \in Nat \ {0} /\ Searching!skip(n) \in Nat /\ PageSize \in Nat
    <3>1. n \in Nat \ {0}
      BY DEF SearchInv
    <3> QED
      BY <3>1, SkipIs DEF ListAssumptions
  <2> HIDE DEF ahead, equals
  <2>3. PICK f \in Searching!TieBreaks : \A k \in 1 .. Found :
            Searching!skip(n) < k /\ k <= Searching!skip(n) + PageSize =>
                shown[k] = Answer(f)[k]
    BY <1>1, <2>2 DEF PageHolds
  <2>4. ASSUME NEW g \in Searching!TieBreaks, NEW k \in 1 .. Found, Answer(g)[k] = d
        PROVE  shown[k] = Answer(f)[k]
    <3>1. /\ ahead \in Nat /\ equals \in Nat /\ ahead <= k - 1 /\ k - 1 < ahead + equals
      BY <2>4, PlaceInAnswer DEF ahead, equals
    <3>2. Searching!skip(n) < k /\ k <= Searching!skip(n) + PageSize
      BY <3>1, <2>1, <2>2, <1>1
    <3> QED
      BY <3>2, <2>3
  <2>5. InTheOrder(Answer(f), Firstly(f, Searching!Wanted), Searching!Wanted)
        /\ Len(Answer(f)) = Found /\ Orders(Firstly(f, Searching!Wanted), Searching!Wanted)
    BY WantedInOrder, AnswersInOrder
  <2>6. PICK k \in 1 .. Found : Answer(f)[k] = d
    BY <2>5 DEF InTheOrder
  <2>7. ASSUME NEW l \in 1 .. Found, shown[l] = d PROVE l = k
    <3>1. PICK g \in Searching!TieBreaks : shown[l] = Answer(g)[l]
      BY <1>1
    <3>2. Answer(f)[l] = d
      BY <3>1, <2>4, <2>7
    <3>3. ~ (l < k) /\ ~ (k < l)
      BY <3>2, <2>5, <2>6 DEF InTheOrder, Orders
    <3> QED
      BY <3>3, <1>1
  <2> QED
    BY <2>4, <2>6, <2>7
<1> QED
  BY <1>1, <1>2, <1>3, <1>4, SameSearchCardinality DEF Found

LEMMA SearchSafe ==
    ASSUME ListAssumptions, SearchInv
    PROVE  Searching!EveryPage /\ Searching!SearchWithinList /\ Searching!ShownOpens
<1>1. Searching!EveryPage
  BY PagesSafe
<1> DEFINE found(words) == {d \in Locations : /\ ~ place[d].deleted
                                              /\ place[d].status = "PUBLISHED"
                                              /\ words => place[d].matches}
           featured == {d \in Locations : ~ place[d].deleted /\ place[d].status = "PUBLISHED"}
<1>2. /\ \A words, f : Searching!searchDestinations(words, f) =
            Searching!Rows(Searching!InOrder(found(words), f), 0, PageSize)
      /\ \A f : Searching!findFeatured(f) =
            Searching!Rows(Searching!InOrder(featured, f), 0, PageSize)
  BY DEF Searching!searchDestinations, Searching!findFeatured
<1>3. /\ \A words : found(words) \in SUBSET Locations
      /\ featured \in SUBSET Locations /\ featured \subseteq Searching!findByIdOrSlug
      /\ \A words : found(words) \subseteq Searching!findByIdOrSlug
      /\ filter = None => /\ found(TRUE) \subseteq Searching!whereConditions
                          /\ found(FALSE) \subseteq Searching!buildWhereClause
      /\ Searching!whereConditions \subseteq Searching!buildWhereClause
      /\ Searching!Wanted \subseteq Searching!findByIdOrSlug
  BY DEF Searching!findByIdOrSlug, Searching!whereConditions, Searching!buildWhereClause,
      Searching!Wanted, Searching!wherePublished, Searching!Filtered
<1> HIDE DEF found, featured
<1>4. \A f \in Searching!TieBreaks :
         /\ \A words :
               Searching!Range(Searching!searchDestinations(words, f)) \subseteq found(words)
         /\ Searching!Range(Searching!findFeatured(f)) \subseteq featured
  BY <1>2, <1>3, OfferedAre
<1>5. Searching!SearchWithinList
  BY <1>3, <1>4 DEF Searching!SearchWithinList
<1>6. quiet => Searching!Range(shown) \subseteq Searching!findByIdOrSlug
  <2>1. quiet => /\ DOMAIN shown = 1 .. Len(shown) /\ Len(shown) \in Nat /\ Len(shown) <= Found
                 /\ \A k \in 1 .. Len(shown) :
                       \E f \in Searching!TieBreaks : shown[k] = Answer(f)[k]
    BY DEF SearchInv, Showed
  <2>2. quiet => \A k \in DOMAIN shown : shown[k] \in Searching!Wanted
    BY <2>1, WantedInOrder
  <2> QED
    BY <2>2, <1>3 DEF Searching!Range
<1>7. Searching!ShownOpens
  BY <1>3, <1>4, <1>6 DEF Searching!ShownOpens
<1> QED
  BY <1>1, <1>5, <1>7

LEMMA NearestSafe == ASSUME ListAssumptions PROVE Searching!NearestShown
<1> DEFINE open == {d \in Locations : ~ place[d].deleted}
<1> SUFFICES ASSUME NEW here \in Locations, NEW radius
             PROVE  LET nearby == Searching!getNearbyDestinations(open, here, radius)
                    IN  \A d \in Searching!InCircle(open, here, radius) \ Searching!Range(nearby) :
                            /\ Len(nearby) = PageSize
                            /\ \A e \in Searching!Range(nearby) : Searching!Nearer(here, e, d)
  BY DEF Searching!NearestShown
<1> DEFINE S == Searching!InCircle(open, here, radius)
           nearby == Rows(Searching!NearestFirst(here, S), 0, PageSize)
<1>1. S \in SUBSET Locations
  BY DEF Searching!InCircle
<1>2. Searching!getNearbyDestinations(open, here, radius) = nearby
  BY SameSearchRows DEF Searching!getNearbyDestinations
<1> HIDE DEF open, S, nearby
<1>3. FirstFew(S, Closer(here, S), PageSize, nearby)
  BY <1>1, AnswersInOrder, FirstRows DEF nearby, ListAssumptions
<1>4. nearby \in Seq(S) /\ DOMAIN nearby = 1 .. Len(nearby)
  BY <1>3 DEF FirstFew
<1>5. \A d \in S \ Searching!Range(nearby) :
          Len(nearby) = PageSize
          /\ \A e \in Searching!Range(nearby) : Searching!Nearer(here, e, d)
  BY <1>3, <1>4 DEF FirstFew, Searching!Range, Closer
<1> QED
  BY <1>2, <1>5 DEF S

-----------------------------------------------------------------------------
(* Recommendations.                                                        *)

\* What is known of the destinations and of whom they are recommended to.
VisitInv ==
    /\ recommended \in Seq(Recommending!DestinationType)
    /\ \A d \in DOMAIN recommended : IsFiniteSet(recommended[d].tags)
    /\ context.here # None => context.here \in Int
    /\ context.radius \in Nat /\ context.limit \in Nat \ {0}

RecommendInv == VisitInv /\ Recommending!BetterFirst

LEMMA SameRecommendCardinality == \A S : Recommending!Cardinality(S) = Cardinality(S)
BY DEF Recommending!Cardinality, Cardinality

LEMMA SameRecommendSorted == \A S, R : Recommending!Sorted(S, R) = Sorted(S, R)
BY DEF Recommending!Sorted, Sorted, Recommending!Cardinality, Cardinality

LEMMA SameRecommendRows == \A all, offset, n : Recommending!Rows(all, offset, n) = Rows(all, offset, n)
BY DEF Recommending!Rows, Rows

LEMMA LesserOrGreater ==
    ASSUME NEW a \in Int, NEW b \in Int
    PROVE  /\ Recommending!Max({a, b}) = IF a < b THEN b ELSE a
           /\ Recommending!Min({a, b}) = IF a < b THEN a ELSE b
<1> DEFINE high == IF a < b THEN b ELSE a
           low == IF a < b THEN a ELSE b
<1>1. high \in {a, b} /\ \A y \in {a, b} : high >= y
  OBVIOUS
<1>2. low \in {a, b} /\ \A y \in {a, b} : low <= y
  OBVIOUS
<1>3. \A x \in {a, b} : (\A y \in {a, b} : x >= y) => x = high
  OBVIOUS
<1>4. \A x \in {a, b} : (\A y \in {a, b} : x <= y) => x = low
  OBVIOUS
<1> HIDE DEF high, low
<1>5. Recommending!Max({a, b}) = high
  BY <1>1, <1>3 DEF Recommending!Max
<1>6. Recommending!Min({a, b}) = low
  BY <1>2, <1>4 DEF Recommending!Min
<1> QED
  BY <1>5, <1>6 DEF high, low

LEMMA SightIs ==
    ASSUME VisitInv, NEW d \in DOMAIN recommended
    PROVE  /\ d \in Nat
           /\ recommended[d].featured \in BOOLEAN /\ recommended[d].rating \in Nat
           /\ recommended[d].reviews \in Nat /\ recommended[d].fee \in Nat
           /\ recommended[d].at \in Int
           /\ Cardinality(recommended[d].tags \intersect liked.tags) \in Nat
<1>1. IsFiniteSet(recommended[d].tags)
  BY DEF VisitInv
<1>2. Cardinality(recommended[d].tags \intersect liked.tags) \in Nat
  BY <1>1, FS_Subset, FS_CardinalityType
<1>3. recommended[d] \in Recommending!DestinationType /\ d \in Nat
  BY DEF VisitInv
<1> QED
  BY <1>2, <1>3 DEF Recommending!DestinationType

\* The points each rule gives, and that what is better gets no fewer.
LEMMA AffinityIs ==
    ASSUME VisitInv, NEW d \in DOMAIN recommended
    PROVE  LET tags == 100 * Cardinality(recommended[d].tags \intersect liked.tags)
           IN  Recommending!affinity(recommended[d]) =
                 (IF recommended[d].category \in liked.categories THEN 300 ELSE 0)
                     + (IF tags < 250 THEN tags ELSE 250)
<1> DEFINE tags == 100 * Cardinality(recommended[d].tags \intersect liked.tags)
<1>1. tags \in Int
  BY SightIs
<1>2. Recommending!affinity(recommended[d]) =
         (IF recommended[d].category \in liked.categories THEN 300 ELSE 0)
             + Recommending!Min({tags, 250})
  BY SameRecommendCardinality DEF Recommending!affinity
<1> HIDE DEF tags
<1>3. Recommending!Min({tags, 250}) = IF tags < 250 THEN tags ELSE 250
  BY <1>1, LesserOrGreater
<1> QED
  BY <1>2, <1>3 DEF tags

LEMMA ProximityIs ==
    ASSUME VisitInv, NEW d \in DOMAIN recommended, context.here # None
    PROVE  LET km == Recommending!distanceKm(recommended[d])
           IN  /\ km \in Int
               /\ Recommending!proximity(recommended[d]) =
                     IF km > context.radius THEN - (1000 + 50 * (km - context.radius))
                     ELSE IF 0 < 400 - 8 * km THEN 400 - 8 * km ELSE 0
<1> DEFINE km == Recommending!distanceKm(recommended[d])
<1>1. km \in Int
  <2>1. recommended[d].at \in Int /\ context.here \in Int
    BY SightIs DEF VisitInv
  <2> QED
    BY <2>1 DEF Recommending!distanceKm
<1>2. Recommending!proximity(recommended[d]) =
          IF km > context.radius THEN - (1000 + 50 * (km - context.radius))
          ELSE Recommending!Max({0, 400 - 8 * km})
  BY DEF Recommending!proximity
<1> HIDE DEF km
<1>3. 400 - 8 * km \in Int /\ 0 \in Int
  BY <1>1
<1>4. Recommending!Max({0, 400 - 8 * km}) = IF 0 < 400 - 8 * km THEN 400 - 8 * km ELSE 0
  BY <1>3, LesserOrGreater
<1> QED
  BY <1>1, <1>2, <1>4 DEF km

LEMMA ScoreIs ==
    ASSUME VisitInv, NEW d \in DOMAIN recommended
    PROVE  /\ Recommending!popularity(recommended[d]) \in Int
           /\ Recommending!affinity(recommended[d]) \in Int
           /\ Recommending!styleMatch(recommended[d]) \in Int
           /\ Recommending!categoryMatch \in Int
           /\ Recommending!budgetMatch(recommended[d]) \in Int
           /\ Recommending!proximity(recommended[d]) \in Int
           /\ Recommending!score(d) \in Int
<1>1. Recommending!popularity(recommended[d]) \in Int
  <2>1. recommended[d].rating \in Nat /\ recommended[d].reviews \in Nat
    BY SightIs
  <2> QED
    BY <2>1 DEF Recommending!popularity
<1>2. Recommending!affinity(recommended[d]) \in Int
  <2> DEFINE tags == 100 * Cardinality(recommended[d].tags \intersect liked.tags)
  <2>1. tags \in Int
    BY SightIs
  <2>2. Recommending!affinity(recommended[d]) =
           (IF recommended[d].category \in liked.categories THEN 300 ELSE 0)
               + (IF tags < 250 THEN tags ELSE 250)
    BY AffinityIs
  <2> HIDE DEF tags
  <2> QED
    BY <2>1, <2>2
<1>3. /\ Recommending!styleMatch(recommended[d]) \in Int
      /\ Recommending!categoryMatch \in Int
  BY DEF Recommending!styleMatch, Recommending!categoryMatch
<1>4. Recommending!budgetMatch(recommended[d]) \in Int
  BY DEF Recommending!budgetMatch
<1>5. Recommending!proximity(recommended[d]) \in Int
  <2>1. CASE context.here = None
    BY <2>1 DEF Recommending!proximity
  <2>2. CASE context.here # None
    BY <2>2, ProximityIs DEF VisitInv
  <2> QED
    BY <2>1, <2>2
<1> QED
  BY <1>1, <1>2, <1>3, <1>4, <1>5 DEF Recommending!score

LEMMA BetterScores ==
    ASSUME VisitInv, NEW d \in DOMAIN recommended, NEW e \in DOMAIN recommended,
           Recommending!Better(recommended[d], recommended[e])
    PROVE  Recommending!Before(d, e) /\ Recommending!score(d) > Recommending!score(e)
<1> DEFINE p == recommended[d]
           q == recommended[e]
<1>1. /\ p.rating > q.rating /\ p.reviews >= q.reviews
      /\ q.featured => p.featured
      /\ q.category \in liked.categories => p.category \in liked.categories
      /\ Cardinality(p.tags \intersect liked.tags) >= Cardinality(q.tags \intersect liked.tags)
      /\ Recommending!Fits(q) => Recommending!Fits(p)
      /\ p.fee <= q.fee
      /\ context.here # None => Recommending!distanceKm(p) <= Recommending!distanceKm(q)
  BY SameRecommendCardinality DEF Recommending!Better
<1>2. Recommending!Before(d, e)
  BY <1>1, SightIs DEF Recommending!Before
<1>3. Recommending!popularity(p) > Recommending!popularity(q)
  BY <1>1, SightIs DEF Recommending!popularity
<1>4. Recommending!affinity(p) >= Recommending!affinity(q)
  <2> DEFINE a == Cardinality(p.tags \intersect liked.tags)
             b == Cardinality(q.tags \intersect liked.tags)
  <2>1. a \in Nat /\ b \in Nat /\ a >= b
    BY <1>1, SightIs
  <2>2. /\ Recommending!affinity(p) = (IF p.category \in liked.categories THEN 300 ELSE 0)
                     + (IF 100 * a < 250 THEN 100 * a ELSE 250)
        /\ Recommending!affinity(q) = (IF q.category \in liked.categories THEN 300 ELSE 0)
                     + (IF 100 * b < 250 THEN 100 * b ELSE 250)
    BY AffinityIs
  <2> HIDE DEF a, b
  <2> QED
    BY <1>1, <2>1, <2>2
<1>5. Recommending!styleMatch(p) >= Recommending!styleMatch(q)
  BY <1>1 DEF Recommending!styleMatch, Recommending!Fits
<1>6. Recommending!budgetMatch(p) >= Recommending!budgetMatch(q)
  <2>1. p.fee \in Nat /\ q.fee \in Nat
    BY SightIs
  <2> QED
    BY <1>1, <2>1 DEF Recommending!budgetMatch
<1>7. Recommending!proximity(p) >= Recommending!proximity(q)
  <2>1. CASE context.here = None
    BY <2>1 DEF Recommending!proximity
  <2>2. CASE context.here # None
    <3> DEFINE a == Recommending!distanceKm(p)
               b == Recommending!distanceKm(q)
    <3>1. /\ a \in Int /\ b \in Int /\ a <= b
          /\ Recommending!proximity(p) =
                     IF a > context.radius THEN - (1000 + 50 * (a - context.radius))
                     ELSE IF 0 < 400 - 8 * a THEN 400 - 8 * a ELSE 0
          /\ Recommending!proximity(q) =
                     IF b > context.radius THEN - (1000 + 50 * (b - context.radius))
                     ELSE IF 0 < 400 - 8 * b THEN 400 - 8 * b ELSE 0
      BY <1>1, <2>2, ProximityIs
    <3>2. context.radius \in Nat
      BY DEF VisitInv
    <3> HIDE DEF a, b
    <3> QED
      BY <3>1, <3>2
  <2> QED
    BY <2>1, <2>2
<1>8. Recommending!score(d) > Recommending!score(e)
  <2>1. /\ Recommending!score(d) = Recommending!popularity(p) + Recommending!affinity(p)
              + Recommending!styleMatch(p) + Recommending!categoryMatch
              + Recommending!budgetMatch(p) + Recommending!proximity(p)
        /\ Recommending!score(e) = Recommending!popularity(q) + Recommending!affinity(q)
              + Recommending!styleMatch(q) + Recommending!categoryMatch
              + Recommending!budgetMatch(q) + Recommending!proximity(q)
    BY DEF Recommending!score
  <2> HIDE DEF p, q
  <2> QED
    BY <2>1, <1>3, <1>4, <1>5, <1>6, <1>7, ScoreIs DEF p, q
<1> QED
  BY <1>2, <1>8

\* The candidates, all there are to choose from, and the order they are read in.
Eligible ==
    {d \in DOMAIN recommended : /\ ~ recommended[d].deleted
                                /\ context.category \in {None, recommended[d].category}}
ReadFirst == {p \in Eligible \X Eligible : Recommending!Before(p[1], p[2])}

LEMMA CandidatesAre ==
    ASSUME RecommendAssumptions, VisitInv
    PROVE  /\ Orders(ReadFirst, Eligible)
           /\ FirstFew(Eligible, ReadFirst, MaxCandidates, Recommending!candidates)
<1>1. Eligible \in SUBSET (DOMAIN recommended)
  BY DEF Eligible
<1>2. IsFiniteSet(Eligible)
  <2>1. DOMAIN recommended = 1 .. Len(recommended) /\ Len(recommended) \in Nat
    BY DEF VisitInv
  <2>2. 1 \in Int /\ Len(recommended) \in Int
    BY <2>1
  <2>3. IsFiniteSet(1 .. Len(recommended))
    BY <2>2, FS_Interval
  <2> QED
    BY <1>1, <2>1, <2>3, FS_Subset
<1>3. Orders(ReadFirst, Eligible)
  <2>1. \A d, e \in Eligible : <<d, e>> \in ReadFirst <=> Recommending!Before(d, e)
    BY DEF ReadFirst
  <2>2. \A d \in Eligible : /\ recommended[d].featured \in BOOLEAN /\ recommended[d].rating \in Nat
                            /\ recommended[d].reviews \in Nat /\ d \in Nat
    BY <1>1, SightIs
  <2>3. \A d, e \in Eligible : Recommending!Before(d, e) => ~ Recommending!Before(e, d)
    BY <2>2 DEF Recommending!Before
  <2>4. \A d, e, f \in Eligible :
            Recommending!Before(d, e) /\ Recommending!Before(e, f) => Recommending!Before(d, f)
    BY <2>2 DEF Recommending!Before
  <2>5. \A d, e \in Eligible : d = e \/ Recommending!Before(d, e) \/ Recommending!Before(e, d)
    BY <2>2 DEF Recommending!Before
  <2> QED
    BY <2>1, <2>3, <2>4, <2>5 DEF Orders
<1>4. Recommending!candidates = Rows(Sorted(Eligible, ReadFirst), 0, MaxCandidates)
  BY SameRecommendSorted, SameRecommendRows DEF Recommending!candidates, Eligible, ReadFirst,
      Recommending!DestinationIds
<1>5. FirstFew(Eligible, ReadFirst, MaxCandidates, Rows(Sorted(Eligible, ReadFirst), 0, MaxCandidates))
  BY <1>2, <1>3, SortedInOrder, FirstRows DEF RecommendAssumptions
<1> QED
  BY <1>3, <1>4, <1>5

\* Who comes before one of the first few is one of them.
LEMMA FewTogether ==
    ASSUME NEW S, NEW R, Orders(R, S), NEW limit, NEW some, FirstFew(S, R, limit, some),
           NEW i \in S, NEW l \in 1 .. Len(some), <<i, some[l]>> \in R
    PROVE  \E k \in 1 .. Len(some) : some[k] = i
<1>1. some[l] \in S
  BY DEF FirstFew
<1> QED
  BY <1>1 DEF FirstFew, Orders

HigherAmong(S) == {p \in S \X S : Recommending!Higher(p[1], p[2])}

LEMMA HigherIs ==
    \A S : \A a, b \in S : <<a, b>> \in HigherAmong(S) <=> Recommending!Higher(a, b)
BY DEF HigherAmong

\* The answer has the candidates with the highest scores.
LEMMA RecommendStep ==
    ASSUME RecommendAssumptions, VisitInv, Recommending!recommend
    PROVE  Recommending!BetterFirst' /\ recommendation' \in Seq(DOMAIN recommended)
<1> DEFINE seen == Recommending!candidates
           ranks == DOMAIN seen
           sorted == Sorted(ranks, HigherAmong(ranks))
           ranked == [i \in DOMAIN sorted |-> seen[sorted[i]]]
           few == Rows(ranked, 0, context.limit)
<1>1. /\ recommendation' = few
      /\ UNCHANGED <<recommended, context, favorites, praised, liked>>
  BY SameRecommendSorted, SameRecommendRows DEF Recommending!recommend, HigherAmong,
      Recommending!HighestFirst
<1>2. Orders(ReadFirst, Eligible) /\ FirstFew(Eligible, ReadFirst, MaxCandidates, seen)
  BY CandidatesAre
<1>3. /\ seen \in Seq(Eligible) /\ Len(seen) \in Nat /\ ranks = 1 .. Len(seen)
      /\ \A k \in ranks : seen[k] \in Eligible
  BY <1>2 DEF FirstFew
<1>4. \A d \in Eligible : d \in DOMAIN recommended /\ Recommending!score(d) \in Int
  BY ScoreIs DEF Eligible
<1>5. \A a, b \in ranks : <<a, b>> \in HigherAmong(ranks) <=>
          \/ Recommending!score(seen[a]) > Recommending!score(seen[b])
          \/ Recommending!score(seen[a]) = Recommending!score(seen[b]) /\ a < b
  <2>1. \A a, b \in ranks : <<a, b>> \in HigherAmong(ranks) <=> Recommending!Higher(a, b)
    BY HigherIs, Zenon
  <2> QED
    BY <2>1, Zenon DEF Recommending!Higher
<1> HIDE DEF seen, ranks
<1>6. Orders(HigherAmong(ranks), ranks)
  <2>1. \A k \in ranks : k \in Nat /\ Recommending!score(seen[k]) \in Int
    BY <1>3, <1>4
  <2> QED
    BY <1>5, <2>1 DEF Orders
<1>7. IsFiniteSet(ranks)
  <2>1. 1 \in Int /\ Len(seen) \in Int
    BY <1>3
  <2> QED
    BY <1>3, <2>1, FS_Interval
<1>8. InTheOrder(sorted, HigherAmong(ranks), ranks)
  BY <1>6, <1>7, SortedInOrder
<1>9. /\ sorted \in Seq(ranks) /\ Len(sorted) \in Nat /\ DOMAIN sorted = 1 .. Len(sorted)
      /\ \A k \in 1 .. Len(sorted) : sorted[k] \in ranks
      /\ \A a \in ranks : \E k \in 1 .. Len(sorted) : sorted[k] = a
      /\ \A k, l \in 1 .. Len(sorted) : k < l => <<sorted[k], sorted[l]>> \in HigherAmong(ranks)
  BY <1>8 DEF InTheOrder
<1>r. ranked = [i \in DOMAIN sorted |-> seen[sorted[i]]]
  OBVIOUS
<1> HIDE DEF sorted, ranked
<1>10. /\ ranked \in Seq(Eligible) /\ Len(ranked) = Len(sorted)
       /\ \A k \in 1 .. Len(sorted) : ranked[k] = seen[sorted[k]]
  <2>1. ranked \in [1 .. Len(sorted) -> Eligible]
    BY <1>r, <1>3, <1>9
  <2> QED
    BY <2>1, <1>r, <1>9
<1>11. Excerpt(Eligible, ranked, 0, context.limit, few)
  BY <1>9, <1>10, RowsAre DEF VisitInv
<1> HIDE DEF few
<1>12. /\ Len(few) \in Nat /\ DOMAIN few = 1 .. Len(few)
       /\ \A k \in 1 .. Len(few) : k \in 1 .. Len(sorted) /\ few[k] = seen[sorted[k]]
  <2>1. few \in Seq(Eligible)
    BY <1>11 DEF Excerpt
  <2>2. \A k \in 1 .. Len(few) : 0 + k \in 1 .. Len(ranked) /\ few[k] = ranked[0 + k]
    BY <1>11 DEF Excerpt
  <2>3. Len(few) \in Nat /\ DOMAIN few = 1 .. Len(few) /\ \A k \in 1 .. Len(few) : 0 + k = k
    BY <2>1
  <2> QED
    BY <2>2, <2>3, <1>10
<1>13. ASSUME NEW i \in DOMAIN few, NEW d \in Eligible,
              Recommending!Better(recommended[d], recommended[few[i]])
       PROVE  \E j \in 1 .. i - 1 : few[j] = d
  <2>1. i \in 1 .. Len(few) /\ i \in Int /\ i \in 1 .. Len(sorted) /\ few[i] = seen[sorted[i]]
    BY <1>12
  <2>2. sorted[i] \in ranks /\ seen[sorted[i]] \in Eligible
    BY <2>1, <1>9, <1>3
  <2>3. /\ Recommending!Before(d, seen[sorted[i]])
        /\ Recommending!score(d) > Recommending!score(seen[sorted[i]])
    BY <1>13, <2>1, <2>2, <1>4, BetterScores
  <2>4. <<d, seen[sorted[i]]>> \in ReadFirst
    BY <2>2, <2>3 DEF ReadFirst
  <2>5. PICK a \in ranks : seen[a] = d
    BY <1>2, <1>3, <2>2, <2>4, FewTogether
  <2>6. PICK k \in 1 .. Len(sorted) : sorted[k] = a
    BY <1>9
  <2>7. Recommending!score(d) \in Int /\ Recommending!score(seen[sorted[i]]) \in Int
    BY <1>4, <2>2
  <2>8. ~ (i < k) /\ i # k
    <3>1. <<sorted[i], a>> \notin HigherAmong(ranks)
      <4>1. <<sorted[i], a>> \in HigherAmong(ranks) <=>
                \/ Recommending!score(seen[sorted[i]]) > Recommending!score(d)
                \/ Recommending!score(seen[sorted[i]]) = Recommending!score(d) /\ sorted[i] < a
        BY <1>5, <2>2, <2>5
      <4> QED
        BY <4>1, <2>3, <2>7
    <3>2. ~ (i < k)
      BY <3>1, <1>9, <2>1, <2>6
    <3>3. i # k
      BY <2>3, <2>5, <2>6, <2>7
    <3> QED
      BY <3>2, <3>3
  <2>9. k \in 1 .. i - 1 /\ k \in 1 .. Len(few)
    BY <2>1, <2>8, <1>9, <1>12
  <2>10. few[k] = d
    BY <2>9, <1>12, <2>5, <2>6
  <2> QED
    BY <2>9, <2>10
<1>14. \A d \in DOMAIN recommended :
          /\ ~ recommended[d].deleted
          /\ context.category \in {None, recommended[d].category}
          => d \in Eligible
  BY DEF Eligible
<1>15. \A p, q : Recommending!Better(p, q)' = Recommending!Better(p, q)
  BY <1>1 DEF Recommending!Better, Recommending!Fits, Recommending!distanceKm
<1>16. Recommending!BetterFirst'
  BY <1>1, <1>13, <1>14, <1>15 DEF Recommending!BetterFirst, Recommending!DestinationIds
<1>17. few \in Seq(Eligible) /\ Eligible \subseteq DOMAIN recommended
  BY <1>11 DEF Excerpt, Eligible
<1> QED
  BY <1>1, <1>16, <1>17, WiderSeq

LEMMA InitRecommend == ASSUME RecommendAssumptions, Recommending!Init PROVE RecommendInv
<1>1. recommended \in Sightseeing /\ context \in Recommending!ContextType /\ recommendPc = "history"
  BY DEF Recommending!Init, RecommendAssumptions
<1> QED
  BY <1>1 DEF RecommendInv, VisitInv, Recommending!BetterFirst, RecommendAssumptions,
      Recommending!ContextType

LEMMA NextRecommend == ASSUME RecommendAssumptions, RecommendInv, Recommending!Next PROVE RecommendInv'
<1>1. ASSUME NEW read, Recommending!readHistory(read) PROVE RecommendInv'
  BY <1>1 DEF Recommending!readHistory, RecommendInv, VisitInv, Recommending!BetterFirst
<1>2. CASE Recommending!recommend
  BY <1>2, RecommendStep DEF RecommendInv, VisitInv, Recommending!recommend
<1> QED
  BY <1>1, <1>2 DEF Recommending!Next

LEMMA RecommendStutters == ASSUME RecommendInv, UNCHANGED recommendVars PROVE RecommendInv'
<1>1. \A p, q : Recommending!Better(p, q)' = Recommending!Better(p, q)
  BY DEF recommendVars, Recommending!Better, Recommending!Fits, Recommending!distanceKm
<1> QED
  BY <1>1 DEF recommendVars, RecommendInv, VisitInv, Recommending!BetterFirst,
      Recommending!DestinationIds

-----------------------------------------------------------------------------
(* Favorites.                                                              *)

\* Nothing is in the table twice, and what clients were told says what is there.
FavoritesInv ==
    /\ favorite \in Seq(Targets)
    /\ \A k, l \in 1 .. Len(favorite) : favorite[k] = favorite[l] => k = l
    /\ \A r \in Requests : favoriteReq[r].pc # "idle" => favoriteReq[r].t \in Targets
    /\ DOMAIN favoriteReq = Requests /\ DOMAIN balance = Targets
    /\ Favoring!AnswersAddUp

LEMMA StatusIs ==
    ASSUME favorite \in Seq(Targets), NEW t
    PROVE  Favoring!getFavoriteStatus(t) <=> \E k \in 1 .. Len(favorite) : favorite[k] = t
<1>1. DOMAIN favorite = 1 .. Len(favorite)
  OBVIOUS
<1> QED
  BY <1>1 DEF Favoring!getFavoriteStatus, Favoring!Range

LEMMA WithoutIs ==
    ASSUME FavoritesInv, NEW t
    PROVE  /\ Favoring!Without(t) \in Seq(Targets)
           /\ \A k, l \in 1 .. Len(Favoring!Without(t)) :
                 Favoring!Without(t)[k] = Favoring!Without(t)[l] => k = l
           /\ \A x : (\E k \in 1 .. Len(Favoring!Without(t)) : Favoring!Without(t)[k] = x)
                        <=> x # t /\ Favoring!getFavoriteStatus(x)
<1> DEFINE rest == Favoring!Without(t)
           spot == CHOOSE k \in DOMAIN favorite : favorite[k] = t
<1>1. /\ favorite \in Seq(Targets) /\ DOMAIN favorite = 1 .. Len(favorite)
      /\ \A k, l \in 1 .. Len(favorite) : favorite[k] = favorite[l] => k = l
  BY DEF FavoritesInv
<1>2. CASE Favoring!getFavoriteStatus(t)
  <2>1. spot \in 1 .. Len(favorite) /\ favorite[spot] = t
    BY <1>1, <1>2, StatusIs
  <2>2. rest = Removed(favorite, spot)
    BY <1>2 DEF Favoring!Without, Favoring!AllBut, Removed
  <2> HIDE DEF rest, spot
  <2>3. Shorter(Targets, favorite, spot, rest)
    BY <1>1, <2>1, <2>2, ShorterSeq
  <2>4. LessOne(favorite, spot, rest)
    BY <1>1, <2>1, <2>3, ShorterHas
  <2>5. rest \in Seq(Targets)
    BY <2>3 DEF Shorter
  <2> QED
    BY <1>1, <2>1, <2>4, <2>5, StatusIs DEF rest, LessOne
<1>3. CASE ~ Favoring!getFavoriteStatus(t)
  <2>1. rest = favorite
    BY <1>3 DEF Favoring!Without
  <2> QED
    BY <1>1, <1>3, <2>1, StatusIs
<1> QED
  BY <1>2, <1>3

LEMMA InitFavorites == ASSUME Favoring!Init PROVE FavoritesInv
<1>1. favorite = <<>> /\ <<>> \in Seq(Targets) /\ Len(<<>>) = 0
  BY DEF Favoring!Init
<1>2. \A t : ~ Favoring!getFavoriteStatus(t)
  BY <1>1, StatusIs
<1> QED
  BY <1>1, <1>2 DEF Favoring!Init, FavoritesInv, Favoring!AnswersAddUp, Favoring!Idle

\* A row comes or goes, and the answer says so.
LEMMA FavoriteWritten ==
    ASSUME FavoritesInv, favorite' \in Seq(Targets),
           \A k, l \in 1 .. Len(favorite') : favorite'[k] = favorite'[l] => k = l,
           NEW t \in Targets, NEW yes \in BOOLEAN,
           balance' = [balance EXCEPT ![t] = IF yes THEN 1 ELSE 0],
           \A x \in Targets : (\E k \in 1 .. Len(favorite') : favorite'[k] = x)
               <=> (x = t /\ yes) \/ (x # t /\ Favoring!getFavoriteStatus(x)),
           NEW r, favoriteReq' = favoriteReq \/ favoriteReq' = [favoriteReq EXCEPT ![r] = Favoring!Idle]
    PROVE  FavoritesInv'
<1>1. \A x \in Targets : Favoring!getFavoriteStatus(x)' <=>
          (x = t /\ yes) \/ (x # t /\ Favoring!getFavoriteStatus(x))
  <2>1. DOMAIN favorite' = 1 .. Len(favorite')
    OBVIOUS
  <2> QED
    BY <2>1 DEF Favoring!getFavoriteStatus, Favoring!Range
<1>2. \A x \in Targets : balance'[x] = IF x = t THEN (IF yes THEN 1 ELSE 0) ELSE balance[x]
  BY DEF FavoritesInv
<1>3. Favoring!AnswersAddUp'
  BY <1>1, <1>2 DEF FavoritesInv, Favoring!AnswersAddUp
<1>4. \A q \in Requests : favoriteReq'[q].pc # "idle" => favoriteReq'[q].t \in Targets
  BY DEF FavoritesInv, Favoring!Idle
<1> QED
  BY <1>3, <1>4 DEF FavoritesInv

LEMMA CreateFavorite == ASSUME FavoritesInv, NEW r \in Requests, Favoring!create(r) PROVE FavoritesInv'
<1> DEFINE t == favoriteReq[r].t
<1>1. /\ favorite \in Seq(Targets) /\ t \in Targets
      /\ \A k, l \in 1 .. Len(favorite) : favorite[k] = favorite[l] => k = l
      /\ favoriteReq' = [favoriteReq EXCEPT ![r] = Favoring!Idle]
  BY DEF FavoritesInv, Favoring!create
<1> HIDE DEF t
<1>2. CASE UNCHANGED <<favorite, balance>>
  BY <1>1, <1>2 DEF FavoritesInv, Favoring!AnswersAddUp, Favoring!getFavoriteStatus, Favoring!Idle
<1>3. CASE /\ ~ Favoring!getFavoriteStatus(t)
           /\ favorite' = <<t>> \o favorite /\ balance' = [balance EXCEPT ![t] = @ + 1]
  <2> DEFINE one == <<t>>
  <2>1. one \in Seq(Targets) /\ Len(one) = 1 /\ one[1] = t /\ favorite' = one \o favorite
    BY <1>1, <1>3
  <2> HIDE DEF one
  <2>2. \A k \in 1 .. Len(one) : k = 1
    BY <2>1
  <2>3. \A k \in 1 .. Len(one), l \in 1 .. Len(favorite) : one[k] # favorite[l]
    BY <1>1, <1>3, <2>1, <2>2, StatusIs
  <2>4. Joined(Targets, one, favorite, favorite')
    BY <1>1, <2>1, <2>2, <2>3, PageAdded
  <2>5. \A x : (\E k \in 1 .. Len(favorite') : favorite'[k] = x)
                  <=> x = t \/ Favoring!getFavoriteStatus(x)
    <3>1. 1 \in 1 .. Len(one)
      BY <2>1
    <3>2. \E k \in 1 .. Len(favorite') : favorite'[k] = t
      BY <2>1, <2>4, <3>1 DEF Joined
    <3>3. \A l \in 1 .. Len(favorite) : \E k \in 1 .. Len(favorite') : favorite'[k] = favorite[l]
      BY <2>4 DEF Joined
    <3>4. \A k \in 1 .. Len(favorite') : favorite'[k] = t \/ \E l \in 1 .. Len(favorite) : favorite'[k] = favorite[l]
      BY <2>1, <2>2, <2>4 DEF Joined
    <3>5. \A x : Favoring!getFavoriteStatus(x) <=> \E l \in 1 .. Len(favorite) : favorite[l] = x
      BY <1>1, StatusIs
    <3> HIDE DEF t
    <3> QED
      BY <3>2, <3>3, <3>4, <3>5
  <2>6. balance[t] = 0
    BY <1>1, <1>3 DEF FavoritesInv, Favoring!AnswersAddUp
  <2>7. balance' = [balance EXCEPT ![t] = IF TRUE THEN 1 ELSE 0]
    BY <1>3, <2>6
  <2>8. /\ favorite' \in Seq(Targets)
        /\ \A k, l \in 1 .. Len(favorite') : favorite'[k] = favorite'[l] => k = l
    BY <2>4 DEF Joined
  <2>9. \A x \in Targets : (\E k \in 1 .. Len(favorite') : favorite'[k] = x)
                  <=> (x = t /\ TRUE) \/ (x # t /\ Favoring!getFavoriteStatus(x))
    BY <2>5
  <2> QED
    BY <1>1, <2>7, <2>8, <2>9, FavoriteWritten
<1> QED
  BY <1>2, <1>3 DEF Favoring!create, t

LEMMA DeleteFavorite == ASSUME FavoritesInv, NEW r \in Requests, Favoring!delete(r) PROVE FavoritesInv'
<1> DEFINE t == favoriteReq[r].t
<1>1. /\ t \in Targets /\ favoriteReq' = [favoriteReq EXCEPT ![r] = Favoring!Idle]
  BY DEF FavoritesInv, Favoring!delete
<1> HIDE DEF t
<1>2. CASE UNCHANGED <<favorite, balance>>
  BY <1>1, <1>2 DEF FavoritesInv, Favoring!AnswersAddUp, Favoring!getFavoriteStatus, Favoring!Idle
<1>3. CASE /\ Favoring!getFavoriteStatus(t)
           /\ favorite' = Favoring!Without(t) /\ balance' = [balance EXCEPT ![t] = @ - 1]
  <2>0. balance[t] = 1
    BY <1>1, <1>3 DEF FavoritesInv, Favoring!AnswersAddUp
  <2>1. balance' = [balance EXCEPT ![t] = IF FALSE THEN 1 ELSE 0]
    BY <1>3, <2>0
  <2>2. \A x \in Targets : (\E k \in 1 .. Len(favorite') : favorite'[k] = x)
                  <=> (x = t /\ FALSE) \/ (x # t /\ Favoring!getFavoriteStatus(x))
    BY <1>3, WithoutIs
  <2>3. /\ favorite' \in Seq(Targets)
        /\ \A k, l \in 1 .. Len(favorite') : favorite'[k] = favorite'[l] => k = l
    BY <1>3, WithoutIs
  <2> QED
    BY <1>1, <2>1, <2>2, <2>3, FavoriteWritten
<1> QED
  BY <1>2, <1>3 DEF Favoring!delete, t

LEMMA SetTargetStep ==
    ASSUME FavoritesInv, NEW t \in Targets, NEW status, Favoring!SetTarget(t, status)
    PROVE  FavoritesInv'
<1>1. CASE UNCHANGED <<favorite, balance>>
  BY <1>1 DEF Favoring!SetTarget, FavoritesInv, Favoring!AnswersAddUp, Favoring!getFavoriteStatus
<1>2. CASE favorite' = Favoring!Without(t) /\ balance' = [balance EXCEPT ![t] = 0]
  <2>1. \A x \in Targets : (\E k \in 1 .. Len(favorite') : favorite'[k] = x)
                  <=> (x = t /\ FALSE) \/ (x # t /\ Favoring!getFavoriteStatus(x))
    BY <1>2, WithoutIs
  <2>2. /\ favorite' \in Seq(Targets)
        /\ \A k, l \in 1 .. Len(favorite') : favorite'[k] = favorite'[l] => k = l
        /\ favoriteReq' = favoriteReq
    BY <1>2, WithoutIs DEF Favoring!SetTarget
  <2>3. balance' = [balance EXCEPT ![t] = IF FALSE THEN 1 ELSE 0]
    BY <1>2
  <2> QED
    BY <2>1, <2>2, <2>3, FavoriteWritten
<1> QED
  BY <1>1, <1>2 DEF Favoring!SetTarget

LEMMA NextFavorites == ASSUME FavoritesInv, Favoring!Next PROVE FavoritesInv'
<1>1. ASSUME NEW r \in Requests, NEW t \in Targets, NEW pc, Favoring!Begin(r, t, pc)
      PROVE  FavoritesInv'
  BY <1>1 DEF Favoring!Begin, FavoritesInv, Favoring!AnswersAddUp, Favoring!getFavoriteStatus
<1>2. ASSUME NEW r \in Requests, NEW t \in Targets,
             \/ Favoring!addFavorite(r, t) \/ Favoring!removeFavorite(r, t)
             \/ Favoring!toggleFavorite(r, t)
             \/ Favoring!addAccommodationFavorite(r, t) \/ Favoring!removeAccommodationFavorite(r, t)
             \/ Favoring!toggleAccommodationFavorite(r, t)
             \/ Favoring!addRestaurantFavorite(r, t) \/ Favoring!removeRestaurantFavorite(r, t)
             \/ Favoring!toggleRestaurantFavorite(r, t)
      PROVE  FavoritesInv'
  <2>1. Favoring!Adding(r, t) \/ Favoring!Removing(r, t)
    BY <1>2 DEF Favoring!addFavorite, Favoring!removeFavorite, Favoring!toggleFavorite,
        Favoring!addAccommodationFavorite, Favoring!removeAccommodationFavorite,
        Favoring!toggleAccommodationFavorite, Favoring!addRestaurantFavorite,
        Favoring!removeRestaurantFavorite, Favoring!toggleRestaurantFavorite
  <2> QED
    BY <1>1, <2>1 DEF Favoring!Adding, Favoring!Removing
<1> QED
  BY <1>2, CreateFavorite, DeleteFavorite, SetTargetStep DEF Favoring!Next

LEMMA FavoritesStutter == ASSUME FavoritesInv, UNCHANGED favoritesVars PROVE FavoritesInv'
BY DEF favoritesVars, FavoritesInv, Favoring!AnswersAddUp, Favoring!getFavoriteStatus

-----------------------------------------------------------------------------
(* TravelRecords: links, journals and expenses.                            *)

\* Requests for a link that have found none.
Linkless(s) == inFlight[s].pc = "share" /\ inFlight[s].read = None

\* There is a link once one was given, and every other has been found in the row; a request
\* that has found none is alone and still right, unless two have clashed.
LinksKnown ==
    /\ itinerary.shareToken = None => links = {}
    /\ itinerary.shareToken # None => itinerary.shareToken \in links
    /\ ~ clash => links \subseteq {itinerary.shareToken}
    /\ \A s \in Requests : inFlight[s].pc = "share" /\ ~ Linkless(s) => inFlight[s].read \in links
    /\ ~ clash => /\ \A s \in Requests : Linkless(s) => itinerary.shareToken = None
                  /\ \A s, o \in Requests : Linkless(s) /\ Linkless(o) => s = o

\* Requests that edit a row have one of their table.
RowsNamed ==
    \A s \in Requests : inFlight[s].pc \in {"update", "delete"} =>
        inFlight[s].id \in IF topic = "expenses" THEN Expenses ELSE Journals

RecordsInv ==
    /\ itinerary \in [live : BOOLEAN, shareToken : Tokens \union {None}]
    /\ clash \in BOOLEAN /\ links \subseteq Tokens
    /\ DOMAIN inFlight = Requests
    /\ DOMAIN expense = Expenses /\ DOMAIN journal = Journals
    /\ DOMAIN meant = Expenses \union Journals
    /\ LinksKnown /\ RowsNamed /\ Records!NothingTakenBack

LEMMA InitRecords == ASSUME Records!Init PROVE RecordsInv
<1>1. \A s \in Requests : inFlight[s] = Records!Idle /\ inFlight[s].pc = "idle"
  BY DEF Records!Init, Records!Idle
<1>2. /\ itinerary = [live |-> TRUE, shareToken |-> None] /\ links = {} /\ clash = FALSE
      /\ DOMAIN inFlight = Requests /\ DOMAIN expense = Expenses /\ DOMAIN journal = Journals
      /\ DOMAIN meant = Expenses \union Journals
      /\ \A e \in Expenses : expense[e] = None /\ meant[e] = None
      /\ \A j \in Journals : journal[j] = None /\ meant[j] = None
  BY DEF Records!Init
<1> QED
  BY <1>1, <1>2 DEF RecordsInv, LinksKnown, Linkless, RowsNamed, Records!NothingTakenBack

\* A request that begins changes nothing but itself.
LEMMA BeginRecord ==
    ASSUME RecordsInv, NEW s \in Requests, NEW about, NEW pc, NEW id, NEW read,
           Records!Begin(s, about, pc, id, read),
           pc \in {"update", "delete"} => id \in IF about = "expenses" THEN Expenses ELSE Journals
    PROVE  /\ \A o \in Requests : inFlight'[o] = IF o = s THEN [pc |-> pc, id |-> id, read |-> read]
                                                 ELSE inFlight[o]
           /\ DOMAIN inFlight' = Requests /\ RowsNamed' /\ topic = about
           /\ UNCHANGED <<topic, itinerary, expense, journal, meant>>
<1>1. /\ inFlight' = [inFlight EXCEPT ![s] = [pc |-> pc, id |-> id, read |-> read]]
      /\ topic = about /\ UNCHANGED <<topic, itinerary, expense, journal, meant>>
      /\ DOMAIN inFlight = Requests
  BY DEF Records!Begin, RecordsInv
<1>2. \A o \in Requests : inFlight'[o] = IF o = s THEN [pc |-> pc, id |-> id, read |-> read]
                                         ELSE inFlight[o]
  BY <1>1
<1>3. RowsNamed'
  BY <1>1, <1>2 DEF RecordsInv, RowsNamed
<1> QED
  BY <1>1, <1>2, <1>3

LEMMA LinkStep ==
    ASSUME RecordsInv, NEW s \in Requests, NEW u, Records!generateShareToken(s, u)
    PROVE  RecordsInv'
<1>1. /\ Records!Begin(s, "link", "share", None, itinerary.shareToken)
      /\ clash' = (clash \/ \E o \in Requests : Linkless(o) /\ itinerary.shareToken = None)
      /\ links' = links
  BY DEF Records!generateShareToken, Linkless
<1>2. /\ \A o \in Requests : inFlight'[o] =
            IF o = s THEN [pc |-> "share", id |-> None, read |-> itinerary.shareToken]
            ELSE inFlight[o]
      /\ DOMAIN inFlight' = Requests /\ RowsNamed' /\ topic = "link"
      /\ UNCHANGED <<topic, itinerary, expense, journal, meant>>
  BY <1>1, BeginRecord
<1>3. \A o \in Requests : Linkless(o)' <=> IF o = s THEN itinerary.shareToken = None ELSE Linkless(o)
  BY <1>2 DEF Linkless
<1>4. clash' \in BOOLEAN /\ (~ clash' => ~ clash /\ \A o \in Requests : Linkless(o) => itinerary.shareToken # None)
  BY <1>1
<1>5. LinksKnown'
  <2>1. LinksKnown
    BY DEF RecordsInv
  <2>2. \A o \in Requests : inFlight'[o].pc = "share" /\ ~ Linkless(o)' => inFlight'[o].read \in links
    BY <1>2, <1>3, <2>1 DEF LinksKnown
  <2>3. ~ clash' => \A o \in Requests : Linkless(o)' => itinerary.shareToken = None
    BY <1>3, <1>4, <2>1 DEF LinksKnown
  <2>4. ~ clash' => \A p, o \in Requests : Linkless(p)' /\ Linkless(o)' => p = o
    BY <1>3, <1>4, <2>1 DEF LinksKnown
  <2> QED
    BY <1>1, <1>2, <1>4, <2>1, <2>2, <2>3, <2>4 DEF LinksKnown
<1> QED
  BY <1>1, <1>2, <1>4, <1>5 DEF RecordsInv, Records!NothingTakenBack

\* ... and one that ends is idle.
LEMMA EndRecord ==
    ASSUME RecordsInv, NEW s \in Requests, Records!End(s), topic' = topic
    PROVE  /\ \A o \in Requests : inFlight'[o] = IF o = s THEN Records!Idle ELSE inFlight[o]
           /\ DOMAIN inFlight' = Requests /\ RowsNamed'
           /\ \A o \in Requests : Linkless(o)' <=> o # s /\ Linkless(o)
           /\ \A o \in Requests : inFlight'[o].pc = "share" => o # s
<1>1. inFlight' = [inFlight EXCEPT ![s] = Records!Idle] /\ DOMAIN inFlight = Requests
  BY DEF Records!End, RecordsInv
<1>2. \A o \in Requests : inFlight'[o] = IF o = s THEN Records!Idle ELSE inFlight[o]
  BY <1>1
<1>3. Records!Idle.pc = "idle"
  BY DEF Records!Idle
<1> QED
  BY <1>1, <1>2, <1>3 DEF RecordsInv, RowsNamed, Linkless

\* One that ends and gives no link leaves the links as they are.
LEMMA LinksKept ==
    ASSUME RecordsInv, NEW s \in Requests, Records!End(s), UNCHANGED <<topic, itinerary, links, clash>>
    PROVE  LinksKnown'
BY EndRecord DEF RecordsInv, LinksKnown

LEMMA GiveLinkStep ==
    ASSUME ListAssumptions, RecordsInv, NEW s \in Requests, Records!updateMasterData(s)
    PROVE  RecordsInv'
<1>1. PICK t \in Records!shareToken(s) :
          itinerary' = [itinerary EXCEPT !.shareToken = t] /\ links' = links \union {t}
  BY DEF Records!updateMasterData
<1>2. /\ inFlight[s].pc = "share" /\ Records!End(s)
      /\ UNCHANGED <<topic, clash, expense, journal, meant>>
      /\ itinerary \in [live : BOOLEAN, shareToken : Tokens \union {None}] /\ LinksKnown
      /\ links \subseteq Tokens
  BY DEF Records!updateMasterData, Records!At, RecordsInv
<1>3. IF Linkless(s) THEN t \in Tokens ELSE t = inFlight[s].read /\ t \in links
  BY <1>2 DEF Records!shareToken, Linkless, LinksKnown
<1>4. t \in Tokens /\ t # None
  BY <1>2, <1>3 DEF ListAssumptions
<1>5. itinerary'.shareToken = t /\ itinerary'.live = itinerary.live
      /\ itinerary' \in [live : BOOLEAN, shareToken : Tokens \union {None}]
  BY <1>1, <1>2, <1>4
<1>6. /\ DOMAIN inFlight' = Requests /\ RowsNamed'
      /\ \A o \in Requests : Linkless(o)' <=> o # s /\ Linkless(o)
      /\ \A o \in Requests : inFlight'[o] = IF o = s THEN Records!Idle ELSE inFlight[o]
      /\ \A o \in Requests : inFlight'[o].pc = "share" => o # s
  BY <1>2, EndRecord
<1>7. ~ clash => links' \subseteq {t} /\ \A o \in Requests : ~ Linkless(o)'
  <2>1. CASE Linkless(s)
    BY <1>1, <1>2, <1>6, <2>1 DEF LinksKnown
  <2>2. CASE ~ Linkless(s)
    BY <1>1, <1>2, <1>3, <1>6, <2>2 DEF LinksKnown
  <2> QED
    BY <2>1, <2>2
<1>8. LinksKnown'
  BY <1>1, <1>2, <1>4, <1>5, <1>6, <1>7 DEF LinksKnown
<1> QED
  BY <1>1, <1>2, <1>4, <1>5, <1>6, <1>8 DEF RecordsInv, Records!NothingTakenBack

LEMMA DeleteTripStep ==
    ASSUME RecordsInv, Records!deleteItinerary PROVE RecordsInv'
<1>1. /\ itinerary' = [itinerary EXCEPT !.live = FALSE]
      /\ UNCHANGED <<topic, links, clash, expense, journal, meant, inFlight>>
      /\ itinerary \in [live : BOOLEAN, shareToken : Tokens \union {None}]
  BY DEF Records!deleteItinerary, RecordsInv
<1>2. /\ itinerary' \in [live : BOOLEAN, shareToken : Tokens \union {None}]
      /\ itinerary'.shareToken = itinerary.shareToken
  BY <1>1
<1> QED
  BY <1>1, <1>2 DEF RecordsInv, LinksKnown, RowsNamed, Linkless, Records!NothingTakenBack

\* A request about rows that begins.
LEMMA BeginRowStep ==
    ASSUME RecordsInv, NEW s \in Requests, NEW about, NEW pc \in {"create", "update", "delete"},
           NEW id, NEW read, Records!Begin(s, about, pc, id, read), UNCHANGED <<links, clash>>,
           pc \in {"update", "delete"} => id \in IF about = "expenses" THEN Expenses ELSE Journals
    PROVE  RecordsInv'
<1>1. /\ \A o \in Requests : inFlight'[o] = IF o = s THEN [pc |-> pc, id |-> id, read |-> read]
                                            ELSE inFlight[o]
      /\ DOMAIN inFlight' = Requests /\ RowsNamed'
      /\ UNCHANGED <<topic, itinerary, expense, journal, meant>>
  BY BeginRecord
<1>2. /\ \A o \in Requests : inFlight'[o].pc = "share" => o # s /\ inFlight'[o] = inFlight[o]
      /\ \A o \in Requests : Linkless(o)' => Linkless(o)
  BY <1>1 DEF Linkless
<1>3. LinksKnown'
  BY <1>1, <1>2 DEF RecordsInv, LinksKnown, Linkless
<1> QED
  BY <1>1, <1>3 DEF RecordsInv, Records!NothingTakenBack

\* The row of the table and what was meant of it change alike.
LEMMA ExpenseWritten ==
    ASSUME RecordsInv, NEW e \in Expenses, NEW new, Records!SetExpense(e, new),
           topic = "expenses", meant' = [meant EXCEPT ![e] = new], LinksKnown', RowsNamed',
           DOMAIN inFlight' = Requests
    PROVE  RecordsInv'
<1>1. /\ expense' = [expense EXCEPT ![e] = new]
      /\ UNCHANGED <<topic, itinerary, links, clash, journal>>
  BY DEF Records!SetExpense
<1>2. /\ DOMAIN expense = Expenses /\ DOMAIN meant = Expenses \union Journals
      /\ \A i \in Expenses : expense[i] = meant[i]
  BY DEF RecordsInv, Records!NothingTakenBack
<1>3. /\ DOMAIN expense' = Expenses /\ DOMAIN meant' = Expenses \union Journals
      /\ \A i \in Expenses : expense'[i] = meant'[i]
  BY <1>1, <1>2
<1> QED
  BY <1>1, <1>3 DEF RecordsInv, Records!NothingTakenBack

LEMMA JournalWritten ==
    ASSUME RecordsInv, NEW j \in Journals, NEW new, Records!SetJournal(j, new),
           topic = "journals", meant' = [meant EXCEPT ![j] = new], LinksKnown', RowsNamed',
           DOMAIN inFlight' = Requests
    PROVE  RecordsInv'
<1>1. /\ journal' = [journal EXCEPT ![j] = new]
      /\ UNCHANGED <<topic, itinerary, links, clash, expense>>
  BY DEF Records!SetJournal
<1>2. /\ DOMAIN journal = Journals /\ DOMAIN meant = Expenses \union Journals
      /\ \A i \in Journals : journal[i] = meant[i]
  BY DEF RecordsInv, Records!NothingTakenBack
<1>3. /\ DOMAIN journal' = Journals /\ DOMAIN meant' = Expenses \union Journals
      /\ \A i \in Journals : journal'[i] = meant'[i]
  BY <1>1, <1>2
<1> QED
  BY <1>1, <1>3 DEF RecordsInv, Records!NothingTakenBack

\* A step that leaves the requests, or ends one, keeps what is known of links and requests.
LEMMA RequestsKept ==
    ASSUME RecordsInv, UNCHANGED <<topic, itinerary, links, clash>>,
           UNCHANGED inFlight \/ \E s \in Requests : Records!End(s)
    PROVE  LinksKnown' /\ RowsNamed' /\ DOMAIN inFlight' = Requests
<1>1. CASE UNCHANGED inFlight
  BY <1>1 DEF RecordsInv, LinksKnown, RowsNamed, Linkless
<1>2. ASSUME NEW s \in Requests, Records!End(s) PROVE LinksKnown' /\ RowsNamed' /\ DOMAIN inFlight' = Requests
  BY <1>2, EndRecord, LinksKept
<1> QED
  BY <1>1, <1>2

LEMMA CreateExpenseStep ==
    ASSUME RecordsInv, NEW e \in Expenses, NEW new, Records!CreateExpense(e, new),
           topic = "expenses", UNCHANGED inFlight \/ \E s \in Requests : Records!End(s)
    PROVE  RecordsInv'
<1>1. Records!SetExpense(e, new) /\ meant' = [meant EXCEPT ![e] = new]
  BY DEF Records!CreateExpense
<1>2. UNCHANGED <<topic, itinerary, links, clash>>
  BY <1>1 DEF Records!SetExpense
<1> QED
  BY <1>1, <1>2, RequestsKept, ExpenseWritten

LEMMA UpdateExpenseStep ==
    ASSUME RecordsInv, NEW s \in Requests, Records!updateExpense(s)
    PROVE  RecordsInv'
<1> DEFINE e == inFlight[s].id
<1>1. topic = "expenses" /\ e \in Expenses /\ Records!End(s)
  BY DEF Records!updateExpense, Records!At, RecordsInv, RowsNamed
<1>2. PICK new \in Records!Partly(Records!ExpenseRow) :
          IF expense[e] = None
          THEN UNCHANGED <<topic, itinerary, links, clash, expense, journal, meant>>
          ELSE /\ Records!SetExpense(e, Records!Named(expense[e], new))
               /\ meant' = [meant EXCEPT ![e] = Records!Named(@, new)]
  BY DEF Records!updateExpense
<1> HIDE DEF e
<1>3. UNCHANGED <<topic, itinerary, links, clash>>
  BY <1>2 DEF Records!SetExpense
<1>4. LinksKnown' /\ RowsNamed' /\ DOMAIN inFlight' = Requests
  BY <1>1, <1>3, RequestsKept
<1>5. CASE expense[e] = None
  BY <1>2, <1>4, <1>5 DEF RecordsInv, Records!NothingTakenBack
<1>6. CASE expense[e] # None
  <2>1. expense[e] = meant[e] /\ DOMAIN meant = Expenses \union Journals
    BY <1>1 DEF RecordsInv, Records!NothingTakenBack
  <2>2. meant' = [meant EXCEPT ![e] = Records!Named(expense[e], new)]
    BY <1>2, <1>6, <2>1
  <2> QED
    BY <1>1, <1>2, <1>4, <1>6, <2>2, ExpenseWritten
<1> QED
  BY <1>5, <1>6

LEMMA DeleteExpenseStep ==
    ASSUME RecordsInv, NEW s \in Requests, Records!deleteExpense(s)
    PROVE  RecordsInv'
<1>1. topic = "expenses" /\ inFlight[s].id \in Expenses /\ Records!End(s)
  BY DEF Records!deleteExpense, Records!At, RecordsInv, RowsNamed
<1>2. /\ Records!SetExpense(inFlight[s].id, None)
      /\ meant' = [meant EXCEPT ![inFlight[s].id] = None]
  BY DEF Records!deleteExpense
<1>3. UNCHANGED <<topic, itinerary, links, clash>>
  BY <1>2 DEF Records!SetExpense
<1> QED
  BY <1>1, <1>2, <1>3, RequestsKept, ExpenseWritten

LEMMA CreateJournalStep ==
    ASSUME RecordsInv, NEW j \in Journals, Records!createJournal(j)
    PROVE  RecordsInv'
<1>1. PICK new \in Records!JournalRow :
          Records!SetJournal(j, new) /\ meant' = [meant EXCEPT ![j] = new]
  BY DEF Records!createJournal
<1>2. topic = "journals" /\ UNCHANGED inFlight /\ UNCHANGED <<topic, itinerary, links, clash>>
  BY <1>1 DEF Records!createJournal, Records!SetJournal
<1> QED
  BY <1>1, <1>2, RequestsKept, JournalWritten

LEMMA UpdateJournalStep ==
    ASSUME RecordsInv, NEW s \in Requests, Records!updateJournal(s)
    PROVE  RecordsInv'
<1> DEFINE j == inFlight[s].id
<1>1. topic = "journals" /\ j \in Journals /\ Records!End(s)
  BY DEF Records!updateJournal, Records!At, RecordsInv, RowsNamed
<1>2. PICK new \in Records!Partly(Records!JournalRow) :
          /\ Records!SetJournal(j, Records!Named(journal[j], new))
          /\ meant' = [meant EXCEPT ![j] = Records!Named(@, new)]
  BY DEF Records!updateJournal
<1> HIDE DEF j
<1>3. UNCHANGED <<topic, itinerary, links, clash>>
  BY <1>2 DEF Records!SetJournal
<1>4. journal[j] = meant[j] /\ DOMAIN meant = Expenses \union Journals
  BY <1>1 DEF RecordsInv, Records!NothingTakenBack
<1>5. meant' = [meant EXCEPT ![j] = Records!Named(journal[j], new)]
  BY <1>2, <1>4
<1> QED
  BY <1>1, <1>2, <1>3, <1>5, RequestsKept, JournalWritten

LEMMA DeleteJournalStep ==
    ASSUME RecordsInv, NEW s \in Requests, Records!softDeleteJournal(s)
    PROVE  RecordsInv'
<1> DEFINE j == inFlight[s].id
<1>1. topic = "journals" /\ j \in Journals /\ Records!End(s)
  BY DEF Records!softDeleteJournal, Records!At, RecordsInv, RowsNamed
<1>2. /\ Records!SetJournal(j, [journal[j] EXCEPT !.deleted = TRUE])
      /\ meant' = [meant EXCEPT ![j].deleted = TRUE]
  BY DEF Records!softDeleteJournal
<1> HIDE DEF j
<1>3. UNCHANGED <<topic, itinerary, links, clash>>
  BY <1>2 DEF Records!SetJournal
<1>4. journal[j] = meant[j] /\ DOMAIN meant = Expenses \union Journals
  BY <1>1 DEF RecordsInv, Records!NothingTakenBack
<1>5. meant' = [meant EXCEPT ![j] = [journal[j] EXCEPT !.deleted = TRUE]]
  BY <1>2, <1>4
<1> QED
  BY <1>1, <1>2, <1>3, <1>5, RequestsKept, JournalWritten

LEMMA NextRecords == ASSUME ListAssumptions, RecordsInv, Records!Next PROVE RecordsInv'
<1>1. ASSUME NEW s \in Requests, NEW u,
             Records!generateShareToken(s, u) \/ Records!addItineraryExpense(s, u)
      PROVE  RecordsInv'
  BY <1>1, LinkStep, BeginRowStep DEF Records!addItineraryExpense
<1>2. ASSUME NEW s \in Requests, NEW u, NEW pc \in {"update", "delete"},
             \/ \E e \in Expenses : Records!EditExpense(s, u, e, pc)
             \/ \E j \in Journals : Records!EditJournal(s, u, j, pc)
      PROVE  RecordsInv'
  BY <1>2, BeginRowStep DEF Records!EditExpense, Records!EditJournal
<1>3. ASSUME NEW s \in Requests, NEW e \in Expenses, Records!createExpense(s, e)
      PROVE  RecordsInv'
  BY <1>3, CreateExpenseStep DEF Records!createExpense, Records!At
<1>4. ASSUME NEW s \in Requests,
             \/ Records!updateMasterData(s) \/ Records!updateExpense(s) \/ Records!deleteExpense(s)
             \/ Records!updateJournal(s) \/ Records!softDeleteJournal(s)
      PROVE  RecordsInv'
  BY <1>4, GiveLinkStep, UpdateExpenseStep, DeleteExpenseStep, UpdateJournalStep,
     DeleteJournalStep
<1>5. CASE Records!deleteItinerary
  BY <1>5, DeleteTripStep
<1>6. ASSUME NEW e \in Expenses, Records!createGeneralExpense(e) PROVE RecordsInv'
  BY <1>6, CreateExpenseStep DEF Records!createGeneralExpense
<1>7. ASSUME NEW j \in Journals, Records!createJournal(j) PROVE RecordsInv'
  BY <1>7, CreateJournalStep
<1> QED
  BY <1>1, <1>2, <1>3, <1>4, <1>5, <1>6, <1>7 DEF Records!Next

LEMMA RecordsStutter == ASSUME RecordsInv, UNCHANGED recordsVars PROVE RecordsInv'
BY DEF RecordsInv, recordsVars, LinksKnown, RowsNamed, Linkless, Records!NothingTakenBack

LEMMA RecordsSafe ==
    ASSUME RecordsInv
    PROVE  Records!LinksOpen /\ Records!NothingTakenBack
<1>1. itinerary.live => /\ ~ clash => \A t \in links : Records!getSharedItinerary(t)
                        /\ links # {} => \E t \in links : Records!getSharedItinerary(t)
  BY DEF RecordsInv, LinksKnown, Records!getSharedItinerary
<1> QED
  BY <1>1 DEF RecordsInv, Records!LinksOpen

-----------------------------------------------------------------------------
(* PlanGenerator: the plan of a trip.                                      *)

\* An activity begins when the one before has ended and the way is gone, before the day
\* should end.
Timely(acts, i) ==
    /\ (IF i = 1 THEN request.start ELSE acts[i - 1].end)
          + (IF acts[i].dest = 0 THEN 0
             ELSE Generating!estimateTransitMinutes(acts[i].distance, request.by))
       <= acts[i].start
    /\ acts[i].start < request.end

\* Days that visit nothing but what is counted as visited, and that once, in time.
Fits(days, seen) ==
    /\ days \in Seq(Seq(Generating!Activity))
    /\ \A m \in 1 .. Len(days) : \A i \in 1 .. Len(days[m]) :
          /\ days[m][i].dest # 0 => days[m][i].dest \in seen
          /\ Timely(days[m], i)
    /\ \A m, l \in 1 .. Len(days) : \A i \in 1 .. Len(days[m]), j \in 1 .. Len(days[l]) :
          days[m][i].dest # 0 /\ days[m][i].dest = days[l][j].dest => m = l /\ i = j

GeneratorInv ==
    /\ request \in Generating!RequestType /\ catalogue \in Seq(Generating!DestinationType)
    /\ candidates \in Seq(DOMAIN catalogue \ visited)
    /\ \A k, l \in 1 .. Len(candidates) : candidates[k] = candidates[l] => k = l
    /\ visited \subseteq DOMAIN catalogue
    /\ at \in Int /\ minutes \in Nat /\ cost \in Nat
    /\ generatedDays \in Seq(Seq(Generating!Activity)) /\ activities \in Seq(Generating!Activity)
    /\ generatorPc = "visit" =>
          (IF activities = <<>> THEN request.start ELSE activities[Len(activities)].end) <= minutes
    /\ Fits(Generating!Days, visited)

\* The days with one more, on which nothing is planned yet.
LEMMA NewDay ==
    ASSUME NEW days, NEW seen, Fits(days, seen)
    PROVE  Fits(Append(days, <<>>), seen)
<1> DEFINE more == Append(days, <<>>)
           none == <<>>
<1>1. /\ days \in Seq(Seq(Generating!Activity)) /\ none \in Seq(Generating!Activity)
      /\ Len(none) = 0
  BY DEF Fits
<1> HIDE DEF none
<1>2. /\ Append(days, none) \in Seq(Seq(Generating!Activity))
      /\ Len(days) \in Nat /\ Len(Append(days, none)) = Len(days) + 1
      /\ \A m \in 1 .. Len(days) : Append(days, none)[m] = days[m]
      /\ Append(days, none)[Len(days) + 1] = none
  BY <1>1
<1>3. more = Append(days, none)
  BY DEF none
<1> HIDE DEF more
<1>4. \A m \in 1 .. Len(more) : (m \in 1 .. Len(days) /\ more[m] = days[m]) \/ Len(more[m]) = 0
  BY <1>1, <1>2, <1>3
<1>5. \A m \in 1 .. Len(more) : \A i \in 1 .. Len(more[m]) : m \in 1 .. Len(days) /\ more[m] = days[m]
  BY <1>4
<1>6. \A m \in 1 .. Len(more) : \A i \in 1 .. Len(more[m]) :
          (more[m][i].dest # 0 => more[m][i].dest \in seen) /\ Timely(more[m], i)
  BY <1>5 DEF Fits
<1>7. \A m, l \in 1 .. Len(more) : \A i \in 1 .. Len(more[m]), j \in 1 .. Len(more[l]) :
          more[m][i].dest # 0 /\ more[m][i].dest = more[l][j].dest => m = l /\ i = j
  BY <1>5 DEF Fits
<1>8. more \in Seq(Seq(Generating!Activity))
  BY <1>2, <1>3
<1>9. Fits(more, seen)
  BY <1>6, <1>7, <1>8 DEF Fits
<1> QED
  BY <1>9 DEF more

\* The days with one more activity on the last of them.
LEMMA NewActivity ==
    ASSUME NEW past \in Seq(Seq(Generating!Activity)), NEW acts \in Seq(Generating!Activity),
           NEW act \in Generating!Activity, NEW seen, NEW more, seen \subseteq more,
           Fits(Append(past, acts), seen), act.dest # 0 => act.dest \in more \ seen,
           Timely(Append(acts, act), Len(acts) + 1)
    PROVE  Fits(Append(past, Append(acts, act)), more)
<1> DEFINE old == Append(past, acts)
           longer == Append(acts, act)
           new == Append(past, longer)
           n == Len(past) + 1
           k == Len(acts) + 1
<1>1. /\ Len(past) \in Nat /\ Len(acts) \in Nat
      /\ longer \in Seq(Generating!Activity) /\ Len(longer) = k
      /\ \A i \in 1 .. Len(acts) : longer[i] = acts[i]
      /\ longer[k] = act
  OBVIOUS
<1>2. /\ Len(old) = n /\ old[n] = acts
      /\ \A m \in 1 .. Len(past) : old[m] = past[m]
  OBVIOUS
<1> HIDE DEF longer
<1>3. /\ new \in Seq(Seq(Generating!Activity)) /\ Len(new) = n /\ new[n] = longer
      /\ \A m \in 1 .. Len(past) : new[m] = past[m]
  BY <1>1
<1> HIDE DEF old, new
<1>4. /\ \A m \in 1 .. n : \A i \in 1 .. Len(old[m]) :
            (old[m][i].dest # 0 => old[m][i].dest \in seen) /\ Timely(old[m], i)
      /\ \A m, l \in 1 .. n : \A i \in 1 .. Len(old[m]), j \in 1 .. Len(old[l]) :
            old[m][i].dest # 0 /\ old[m][i].dest = old[l][j].dest => m = l /\ i = j
  BY <1>2 DEF Fits, old
<1>5. \A m \in 1 .. n : \A i \in 1 .. Len(new[m]) :
         \/ i \in 1 .. Len(old[m]) /\ new[m][i] = old[m][i]
         \/ m = n /\ i = k /\ new[m][i] = act /\ i \notin 1 .. Len(old[m])
  <2>1. \A m \in 1 .. n : m \in 1 .. Len(past) \/ m = n
    BY <1>1
  <2>2. \A m \in 1 .. Len(past) : new[m] = old[m]
    BY <1>2, <1>3
  <2>3. \A i \in 1 .. Len(new[n]) :
           \/ i \in 1 .. Len(old[n]) /\ new[n][i] = old[n][i]
           \/ i = k /\ new[n][i] = act /\ i \notin 1 .. Len(old[n])
    BY <1>1, <1>2, <1>3
  <2> QED
    BY <2>1, <2>2, <2>3
<1>6. \A m \in 1 .. n : \A i \in 1 .. Len(new[m]) :
         i \in 1 .. Len(old[m]) => (Timely(old[m], i) <=> Timely(new[m], i))
  <2>1. TAKE m \in 1 .. n
  <2>2. TAKE i \in 1 .. Len(new[m])
  <2>3. HAVE i \in 1 .. Len(old[m])
  <2>4. new[m][i] = old[m][i]
    BY <1>5, <2>3
  <2>5. i # 1 => new[m][i - 1] = old[m][i - 1]
    <3>1. Len(new[m]) \in Nat /\ Len(old[m]) \in Nat
      BY <1>1, <1>2, <1>3
    <3>2. i # 1 => i - 1 \in 1 .. Len(new[m]) /\ i - 1 \in 1 .. Len(old[m])
      BY <2>3, <3>1
    <3> QED
      BY <1>5, <3>2
  <2> HIDE DEF n, k
  <2> QED
    BY <2>4, <2>5 DEF Timely
<1>7. Timely(new[n], k)
  BY <1>3 DEF longer
<1>8. \A m \in 1 .. n : \A i \in 1 .. Len(new[m]) :
         (new[m][i].dest # 0 => new[m][i].dest \in more) /\ Timely(new[m], i)
  <2>1. TAKE m \in 1 .. n
  <2>2. TAKE i \in 1 .. Len(new[m])
  <2>3. CASE i \in 1 .. Len(old[m]) /\ new[m][i] = old[m][i]
    <3>1. Timely(new[m], i)
      BY <1>4, <1>6, <2>3
    <3> QED
      BY <1>4, <2>3, <3>1
  <2>4. CASE m = n /\ i = k /\ new[m][i] = act
    BY <1>7, <2>4
  <2> HIDE DEF n, k
  <2> QED
    BY <1>5, <2>3, <2>4
<1>9. \A m, l \in 1 .. n : \A i \in 1 .. Len(new[m]), j \in 1 .. Len(new[l]) :
         new[m][i].dest # 0 /\ new[m][i].dest = new[l][j].dest => m = l /\ i = j
  <2>1. TAKE m, l \in 1 .. n
  <2>2. TAKE i \in 1 .. Len(new[m]), j \in 1 .. Len(new[l])
  <2>3. HAVE new[m][i].dest # 0 /\ new[m][i].dest = new[l][j].dest
  <2> DEFINE Was(p, x) == x \in 1 .. Len(old[p]) /\ new[p][x] = old[p][x]
             Is(p, x) == p = n /\ x = k /\ new[p][x] = act
  <2>4. (Was(m, i) \/ Is(m, i)) /\ (Was(l, j) \/ Is(l, j))
    BY <1>5
  <2>5. CASE Was(m, i) /\ Was(l, j)
    BY <1>4, <2>3, <2>5
  <2>6. CASE Is(m, i) /\ Is(l, j)
    BY <2>6
  <2>7. CASE Was(m, i) /\ Is(l, j)
    <3>1. old[m][i].dest \in seen /\ act.dest \notin seen
      BY <1>4, <2>3, <2>7
    <3> QED
      BY <2>3, <2>7, <3>1
  <2>8. CASE Is(m, i) /\ Was(l, j)
    <3>1. old[l][j].dest \in seen /\ act.dest \notin seen
      BY <1>4, <2>3, <2>8
    <3> QED
      BY <2>3, <2>8, <3>1
  <2> HIDE DEF Was, Is
  <2> QED
    BY <2>4, <2>5, <2>6, <2>7, <2>8
<1>10. Fits(new, more)
  BY <1>3, <1>8, <1>9 DEF Fits
<1> QED
  BY <1>10 DEF new, longer

\* What has been visited besides.
LEMMA MoreSeen ==
    ASSUME NEW days, NEW seen, NEW more, Fits(days, seen), seen \subseteq more
    PROVE  Fits(days, more)
BY DEF Fits

LEMMA FitsLater ==
    ASSUME UNCHANGED request, Fits(Generating!Days', visited')
    PROVE  Fits(Generating!Days, visited)'
BY DEF Fits, Timely

LEMMA LastOne ==
    ASSUME NEW S, NEW s \in Seq(S), NEW a \in S
    PROVE  /\ Append(s, a) \in Seq(S) /\ Append(s, a) # <<>>
           /\ Append(s, a)[Len(Append(s, a))] = a
OBVIOUS

LEMMA InitGenerator ==
    ASSUME PlanAssumptions, Generating!Init PROVE GeneratorInv
<1> DEFINE none == <<>>
<1>1. /\ \A S : none \in Seq(S)
      /\ Len(none) = 0
  OBVIOUS
<1>2. /\ request \in Generating!RequestType /\ catalogue \in Seq(Generating!DestinationType)
      /\ candidates = none /\ visited = {} /\ at = 0 /\ minutes = 0 /\ cost = 0
      /\ generatedDays = none /\ activities = none /\ generatorPc = "day"
  BY DEF Generating!Init, PlanAssumptions
<1> HIDE DEF none
<1>3. Generating!Days = none
  BY <1>2 DEF Generating!Days
<1>4. Fits(none, visited)
  BY <1>1 DEF Fits
<1> QED
  BY <1>1, <1>2, <1>3, <1>4 DEF GeneratorInv


LEMMA TransitTakes ==
    ASSUME NEW km \in Nat, NEW mode \in Generating!Transportation
    PROVE  Generating!estimateTransitMinutes(km, mode) \in Nat
<1>1. Generating!getAverageSpeedKmH(mode) \in {40, 5, 20, 45}
  BY DEF Generating!getAverageSpeedKmH, Generating!Transportation
<1> DEFINE speed == Generating!getAverageSpeedKmH(mode)
           buffer == IF mode = "WALKING" THEN 5 ELSE 15
           m == (120 * km + speed) \div (2 * speed) + buffer
<1>2. m \in Int
  <2>1. buffer \in Int
    OBVIOUS
  <2> HIDE DEF buffer
  <2>2. (120 * km + speed) \div (2 * speed) \in Int
    BY <1>1
  <2> QED
    BY <2>1, <2>2
<1>3. Generating!estimateTransitMinutes(km, mode) = IF m < 10 THEN 10 ELSE m
  BY DEF Generating!estimateTransitMinutes
<1> HIDE DEF m
<1> QED
  BY <1>2, <1>3

LEMMA RequestIs ==
    ASSUME NEW r \in Generating!RequestType
    PROVE  /\ r.by \in Generating!Transportation /\ r.pace \in Generating!Pace
           /\ r.start \in Nat /\ r.end \in Nat /\ r.travelers \in Nat
<1>1. r.by \in Generating!Transportation /\ r.pace \in Generating!Pace
  BY DEF Generating!RequestType
<1>2. r.start \in 0 .. 1439 /\ r.end \in 0 .. 1439
  BY DEF Generating!RequestType
<1>3. r.travelers \in Nat
  BY DEF Generating!RequestType
<1>4. r.start \in Nat
  BY <1>2
<1>5. r.end \in Nat
  BY <1>2
<1> QED
  BY <1>1, <1>3, <1>4, <1>5

LEMMA RegionsAre ==
    ASSUME GeneratorInv
    PROVE  /\ DOMAIN catalogue = 1 .. Len(catalogue) /\ Len(catalogue) \in Nat
           /\ \A d \in DOMAIN catalogue :
                 /\ d # 0
                 /\ catalogue[d].at \in Int /\ catalogue[d].duration \in Nat
                 /\ catalogue[d].fee \in Nat /\ catalogue[d].score \in Int
           /\ request.by \in Generating!Transportation /\ request.pace \in Generating!Pace
           /\ request.start \in Nat /\ request.end \in Nat /\ request.travelers \in Nat
<1>1. catalogue \in Seq(Generating!DestinationType) /\ request \in Generating!RequestType
  BY DEF GeneratorInv
<1>2. /\ DOMAIN catalogue = 1 .. Len(catalogue) /\ Len(catalogue) \in Nat
      /\ \A d \in DOMAIN catalogue : catalogue[d] \in Generating!DestinationType /\ d # 0
  BY <1>1
<1>3. \A d \in DOMAIN catalogue :
         /\ catalogue[d].at \in Int /\ catalogue[d].duration \in Nat
         /\ catalogue[d].fee \in Nat /\ catalogue[d].score \in Int
  BY <1>2 DEF Generating!DestinationType
<1>4. /\ request.by \in Generating!Transportation /\ request.pace \in Generating!Pace
      /\ request.start \in Nat /\ request.end \in Nat /\ request.travelers \in Nat
  BY <1>1, RequestIs
<1> QED
  BY <1>2, <1>3, <1>4

LEMMA SameGenerating ==
    /\ \A S : Generating!Cardinality(S) = Cardinality(S)
    /\ \A S, R : Generating!Sorted(S, R) = Sorted(S, R)
BY DEF Generating!Sorted, Sorted, Generating!Cardinality, Cardinality

\* A sequence of numbers in their order.
LEMMA BestFirstIs ==
    ASSUME NEW found \in SUBSET Nat, IsFiniteSet(found)
    PROVE  /\ Generating!BestFirst(found) \in Seq(found)
           /\ \A k, l \in 1 .. Len(Generating!BestFirst(found)) :
                 Generating!BestFirst(found)[k] = Generating!BestFirst(found)[l] => k = l
<1> DEFINE R == {p \in found \X found : p[1] < p[2]}
           s == Generating!BestFirst(found)
<1>1. s = Sorted(found, R)
  BY SameGenerating DEF Generating!BestFirst
<1>2. \A a, b \in found : <<a, b>> \in R <=> a < b
  OBVIOUS
<1> HIDE DEF R, s
<1>3. Orders(R, found)
  BY <1>2 DEF Orders
<1>4. InTheOrder(s, R, found)
  BY <1>1, <1>3, SortedInOrder
<1>5. s \in Seq(found) /\ \A a, b \in 1 .. Len(s) : a < b => <<s[a], s[b]>> \in R
  BY <1>4 DEF InTheOrder
<1>6. Len(s) \in Nat /\ \A a \in 1 .. Len(s) : s[a] \in found
  BY <1>5
<1>7. \A a, b \in 1 .. Len(s) : a < b => s[a] < s[b]
  BY <1>2, <1>5, <1>6
<1>8. \A a, b \in 1 .. Len(s) : s[a] = s[b] => a = b
  <2>1. TAKE a, b \in 1 .. Len(s)
  <2>2. s[a] \in Nat /\ s[b] \in Nat
    BY <1>6
  <2>3. a < b \/ b < a \/ a = b
    OBVIOUS
  <2> QED
    BY <1>7, <2>2, <2>3
<1> QED
  BY <1>5, <1>8 DEF s

\* The first of the best.
LEMMA FirstBest ==
    ASSUME NEW S \in SUBSET Nat, IsFiniteSet(S), S # {}, NEW f, \A i \in S : f[i] \in Int,
           NEW best, \A i : i \in best <=> i \in S /\ \A j \in S : f[j] <= f[i]
    PROVE  Generating!Min(best) \in S
<1> DEFINE R == {p \in S \X S : f[p[1]] > f[p[2]] \/ (f[p[1]] = f[p[2]] /\ p[1] < p[2])}
           s == Sorted(S, R)
<1>1. \A a, b \in S : <<a, b>> \in R <=> f[a] > f[b] \/ (f[a] = f[b] /\ a < b)
  OBVIOUS
<1> HIDE DEF R
<1>2. Orders(R, S)
  BY <1>1 DEF Orders
<1>3. InTheOrder(s, R, S)
  BY <1>2, SortedInOrder
<1> HIDE DEF s
<1>4. /\ s \in Seq(S) /\ Len(s) = Cardinality(S)
      /\ \A i \in S : \E k \in 1 .. Len(s) : s[k] = i
      /\ \A a, b \in 1 .. Len(s) : a < b => <<s[a], s[b]>> \in R
  BY <1>3 DEF InTheOrder
<1>5. Len(s) \in Nat /\ 1 \in 1 .. Len(s) /\ s[1] \in S
  <2>1. PICK i \in S : TRUE
    OBVIOUS
  <2>2. PICK k \in 1 .. Len(s) : s[k] = i
    BY <1>4
  <2>3. Len(s) \in Nat /\ \A l \in 1 .. Len(s) : s[l] \in S
    BY <1>4
  <2> QED
    BY <2>2, <2>3
<1>6. \A i \in S : i = s[1] \/ <<s[1], i>> \in R
  BY <1>4, <1>5
<1>7. s[1] \in best
  <2>1. \A i \in S : f[i] <= f[s[1]]
    <3>1. TAKE i \in S
    <3>2. f[i] \in Int /\ f[s[1]] \in Int
      BY <1>5
    <3>3. i = s[1] \/ f[s[1]] > f[i] \/ f[s[1]] = f[i]
      BY <1>1, <1>5, <1>6
    <3> QED
      BY <3>2, <3>3
  <2> QED
    BY <1>5, <2>1
<1>8. \E i \in best : \A j \in best : i <= j
  <2>1. best \in SUBSET Nat /\ best # {}
    BY <1>7
  <2> QED
    BY <2>1, LeastOf
<1>9. Generating!Min(best) \in best
  BY <1>8 DEF Generating!Min
<1> QED
  BY <1>9

LEMMA BestIs ==
    ASSUME GeneratorInv, Generating!More
    PROVE  Generating!bestCandidateIndex \in 1 .. Len(candidates)
<1> DEFINE first == {i \in DOMAIN candidates : i <= 10}
           f == [i \in 1 .. Len(candidates) |-> Generating!proximityScore(candidates[i])]
           best == {i \in first : \A j \in first :
                      Generating!proximityScore(candidates[j]) <= Generating!proximityScore(candidates[i])}
<1>1. /\ candidates # <<>> /\ DOMAIN candidates = 1 .. Len(candidates) /\ Len(candidates) \in Nat
      /\ \A i \in 1 .. Len(candidates) : candidates[i] \in DOMAIN catalogue
  <2>1. candidates # <<>> /\ candidates \in Seq(DOMAIN catalogue \ visited)
    BY DEF GeneratorInv, Generating!More
  <2> QED
    BY <2>1
<1>2. \A d \in DOMAIN catalogue : Generating!proximityScore(d) \in Int
  <2>1. TAKE d \in DOMAIN catalogue
  <2> DEFINE km == Generating!calculateDistanceKm(at, catalogue[d].at)
  <2>2. km \in Nat /\ catalogue[d].score \in Int /\ request.by \in Generating!Transportation
    BY RegionsAre DEF GeneratorInv, Generating!calculateDistanceKm
  <2>3. Generating!estimateTransitMinutes(km, request.by) \in Nat
    BY <2>2, TransitTakes
  <2>4. Generating!proximityScore(d) = 10 * catalogue[d].score - 12 * km
                                       - 3 * Generating!estimateTransitMinutes(km, request.by)
    BY DEF Generating!proximityScore
  <2> HIDE DEF km
  <2> QED
    BY <2>2, <2>3, <2>4
<1>3. /\ first \in SUBSET Nat /\ IsFiniteSet(first) /\ 1 \in first
      /\ \A i \in first : i \in 1 .. Len(candidates)
  <2>1. first \in SUBSET Nat /\ 1 \in first /\ \A i \in first : i <= Len(candidates) /\ i \in 1 .. Len(candidates)
    <3>1. Len(candidates) >= 1
      BY <1>1
    <3> QED
      BY <1>1, <3>1
  <2> HIDE DEF first
  <2> QED
    BY <1>1, <2>1, FS_BoundedSetOfNaturals
<1>4. \A i \in first : f[i] = Generating!proximityScore(candidates[i]) /\ f[i] \in Int
  BY <1>1, <1>2, <1>3
<1>5. \A i : i \in best <=> i \in first /\ \A j \in first : f[j] <= f[i]
  BY <1>4
<1>6. Generating!bestCandidateIndex = Generating!Min(best)
  BY DEF Generating!bestCandidateIndex
<1> HIDE DEF first, f, best
<1> QED
  BY <1>3, <1>4, <1>5, <1>6, FirstBest

\* What stays as it is from day to day.
LEMMA BeginDayStep ==
    ASSUME GeneratorInv, Generating!BeginDay PROVE GeneratorInv'
<1> DEFINE left == DOMAIN catalogue \ visited
           found == IF Generating!Cardinality(Generating!Near(left)) < 2 THEN left
                    ELSE Generating!Near(left)
           none == <<>>
<1>1. /\ generatorPc = "day" /\ generatorPc' = "visit"
      /\ candidates' = Generating!BestFirst(found) /\ at' = 0 /\ minutes' = request.start
      /\ activities' = none
      /\ UNCHANGED <<request, catalogue, generatedDays, visited, cost>>
  BY DEF Generating!BeginDay, Generating!dayCandidates
<1>2. left \in SUBSET Nat /\ IsFiniteSet(left)
  <2>1. \A d \in left : d \in 1 .. Len(catalogue)
    BY RegionsAre
  <2>2. Len(catalogue) \in Nat
    BY RegionsAre
  <2> HIDE DEF left
  <2>3. left \in SUBSET Nat /\ \A d \in left : d <= Len(catalogue)
    BY <2>1, <2>2
  <2> QED
    BY <2>2, <2>3, FS_BoundedSetOfNaturals
<1>3. found \subseteq left
  BY DEF Generating!Near
<1> HIDE DEF found
<1>4. /\ candidates' \in Seq(left)
      /\ \A k, l \in 1 .. Len(candidates') : candidates'[k] = candidates'[l] => k = l
  <2> HIDE DEF left
  <2>1. found \in SUBSET Nat /\ IsFiniteSet(found)
    BY <1>2, <1>3, FS_Subset
  <2>2. /\ candidates' \in Seq(found)
        /\ \A k, l \in 1 .. Len(candidates') : candidates'[k] = candidates'[l] => k = l
    BY <1>1, <2>1, BestFirstIs
  <2> QED
    BY <1>3, <2>2, WiderSeq
<1>5. Fits(Generating!Days', visited)
  <2>1. Fits(generatedDays, visited)
    BY <1>1 DEF GeneratorInv, Generating!Days
  <2>2. Generating!Days' = Append(generatedDays, none)
    BY <1>1 DEF Generating!Days
  <2> QED
    BY <2>1, <2>2, NewDay
<1>6. request.start \in Nat /\ none \in Seq(Generating!Activity)
  BY RegionsAre
<1>7. Fits(Generating!Days, visited)'
  BY <1>1, <1>5, FitsLater
<1> QED
  BY <1>1, <1>4, <1>6, <1>7 DEF GeneratorInv

\* An activity is put at the end of the day, no earlier than what is before it allows.
LEMMA PlannedNext ==
    ASSUME GeneratorInv, generatorPc = "visit", NEW act \in Generating!Activity,
           NEW more, visited \subseteq more, act.dest # 0 => act.dest \in more \ visited,
           minutes + (IF act.dest = 0 THEN 0
                      ELSE Generating!estimateTransitMinutes(act.distance, request.by)) <= act.start,
           act.start < request.end
    PROVE  Fits(Append(generatedDays, Append(activities, act)), more)
<1> DEFINE longer == Append(activities, act)
           k == Len(activities) + 1
           way == IF act.dest = 0 THEN 0
                  ELSE Generating!estimateTransitMinutes(act.distance, request.by)
           free == IF activities = <<>> THEN request.start ELSE activities[Len(activities)].end
<1>1. /\ activities \in Seq(Generating!Activity) /\ generatedDays \in Seq(Seq(Generating!Activity))
      /\ Fits(Append(generatedDays, activities), visited) /\ free <= minutes /\ minutes \in Nat
  BY DEF GeneratorInv, Generating!Days
<1>2. /\ Len(activities) \in Nat /\ longer[k] = act
      /\ k # 1 => longer[k - 1] = activities[Len(activities)] /\ activities # <<>>
      /\ k = 1 => activities = <<>>
  BY <1>1
<1>3. way \in Int
  <2>1. act.dest # 0 => act.distance \in Nat
    BY DEF Generating!Activity
  <2> QED
    BY <2>1, TransitTakes, RegionsAre
<1>4. free \in Int /\ act.start \in Int
  <2>1. activities # <<>> => activities[Len(activities)] \in Generating!Activity
    BY <1>1
  <2> QED
    BY <2>1, RegionsAre DEF Generating!Activity
<1> HIDE DEF way, free, longer, k
<1>5. free + way <= act.start
  BY <1>1, <1>3, <1>4 DEF way
<1>6. free = IF k = 1 THEN request.start ELSE longer[k - 1].end
  BY <1>2 DEF free
<1>7. Timely(longer, k)
  BY <1>2, <1>5, <1>6 DEF Timely, way
<1> QED
  BY <1>1, <1>7, NewActivity DEF longer, k

LEMMA LunchStep ==
    ASSUME PlanAssumptions, GeneratorInv, Generating!insertLunch PROVE GeneratorInv'
<1> DEFINE price == LUNCH_COST * request.travelers
           lunch == [dest |-> 0, start |-> minutes, end |-> minutes + 60, cost |-> price, distance |-> 0]
<1>1. /\ generatorPc = "visit" /\ minutes < request.end
      /\ activities' = Append(activities, lunch) /\ minutes' = minutes + 60
      /\ cost' = cost + price
      /\ UNCHANGED <<request, catalogue, generatorPc, candidates, at, generatedDays, visited>>
  BY DEF Generating!insertLunch, Generating!More, Generating!Lunch
<1>2. price \in Nat
  BY RegionsAre DEF PlanAssumptions
<1>3. activities \in Seq(Generating!Activity) /\ minutes \in Nat /\ cost \in Nat
  BY DEF GeneratorInv
<1> HIDE DEF price
<1>4. /\ lunch \in Generating!Activity /\ lunch.dest = 0 /\ lunch.start = minutes
      /\ lunch.end = minutes + 60
  BY <1>2, <1>3 DEF Generating!Activity
<1> HIDE DEF lunch
<1>5. Fits(Append(generatedDays, Append(activities, lunch)), visited)
  BY <1>1, <1>3, <1>4, PlannedNext
<1>6. Generating!Days' = Append(generatedDays, Append(activities, lunch))
  BY <1>1 DEF Generating!Days
<1>7. Fits(Generating!Days, visited)'
  BY <1>1, <1>5, <1>6, FitsLater
<1>8. /\ activities' \in Seq(Generating!Activity) /\ activities' # <<>>
      /\ activities'[Len(activities')].end = minutes'
  BY <1>1, <1>3, <1>4, LastOne
<1> QED
  BY <1>1, <1>2, <1>3, <1>7, <1>8 DEF GeneratorInv

LEMMA EndDayKeeps ==
    ASSUME GeneratorInv, generatorPc = "visit", Generating!EndDay, UNCHANGED <<request, activities>>,
           NEW more, visited \subseteq more
    PROVE  /\ generatorPc' = "day" /\ generatedDays' \in Seq(Seq(Generating!Activity))
           /\ Fits(Generating!Days', more)
<1>1. /\ activities \in Seq(Generating!Activity) /\ generatedDays \in Seq(Seq(Generating!Activity))
      /\ Fits(Append(generatedDays, activities), visited)
  BY DEF GeneratorInv, Generating!Days
<1>2. generatedDays' = Append(generatedDays, activities) /\ generatorPc' = "day"
  BY DEF Generating!EndDay
<1>3. Generating!Days' = Append(generatedDays, activities)
  BY <1>2 DEF Generating!Days
<1> QED
  BY <1>1, <1>2, <1>3, MoreSeen

LEMMA EndDayStep ==
    ASSUME GeneratorInv, Generating!endDay PROVE GeneratorInv'
<1>1. /\ generatorPc = "visit" /\ Generating!EndDay
      /\ UNCHANGED <<request, activities, catalogue, candidates, at, minutes, visited, cost>>
  BY DEF Generating!endDay
<1>2. /\ generatorPc' = "day" /\ generatedDays' \in Seq(Seq(Generating!Activity))
      /\ Fits(Generating!Days', visited)
  BY <1>1, EndDayKeeps
<1>3. Fits(Generating!Days, visited)'
  BY <1>1, <1>2, FitsLater
<1> QED
  BY <1>1, <1>2, <1>3 DEF GeneratorInv

LEMMA VisitStep ==
    ASSUME GeneratorInv, Generating!visitNext PROVE GeneratorInv'
<1> DEFINE b == Generating!bestCandidateIndex
           d == candidates[b]
           km == Generating!calculateDistanceKm(at, catalogue[d].at)
           arrival == minutes + Generating!estimateTransitMinutes(km, request.by)
           fee == catalogue[d].fee * request.travelers
           stay == Generating!visitDuration(d)
           act == [dest |-> d, start |-> arrival, end |-> arrival + stay, cost |-> fee, distance |-> km]
           more == visited \union {d}
<1>1. /\ generatorPc = "visit" /\ Generating!More
      /\ candidates' = Generating!AllBut(candidates, b) /\ visited' = more
      /\ UNCHANGED <<request, catalogue>>
      /\ IF arrival >= request.end
         THEN UNCHANGED <<activities, cost, at>> /\ minutes' = arrival /\ Generating!EndDay
         ELSE /\ activities' = Append(activities, act) /\ minutes' = arrival + stay
              /\ cost' = cost + fee /\ at' = catalogue[d].at
              /\ UNCHANGED <<generatorPc, generatedDays>>
  BY DEF Generating!visitNext
<1>2. /\ activities \in Seq(Generating!Activity) /\ minutes \in Nat /\ cost \in Nat /\ at \in Int
      /\ generatedDays \in Seq(Seq(Generating!Activity)) /\ visited \subseteq DOMAIN catalogue
      /\ candidates \in Seq(DOMAIN catalogue \ visited)
      /\ \A k, l \in 1 .. Len(candidates) : candidates[k] = candidates[l] => k = l
  BY DEF GeneratorInv
<1>3. b \in 1 .. Len(candidates)
  BY <1>1, BestIs
<1> HIDE DEF b
<1>4. d \in DOMAIN catalogue /\ d \notin visited
  BY <1>2, <1>3
<1>5. /\ candidates' \in Seq(DOMAIN catalogue \ more)
      /\ \A k, l \in 1 .. Len(candidates') : candidates'[k] = candidates'[l] => k = l
  <2>1. candidates' = Removed(candidates, b)
    BY <1>1 DEF Generating!AllBut, Removed
  <2>2. Shorter(DOMAIN catalogue \ visited, candidates, b, candidates')
    BY <1>2, <1>3, <2>1, ShorterSeq
  <2>3. LessOne(candidates, b, candidates')
    BY <1>2, <1>3, <2>2, ShorterHas
  <2>4. candidates' \in Seq(DOMAIN catalogue \ visited)
    BY <2>2 DEF Shorter
  <2>5. \A k \in 1 .. Len(candidates') : candidates'[k] \in DOMAIN catalogue \ visited /\ candidates'[k] # d
    <3>1. \A k \in 1 .. Len(candidates') : candidates'[k] # d
      BY <2>3 DEF LessOne
    <3> QED
      BY <2>4, <3>1
  <2>6. candidates' \in Seq(DOMAIN catalogue \ more)
    <3>1. Len(candidates') \in Nat /\ candidates' = [k \in 1 .. Len(candidates') |-> candidates'[k]]
      BY <2>4
    <3>2. \A k \in 1 .. Len(candidates') : candidates'[k] \in DOMAIN catalogue \ more
      BY <2>5
    <3> HIDE DEF more
    <3> QED
      BY <3>1, <3>2
  <2> QED
    BY <2>3, <2>6 DEF LessOne
<1> HIDE DEF d
<1>6. /\ d # 0 /\ catalogue[d].at \in Int /\ catalogue[d].duration \in Nat
      /\ catalogue[d].fee \in Nat /\ request.travelers \in Nat /\ request.end \in Nat
      /\ request.by \in Generating!Transportation /\ request.pace \in Generating!Pace
  BY <1>4, RegionsAre
<1>7. km \in Nat
  BY <1>2, <1>6 DEF Generating!calculateDistanceKm
<1>8. arrival \in Nat
  <2>1. Generating!estimateTransitMinutes(km, request.by) \in Nat
    BY <1>6, <1>7, TransitTakes
  <2> HIDE DEF km
  <2> QED
    BY <1>2, <2>1
<1>9. fee \in Nat
  BY <1>6
<1>10. stay \in Nat
  BY <1>6 DEF Generating!visitDuration, Generating!Pace
<1>11. d \in Nat
  BY <1>4, RegionsAre
<1> HIDE DEF fee, stay, arrival, km
<1>12. /\ act \in Generating!Activity /\ act.dest = d /\ act.start = arrival
       /\ act.end = arrival + stay /\ act.distance = km
  BY <1>7, <1>8, <1>9, <1>10, <1>11 DEF Generating!Activity
<1> HIDE DEF act
<1>13. visited \subseteq more /\ more \subseteq DOMAIN catalogue /\ d \in more
  BY <1>2, <1>4
<1> HIDE DEF more
<1>14. CASE arrival >= request.end
  <2>1. /\ generatorPc' = "day" /\ generatedDays' \in Seq(Seq(Generating!Activity))
        /\ Fits(Generating!Days', more)
    BY <1>1, <1>13, <1>14, EndDayKeeps
  <2>2. Fits(Generating!Days, visited)'
    BY <1>1, <2>1, FitsLater
  <2> QED
    BY <1>1, <1>2, <1>5, <1>8, <1>13, <1>14, <2>1, <2>2 DEF GeneratorInv
<1>15. CASE ~ (arrival >= request.end)
  <2>1. minutes + Generating!estimateTransitMinutes(act.distance, request.by) <= act.start
    BY <1>8, <1>12 DEF arrival
  <2>2. act.start < request.end
    BY <1>6, <1>8, <1>12, <1>15
  <2>3. Fits(Append(generatedDays, Append(activities, act)), more)
    BY <1>1, <1>4, <1>6, <1>12, <1>13, <2>1, <2>2, PlannedNext
  <2>4. Generating!Days' = Append(generatedDays, Append(activities, act))
    BY <1>1, <1>15 DEF Generating!Days
  <2>5. Fits(Generating!Days, visited)'
    BY <1>1, <2>3, <2>4, FitsLater
  <2>6. /\ activities' \in Seq(Generating!Activity) /\ activities' # <<>>
        /\ activities'[Len(activities')].end = minutes'
    <3>1. activities' = Append(activities, act) /\ minutes' = arrival + stay
      BY <1>1, <1>15
    <3>2. act \in Generating!Activity /\ act.end = arrival + stay
      BY <1>12
    <3>3. activities \in Seq(Generating!Activity)
      BY <1>2
    <3> QED
      BY <3>1, <3>2, <3>3, LastOne
  <2>7. minutes' \in Nat /\ cost' \in Nat /\ at' \in Int
    BY <1>1, <1>2, <1>6, <1>8, <1>9, <1>10, <1>15
  <2> QED
    BY <1>1, <1>2, <1>5, <1>13, <1>15, <2>5, <2>6, <2>7 DEF GeneratorInv
<1> QED
  BY <1>14, <1>15

LEMMA FinishStep ==
    ASSUME GeneratorInv, Generating!Finish PROVE GeneratorInv'
<1>1. /\ generatorPc = "day" /\ generatorPc' = "done"
      /\ UNCHANGED <<request, catalogue, candidates, at, minutes, activities, generatedDays, visited, cost>>
  BY DEF Generating!Finish
<1>2. Generating!Days' = Generating!Days
  BY <1>1 DEF Generating!Days
<1>3. Fits(Generating!Days', visited')
  BY <1>1, <1>2 DEF GeneratorInv
<1>4. Fits(Generating!Days, visited)'
  BY <1>1, <1>3, FitsLater
<1> QED
  BY <1>1, <1>4 DEF GeneratorInv

LEMMA NextGenerator == ASSUME PlanAssumptions, GeneratorInv, Generating!Next PROVE GeneratorInv'
BY BeginDayStep, LunchStep, VisitStep, EndDayStep, FinishStep DEF Generating!Next

LEMMA GeneratorStutters == ASSUME GeneratorInv, UNCHANGED generatorVars PROVE GeneratorInv'
<1>1. Generating!Days' = Generating!Days
  BY DEF Generating!Days, generatorVars
<1> QED
  BY <1>1 DEF GeneratorInv, Fits, Timely, generatorVars

LEMMA GeneratorSafe ==
    ASSUME GeneratorInv PROVE Generating!NoRepeats /\ Generating!Walkable
<1> DEFINE days == Generating!Days
<1>1. /\ days \in Seq(Seq(Generating!Activity)) /\ Fits(days, visited)
  BY DEF GeneratorInv, Fits
<1>2. /\ DOMAIN days = 1 .. Len(days)
      /\ \A m \in 1 .. Len(days) : DOMAIN days[m] = 1 .. Len(days[m])
  BY <1>1
<1> HIDE DEF days
<1>3. \A m, l \in DOMAIN days : \A i \in DOMAIN days[m], j \in DOMAIN days[l] :
         days[m][i].dest # 0 /\ days[m][i].dest = days[l][j].dest => m = l /\ i = j
  <2>1. TAKE m, l \in DOMAIN days
  <2>2. m \in 1 .. Len(days) /\ l \in 1 .. Len(days)
    BY <1>2
  <2>3. TAKE i \in DOMAIN days[m], j \in DOMAIN days[l]
  <2>4. i \in 1 .. Len(days[m]) /\ j \in 1 .. Len(days[l])
    BY <1>2, <2>2
  <2> QED
    BY <1>1, <2>2, <2>4 DEF Fits
<1>4. \A m \in DOMAIN days : \A i \in DOMAIN days[m] : Timely(days[m], i)
  BY <1>1, <1>2 DEF Fits
<1>5. Generating!NoRepeats
  BY <1>3 DEF days, Generating!NoRepeats, Generating!Places, Generating!Lunch
<1>6. Generating!Walkable
  BY <1>4 DEF days, Generating!Walkable, Timely, Generating!Lunch
<1> QED
  BY <1>5, <1>6

-----------------------------------------------------------------------------
(* RouteOrder: the order of the stops of a day.                            *)

\* The order of the stops of a day.
\* What a tour is at every stage: each of its stops once, the first one first.
Tour(n) ==
    /\ tour \in Seq(1 .. n) /\ Len(tour) >= 1 /\ tour[1] = 1
    /\ \A k, l \in 1 .. Len(tour) : tour[k] = tour[l] => k = l

WholeRoute(n) ==
         /\ Len(tour) = n /\ \A i \in 1 .. n : \E k \in 1 .. Len(tour) : tour[k] = i
         /\ fixedEnd => tour[n] = n

RouteInv ==
    /\ stops \in StopLists /\ by \in Modes /\ answer \in MatrixAnswers[Len(stops)]
    /\ fixedEnd \in BOOLEAN
    /\ Tour(Len(stops))
    /\ routePc \in {"matrix", "ask", "answered", "greedy", "improve", "done"}
    /\ routePc \in {"matrix", "ask"} => tour = <<1>>
    /\ routePc \in {"ask", "greedy"} =>
          \A i, j \in 1 .. Len(stops) : matrix[i][j].distance \in Nat
    /\ routePc = "greedy" =>
          Len(stops) >= 3 /\ (fixedEnd => \A k \in 1 .. Len(tour) : tour[k] # Len(stops))
    /\ routePc \in {"answered", "improve", "done"} => WholeRoute(Len(stops))
    /\ Ordering!NoWayForFree

\* There is a first stop.
LEMMA StopsAre ==
    ASSUME RouteAssumptions, RouteInv
    PROVE  /\ Len(stops) \in Nat /\ Len(stops) >= 1 /\ DOMAIN stops = 1 .. Len(stops)
           /\ Ordering!Stops = 1 .. Len(stops) /\ Ordering!n = Len(stops)
           /\ \A i \in 1 .. Len(stops) : stops[i] \in Int
<1>1. stops \in Seq(Int) /\ stops # <<>>
  BY DEF RouteAssumptions, RouteInv
<1> QED
  BY <1>1 DEF Ordering!Stops, Ordering!n

LEMMA InitRoute ==
    ASSUME RouteAssumptions, Ordering!Init PROVE RouteInv
<1>1. /\ stops \in StopLists /\ by \in Modes /\ answer \in MatrixAnswers[Len(stops)]
      /\ fixedEnd \in BOOLEAN /\ routePc = "matrix" /\ tour = <<1>> /\ matrix = <<>>
  BY DEF Ordering!Init, Ordering!n
<1>2. stops \in Seq(Int) /\ stops # <<>>
  BY <1>1 DEF RouteAssumptions
<1>3. Len(stops) \in Nat /\ 1 \in 1 .. Len(stops)
  BY <1>2
<1>4. tour \in Seq(1 .. Len(stops)) /\ Len(tour) = 1 /\ tour[1] = 1
  BY <1>1, <1>3
<1>5. \A k \in 1 .. Len(tour) : k = 1
  BY <1>4
<1>6. Tour(Len(stops))
  BY <1>4, <1>5 DEF Tour
<1> QED
  BY <1>1, <1>6 DEF RouteInv, Ordering!NoWayForFree

\* The larger of two numbers.
LEMMA LargerIs ==
    ASSUME NEW a \in Int, NEW b \in Int
    PROVE  Ordering!Max({a, b}) = IF a <= b THEN b ELSE a
BY DEF Ordering!Max

LEMMA GreatCircle ==
    ASSUME NEW p \in Int, NEW q \in Int
    PROVE  /\ Ordering!calculateHaversineKm(p, q) \in Nat
           /\ Ordering!calculateHaversineKm(p, q) = 0 <=> p = q
BY LargerIs DEF Ordering!calculateHaversineKm, Ordering!AtLeast

LEMMA UsualSpeed ==
    ASSUME NEW d \in Nat, d > 0, NEW mode \in DOMAIN Ordering!Speed
    PROVE  Ordering!estimateDurationMinutes(d, mode) > 0
<1> DEFINE m == (12 * d + Ordering!Speed[mode] * (2 * Ordering!Buffer[mode] + 1))
                    \div (2 * Ordering!Speed[mode])
<1>1. m \in Int
  BY DEF Ordering!Speed, Ordering!Buffer
<1>2. Ordering!estimateDurationMinutes(d, mode) = Ordering!Max({1, m})
  BY DEF Ordering!estimateDurationMinutes
<1> HIDE DEF m
<1> QED
  BY <1>1, <1>2, LargerIs

LEMMA CellIs ==
    ASSUME NEW p \in Int, NEW q \in Int, NEW raw \in Nat \union {None}
    PROVE  /\ Ordering!Distance(raw, p, q) \in Nat
           /\ raw = None => (Ordering!Distance(raw, p, q) = 0 <=> p = q)
<1>1. CASE raw = None
  BY <1>1, GreatCircle DEF Ordering!Distance
<1>2. CASE raw # None
  <2>1. raw \in Nat /\ (raw + 5) \div 10 \in Int
    BY <1>2
  <2> QED
    BY <1>2, <2>1, LargerIs DEF Ordering!Distance
<1> QED
  BY <1>1, <1>2

LEMMA CellTakes ==
    ASSUME NEW raw \in Nat \union {None}, raw # 0, NEW d \in Nat, d > 0,
           NEW mode \in DOMAIN Ordering!Speed
    PROVE  Ordering!Duration(raw, d, mode) > 0
<1>1. CASE raw = None
  BY <1>1, UsualSpeed DEF Ordering!Duration
<1>2. CASE raw # None
  <2>1. raw \in Nat /\ (raw + 30) \div 60 \in Int
    BY <1>2
  <2> QED
    BY <1>2, <2>1, LargerIs DEF Ordering!Duration
<1> QED
  BY <1>1, <1>2

LEMMA MatrixStep ==
    ASSUME RouteAssumptions, RouteInv, Ordering!computeMatrix
    PROVE  RouteInv'
<1>1. /\ Len(stops) \in Nat /\ Len(stops) >= 1 /\ DOMAIN stops = 1 .. Len(stops)
      /\ Ordering!Stops = 1 .. Len(stops) /\ Ordering!n = Len(stops)
      /\ \A i \in 1 .. Len(stops) : stops[i] \in Int
  BY StopsAre
<1>2. /\ routePc = "matrix" /\ tour = <<1>> /\ UNCHANGED <<stops, by, answer, fixedEnd, tour>>
      /\ IF Len(stops) = 1 THEN routePc' = "done" /\ UNCHANGED matrix
         ELSE routePc' = "ask" /\ matrix' = Ordering!calculateMatrix(stops, by, answer)
  BY <1>1 DEF RouteInv, Ordering!computeMatrix, Ordering!asked
<1>3. Len(stops) = 1 => WholeRoute(Len(stops))
  <2>1. Len(tour) = 1 /\ tour[1] = 1
    BY <1>2
  <2>2. \A i \in 1 .. 1 : i = 1
    OBVIOUS
  <2> QED
    BY <2>1, <2>2 DEF WholeRoute
<1>4. by \in DOMAIN Ordering!Speed /\ stops \in StopLists /\ answer \in MatrixAnswers[Len(stops)]
  BY DEF RouteInv, RouteAssumptions
<1>5. ASSUME Len(stops) # 1
      PROVE  /\ Ordering!NoWayForFree'
             /\ \A i, j \in 1 .. Len(stops) : matrix'[i][j].distance \in Nat
  <2>1. CASE answer = None
    <3>1. \A i, j \in 1 .. Len(stops) :
             /\ matrix'[i][j].distance = Ordering!calculateHaversineKm(stops[i], stops[j])
             /\ matrix'[i][j].duration = Ordering!estimateDurationMinutes(
                    Ordering!calculateHaversineKm(stops[i], stops[j]), by)
      BY <1>1, <1>2, <1>5, <2>1 DEF Ordering!calculateMatrix, Ordering!calculateFallbackMatrix
    <3>2. \A i, j \in 1 .. Len(stops) :
             /\ matrix'[i][j].distance = 0 <=> stops[i] = stops[j]
             /\ matrix'[i][j].distance > 0 => matrix'[i][j].duration > 0
             /\ matrix'[i][j].distance \in Nat
      <4>1. TAKE i, j \in 1 .. Len(stops)
      <4> DEFINE d == Ordering!calculateHaversineKm(stops[i], stops[j])
      <4>2. d \in Nat /\ (d = 0 <=> stops[i] = stops[j])
        BY <1>1, GreatCircle
      <4>3. d > 0 => Ordering!estimateDurationMinutes(d, by) > 0
        BY <1>4, <4>2, UsualSpeed
      <4>4. /\ matrix'[i][j].distance = d
            /\ matrix'[i][j].duration = Ordering!estimateDurationMinutes(d, by)
        BY <3>1
      <4> HIDE DEF d
      <4> QED
        BY <4>2, <4>3, <4>4
    <3> QED
      BY <1>1, <1>2, <2>1, <3>2 DEF Ordering!NoWayForFree, Ordering!Stops
  <2>2. CASE answer # None
    <3>1. \A i, j \in 1 .. Len(stops) :
             answer[i][j].distance \in Nat \union {None} /\ answer[i][j].duration \in Nat \union {None}
      BY <1>1, <1>4, <2>2 DEF RouteAssumptions
    <3>2. \A i, j \in 1 .. Len(stops) :
             /\ matrix'[i][j].distance = Ordering!Distance(answer[i][j].distance, stops[i], stops[j])
             /\ matrix'[i][j].duration = Ordering!Duration(answer[i][j].duration,
                    Ordering!Distance(answer[i][j].distance, stops[i], stops[j]), by)
      BY <1>1, <1>2, <1>5, <2>2 DEF Ordering!calculateMatrix
    <3>3. \A i, j \in 1 .. Len(stops) :
             /\ answer[i][j].distance = None =>
                   (matrix'[i][j].distance = 0 <=> stops[i] = stops[j])
             /\ matrix'[i][j].distance > 0 /\ answer[i][j].duration # 0 => matrix'[i][j].duration > 0
             /\ matrix'[i][j].distance \in Nat
      <4>1. TAKE i, j \in 1 .. Len(stops)
      <4> DEFINE told == answer[i][j]
                 d == Ordering!Distance(told.distance, stops[i], stops[j])
      <4>2. d \in Nat /\ (told.distance = None => (d = 0 <=> stops[i] = stops[j]))
        BY <1>1, <3>1, CellIs
      <4>3. d > 0 /\ told.duration # 0 => Ordering!Duration(told.duration, d, by) > 0
        BY <1>4, <3>1, <4>2, CellTakes
      <4>4. /\ matrix'[i][j].distance = d
            /\ matrix'[i][j].duration = Ordering!Duration(told.duration, d, by)
        BY <3>2
      <4> HIDE DEF d
      <4> QED
        BY <4>2, <4>3, <4>4
    <3> QED
      BY <1>1, <1>2, <2>2, <3>3 DEF Ordering!NoWayForFree, Ordering!Stops
  <2> QED
    BY <2>1, <2>2
<1>6. Ordering!NoWayForFree'
  <2>1. CASE Len(stops) = 1
    BY <1>2, <2>1 DEF RouteInv, Ordering!NoWayForFree, Ordering!Stops
  <2> QED
    BY <1>5, <2>1
<1> QED
  BY <1>2, <1>3, <1>5, <1>6 DEF RouteInv, Tour, WholeRoute


\* A tour that no stop is missing from: with as many stops as there are, or the other way
\* round.
LEMMA WholeTour ==
    ASSUME NEW m \in Nat, NEW t \in Seq(1 .. m), \A k, l \in 1 .. Len(t) : t[k] = t[l] => k = l
    PROVE  Len(t) = m <=> \A i \in 1 .. m : \E k \in 1 .. Len(t) : t[k] = i
<1>1. /\ Len(t) \in Nat /\ t \in [1 .. Len(t) -> 1 .. m]
      /\ t \in Injection(1 .. Len(t), 1 .. m)
  BY DEF Injection, IsInjective
<1>2. /\ IsFiniteSet(1 .. m) /\ Cardinality(1 .. m) = m
      /\ IsFiniteSet(1 .. Len(t)) /\ Cardinality(1 .. Len(t)) = Len(t)
  <2>1. \A b \in Nat : IsFiniteSet(1 .. b) /\ Cardinality(1 .. b) = b
    <3>1. TAKE b \in Nat
    <3>2. 1 \in Int /\ b \in Int
      OBVIOUS
    <3>3. IsFiniteSet(1 .. b) /\ Cardinality(1 .. b) = IF 1 > b THEN 0 ELSE b - 1 + 1
      BY <3>2, FS_Interval
    <3> QED
      BY <3>3
  <2> QED
    BY <1>1, <2>1
<1>3. Len(t) = m <=> t \in Surjection(1 .. Len(t), 1 .. m)
  BY <1>1, <1>2, FS_Injection
<1> QED
  BY <1>1, <1>3 DEF Surjection

LEMMA MapboxStep ==
    ASSUME RouteAssumptions, RouteInv, NEW order \in Ordering!waypoints,
           Ordering!mapboxOrder(order)
    PROVE  RouteInv'
<1> DEFINE m == Len(stops)
<1>1. m \in Nat /\ m >= 1 /\ Ordering!Stops = 1 .. m /\ Ordering!n = m
  BY StopsAre
<1>2. /\ tour' = order /\ order[1] = 1 /\ (fixedEnd => order[m] = m)
      /\ routePc' = "answered" /\ UNCHANGED <<stops, by, answer, fixedEnd, matrix>>
  BY <1>1 DEF Ordering!mapboxOrder, Ordering!asked, Ordering!waypoints
<1> HIDE DEF m
<1>4. order \in [1 .. m -> 1 .. m] /\ \A k, l \in 1 .. m : k # l => order[k] # order[l]
  BY <1>1 DEF Ordering!waypoints, Ordering!IsInjective
<1>5. order \in Seq(1 .. m) /\ Len(order) = m
  BY <1>1, <1>4
<1>6. \A i \in 1 .. m : \E k \in 1 .. Len(order) : order[k] = i
  <2>1. \A k, l \in 1 .. Len(order) : order[k] = order[l] => k = l
    BY <1>4, <1>5
  <2> QED
    BY <1>1, <1>5, <2>1, WholeTour
<1>7. Tour(m)' /\ WholeRoute(m)'
  BY <1>1, <1>2, <1>4, <1>5, <1>6 DEF Tour, WholeRoute, m
<1> QED
  BY <1>2, <1>7 DEF RouteInv, m, Ordering!NoWayForFree, Ordering!Stops

LEMMA LocalStep ==
    ASSUME RouteAssumptions, RouteInv, Ordering!useLocalOptimizer
    PROVE  RouteInv'
<1> DEFINE m == Len(stops)
<1>1. m \in Nat /\ m >= 1 /\ Ordering!n = m
  BY StopsAre
<1>2. /\ tour = <<1>> /\ UNCHANGED <<stops, by, answer, fixedEnd, matrix>>
      /\ \A i, j \in 1 .. m : matrix[i][j].distance \in Nat
      /\ IF m <= 2 THEN routePc' = "done" /\ tour' = [i \in 1 .. m |-> i]
                   ELSE routePc' = "greedy" /\ UNCHANGED tour
  BY <1>1 DEF RouteInv, Ordering!useLocalOptimizer, Ordering!asked
<1>3. Ordering!NoWayForFree'
  BY <1>2 DEF RouteInv, Ordering!NoWayForFree, Ordering!Stops
<1> HIDE DEF m
<1>4. CASE m <= 2
  <2>1. tour' \in Seq(1 .. m) /\ Len(tour') = m /\ \A i \in 1 .. m : tour'[i] = i
    BY <1>1, <1>2, <1>4
  <2>2. Tour(m)' /\ WholeRoute(m)'
    BY <1>1, <1>2, <2>1 DEF Tour, WholeRoute, m
  <2> QED
    BY <1>2, <1>3, <1>4, <2>2 DEF RouteInv, m
<1>5. CASE ~ (m <= 2)
  <2>1. \A k \in 1 .. Len(tour) : tour[k] = 1
    BY <1>2
  <2>2. m >= 3 /\ \A k \in 1 .. Len(tour) : tour[k] # m
    BY <1>1, <1>5, <2>1
  <2> QED
    BY <1>2, <1>3, <1>5, <2>2 DEF RouteInv, Tour, m
<1> QED
  BY <1>4, <1>5

\* One more stop at the end.
LEMMA Appended ==
    ASSUME NEW m \in Nat, NEW t \in Seq(1 .. m), NEW s \in 1 .. m,
           \A k, l \in 1 .. Len(t) : t[k] = t[l] => k = l, \A k \in 1 .. Len(t) : t[k] # s
    PROVE  /\ Append(t, s) \in Seq(1 .. m) /\ Len(Append(t, s)) = Len(t) + 1
           /\ \A k \in 1 .. Len(t) : Append(t, s)[k] = t[k]
           /\ Append(t, s)[Len(t) + 1] = s
           /\ \A k, l \in 1 .. Len(Append(t, s)) : Append(t, s)[k] = Append(t, s)[l] => k = l
<1> DEFINE u == Append(t, s)
<1>1. /\ u \in Seq(1 .. m) /\ Len(u) = Len(t) + 1 /\ Len(t) \in Nat
      /\ \A k \in 1 .. Len(t) : u[k] = t[k]
      /\ u[Len(t) + 1] = s
  OBVIOUS
<1>2. \A k \in 1 .. Len(u) : k \in 1 .. Len(t) \/ k = Len(t) + 1
  BY <1>1
<1> HIDE DEF u
<1>3. \A k, l \in 1 .. Len(u) : u[k] = u[l] => k = l
  BY <1>1, <1>2
<1> QED
  BY <1>1, <1>3 DEF u

\* The stops that are left.
LEMMA LeftAre ==
    ASSUME RouteAssumptions, RouteInv
    PROVE  \A s : s \in Ordering!Left <=>
              /\ s \in 1 .. Len(stops) /\ \A k \in 1 .. Len(tour) : tour[k] # s
              /\ fixedEnd => s # Len(stops)
<1>1. Ordering!Stops = 1 .. Len(stops) /\ Ordering!n = Len(stops)
  BY StopsAre
<1>2. DOMAIN tour = 1 .. Len(tour)
  BY DEF RouteInv, Tour
<1> QED
  BY <1>1, <1>2 DEF Ordering!Left, Ordering!Range

LEMMA NearestIs ==
    ASSUME NEW left \in SUBSET Nat, left # {}, NEW d, \A s \in left : d[s] \in Nat,
           NEW nearest, \A s : s \in nearest <=> s \in left /\ \A t \in left : d[s] <= d[t]
    PROVE  Ordering!Min(nearest) \in left
<1>1. nearest # {}
  <2> DEFINE D == {d[s] : s \in left}
  <2>1. D \in SUBSET Nat /\ D # {}
    OBVIOUS
  <2>2. PICK m \in D : \A y \in D : m <= y
    BY <2>1, LeastOf
  <2>3. PICK s \in left : m = d[s]
    BY <2>2
  <2> QED
    BY <2>2, <2>3
<1>2. nearest \in SUBSET Nat
  OBVIOUS
<1>3. Ordering!Min(nearest) \in nearest
  <2>1. \E x \in nearest : \A y \in nearest : x <= y
    BY <1>1, <1>2, LeastOf
  <2> QED
    BY <2>1 DEF Ordering!Min
<1> QED
  BY <1>3

LEMMA NearestStep ==
    ASSUME RouteAssumptions, RouteInv, Ordering!nearestNeighbor
    PROVE  RouteInv'
<1> DEFINE m == Len(stops)
           left == Ordering!Left
           d == [s \in 1 .. m |-> matrix[tour[Len(tour)]][s].distance]
           nearest == {s \in left : \A t \in left : d[s] <= d[t]}
           next == Ordering!Min(nearest)
<1>1. m \in Nat /\ m >= 1 /\ Ordering!Stops = 1 .. m
  BY StopsAre
<1>2. /\ routePc = "greedy" /\ UNCHANGED <<stops, by, answer, fixedEnd, matrix, routePc>>
      /\ left # {} /\ tour' = Append(tour, next)
  BY <1>1 DEF Ordering!nearestNeighbor, Ordering!asked
<1>3. /\ tour \in Seq(1 .. m) /\ Len(tour) >= 1 /\ tour[1] = 1
      /\ \A k, l \in 1 .. Len(tour) : tour[k] = tour[l] => k = l
      /\ m >= 3 /\ (fixedEnd => \A k \in 1 .. Len(tour) : tour[k] # m)
      /\ \A i, j \in 1 .. m : matrix[i][j].distance \in Nat
  BY <1>2 DEF RouteInv, Tour
<1>4. \A s : s \in left <=> /\ s \in 1 .. m /\ \A k \in 1 .. Len(tour) : tour[k] # s
                            /\ fixedEnd => s # m
  BY LeftAre
<1>5. Ordering!NoWayForFree'
  BY <1>2 DEF RouteInv, Ordering!NoWayForFree, Ordering!Stops
<1>6. next \in left
  <2>1. left \in SUBSET Nat /\ \A s \in left : d[s] \in Nat
    <3>1. tour[Len(tour)] \in 1 .. m
      BY <1>3
    <3>2. \A s \in left : s \in 1 .. m
      BY <1>4
    <3> QED
      BY <1>3, <3>1, <3>2
  <2>2. \A s : s \in nearest <=> s \in left /\ \A t \in left : d[s] <= d[t]
    OBVIOUS
  <2> HIDE DEF left, d, nearest
  <2> QED
    BY <1>2, <2>1, <2>2, NearestIs
<1> HIDE DEF m, left, nearest, next
<1>7. /\ tour' \in Seq(1 .. m) /\ Len(tour') = Len(tour) + 1
      /\ \A k \in 1 .. Len(tour) : tour'[k] = tour[k]
      /\ tour'[Len(tour) + 1] = next
      /\ \A k, l \in 1 .. Len(tour') : tour'[k] = tour'[l] => k = l
  BY <1>1, <1>2, <1>3, <1>4, <1>6, Appended
<1>8. Tour(m)' /\ (fixedEnd => \A k \in 1 .. Len(tour') : tour'[k] # m)
  BY <1>1, <1>2, <1>3, <1>4, <1>6, <1>7 DEF Tour, m
<1> QED
  BY <1>2, <1>3, <1>5, <1>8 DEF RouteInv, m

LEMMA EndStep ==
    ASSUME RouteAssumptions, RouteInv, Ordering!appendEnd
    PROVE  RouteInv'
<1> DEFINE m == Len(stops)
<1>1. m \in Nat /\ m >= 1 /\ Ordering!n = m
  BY StopsAre
<1>2. /\ routePc = "greedy" /\ UNCHANGED <<stops, by, answer, fixedEnd, matrix>>
      /\ Ordering!Left = {} /\ routePc' = "improve"
      /\ tour' = IF fixedEnd THEN Append(tour, m) ELSE tour
  BY <1>1 DEF Ordering!appendEnd, Ordering!asked
<1>3. /\ tour \in Seq(1 .. m) /\ Len(tour) >= 1 /\ tour[1] = 1
      /\ \A k, l \in 1 .. Len(tour) : tour[k] = tour[l] => k = l
      /\ m >= 3 /\ (fixedEnd => \A k \in 1 .. Len(tour) : tour[k] # m)
      /\ fixedEnd \in BOOLEAN
  BY <1>2 DEF RouteInv, Tour
<1>4. \A s \in 1 .. m : (\E k \in 1 .. Len(tour) : tour[k] = s) \/ (fixedEnd /\ s = m)
  BY <1>2, LeftAre
<1>5. Ordering!NoWayForFree'
  BY <1>2 DEF RouteInv, Ordering!NoWayForFree, Ordering!Stops
<1> HIDE DEF m
<1>6. Tour(m)' /\ WholeRoute(m)'
  <2>1. CASE ~ fixedEnd
    <3>1. Len(tour) = m
      BY <1>1, <1>3, <1>4, <2>1, WholeTour
    <3> QED
      BY <1>2, <1>3, <1>4, <2>1, <3>1 DEF Tour, WholeRoute, m
  <2>2. CASE fixedEnd
    <3>1. m \in 1 .. m
      BY <1>1
    <3>2. /\ tour' \in Seq(1 .. m) /\ Len(tour') = Len(tour) + 1
          /\ \A k \in 1 .. Len(tour) : tour'[k] = tour[k]
          /\ tour'[Len(tour) + 1] = m
          /\ \A k, l \in 1 .. Len(tour') : tour'[k] = tour'[l] => k = l
      BY <1>1, <1>2, <1>3, <2>2, <3>1, Appended
    <3>3. \A s \in 1 .. m : \E k \in 1 .. Len(tour') : tour'[k] = s
      BY <1>3, <1>4, <3>2
    <3>4. Len(tour') = m
      BY <1>1, <3>2, <3>3, WholeTour
    <3>5. tour'[1] = 1 /\ tour'[m] = m
      BY <1>1, <1>3, <3>2, <3>4
    <3>6. Tour(m)'
      <4>1. m' = m
        BY <1>2 DEF m
      <4> QED
        BY <1>1, <3>2, <3>4, <3>5, <4>1 DEF Tour
    <3>7. WholeRoute(m)'
      <4>1. m' = m
        BY <1>2 DEF m
      <4> QED
        BY <3>3, <3>4, <3>5, <4>1 DEF WholeRoute
    <3> QED
      BY <3>6, <3>7
  <2> QED
    BY <2>1, <2>2
<1> QED
  BY <1>2, <1>5, <1>6 DEF RouteInv, m

LEMMA TurnStep ==
    ASSUME RouteAssumptions, RouteInv, Ordering!twoOpt
    PROVE  RouteInv'
<1> DEFINE m == Len(stops)
<1>1. m \in Nat /\ m >= 1 /\ Ordering!n = m
  BY StopsAre
<1>2. PICK i \in 2 .. Ordering!endK, k \in 2 .. Ordering!endK :
           /\ i < k /\ tour' = Ordering!Reversed(tour, i, k)
           /\ routePc = "improve" /\ UNCHANGED <<stops, by, answer, fixedEnd, matrix, routePc>>
  BY DEF Ordering!twoOpt, Ordering!Turns, Ordering!asked
<1>3. /\ tour \in Seq(1 .. m) /\ tour[1] = 1 /\ Len(tour) = m
      /\ \A a, b \in 1 .. Len(tour) : tour[a] = tour[b] => a = b
      /\ \A s \in 1 .. m : \E a \in 1 .. m : tour[a] = s
      /\ fixedEnd => tour[m] = m
  BY <1>2 DEF RouteInv, Tour, WholeRoute
<1>4. Ordering!NoWayForFree'
  BY <1>2 DEF RouteInv, Ordering!NoWayForFree, Ordering!Stops
<1> DEFINE last == Ordering!endK
<1>5. last \in Nat /\ last <= m /\ (fixedEnd => last < m)
  <2>1. Len(tour) = m
    BY <1>3
  <2> HIDE DEF m
  <2> QED
    BY <1>1, <2>1 DEF Ordering!endK
<1> HIDE DEF m, last
<1>6. i \in 2 .. last /\ k \in 2 .. last /\ i < k
  BY <1>2 DEF last
<1>9. /\ tour' \in Seq(1 .. m) /\ Len(tour') = m
      /\ \A j \in 1 .. m : tour'[j] = IF j \in i .. k THEN tour[i + k - j] ELSE tour[j]
  <2>1. tour' = [j \in 1 .. m |-> IF j \in i .. k THEN tour[i + k - j] ELSE tour[j]]
    <3>1. DOMAIN tour = 1 .. m
      BY <1>3
    <3> QED
      BY <1>2, <3>1 DEF Ordering!Reversed
  <2>2. \A j \in 1 .. m : tour[j] \in 1 .. m /\ (j \in i .. k => tour[i + k - j] \in 1 .. m)
    <3>1. \A j \in 1 .. m : tour[j] \in 1 .. m
      BY <1>3
    <3>2. \A j \in i .. k : i + k - j \in 1 .. m
      BY <1>1, <1>5, <1>6
    <3> QED
      BY <3>1, <3>2
  <2> QED
    BY <1>1, <2>1, <2>2
<1>10. \A a, b \in 1 .. m : tour'[a] = tour'[b] => a = b
  <2> DEFINE spot(j) == IF j \in i .. k THEN i + k - j ELSE j
  <2>1. \A j \in 1 .. m : spot(j) \in 1 .. m /\ tour'[j] = tour[spot(j)]
    BY <1>1, <1>5, <1>6, <1>9
  <2>2. \A a, b \in 1 .. m : spot(a) = spot(b) => a = b
    BY <1>1, <1>6
  <2> HIDE DEF spot
  <2> QED
    BY <1>3, <2>1, <2>2
<1>11. Tour(m)' /\ WholeRoute(m)'
  <2>1. tour'[1] = 1 /\ (fixedEnd => tour'[m] = m)
    BY <1>1, <1>3, <1>5, <1>6, <1>9
  <2>2. \A s \in 1 .. m : \E a \in 1 .. Len(tour') : tour'[a] = s
    <3>1. m \in Nat /\ tour' \in Seq(1 .. m) /\ Len(tour') = m
      BY <1>1, <1>9
    <3>2. \A a, b \in 1 .. Len(tour') : tour'[a] = tour'[b] => a = b
      BY <1>10, <3>1
    <3> QED
      BY <3>1, <3>2, WholeTour
  <2> QED
    BY <1>1, <1>2, <1>9, <1>10, <2>1, <2>2 DEF Tour, WholeRoute, m
<1> QED
  BY <1>2, <1>4, <1>11 DEF RouteInv, m

LEMMA StopStep ==
    ASSUME RouteInv, Ordering!Stop PROVE RouteInv'
BY DEF Ordering!Stop, Ordering!asked, RouteInv, Tour, WholeRoute, Ordering!NoWayForFree, Ordering!Stops

LEMMA NextRoute == ASSUME RouteAssumptions, RouteInv, Ordering!Next PROVE RouteInv'
BY MatrixStep, MapboxStep, LocalStep, NearestStep, EndStep, TurnStep, StopStep DEF Ordering!Next

LEMMA RouteStutters == ASSUME RouteInv, UNCHANGED routeVars PROVE RouteInv'
BY DEF routeVars, RouteInv, Tour, WholeRoute, Ordering!NoWayForFree, Ordering!Stops

\* How long a tour is depends on the table alone.
LEMMA SameLengths ==
    ASSUME UNCHANGED <<matrix, tour>>, NEW i, NEW k
    PROVE  /\ Ordering!Length(Ordering!Reversed(tour, i, k))'
                 = Ordering!Length(Ordering!Reversed(tour, i, k))
           /\ Ordering!Length(tour)' = Ordering!Length(tour)
<1> DEFINE gone(route) ==
             [j \in 1 .. Len(route) - 1 |-> matrix[route[j]][route[j + 1]].distance]
           turned == Ordering!Reversed(tour, i, k)
<1>1. turned' = turned
  BY DEF Ordering!Reversed
<1>2. gone(turned)' = gone(turned) /\ gone(tour)' = gone(tour)
  BY <1>1
<1> HIDE DEF gone
<1>3. Ordering!Added(gone(tour))' = Ordering!Added(gone(tour))
  BY <1>2
<1>4. Ordering!Added(gone(turned))' = Ordering!Added(gone(turned))
  BY <1>2
<1> QED
  BY <1>3, <1>4 DEF Ordering!Length, gone

\* Where the local optimizer stops before its last attempt, it has found nothing to turn.
LEMMA SettledStep ==
    ASSUME RouteAssumptions, RouteInv, Ordering!NothingToTurn, Ordering!Next
    PROVE  Ordering!NothingToTurn'
<1>1. /\ Len(stops) \in Nat /\ Ordering!n = Len(stops) /\ Ordering!n' = Len(stops)
      /\ UNCHANGED <<stops, fixedEnd>>
  <2>1. UNCHANGED <<stops, fixedEnd>>
    BY DEF Ordering!Next, Ordering!computeMatrix, Ordering!mapboxOrder,
           Ordering!useLocalOptimizer, Ordering!nearestNeighbor, Ordering!appendEnd,
           Ordering!twoOpt, Ordering!Stop, Ordering!asked
  <2> QED
    BY <2>1, StopsAre DEF Ordering!n
<1>2. CASE Ordering!computeMatrix \/ Ordering!useLocalOptimizer
  <2>1. routePc' = "done" => Len(stops) <= 2
    BY <1>1, <1>2 DEF Ordering!computeMatrix, Ordering!useLocalOptimizer
  <2>2. \A i, k \in 2 .. (IF fixedEnd THEN Len(stops) - 1 ELSE Len(stops)) :
           Len(stops) <= 2 => ~ i < k
    BY <1>1
  <2> QED
    BY <1>1, <2>1, <2>2 DEF Ordering!NothingToTurn
<1>3. CASE Ordering!Stop
  <2>1. /\ routePc = "improve" /\ UNCHANGED <<matrix, tour, iterations>>
        /\ iterations < MaxTurns => Ordering!Turns(2) = {}
    BY <1>3 DEF Ordering!Stop
  <2>2. Len(tour) = Len(stops)
    BY <2>1 DEF RouteInv, WholeRoute
  <2>3. Ordering!endK = IF fixedEnd THEN Ordering!n - 1 ELSE Ordering!n
    BY <1>1, <2>2 DEF Ordering!endK
  <2>4. ASSUME iterations < MaxTurns,
               NEW i \in 2 .. (IF fixedEnd THEN Ordering!n - 1 ELSE Ordering!n),
               NEW k \in 2 .. (IF fixedEnd THEN Ordering!n - 1 ELSE Ordering!n),
               i < k, Ordering!Length(Ordering!Reversed(tour, i, k)) + 2 <= Ordering!Length(tour)
        PROVE  FALSE
    <3>1. <<i, k>> \in Ordering!Turns(2)
      BY <2>3, <2>4 DEF Ordering!Turns
    <3> QED
      BY <2>1, <2>4, <3>1
  <2>5. SUFFICES ASSUME (iterations < MaxTurns)',
                        NEW i \in (2 .. (IF fixedEnd THEN Ordering!n - 1 ELSE Ordering!n))',
                        NEW k \in (2 .. (IF fixedEnd THEN Ordering!n - 1 ELSE Ordering!n))',
                        i < k
                 PROVE  ~ (Ordering!Length(Ordering!Reversed(tour, i, k)) + 2
                              <= Ordering!Length(tour))'
    BY DEF Ordering!NothingToTurn
  <2>6. /\ Ordering!Length(Ordering!Reversed(tour, i, k))'
               = Ordering!Length(Ordering!Reversed(tour, i, k))
        /\ Ordering!Length(tour)' = Ordering!Length(tour)
    BY <2>1, SameLengths
  <2> QED
    BY <1>1, <2>1, <2>4, <2>5, <2>6
<1>4. CASE \/ \E order \in Ordering!waypoints : Ordering!mapboxOrder(order)
           \/ Ordering!nearestNeighbor \/ Ordering!appendEnd \/ Ordering!twoOpt
  <2>1. routePc' # "done"
    BY <1>4 DEF Ordering!mapboxOrder, Ordering!nearestNeighbor, Ordering!appendEnd,
                Ordering!twoOpt
  <2> QED
    BY <2>1 DEF Ordering!NothingToTurn
<1> QED
  BY <1>2, <1>3, <1>4 DEF Ordering!Next

LEMMA SettledStutters ==
    ASSUME Ordering!NothingToTurn, UNCHANGED routeVars PROVE Ordering!NothingToTurn'
<1>1. UNCHANGED <<routePc, iterations, stops, fixedEnd, matrix, tour>>
  BY DEF routeVars
<1> QED
  BY <1>1, SameLengths DEF Ordering!NothingToTurn, Ordering!n

LEMMA RouteSafe ==
    ASSUME RouteAssumptions, RouteInv
    PROVE  Ordering!EveryStopOnce /\ Ordering!NoWayForFree
<1>1. Len(stops) \in Nat /\ Ordering!Stops = 1 .. Len(stops) /\ Ordering!n = Len(stops)
  BY StopsAre
<1>2. routePc \in {"answered", "done"} => Tour(Len(stops)) /\ WholeRoute(Len(stops))
  BY DEF RouteInv
<1>3. ASSUME Tour(Len(stops)), WholeRoute(Len(stops))
      PROVE  Ordering!Range(tour) = 1 .. Len(stops)
  <2>1. DOMAIN tour = 1 .. Len(stops) /\ \A k \in 1 .. Len(stops) : tour[k] \in 1 .. Len(stops)
    <3>1. tour \in Seq(1 .. Len(stops)) /\ Len(tour) = Len(stops)
      BY <1>3 DEF Tour, WholeRoute
    <3> HIDE DEF Tour, WholeRoute
    <3> QED
      BY <3>1
  <2>2. \A s \in 1 .. Len(stops) : \E k \in 1 .. Len(stops) : tour[k] = s
    BY <1>3 DEF WholeRoute
  <2> QED
    BY <2>1, <2>2 DEF Ordering!Range
<1> QED
  BY <1>1, <1>2, <1>3 DEF Ordering!EveryStopOnce, RouteInv, Tour, WholeRoute

-----------------------------------------------------------------------------
(* All of them.                                                            *)

PartsInv ==
    /\ part = "posts" => PostsInv
    /\ part = "likes" => LikesInv
    /\ part = "crowd" => CrowdInv
    /\ part = "reviews" => ReviewInv
    /\ part = "media" => MediaInv
    /\ part = "catalogue" => ListingInv
    /\ part = "rows" => RowsInv
    /\ part = "avatars" => AvatarInv
    /\ part = "paging" => PagingInv
    /\ part = "search" => SearchInv
    /\ part = "recommendations" => RecommendInv
    /\ part = "favorites" => FavoritesInv
    /\ part = "records" => RecordsInv
    /\ part = "generator" => GeneratorInv
    /\ part = "route" => RouteInv /\ Ordering!NothingToTurn

LEMMA InitParts ==
    ASSUME Assumptions, ListAssumptions, PlanAssumptions, RouteAssumptions,
           RecommendAssumptions, Init
    PROVE  PartsInv
<1>1. part = "posts" => PostsInv
  BY InitPosts DEF Init
<1>2. part = "media" => MediaInv
  BY InitMedia DEF Init
<1>3. part = "catalogue" => ListingInv
  BY InitListing DEF Init
<1>4. part = "rows" => RowsInv
  BY InitRows DEF Init
<1>5. part = "avatars" => AvatarInv
  BY InitAvatar DEF Init
<1>6. part = "likes" => LikesInv
  BY InitLikes DEF Init
<1>7. part = "reviews" => ReviewInv
  BY InitReview DEF Init
<1>8. part = "paging" => PagingInv
  BY PagingInit, ListAssumptions DEF Init
<1>9. part = "search" => SearchInv
  BY InitSearch, ListAssumptions DEF Init
<1>10. part = "recommendations" => RecommendInv
  BY InitRecommend, RecommendAssumptions DEF Init
<1>11. part = "favorites" => FavoritesInv
  BY InitFavorites DEF Init
<1>12. part = "records" => RecordsInv
  BY InitRecords DEF Init
<1>13. part = "generator" => GeneratorInv
  BY InitGenerator, PlanAssumptions DEF Init
<1>14. part = "route" => RouteInv /\ Ordering!NothingToTurn
  BY InitRoute, RouteAssumptions DEF Init, Ordering!Init, Ordering!NothingToTurn
<1>15. part = "crowd" => CrowdInv
  BY InitCrowd DEF Init
<1> QED
  BY <1>1, <1>2, <1>3, <1>4, <1>5, <1>6, <1>7,
     <1>8, <1>9, <1>10, <1>11, <1>12, <1>13, <1>14, <1>15 DEF PartsInv

LEMMA NextParts ==
    ASSUME Assumptions, ListAssumptions, PlanAssumptions, RouteAssumptions,
           RecommendAssumptions, PartsInv, [Next]_vars
    PROVE  PartsInv'
<1>1. part' = part
  BY DEF Next, vars
<1>2. part = "posts" => [Posting!Next]_postsVars
  BY DEF Next, vars
<1>3. part = "media" => [Media!Next]_mediaVars
  BY DEF Next, vars
<1>4. part = "catalogue" => [Listing!Next]_catalogueVars
  BY DEF Next, vars
<1>5. part = "rows" => [Replacing!Next]_rowsVars
  BY DEF Next, vars
<1>6. part = "avatars" => [Avatar!Next]_avatarsVars
  BY DEF Next, vars
<1>7. part = "posts" => PostsInv'
  BY <1>2, NextPosts DEF PartsInv
<1>8. part = "media" => MediaInv'
  BY <1>3, NextMedia DEF PartsInv
<1>9. part = "catalogue" => ListingInv'
  BY <1>4, NextListing DEF PartsInv
<1>10. part = "rows" => RowsInv'
  BY <1>5, NextRows DEF PartsInv
<1>11. part = "avatars" => AvatarInv'
  BY <1>6, NextAvatar DEF PartsInv
<1>12. part = "likes" => [Liking!Next]_likesVars
  BY DEF Next, vars
<1>13. part = "reviews" => [Reviewing!Next]_reviewsVars
  BY DEF Next, vars
<1>14. part = "likes" => LikesInv'
  BY <1>12, NextLikes DEF PartsInv
<1>15. part = "reviews" => ReviewInv'
  BY <1>13, NextReview DEF PartsInv
<1>16. part = "paging" => [Paging!Next]_pagingVars
  BY DEF Next, vars
<1>17. part = "paging" => PagingInv'
  BY <1>16, PagingStep, PagingStutters, ListAssumptions DEF PartsInv
<1>18. part = "search" => [Searching!Next]_searchVars
  BY DEF Next, vars
<1>19. part = "search" => SearchInv'
  BY <1>18, NextSearch, SearchStutters, ListAssumptions DEF PartsInv
<1>20. part = "recommendations" => [Recommending!Next]_recommendVars
  BY DEF Next, vars
<1>21. part = "recommendations" => RecommendInv'
  BY <1>20, NextRecommend, RecommendStutters, RecommendAssumptions DEF PartsInv
<1>22. part = "favorites" => [Favoring!Next]_favoritesVars
  BY DEF Next, vars
<1>23. part = "favorites" => FavoritesInv'
  BY <1>22, NextFavorites, FavoritesStutter DEF PartsInv
<1>24. part = "records" => [Records!Next]_recordsVars
  BY DEF Next, vars
<1>25. part = "records" => RecordsInv'
  BY <1>24, NextRecords, RecordsStutter, ListAssumptions DEF PartsInv
<1>26. part = "generator" => [Generating!Next]_generatorVars
  BY DEF Next, vars
<1>27. part = "generator" => GeneratorInv'
  BY <1>26, NextGenerator, GeneratorStutters, PlanAssumptions DEF PartsInv
<1>28. part = "route" => [Ordering!Next]_routeVars
  BY DEF Next, vars
<1>29. part = "route" => RouteInv' /\ Ordering!NothingToTurn'
  BY <1>28, NextRoute, RouteStutters, SettledStep, SettledStutters, RouteAssumptions
     DEF PartsInv
<1>30. part = "crowd" => [Crowd!Next]_likesVars
  BY DEF Next, vars
<1>31. part = "crowd" => CrowdInv'
  BY <1>30, NextCrowd DEF PartsInv
<1> QED
  BY <1>1, <1>7, <1>8, <1>9, <1>10, <1>11, <1>14, <1>15,
     <1>17, <1>19, <1>21, <1>23, <1>25, <1>27, <1>29, <1>31 DEF PartsInv

\* What the parts' invariants are for: each of the properties the run checks.
LEMMA PartsSound ==
    ASSUME Assumptions, ListAssumptions, RouteAssumptions, PartsInv
    PROVE  /\ ImagesExist /\ NothingLeft /\ AggregatesAgree /\ CachesFresh /\ RowsWhole
           /\ CountersExact /\ EveryItemOnce /\ AnswersAddUp /\ PlanSound /\ SearchSound
           /\ ToursSettled
           /\ [Next]_vars => (part = "catalogue" => Listing!UnusedWhenDeleted)
<1>1. ImagesExist
  BY PostsSound, MediaSound, AvatarSound DEF PartsInv, ImagesExist
<1>2. NothingLeft
  BY PostsSound, MediaSound, AvatarSound DEF PartsInv, NothingLeft
<1>3. CachesFresh
  BY ListingSound DEF PartsInv, CachesFresh
<1>4. RowsWhole
  BY RowsSound DEF PartsInv, RowsWhole
<1>5. ASSUME [Next]_vars, part = "catalogue" PROVE Listing!UnusedWhenDeleted
  <2>1. [Listing!Next]_catalogueVars
    BY <1>5 DEF Next, vars
  <2> QED BY <1>5, <2>1, ListingSound DEF PartsInv
<1>6. AggregatesAgree
  BY LikesSound DEF PartsInv, ReviewInv, AggregatesAgree
<1>7. EveryItemOnce
  BY PagingSafe, SearchSafe DEF PartsInv, EveryItemOnce
<1>8. AnswersAddUp
  BY RecordsSafe DEF PartsInv, FavoritesInv, AnswersAddUp
<1>9. PlanSound
  BY GeneratorSafe, RouteSafe DEF PartsInv, PlanSound
<1>10. SearchSound
  BY SearchSafe, NearestSafe DEF PartsInv, RecommendInv, SearchSound
<1>11. CountersExact
  BY CrowdSound DEF PartsInv, NoDeletion, CountersExact
<1>12. ToursSettled
  BY DEF PartsInv, ToursSettled
<1> QED BY <1>1, <1>2, <1>3, <1>4, <1>5, <1>6, <1>7, <1>8, <1>9, <1>10, <1>11, <1>12

\* Whatever happens in whichever part, its inductive invariant holds: the requests under
\* way know what the tables and Cloudinary look like, for any number of requests, rows,
\* images, users and ratings.
THEOREM PartsAlways == Spec => []PartsInv
<1>1. Init => PartsInv
  BY Assumptions, ListAssumptions, PlanAssumptions, RouteAssumptions, RecommendAssumptions,
     InitParts
<1>2. PartsInv /\ [Next]_vars => PartsInv'
  BY Assumptions, ListAssumptions, PlanAssumptions, RouteAssumptions, RecommendAssumptions,
     NextParts
<1> QED BY <1>1, <1>2, PTL DEF Spec

\* Whichever statement of a request fails, and whatever moderators and other requests do
\* between two of them (for a gallery, one request after another): posts, covers and galleries
\* of any size and avatars show images that are still at Cloudinary, but for the failures the
\* parts name, and a gallery has one primary image.  The URL of a cover names one too, or an
\* image that its gallery never got or has lost.
THEOREM ImagesExistAlways == Spec => []ImagesExist
<1>1. PartsInv => ImagesExist
  BY Assumptions, ListAssumptions, RouteAssumptions, PartsSound
<1> QED
  BY <1>1, PartsAlways, PTL

\* What is at Cloudinary when nothing is in progress is shown, but for the failures the parts
\* name, the images that an edit of a whole row left out of its gallery, and the gallery of an
\* accommodation or restaurant that was deleted for good.
THEOREM NothingLeftAlways == Spec => []NothingLeft
<1>1. PartsInv => NothingLeft
  BY Assumptions, ListAssumptions, RouteAssumptions, PartsSound
<1> QED
  BY <1>1, PartsAlways, PTL

\* However many users like a post and comment on it, one request after the other, with a
\* moderator between any two of its statements: likeCount is the number of likes and no
\* comment shown goes uncounted.  And however many requests change the reviews of a
\* destination, fail or overlap, one that is alone leaves the exact rating.
THEOREM AggregatesAgreeAlways == Spec => []AggregatesAgree
<1>1. PartsInv => AggregatesAgree
  BY Assumptions, ListAssumptions, RouteAssumptions, PartsSound
<1> QED
  BY <1>1, PartsAlways, PTL

\* However many users like a post and comment on it at a time, and whatever is rolled back
\* or deleted meanwhile: while nobody takes a like back, likeCount is the number of likes,
\* and while no comment is deleted on its own, commentCount is the number of comments.
THEOREM CountersExactAlways == Spec => []CountersExact
<1>1. PartsInv => CountersExact
  BY Assumptions, ListAssumptions, RouteAssumptions, PartsSound
<1> QED
  BY <1>1, PartsAlways, PTL

\* However often and however fast, by however many requests at a time, a user likes a post
\* while nobody takes a like back: its author is told once.
THEOREM LikesNotifiedOnce ==
    ASSUME "unlikePost" \notin CrowdOps
    PROVE  Spec => [](part = "crowd" => Crowd!NotifiedOnce)
<1>1. PartsInv => (part = "crowd" => Crowd!NotifiedOnce)
  BY CrowdSound DEF PartsInv
<1> QED
  BY <1>1, PartsAlways, PTL

\* However many readers fill the caches of the catalogue with what they read before, and
\* however many administrators' requests have committed, fail, or have yet to empty them: an
\* answer from memory is never older than its time to live, whatever that is.  And when the
\* last request that was to empty the cache of featured destinations has done so, and met no
\* reader with an older answer, the list shows what there is.
THEOREM CachesFreshAlways == Spec => []CachesFresh
<1>1. PartsInv => CachesFresh
  BY Assumptions, ListAssumptions, RouteAssumptions, PartsSound
<1> QED
  BY <1>1, PartsAlways, PTL

\* However many destinations are moved meanwhile, a category that is deleted has none.
THEOREM DeletedUnusedAlways == Spec => DeletedUnused
<1>1. PartsInv /\ [Next]_vars => [part = "catalogue" => Listing!UnusedWhenDeleted]_vars
  BY Assumptions, ListAssumptions, RouteAssumptions, PartsSound
<1> QED
  BY <1>1, PartsAlways, PTL DEF Spec, DeletedUnused

\* However many edits of one header overlap, wait for each other and fail, its rows are
\* whole, and of one request where the header or a number serializes the edits.
THEOREM RowsWholeAlways == Spec => []RowsWhole
<1>1. PartsInv => RowsWhole
  BY Assumptions, ListAssumptions, RouteAssumptions, PartsSound
<1> QED
  BY <1>1, PartsAlways, PTL

\* However many posts, comments and bookmarks are created and hidden while a client follows
\* the cursor, with pages of any size, it is shown nothing twice and misses nothing that was
\* there all along.  By the number of the page, while nothing changes, so it is of what has no
\* equals in the order on another page, whatever the order in which each query returns equals.
THEOREM EveryItemOnceAlways == Spec => []EveryItemOnce
<1>1. PartsInv => EveryItemOnce
  BY Assumptions, ListAssumptions, RouteAssumptions, PartsSound
<1> QED
  BY <1>1, PartsAlways, PTL

\* However many toggles, additions and removals of favorites overlap, the last answer about
\* each target is what its row says; links that were given stay open unless two requests
\* have clashed; and an edit of an expense or journal takes back nothing another has set.
THEOREM AnswersAddUpAlways == Spec => []AnswersAddUp
<1>1. PartsInv => AnswersAddUp
  BY Assumptions, ListAssumptions, RouteAssumptions, PartsSound
<1> QED
  BY <1>1, PartsAlways, PTL

\* From any catalogue, for any request, the plan visits no destination twice and each of its
\* days can be walked as written; and whatever the table of Mapbox lacks, the order of any
\* stops has each of them once, the ends where they belong, and no way for free.
THEOREM PlanSoundAlways == Spec => []PlanSound
<1>1. PartsInv => PlanSound
  BY Assumptions, ListAssumptions, RouteAssumptions, PartsSound
<1> QED
  BY <1>1, PartsAlways, PTL

\* Whatever the distances between any number of stops, and however often it may try: where
\* the local optimizer stops before its last attempt, no part of the tour saves more than
\* ten metres the other way round.
THEOREM ToursSettledAlways == Spec => []ToursSettled
<1>1. PartsInv => ToursSettled
  BY Assumptions, ListAssumptions, RouteAssumptions, PartsSound
<1> QED
  BY <1>1, PartsAlways, PTL

\* In any catalogue, the search finds only what the list shows with the same filters, what
\* is shown can be opened, and nothing nearer than what is nearby, or better than what is
\* recommended, is left out.
THEOREM SearchSoundAlways == Spec => []SearchSound
<1>1. PartsInv => SearchSound
  BY Assumptions, ListAssumptions, RouteAssumptions, PartsSound
<1> QED
  BY <1>1, PartsAlways, PTL

-----------------------------------------------------------------------------
(* Sums.                                                                   *)

\* A set of naturals has a least element.
LEMMA LeastNatural ==
    ASSUME NEW S \in SUBSET Nat, S # {}
    PROVE  \E m \in S : \A x \in S : m <= x
<1>1. PICK m \in S : \A x \in S : ~ (<<x, m>> \in OpToRel(<, Nat))
  BY NatLessThanWellFounded, WFMin
<1>2. ASSUME NEW x \in S
      PROVE  m <= x
  <2>1. ~ (x < m)
    BY <1>1 DEF OpToRel
  <2> QED
    BY <2>1
<1> QED
  BY <1>2

\* A set with 0 that has n + 1 whenever it has n is the naturals.
LEMMA EveryNatural ==
    ASSUME NEW S, 0 \in S, \A n \in Nat : n \in S => n + 1 \in S
    PROVE  \A n \in Nat : n \in S
<1> DEFINE Bad == {n \in Nat : n \notin S}
<1> SUFFICES ASSUME Bad # {} PROVE FALSE
  OBVIOUS
<1>1. PICK m \in Bad : \A x \in Bad : m <= x
  BY LeastNatural
<1>2. m # 0 /\ m - 1 \in Nat
  OBVIOUS
<1>3. m - 1 \in S
  BY <1>1, <1>2
<1> QED
  BY <1>2, <1>3

\* A family of sets with the empty one that has a set with one member more whenever it has
\* the set, up to S, has S.
LEMMA EveryFiniteSet ==
    ASSUME NEW S, IsFiniteSet(S), NEW G, {} \in G,
           \A s \in G : \A x \in S \ s : s \subseteq S => s \union {x} \in G
    PROVE  S \in G
<1> DEFINE Good == {n \in Nat : \A s \in SUBSET S : Cardinality(s) = n => s \in G}
<1>1. \A s \in SUBSET S : IsFiniteSet(s) /\ Cardinality(s) \in Nat
  BY FS_Subset, FS_CardinalityType
<1>2. 0 \in Good
  <2>1. \A s \in SUBSET S : Cardinality(s) = 0 => s = {}
    BY <1>1, FS_EmptySet
  <2> QED
    BY <2>1
<1>3. ASSUME NEW n \in Nat, n \in Good PROVE n + 1 \in Good
  <2> SUFFICES ASSUME NEW s \in SUBSET S, Cardinality(s) = n + 1 PROVE s \in G
    OBVIOUS
  <2>1. s # {}
    BY FS_EmptySet
  <2>2. PICK x \in s : TRUE
    BY <2>1
  <2>3. Cardinality(s \ {x}) = n /\ s \ {x} \in SUBSET S
    BY <1>1, FS_RemoveElement
  <2>4. s \ {x} \in G /\ x \in S \ (s \ {x})
    BY <1>3, <2>3
  <2>5. (s \ {x}) \union {x} \in G /\ (s \ {x}) \union {x} = s
    BY <2>4
  <2> QED
    BY <2>5
<1>4. \A n \in Nat : n \in Good
  <2> HIDE DEF Good
  <2> QED
    BY <1>2, <1>3, EveryNatural
<1>5. Cardinality(S) \in Good /\ S \in SUBSET S
  BY <1>1, <1>4
<1> QED
  BY <1>5

AnyOf(S) == CHOOSE x \in S : TRUE
Naturals(w, S) == \A x \in S : w[x] \in Nat

\* What a fold computes on the way to the sum over S.
Sums(w, S, g) ==
    g = [s \in SUBSET S |-> IF s = {} THEN 0 ELSE w[AnyOf(s)] + g[s \ {AnyOf(s)}]]
Total(w, S) == (CHOOSE g : Sums(w, S, g))[S]

\* There is such a fold, of numbers.
LEMMA SumsExist ==
    \A w, S : IsFiniteSet(S) /\ Naturals(w, S) => \E g \in [SUBSET S -> Nat] : Sums(w, S, g)
<1> DEFINE Upto(w, S, n) ==
             \E g \in [SUBSET S -> Nat] :
                \A s \in SUBSET S :
                   Cardinality(s) <= n =>
                      g[s] = IF s = {} THEN 0 ELSE w[AnyOf(s)] + g[s \ {AnyOf(s)}]
<1> DEFINE Good(w, S) == {n \in Nat : Upto(w, S, n)}
<1> SUFFICES ASSUME NEW w, NEW S, IsFiniteSet(S), Naturals(w, S)
             PROVE  \E g \in [SUBSET S -> Nat] : Sums(w, S, g)
  OBVIOUS
<1>1. \A s \in SUBSET S : IsFiniteSet(s) /\ Cardinality(s) \in Nat
  BY FS_Subset, FS_CardinalityType
<1>2. \A s \in SUBSET S : Cardinality(s) = 0 <=> s = {}
  BY <1>1, FS_EmptySet
<1>3. \A s \in SUBSET S : s # {} =>
         AnyOf(s) \in s /\ Cardinality(s \ {AnyOf(s)}) = Cardinality(s) - 1
  BY <1>1, FS_RemoveElement DEF AnyOf
<1>4. 0 \in Good(w, S)
  <2> DEFINE g == [s \in SUBSET S |-> 0]
  <2>1. g \in [SUBSET S -> Nat]
    OBVIOUS
  <2>2. \A s \in SUBSET S : Cardinality(s) <= 0 => s = {}
    BY <1>1, <1>2
  <2> QED
    BY <2>1, <2>2
<1>5. ASSUME NEW n \in Nat, n \in Good(w, S)
      PROVE  n + 1 \in Good(w, S)
  <2>1. PICK g \in [SUBSET S -> Nat] :
           \A s \in SUBSET S :
              Cardinality(s) <= n =>
                 g[s] = IF s = {} THEN 0 ELSE w[AnyOf(s)] + g[s \ {AnyOf(s)}]
    BY <1>5
  <2> DEFINE h == [s \in SUBSET S |-> IF s = {} THEN 0
                                      ELSE w[AnyOf(s)] + g[s \ {AnyOf(s)}]]
  <2>2. h \in [SUBSET S -> Nat]
    <3>1. ASSUME NEW s \in SUBSET S, s # {}
          PROVE  w[AnyOf(s)] + g[s \ {AnyOf(s)}] \in Nat
      <4>1. w[AnyOf(s)] \in Nat
        BY <1>3, <3>1 DEF Naturals
      <4>2. g[s \ {AnyOf(s)}] \in Nat
        OBVIOUS
      <4> QED
        BY <4>1, <4>2
    <3> QED
      BY <3>1
  <2>3. \A s \in SUBSET S : Cardinality(s) <= n => h[s] = g[s]
    BY <2>1
  <2>4. ASSUME NEW s \in SUBSET S, Cardinality(s) <= n + 1, s # {}
        PROVE  h[s] = w[AnyOf(s)] + h[s \ {AnyOf(s)}]
    <3>1. s \ {AnyOf(s)} \in SUBSET S /\ Cardinality(s \ {AnyOf(s)}) <= n
      <4>1. Cardinality(s) \in Nat
        BY <1>1
      <4>2. Cardinality(s \ {AnyOf(s)}) = Cardinality(s) - 1
        BY <1>3, <2>4
      <4>3. s \ {AnyOf(s)} \in SUBSET S
        OBVIOUS
      <4> QED
        BY <4>1, <4>2, <4>3, <2>4
    <3>2. h[s \ {AnyOf(s)}] = g[s \ {AnyOf(s)}]
      BY <3>1, <2>3
    <3> QED
      BY <3>2, <2>4
  <2>5. h[{}] = 0
    OBVIOUS
  <2> HIDE DEF h
  <2>6. \A s \in SUBSET S :
           Cardinality(s) <= n + 1 =>
              h[s] = IF s = {} THEN 0 ELSE w[AnyOf(s)] + h[s \ {AnyOf(s)}]
    BY <2>4, <2>5
  <2>7. Upto(w, S, n + 1)
    <3> HIDE DEF Good
    <3> QED
      BY <2>2, <2>6
  <2> HIDE DEF Upto
  <2> QED
    BY <2>7
<1>6. \A n \in Nat : n \in Good(w, S)
  <2> HIDE DEF Good
  <2> QED
    BY <1>4, <1>5, EveryNatural
<1>7. Cardinality(S) \in Nat /\ Upto(w, S, Cardinality(S))
  BY <1>1, <1>6
<1>8. PICK g \in [SUBSET S -> Nat] :
         \A s \in SUBSET S :
            Cardinality(s) <= Cardinality(S) =>
               g[s] = IF s = {} THEN 0 ELSE w[AnyOf(s)] + g[s \ {AnyOf(s)}]
  BY <1>7
<1>9. \A s \in SUBSET S : Cardinality(s) <= Cardinality(S)
  BY FS_Subset
<1>10. Sums(w, S, g)
  BY <1>8, <1>9 DEF Sums
<1> QED
  BY <1>10

\* Two such folds, over a set and one that contains it, agree.
LEMMA OneSum ==
    \A w, v, S, T, g, h :
        IsFiniteSet(T) /\ S \subseteq T /\ Sums(w, S, g) /\ Sums(v, T, h)
            /\ (\A x \in S : w[x] = v[x]) =>
            \A s \in SUBSET S : g[s] = h[s]
<1> SUFFICES ASSUME NEW w, NEW v, NEW S, NEW T, NEW g, NEW h,
                    IsFiniteSet(T), S \subseteq T, Sums(w, S, g), Sums(v, T, h),
                    \A x \in S : w[x] = v[x]
             PROVE  \A s \in SUBSET S : g[s] = h[s]
  OBVIOUS
<1> DEFINE Good == {n \in Nat : \A s \in SUBSET S : Cardinality(s) <= n => g[s] = h[s]}
<1>1. \A s \in SUBSET S : IsFiniteSet(s) /\ Cardinality(s) \in Nat
  BY FS_Subset, FS_CardinalityType
<1>2. \A s \in SUBSET S : Cardinality(s) = 0 <=> s = {}
  BY <1>1, FS_EmptySet
<1>3. \A s \in SUBSET S : s # {} =>
         AnyOf(s) \in s /\ Cardinality(s \ {AnyOf(s)}) = Cardinality(s) - 1
  BY <1>1, FS_RemoveElement DEF AnyOf
<1>4. \A s \in SUBSET S : s \in SUBSET T
  OBVIOUS
<1>5. g[{}] = 0 /\ h[{}] = 0
  BY DEF Sums
<1>6. \A s \in SUBSET S : s # {} => /\ g[s] = w[AnyOf(s)] + g[s \ {AnyOf(s)}]
                                    /\ h[s] = w[AnyOf(s)] + h[s \ {AnyOf(s)}]
  <2>1. \A s \in SUBSET S : s # {} => /\ g[s] = w[AnyOf(s)] + g[s \ {AnyOf(s)}]
                                      /\ h[s] = v[AnyOf(s)] + h[s \ {AnyOf(s)}]
    BY <1>4 DEF Sums
  <2>2. \A s \in SUBSET S : s # {} => w[AnyOf(s)] = v[AnyOf(s)]
    BY <1>3
  <2> QED
    BY <2>1, <2>2
<1>7. 0 \in Good
  <2>1. \A s \in SUBSET S : Cardinality(s) <= 0 => s = {}
    BY <1>1, <1>2
  <2> QED
    BY <2>1, <1>5
<1>8. ASSUME NEW n \in Nat, n \in Good
      PROVE  n + 1 \in Good
  <2> SUFFICES ASSUME NEW s \in SUBSET S, Cardinality(s) <= n + 1
               PROVE  g[s] = h[s]
    OBVIOUS
  <2>1. CASE s = {}
    BY <2>1, <1>5
  <2>2. CASE s # {}
    <3>1. s \ {AnyOf(s)} \in SUBSET S /\ Cardinality(s \ {AnyOf(s)}) <= n
      <4>1. Cardinality(s) \in Nat
        BY <1>1
      <4>2. Cardinality(s \ {AnyOf(s)}) = Cardinality(s) - 1
        BY <1>3, <2>2
      <4>3. s \ {AnyOf(s)} \in SUBSET S
        OBVIOUS
      <4> HIDE DEF Good
      <4> QED
        BY <4>1, <4>2, <4>3
    <3>2. g[s \ {AnyOf(s)}] = h[s \ {AnyOf(s)}]
      BY <3>1, <1>8
    <3> QED
      BY <3>2, <1>6, <2>2
  <2> QED
    BY <2>1, <2>2
<1>9. \A n \in Nat : n \in Good
  <2> HIDE DEF Good
  <2> QED
    BY <1>7, <1>8, EveryNatural
<1> QED
  BY <1>9, <1>1

LEMMA TotalIs ==
    \A w, S : IsFiniteSet(S) /\ Naturals(w, S) =>
        \E g \in [SUBSET S -> Nat] : Sums(w, S, g) /\ Total(w, S) = g[S]
<1> SUFFICES ASSUME NEW w, NEW S, IsFiniteSet(S), Naturals(w, S)
             PROVE  \E g \in [SUBSET S -> Nat] : Sums(w, S, g) /\ Total(w, S) = g[S]
  OBVIOUS
<1> DEFINE g == CHOOSE f : Sums(w, S, f)
<1>2. PICK f \in [SUBSET S -> Nat] : Sums(w, S, f)
  BY SumsExist
<1>3. Sums(w, S, g)
  BY <1>2
<1>4. Total(w, S) = g[S]
  BY DEF Total
<1> HIDE DEF g
<1>5. S \subseteq S
  OBVIOUS
<1>6. \A s \in SUBSET S : g[s] = f[s]
  BY <1>2, <1>3, <1>5, OneSum
<1>7. g = [s \in SUBSET S |-> g[s]]
  BY <1>3 DEF Sums
<1>8. g \in [SUBSET S -> Nat]
  BY <1>6, <1>7
<1> QED
  BY <1>3, <1>4, <1>8

\* A sum of numbers is a number, none of nothing.
LEMMA TotalType ==
    \A w, S : IsFiniteSet(S) /\ Naturals(w, S) =>
        /\ Total(w, S) \in Nat
        /\ S = {} => Total(w, S) = 0
<1> SUFFICES ASSUME NEW w, NEW S, IsFiniteSet(S), Naturals(w, S)
             PROVE  Total(w, S) \in Nat /\ (S = {} => Total(w, S) = 0)
  OBVIOUS
<1>1. PICK g \in [SUBSET S -> Nat] : Sums(w, S, g) /\ Total(w, S) = g[S]
  BY TotalIs
<1>2. S \in SUBSET S
  OBVIOUS
<1>3. g[{}] = 0
  BY <1>1 DEF Sums
<1> QED
  BY <1>1, <1>2, <1>3

\* The fold takes out one member.
LEMMA TotalFirst ==
    \A w, S : IsFiniteSet(S) /\ Naturals(w, S) /\ S # {} =>
        Total(w, S) = w[AnyOf(S)] + Total(w, S \ {AnyOf(S)})
<1> SUFFICES ASSUME NEW w, NEW S, IsFiniteSet(S), Naturals(w, S), S # {}
             PROVE  Total(w, S) = w[AnyOf(S)] + Total(w, S \ {AnyOf(S)})
  OBVIOUS
<1> DEFINE T == S \ {AnyOf(S)}
<1>1. IsFiniteSet(T) /\ Naturals(w, T) /\ T \subseteq S
  BY FS_Subset DEF Naturals
<1> HIDE DEF T
<1>2. PICK g \in [SUBSET S -> Nat] : Sums(w, S, g) /\ Total(w, S) = g[S]
  BY TotalIs
<1>3. PICK h \in [SUBSET T -> Nat] : Sums(w, T, h) /\ Total(w, T) = h[T]
  BY TotalIs, <1>1
<1>4. h[T] = g[T]
  BY <1>1, <1>2, <1>3, OneSum
<1>5. g[S] = w[AnyOf(S)] + g[S \ {AnyOf(S)}]
  <2>1. S \in SUBSET S
    OBVIOUS
  <2> QED
    BY <1>2, <2>1 DEF Sums
<1> QED
  BY <1>2, <1>3, <1>4, <1>5 DEF T

\* AnyOf member may be taken out first.
LEMMA TotalAny ==
    \A w, S : IsFiniteSet(S) /\ Naturals(w, S) =>
        \A x \in S : Total(w, S) = w[x] + Total(w, S \ {x})
<1> DEFINE Holds(w, S) == \A x \in S : Total(w, S) = w[x] + Total(w, S \ {x})
<1> DEFINE Good == {n \in Nat : \A w, S : IsFiniteSet(S) /\ Naturals(w, S) /\ Cardinality(S) <= n
                                             => Holds(w, S)}
<1>1. 0 \in Good
  <2>1. ASSUME NEW S, IsFiniteSet(S), Cardinality(S) <= 0
        PROVE  S = {}
    BY <2>1, FS_EmptySet, FS_CardinalityType
  <2> QED
    BY <2>1
<1>2. ASSUME NEW n \in Nat, n \in Good
      PROVE  n + 1 \in Good
  <2> SUFFICES ASSUME NEW w, NEW S, IsFiniteSet(S), Naturals(w, S), Cardinality(S) <= n + 1,
                      NEW x \in S
               PROVE  Total(w, S) = w[x] + Total(w, S \ {x})
    OBVIOUS
  <2> DEFINE c == AnyOf(S)
  <2>1. c \in S
    BY DEF AnyOf
  <2>2. Total(w, S) = w[c] + Total(w, S \ {c})
    BY TotalFirst
  <2> HIDE DEF c
  <2>3. ASSUME NEW y \in S
        PROVE  /\ IsFiniteSet(S \ {y}) /\ Naturals(w, S \ {y}) /\ Cardinality(S \ {y}) <= n
               /\ IsFiniteSet((S \ {c}) \ {y}) /\ Naturals(w, (S \ {c}) \ {y})
    <3>1. IsFiniteSet(S \ {y}) /\ Cardinality(S \ {y}) = Cardinality(S) - 1
      BY FS_RemoveElement
    <3>2. IsFiniteSet((S \ {c}) \ {y})
      BY FS_Subset
    <3>3. Cardinality(S) \in Nat
      BY FS_CardinalityType
    <3> QED
      BY <3>1, <3>2, <3>3 DEF Naturals
  <2>4. CASE x = c
    BY <2>2, <2>4
  <2>5. CASE x # c
    <3>1. Total(w, S \ {c}) = w[x] + Total(w, (S \ {c}) \ {x})
      <4>1. Holds(w, S \ {c})
        BY <1>2, <2>1, <2>3
      <4> QED
        BY <4>1, <2>5
    <3>2. Total(w, S \ {x}) = w[c] + Total(w, (S \ {x}) \ {c})
      <4>1. Holds(w, S \ {x})
        BY <1>2, <2>3
      <4> QED
        BY <4>1, <2>1, <2>5
    <3>3. (S \ {c}) \ {x} = (S \ {x}) \ {c}
      OBVIOUS
    <3>4. w[x] \in Nat /\ w[c] \in Nat /\ Total(w, (S \ {c}) \ {x}) \in Nat
      BY <2>1, <2>3, TotalType DEF Naturals
    <3> DEFINE rest == Total(w, (S \ {c}) \ {x})
    <3>5. /\ Total(w, S) = w[c] + (w[x] + rest)
          /\ w[x] + Total(w, S \ {x}) = w[x] + (w[c] + rest)
          /\ rest \in Nat
      BY <2>2, <3>1, <3>2, <3>3, <3>4
    <3> HIDE DEF rest
    <3> QED
      BY <3>4, <3>5
  <2> QED
    BY <2>4, <2>5
<1>3. \A n \in Nat : n \in Good
  <2> HIDE DEF Good
  <2> QED
    BY <1>1, <1>2, EveryNatural
<1>4. \A S : IsFiniteSet(S) => Cardinality(S) \in Nat
  BY FS_CardinalityType
<1> QED
  BY <1>3, <1>4

\* The sum looks at the numbers over the set only.
LEMMA TotalSame ==
    \A w, v, S : IsFiniteSet(S) /\ Naturals(w, S) /\ (\A x \in S : w[x] = v[x]) =>
        Total(w, S) = Total(v, S)
<1> SUFFICES ASSUME NEW w, NEW v, NEW S, IsFiniteSet(S), Naturals(w, S), \A x \in S : w[x] = v[x]
             PROVE  Total(w, S) = Total(v, S)
  OBVIOUS
<1>1. Naturals(v, S) /\ S \subseteq S /\ S \in SUBSET S
  BY DEF Naturals
<1>2. PICK g \in [SUBSET S -> Nat] : Sums(w, S, g) /\ Total(w, S) = g[S]
  BY TotalIs
<1>3. PICK h \in [SUBSET S -> Nat] : Sums(v, S, h) /\ Total(v, S) = h[S]
  BY <1>1, TotalIs
<1>4. \A s \in SUBSET S : g[s] = h[s]
  BY <1>1, <1>2, <1>3, OneSum
<1> QED
  BY <1>1, <1>2, <1>3, <1>4

\* One member more.
LEMMA TotalMore ==
    \A w, S, x : IsFiniteSet(S) /\ Naturals(w, S \union {x}) /\ x \notin S =>
        Total(w, S \union {x}) = w[x] + Total(w, S)
<1> SUFFICES ASSUME NEW w, NEW S, NEW x, IsFiniteSet(S), Naturals(w, S \union {x}), x \notin S
             PROVE  Total(w, S \union {x}) = w[x] + Total(w, S)
  OBVIOUS
<1>1. IsFiniteSet(S \union {x}) /\ x \in S \union {x} /\ (S \union {x}) \ {x} = S
  BY FS_AddElement
<1> QED
  BY <1>1, TotalAny

\* The same with the terms the other way round, as the folds of the modules have them.
SumsTurned(w, S, g) ==
    g = [s \in SUBSET S |-> IF s = {} THEN 0 ELSE g[s \ {AnyOf(s)}] + w[AnyOf(s)]]

LEMMA TurnedExist ==
    \A w, S : IsFiniteSet(S) /\ Naturals(w, S) => \E g : SumsTurned(w, S, g)
<1> SUFFICES ASSUME NEW w, NEW S, IsFiniteSet(S), Naturals(w, S) PROVE \E g : SumsTurned(w, S, g)
  OBVIOUS
<1>1. PICK g \in [SUBSET S -> Nat] : Sums(w, S, g)
  BY SumsExist
<1>2. ASSUME NEW s \in SUBSET S, s # {}
      PROVE  w[AnyOf(s)] + g[s \ {AnyOf(s)}] = g[s \ {AnyOf(s)}] + w[AnyOf(s)]
  <2>1. AnyOf(s) \in S
    BY <1>2 DEF AnyOf
  <2>2. w[AnyOf(s)] \in Nat /\ g[s \ {AnyOf(s)}] \in Nat
    BY <2>1 DEF Naturals
  <2> QED
    BY <2>2
<1>3. SumsTurned(w, S, g)
  BY <1>1, <1>2 DEF Sums, SumsTurned
<1> QED
  BY <1>3

LEMMA TurnedIs ==
    \A w, S, h : IsFiniteSet(S) /\ Naturals(w, S) /\ SumsTurned(w, S, h) => h[S] = Total(w, S)
<1> SUFFICES ASSUME NEW w, NEW S, NEW h, IsFiniteSet(S), Naturals(w, S), SumsTurned(w, S, h)
             PROVE  h[S] = Total(w, S)
  OBVIOUS
<1>1. PICK g \in [SUBSET S -> Nat] : Sums(w, S, g) /\ Total(w, S) = g[S]
  BY TotalIs
<1> DEFINE Good == {n \in Nat : \A s \in SUBSET S : Cardinality(s) <= n => g[s] = h[s]}
<1>2. \A s \in SUBSET S : IsFiniteSet(s) /\ Cardinality(s) \in Nat
  BY FS_Subset, FS_CardinalityType
<1>3. \A s \in SUBSET S : s # {} =>
         AnyOf(s) \in s /\ Cardinality(s \ {AnyOf(s)}) = Cardinality(s) - 1
  BY <1>2, FS_RemoveElement DEF AnyOf
<1>4. g[{}] = 0 /\ h[{}] = 0
  BY <1>1 DEF Sums, SumsTurned
<1>5. \A s \in SUBSET S : s # {} => /\ g[s] = w[AnyOf(s)] + g[s \ {AnyOf(s)}]
                                    /\ h[s] = h[s \ {AnyOf(s)}] + w[AnyOf(s)]
                                    /\ w[AnyOf(s)] \in Nat /\ g[s \ {AnyOf(s)}] \in Nat
  <2>1. \A s \in SUBSET S : s # {} => /\ g[s] = w[AnyOf(s)] + g[s \ {AnyOf(s)}]
                                      /\ h[s] = h[s \ {AnyOf(s)}] + w[AnyOf(s)]
    BY <1>1 DEF Sums, SumsTurned
  <2>2. \A s \in SUBSET S : s # {} => w[AnyOf(s)] \in Nat /\ s \ {AnyOf(s)} \in SUBSET S
    BY <1>3 DEF Naturals
  <2> QED
    BY <2>1, <2>2
<1>6. 0 \in Good
  <2>1. \A s \in SUBSET S : Cardinality(s) <= 0 => s = {}
    BY <1>2, FS_EmptySet
  <2> QED
    BY <2>1, <1>4
<1>7. ASSUME NEW n \in Nat, n \in Good PROVE n + 1 \in Good
  <2> SUFFICES ASSUME NEW s \in SUBSET S, Cardinality(s) <= n + 1 PROVE g[s] = h[s]
    OBVIOUS
  <2>1. CASE s = {}
    BY <2>1, <1>4
  <2>2. CASE s # {}
    <3>1. s \ {AnyOf(s)} \in SUBSET S /\ Cardinality(s \ {AnyOf(s)}) <= n
      <4>1. Cardinality(s) \in Nat
        BY <1>2
      <4>2. Cardinality(s \ {AnyOf(s)}) = Cardinality(s) - 1
        BY <1>3, <2>2
      <4>3. s \ {AnyOf(s)} \in SUBSET S
        OBVIOUS
      <4> HIDE DEF Good
      <4> QED
        BY <4>1, <4>2, <4>3
    <3>2. g[s \ {AnyOf(s)}] = h[s \ {AnyOf(s)}]
      BY <3>1, <1>7
    <3> QED
      BY <3>2, <1>5, <2>2
  <2> QED
    BY <2>1, <2>2
<1>8. \A n \in Nat : n \in Good
  <2> HIDE DEF Good
  <2> QED
    BY <1>6, <1>7, EveryNatural
<1>9. S \in SUBSET S /\ Cardinality(S) \in Good
  BY <1>2, <1>8
<1> QED
  BY <1>1, <1>2, <1>9

LEMMA RatingsAddUp ==
    ASSUME NEW C, IsFiniteSet(C), NEW of, \A v \in C : of[v].rating \in Nat
    PROVE  Reviewing!RatingSum(of, C) = Total([v \in C |-> of[v].rating], C)
<1> DEFINE w == [v \in C |-> of[v].rating]
           h == CHOOSE f : f = [s \in SUBSET C |->
                   IF s = {} THEN 0
                   ELSE f[s \ {CHOOSE x \in s : TRUE}] + of[CHOOSE x \in s : TRUE].rating]
<1>1. Reviewing!RatingSum(of, C) = h[C]
  BY DEF Reviewing!RatingSum, Reviewing!FoldSet, Reviewing!MapThenFoldSet
<1>2. Naturals(w, C)
  BY DEF Naturals
<1>3. \A s \in SUBSET C : s # {} => w[AnyOf(s)] = of[CHOOSE x \in s : TRUE].rating
  BY DEF AnyOf
<1> HIDE DEF w
<1>4. \A f : SumsTurned(w, C, f) <=> f = [s \in SUBSET C |->
                   IF s = {} THEN 0
                   ELSE f[s \ {CHOOSE x \in s : TRUE}] + of[CHOOSE x \in s : TRUE].rating]
  BY <1>3 DEF SumsTurned, AnyOf
<1>5. \E f : f = [s \in SUBSET C |->
                   IF s = {} THEN 0
                   ELSE f[s \ {CHOOSE x \in s : TRUE}] + of[CHOOSE x \in s : TRUE].rating]
  <2>1. PICK f : SumsTurned(w, C, f)
    BY <1>2, TurnedExist
  <2>2. f = [s \in SUBSET C |->
               IF s = {} THEN 0
               ELSE f[s \ {CHOOSE x \in s : TRUE}] + of[CHOOSE x \in s : TRUE].rating]
    BY <2>1, <1>4
  <2> QED
    BY <2>2
<1>6. h = [s \in SUBSET C |->
                   IF s = {} THEN 0
                   ELSE h[s \ {CHOOSE x \in s : TRUE}] + of[CHOOSE x \in s : TRUE].rating]
  BY <1>5
<1> HIDE DEF h
<1>7. SumsTurned(w, C, h)
  BY <1>4, <1>6
<1> QED
  BY <1>1, <1>2, <1>7, TurnedIs DEF w

\* A sum is at most so many times the greatest number.
LEMMA TotalBelow ==
    ASSUME NEW w, NEW S, IsFiniteSet(S), Naturals(w, S), NEW m \in Nat, \A x \in S : w[x] <= m
    PROVE  Total(w, S) <= m * Cardinality(S)
<1> DEFINE G == {s \in SUBSET S : Total(w, s) <= m * Cardinality(s)}
<1>1. {} \in G
  <2>1. Total(w, {}) = 0 /\ Cardinality({}) = 0
    BY TotalType, FS_EmptySet DEF Naturals
  <2> QED
    BY <2>1
<1>2. ASSUME NEW s \in G, NEW x \in S \ s PROVE s \union {x} \in G
  <2>1. /\ IsFiniteSet(s) /\ Naturals(w, s) /\ Naturals(w, s \union {x}) /\ w[x] \in Nat
        /\ s \union {x} \in SUBSET S
    BY <1>2, FS_Subset DEF Naturals
  <2>2. Total(w, s \union {x}) = w[x] + Total(w, s)
    BY <1>2, <2>1, TotalMore
  <2>3. Cardinality(s \union {x}) = Cardinality(s) + 1 /\ Cardinality(s) \in Nat
    BY <1>2, <2>1, FS_AddElement, FS_CardinalityType
  <2>4. Total(w, s) \in Nat
    BY <2>1, TotalType
  <2>5. w[x] <= m /\ Total(w, s) <= m * Cardinality(s)
    BY <1>2
  <2>6. \A k \in Nat : m * (k + 1) = m * k + m /\ m * k \in Nat
    OBVIOUS
  <2>7. m * Cardinality(s \union {x}) = m * Cardinality(s) + m /\ m * Cardinality(s) \in Nat
    BY <2>3, <2>6
  <2>8. Total(w, s \union {x}) <= m * Cardinality(s \union {x})
    BY <2>1, <2>2, <2>4, <2>5, <2>7
  <2> QED
    BY <2>1, <2>8
<1>3. S \in G
  <2> HIDE DEF G
  <2> QED
    BY <1>1, <1>2, EveryFiniteSet
<1> QED
  BY <1>3

\* Nor is the average, in tenths and rounded.
LEMMA AverageBelow ==
    ASSUME NEW m \in Nat, NEW c \in Nat, c # 0, NEW sum \in Nat, sum <= m * c
    PROVE  Reviewing!Rounded(sum, c) \in 0 .. 10 * m
<1> DEFINE b == 2 * c
           a == 20 * sum + c
           q == a \div b
<1>1. b \in Nat /\ b > 0 /\ a \in Nat
  OBVIOUS
<1>2. q \in Nat /\ b * q <= a
  <2>1. \A k \in Nat, l \in Nat : l > 0 => k \div l \in Nat /\ l * (k \div l) <= k
    OBVIOUS
  <2> HIDE DEF a, b
  <2> QED
    BY <1>1, <2>1
<1> HIDE DEF q
<1>3. a < b * (10 * m + 1)
  <2>1. b * (10 * m + 1) = 20 * (m * c) + 2 * c
    OBVIOUS
  <2>2. m * c \in Nat
    OBVIOUS
  <2> QED
    BY <2>1, <2>2
<1>4. ~ (q >= 10 * m + 1)
  <2>1. \A k, l, n \in Nat : k >= l => n * k >= n * l
    OBVIOUS
  <2>2. 10 * m + 1 \in Nat
    OBVIOUS
  <2>3. b * q \in Nat /\ b * (10 * m + 1) \in Nat
    BY <1>1, <1>2, <2>2
  <2> HIDE DEF a, b
  <2>4. q >= 10 * m + 1 => b * q >= b * (10 * m + 1)
    BY <1>1, <1>2, <2>1, <2>2
  <2> QED
    BY <1>1, <1>2, <1>3, <2>3, <2>4
<1>5. Reviewing!Rounded(sum, c) = q
  BY DEF Reviewing!Rounded, q
<1> QED
  BY <1>2, <1>4, <1>5

\* A finite set of numbers has a greatest.
LEMMA BestOf ==
    ASSUME NEW S \in SUBSET Nat, IsFiniteSet(S), S # {}
    PROVE  Reviewing!Max(S) \in S /\ \A y \in S : y <= Reviewing!Max(S)
<1> DEFINE G == {s \in SUBSET S : s = {} \/ \E m \in s : \A y \in s : y <= m}
<1>1. {} \in G
  OBVIOUS
<1>2. ASSUME NEW s \in G, NEW x \in S \ s PROVE s \union {x} \in G
  <2>1. CASE s = {}
    BY <2>1
  <2>2. CASE s # {}
    <3>1. PICK m \in s : \A y \in s : y <= m
      BY <2>2
    <3>2. m \in Nat /\ x \in Nat /\ s \subseteq Nat
      OBVIOUS
    <3>3. CASE x <= m
      BY <3>1, <3>3
    <3>4. CASE m <= x
      <4>1. \A y \in s \union {x} : y <= x
        BY <3>1, <3>2, <3>4
      <4> QED
        BY <4>1
    <3> QED
      BY <3>2, <3>3, <3>4
  <2> QED
    BY <2>1, <2>2
<1>3. S \in G
  <2> HIDE DEF G
  <2> QED
    BY <1>1, <1>2, EveryFiniteSet
<1>4. \E m \in S : \A y \in S : m >= y
  BY <1>3
<1> QED
  BY <1>4 DEF Reviewing!Max

-----------------------------------------------------------------------------
(* Types of the parts that are not part of their invariants.               *)

ReviewRequest ==
    [pc : Reviewing!Labels, v : Ids \union {None}, rating : Ratings,
     status : Reviewing!ReviewStatus, counts : {"live", "approved"}, alone : BOOLEAN,
     result : Reviewing!Result]

LEMMA NoRating == ASSUME RatingAssumptions PROVE Reviewing!NoResult \in Reviewing!Result
<1>1. Reviewing!Max(Ratings) \in Nat
  BY BestOf DEF RatingAssumptions
<1>2. Reviewing!Cardinality(Ids) \in Nat
  BY SameReviewCardinality, FS_CardinalityType DEF RatingAssumptions
<1> QED
  BY <1>1, <1>2 DEF Reviewing!NoResult, Reviewing!Result

LEMMA RatingIs ==
    ASSUME RatingAssumptions, NEW of \in [Ids -> Reviewing!ReviewRow \union {None}], NEW which
    PROVE  Rating(of, which) \in Reviewing!Result
<1> DEFINE C == Reviewing!Counted(of, which)
           best == Reviewing!Max(Ratings)
           w == [v \in C |-> of[v].rating]
<1>1. C \subseteq Ids /\ \A v \in C : of[v].rating \in Ratings
  BY DEF Reviewing!Counted, Reviewing!ReviewRow
<1>2. best \in Nat /\ \A n \in Ratings : n \in Nat /\ n <= best
  BY BestOf DEF RatingAssumptions
<1>3. Rating(of, which) = [rating |-> Reviewing!Rounded(Reviewing!RatingSum(of, C), Cardinality(C)),
                           count |-> Cardinality(C)]
  BY SameReviewCardinality DEF Rating, Reviewing!AggregateOf
<1> HIDE DEF C, best
<1>4. /\ IsFiniteSet(C) /\ Cardinality(C) \in Nat /\ Cardinality(Ids) \in Nat
      /\ Cardinality(C) <= Cardinality(Ids)
  BY <1>1, FS_Subset, FS_CardinalityType DEF RatingAssumptions
<1>5. Naturals(w, C) /\ \A v \in C : w[v] <= best
  BY <1>1, <1>2 DEF Naturals
<1>6. \A v \in C : of[v].rating \in Nat
  BY <1>1, <1>2
<1>7. Reviewing!RatingSum(of, C) = Total(w, C)
  BY <1>4, <1>6, RatingsAddUp
<1> HIDE DEF w
<1>8. Total(w, C) \in Nat /\ Total(w, C) <= best * Cardinality(C)
  BY <1>2, <1>4, <1>5, TotalType, TotalBelow
<1>9. Reviewing!Rounded(Total(w, C), Cardinality(C)) \in 0 .. 10 * best
  <2>1. CASE Cardinality(C) = 0
    BY <1>2, <2>1 DEF Reviewing!Rounded
  <2>2. CASE Cardinality(C) # 0
    BY <1>2, <1>4, <1>8, <2>2, AverageBelow
  <2> QED
    BY <2>1, <2>2
<1>10. Cardinality(C) \in 0 .. Cardinality(Ids) /\ Reviewing!Cardinality(Ids) = Cardinality(Ids)
  BY <1>4, SameReviewCardinality
<1> QED
  BY <1>3, <1>7, <1>9, <1>10 DEF Reviewing!Result, best

LEMMA IdleReviewTyped ==
    ASSUME RatingAssumptions PROVE Reviewing!Idle \in ReviewRequest
<1>1. (CHOOSE n \in Ratings : TRUE) \in Ratings
  BY DEF RatingAssumptions
<1> QED
  BY <1>1, NoRating DEF Reviewing!Idle, ReviewRequest, Reviewing!Labels, Reviewing!ReviewStatus

LEMMA ReviewTypeIs ==
    Reviewing!TypeOK <=>
        /\ review \in [Ids -> Reviewing!ReviewRow \union {None}] /\ cached \in Reviewing!Result
        /\ reviewReq \in [Requests -> ReviewRequest] /\ settled \in {"live", "approved", "unknown"}
BY DEF Reviewing!TypeOK, ReviewRequest

LEMMA ReviewInitTyped ==
    ASSUME RatingAssumptions, Reviewing!Init PROVE Reviewing!TypeOK
BY NoRating, IdleReviewTyped, ReviewTypeIs DEF Reviewing!Init

LEMMA ReviewAlone ==
    ASSUME NEW x \in ReviewRequest, NEW b \in BOOLEAN
    PROVE  [x EXCEPT !.alone = b] \in ReviewRequest
BY DEF ReviewRequest

LEMMA BeginTypedReview ==
    ASSUME Reviewing!TypeOK, NEW r \in Requests, NEW record \in ReviewRequest,
           Reviewing!Begin(r, record)
    PROVE  reviewReq' \in [Requests -> ReviewRequest]
<1> DEFINE busy == \E q \in Requests : reviewReq[q].pc # "idle"
           x == [record EXCEPT !.alone = ~ busy]
           Other(q) == [reviewReq[q] EXCEPT !.alone = FALSE]
<1>1. reviewReq' = [q \in Requests |-> IF q = r THEN x ELSE Other(q)]
  BY DEF Reviewing!Begin, Reviewing!At
<1>2. x \in ReviewRequest
  <2>1. (~ busy) \in BOOLEAN
    OBVIOUS
  <2> QED
    BY <2>1, ReviewAlone
<1>3. \A q \in Requests : Other(q) \in ReviewRequest
  <2>1. \A q \in Requests : reviewReq[q] \in ReviewRequest
    BY ReviewTypeIs
  <2>2. \A y \in ReviewRequest : [y EXCEPT !.alone = FALSE] \in ReviewRequest
    BY ReviewAlone
  <2> QED
    BY <2>1, <2>2
<1> HIDE DEF x, Other
<1> QED
  BY <1>1, <1>2, <1>3

LEMMA RequestTypedReview ==
    ASSUME RatingAssumptions, Reviewing!TypeOK, NEW r \in Requests, NEW v \in Ids,
           \/ \E rating \in Ratings : \/ Reviewing!createDestinationReview(r, v, rating)
                                      \/ Reviewing!updateReview(r, v, rating)
           \/ \E status \in Reviewing!ReviewStatus : Reviewing!moderateReview(r, v, status)
           \/ Reviewing!deleteReview(r, v) \/ Reviewing!adminDeleteReview(r, v)
    PROVE  Reviewing!TypeOK'
<1>1. \A y \in ReviewRequest :
        /\ [y EXCEPT !.pc = "aggregate", !.v = v] \in ReviewRequest
        /\ \A rating \in Ratings : [y EXCEPT !.pc = "update", !.v = v, !.rating = rating] \in ReviewRequest
        /\ [y EXCEPT !.pc = "softDelete", !.v = v] \in ReviewRequest
        /\ \A status \in Reviewing!ReviewStatus :
              [y EXCEPT !.pc = "updateStatus", !.v = v, !.status = status, !.counts = "approved"]
                 \in ReviewRequest
        /\ [y EXCEPT !.pc = "hardDelete", !.v = v, !.counts = "approved"] \in ReviewRequest
  BY DEF ReviewRequest, Reviewing!Labels
<1>2. ASSUME NEW record \in ReviewRequest, Reviewing!Begin(r, record),
             review' \in [Ids -> Reviewing!ReviewRow \union {None}], cached' = cached,
             settled' = settled \/ settled' = "unknown"
      PROVE  Reviewing!TypeOK'
  <2>1. reviewReq' \in [Requests -> ReviewRequest]
    BY <1>2, BeginTypedReview
  <2>2. /\ cached' \in Reviewing!Result
        /\ settled' \in {"live", "approved", "unknown"}
    BY <1>2, ReviewTypeIs
  <2> QED
    BY <1>2, <2>1, <2>2 DEF Reviewing!TypeOK, ReviewRequest
<1>3. review \in [Ids -> Reviewing!ReviewRow \union {None}]
  BY ReviewTypeIs
<1>4. ASSUME NEW rating \in Ratings, Reviewing!createDestinationReview(r, v, rating)
      PROVE  Reviewing!TypeOK'
  <2>1. [rating |-> rating, status |-> "APPROVED", deleted |-> FALSE] \in Reviewing!ReviewRow
    BY DEF Reviewing!ReviewRow, Reviewing!ReviewStatus
  <2>2. review' \in [Ids -> Reviewing!ReviewRow \union {None}]
    BY <1>3, <1>4, <2>1 DEF Reviewing!createDestinationReview
  <2> QED
    BY <1>1, <1>2, <1>4, <2>2, IdleReviewTyped DEF Reviewing!createDestinationReview
<1>5. ASSUME NEW rating \in Ratings, Reviewing!updateReview(r, v, rating) PROVE Reviewing!TypeOK'
  BY <1>1, <1>2, <1>3, <1>5, IdleReviewTyped DEF Reviewing!updateReview
<1>6. ASSUME NEW status \in Reviewing!ReviewStatus, Reviewing!moderateReview(r, v, status)
      PROVE  Reviewing!TypeOK'
  BY <1>1, <1>2, <1>3, <1>6, IdleReviewTyped DEF Reviewing!moderateReview
<1>7. CASE Reviewing!deleteReview(r, v)
  BY <1>1, <1>2, <1>3, <1>7, IdleReviewTyped DEF Reviewing!deleteReview
<1>8. CASE Reviewing!adminDeleteReview(r, v)
  BY <1>1, <1>2, <1>3, <1>8, IdleReviewTyped DEF Reviewing!adminDeleteReview
<1> QED
  BY <1>4, <1>5, <1>6, <1>7, <1>8

LEMMA StatementTypedReview ==
    ASSUME Assumptions, RatingAssumptions, Reviewing!TypeOK, NEW r \in Requests,
           \/ Reviewing!writeReview(r) \/ Reviewing!aggregate(r)
           \/ Reviewing!writeRating(r) \/ Reviewing!Fail(r)
    PROVE  Reviewing!TypeOK'
<1>1. /\ review \in [Ids -> Reviewing!ReviewRow \union {None}] /\ cached \in Reviewing!Result
      /\ reviewReq \in [Requests -> ReviewRequest] /\ settled \in {"live", "approved", "unknown"}
      /\ reviewReq[r] \in ReviewRequest
  BY ReviewTypeIs
<1>2. CASE Reviewing!writeReview(r)
  <2> DEFINE v == reviewReq[r].v
             x == [reviewReq[r] EXCEPT !.pc = "aggregate"]
  <2>1. /\ review[v] # None /\ review' = [review EXCEPT ![v] = Reviewing!Written(r)]
        /\ reviewReq[r].pc \in {"update", "softDelete", "updateStatus", "hardDelete"}
        /\ cached' = cached /\ settled' = "unknown"
        /\ reviewReq' = [reviewReq EXCEPT ![r] = x]
    BY <1>2 DEF Reviewing!writeReview, Reviewing!Row, Reviewing!Goto
  <2>2. x \in ReviewRequest
    BY <1>1 DEF ReviewRequest, Reviewing!Labels
  <2>3. v \in Ids => Reviewing!Written(r) \in Reviewing!ReviewRow \union {None}
    <3>1. SUFFICES ASSUME v \in Ids PROVE Reviewing!Written(r) \in Reviewing!ReviewRow \union {None}
      OBVIOUS
    <3>2. review[v] \in Reviewing!ReviewRow
      BY <1>1, <2>1, <3>1
    <3>3. /\ [review[v] EXCEPT !.rating = reviewReq[r].rating] \in Reviewing!ReviewRow
          /\ [review[v] EXCEPT !.deleted = TRUE] \in Reviewing!ReviewRow
          /\ [review[v] EXCEPT !.status = reviewReq[r].status] \in Reviewing!ReviewRow
      BY <1>1, <3>2 DEF Reviewing!ReviewRow, ReviewRequest
    <3> QED
      BY <2>1, <3>3 DEF Reviewing!Written, Reviewing!At
  <2> HIDE DEF x
  <2>4. review' \in [Ids -> Reviewing!ReviewRow \union {None}]
    BY <1>1, <2>1, <2>3
  <2>5. reviewReq' \in [Requests -> ReviewRequest]
    BY <1>1, <2>1, <2>2
  <2> QED
    BY <1>1, <2>1, <2>4, <2>5 DEF Reviewing!TypeOK, ReviewRequest
<1>3. CASE Reviewing!aggregate(r)
  <2> DEFINE found == Rating(review, reviewReq[r].counts)
             x == [reviewReq[r] EXCEPT !.pc = "write", !.result = found]
  <2>1. /\ UNCHANGED <<review, cached, settled>> /\ reviewReq' = [reviewReq EXCEPT ![r] = x]
    BY <1>3 DEF Reviewing!aggregate, Reviewing!Aggregate, Rating
  <2>2. found \in Reviewing!Result
    BY <1>1, RatingIs
  <2> HIDE DEF found
  <2>3. x \in ReviewRequest
    BY <1>1, <2>2 DEF ReviewRequest, Reviewing!Labels
  <2> HIDE DEF x
  <2>4. reviewReq' \in [Requests -> ReviewRequest]
    BY <1>1, <2>1, <2>3
  <2> QED
    BY <1>1, <2>1, <2>4 DEF Reviewing!TypeOK, ReviewRequest
<1>4. ASSUME Reviewing!Return(r), review' = review, cached' = cached \/ cached' = reviewReq[r].result,
             settled' \in {settled, reviewReq[r].counts, "unknown"}
      PROVE  Reviewing!TypeOK'
  <2>1. reviewReq' \in [Requests -> ReviewRequest]
    BY <1>1, <1>4, IdleReviewTyped DEF Reviewing!Return
  <2>2. reviewReq[r].result \in Reviewing!Result /\ reviewReq[r].counts \in {"live", "approved"}
    BY <1>1 DEF ReviewRequest
  <2> QED
    BY <1>1, <1>4, <2>1, <2>2 DEF Reviewing!TypeOK, ReviewRequest
<1>5. CASE Reviewing!writeRating(r)
  BY <1>4, <1>5 DEF Reviewing!writeRating
<1>6. CASE Reviewing!Fail(r)
  BY <1>4, <1>6 DEF Reviewing!Fail
<1> QED
  BY <1>2, <1>3, <1>5, <1>6

LEMMA ReviewsAreTyped ==
    ASSUME Assumptions, RatingAssumptions, Reviewing!TypeOK, Reviewing!Next PROVE Reviewing!TypeOK'
<1>1. ASSUME NEW v \in Ids, Reviewing!hardDeleteUser(v) PROVE Reviewing!TypeOK'
  <2> DEFINE Other(q) == [reviewReq[q] EXCEPT !.alone = FALSE]
  <2>1. /\ review' = [review EXCEPT ![v] = None] /\ settled' = "unknown" /\ cached' = cached
        /\ reviewReq' = [q \in Requests |-> Other(q)]
    BY <1>1 DEF Reviewing!hardDeleteUser
  <2>2. \A q \in Requests : Other(q) \in ReviewRequest
    <3>1. \A q \in Requests : reviewReq[q] \in ReviewRequest
      BY ReviewTypeIs
    <3>2. \A y \in ReviewRequest : [y EXCEPT !.alone = FALSE] \in ReviewRequest
      BY ReviewAlone
    <3> QED
      BY <3>1, <3>2
  <2> HIDE DEF Other
  <2>3. reviewReq' \in [Requests -> ReviewRequest]
    BY <2>1, <2>2
  <2>4. review' \in [Ids -> Reviewing!ReviewRow \union {None}] /\ cached \in Reviewing!Result
    BY <2>1, ReviewTypeIs
  <2> QED
    BY <2>1, <2>3, <2>4 DEF Reviewing!TypeOK, ReviewRequest
<1> QED
  BY <1>1, RequestTypedReview, StatementTypedReview DEF Reviewing!Next

LEMMA ReviewTypeStutters ==
    ASSUME Reviewing!TypeOK, UNCHANGED reviewsVars PROVE Reviewing!TypeOK'
BY DEF Reviewing!TypeOK, reviewsVars

\* What is left of favorites is of the type they had.
LEMMA KeptStatus ==
    ASSUME FavoritesInv, Favoring!TypeOK, NEW t \in Targets
    PROVE  Favoring!Without(t) \in Seq({x \in Targets : target[x] # "gone" /\ x # t})
<1> DEFINE rest == Favoring!Without(t)
<1>1. /\ rest \in Seq(Targets)
      /\ \A x : (\E k \in 1 .. Len(rest) : rest[k] = x) <=> x # t /\ Favoring!getFavoriteStatus(x)
  BY WithoutIs
<1>2. \A x : Favoring!getFavoriteStatus(x) => x \in Targets /\ target[x] # "gone"
  <2>1. favorite \in Seq({x \in Targets : target[x] # "gone"}) /\ favorite \in Seq(Targets)
    BY DEF Favoring!TypeOK, FavoritesInv
  <2> QED
    BY <2>1, StatusIs
<1> HIDE DEF rest
<1>3. \A k \in 1 .. Len(rest) : rest[k] \in {x \in Targets : target[x] # "gone" /\ x # t}
  BY <1>1, <1>2
<1>4. rest \in Seq({x \in Targets : target[x] # "gone" /\ x # t})
  BY <1>1, <1>3
<1> QED
  BY <1>4 DEF rest

LEMMA FavoritesTyped ==
    ASSUME ListAssumptions, FavoritesInv, FavoritesInv', Favoring!TypeOK, Favoring!Next
    PROVE  Favoring!TypeOK'
<1>1. /\ favorite \in Seq({x \in Targets : target[x] # "gone"})
      /\ target \in [Targets -> Favoring!TargetStatus]
      /\ favoriteReq \in [Requests -> [pc : {"idle", "create", "delete"}, t : Targets]]
      /\ balance \in [Targets -> Int]
  BY DEF Favoring!TypeOK
<1>2. Favoring!Idle \in [pc : {"idle", "create", "delete"}, t : Targets]
  BY DEF Favoring!Idle, ListAssumptions
<1>3. ASSUME NEW r \in Requests, NEW t \in Targets, NEW pc \in {"create", "delete"},
             Favoring!Begin(r, t, pc)
      PROVE  Favoring!TypeOK'
  BY <1>1, <1>3 DEF Favoring!Begin, Favoring!TypeOK
<1>4. ASSUME NEW r \in Requests, NEW t \in Targets,
             \/ Favoring!addFavorite(r, t) \/ Favoring!removeFavorite(r, t)
             \/ Favoring!toggleFavorite(r, t)
             \/ Favoring!addAccommodationFavorite(r, t) \/ Favoring!removeAccommodationFavorite(r, t)
             \/ Favoring!toggleAccommodationFavorite(r, t)
             \/ Favoring!addRestaurantFavorite(r, t) \/ Favoring!removeRestaurantFavorite(r, t)
             \/ Favoring!toggleRestaurantFavorite(r, t)
      PROVE  Favoring!TypeOK'
  <2>1. Favoring!Adding(r, t) \/ Favoring!Removing(r, t)
    BY <1>4 DEF Favoring!addFavorite, Favoring!removeFavorite, Favoring!toggleFavorite,
        Favoring!addAccommodationFavorite, Favoring!removeAccommodationFavorite,
        Favoring!toggleAccommodationFavorite, Favoring!addRestaurantFavorite,
        Favoring!removeRestaurantFavorite, Favoring!toggleRestaurantFavorite
  <2> QED
    BY <1>3, <2>1 DEF Favoring!Adding, Favoring!Removing
<1>5. ASSUME NEW r \in Requests, Favoring!create(r) PROVE Favoring!TypeOK'
  <2> DEFINE t == favoriteReq[r].t
  <2>1. t \in Targets
    BY <1>1
  <2>2. /\ favoriteReq' = [favoriteReq EXCEPT ![r] = Favoring!Idle] /\ target' = target
        /\ \/ UNCHANGED <<favorite, balance>>
           \/ /\ target[t] # "gone" /\ favorite' = <<t>> \o favorite
              /\ balance' = [balance EXCEPT ![t] = @ + 1]
    BY <1>5 DEF Favoring!create
  <2> HIDE DEF t
  <2>3. favorite' \in Seq({x \in Targets : target[x] # "gone"})
    <3> DEFINE S == {x \in Targets : target[x] # "gone"}
    <3>1. CASE target[t] # "gone" /\ favorite' = <<t>> \o favorite
      <4>1. t \in S /\ favorite \in Seq(S)
        BY <1>1, <2>1, <3>1
      <4> HIDE DEF S
      <4> DEFINE one == <<t>>
      <4>2. one \in Seq(S) /\ favorite' = one \o favorite
        BY <3>1, <4>1
      <4> HIDE DEF one
      <4>3. one \o favorite \in Seq(S)
        BY <4>1, <4>2, ConcatProperties
      <4> QED
        BY <4>2, <4>3 DEF S
    <3> QED
      BY <1>1, <2>2, <3>1
  <2>4. balance' \in [Targets -> Int]
    <3>1. balance' = balance \/ balance' = [balance EXCEPT ![t] = @ + 1]
      BY <2>2
    <3>2. balance \in [Targets -> Int] /\ balance[t] \in Int
      BY <1>1, <2>1
    <3> QED
      BY <2>1, <3>1, <3>2
  <2> QED
    BY <1>1, <1>2, <2>2, <2>3, <2>4 DEF Favoring!TypeOK
<1>6. ASSUME NEW r \in Requests, Favoring!delete(r) PROVE Favoring!TypeOK'
  <2> DEFINE t == favoriteReq[r].t
  <2>1. t \in Targets
    BY <1>1
  <2>2. /\ favoriteReq' = [favoriteReq EXCEPT ![r] = Favoring!Idle] /\ target' = target
        /\ \/ UNCHANGED <<favorite, balance>>
           \/ favorite' = Favoring!Without(t) /\ balance' = [balance EXCEPT ![t] = @ - 1]
    BY <1>6 DEF Favoring!delete
  <2> HIDE DEF t
  <2>3. favorite' \in Seq({x \in Targets : target[x] # "gone"})
    <3>1. CASE favorite' = Favoring!Without(t)
      <4>1. favorite' \in Seq({x \in Targets : target[x] # "gone" /\ x # t})
        BY <2>1, <3>1, KeptStatus
      <4>2. {x \in Targets : target[x] # "gone" /\ x # t} \subseteq {x \in Targets : target[x] # "gone"}
        OBVIOUS
      <4> QED
        BY <4>1, <4>2, WiderSeq
    <3> QED
      BY <1>1, <2>2, <3>1
  <2>4. balance' \in [Targets -> Int]
    <3>1. balance' = balance \/ balance' = [balance EXCEPT ![t] = @ - 1]
      BY <2>2
    <3>2. balance \in [Targets -> Int] /\ balance[t] \in Int
      BY <1>1, <2>1
    <3> QED
      BY <2>1, <3>1, <3>2
  <2> QED
    BY <1>1, <1>2, <2>2, <2>3, <2>4 DEF Favoring!TypeOK
<1>7. ASSUME NEW t \in Targets, NEW status \in Favoring!TargetStatus, Favoring!SetTarget(t, status)
      PROVE  Favoring!TypeOK'
  <2>1. /\ target' = [target EXCEPT ![t] = status] /\ favoriteReq' = favoriteReq
        /\ IF status = "gone" THEN favorite' = Favoring!Without(t) /\ balance' = [balance EXCEPT ![t] = 0]
                              ELSE UNCHANGED <<favorite, balance>>
    BY <1>7 DEF Favoring!SetTarget
  <2>2. \A x \in Targets : target'[x] = IF x = t THEN status ELSE target[x]
    BY <1>1, <2>1
  <2>3. favorite' \in Seq({x \in Targets : target'[x] # "gone"})
    <3>1. CASE status = "gone"
      <4>1. favorite' \in Seq({x \in Targets : target[x] # "gone" /\ x # t})
        BY <2>1, <3>1, KeptStatus
      <4>2. {x \in Targets : target[x] # "gone" /\ x # t} \subseteq {x \in Targets : target'[x] # "gone"}
        BY <2>2
      <4> QED
        BY <4>1, <4>2, WiderSeq
    <3>2. CASE status # "gone"
      <4>1. {x \in Targets : target[x] # "gone"} \subseteq {x \in Targets : target'[x] # "gone"}
        BY <2>2, <3>2
      <4> QED
        BY <1>1, <2>1, <3>2, <4>1, WiderSeq
    <3> QED
      BY <3>1, <3>2
  <2>4. balance' \in [Targets -> Int] /\ target' \in [Targets -> Favoring!TargetStatus]
    BY <1>1, <2>1
  <2> QED
    BY <1>1, <2>1, <2>3, <2>4 DEF Favoring!TypeOK
<1> QED
  BY <1>4, <1>5, <1>6, <1>7 DEF Favoring!Next

LEMMA FavoritesFirstTyped ==
    ASSUME ListAssumptions, Favoring!Init PROVE Favoring!TypeOK
<1>1. (CHOOSE t \in Targets : TRUE) \in Targets
  BY DEF ListAssumptions
<1>2. <<>> \in Seq({t \in Targets : target[t] # "gone"})
  OBVIOUS
<1>3. "PUBLISHED" \in Favoring!TargetStatus
  BY DEF Favoring!TargetStatus
<1> QED
  BY <1>1, <1>2, <1>3 DEF Favoring!Init, Favoring!TypeOK, Favoring!Idle

LEMMA FavoritesTypeStutters ==
    ASSUME Favoring!TypeOK, UNCHANGED favoritesVars PROVE Favoring!TypeOK'
BY DEF Favoring!TypeOK, favoritesVars

\* A entry stays one, whatever of it a request names.
LEMMA ExpenseNamed ==
    ASSUME NEW entry \in Records!ExpenseRow, NEW new \in Records!Partly(Records!ExpenseRow)
    PROVE  Records!Named(entry, new) \in Records!ExpenseRow
<1> DEFINE Names == {"ofTrip", "category", "amount"}
<1>1. PICK v \in Records!ExpenseRow :
          \E fields \in SUBSET (DOMAIN v \ {"ofTrip", "deleted"}) : new = [f \in fields |-> v[f]]
  BY DEF Records!Partly
<1>2. PICK fields \in SUBSET (DOMAIN v \ {"ofTrip", "deleted"}) : new = [f \in fields |-> v[f]]
  BY <1>1
<1>3. DOMAIN entry = Names
  BY DEF Records!ExpenseRow
<1>4. /\ entry.ofTrip \in BOOLEAN /\ entry.category \in ExpenseTypes /\ entry.amount \in Amounts
      /\ v.ofTrip \in BOOLEAN /\ v.category \in ExpenseTypes /\ v.amount \in Amounts
  BY DEF Records!ExpenseRow
<1> DEFINE result == [f \in Names |-> IF f \in fields THEN v[f] ELSE entry[f]]
<1>5. DOMAIN new = fields /\ \A f \in fields : new[f] = v[f]
  BY <1>2
<1>6. Records!Named(entry, new) = result
  BY <1>3, <1>5 DEF Records!Named
<1>7. result.ofTrip \in BOOLEAN /\ result.category \in ExpenseTypes /\ result.amount \in Amounts
  BY <1>4
<1>8. result = [ofTrip |-> result.ofTrip, category |-> result.category, amount |-> result.amount]
  OBVIOUS
<1> HIDE DEF result
<1> QED
  BY <1>6, <1>7, <1>8 DEF Records!ExpenseRow

LEMMA JournalNamed ==
    ASSUME NEW entry \in Records!JournalRow, NEW new \in Records!Partly(Records!JournalRow)
    PROVE  Records!Named(entry, new) \in Records!JournalRow
<1> DEFINE Names == {"isPublic", "date", "deleted"}
<1>1. PICK v \in Records!JournalRow :
          \E fields \in SUBSET (DOMAIN v \ {"ofTrip", "deleted"}) : new = [f \in fields |-> v[f]]
  BY DEF Records!Partly
<1>2. PICK fields \in SUBSET (DOMAIN v \ {"ofTrip", "deleted"}) : new = [f \in fields |-> v[f]]
  BY <1>1
<1>3. DOMAIN entry = Names
  BY DEF Records!JournalRow
<1>4. /\ entry.isPublic \in BOOLEAN /\ entry.date \in Dates /\ entry.deleted \in BOOLEAN
      /\ v.isPublic \in BOOLEAN /\ v.date \in Dates /\ v.deleted \in BOOLEAN
  BY DEF Records!JournalRow
<1> DEFINE result == [f \in Names |-> IF f \in fields THEN v[f] ELSE entry[f]]
<1>5. DOMAIN new = fields /\ \A f \in fields : new[f] = v[f]
  BY <1>2
<1>6. Records!Named(entry, new) = result
  BY <1>3, <1>5 DEF Records!Named
<1>7. result.isPublic \in BOOLEAN /\ result.date \in Dates /\ result.deleted \in BOOLEAN
  BY <1>4
<1>8. result = [isPublic |-> result.isPublic, date |-> result.date, deleted |-> result.deleted]
  OBVIOUS
<1> HIDE DEF result
<1> QED
  BY <1>6, <1>7, <1>8 DEF Records!JournalRow

\* The journals that requests are about are there, if only as deleted ones.
JournalsThere ==
    \A s \in Requests : topic = "journals" /\ inFlight[s].pc \in {"update", "delete"} =>
        journal[inFlight[s].id] # None

RequestType ==
    [pc : {"share"}, id : {None}, read : Tokens \union {None}]
        \union [pc : {"create"}, id : {None}, read : {None}]
        \union [pc : {"update", "delete"}, id : Expenses, read : Records!ExpenseRow]
        \union [pc : {"update", "delete"}, id : Journals, read : Records!JournalRow]

RecordsTyped == Records!TypeOK /\ JournalsThere

LEMMA InitTyped == ASSUME Records!Init PROVE RecordsTyped
<1>1. \A s \in Requests : inFlight[s] = Records!Idle /\ inFlight[s].pc = "idle"
  BY DEF Records!Init, Records!Idle
<1>2. /\ itinerary \in [live : BOOLEAN, shareToken : Tokens \union {None}] /\ topic \in Records!Topics
      /\ links = {} /\ clash = FALSE /\ expense = [e \in Expenses |-> None]
      /\ journal = [j \in Journals |-> None]
  BY DEF Records!Init
<1> QED
  BY <1>1, <1>2 DEF RecordsTyped, Records!TypeOK, JournalsThere

\* A request that begins has its type, and one that is about a journal finds it.
LEMMA BeginTyped ==
    ASSUME RecordsInv, RecordsTyped, NEW s \in Requests, NEW about, NEW pc, NEW id, NEW read,
           Records!Begin(s, about, pc, id, read), links' = links, clash' \in BOOLEAN,
           [pc |-> pc, id |-> id, read |-> read] \in RequestType,
           about = "journals" => journal[id] # None
    PROVE  RecordsTyped'
<1>1. /\ inFlight' = [inFlight EXCEPT ![s] = [pc |-> pc, id |-> id, read |-> read]]
      /\ topic = about /\ UNCHANGED <<topic, itinerary, expense, journal, meant>>
      /\ DOMAIN inFlight = Requests
  BY DEF Records!Begin, RecordsInv
<1>2. \A o \in Requests : inFlight'[o] = IF o = s THEN [pc |-> pc, id |-> id, read |-> read]
                                         ELSE inFlight[o]
  BY <1>1
<1>3. \A o \in Requests : inFlight'[o] = Records!Idle \/ inFlight'[o] \in RequestType
  BY <1>2 DEF RecordsTyped, Records!TypeOK, RequestType
<1>4. JournalsThere'
  BY <1>1, <1>2 DEF RecordsTyped, JournalsThere
<1> QED
  BY <1>1, <1>3, <1>4 DEF RecordsTyped, Records!TypeOK, RequestType

\* So it is when one ends and the tables keep their types.
LEMMA EndTyped ==
    ASSUME RecordsInv, RecordsTyped, UNCHANGED <<topic, clash>>,
           UNCHANGED inFlight \/ \E s \in Requests : Records!End(s),
           itinerary' \in [live : BOOLEAN, shareToken : Tokens \union {None}],
           links' \subseteq Tokens,
           expense' \in [Expenses -> Records!ExpenseRow \union {None}],
           journal' \in [Journals -> Records!JournalRow \union {None}],
           topic = "journals" => \A j \in Journals : journal[j] # None => journal'[j] # None
    PROVE  RecordsTyped'
<1>1. DOMAIN inFlight = Requests /\ RowsNamed
  BY DEF RecordsInv
<1>2. \A o \in Requests : inFlight'[o] = inFlight[o] \/ inFlight'[o] = Records!Idle
  BY <1>1 DEF Records!End
<1>3. \A o \in Requests : inFlight'[o] = Records!Idle \/ inFlight'[o] \in RequestType
  BY <1>2 DEF RecordsTyped, Records!TypeOK, RequestType
<1>4. Records!Idle.pc = "idle"
  BY DEF Records!Idle
<1>5. JournalsThere'
  BY <1>1, <1>2, <1>4 DEF RecordsTyped, JournalsThere, RowsNamed
<1> QED
  BY <1>3, <1>5 DEF RecordsTyped, Records!TypeOK, RequestType

LEMMA RecordsAreTyped ==
    ASSUME ListAssumptions, RecordsInv, RecordsTyped, RecordsInv', Records!Next
    PROVE  RecordsTyped'
<1>1. /\ itinerary \in [live : BOOLEAN, shareToken : Tokens \union {None}]
      /\ links \subseteq Tokens /\ clash \in BOOLEAN
      /\ expense \in [Expenses -> Records!ExpenseRow \union {None}]
      /\ journal \in [Journals -> Records!JournalRow \union {None}]
      /\ itinerary' \in [live : BOOLEAN, shareToken : Tokens \union {None}]
      /\ links' \subseteq Tokens /\ clash' \in BOOLEAN
  BY DEF RecordsTyped, Records!TypeOK, RecordsInv
<1>2. ASSUME NEW s \in Requests, NEW u, Records!generateShareToken(s, u) PROVE RecordsTyped'
  <2>1. Records!Begin(s, "link", "share", None, itinerary.shareToken) /\ links' = links
    BY <1>2 DEF Records!generateShareToken
  <2>2. [pc |-> "share", id |-> None, read |-> itinerary.shareToken] \in RequestType
    BY <1>1 DEF RequestType
  <2> QED
    BY <1>1, <2>1, <2>2, BeginTyped
<1>3. ASSUME NEW s \in Requests, NEW u, Records!addItineraryExpense(s, u) PROVE RecordsTyped'
  <2>1. Records!Begin(s, "expenses", "create", None, None) /\ links' = links
    BY <1>3 DEF Records!addItineraryExpense
  <2>2. [pc |-> "create", id |-> None, read |-> None] \in RequestType
    BY DEF RequestType
  <2> QED
    BY <1>1, <2>1, <2>2, BeginTyped
<1>4. ASSUME NEW s \in Requests, NEW u, NEW pc \in {"update", "delete"}, NEW e \in Expenses,
             Records!EditExpense(s, u, e, pc)
      PROVE  RecordsTyped'
  <2>1. Records!Begin(s, "expenses", pc, e, expense[e]) /\ links' = links /\ expense[e] # None
    BY <1>4 DEF Records!EditExpense
  <2>2. expense[e] \in Records!ExpenseRow
    BY <1>1, <2>1
  <2>3. [pc |-> pc, id |-> e, read |-> expense[e]] \in RequestType
    BY <2>2 DEF RequestType
  <2> QED
    BY <1>1, <2>1, <2>3, BeginTyped
<1>5. ASSUME NEW s \in Requests, NEW u, NEW pc \in {"update", "delete"}, NEW j \in Journals,
             Records!EditJournal(s, u, j, pc)
      PROVE  RecordsTyped'
  <2>1. Records!Begin(s, "journals", pc, j, journal[j]) /\ links' = links /\ journal[j] # None
    BY <1>5 DEF Records!EditJournal, Records!Exists
  <2>2. journal[j] \in Records!JournalRow
    BY <1>1, <2>1
  <2>3. [pc |-> pc, id |-> j, read |-> journal[j]] \in RequestType
    BY <2>2 DEF RequestType
  <2> QED
    BY <1>1, <2>1, <2>3, BeginTyped
<1>6. ASSUME NEW s \in Requests, Records!updateMasterData(s) PROVE RecordsTyped'
  BY <1>1, <1>6, EndTyped DEF Records!updateMasterData
<1>7. CASE Records!deleteItinerary
  BY <1>1, <1>7, EndTyped DEF Records!deleteItinerary
<1>8. ASSUME NEW e \in Expenses, NEW entry \in Records!ExpenseRow \union {None},
             Records!SetExpense(e, entry),
             UNCHANGED inFlight \/ \E s \in Requests : Records!End(s)
      PROVE  RecordsTyped'
  <2>1. expense' = [expense EXCEPT ![e] = entry] /\ UNCHANGED <<topic, clash, journal>>
    BY <1>8 DEF Records!SetExpense
  <2>2. expense' \in [Expenses -> Records!ExpenseRow \union {None}]
    BY <1>1, <2>1
  <2> QED
    BY <1>1, <1>8, <2>1, <2>2, EndTyped
<1>9. ASSUME NEW e \in Expenses, (\E s \in Requests : Records!createExpense(s, e)) \/ Records!createGeneralExpense(e)
      PROVE  RecordsTyped'
  <2>1. PICK entry \in Records!ExpenseRow : Records!CreateExpense(e, entry)
    BY <1>9 DEF Records!createExpense, Records!createGeneralExpense
  <2>2. UNCHANGED inFlight \/ \E s \in Requests : Records!End(s)
    BY <1>9 DEF Records!createExpense, Records!createGeneralExpense
  <2> QED
    BY <1>8, <2>1, <2>2 DEF Records!CreateExpense
<1>10. ASSUME NEW s \in Requests, Records!updateExpense(s) PROVE RecordsTyped'
  <2> DEFINE e == inFlight[s].id
  <2>1. e \in Expenses /\ Records!End(s)
    BY <1>10 DEF Records!updateExpense, Records!At, RecordsInv, RowsNamed
  <2>2. PICK new \in Records!Partly(Records!ExpenseRow) :
            \/ UNCHANGED <<topic, itinerary, links, clash, expense, journal, meant>>
            \/ expense[e] # None /\ Records!SetExpense(e, Records!Named(expense[e], new))
    BY <1>10 DEF Records!updateExpense
  <2> HIDE DEF e
  <2>3. CASE UNCHANGED <<topic, itinerary, links, clash, expense, journal, meant>>
    BY <1>1, <2>1, <2>3, EndTyped
  <2>4. CASE expense[e] # None /\ Records!SetExpense(e, Records!Named(expense[e], new))
    <3>1. expense[e] \in Records!ExpenseRow
      BY <1>1, <2>1, <2>4
    <3>2. Records!Named(expense[e], new) \in Records!ExpenseRow
      BY <3>1, ExpenseNamed
    <3> QED
      BY <1>8, <2>1, <2>4, <3>2
  <2> QED
    BY <2>2, <2>3, <2>4
<1>11. ASSUME NEW s \in Requests, Records!deleteExpense(s) PROVE RecordsTyped'
  <2>1. inFlight[s].id \in Expenses /\ Records!End(s)
    BY <1>11 DEF Records!deleteExpense, Records!At, RecordsInv, RowsNamed
  <2> QED
    BY <1>8, <1>11, <2>1 DEF Records!deleteExpense
<1>12. ASSUME NEW j \in Journals, NEW entry \in Records!JournalRow, Records!SetJournal(j, entry), entry # None,
              UNCHANGED inFlight \/ \E s \in Requests : Records!End(s)
       PROVE  RecordsTyped'
  <2>1. journal' = [journal EXCEPT ![j] = entry] /\ UNCHANGED <<topic, clash, expense>>
    BY <1>12 DEF Records!SetJournal
  <2>2. journal' \in [Journals -> Records!JournalRow \union {None}]
    BY <1>1, <2>1
  <2>3. \A o \in Journals : journal[o] # None => journal'[o] # None
    BY <1>1, <1>12, <2>1
  <2> QED
    BY <1>1, <1>12, <2>1, <2>2, <2>3, EndTyped
<1>13. \A entry \in Records!JournalRow : entry # None
  BY DEF ListAssumptions
<1>14. ASSUME NEW j \in Journals, Records!createJournal(j) PROVE RecordsTyped'
  <2>1. PICK entry \in Records!JournalRow : Records!SetJournal(j, entry)
    BY <1>14 DEF Records!createJournal
  <2> QED
    BY <1>12, <1>13, <1>14, <2>1 DEF Records!createJournal
<1>15. ASSUME NEW s \in Requests, Records!updateJournal(s) \/ Records!softDeleteJournal(s)
       PROVE  RecordsTyped'
  <2> DEFINE j == inFlight[s].id
  <2>1. /\ j \in Journals /\ Records!End(s) /\ topic = "journals"
        /\ inFlight[s].pc \in {"update", "delete"}
    BY <1>15 DEF Records!updateJournal, Records!softDeleteJournal, Records!At, RecordsInv, RowsNamed
  <2>2. journal[j] # None
    BY <2>1 DEF RecordsTyped, JournalsThere
  <2>3. \/ \E new \in Records!Partly(Records!JournalRow) :
               Records!SetJournal(j, Records!Named(journal[j], new))
        \/ Records!SetJournal(j, [journal[j] EXCEPT !.deleted = TRUE])
    BY <1>15 DEF Records!updateJournal, Records!softDeleteJournal
  <2> HIDE DEF j
  <2>4. journal[j] \in Records!JournalRow
    BY <1>1, <2>1, <2>2
  <2>5. [journal[j] EXCEPT !.deleted = TRUE] \in Records!JournalRow
    BY <2>4 DEF Records!JournalRow
  <2>6. \A new \in Records!Partly(Records!JournalRow) :
           Records!Named(journal[j], new) \in Records!JournalRow
    BY <2>4, JournalNamed
  <2> QED
    BY <1>12, <1>13, <2>1, <2>3, <2>5, <2>6
<1> QED
  BY <1>2, <1>3, <1>4, <1>5, <1>6, <1>7, <1>9, <1>10, <1>11, <1>14, <1>15 DEF Records!Next

LEMMA RecordsUnmoved ==
    ASSUME RecordsTyped, UNCHANGED recordsVars PROVE RecordsTyped'
BY DEF RecordsTyped, recordsVars, Records!TypeOK, JournalsThere

\* Whatever is skipped, rows are of the type of all.
LEMMA RowsTyped ==
    ASSUME NEW S, NEW all \in Seq(S), NEW offset \in Nat, NEW n \in Nat
    PROVE  Rows(all, offset, n) \in Seq(S)
<1> DEFINE last == IF Len(all) < offset + n THEN Len(all) ELSE offset + n
<1>1. Len(all) \in Nat /\ \A k \in 1 .. Len(all) : all[k] \in S
  OBVIOUS
<1>2. last \in Nat /\ last <= Len(all) /\ offset + 1 \in Nat /\ offset + 1 >= 1
  BY <1>1
<1>3. Rows(all, offset, n) = SubSeq(all, offset + 1, last)
  BY DEF Rows
<1> HIDE DEF last
<1>4. offset + 1 \in Int /\ last \in Int /\ \A k \in offset + 1 .. last : all[k] \in S
  BY <1>1, <1>2
<1> QED
  BY <1>3, <1>4, SubSeqProperties

LEMMA FoundTyped ==
    ASSUME ListAssumptions, NEW S \in SUBSET Locations, NEW f \in Searching!TieBreaks,
           page \in Nat \ {0}
    PROVE  /\ Searching!Slice(S, f) \in Seq(Locations)
           /\ Searching!Cardinality(S) \in 0 .. Cardinality(Locations)
<1>1. Searching!InOrder(S, f) \in Seq(S)
  BY AnswersInOrder DEF InTheOrder
<1>2. Searching!InOrder(S, f) \in Seq(Locations)
  BY <1>1, WiderSeq
<1>3. page - 1 \in Nat /\ PageSize \in Nat
  BY DEF ListAssumptions
<1>4. Searching!skip(page) \in Nat
  BY <1>3 DEF Searching!skip
<1>5. Searching!Slice(S, f) \in Seq(Locations)
  BY <1>2, <1>3, <1>4, RowsTyped, SlicesAre
<1>6. IsFiniteSet(Locations) /\ S \subseteq Locations
  BY DEF ListAssumptions
<1>7. IsFiniteSet(S) /\ Cardinality(S) <= Cardinality(Locations)
  BY <1>6, FS_Subset
<1>8. Cardinality(S) \in Nat /\ Cardinality(Locations) \in Nat
  BY <1>6, <1>7, FS_CardinalityType
<1> QED
  BY <1>5, <1>7, <1>8, SameSearchCardinality

\* A page is shown, and the next is asked for only if there is one.
LEMMA ShowTyped ==
    ASSUME ListAssumptions, Searching!TypeOK, NEW many \in Seq(Locations),
           NEW total \in 0 .. Cardinality(Locations), Searching!Show(many, total)
    PROVE  /\ shown' \in Seq(Locations) /\ searchPc' \in {"page", "done"}
           /\ page' \in 1 .. Cardinality(Locations) + 1
<1>1. /\ shown \in Seq(Locations) /\ page \in 1 .. Cardinality(Locations) + 1
  BY SameSearchCardinality DEF Searching!TypeOK
<1>2. shown \o many \in Seq(Locations)
  BY <1>1, ConcatProperties
<1>3. Cardinality(Locations) \in Nat /\ PageSize \in Nat \ {0}
  BY FS_CardinalityType DEF ListAssumptions
<1>4. page \in Nat \ {0}
  BY <1>1
<1>5. page <= page * PageSize
  BY <1>3, <1>4
<1>6. page * PageSize < total => page + 1 \in 1 .. Cardinality(Locations) + 1
  <2>1. page * PageSize \in Nat
    BY <1>3, <1>4
  <2> DEFINE product == page * PageSize
  <2> HIDE DEF product
  <2>2. product \in Nat /\ page <= product /\ (product < total => page + 1 \in 1 .. Cardinality(Locations) + 1)
    BY <1>3, <1>4, <1>5, <2>1 DEF product
  <2> QED
    BY <2>2 DEF product
<1> QED
  BY <1>1, <1>2, <1>6 DEF Searching!Show

LEMMA SearchTyped ==
    ASSUME ListAssumptions, SearchInv', Searching!TypeOK, Searching!Next
    PROVE  Searching!TypeOK'
<1> DEFINE count == Cardinality(Locations)
<1>1. /\ page \in 1 .. count + 1 /\ ids \in [rows : Seq(Locations), total : 0 .. count]
      /\ shown \in Seq(Locations) /\ quiet \in BOOLEAN /\ term \in BOOLEAN
  BY SameSearchCardinality DEF Searching!TypeOK
<1>2. table' \in Searching!Tables /\ place' \in [Locations -> Searching!PlaceType]
      /\ filter' \in Ids \union {None} /\ searchPc' \in {"page", "hydrate", "done"}
  BY DEF SearchInv
<1>3. count \in Nat
  BY FS_CardinalityType DEF ListAssumptions
<1> HIDE DEF count
<1>4. page \in Nat \ {0}
  BY <1>1, <1>3
<1>5. ASSUME page' \in 1 .. count + 1, ids' \in [rows : Seq(Locations), total : 0 .. count],
             shown' \in Seq(Locations), quiet' \in BOOLEAN, term' \in BOOLEAN
      PROVE  Searching!TypeOK'
  BY <1>2, <1>5, SameSearchCardinality DEF Searching!TypeOK, count
<1>6. CASE Searching!findMany \/ Searching!getAccommodations \/ Searching!getRestaurants
  <2>1. PICK found \in SUBSET Locations, f \in Searching!TieBreaks :
            Searching!Show(Searching!Slice(found, f), Searching!Cardinality(found))
    BY <1>6 DEF Searching!findMany, Searching!getAccommodations, Searching!getRestaurants,
        Searching!ListPublished, Searching!wherePublished, Searching!buildWhereClause
  <2>2. UNCHANGED <<ids, quiet, term>>
    BY <1>6 DEF Searching!findMany, Searching!getAccommodations, Searching!getRestaurants,
        Searching!ListPublished
  <2>3. /\ Searching!Slice(found, f) \in Seq(Locations)
        /\ Searching!Cardinality(found) \in 0 .. Cardinality(Locations)
    BY <1>4, FoundTyped
  <2>4. shown' \in Seq(Locations) /\ page' \in 1 .. Cardinality(Locations) + 1
    BY <2>1, <2>3, ShowTyped
  <2> QED
    BY <1>1, <1>5, <2>2, <2>4 DEF count
<1>7. CASE Searching!search
  <2>1. PICK f \in Searching!TieBreaks :
        /\ ids' = [rows |-> Searching!Slice(Searching!whereConditions, f),
                   total |-> IF Searching!Slice(Searching!whereConditions, f) = <<>> THEN 0
                             ELSE Searching!Cardinality(Searching!whereConditions)]
        /\ UNCHANGED <<page, shown, quiet, term>>
    BY <1>7 DEF Searching!search
  <2>2. Searching!whereConditions \in SUBSET Locations
    BY DEF Searching!whereConditions
  <2>3. /\ Searching!Slice(Searching!whereConditions, f) \in Seq(Locations)
        /\ Searching!Cardinality(Searching!whereConditions) \in 0 .. count
    BY <1>4, <2>2, FoundTyped DEF count
  <2>4. ids' \in [rows : Seq(Locations), total : 0 .. count]
    BY <1>3, <2>1, <2>3
  <2> QED
    BY <1>1, <1>5, <2>1, <2>4
<1>8. CASE Searching!hydrate
  <2>1. /\ Searching!Show(ids.rows, ids.total) /\ ids' = [rows |-> <<>>, total |-> 0]
        /\ UNCHANGED <<quiet, term>>
    BY <1>8 DEF Searching!hydrate, Searching!NoIds
  <2>2. ids.rows \in Seq(Locations) /\ ids.total \in 0 .. Cardinality(Locations)
    BY <1>1 DEF count
  <2>3. shown' \in Seq(Locations) /\ page' \in 1 .. count + 1
    BY <2>1, <2>2, ShowTyped DEF count
  <2>4. ids' \in [rows : Seq(Locations), total : 0 .. count]
    BY <1>3, <2>1
  <2> QED
    BY <1>1, <1>5, <2>1, <2>3, <2>4
<1>9. ASSUME NEW d \in Locations, NEW status, NEW deleted, Searching!SetStatus(d, status, deleted)
      PROVE  Searching!TypeOK'
  BY <1>1, <1>5, <1>9 DEF Searching!SetStatus
<1>10. ASSUME NEW d \in Locations, NEW status, NEW deleted,
             \/ Searching!updateDestinationStatus(d, status, deleted)
             \/ Searching!updateAccommodationStatus(d, status, deleted)
             \/ Searching!updateRestaurantStatus(d, status, deleted)
      PROVE  Searching!TypeOK'
  BY <1>9, <1>10 DEF Searching!updateDestinationStatus,
      Searching!updateAccommodationStatus, Searching!updateRestaurantStatus
<1> QED
  BY <1>6, <1>7, <1>8, <1>10 DEF Searching!Next

LEMMA SearchInitTyped == ASSUME ListAssumptions, Searching!Init PROVE Searching!TypeOK
<1>1. Cardinality(Locations) \in Nat /\ <<>> \in Seq(Locations)
  BY FS_CardinalityType DEF ListAssumptions
<1>2. 1 \in 1 .. Cardinality(Locations) + 1 /\ 0 \in 0 .. Cardinality(Locations)
  BY <1>1
<1>3. [rows |-> <<>>, total |-> 0] \in [rows : Seq(Locations), total : 0 .. Cardinality(Locations)]
  BY <1>1, <1>2
<1>4. quiet \in BOOLEAN
  BY DEF Searching!Init
<1> QED
  BY <1>1, <1>2, <1>3, <1>4, SameSearchCardinality DEF Searching!Init, Searching!TypeOK, Searching!NoIds

LEMMA SearchTypeStutters ==
    ASSUME Searching!TypeOK, UNCHANGED searchVars PROVE Searching!TypeOK'
BY DEF Searching!TypeOK, searchVars

\* What the invariant leaves of the types: how far the planning has come.
PlannedSoFar ==
    /\ generatorPc \in {"day", "visit", "done"} /\ day \in 1 .. request.days + 1
    /\ Len(generatedDays) = day - 1 /\ lunched \in BOOLEAN
    /\ generatorPc = "visit" => day <= request.days

LEMMA GeneratorTyped ==
    ASSUME GeneratorInv, PlannedSoFar PROVE Generating!TypeOK
<1>1. /\ candidates \in Seq(DOMAIN catalogue) /\ activities \in Seq(Generating!Activity)
      /\ visited \subseteq DOMAIN catalogue
  <2>1. candidates \in Seq(DOMAIN catalogue \ visited) /\ DOMAIN catalogue \ visited \subseteq DOMAIN catalogue
    BY DEF GeneratorInv
  <2> QED
    BY <2>1, WiderSeq DEF GeneratorInv
<1>2. /\ \A k \in DOMAIN candidates : candidates[k] \in DOMAIN catalogue
      /\ \A k \in DOMAIN activities : activities[k] \in Generating!Activity
  BY <1>1
<1>3. /\ Generating!Range(candidates) \subseteq DOMAIN catalogue
      /\ Generating!Range(activities) \subseteq Generating!Activity
  BY <1>2 DEF Generating!Range
<1> QED
  BY <1>1, <1>3 DEF GeneratorInv, PlannedSoFar, Generating!TypeOK

LEMMA PlannedFurther ==
    ASSUME GeneratorInv, PlannedSoFar, Generating!Next PROVE PlannedSoFar'
<1>1. /\ request.days \in Nat /\ generatedDays \in Seq(Seq(Generating!Activity))
      /\ activities \in Seq(Generating!Activity)
  <2>1. request \in Generating!RequestType /\ generatedDays \in Seq(Seq(Generating!Activity))
        /\ activities \in Seq(Generating!Activity)
    BY DEF GeneratorInv
  <2>2. request.days \in 1 .. 14
    BY <2>1 DEF Generating!RequestType
  <2> QED
    BY <2>1, <2>2
<1>2. ASSUME Generating!EndDay, generatorPc = "visit", UNCHANGED <<request, lunched>>
      PROVE  PlannedSoFar'
  <2>1. day \in 1 .. request.days /\ day + 1 \in 1 .. request.days + 1 /\ Len(generatedDays) = day - 1
    BY <1>1, <1>2 DEF PlannedSoFar
  <2>2. \A acts : Len(Append(generatedDays, acts)) = Len(generatedDays) + 1
    BY <1>1
  <2>3. Len(generatedDays') = day' - 1
    BY <1>2, <2>1, <2>2 DEF Generating!EndDay
  <2> QED
    BY <1>2, <2>1, <2>3 DEF PlannedSoFar, Generating!EndDay
<1>3. CASE Generating!BeginDay
  BY <1>1, <1>3 DEF PlannedSoFar, Generating!BeginDay
<1>4. CASE Generating!insertLunch
  BY <1>1, <1>4 DEF PlannedSoFar, Generating!insertLunch
<1>5. CASE Generating!visitNext
  <2>1. /\ generatorPc = "visit" /\ UNCHANGED <<request, lunched>>
        /\ Generating!EndDay \/ UNCHANGED <<generatorPc, day, generatedDays>>
    BY <1>5 DEF Generating!visitNext
  <2> QED
    BY <1>2, <2>1 DEF PlannedSoFar
<1>6. CASE Generating!endDay
  BY <1>2, <1>6 DEF Generating!endDay
<1>7. CASE Generating!Finish
  BY <1>7 DEF PlannedSoFar, Generating!Finish
<1> QED
  BY <1>3, <1>4, <1>5, <1>6, <1>7 DEF Generating!Next

LEMMA PlannedFirst ==
    ASSUME PlanAssumptions, Generating!Init PROVE PlannedSoFar
<1>1. request.days \in 1 .. 14
  BY DEF Generating!Init, PlanAssumptions, Generating!RequestType
<1>2. Len(<<>>) = 0
  OBVIOUS
<1>3. /\ generatorPc = "day" /\ day = 1 /\ generatedDays = <<>> /\ lunched = FALSE
  BY DEF Generating!Init
<1>4. Len(generatedDays) = 0
  BY <1>2, <1>3
<1>5. lunched \in BOOLEAN
  BY <1>3
<1>6. day \in 1 .. request.days + 1 /\ Len(generatedDays) = day - 1
  BY <1>1, <1>3, <1>4
<1> QED
  BY <1>3, <1>5, <1>6 DEF PlannedSoFar

LEMMA PlannedStutters ==
    ASSUME PlannedSoFar, UNCHANGED generatorVars PROVE PlannedSoFar'
BY DEF PlannedSoFar, generatorVars

\* What the invariant leaves of the types: the table, and how often the tour was turned.
Cells == [distance : Nat, duration : Nat]
Measured ==
    /\ matrix = <<>> \/ matrix \in [1 .. Len(stops) -> [1 .. Len(stops) -> Cells]]
    /\ iterations \in 0 .. MaxTurns

LEMMA RouteTyped ==
    ASSUME RouteAssumptions, RouteInv, Measured PROVE Ordering!TypeOK
<1>1. Ordering!Stops = 1 .. Len(stops)
  BY StopsAre
<1> QED
  BY <1>1 DEF RouteInv, Measured, Cells, Tour, Ordering!TypeOK

LEMMA UsualTime ==
    ASSUME NEW d \in Nat, NEW mode \in DOMAIN Ordering!Speed
    PROVE  Ordering!estimateDurationMinutes(d, mode) \in Nat
<1> DEFINE m == (12 * d + Ordering!Speed[mode] * (2 * Ordering!Buffer[mode] + 1))
                    \div (2 * Ordering!Speed[mode])
<1>1. m \in Int
  BY DEF Ordering!Speed, Ordering!Buffer
<1>2. Ordering!estimateDurationMinutes(d, mode) = IF d = 0 THEN 0 ELSE Ordering!Max({1, m})
  BY DEF Ordering!estimateDurationMinutes
<1> HIDE DEF m
<1>3. Ordering!Max({1, m}) \in Nat
  BY <1>1, LargerIs
<1> QED
  BY <1>2, <1>3

LEMMA TimeIs ==
    ASSUME NEW raw \in Nat \union {None}, NEW d \in Nat, NEW mode \in DOMAIN Ordering!Speed
    PROVE  Ordering!Duration(raw, d, mode) \in Nat
<1>1. CASE raw = None
  BY <1>1, UsualTime DEF Ordering!Duration
<1>2. CASE raw # None
  <2>1. raw \in Nat /\ (raw + 30) \div 60 \in Int
    BY <1>2
  <2>2. Ordering!Max({1, (raw + 30) \div 60}) \in Nat
    BY <2>1, LargerIs
  <2> QED
    BY <1>2, <2>1, <2>2 DEF Ordering!Duration
<1> QED
  BY <1>1, <1>2

LEMMA MatrixMeasured ==
    ASSUME RouteAssumptions, RouteInv, Measured, Ordering!computeMatrix PROVE Measured'
<1>1. /\ Ordering!n = Len(stops) /\ DOMAIN stops = 1 .. Len(stops)
      /\ \A i \in 1 .. Len(stops) : stops[i] \in Int
  BY StopsAre
<1>2. UNCHANGED <<stops, iterations>>
  BY DEF Ordering!computeMatrix, Ordering!asked
<1>3. /\ by \in DOMAIN Ordering!Speed /\ stops \in StopLists /\ answer \in MatrixAnswers[Len(stops)]
  BY DEF RouteInv, RouteAssumptions
<1>4. CASE matrix' = matrix
  BY <1>2, <1>4 DEF Measured
<1>5. CASE matrix' = Ordering!calculateMatrix(stops, by, answer)
  <2>1. CASE answer = None
    <3> DEFINE d(i, j) == Ordering!calculateHaversineKm(stops[i], stops[j])
    <3>1. \A i, j \in 1 .. Len(stops) :
             d(i, j) \in Nat /\ Ordering!estimateDurationMinutes(d(i, j), by) \in Nat
      BY <1>1, <1>3, GreatCircle, UsualTime
    <3>2. matrix' = [i \in 1 .. Len(stops) |-> [j \in 1 .. Len(stops) |->
               [distance |-> d(i, j), duration |-> Ordering!estimateDurationMinutes(d(i, j), by)]]]
      BY <1>1, <1>5, <2>1 DEF Ordering!calculateMatrix, Ordering!calculateFallbackMatrix
    <3> HIDE DEF d
    <3> QED
      BY <1>2, <3>1, <3>2 DEF Measured, Cells
  <2>2. CASE answer # None
    <3> DEFINE d(i, j) == Ordering!Distance(answer[i][j].distance, stops[i], stops[j])
               t(i, j) == Ordering!Duration(answer[i][j].duration, d(i, j), by)
    <3>1. \A i, j \in 1 .. Len(stops) :
             answer[i][j].distance \in Nat \union {None} /\ answer[i][j].duration \in Nat \union {None}
      BY <1>1, <1>3, <2>2 DEF RouteAssumptions
    <3>2. \A i, j \in 1 .. Len(stops) : d(i, j) \in Nat
      BY <1>1, <3>1, CellIs
    <3>3. \A i, j \in 1 .. Len(stops) : t(i, j) \in Nat
      <4> HIDE DEF d
      <4> QED
        BY <1>3, <3>1, <3>2, TimeIs
    <3>4. matrix' = [i \in 1 .. Len(stops) |-> [j \in 1 .. Len(stops) |->
               [distance |-> d(i, j), duration |-> t(i, j)]]]
      BY <1>1, <1>5, <2>2 DEF Ordering!calculateMatrix
    <3> HIDE DEF d, t
    <3> QED
      BY <1>2, <3>2, <3>3, <3>4 DEF Measured, Cells
  <2> QED
    BY <2>1, <2>2
<1> QED
  BY <1>4, <1>5 DEF Ordering!computeMatrix

LEMMA RouteMeasured ==
    ASSUME RouteAssumptions, RouteInv, Measured, Ordering!Next PROVE Measured'
<1>1. CASE Ordering!computeMatrix
  BY <1>1, MatrixMeasured
<1>2. CASE Ordering!twoOpt
  <2>1. UNCHANGED <<stops, matrix>> /\ iterations < MaxTurns /\ iterations' = iterations + 1
    BY <1>2 DEF Ordering!twoOpt, Ordering!asked
  <2>2. MaxTurns \in Nat
    BY DEF RouteAssumptions
  <2> QED
    BY <2>1, <2>2 DEF Measured
<1>3. ASSUME UNCHANGED <<stops, matrix, iterations>> PROVE Measured'
  BY <1>3 DEF Measured
<1> QED
  BY <1>1, <1>2, <1>3 DEF Ordering!Next, Ordering!mapboxOrder, Ordering!useLocalOptimizer,
     Ordering!nearestNeighbor, Ordering!appendEnd, Ordering!Stop, Ordering!asked

LEMMA RouteUnmeasured ==
    ASSUME RouteAssumptions, Ordering!Init PROVE Measured
<1>1. matrix = <<>> /\ iterations = 0 /\ MaxTurns \in Nat
  BY DEF RouteAssumptions, Ordering!Init
<1> QED
  BY <1>1 DEF Measured

LEMMA MeasuredStutters ==
    ASSUME Measured, UNCHANGED routeVars PROVE Measured'
BY DEF Measured, routeVars

LEMMA RecommendFirstTyped ==
    ASSUME RecommendAssumptions, Recommending!Init PROVE Recommending!TypeOK
<1>1. /\ recommended \in Sightseeing /\ context \in Visits
      /\ favorites \subseteq Recommending!DestinationIds /\ praised \subseteq Recommending!DestinationIds
      /\ recommendPc = "history" /\ liked = Recommending!NobodyKnown /\ recommendation = <<>>
  BY DEF Recommending!Init
<1>2. recommended \in Seq(Recommending!DestinationType) /\ context \in Recommending!ContextType
  BY <1>1 DEF RecommendAssumptions
<1>3. liked.categories = {} /\ liked.tags = {}
  BY <1>1 DEF Recommending!NobodyKnown
<1> QED
  BY <1>1, <1>2, <1>3 DEF Recommending!TypeOK

LEMMA RecommendIsTyped ==
    ASSUME RecommendAssumptions, RecommendInv, Recommending!TypeOK, Recommending!Next
    PROVE  Recommending!TypeOK'
<1>1. ASSUME NEW read \in SUBSET praised, Recommending!readHistory(read) PROVE Recommending!TypeOK'
  <2> DEFINE known == [categories |-> {recommended[d].category : d \in favorites \union read},
                       tags |-> UNION {recommended[d].tags : d \in favorites}]
  <2>1. /\ liked' = Recommending!NobodyKnown \/ liked' = known
        /\ recommendPc' = "score"
        /\ UNCHANGED <<recommended, context, favorites, praised, recommendation>>
    BY <1>1 DEF Recommending!readHistory
  <2>2. /\ favorites \subseteq DOMAIN recommended
        /\ praised \subseteq DOMAIN recommended
    BY DEF Recommending!TypeOK, Recommending!DestinationIds
  <2>3. favorites \union read \subseteq DOMAIN recommended
    BY <2>2
  <2>4. /\ known.categories \subseteq {recommended[d].category : d \in DOMAIN recommended}
        /\ known.tags \subseteq UNION {recommended[d].tags : d \in DOMAIN recommended}
    BY <2>2, <2>3
  <2>5. /\ Recommending!NobodyKnown.categories = {} /\ Recommending!NobodyKnown.tags = {}
    BY DEF Recommending!NobodyKnown
  <2> HIDE DEF known
  <2>6. /\ liked'.categories \subseteq {recommended[d].category : d \in DOMAIN recommended}
        /\ liked'.tags \subseteq UNION {recommended[d].tags : d \in DOMAIN recommended}
    BY <2>1, <2>4, <2>5
  <2> QED
    BY <2>1, <2>6 DEF Recommending!TypeOK, Recommending!DestinationIds
<1>2. CASE Recommending!recommend
  <2>1. recommendation' \in Seq(DOMAIN recommended)
    BY <1>2, RecommendStep DEF RecommendInv
  <2>2. recommendPc' = "done" /\ UNCHANGED <<recommended, context, favorites, praised, liked>>
    BY <1>2 DEF Recommending!recommend
  <2> QED
    BY <2>1, <2>2 DEF Recommending!TypeOK, Recommending!DestinationIds
<1> QED
  BY <1>1, <1>2 DEF Recommending!Next

LEMMA RecommendTypeStutters ==
    ASSUME Recommending!TypeOK, UNCHANGED recommendVars PROVE Recommending!TypeOK'
BY DEF Recommending!TypeOK, Recommending!DestinationIds, recommendVars

Notified == notified \in [Users -> 0 .. 2]

LEMMA LikesTyped ==
    ASSUME LikesInv, Notified PROVE Liking!TypeOK
BY DEF LikesInv, Notified, LikeRecord, Liking!TypeOK

LEMMA NobodyNotified ==
    ASSUME Liking!Init PROVE Notified
BY DEF Liking!Init, Notified

LEMMA NotifiedOnce ==
    ASSUME LikesInv, Notified, Liking!Next PROVE Notified'
<1>1. CASE Liking!notify(1)
  <2> DEFINE u == tx[1].u
  <2>1. u \in Users
    BY DEF LikesInv, LikeRecord
  <2>2. \/ notified' = notified
        \/ notified[u] < 2 /\ notified' = [notified EXCEPT ![u] = @ + 1]
    BY <1>1 DEF Liking!notify
  <2> HIDE DEF u
  <2> QED
    BY <2>1, <2>2 DEF Notified
<1>2. CASE Liking!cascade(1)
  BY <1>2 DEF Liking!cascade, Notified
<1>3. ASSUME notified' = notified PROVE Notified'
  BY <1>3 DEF Notified
<1>4. CASE Liking!Moderate
  BY <1>3, <1>4 DEF Liking!Moderate, Liking!adminDeleteComment, Liking!adminUpdatePostStatus
<1>5. CASE Liking!Request(1)
  BY <1>3, <1>5 DEF Liking!Request, Liking!findPostToLike, Liking!findPostToComment,
     Liking!findComment, Liking!findPostToDelete
<1>6. CASE Liking!Statement(1)
  BY <1>1, <1>2, <1>3, <1>6 DEF Liking!Statement, Liking!findLike, Liking!insertLike,
     Liking!incrementLikes, Liking!deleteLike, Liking!decrementLikes, Liking!insertComment,
     Liking!incrementComments, Liking!softDelete, Liking!readCount, Liking!decrementComments,
     Liking!deleteRow
<1>7. CASE Liking!abort(1)
  BY <1>3, <1>7 DEF Liking!abort
<1>8. Liking!Next => Liking!Moderate \/ Liking!Request(1) \/ Liking!Statement(1) \/ Liking!abort(1)
  BY DEF Liking!Next
<1> QED
  BY <1>4, <1>5, <1>6, <1>7, <1>8

LEMMA NotifiedStutters ==
    ASSUME Notified, UNCHANGED likesVars PROVE Notified'
BY DEF Notified, likesVars

-----------------------------------------------------------------------------
(* The price of a plan.                                                    *)

\* A sum over the places of a sequence grows by what is appended.
LEMMA TotalAppended ==
    ASSUME NEW n \in Nat, NEW w, Naturals(w, 1 .. n + 1), NEW v, \A i \in 1 .. n : v[i] = w[i]
    PROVE  Total(w, 1 .. n + 1) = w[n + 1] + Total(v, 1 .. n)
<1>1. IsFiniteSet(1 .. n) /\ n + 1 \notin 1 .. n /\ 1 .. n + 1 = (1 .. n) \union {n + 1}
  <2>1. IsFiniteSet(1 .. n)
    BY FS_Interval
  <2>2. n + 1 \notin 1 .. n /\ 1 .. n + 1 = (1 .. n) \union {n + 1}
    OBVIOUS
  <2> QED
    BY <2>1, <2>2
<1>2. Total(w, 1 .. n + 1) = w[n + 1] + Total(w, 1 .. n)
  BY <1>1, TotalMore
<1>3. Naturals(w, 1 .. n)
  BY DEF Naturals
<1> QED
  BY <1>1, <1>2, <1>3, TotalSame

Prices(acts) == [i \in 1 .. Len(acts) |-> acts[i].cost]

LEMMA PriceIs ==
    ASSUME NEW acts \in Seq(Generating!Activity)
    PROVE  Generating!priceOf(acts) = Total(Prices(acts), 1 .. Len(acts))
<1> DEFINE C == DOMAIN acts
           w == Prices(acts)
           h == CHOOSE f : f = [s \in SUBSET C |->
                   IF s = {} THEN 0
                   ELSE f[s \ {CHOOSE x \in s : TRUE}] + acts[CHOOSE x \in s : TRUE].cost]
<1>1. Generating!priceOf(acts) = h[C]
  BY DEF Generating!priceOf, Generating!FoldFunction, Generating!FoldFunctionOnSet,
         Generating!MapThenFoldSet
<1>2. IsFiniteSet(C) /\ Naturals(w, C) /\ C = 1 .. Len(acts)
  <2>1. Len(acts) \in Nat /\ C = 1 .. Len(acts) /\ \A i \in C : acts[i].cost \in Nat
    <3>1. Len(acts) \in Nat /\ C = 1 .. Len(acts) /\ \A i \in C : acts[i] \in Generating!Activity
      OBVIOUS
    <3> QED
      BY <3>1 DEF Generating!Activity
  <2>2. Naturals(w, C)
    BY <2>1 DEF Naturals, Prices
  <2>3. IsFiniteSet(1 .. Len(acts))
    BY <2>1, FS_Interval
  <2> QED
    BY <2>1, <2>2, <2>3
<1>3. \A s \in SUBSET C : s # {} => w[AnyOf(s)] = acts[CHOOSE x \in s : TRUE].cost
  BY DEF AnyOf, Prices
<1> HIDE DEF w, C
<1>4. \A f : SumsTurned(w, C, f) <=> f = [s \in SUBSET C |->
                   IF s = {} THEN 0
                   ELSE f[s \ {CHOOSE x \in s : TRUE}] + acts[CHOOSE x \in s : TRUE].cost]
  BY <1>3 DEF SumsTurned, AnyOf
<1>5. \E f : f = [s \in SUBSET C |->
                   IF s = {} THEN 0
                   ELSE f[s \ {CHOOSE x \in s : TRUE}] + acts[CHOOSE x \in s : TRUE].cost]
  <2>1. PICK f : SumsTurned(w, C, f)
    BY <1>2, TurnedExist
  <2>2. f = [s \in SUBSET C |->
               IF s = {} THEN 0
               ELSE f[s \ {CHOOSE x \in s : TRUE}] + acts[CHOOSE x \in s : TRUE].cost]
    BY <2>1, <1>4
  <2> QED
    BY <2>2
<1>6. h = [s \in SUBSET C |->
                   IF s = {} THEN 0
                   ELSE h[s \ {CHOOSE x \in s : TRUE}] + acts[CHOOSE x \in s : TRUE].cost]
  BY <1>5
<1> HIDE DEF h
<1>7. SumsTurned(w, C, h)
  BY <1>4, <1>6
<1>8. h[C] = Total(w, C)
  BY <1>2, <1>7, TurnedIs
<1> QED
  BY <1>1, <1>2, <1>8 DEF w

LEMMA PriceOfMore ==
    ASSUME NEW acts \in Seq(Generating!Activity)
    PROVE  /\ Generating!priceOf(acts) \in Nat
           /\ acts = <<>> => Generating!priceOf(acts) = 0
           /\ \A act \in Generating!Activity :
                 Generating!priceOf(Append(acts, act)) = act.cost + Generating!priceOf(acts)
<1>1. ASSUME NEW some \in Seq(Generating!Activity)
      PROVE  Naturals(Prices(some), 1 .. Len(some)) /\ IsFiniteSet(1 .. Len(some))
  <2>1. Len(some) \in Nat /\ \A i \in 1 .. Len(some) : some[i].cost \in Nat
    <3>1. Len(some) \in Nat /\ \A i \in 1 .. Len(some) : some[i] \in Generating!Activity
      BY <1>1
    <3> QED
      BY <3>1 DEF Generating!Activity
  <2>2. IsFiniteSet(1 .. Len(some))
    BY <2>1, FS_Interval
  <2> QED
    BY <2>1, <2>2 DEF Naturals, Prices
<1>2. Total(Prices(acts), 1 .. Len(acts)) \in Nat
  BY <1>1, TotalType
<1>3. acts = <<>> => Total(Prices(acts), 1 .. Len(acts)) = 0
  <2>1. acts = <<>> => 1 .. Len(acts) = {}
    OBVIOUS
  <2> QED
    BY <1>1, <2>1, TotalType
<1>4. ASSUME NEW act \in Generating!Activity
      PROVE  Generating!priceOf(Append(acts, act)) = act.cost + Generating!priceOf(acts)
  <2> DEFINE more == Append(acts, act)
  <2>1. /\ more \in Seq(Generating!Activity) /\ Len(acts) \in Nat /\ Len(more) = Len(acts) + 1
        /\ \A i \in 1 .. Len(acts) : more[i] = acts[i]
        /\ more[Len(acts) + 1] = act
    OBVIOUS
  <2> HIDE DEF more
  <2>2. /\ \A i \in 1 .. Len(acts) : Prices(acts)[i] = Prices(more)[i]
        /\ Prices(more)[Len(acts) + 1] = act.cost
    BY <2>1 DEF Prices
  <2>3. Naturals(Prices(more), 1 .. Len(acts) + 1)
    BY <1>1, <2>1
  <2>4. Total(Prices(more), 1 .. Len(acts) + 1) = act.cost + Total(Prices(acts), 1 .. Len(acts))
    BY <2>1, <2>2, <2>3, TotalAppended
  <2>5. Generating!priceOf(more) = act.cost + Generating!priceOf(acts)
    BY <2>1, <2>4, PriceIs
  <2> QED
    BY <2>5 DEF more
<1> QED
  BY <1>2, <1>3, <1>4, PriceIs

DayPrices(days) == [m \in 1 .. Len(days) |-> Generating!priceOf(days[m])]
PriceOfDays(days) == Generating!FoldFunction(LAMBDA acts, sum : sum + Generating!priceOf(acts), 0, days)

LEMMA DaysPriceIs ==
    ASSUME NEW days \in Seq(Seq(Generating!Activity))
    PROVE  PriceOfDays(days) = Total(DayPrices(days), 1 .. Len(days))
<1> DEFINE C == DOMAIN days
           w == DayPrices(days)
           h == CHOOSE f : f = [s \in SUBSET C |->
                   IF s = {} THEN 0
                   ELSE f[s \ {CHOOSE x \in s : TRUE}]
                           + Generating!priceOf(days[CHOOSE x \in s : TRUE])]
<1>1. PriceOfDays(days) = h[C]
  BY DEF PriceOfDays, Generating!FoldFunction, Generating!FoldFunctionOnSet,
         Generating!MapThenFoldSet
<1>2. IsFiniteSet(C) /\ Naturals(w, C) /\ C = 1 .. Len(days)
  <2>1. Len(days) \in Nat /\ C = 1 .. Len(days) /\ \A m \in C : Generating!priceOf(days[m]) \in Nat
    BY PriceOfMore
  <2>2. Naturals(w, C)
    BY <2>1 DEF Naturals, DayPrices
  <2>3. IsFiniteSet(1 .. Len(days))
    BY <2>1, FS_Interval
  <2> QED
    BY <2>1, <2>2, <2>3
<1>3. \A s \in SUBSET C : s # {} => w[AnyOf(s)] = Generating!priceOf(days[CHOOSE x \in s : TRUE])
  BY DEF AnyOf, DayPrices
<1> HIDE DEF w, C
<1>4. \A f : SumsTurned(w, C, f) <=> f = [s \in SUBSET C |->
                   IF s = {} THEN 0
                   ELSE f[s \ {CHOOSE x \in s : TRUE}]
                           + Generating!priceOf(days[CHOOSE x \in s : TRUE])]
  BY <1>3 DEF SumsTurned, AnyOf
<1>5. \E f : f = [s \in SUBSET C |->
                   IF s = {} THEN 0
                   ELSE f[s \ {CHOOSE x \in s : TRUE}]
                           + Generating!priceOf(days[CHOOSE x \in s : TRUE])]
  <2>1. PICK f : SumsTurned(w, C, f)
    BY <1>2, TurnedExist
  <2>2. f = [s \in SUBSET C |->
               IF s = {} THEN 0
               ELSE f[s \ {CHOOSE x \in s : TRUE}]
                       + Generating!priceOf(days[CHOOSE x \in s : TRUE])]
    BY <2>1, <1>4
  <2> QED
    BY <2>2
<1>6. h = [s \in SUBSET C |->
                   IF s = {} THEN 0
                   ELSE h[s \ {CHOOSE x \in s : TRUE}]
                           + Generating!priceOf(days[CHOOSE x \in s : TRUE])]
  BY <1>5
<1> HIDE DEF h
<1>7. SumsTurned(w, C, h)
  BY <1>4, <1>6
<1>8. h[C] = Total(w, C)
  BY <1>2, <1>7, TurnedIs
<1> QED
  BY <1>1, <1>2, <1>8 DEF w

LEMMA DaysPriceMore ==
    ASSUME NEW days \in Seq(Seq(Generating!Activity))
    PROVE  /\ PriceOfDays(days) \in Nat
           /\ days = <<>> => PriceOfDays(days) = 0
           /\ \A acts \in Seq(Generating!Activity) :
                 PriceOfDays(Append(days, acts)) = Generating!priceOf(acts) + PriceOfDays(days)
<1>1. ASSUME NEW some \in Seq(Seq(Generating!Activity))
      PROVE  Naturals(DayPrices(some), 1 .. Len(some)) /\ IsFiniteSet(1 .. Len(some))
  <2>1. Len(some) \in Nat /\ \A i \in 1 .. Len(some) : Generating!priceOf(some[i]) \in Nat
    BY <1>1, PriceOfMore
  <2>2. IsFiniteSet(1 .. Len(some))
    BY <2>1, FS_Interval
  <2> QED
    BY <2>1, <2>2 DEF Naturals, DayPrices
<1>2. Total(DayPrices(days), 1 .. Len(days)) \in Nat
  BY <1>1, TotalType
<1>3. days = <<>> => Total(DayPrices(days), 1 .. Len(days)) = 0
  <2>1. days = <<>> => 1 .. Len(days) = {}
    OBVIOUS
  <2> QED
    BY <1>1, <2>1, TotalType
<1>4. ASSUME NEW acts \in Seq(Generating!Activity)
      PROVE  PriceOfDays(Append(days, acts)) = Generating!priceOf(acts) + PriceOfDays(days)
  <2> DEFINE more == Append(days, acts)
  <2>1. /\ more \in Seq(Seq(Generating!Activity)) /\ Len(days) \in Nat /\ Len(more) = Len(days) + 1
        /\ \A i \in 1 .. Len(days) : more[i] = days[i]
        /\ more[Len(days) + 1] = acts
    OBVIOUS
  <2> HIDE DEF more
  <2>2. /\ \A i \in 1 .. Len(days) : DayPrices(days)[i] = DayPrices(more)[i]
        /\ DayPrices(more)[Len(days) + 1] = Generating!priceOf(acts)
    BY <2>1 DEF DayPrices
  <2>3. Naturals(DayPrices(more), 1 .. Len(days) + 1)
    BY <1>1, <2>1
  <2>4. Total(DayPrices(more), 1 .. Len(days) + 1)
           = Generating!priceOf(acts) + Total(DayPrices(days), 1 .. Len(days))
    BY <2>1, <2>2, <2>3, TotalAppended
  <2>5. PriceOfDays(more) = Generating!priceOf(acts) + PriceOfDays(days)
    BY <2>1, <2>4, DaysPriceIs
  <2> QED
    BY <2>5 DEF more
<1> QED
  BY <1>2, <1>3, <1>4, DaysPriceIs

LEMMA CostIs ==
    /\ Generating!CostAddsUp <=> cost = PriceOfDays(Generating!Days)
    /\ Generating!CostAddsUp' <=> cost' = PriceOfDays(Generating!Days')
<1>1. Generating!CostAddsUp <=> cost = PriceOfDays(Generating!Days)
  BY DEF Generating!CostAddsUp, PriceOfDays
<1>2. (Generating!CostAddsUp <=> cost = PriceOfDays(Generating!Days))'
  BY <1>1, PTL
<1> QED
  BY <1>1, <1>2

\* An activity is added to the day, and what it costs to the price.
LEMMA CostOfMore ==
    ASSUME GeneratorInv, GeneratorInv', Generating!CostAddsUp, generatorPc = "visit",
           NEW act, activities' = Append(activities, act), cost' = cost + act.cost,
           UNCHANGED <<generatorPc, generatedDays>>
    PROVE  Generating!CostAddsUp'
<1>1. /\ activities \in Seq(Generating!Activity) /\ activities' \in Seq(Generating!Activity)
      /\ generatedDays \in Seq(Seq(Generating!Activity))
  BY DEF GeneratorInv
<1>2. act \in Generating!Activity
  <2>1. activities'[Len(activities) + 1] = act /\ Len(activities) + 1 \in 1 .. Len(activities')
    BY <1>1
  <2> QED
    BY <1>1, <2>1
<1>3. /\ Generating!Days = Append(generatedDays, activities)
      /\ Generating!Days' = Append(generatedDays, activities')
  BY DEF Generating!Days
<1>4. PriceOfDays(Generating!Days) = Generating!priceOf(activities) + PriceOfDays(generatedDays)
  BY <1>1, <1>3, DaysPriceMore
<1>5. PriceOfDays(Generating!Days') = Generating!priceOf(activities') + PriceOfDays(generatedDays)
  BY <1>1, <1>3, DaysPriceMore
<1>6. Generating!priceOf(activities') = act.cost + Generating!priceOf(activities)
  BY <1>1, <1>2, PriceOfMore
<1>7. /\ PriceOfDays(generatedDays) \in Nat /\ Generating!priceOf(activities) \in Nat
      /\ act.cost \in Nat
  BY <1>1, <1>2, DaysPriceMore, PriceOfMore DEF Generating!Activity
<1>8. cost = PriceOfDays(Generating!Days)
  BY CostIs
<1>9. cost' = PriceOfDays(Generating!Days')
  BY <1>4, <1>5, <1>6, <1>7, <1>8
<1> QED
  BY <1>9, CostIs

\* The day is over, and is one of the plan's.
LEMMA CostOfDay ==
    ASSUME Generating!CostAddsUp, generatorPc = "visit", Generating!EndDay,
           UNCHANGED <<activities, cost>>
    PROVE  Generating!CostAddsUp'
<1>1. Generating!Days' = Generating!Days
  BY DEF Generating!Days, Generating!EndDay
<1> QED
  BY <1>1, CostIs

LEMMA PriceKept ==
    ASSUME GeneratorInv, GeneratorInv', Generating!CostAddsUp, Generating!Next
    PROVE  Generating!CostAddsUp'
<1>1. CASE Generating!BeginDay
  <2>1. /\ generatorPc = "day" /\ generatorPc' = "visit" /\ activities' = <<>>
        /\ UNCHANGED <<generatedDays, cost>>
    BY <1>1 DEF Generating!BeginDay
  <2>2. /\ Generating!Days = generatedDays
        /\ Generating!Days' = Append(generatedDays, activities')
    BY <2>1 DEF Generating!Days
  <2>3. /\ activities' \in Seq(Generating!Activity)
        /\ generatedDays \in Seq(Seq(Generating!Activity))
    BY DEF GeneratorInv
  <2>4. Generating!priceOf(activities') = 0 /\ PriceOfDays(generatedDays) \in Nat
    BY <2>1, <2>3, PriceOfMore, DaysPriceMore
  <2>5. PriceOfDays(Append(generatedDays, activities'))
           = Generating!priceOf(activities') + PriceOfDays(generatedDays)
    BY <2>3, DaysPriceMore
  <2>6. PriceOfDays(Generating!Days') = PriceOfDays(Generating!Days)
    BY <2>2, <2>4, <2>5
  <2> QED
    BY <2>1, <2>6, CostIs
<1>2. CASE Generating!insertLunch
  <2> DEFINE act == [dest |-> Generating!Lunch, start |-> minutes, end |-> minutes + 60,
                     cost |-> LUNCH_COST * request.travelers, distance |-> 0]
  <2>1. /\ activities' = Append(activities, act) /\ cost' = cost + act.cost
        /\ generatorPc = "visit" /\ UNCHANGED <<generatorPc, generatedDays>>
    BY <1>2 DEF Generating!insertLunch
  <2> HIDE DEF act
  <2> QED
    BY <2>1, CostOfMore
<1>3. CASE Generating!visitNext
  <2>1. /\ generatorPc = "visit"
        /\ \/ UNCHANGED <<activities, cost>> /\ Generating!EndDay
           \/ /\ \E act : activities' = Append(activities, act) /\ cost' = cost + act.cost
              /\ UNCHANGED <<generatorPc, generatedDays>>
    <3> DEFINE d == candidates[Generating!bestCandidateIndex]
               km == Generating!calculateDistanceKm(at, catalogue[d].at)
               arrival == minutes + Generating!estimateTransitMinutes(km, request.by)
               act == [dest |-> d, start |-> arrival, end |-> arrival + Generating!visitDuration(d),
                       cost |-> catalogue[d].fee * request.travelers, distance |-> km]
    <3>1. /\ generatorPc = "visit"
          /\ \/ UNCHANGED <<activities, cost>> /\ Generating!EndDay
             \/ /\ activities' = Append(activities, act)
                /\ cost' = cost + catalogue[d].fee * request.travelers
                /\ UNCHANGED <<generatorPc, generatedDays>>
      BY <1>3 DEF Generating!visitNext
    <3>2. act.cost = catalogue[d].fee * request.travelers
      OBVIOUS
    <3> HIDE DEF act
    <3> QED
      BY <3>1, <3>2
  <2> QED
    BY <2>1, CostOfDay, CostOfMore
<1>4. CASE Generating!endDay
  BY <1>4, CostOfDay DEF Generating!endDay
<1>5. CASE Generating!Finish
  <2>1. Generating!Days' = Generating!Days /\ cost' = cost
    BY <1>5 DEF Generating!Finish, Generating!Days
  <2> QED
    BY <2>1, CostIs
<1> QED
  BY <1>1, <1>2, <1>3, <1>4, <1>5 DEF Generating!Next

LEMMA PriceStutters ==
    ASSUME Generating!CostAddsUp, UNCHANGED generatorVars PROVE Generating!CostAddsUp'
<1>1. Generating!Days' = Generating!Days /\ cost' = cost
  BY DEF Generating!Days, generatorVars
<1> QED
  BY <1>1, CostIs

\* Before anything is planned nothing has to be paid.
LEMMA PriceFirst ==
    ASSUME Generating!Init PROVE Generating!CostAddsUp
<1>1. generatorPc = "day" /\ generatedDays = <<>> /\ cost = 0
  BY DEF Generating!Init
<1>2. Generating!Days = generatedDays
  BY <1>1 DEF Generating!Days
<1>3. generatedDays \in Seq(Seq(Generating!Activity))
  BY <1>1
<1> QED
  BY <1>1, <1>2, <1>3, DaysPriceMore, CostIs

-----------------------------------------------------------------------------
(* The summary of expenses.                                                *)

\* The sum over two sets that have nothing in common.
LEMMA TotalUnion ==
    ASSUME NEW w, NEW A, NEW B, IsFiniteSet(A), IsFiniteSet(B), Naturals(w, A \union B),
           A \cap B = {}
    PROVE  Total(w, A \union B) = Total(w, A) + Total(w, B)
<1> DEFINE G == {s \in SUBSET B : Total(w, A \union s) = Total(w, A) + Total(w, s)}
<1>1. \A s \in SUBSET B : /\ IsFiniteSet(s) /\ Naturals(w, s)
                          /\ IsFiniteSet(A \union s) /\ Naturals(w, A \union s)
  BY FS_Subset, FS_Union DEF Naturals
<1>2. Naturals(w, A)
  BY DEF Naturals
<1>3. {} \in G
  <2>1. A \union {} = A /\ Total(w, A) \in Nat
    BY <1>2, TotalType
  <2>2. Total(w, {}) = 0
    BY <1>1, TotalType
  <2> QED
    BY <2>1, <2>2
<1>4. ASSUME NEW s \in G, NEW x \in B \ s, s \subseteq B PROVE s \union {x} \in G
  <2>1. /\ s \union {x} \in SUBSET B /\ (A \union s) \union {x} = A \union (s \union {x})
        /\ x \notin A \union s /\ s \in SUBSET B
    BY <1>4
  <2>2. Total(w, s \union {x}) = w[x] + Total(w, s)
    BY <1>1, <1>4, <2>1, TotalMore
  <2>3. Total(w, (A \union s) \union {x}) = w[x] + Total(w, A \union s)
    BY <1>1, <2>1, TotalMore
  <2>4. Total(w, A \union s) = Total(w, A) + Total(w, s)
    BY <1>4
  <2>5. Total(w, A) \in Nat /\ Total(w, s) \in Nat /\ w[x] \in Nat
    <3>1. x \in B
      BY <1>4
    <3> QED
      BY <1>1, <1>2, <2>1, <3>1, TotalType DEF Naturals
  <2>6. Total(w, A \union (s \union {x})) = w[x] + (Total(w, A) + Total(w, s))
    BY <2>1, <2>3, <2>4
  <2>7. w[x] + (Total(w, A) + Total(w, s)) = Total(w, A) + (w[x] + Total(w, s))
    BY <2>5
  <2> QED
    BY <2>1, <2>2, <2>6, <2>7
<1> HIDE DEF G
<1>5. B \in G
  BY <1>3, <1>4, EveryFiniteSet
<1> QED
  BY <1>5 DEF G

\* What a function makes of a finite set is one.
LEMMA FiniteImage ==
    ASSUME NEW S, IsFiniteSet(S), NEW f PROVE IsFiniteSet({f[x] : x \in S})
<1> DEFINE Of(s) == {f[x] : x \in s}
           G == {s \in SUBSET S : IsFiniteSet(Of(s))}
<1>1. {} \in G
  <2>1. Of({}) = {}
    OBVIOUS
  <2> QED
    BY <2>1, FS_EmptySet
<1>2. ASSUME NEW s \in G, NEW x \in S \ s, s \subseteq S PROVE s \union {x} \in G
  <2>1. Of(s \union {x}) = Of(s) \union {f[x]}
    OBVIOUS
  <2>2. IsFiniteSet(Of(s))
    BY <1>2
  <2> HIDE DEF Of
  <2>3. IsFiniteSet(Of(s) \union {f[x]})
    BY <2>2, FS_AddElement
  <2>4. s \union {x} \in SUBSET S
    BY <1>2
  <2> QED
    BY <2>1, <2>3, <2>4
<1> HIDE DEF G
<1>3. S \in G
  BY <1>1, <1>2, EveryFiniteSet
<1> QED
  BY <1>3 DEF G

\* The rows of a category, and those of several.
InGroup(T, of, c) == {x \in T : of[x] = c}
InGroups(T, of, K) == {x \in T : of[x] \in K}
GroupTotals(w, T, of, K) == [c \in K |-> Total(w, InGroup(T, of, c))]

\* What is added up by groups is what is added up.
LEMMA GroupsAddUp ==
    ASSUME NEW w, NEW T, IsFiniteSet(T), Naturals(w, T), NEW of, NEW D, IsFiniteSet(D)
    PROVE  /\ Naturals(GroupTotals(w, T, of, D), D)
           /\ Total(GroupTotals(w, T, of, D), D) = Total(w, InGroups(T, of, D))
<1> DEFINE v == GroupTotals(w, T, of, D)
           G == {K \in SUBSET D : Total(v, K) = Total(w, InGroups(T, of, K))}
<1>1. \A S \in SUBSET T : IsFiniteSet(S) /\ Naturals(w, S) /\ Total(w, S) \in Nat
  <2>1. \A S \in SUBSET T : IsFiniteSet(S) /\ Naturals(w, S)
    BY FS_Subset DEF Naturals
  <2> QED
    BY <2>1, TotalType
<1>2. \A c, K : InGroup(T, of, c) \in SUBSET T /\ InGroups(T, of, K) \in SUBSET T
  BY DEF InGroup, InGroups
<1>3. \A c \in D : v[c] = Total(w, InGroup(T, of, c)) /\ v[c] \in Nat
  BY <1>1, <1>2 DEF GroupTotals
<1> HIDE DEF v
<1>4. \A K \in SUBSET D : IsFiniteSet(K) /\ Naturals(v, K)
  BY <1>3, FS_Subset DEF Naturals
<1>5. {} \in G
  <2>1. InGroups(T, of, {}) = {}
    BY DEF InGroups
  <2>2. Total(v, {}) = 0 /\ Total(w, {}) = 0
    BY <1>1, <1>4, TotalType
  <2> QED
    BY <2>1, <2>2
<1>6. ASSUME NEW K \in G, NEW c \in D \ K, K \subseteq D PROVE K \union {c} \in G
  <2>1. /\ InGroups(T, of, K \union {c}) = InGroups(T, of, K) \union InGroup(T, of, c)
        /\ InGroups(T, of, K) \cap InGroup(T, of, c) = {}
    BY <1>6 DEF InGroup, InGroups
  <2>2. Total(w, InGroups(T, of, K \union {c}))
           = Total(w, InGroups(T, of, K)) + Total(w, InGroup(T, of, c))
    <3>1. InGroups(T, of, K) \union InGroup(T, of, c) \in SUBSET T
      BY <1>2
    <3> QED
      BY <1>1, <1>2, <2>1, <3>1, TotalUnion
  <2>3. Total(v, K \union {c}) = v[c] + Total(v, K)
    BY <1>4, <1>6, TotalMore
  <2>4. Total(v, K) = Total(w, InGroups(T, of, K)) /\ K \union {c} \in SUBSET D
    BY <1>6
  <2>5. v[c] = Total(w, InGroup(T, of, c)) /\ v[c] \in Nat /\ Total(w, InGroups(T, of, K)) \in Nat
    BY <1>1, <1>2, <1>3
  <2> QED
    BY <2>2, <2>3, <2>4, <2>5
<1> HIDE DEF G
<1>7. D \in G
  BY <1>5, <1>6, EveryFiniteSet
<1>8. D \in SUBSET D
  OBVIOUS
<1> QED
  BY <1>4, <1>7, <1>8 DEF G, v

\* What rounding makes of a quotient.
LEMMA RoundedIs ==
    ASSUME NEW a \in Nat, NEW b \in Nat \ {0}
    PROVE  /\ Records!Rounded(a, b) \in Nat
           /\ 2 * (b * Records!Rounded(a, b)) <= 2 * a + b
           /\ 2 * a <= 2 * (b * Records!Rounded(a, b)) + b
<1> DEFINE q == (2 * a + b) \div (2 * b)
<1>1. q \in Nat /\ 2 * b * q <= 2 * a + b /\ 2 * a + b < 2 * b * (q + 1)
  OBVIOUS
<1>2. Records!Rounded(a, b) = q
  BY DEF Records!Rounded
<1> HIDE DEF q
<1> QED
  BY <1>1, <1>2

\* A share in thousandths.
Share(y, t) == Records!Rounded(1000 * y, t)

IsShare(q, y, t) ==
    q \in Nat /\ 2 * (t * q) <= 2000 * y + t /\ 2000 * y <= 2 * (t * q) + t

LEMMA ShareIs == \A y \in Nat, t \in Nat \ {0} : IsShare(Share(y, t), y, t)
<1> SUFFICES ASSUME NEW y \in Nat, NEW t \in Nat \ {0} PROVE IsShare(Share(y, t), y, t)
  OBVIOUS
<1> DEFINE a == 1000 * y
<1>1. a \in Nat /\ 2 * a = 2000 * y
  OBVIOUS
<1>2. Share(y, t) = Records!Rounded(a, t)
  BY DEF Share
<1> HIDE DEF a
<1>3. /\ Records!Rounded(a, t) \in Nat
      /\ 2 * (t * Records!Rounded(a, t)) <= 2 * a + t
      /\ 2 * a <= 2 * (t * Records!Rounded(a, t)) + t
  BY <1>1, RoundedIs
<1> QED
  BY <1>1, <1>2, <1>3 DEF IsShare

\* Shares add up to a thousand, but for half of one for each.
SharesOf(p, v, t, K) ==
    /\ 2 * (t * Total(p, K)) <= 2000 * Total(v, K) + t * Cardinality(K)
    /\ 2000 * Total(v, K) <= 2 * (t * Total(p, K)) + t * Cardinality(K)

LEMMA RoundedAddUp ==
    ASSUME NEW t \in Nat \ {0}, NEW D, IsFiniteSet(D), NEW v, Naturals(v, D), Total(v, D) = t,
           NEW p, \A c \in D : p[c] = Share(v[c], t)
    PROVE  /\ Naturals(p, D)
           /\ 2 * Total(p, D) <= 2000 + Cardinality(D)
           /\ 2000 <= 2 * Total(p, D) + Cardinality(D)
<1>1. \A c \in D : v[c] \in Nat /\ IsShare(p[c], v[c], t) /\ p[c] \in Nat
  <2>1. \A c \in D : v[c] \in Nat
    BY DEF Naturals
  <2>2. \A c \in D : IsShare(p[c], v[c], t)
    BY <2>1, ShareIs
  <2> QED
    BY <2>1, <2>2 DEF IsShare
<1>2. \A K \in SUBSET D : /\ IsFiniteSet(K) /\ Naturals(v, K) /\ Naturals(p, K)
                          /\ Total(v, K) \in Nat /\ Total(p, K) \in Nat /\ Cardinality(K) \in Nat
  <2>1. \A K \in SUBSET D : IsFiniteSet(K) /\ Naturals(v, K) /\ Naturals(p, K)
    BY <1>1, FS_Subset DEF Naturals
  <2> QED
    BY <2>1, TotalType, FS_CardinalityType
<1> DEFINE G == {K \in SUBSET D : SharesOf(p, v, t, K)}
<1>3. {} \in G
  <2>1. Total(p, {}) = 0 /\ Total(v, {}) = 0 /\ Cardinality({}) = 0
    BY <1>2, TotalType, FS_EmptySet
  <2>2. SharesOf(p, v, t, {})
    BY <2>1 DEF SharesOf
  <2> QED
    BY <2>2
<1>4. ASSUME NEW K \in G, NEW c \in D \ K, K \subseteq D PROVE K \union {c} \in G
  <2>1. K \in SUBSET D /\ c \in D /\ c \notin K /\ K \union {c} \in SUBSET D
    BY <1>4
  <2>2. /\ Total(p, K \union {c}) = p[c] + Total(p, K)
        /\ Total(v, K \union {c}) = v[c] + Total(v, K)
    <3>1. IsFiniteSet(K) /\ Naturals(v, K \union {c}) /\ Naturals(p, K \union {c})
      BY <1>2, <2>1
    <3>2. Total(p, K \union {c}) = p[c] + Total(p, K)
      BY <2>1, <3>1, TotalMore
    <3>3. Total(v, K \union {c}) = v[c] + Total(v, K)
      BY <2>1, <3>1, TotalMore
    <3> QED
      BY <3>2, <3>3
  <2>3. Cardinality(K \union {c}) = Cardinality(K) + 1
    BY <1>2, <2>1, FS_AddElement
  <2> DEFINE P == Total(p, K)
             V == Total(v, K)
             n == Cardinality(K)
             x == p[c]
             y == v[c]
  <2>4. P \in Nat /\ V \in Nat /\ n \in Nat /\ x \in Nat /\ y \in Nat
    BY <1>1, <1>2, <2>1
  <2>5. 2 * (t * P) <= 2000 * V + t * n /\ 2000 * V <= 2 * (t * P) + t * n
    BY <1>4 DEF SharesOf
  <2>6. 2 * (t * x) <= 2000 * y + t /\ 2000 * y <= 2 * (t * x) + t
    BY <1>1, <2>1 DEF IsShare
  <2> HIDE DEF P, V, n, x, y
  <2>7. t * (x + P) = t * x + t * P /\ t * (n + 1) = t * n + t
    BY <2>4
  <2>8. t * x \in Nat /\ t * P \in Nat /\ t * n \in Nat
    BY <2>4
  <2>9. /\ 2 * (t * (x + P)) <= 2000 * (y + V) + t * (n + 1)
        /\ 2000 * (y + V) <= 2 * (t * (x + P)) + t * (n + 1)
    BY <2>4, <2>5, <2>6, <2>7, <2>8
  <2>10. SharesOf(p, v, t, K \union {c})
    BY <2>2, <2>3, <2>9 DEF P, V, n, x, y, SharesOf
  <2> QED
    BY <2>1, <2>10
<1> HIDE DEF G
<1>5. D \in G
  BY <1>3, <1>4, EveryFiniteSet
<1> DEFINE P == Total(p, D)
           n == Cardinality(D)
<1>6. P \in Nat /\ n \in Nat /\ Naturals(p, D)
  <2>1. D \in SUBSET D
    OBVIOUS
  <2> QED
    BY <1>2, <2>1
<1>7. 2 * (t * P) <= 2000 * t + t * n /\ 2000 * t <= 2 * (t * P) + t * n
  BY <1>5 DEF G, SharesOf
<1> HIDE DEF P, n
<1>8. t * (2 * P) <= t * (2000 + n) /\ t * 2000 <= t * (2 * P + n)
  BY <1>6, <1>7
<1>9. \A a, b \in Nat : t * a <= t * b => a <= b
  OBVIOUS
<1>10. 2 * P <= 2000 + n /\ 2000 <= 2 * P + n
  BY <1>6, <1>8, <1>9
<1> QED
  BY <1>6, <1>10 DEF P, n

\* What rows of expenses add up to, whichever they are.
AmountOf == [e \in Records!OfTrip |-> expense[e].amount]
CategoryOf == [e \in Records!OfTrip |-> expense[e].category]

LEMMA AmountsAddUp ==
    ASSUME NEW C \in SUBSET Records!OfTrip, IsFiniteSet(C), Naturals(AmountOf, Records!OfTrip)
    PROVE  Records!amountOf(C) = Total(AmountOf, C)
<1> DEFINE w == AmountOf
           h == CHOOSE f : f = [s \in SUBSET C |->
                   IF s = {} THEN 0
                   ELSE f[s \ {CHOOSE x \in s : TRUE}] + expense[CHOOSE x \in s : TRUE].amount]
<1>1. Records!amountOf(C) = h[C]
  BY DEF Records!amountOf, Records!FoldSet, Records!MapThenFoldSet
<1>2. Naturals(w, C)
  BY DEF Naturals
<1>3. \A s \in SUBSET C : s # {} => w[AnyOf(s)] = expense[CHOOSE x \in s : TRUE].amount
  BY DEF AnyOf, AmountOf
<1> HIDE DEF w
<1>4. \A f : SumsTurned(w, C, f) <=> f = [s \in SUBSET C |->
                   IF s = {} THEN 0
                   ELSE f[s \ {CHOOSE x \in s : TRUE}] + expense[CHOOSE x \in s : TRUE].amount]
  BY <1>3 DEF SumsTurned, AnyOf
<1>5. \E f : f = [s \in SUBSET C |->
                   IF s = {} THEN 0
                   ELSE f[s \ {CHOOSE x \in s : TRUE}] + expense[CHOOSE x \in s : TRUE].amount]
  <2>1. PICK f : SumsTurned(w, C, f)
    BY <1>2, TurnedExist
  <2>2. f = [s \in SUBSET C |->
               IF s = {} THEN 0
               ELSE f[s \ {CHOOSE x \in s : TRUE}] + expense[CHOOSE x \in s : TRUE].amount]
    BY <2>1, <1>4
  <2> QED
    BY <2>2
<1>6. h = [s \in SUBSET C |->
                   IF s = {} THEN 0
                   ELSE h[s \ {CHOOSE x \in s : TRUE}] + expense[CHOOSE x \in s : TRUE].amount]
  BY <1>5
<1> HIDE DEF h
<1>7. SumsTurned(w, C, h)
  BY <1>4, <1>6
<1> QED
  BY <1>1, <1>2, <1>7, TurnedIs DEF w

\* What the rows of a summary add up to, by either field.
LEMMA OverAllAddsUp ==
    ASSUME NEW C, C = DOMAIN Records!breakdown, IsFiniteSet(C), NEW field, NEW w, Naturals(w, C),
           \A c \in C : w[c] = Records!breakdown[c][field]
    PROVE  Records!overAll(field) = Total(w, C)
<1> DEFINE b == Records!breakdown
           h == CHOOSE f : f = [s \in SUBSET C |->
                   IF s = {} THEN 0
                   ELSE f[s \ {CHOOSE x \in s : TRUE}] + b[CHOOSE x \in s : TRUE][field]]
<1>1. Records!overAll(field) = h[C]
  BY DEF Records!overAll, Records!FoldSet, Records!MapThenFoldSet
<1>3. \A s \in SUBSET C : s # {} => w[AnyOf(s)] = b[CHOOSE x \in s : TRUE][field]
  BY DEF AnyOf
<1> HIDE DEF b
<1>4. \A f : SumsTurned(w, C, f) <=> f = [s \in SUBSET C |->
                   IF s = {} THEN 0
                   ELSE f[s \ {CHOOSE x \in s : TRUE}] + b[CHOOSE x \in s : TRUE][field]]
  BY <1>3 DEF SumsTurned, AnyOf
<1>5. \E f : f = [s \in SUBSET C |->
                   IF s = {} THEN 0
                   ELSE f[s \ {CHOOSE x \in s : TRUE}] + b[CHOOSE x \in s : TRUE][field]]
  <2>1. PICK f : SumsTurned(w, C, f)
    BY TurnedExist
  <2>2. f = [s \in SUBSET C |->
               IF s = {} THEN 0
               ELSE f[s \ {CHOOSE x \in s : TRUE}] + b[CHOOSE x \in s : TRUE][field]]
    BY <2>1, <1>4
  <2> QED
    BY <2>2
<1>6. h = [s \in SUBSET C |->
                   IF s = {} THEN 0
                   ELSE h[s \ {CHOOSE x \in s : TRUE}] + b[CHOOSE x \in s : TRUE][field]]
  BY <1>5
<1> HIDE DEF h
<1>7. SumsTurned(w, C, h)
  BY <1>4, <1>6
<1> QED
  BY <1>1, <1>7, TurnedIs

Categorized == {expense[e].category : e \in Records!OfTrip}

LEMMA SummarySound ==
    ASSUME IsFiniteSet(Expenses), \A e \in Records!OfTrip : expense[e].amount \in Nat
    PROVE  Records!SummaryAddsUp
<1> DEFINE T == Records!OfTrip
           D == Categorized
           w == AmountOf
           t == Total(w, T)
           v == GroupTotals(w, T, CategoryOf, D)
           p == [c \in D |-> IF t > 0 THEN Share(v[c], t) ELSE 0]
<1>1. IsFiniteSet(T) /\ IsFiniteSet(D) /\ Naturals(w, T)
  <2>1. T \subseteq Expenses
    BY DEF Records!OfTrip
  <2>2. IsFiniteSet(T)
    BY <2>1, FS_Subset
  <2>3. IsFiniteSet(D)
    <3>1. D = {CategoryOf[e] : e \in T}
      BY DEF Categorized, CategoryOf
    <3> QED
      BY <2>2, <3>1, FiniteImage
  <2>4. Naturals(w, T)
    BY DEF Naturals, AmountOf
  <2> QED
    BY <2>2, <2>3, <2>4
<1>2. Records!totalExpense = t /\ t \in Nat
  BY <1>1, AmountsAddUp, TotalType DEF Records!totalExpense
<1>3. \A c \in D : Records!amountOf({e \in T : expense[e].category = c}) = v[c]
  <2> SUFFICES ASSUME NEW c \in D
               PROVE  Records!amountOf({e \in T : expense[e].category = c}) = v[c]
    OBVIOUS
  <2>1. {e \in T : expense[e].category = c} = InGroup(T, CategoryOf, c)
    BY DEF InGroup, CategoryOf
  <2>2. InGroup(T, CategoryOf, c) \in SUBSET T
    BY DEF InGroup
  <2>3. IsFiniteSet(InGroup(T, CategoryOf, c))
    BY <1>1, <2>2, FS_Subset
  <2>4. Records!amountOf(InGroup(T, CategoryOf, c)) = Total(w, InGroup(T, CategoryOf, c))
    BY <1>1, <2>2, <2>3, AmountsAddUp
  <2> QED
    BY <2>1, <2>4 DEF GroupTotals
<1>4. Naturals(v, D) /\ Total(v, D) = t
  <2>1. InGroups(T, CategoryOf, D) = T
    BY DEF InGroups, CategoryOf, Categorized
  <2> HIDE DEF T, D, w
  <2> QED
    BY <1>1, <2>1, GroupsAddUp
<1> HIDE DEF v, t
<1>5. /\ DOMAIN Records!breakdown = D
      /\ \A c \in D : Records!breakdown[c] = [totalAmount |-> v[c], percentage |-> p[c]]
  <2>1. Records!breakdown = [c \in D |->
            [totalAmount |-> Records!amountOf({e \in T : expense[e].category = c}),
             percentage |-> IF Records!totalExpense > 0
                            THEN Records!Rounded(1000 * Records!amountOf({e \in T : expense[e].category = c}),
                                                 Records!totalExpense)
                            ELSE 0]]
    BY DEF Records!breakdown, Categorized
  <2> HIDE DEF T, D
  <2>2. DOMAIN Records!breakdown = D
    BY <2>1
  <2>3. ASSUME NEW c \in D
        PROVE  Records!breakdown[c] = [totalAmount |-> v[c], percentage |-> p[c]]
    <3>1. Records!amountOf({e \in T : expense[e].category = c}) = v[c]
      BY <1>3
    <3>2. p[c] = IF t > 0 THEN Share(v[c], t) ELSE 0
      OBVIOUS
    <3> HIDE DEF p
    <3> QED
      BY <1>2, <2>1, <3>1, <3>2 DEF Share
  <2> QED
    BY <2>2, <2>3
<1>6. Records!overAll("totalAmount") = t
  <2>1. \A c \in D : v[c] = Records!breakdown[c]["totalAmount"]
    BY <1>5
  <2> QED
    BY <1>1, <1>4, <1>5, <2>1, OverAllAddsUp
<1>7. Cardinality(D) \in Nat
  BY <1>1, FS_CardinalityType
<1>8. \A n \in Int : Records!Max({n, - n}) \in {n, - n}
  <2> SUFFICES ASSUME NEW n \in Int PROVE Records!Max({n, - n}) \in {n, - n}
    OBVIOUS
  <2>1. \E m \in {n, - n} : \A k \in {n, - n} : m >= k
    OBVIOUS
  <2> QED
    BY <2>1 DEF Records!Max
<1>9. CASE t = 0
  <2>1. Records!Max({0, - 0}) \in {0, - 0}
    BY <1>8
  <2>2. 2 * Records!Max({0, - 0}) <= Cardinality(DOMAIN Records!breakdown)
    BY <1>5, <1>7, <2>1
  <2> QED
    BY <1>2, <1>6, <1>9, <2>2 DEF Records!SummaryAddsUp, Records!Cardinality, Cardinality
<1>10. CASE t # 0
  <2>1. t \in Nat \ {0} /\ t > 0
    BY <1>2, <1>10
  <2>2. \A c \in D : p[c] = Share(v[c], t)
    BY <2>1
  <2> HIDE DEF p
  <2>3. /\ Naturals(p, D) /\ 2 * Total(p, D) <= 2000 + Cardinality(D)
        /\ 2000 <= 2 * Total(p, D) + Cardinality(D)
    BY <1>1, <1>4, <2>1, <2>2, RoundedAddUp
  <2>4. Total(p, D) \in Nat
    BY <1>1, <2>3, TotalType
  <2>5. Records!overAll("percentage") = Total(p, D)
    <3>1. \A c \in D : p[c] = Records!breakdown[c]["percentage"]
      BY <1>5
    <3> QED
      BY <1>1, <1>5, <2>3, <3>1, OverAllAddsUp
  <2> DEFINE off == Records!overAll("percentage") - 1000
  <2>6. off \in Int /\ 2 * off <= Cardinality(D) /\ 2 * (- off) <= Cardinality(D)
    BY <1>7, <2>3, <2>4, <2>5
  <2> HIDE DEF off
  <2>7. 2 * Records!Max({off, - off}) <= Cardinality(D)
    BY <1>7, <1>8, <2>6
  <2> QED
    BY <1>2, <1>5, <1>6, <1>10, <2>7
       DEF Records!SummaryAddsUp, Records!Cardinality, Cardinality, off
<1> QED
  BY <1>9, <1>10

\* Expenses have an amount, and there are finitely many.
LEMMA TripSummed ==
    ASSUME RecordAssumptions, RecordsTyped
    PROVE  Records!SummaryAddsUp
<1>1. expense \in [Expenses -> Records!ExpenseRow \union {None}]
  BY DEF RecordsTyped, Records!TypeOK
<1>2. \A e \in Records!OfTrip : e \in Expenses /\ expense[e] \in Records!ExpenseRow
  BY <1>1 DEF Records!OfTrip
<1>3. \A e \in Records!OfTrip : expense[e].amount \in Nat
  BY <1>2 DEF Records!ExpenseRow, RecordAssumptions
<1> QED
  BY <1>3, SummarySound DEF RecordAssumptions

-----------------------------------------------------------------------------
(* All pages of a list.                                                    *)

\* There are as many pages as it takes, and one at least.
Paged(total, limit, pages) ==
    /\ pages \in Nat \ {0} /\ total <= pages * limit
    /\ pages = 1 \/ (pages - 1) * limit < total

LEMMA Times ==
    ASSUME NEW a \in Nat, NEW b \in Nat, NEW limit \in Nat, a <= b
    PROVE  a * limit <= b * limit /\ a * limit \in Nat /\ b * limit \in Nat
<1>1. b * limit = a * limit + (b - a) * limit /\ (b - a) * limit >= 0
  OBVIOUS
<1> QED
  BY <1>1

LEMMA PagesOf ==
    ASSUME NEW total \in Nat, NEW limit \in Nat \ {0}
    PROVE  /\ Paged(total, limit, IF total = 0 THEN 1 ELSE (total + limit - 1) \div limit)
           /\ total # 0 => (total + limit - 1) \div limit >= 1
<1> DEFINE a == total + limit - 1
           q == a \div limit
<1>1. q \in Nat /\ a % limit \in 0 .. limit - 1 /\ a = (limit * q) + (a % limit) /\ a \in Nat
  OBVIOUS
<1>2. q * limit = limit * q
  BY <1>1
<1>3. total <= q * limit /\ q * limit <= total + limit - 1 /\ q * limit \in Nat
  BY <1>1, <1>2
<1>4. total # 0 => q # 0
  BY <1>1, <1>3
<1>5. (q - 1) * limit = q * limit - limit
  BY <1>1
<1>6. (q - 1) * limit < total
  BY <1>3, <1>5
<1>7. total # 0 => Paged(total, limit, q)
  BY <1>1, <1>3, <1>4, <1>6 DEF Paged
<1>8. 1 * limit = limit
  OBVIOUS
<1>9. Paged(0, limit, 1)
  BY <1>8 DEF Paged
<1> QED
  BY <1>1, <1>4, <1>7, <1>9

\* Each number up to the total is on one page, in one place.
LEMMA OnePlace ==
    ASSUME NEW total \in Nat, NEW limit \in Nat \ {0}, NEW pages, Paged(total, limit, pages),
           NEW x \in 1 .. total
    PROVE  \E k \in 1 .. pages, i \in 1 .. limit :
              /\ (k - 1) * limit + i = x
              /\ \A l \in 1 .. pages, j \in 1 .. limit : (l - 1) * limit + j = x => l = k /\ j = i
<1> DEFINE S == {k \in Nat : x <= k * limit}
<1>1. pages \in Nat /\ pages \in S /\ S \in SUBSET Nat
  BY DEF Paged
<1>2. PICK k \in S : \A l \in S : k <= l
  BY <1>1, LeastOf
<1>3. k \in Nat /\ x <= k * limit /\ k <= pages
  BY <1>1, <1>2
<1>4. k # 0
  BY <1>3
<1>5. k - 1 \in Nat /\ k - 1 \notin S
  BY <1>2, <1>3, <1>4
<1>6. (k - 1) * limit < x /\ (k - 1) * limit = k * limit - limit
  BY <1>3, <1>5
<1> DEFINE i == x - (k - 1) * limit
<1>7. i \in 1 .. limit /\ (k - 1) * limit + i = x /\ k \in 1 .. pages
  BY <1>1, <1>3, <1>4, <1>6
<1> HIDE DEF S
<1>8. ASSUME NEW l \in 1 .. pages, NEW j \in 1 .. limit, (l - 1) * limit + j = x
      PROVE  l = k /\ j = i
  <2>0. l \in Nat /\ l - 1 \in Nat /\ j \in Nat /\ (l - 1) * limit = l * limit - limit
    BY <1>1
  <2>1. ~ (l < k)
    <3>1. SUFFICES ASSUME l <= k - 1 PROVE FALSE
      BY <1>3, <2>0
    <3>2. l * limit <= (k - 1) * limit
      BY <3>1, <1>5, <2>0, Times
    <3>3. l * limit \in Nat /\ (k - 1) * limit \in Nat
      BY <1>5, <2>0
    <3> QED
      BY <1>8, <3>2, <3>3, <2>0, <1>6
  <2>2. ~ (k < l)
    <3>1. SUFFICES ASSUME k <= l - 1 PROVE FALSE
      BY <1>3, <2>0
    <3>2. k * limit <= (l - 1) * limit
      BY <3>1, <1>3, <2>0, Times
    <3>3. k * limit \in Nat /\ (l - 1) * limit \in Nat
      BY <1>3, <2>0
    <3> QED
      BY <1>8, <3>2, <3>3, <2>0, <1>3
  <2>3. l = k
    BY <2>1, <2>2, <2>0, <1>3
  <2> QED
    BY <2>3, <1>8, <1>7, <1>5, <2>0
<1> QED
  BY <1>7, <1>8

\* What is in place i of page k.
LEMMA PageHas ==
    ASSUME NEW S, NEW all \in Seq(S), NEW limit \in Nat \ {0}, NEW pages,
           Paged(Len(all), limit, pages), NEW k \in 1 .. pages
    PROVE  LET leaves == Rows(all, (k - 1) * limit, limit)
           IN  /\ DOMAIN leaves \subseteq 1 .. limit
               /\ \A i \in 1 .. limit :
                     i \in DOMAIN leaves <=> (k - 1) * limit + i \in 1 .. Len(all)
               /\ \A i \in DOMAIN leaves : leaves[i] = all[(k - 1) * limit + i]
<1> DEFINE offset == (k - 1) * limit
           leaves == Rows(all, offset, limit)
           m == IF Len(all) < offset + limit THEN Len(all) - offset ELSE limit
<1>1. Len(all) \in Nat /\ pages \in Nat \ {0} /\ k - 1 \in Nat /\ k - 1 <= pages - 1 /\ pages - 1 \in Nat
  BY DEF Paged
<1>2. offset \in Nat /\ offset <= (pages - 1) * limit
  BY <1>1, Times
<1>3. offset <= Len(all)
  <2>1. CASE pages = 1
    <3>1. k - 1 = 0
      BY <2>1, <1>1
    <3>2. offset = 0
      BY <3>1
    <3> QED
      BY <3>2, <1>1
  <2>2. CASE (pages - 1) * limit < Len(all)
    <3>1. (pages - 1) * limit \in Nat
      BY <1>1
    <3> QED
      BY <2>2, <1>2, <1>1, <3>1
  <2> QED
    BY <2>1, <2>2 DEF Paged
<1> HIDE DEF offset
<1>4. Excerpt(S, all, offset, limit, leaves)
  BY <1>2, <1>3, RowsAre
<1> HIDE DEF leaves
<1>5. /\ m \in Nat /\ offset + m <= Len(all) /\ leaves \in Seq(S) /\ Len(leaves) = m
      /\ \A i \in 1 .. m : leaves[i] = all[offset + i]
  BY <1>4 DEF Excerpt
<1>6. DOMAIN leaves = 1 .. m
  BY <1>5
<1>7. \A i \in 1 .. limit : i \in 1 .. m <=> offset + i \in 1 .. Len(all)
  BY <1>1, <1>2, <1>5
<1>8. 1 .. m \subseteq 1 .. limit
  BY <1>1, <1>2
<1> QED
  BY <1>5, <1>6, <1>7, <1>8 DEF leaves, offset

\* Where the pages have t.
Spots(leaves, t) ==
    {p \in UNION {{k} \X DOMAIN leaves[k] : k \in DOMAIN leaves} : leaves[p[1]][p[2]] = t}

LEMMA SpotIs ==
    ASSUME NEW leaves, NEW t, NEW p
    PROVE  p \in Spots(leaves, t) <=>
              /\ p = <<p[1], p[2]>> /\ p[1] \in DOMAIN leaves /\ p[2] \in DOMAIN leaves[p[1]]
              /\ leaves[p[1]][p[2]] = t
BY DEF Spots

\* What a list has once is in one place on all its pages, and what it has not is in none.
LEMMA OnceShown ==
    ASSUME NEW S, NEW all \in Seq(S), \A k, l \in 1 .. Len(all) : all[k] = all[l] => k = l,
           NEW limit \in Nat \ {0}, NEW pages, Paged(Len(all), limit, pages),
           NEW leaves, leaves = [k \in 1 .. pages |-> Rows(all, (k - 1) * limit, limit)], NEW t
    PROVE  Cardinality(Spots(leaves, t)) = IF \E x \in 1 .. Len(all) : all[x] = t THEN 1 ELSE 0
<1>1. ASSUME NEW k \in 1 .. pages
      PROVE  /\ DOMAIN leaves[k] \subseteq 1 .. limit
             /\ \A i \in 1 .. limit :
                   i \in DOMAIN leaves[k] <=> (k - 1) * limit + i \in 1 .. Len(all)
             /\ \A i \in DOMAIN leaves[k] : leaves[k][i] = all[(k - 1) * limit + i]
  BY PageHas
<1>2. Len(all) \in Nat /\ DOMAIN leaves = 1 .. pages
  OBVIOUS
<1>3. CASE \E x \in 1 .. Len(all) : all[x] = t
  <2>1. PICK x \in 1 .. Len(all) : all[x] = t
    BY <1>3
  <2>2. PICK k \in 1 .. pages, i \in 1 .. limit :
              /\ (k - 1) * limit + i = x
              /\ \A l \in 1 .. pages, j \in 1 .. limit : (l - 1) * limit + j = x => l = k /\ j = i
    BY <1>2, OnePlace
  <2>3. <<k, i>> \in Spots(leaves, t)
    <3>1. i \in DOMAIN leaves[k] /\ leaves[k][i] = t
      BY <1>1, <2>1, <2>2
    <3>2. <<k, i>>[1] = k /\ <<k, i>>[2] = i
      OBVIOUS
    <3> QED
      BY <1>2, <3>1, <3>2, SpotIs, Zenon
  <2>4. ASSUME NEW p \in Spots(leaves, t) PROVE p = <<k, i>>
    <3>1. /\ p = <<p[1], p[2]>> /\ p[1] \in 1 .. pages /\ p[2] \in DOMAIN leaves[p[1]]
          /\ leaves[p[1]][p[2]] = t
      <4>1. /\ p = <<p[1], p[2]>> /\ p[1] \in DOMAIN leaves /\ p[2] \in DOMAIN leaves[p[1]]
            /\ leaves[p[1]][p[2]] = t
        BY <2>4 DEF Spots
      <4> QED
        BY <1>2, <4>1, Zenon
    <3>2. p[2] \in 1 .. limit /\ (p[1] - 1) * limit + p[2] \in 1 .. Len(all)
      BY <3>1, <1>1
    <3>3. all[(p[1] - 1) * limit + p[2]] = all[x]
      BY <3>1, <1>1, <2>1
    <3>4. (p[1] - 1) * limit + p[2] = x
      BY <3>2, <3>3
    <3> QED
      BY <3>1, <3>2, <3>4, <2>2
  <2>5. Spots(leaves, t) = {<<k, i>>}
    BY <2>3, <2>4
  <2> QED
    BY <2>5, <1>3, FS_Singleton
<1>4. CASE ~ \E x \in 1 .. Len(all) : all[x] = t
  <2>1. ASSUME NEW p \in Spots(leaves, t) PROVE FALSE
    <3>1. p[1] \in 1 .. pages /\ p[2] \in DOMAIN leaves[p[1]] /\ leaves[p[1]][p[2]] = t
      BY <1>2, SpotIs, Zenon
    <3>2. (p[1] - 1) * limit + p[2] \in 1 .. Len(all)
      BY <3>1, <1>1
    <3>3. all[(p[1] - 1) * limit + p[2]] = t
      BY <3>1, <1>1
    <3> QED
      BY <3>2, <3>3, <1>4
  <2>2. Spots(leaves, t) = {}
    BY <2>1
  <2> QED
    BY <2>2, <1>4, FS_EmptySet
<1> QED
  BY <1>3, <1>4

\* As many things as places, or less.
LEMMA ImageOfPlaces ==
    \A f : \A n \in Nat :
        /\ IsFiniteSet({f[k] : k \in 1 .. n}) /\ Cardinality({f[k] : k \in 1 .. n}) <= n
        /\ (\A k, l \in 1 .. n : f[k] = f[l] => k = l) => Cardinality({f[k] : k \in 1 .. n}) = n
<1> SUFFICES ASSUME NEW n \in Nat, NEW f
             PROVE  /\ IsFiniteSet({f[k] : k \in 1 .. n}) /\ Cardinality({f[k] : k \in 1 .. n}) <= n
                    /\ (\A k, l \in 1 .. n : f[k] = f[l] => k = l) =>
                          Cardinality({f[k] : k \in 1 .. n}) = n
  OBVIOUS
<1> DEFINE got == {f[k] : k \in 1 .. n}
           g == [k \in 1 .. n |-> f[k]]
<1>1. IsFiniteSet(1 .. n) /\ Cardinality(1 .. n) = n
  BY FS_Interval
<1>2. g \in Surjection(1 .. n, got)
  BY DEF Surjection
<1>3. (\A k, l \in 1 .. n : f[k] = f[l] => k = l) => g \in Injection(1 .. n, got)
  BY DEF Injection, IsInjective
<1> HIDE DEF g
<1>4. /\ IsFiniteSet(got) /\ Cardinality(got) <= n
      /\ g \in Injection(1 .. n, got) => Cardinality(got) = n
  BY <1>1, <1>2, FS_Surjection
<1> QED
  BY <1>3, <1>4

\* o lists the members of a finite set, those with the greater date first.
Dated(o, S, date) ==
    /\ o \in [1 .. Cardinality(S) -> S]
    /\ \A a, b \in DOMAIN o : o[a] = o[b] => a = b
    /\ \A a, b \in DOMAIN o : a < b => date[o[a]] >= date[o[b]]

LEMMA ListingHasAll ==
    ASSUME NEW S, IsFiniteSet(S), NEW date, NEW o, Dated(o, S, date)
    PROVE  Cardinality(S) \in Nat /\ \A i \in S : \E k \in 1 .. Cardinality(S) : o[k] = i
<1> DEFINE n == Cardinality(S)
           got == {o[k] : k \in 1 .. n}
<1>1. n \in Nat /\ IsFiniteSet(1 .. n) /\ Cardinality(1 .. n) = n
  BY FS_CardinalityType, FS_Interval
<1>2. got \subseteq S /\ o \in [1 .. n -> S]
  BY DEF Dated
<1>3. IsFiniteSet(got) /\ Cardinality(got) = n
  <2>1. \A k, l \in 1 .. n : o[k] = o[l] => k = l
    BY <1>2 DEF Dated
  <2> QED
    BY <1>1, <2>1, ImageOfPlaces
<1>4. got = S
  BY <1>2, <1>3, FS_Subset
<1> QED
  BY <1>1, <1>4

\* Two lists of the same rows have the same dates in the same places, whatever they do
\* with rows of one date.
LEMMA SameDates ==
    ASSUME NEW S, IsFiniteSet(S), NEW date, \A i \in S : date[i] \in Int,
           NEW o, Dated(o, S, date), NEW u, Dated(u, S, date),
           NEW a \in 1 .. Cardinality(S), NEW b \in 1 .. Cardinality(S), a <= b
    PROVE  date[o[a]] >= date[u[b]]
<1> DEFINE n == Cardinality(S)
           early == {u[k] : k \in 1 .. b}
<1>1. SUFFICES ASSUME ~ (date[o[a]] >= date[u[b]]) PROVE FALSE
  OBVIOUS
<1>2. n \in Nat /\ \A i \in S : \E k \in 1 .. n : o[k] = i
  BY ListingHasAll
<1>3. /\ \A k \in 1 .. n : o[k] \in S /\ u[k] \in S
      /\ \A k, l \in 1 .. n : k < l => date[o[k]] >= date[o[l]] /\ date[u[k]] >= date[u[l]]
      /\ \A k, l \in 1 .. n : u[k] = u[l] => k = l
  BY DEF Dated
<1>4. date[o[a]] \in Int /\ date[u[b]] \in Int /\ date[o[a]] < date[u[b]]
  BY <1>1, <1>3
<1>5. ASSUME NEW i \in early PROVE \E l \in 1 .. a - 1 : o[l] = i
  <2>1. PICK k \in 1 .. b : i = u[k]
    OBVIOUS
  <2>2. k \in 1 .. n /\ i \in S /\ date[i] >= date[u[b]]
    BY <1>2, <1>3, <2>1
  <2>3. PICK l \in 1 .. n : o[l] = i
    BY <1>2, <2>2
  <2>4. ~ (a <= l)
    BY <1>3, <1>4, <2>2, <2>3, <1>2
  <2> QED
    BY <1>2, <2>3, <2>4
<1>6. early \subseteq {o[l] : l \in 1 .. a - 1}
  BY <1>5
<1>7. Cardinality(early) = b /\ IsFiniteSet(early)
  <2>1. b \in Nat /\ \A k, l \in 1 .. b : u[k] = u[l] => k = l
    BY <1>2, <1>3
  <2> QED
    BY <2>1, ImageOfPlaces
<1> DEFINE rest == {o[l] : l \in 1 .. a - 1}
<1>8. IsFiniteSet(rest) /\ Cardinality(rest) <= a - 1
  <2>1. a - 1 \in Nat
    BY <1>2
  <2> QED
    BY <2>1, ImageOfPlaces
<1>9. Cardinality(early) <= Cardinality(rest) /\ Cardinality(rest) \in Nat
  BY <1>6, <1>8, FS_Subset, FS_CardinalityType
<1> QED
  BY <1>2, <1>7, <1>8, <1>9

\* The pages of a list that is sorted anew for each, which rows of one date may spoil.
Leafed(S, date, limit, pages, orders, leaves) ==
    /\ \A k \in 1 .. pages : Dated(orders[k], S, date)
    /\ leaves = [k \in 1 .. pages |-> Rows(orders[k], (k - 1) * limit, limit)]

\* Page k has what its own order has in its places.
Carried(S, limit, order, leaf, k) ==
    /\ DOMAIN leaf \subseteq 1 .. limit
    /\ \A m \in DOMAIN leaf :
          /\ (k - 1) * limit + m \in 1 .. Cardinality(S)
          /\ leaf[m] = order[(k - 1) * limit + m]

LEMMA LeafedHas ==
    ASSUME NEW S, IsFiniteSet(S), NEW date, NEW limit \in Nat \ {0}, NEW pages,
           Paged(Cardinality(S), limit, pages), NEW orders, NEW leaves,
           Leafed(S, date, limit, pages, orders, leaves)
    PROVE  \A k \in 1 .. pages : Carried(S, limit, orders[k], leaves[k], k)
<1> TAKE k \in 1 .. pages
<1>1. Cardinality(S) \in Nat /\ Dated(orders[k], S, date)
      /\ leaves[k] = Rows(orders[k], (k - 1) * limit, limit)
  BY FS_CardinalityType DEF Leafed
<1>2. orders[k] \in Seq(S) /\ Len(orders[k]) = Cardinality(S)
  BY <1>1 DEF Dated
<1> DEFINE all == orders[k]
<1> HIDE DEF all
<1>3. all \in Seq(S) /\ Paged(Len(all), limit, pages) /\ leaves[k] = Rows(all, (k - 1) * limit, limit)
  BY <1>1, <1>2 DEF all
<1>4. /\ DOMAIN leaves[k] \subseteq 1 .. limit
      /\ \A i \in 1 .. limit :
            i \in DOMAIN leaves[k] <=> (k - 1) * limit + i \in 1 .. Len(all)
      /\ \A i \in DOMAIN leaves[k] : leaves[k][i] = all[(k - 1) * limit + i]
  BY <1>3, PageHas
<1> QED
  BY <1>2, <1>4 DEF all, Carried

LEMMA LatestFirst ==
    ASSUME NEW S, IsFiniteSet(S), NEW date, \A i \in S : date[i] \in Int,
           NEW limit \in Nat \ {0}, NEW pages, Paged(Cardinality(S), limit, pages),
           NEW orders, NEW leaves, Leafed(S, date, limit, pages, orders, leaves),
           NEW k \in 1 .. pages, NEW l \in 1 .. pages,
           NEW i \in DOMAIN leaves[k], NEW j \in DOMAIN leaves[l], k < l \/ (k = l /\ i < j)
    PROVE  date[leaves[k][i]] >= date[leaves[l][j]]
<1> DEFINE a == (k - 1) * limit + i
           b == (l - 1) * limit + j
<1>1. /\ a \in 1 .. Cardinality(S) /\ leaves[k][i] = orders[k][a] /\ i \in 1 .. limit
      /\ b \in 1 .. Cardinality(S) /\ leaves[l][j] = orders[l][b] /\ j \in 1 .. limit
  <2>1. Carried(S, limit, orders[k], leaves[k], k) /\ Carried(S, limit, orders[l], leaves[l], l)
    BY LeafedHas
  <2> QED
    BY <2>1 DEF Carried
<1>2. k \in Nat /\ l \in Nat /\ k - 1 \in Nat /\ l - 1 \in Nat
  BY DEF Paged
<1>3. a <= b
  <2>1. CASE k < l
    <3>1. k * limit <= (l - 1) * limit /\ k * limit \in Nat /\ (l - 1) * limit \in Nat
      BY <1>2, <2>1, Times
    <3>2. (k - 1) * limit + limit = k * limit /\ (k - 1) * limit \in Nat
      BY <1>2
    <3> QED
      BY <1>1, <3>1, <3>2
  <2>2. CASE k = l /\ i < j
    <3>1. (k - 1) * limit \in Nat
      BY <1>2
    <3> QED
      BY <1>1, <2>2, <3>1
  <2> QED
    BY <2>1, <2>2
<1> HIDE DEF a, b
<1>4. Dated(orders[k], S, date) /\ Dated(orders[l], S, date)
  BY DEF Leafed
<1>5. date[orders[k][a]] >= date[orders[l][b]]
  BY <1>1, <1>3, <1>4, SameDates
<1> QED
  BY <1>1, <1>5

LEMMA LeafedOnce ==
    ASSUME NEW S, IsFiniteSet(S), NEW date, \A i \in S : date[i] \in Int,
           \A i, j \in S : date[i] = date[j] => i = j,
           NEW limit \in Nat \ {0}, NEW pages, Paged(Cardinality(S), limit, pages),
           NEW orders, NEW leaves, Leafed(S, date, limit, pages, orders, leaves), NEW t \in S
    PROVE  Cardinality(Spots(leaves, t)) = 1
<1> DEFINE n == Cardinality(S)
           all == orders[1]
<1>1. n \in Nat /\ 1 \in 1 .. pages
  BY FS_CardinalityType DEF Paged
<1>2. Dated(all, S, date)
  BY <1>1 DEF Leafed
<1>3. /\ all \in Seq(S) /\ Len(all) = n
      /\ \A k, l \in 1 .. Len(all) : all[k] = all[l] => k = l
  <2>1. all \in [1 .. n -> S] /\ \A k, l \in 1 .. n : all[k] = all[l] => k = l
    BY <1>2 DEF Dated
  <2> QED
    BY <1>1, <2>1
<1>4. ASSUME NEW k \in 1 .. pages PROVE orders[k] = all
  <2>1. Dated(orders[k], S, date)
    BY DEF Leafed
  <2>2. orders[k] \in [1 .. n -> S] /\ all \in [1 .. n -> S]
    BY <1>2, <2>1 DEF Dated
  <2>3. ASSUME NEW a \in 1 .. n PROVE orders[k][a] = all[a]
    <3>1. a <= a
      BY <1>1
    <3>2. date[orders[k][a]] >= date[all[a]] /\ date[all[a]] >= date[orders[k][a]]
      BY <1>2, <2>1, <3>1, SameDates
    <3>3. orders[k][a] \in S /\ all[a] \in S
      BY <2>2
    <3>4. date[orders[k][a]] = date[all[a]]
      BY <3>2, <3>3
    <3> QED
      BY <3>3, <3>4
  <2>4. orders[k] = [a \in 1 .. n |-> orders[k][a]] /\ all = [a \in 1 .. n |-> all[a]]
    BY <2>2
  <2>5. [a \in 1 .. n |-> orders[k][a]] = [a \in 1 .. n |-> all[a]]
    BY <2>3
  <2> QED
    BY <2>4, <2>5, Zenon
<1>5. leaves = [k \in 1 .. pages |-> Rows(all, (k - 1) * limit, limit)]
  BY <1>4 DEF Leafed
<1>6. \E x \in 1 .. Len(all) : all[x] = t
  BY <1>2, <1>3, ListingHasAll
<1> HIDE DEF all, n
<1>7. Paged(Len(all), limit, pages)
  BY <1>3 DEF n
<1> QED
  BY <1>3, <1>5, <1>6, <1>7, OnceShown

LEMMA SameFavoring ==
    /\ \A S, R : Favoring!Sorted(S, R) = Sorted(S, R)
    /\ \A all, offset, limit : Favoring!Rows(all, offset, limit) = Rows(all, offset, limit)
    /\ \A S : Favoring!Cardinality(S) = Cardinality(S)
<1>1. \A S : Favoring!Cardinality(S) = Cardinality(S)
  BY DEF Favoring!Cardinality, Cardinality
<1>2. \A S, R : Favoring!Sorted(S, R) = Sorted(S, R)
  BY DEF Favoring!Sorted, Sorted, Favoring!Cardinality, Cardinality
<1>3. \A all, offset, limit : Favoring!Rows(all, offset, limit) = Rows(all, offset, limit)
  BY DEF Favoring!Rows, Rows
<1> QED
  BY <1>1, <1>2, <1>3

\* The places of the favorites of a type, in order.
OfThe(type) == {k \in DOMAIN favorite : type \in {"ALL", Kind[favorite[k]]}}
AheadIn(type) == {p \in OfThe(type) \X OfThe(type) : p[1] < p[2]}

LEMMA PlacesInOrder ==
    ASSUME favorite \in Seq(Targets), NEW type
    PROVE  LET o == Sorted(OfThe(type), AheadIn(type))
           IN  /\ o \in Seq(OfThe(type)) /\ OfThe(type) \subseteq 1 .. Len(favorite)
               /\ \A i \in OfThe(type) : \E k \in 1 .. Len(o) : o[k] = i
               /\ \A a, b \in 1 .. Len(o) : o[a] = o[b] => a = b
<1> DEFINE S == OfThe(type)
           R == AheadIn(type)
           o == Sorted(S, R)
<1>1. S \subseteq 1 .. Len(favorite) /\ Len(favorite) \in Nat
  BY DEF OfThe
<1>2. IsFiniteSet(S)
  <2>1. IsFiniteSet(1 .. Len(favorite))
    BY <1>1, FS_Interval
  <2> QED
    BY <1>1, <2>1, FS_Subset
<1>3. \A a, b \in S : <<a, b>> \in R <=> a < b
  BY DEF AheadIn
<1> HIDE DEF R, S, o
<1>4. Orders(R, S)
  BY <1>1, <1>3 DEF Orders
<1>5. InTheOrder(o, R, S)
  BY <1>2, <1>4, SortedInOrder DEF o
<1>6. /\ o \in Seq(S) /\ \A i \in S : \E k \in 1 .. Len(o) : o[k] = i
      /\ \A a, b \in 1 .. Len(o) : a < b => <<o[a], o[b]>> \in R
  BY <1>5 DEF InTheOrder
<1>7. Len(o) \in Nat /\ \A a \in 1 .. Len(o) : o[a] \in S
  BY <1>6
<1>8. \A a, b \in 1 .. Len(o) : a < b => o[a] < o[b]
  BY <1>3, <1>6, <1>7
<1>9. \A a, b \in 1 .. Len(o) : o[a] = o[b] => a = b
  <2>1. \A a \in 1 .. Len(o) : o[a] \in 1 .. Len(favorite)
    BY <1>1, <1>7
  <2> QED
    BY <1>7, <1>8, <2>1
<1> QED
  BY <1>1, <1>6, <1>9 DEF S, R, o

\* A list has the favorites of its type, each of them once.
LEMMA OfTypeIs ==
    ASSUME FavoritesInv, NEW type
    PROVE  /\ Favoring!OfType(type) \in Seq(Targets)
           /\ \A k, l \in 1 .. Len(Favoring!OfType(type)) :
                 Favoring!OfType(type)[k] = Favoring!OfType(type)[l] => k = l
           /\ \A t : (\E k \in 1 .. Len(Favoring!OfType(type)) : Favoring!OfType(type)[k] = t)
                        <=> Favoring!getFavoriteStatus(t) /\ type \in {"ALL", Kind[t]}
<1> DEFINE o == Sorted(OfThe(type), AheadIn(type))
           all == Favoring!OfType(type)
<1>1. /\ favorite \in Seq(Targets)
      /\ \A k, l \in 1 .. Len(favorite) : favorite[k] = favorite[l] => k = l
  BY DEF FavoritesInv
<1>2. /\ o \in Seq(OfThe(type)) /\ OfThe(type) \subseteq 1 .. Len(favorite)
      /\ \A i \in OfThe(type) : \E k \in 1 .. Len(o) : o[k] = i
      /\ \A a, b \in 1 .. Len(o) : o[a] = o[b] => a = b
  BY <1>1, PlacesInOrder
<1>3. all = [n \in DOMAIN o |-> favorite[o[n]]]
  BY SameFavoring DEF Favoring!OfType, OfThe, AheadIn
<1>4. \A i : i \in OfThe(type) <=>
         i \in 1 .. Len(favorite) /\ type \in {"ALL", Kind[favorite[i]]}
  <2>1. DOMAIN favorite = 1 .. Len(favorite)
    BY <1>1
  <2> QED
    BY <2>1 DEF OfThe
<1> HIDE DEF o, all
<1>5. DOMAIN o = 1 .. Len(o) /\ Len(o) \in Nat /\ \A k \in 1 .. Len(o) : o[k] \in OfThe(type)
  BY <1>2
<1>6. \A k \in 1 .. Len(o) : o[k] \in 1 .. Len(favorite) /\ favorite[o[k]] \in Targets
  BY <1>1, <1>2, <1>5
<1>7. all \in Seq(Targets) /\ Len(all) = Len(o) /\ \A k \in 1 .. Len(o) : all[k] = favorite[o[k]]
  BY <1>3, <1>5, <1>6
<1>8. \A k, l \in 1 .. Len(all) : all[k] = all[l] => k = l
  BY <1>1, <1>2, <1>6, <1>7
<1>9. ASSUME NEW t
      PROVE  (\E k \in 1 .. Len(all) : all[k] = t)
                <=> Favoring!getFavoriteStatus(t) /\ type \in {"ALL", Kind[t]}
  <2>1. Favoring!getFavoriteStatus(t) <=> \E i \in 1 .. Len(favorite) : favorite[i] = t
    BY <1>1, StatusIs
  <2>2. ASSUME NEW k \in 1 .. Len(all), all[k] = t
        PROVE  Favoring!getFavoriteStatus(t) /\ type \in {"ALL", Kind[t]}
    BY <1>4, <1>5, <1>6, <1>7, <2>1, <2>2
  <2>3. ASSUME NEW i \in 1 .. Len(favorite), favorite[i] = t, type \in {"ALL", Kind[t]}
        PROVE  \E k \in 1 .. Len(all) : all[k] = t
    <3>1. PICK k \in 1 .. Len(o) : o[k] = i
      BY <1>2, <1>4, <2>3
    <3> QED
      BY <1>7, <2>3, <3>1
  <2> QED
    BY <2>1, <2>2, <2>3
<1> QED
  BY <1>7, <1>8, <1>9 DEF all

\* The places of t on the pages of a list of favorites.
ListSpots(type, t) ==
    {p \in UNION {{k} \X DOMAIN Favoring!getUserUnifiedFavorites(type, k)
                     : k \in 1 .. Favoring!totalPages(type)} :
        Favoring!getUserUnifiedFavorites(type, p[1])[p[2]] = t}

LEMMA ListSpotsAre ==
    ASSUME NEW type, NEW t, NEW leaves,
           leaves = [k \in 1 .. Favoring!totalPages(type) |->
                      Favoring!getUserUnifiedFavorites(type, k)]
    PROVE  ListSpots(type, t) = Spots(leaves, t)
<1>1. \A p : p \in Spots(leaves, t) <=>
              /\ p = <<p[1], p[2]>> /\ p[1] \in DOMAIN leaves /\ p[2] \in DOMAIN leaves[p[1]]
              /\ leaves[p[1]][p[2]] = t
  BY DEF Spots
<1>2. \A p : p \in ListSpots(type, t) <=>
              /\ p = <<p[1], p[2]>> /\ p[1] \in 1 .. Favoring!totalPages(type)
              /\ p[2] \in DOMAIN Favoring!getUserUnifiedFavorites(type, p[1])
              /\ Favoring!getUserUnifiedFavorites(type, p[1])[p[2]] = t
  BY DEF ListSpots
<1>3. /\ DOMAIN leaves = 1 .. Favoring!totalPages(type)
      /\ \A k \in DOMAIN leaves : leaves[k] = Favoring!getUserUnifiedFavorites(type, k)
  OBVIOUS
<1>4. \A p : p \in ListSpots(type, t) <=> p \in Spots(leaves, t)
  BY <1>1, <1>2, <1>3
<1> QED
  BY <1>4

LEMMA FavoritesListed ==
    ASSUME ListAssumptions, FavoritesInv
    PROVE  Favoring!ListedOnce
<1>1. ASSUME NEW type, NEW t
      PROVE  Favoring!Cardinality(ListSpots(type, t)) =
                IF Favoring!getFavoriteStatus(t) /\ type \in {"ALL", Kind[t]} THEN 1 ELSE 0
  <2> DEFINE all == Favoring!OfType(type)
             pages == Favoring!totalPages(type)
             leaves == [k \in 1 .. pages |-> Favoring!getUserUnifiedFavorites(type, k)]
  <2>1. /\ all \in Seq(Targets) /\ \A k, l \in 1 .. Len(all) : all[k] = all[l] => k = l
        /\ (\E k \in 1 .. Len(all) : all[k] = t)
              <=> Favoring!getFavoriteStatus(t) /\ type \in {"ALL", Kind[t]}
    BY OfTypeIs
  <2>2. PageSize \in Nat \ {0}
    BY DEF ListAssumptions
  <2>3. pages = IF all = <<>> THEN 1 ELSE (Len(all) + PageSize - 1) \div PageSize
    BY DEF Favoring!totalPages
  <2>4. leaves = [k \in 1 .. pages |-> Rows(all, (k - 1) * PageSize, PageSize)]
    BY SameFavoring DEF Favoring!getUserUnifiedFavorites
  <2>5. ListSpots(type, t) = Spots(leaves, t)
    BY ListSpotsAre
  <2> HIDE DEF all, pages, leaves
  <2>6. Len(all) \in Nat /\ (all = <<>> <=> Len(all) = 0)
    BY <2>1
  <2>7. Paged(Len(all), PageSize, pages)
    <3>1. Paged(Len(all), PageSize,
                IF Len(all) = 0 THEN 1 ELSE (Len(all) + PageSize - 1) \div PageSize)
      BY <2>2, <2>6, PagesOf
    <3> QED
      BY <2>3, <2>6, <3>1
  <2>8. Cardinality(Spots(leaves, t)) = IF \E x \in 1 .. Len(all) : all[x] = t THEN 1 ELSE 0
    BY <2>1, <2>2, <2>4, <2>7, OnceShown
  <2> QED
    BY <2>1, <2>5, <2>8, SameFavoring
<1> QED
  BY <1>1 DEF Favoring!ListedOnce, ListSpots

LEMMA SameRecords ==
    /\ \A all, offset, limit : Records!Rows(all, offset, limit) = Rows(all, offset, limit)
    /\ \A S : Records!Cardinality(S) = Cardinality(S)
BY DEF Records!Rows, Rows, Records!Cardinality, Cardinality

LEMMA LargerRecord ==
    ASSUME NEW a \in Int, NEW b \in Int
    PROVE  Records!Max({a, b}) = IF a <= b THEN b ELSE a
BY DEF Records!Max

\* One page at least, and as many as are needed.
LEMMA PagesCount ==
    ASSUME NEW total \in Nat, NEW limit \in Nat \ {0}
    PROVE  Paged(total, limit, Records!Max({1, (total + limit - 1) \div limit}))
<1> DEFINE q == (total + limit - 1) \div limit
<1>1. q \in Int
  OBVIOUS
<1>2. Records!Max({1, q}) = IF 1 <= q THEN q ELSE 1
  BY <1>1, LargerRecord
<1>3. /\ Paged(total, limit, IF total = 0 THEN 1 ELSE q)
      /\ total # 0 => q >= 1
  BY PagesOf
<1>4. total = 0 => ~ (1 < q)
  BY SMT
<1> HIDE DEF q
<1>5. Records!Max({1, q}) = IF total = 0 THEN 1 ELSE q
  BY <1>1, <1>2, <1>3, <1>4
<1> QED
  BY <1>3, <1>5 DEF q

\* What is on a page is of the list.
LEMMA LeafMember ==
    ASSUME NEW S, IsFiniteSet(S), NEW date, NEW limit \in Nat \ {0}, NEW pages,
           Paged(Cardinality(S), limit, pages), NEW orders, NEW leaves,
           Leafed(S, date, limit, pages, orders, leaves), NEW k \in 1 .. pages,
           NEW i \in DOMAIN leaves[k]
    PROVE  leaves[k][i] \in S
<1>1. Carried(S, limit, orders[k], leaves[k], k)
  BY LeafedHas
<1>2. orders[k] \in [1 .. Cardinality(S) -> S]
  BY DEF Leafed, Dated
<1> QED
  BY <1>1, <1>2 DEF Carried

DateOf == [j \in Journals |-> journal[j].date]

\* Journals have a date, and there are finitely many.
LEMMA JournalsDated ==
    ASSUME RecordAssumptions, RecordsTyped, NEW public
    PROVE  /\ Records!findMany(public) \subseteq Journals
           /\ IsFiniteSet(Records!findMany(public))
           /\ \A j \in Records!findMany(public) :
                 DateOf[j] \in Int /\ DateOf[j] = journal[j].date
<1>1. Records!findMany(public) \subseteq Journals
  BY DEF Records!findMany
<1>2. IsFiniteSet(Records!findMany(public))
  BY <1>1, FS_Subset DEF RecordAssumptions
<1>3. journal \in [Journals -> Records!JournalRow \union {None}]
  BY DEF RecordsTyped, Records!TypeOK
<1>4. \A j \in Records!findMany(public) : journal[j] \in Records!JournalRow
  BY <1>1, <1>3 DEF Records!findMany, Records!Exists
<1>5. \A j \in Records!findMany(public) : journal[j].date \in Nat
  BY <1>4 DEF Records!JournalRow, RecordAssumptions
<1> QED
  BY <1>1, <1>2, <1>5 DEF DateOf

\* The pages a reader is shown, each in an order of its own.
Leaves(public, orders) ==
    [k \in 1 .. Records!totalPages(public) |-> Records!Page(orders[k], k)]

LEMMA LeavesAre ==
    ASSUME RecordAssumptions, RecordsTyped, NEW public,
           NEW orders \in [1 .. Records!totalPages(public) -> Records!Orders(public)]
    PROVE  /\ Paged(Cardinality(Records!findMany(public)), JournalPage,
                    Records!totalPages(public))
           /\ Leafed(Records!findMany(public), DateOf, JournalPage, Records!totalPages(public),
                     orders, Leaves(public, orders))
<1> DEFINE S == Records!findMany(public)
           pages == Records!totalPages(public)
<1>1. S \subseteq Journals /\ IsFiniteSet(S) /\ Cardinality(S) \in Nat
  BY JournalsDated, FS_CardinalityType
<1>2. JournalPage \in Nat \ {0}
  BY DEF RecordAssumptions
<1>3. pages = Records!Max({1, (Cardinality(S) + JournalPage - 1) \div JournalPage})
  BY SameRecords DEF Records!totalPages
<1>4. Paged(Cardinality(S), JournalPage, pages)
  BY <1>1, <1>2, <1>3, PagesCount
<1>5. \A o \in Records!Orders(public) : Dated(o, S, DateOf)
  <2>1. TAKE o \in Records!Orders(public)
  <2>2. /\ o \in [1 .. Cardinality(S) -> S]
        /\ \A a, b \in DOMAIN o : o[a] = o[b] => a = b
        /\ \A a, b \in DOMAIN o : a < b => journal[o[a]].date >= journal[o[b]].date
    BY SameRecords DEF Records!Orders, Records!IsInjective
  <2>3. \A a \in DOMAIN o : DateOf[o[a]] = journal[o[a]].date
    BY <2>2, JournalsDated
  <2> QED
    BY <2>2, <2>3 DEF Dated
<1>6. Leaves(public, orders) =
         [k \in 1 .. pages |-> Rows(orders[k], (k - 1) * JournalPage, JournalPage)]
  BY SameRecords DEF Leaves, Records!Page
<1> HIDE DEF S, pages
<1>7. \A k \in 1 .. pages : orders[k] \in Records!Orders(public)
  BY DEF pages
<1>8. Leafed(S, DateOf, JournalPage, pages, orders, Leaves(public, orders))
  BY <1>5, <1>6, <1>7 DEF Leafed
<1> QED
  BY <1>4, <1>8 DEF S, pages

PagePlaces(orders) ==
    UNION {{k} \X DOMAIN Records!Page(orders[k], k) : k \in DOMAIN orders}
PageSpots(orders, j) ==
    {p \in PagePlaces(orders) : Records!Page(orders[p[1]], p[1])[p[2]] = j}

LEMMA PlacesOfPages ==
    ASSUME NEW public,
           NEW orders \in [1 .. Records!totalPages(public) -> Records!Orders(public)]
    PROVE  /\ \A p : p \in PagePlaces(orders) <=>
                 /\ p = <<p[1], p[2]>> /\ p[1] \in 1 .. Records!totalPages(public)
                 /\ p[2] \in DOMAIN Leaves(public, orders)[p[1]]
           /\ \A k \in 1 .. Records!totalPages(public) :
                 Leaves(public, orders)[k] = Records!Page(orders[k], k)
           /\ \A j : PageSpots(orders, j) = Spots(Leaves(public, orders), j)
<1> DEFINE leaves == Leaves(public, orders)
           pages == Records!totalPages(public)
<1>1. /\ DOMAIN leaves = 1 .. pages /\ DOMAIN orders = 1 .. pages
      /\ \A k \in 1 .. pages : leaves[k] = Records!Page(orders[k], k)
  BY DEF Leaves
<1>2. \A p : p \in PagePlaces(orders) <=>
         /\ p = <<p[1], p[2]>> /\ p[1] \in DOMAIN orders
         /\ p[2] \in DOMAIN Records!Page(orders[p[1]], p[1])
  BY DEF PagePlaces
<1> HIDE DEF leaves, pages
<1>3. \A p : p \in PagePlaces(orders) <=>
         /\ p = <<p[1], p[2]>> /\ p[1] \in 1 .. pages /\ p[2] \in DOMAIN leaves[p[1]]
  BY <1>1, <1>2
<1>4. ASSUME NEW j PROVE PageSpots(orders, j) = Spots(leaves, j)
  <2>1. \A p : p \in PageSpots(orders, j) <=>
           p \in PagePlaces(orders) /\ Records!Page(orders[p[1]], p[1])[p[2]] = j
    BY DEF PageSpots
  <2>2. \A p : p \in Spots(leaves, j) <=>
           /\ p = <<p[1], p[2]>> /\ p[1] \in DOMAIN leaves /\ p[2] \in DOMAIN leaves[p[1]]
           /\ leaves[p[1]][p[2]] = j
    BY DEF Spots
  <2>3. \A p : p \in PageSpots(orders, j) <=> p \in Spots(leaves, j)
    BY <1>1, <1>3, <2>1, <2>2
  <2> QED
    BY <2>3
<1> QED
  BY <1>1, <1>3, <1>4 DEF leaves, pages

\* A reader going through the journals finds the latest first, and each of them once if no
\* two have one date.
LEMMA JournalsPaged ==
    ASSUME RecordAssumptions, RecordsTyped
    PROVE  Records!PagesAddUp
<1>1. ASSUME NEW public \in BOOLEAN,
             NEW orders \in [1 .. Records!totalPages(public) -> Records!Orders(public)],
             NEW p \in PagePlaces(orders), NEW q \in PagePlaces(orders),
             p[1] < q[1] \/ (p[1] = q[1] /\ p[2] < q[2])
      PROVE  journal[Records!Page(orders[p[1]], p[1])[p[2]]].date
                >= journal[Records!Page(orders[q[1]], q[1])[q[2]]].date
  <2> DEFINE S == Records!findMany(public)
             pages == Records!totalPages(public)
             leaves == Leaves(public, orders)
  <2>1. /\ IsFiniteSet(S) /\ \A i \in S : DateOf[i] \in Int /\ DateOf[i] = journal[i].date
    BY JournalsDated
  <2>2. /\ Paged(Cardinality(S), JournalPage, pages)
        /\ Leafed(S, DateOf, JournalPage, pages, orders, leaves)
    BY LeavesAre
  <2>3. /\ p[1] \in 1 .. pages /\ p[2] \in DOMAIN leaves[p[1]]
        /\ q[1] \in 1 .. pages /\ q[2] \in DOMAIN leaves[q[1]]
        /\ leaves[p[1]] = Records!Page(orders[p[1]], p[1])
        /\ leaves[q[1]] = Records!Page(orders[q[1]], q[1])
    BY PlacesOfPages
  <2>4. JournalPage \in Nat \ {0}
    BY DEF RecordAssumptions
  <2> HIDE DEF S, pages, leaves
  <2>5. DateOf[leaves[p[1]][p[2]]] >= DateOf[leaves[q[1]][q[2]]]
    BY <1>1, <2>1, <2>2, <2>3, <2>4, LatestFirst
  <2>6. leaves[p[1]][p[2]] \in S /\ leaves[q[1]][q[2]] \in S
    BY <2>1, <2>2, <2>3, <2>4, LeafMember
  <2> QED
    BY <2>1, <2>3, <2>5, <2>6
<1>2. ASSUME NEW public \in BOOLEAN,
             NEW orders \in [1 .. Records!totalPages(public) -> Records!Orders(public)],
             \A a, b \in Records!findMany(public) : journal[a].date = journal[b].date => a = b,
             NEW j \in Records!findMany(public)
      PROVE  Records!Cardinality(PageSpots(orders, j)) = 1
  <2> DEFINE S == Records!findMany(public)
             pages == Records!totalPages(public)
             leaves == Leaves(public, orders)
  <2>1. /\ IsFiniteSet(S) /\ \A i \in S : DateOf[i] \in Int /\ DateOf[i] = journal[i].date
    BY JournalsDated
  <2>2. /\ Paged(Cardinality(S), JournalPage, pages)
        /\ Leafed(S, DateOf, JournalPage, pages, orders, leaves)
    BY LeavesAre
  <2>3. PageSpots(orders, j) = Spots(leaves, j)
    BY PlacesOfPages
  <2>4. JournalPage \in Nat \ {0}
    BY DEF RecordAssumptions
  <2>5. \A a, b \in S : DateOf[a] = DateOf[b] => a = b
    BY <1>2, <2>1
  <2>6. j \in S
    OBVIOUS
  <2> HIDE DEF S, pages, leaves
  <2>7. Cardinality(Spots(leaves, j)) = 1
    BY <2>1, <2>2, <2>4, <2>5, <2>6, LeafedOnce
  <2> QED
    BY <2>3, <2>7, SameRecords
<1> QED
  BY <1>1, <1>2 DEF Records!PagesAddUp, PagePlaces, PageSpots

-----------------------------------------------------------------------------
(* All types and sums.                                                     *)

\* What the parts' invariants leave of the types, and of the price of a plan.
TypesInv ==
    /\ part = "likes" => Notified
    /\ part = "reviews" => Reviewing!TypeOK
    /\ part = "favorites" => Favoring!TypeOK
    /\ part = "records" => RecordsTyped
    /\ part = "search" => Searching!TypeOK
    /\ part = "recommendations" => Recommending!TypeOK
    /\ part = "generator" => PlannedSoFar /\ Generating!CostAddsUp
    /\ part = "route" => Measured

LEMMA InitTypes ==
    ASSUME ListAssumptions, RatingAssumptions, PlanAssumptions, RouteAssumptions,
           RecommendAssumptions, Init
    PROVE  TypesInv
<1>1. part = "likes" => Notified
  BY NobodyNotified DEF Init
<1>2. part = "reviews" => Reviewing!TypeOK
  BY ReviewInitTyped DEF Init
<1>3. part = "favorites" => Favoring!TypeOK
  BY FavoritesFirstTyped DEF Init
<1>4. part = "records" => RecordsTyped
  BY InitTyped DEF Init
<1>5. part = "search" => Searching!TypeOK
  BY SearchInitTyped DEF Init
<1>6. part = "recommendations" => Recommending!TypeOK
  BY RecommendFirstTyped DEF Init
<1>7. part = "generator" => PlannedSoFar /\ Generating!CostAddsUp
  BY PlannedFirst, PriceFirst DEF Init
<1>8. part = "route" => Measured
  BY RouteUnmeasured DEF Init
<1> QED
  BY <1>1, <1>2, <1>3, <1>4, <1>5, <1>6, <1>7, <1>8 DEF TypesInv

LEMMA NextTypes ==
    ASSUME Assumptions, ListAssumptions, RatingAssumptions, RouteAssumptions,
           RecommendAssumptions, PartsInv, PartsInv', TypesInv, [Next]_vars
    PROVE  TypesInv'
<1>1. part' = part
  BY DEF Next, vars
<1>2. /\ part = "likes" => [Liking!Next]_likesVars
      /\ part = "reviews" => [Reviewing!Next]_reviewsVars
      /\ part = "favorites" => [Favoring!Next]_favoritesVars
      /\ part = "records" => [Records!Next]_recordsVars
  BY DEF Next, vars
<1>3. /\ part = "search" => [Searching!Next]_searchVars
      /\ part = "recommendations" => [Recommending!Next]_recommendVars
      /\ part = "generator" => [Generating!Next]_generatorVars
      /\ part = "route" => [Ordering!Next]_routeVars
  BY DEF Next, vars
<1>4. part = "likes" => Notified'
  BY <1>2, NotifiedOnce, NotifiedStutters DEF PartsInv, TypesInv
<1>5. part = "reviews" => Reviewing!TypeOK'
  BY <1>2, ReviewsAreTyped, ReviewTypeStutters DEF TypesInv
<1>6. part = "favorites" => Favoring!TypeOK'
  <2>1. part = "favorites" => FavoritesInv /\ FavoritesInv'
    BY <1>1 DEF PartsInv
  <2> QED
    BY <1>2, <2>1, FavoritesTyped, FavoritesTypeStutters DEF TypesInv
<1>7. part = "records" => RecordsTyped'
  <2>1. part = "records" => RecordsInv /\ RecordsInv'
    BY <1>1 DEF PartsInv
  <2> QED
    BY <1>2, <2>1, RecordsAreTyped, RecordsUnmoved DEF TypesInv
<1>8. part = "search" => Searching!TypeOK'
  <2>1. part = "search" => SearchInv'
    BY <1>1 DEF PartsInv
  <2> QED
    BY <1>3, <2>1, SearchTyped, SearchTypeStutters DEF TypesInv
<1>9. part = "recommendations" => Recommending!TypeOK'
  BY <1>3, RecommendIsTyped, RecommendTypeStutters DEF PartsInv, TypesInv
<1>10. part = "generator" => PlannedSoFar' /\ Generating!CostAddsUp'
  <2>1. part = "generator" => GeneratorInv /\ GeneratorInv'
    BY <1>1 DEF PartsInv
  <2> QED
    BY <1>3, <2>1, PlannedFurther, PlannedStutters, PriceKept, PriceStutters DEF TypesInv
<1>11. part = "route" => Measured'
  BY <1>3, RouteMeasured, MeasuredStutters DEF PartsInv, TypesInv
<1> QED
  BY <1>1, <1>4, <1>5, <1>6, <1>7, <1>8, <1>9, <1>10, <1>11 DEF TypesInv

LEMMA TypesSound ==
    ASSUME RouteAssumptions, PartsInv, TypesInv PROVE TypeOK
<1>1. /\ part = "posts" => Posting!TypeOK
      /\ part = "crowd" => Crowd!TypeOK
      /\ part = "paging" => Paging!TypeOK
      /\ part = "media" => Media!TypeOK
      /\ part = "catalogue" => Listing!TypeOK
      /\ part = "rows" => Replacing!TypeOK
      /\ part = "avatars" => Avatar!TypeOK
  BY DEF PartsInv, PostsInv, CrowdInv, PagingInv, MediaInv, ListingInv, RowsInv, AvatarInv
<1>2. /\ part = "likes" => Liking!TypeOK
      /\ part = "generator" => Generating!TypeOK
      /\ part = "route" => Ordering!TypeOK
  BY LikesTyped, GeneratorTyped, RouteTyped DEF PartsInv, TypesInv
<1>3. /\ part = "reviews" => Reviewing!TypeOK
      /\ part = "favorites" => Favoring!TypeOK
      /\ part = "records" => Records!TypeOK
      /\ part = "search" => Searching!TypeOK
      /\ part = "recommendations" => Recommending!TypeOK
  BY DEF TypesInv, RecordsTyped
<1> QED
  BY <1>1, <1>2, <1>3 DEF TypeOK

\* What has been planned, asked and answered is as the types say, and a plan costs what its
\* activities do.
THEOREM TypesAlways == Spec => []TypesInv
<1>1. Init => TypesInv
  BY ListAssumptions, RatingAssumptions, PlanAssumptions, RouteAssumptions,
     RecommendAssumptions, InitTypes
<1>2. PartsInv /\ PartsInv' /\ TypesInv /\ [Next]_vars => TypesInv'
  BY Assumptions, ListAssumptions, RatingAssumptions, RouteAssumptions, RecommendAssumptions,
     NextTypes
<1> QED
  BY <1>1, <1>2, PartsAlways, PTL DEF Spec

\* In every part the tables, the caches and what requests, clients and readers have in hand
\* keep their types and bounds: no counter below zero, no average above the best rating, no
\* favorite of a target that is gone, and nobody notified more often than is counted.
THEOREM TypeCorrect == Spec => []TypeOK
<1>1. PartsInv /\ TypesInv => TypeOK
  BY RouteAssumptions, TypesSound
<1> QED
  BY <1>1, PartsAlways, TypesAlways, PTL

LEMMA SumsSound ==
    ASSUME ListAssumptions, RecordAssumptions, PartsInv, TypesInv
    PROVE  SumsAgree
<1>1. part = "generator" => Generating!CostAddsUp
  BY DEF TypesInv
<1>2. part = "favorites" => Favoring!ListedOnce
  BY FavoritesListed DEF PartsInv
<1>3. part = "records" => Records!SummaryAddsUp
  BY TripSummed DEF TypesInv
<1>4. part = "records" => Records!PagesAddUp
  BY JournalsPaged DEF TypesInv
<1> QED
  BY <1>1, <1>2, <1>3, <1>4 DEF SumsAgree

\* From any catalogue the price of a plan is what its activities cost; of any expenses the
\* categories of a summary add up to its total and their percentages, but for rounding, to a
\* hundred; and with pages of any size a reader finds each favorite once, journals latest
\* first, and each journal once unless two have one date.
THEOREM SumsAgreeAlways == Spec => []SumsAgree
<1>1. PartsInv /\ TypesInv => SumsAgree
  BY ListAssumptions, RecordAssumptions, SumsSound
<1> QED
  BY <1>1, PartsAlways, TypesAlways, PTL

=============================================================================
