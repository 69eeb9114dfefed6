------------------------ MODULE ContentRequestsProofs -----------------------
(* Proofs about the parts of MCContent in which requests overlap, fail and    *)
(* are abandoned: the caches of the catalogue, posts, galleries, avatars and  *)
(* their images, rows written anew, ratings, likes and comments, for any      *)
(* number of rows, images, requests and users, any ratings and any times to   *)
(* live.                                                                      *)
EXTENDS MCContent, Sorting, FiniteSetTheorems, SequenceTheorems,
        WellFoundedInduction, TLAPS

-----------------------------------------------------------------------------
(* The catalogue.                                                          *)

\* A reader with an answer in hand has what was there, or left no earlier than it asked.
AnswersWere ==
    \A r \in Readers : reader[r].pc = "fill" =>
        IF reader[r].list = "featured"
        THEN /\ reader[r].data \subseteq Destinations
             /\ \A d \in reader[r].data : d \in Listing!findFeatured \/ reader[r].since <= leftAt[d]
        ELSE /\ reader[r].data \subseteq Ids
             /\ \A c \in reader[r].data : c \in category \/ reader[r].since <= leftAt[c]

\* A cache has what is there, or left less than its time to live before it expires.
CachesWere ==
    /\ \A d \in featuredCache.data :
          d \in Listing!findFeatured \/ featuredCache.expiresAt <= leftAt[d] + FEATURED_TTL
    /\ \A c \in categoriesCache.data :
          c \in category \/ categoriesCache.expiresAt <= leftAt[c] + CACHE_TTL

\* No cache outlives what is asked for now.
CachesSince ==
    /\ featuredCache.expiresAt <= now + FEATURED_TTL
    /\ categoriesCache.expiresAt <= now + CACHE_TTL

\* Once the last request that was to empty the cache has, readers have what is listed.
AnswersShown ==
    Listing!Settled => \A r \in Readers : reader[r].pc = "fill" /\ reader[r].list = "featured" =>
        reader[r].data = Listing!findFeatured

\* Once the destinations are moved, or there were none, no statement of the deletion is
\* left that could bring one into the category.
MovedAway ==
    deletion.pc = "delete" /\ deletion.quiet /\ deletion.target # deletion.c =>
        \A d \in Destinations : destination[d].category # deletion.c

DeletesSome == deletion.pc \in {"reassign", "delete"} => deletion.c \in Ids

ListingInv ==
    /\ Listing!TypeOK
    /\ AnswersWere /\ CachesWere /\ CachesSince /\ AnswersShown /\ Listing!EditsShown
    /\ DeletesSome /\ MovedAway

Row == [category : Ids, featured : BOOLEAN, deleted : BOOLEAN]
DestinationRow == Row \union {Listing!Gone}
EditRecord == [pc : {"idle", "refetch", "clear"}, clears : SUBSET {"featured", "categories"}]
DeletionRecord == [pc : {"idle", "reassign", "delete", "clear"}, c : Ids \union {None},
                   target : Ids \union {None}, force : BOOLEAN, quiet : BOOLEAN]

\* The shape of the tables, without the numbers in the caches.
LEMMA ListingShape ==
    ASSUME ListingInv
    PROVE  /\ destination \in [Destinations -> DestinationRow]
           /\ category \subseteq Ids
           /\ \A d \in Destinations :
                 destination[d] # Listing!Gone => destination[d].category \in category
           /\ edit \in [Administrators -> EditRecord] /\ deletion \in DeletionRecord
           /\ now \in 0 .. MaxTime /\ missed \in BOOLEAN
           /\ leftAt \in [Destinations \union Ids -> 0 .. MaxTime]
           /\ Listing!findFeatured \subseteq Destinations
BY DEF ListingInv, Listing!TypeOK, DestinationRow, Row, EditRecord, DeletionRecord,
   Listing!Entities, Listing!findFeatured

LEMMA InitListing ==
    ASSUME Assumptions, Listing!Init
    PROVE  ListingInv
<1>1. {FEATURED_TTL, CACHE_TTL, MaxTime} \subseteq Nat
  BY DEF Assumptions
<1>2. Listing!TypeOK
  <2>1. 0 \in 0 .. MaxTime /\ 0 \in 0 .. MaxTime + CACHE_TTL + FEATURED_TTL
    BY <1>1
  <2>2. \A S : Listing!NoEntry \in Listing!Entry(S)
    BY <2>1 DEF Listing!NoEntry, Listing!Entry
  <2>3. Listing!NotReading \in [pc : {"idle", "query", "fill"}, list : {"featured", "categories"},
                               since : 0 .. 0, data : SUBSET Listing!Entities]
    BY DEF Listing!NotReading
  <2>4. /\ destination \in [Destinations -> DestinationRow]
        /\ \A d \in Destinations : destination[d] = Listing!Gone
    BY DEF Listing!Init, DestinationRow
  <2>8. edit \in [Administrators -> EditRecord]
    BY DEF Listing!Init, Listing!NoEdit, EditRecord
  <2>5. leftAt \in [Listing!Entities -> 0 .. MaxTime]
    BY <2>1 DEF Listing!Init
  <2>6. deletion \in DeletionRecord
    BY DEF Listing!Init, Listing!NoDeletion, DeletionRecord
  <2>7. reader \in [Readers -> [pc : {"idle", "query", "fill"}, list : {"featured", "categories"},
                    since : 0 .. now, data : SUBSET Listing!Entities]]
    BY <2>3 DEF Listing!Init
  <2> QED
    BY <2>1, <2>2, <2>4, <2>5, <2>6, <2>7, <2>8 DEF Listing!Init, Listing!TypeOK, DestinationRow,
       Row, EditRecord, DeletionRecord
<1>3. /\ AnswersWere /\ CachesWere /\ CachesSince /\ AnswersShown /\ Listing!EditsShown
      /\ DeletesSome /\ MovedAway
  BY <1>1 DEF Listing!Init, AnswersWere, CachesWere, CachesSince, AnswersShown, Listing!EditsShown, DeletesSome, MovedAway,
     Listing!NotReading, Listing!NoEntry, Listing!Valid, Listing!NoDeletion
<1> QED
  BY <1>2, <1>3 DEF ListingInv

\* What readers have in hand was there before.
LEMMA AnswersKept ==
    ASSUME Assumptions, ListingInv, UNCHANGED <<reader, now>>,
           \A d \in Destinations :
              \/ d \in Listing!findFeatured'
              \/ d \in Listing!findFeatured /\ leftAt'[d] = now
              \/ d \notin Listing!findFeatured /\ leftAt'[d] = leftAt[d],
           \A c \in Ids :
              \/ c \in category'
              \/ c \in category /\ leftAt'[c] = now
              \/ c \notin category /\ leftAt'[c] = leftAt[c]
    PROVE  AnswersWere'
<1>1. now \in 0 .. MaxTime /\ MaxTime \in Nat
  BY ListingShape DEF Assumptions
<1> SUFFICES ASSUME NEW r \in Readers, reader[r].pc = "fill"
             PROVE  IF reader[r].list = "featured"
                    THEN /\ reader[r].data \subseteq Destinations
                         /\ \A d \in reader[r].data :
                               d \in Listing!findFeatured' \/ reader[r].since <= leftAt'[d]
                    ELSE /\ reader[r].data \subseteq Ids
                         /\ \A c \in reader[r].data :
                               c \in category' \/ reader[r].since <= leftAt'[c]
  BY DEF AnswersWere
<1>2. reader[r].since \in 0 .. now
  BY DEF ListingInv, Listing!TypeOK
<1>3. CASE reader[r].list = "featured"
  <2>1. /\ reader[r].data \subseteq Destinations
        /\ \A d \in reader[r].data : d \in Listing!findFeatured \/ reader[r].since <= leftAt[d]
    BY <1>3 DEF ListingInv, AnswersWere
  <2> QED
    BY <1>1, <1>2, <1>3, <2>1
<1>4. CASE reader[r].list # "featured"
  <2>1. /\ reader[r].data \subseteq Ids
        /\ \A c \in reader[r].data : c \in category \/ reader[r].since <= leftAt[c]
    BY <1>4 DEF ListingInv, AnswersWere
  <2> QED
    BY <1>1, <1>2, <1>4, <2>1
<1> QED
  BY <1>3, <1>4

\* A commit notes what leaves, and when, and what its request has left to do.
LEMMA CommitKeeps ==
    ASSUME Assumptions, ListingInv, NEW e \in Administrators, NEW pc \in {"refetch", "clear"},
           NEW clears \in SUBSET {"featured", "categories"}, Listing!Commit(e, pc, clears),
           destination' \in [Destinations -> DestinationRow], category' \subseteq Ids
    PROVE  /\ leftAt' \in [Destinations \union Ids -> 0 .. MaxTime]
           /\ edit' \in [Administrators -> EditRecord]
           /\ \A x \in Administrators :
                 edit'[x] = IF x = e THEN [pc |-> pc, clears |-> clears] ELSE edit[x]
           /\ edit[e].pc = "idle"
           /\ UNCHANGED <<featuredCache, categoriesCache, reader, now, missed>>
           /\ \A d \in Destinations :
                 \/ d \in Listing!findFeatured'
                 \/ d \in Listing!findFeatured /\ leftAt'[d] = now
                 \/ d \notin Listing!findFeatured /\ leftAt'[d] = leftAt[d]
           /\ \A c \in Ids :
                 \/ c \in category'
                 \/ c \in category /\ leftAt'[c] = now
                 \/ c \notin category /\ leftAt'[c] = leftAt[c]
           /\ AnswersWere'
<1> DEFINE all == Destinations \union Ids
           there == Listing!findFeatured \union category
           thereNow == Listing!findFeatured' \union category'
<1>1. /\ leftAt' = [x \in all |-> IF x \in thereNow THEN 0
                                  ELSE IF x \in there THEN now ELSE leftAt[x]]
      /\ edit[e].pc = "idle"
      /\ edit' = [edit EXCEPT ![e] = [pc |-> pc, clears |-> clears]]
      /\ UNCHANGED <<featuredCache, categoriesCache, reader, now, missed>>
  BY DEF Listing!Commit, Listing!There, Listing!Entities
<1>2. /\ Listing!findFeatured \subseteq Destinations /\ category \subseteq Ids
      /\ Listing!findFeatured' \subseteq Destinations
      /\ now \in 0 .. MaxTime /\ leftAt \in [all -> 0 .. MaxTime]
      /\ edit \in [Administrators -> EditRecord]
  BY ListingShape DEF Listing!findFeatured
<1>3. Destinations \intersect Ids = {} /\ MaxTime \in Nat
  BY DEF Assumptions
<1> HIDE DEF all, there, thereNow
<1>4. leftAt' \in [all -> 0 .. MaxTime]
  BY <1>1, <1>2, <1>3
<1>5. \A d \in Destinations : /\ d \in all
                              /\ d \in there <=> d \in Listing!findFeatured
                              /\ d \in thereNow <=> d \in Listing!findFeatured'
  BY <1>2, <1>3 DEF all, there, thereNow
<1>6. \A c \in Ids : c \in all /\ (c \in there <=> c \in category) /\ (c \in thereNow <=> c \in category')
  BY <1>2, <1>3 DEF all, there, thereNow
<1>7. \A d \in Destinations : \/ d \in Listing!findFeatured'
                              \/ d \in Listing!findFeatured /\ leftAt'[d] = now
                              \/ d \notin Listing!findFeatured /\ leftAt'[d] = leftAt[d]
  BY <1>1, <1>5
<1>8. \A c \in Ids : \/ c \in category'
                     \/ c \in category /\ leftAt'[c] = now
                     \/ c \notin category /\ leftAt'[c] = leftAt[c]
  BY <1>1, <1>6
<1>9. AnswersWere'
  BY <1>1, <1>7, <1>8, AnswersKept
<1>10. [pc |-> pc, clears |-> clears] \in EditRecord
  BY DEF EditRecord
<1>11. /\ edit' \in [Administrators -> EditRecord]
       /\ \A x \in Administrators :
             edit'[x] = IF x = e THEN [pc |-> pc, clears |-> clears] ELSE edit[x]
  BY <1>1, <1>2, <1>10
<1> QED
  BY <1>1, <1>4, <1>7, <1>8, <1>9, <1>11 DEF all

\* What a list request knows at a time.
ReaderRecord(time) ==
    [pc : {"idle", "query", "fill"}, list : {"featured", "categories"},
     since : 0 .. time, data : SUBSET Listing!Entities]

\* A list request takes what is there, with the time at which it began.
LEMMA ReadStep ==
    ASSUME Assumptions, ListingInv, NEW r \in Readers,
           \/ Listing!getFeaturedDestinations(r)
           \/ Listing!getCategories(r)
           \/ Listing!Query(r)
    PROVE  ListingInv'
<1>1. /\ UNCHANGED <<destination, category, featuredCache, categoriesCache, edit, deletion, now,
                      leftAt, missed>>
      /\ reader \in [Readers -> ReaderRecord(now)] /\ now \in 0 .. MaxTime
  BY DEF Listing!getFeaturedDestinations, Listing!getCategories, Listing!Query, ListingInv,
     Listing!TypeOK, ReaderRecord
<1>2. PICK one \in ReaderRecord(now) :
         /\ reader' = [reader EXCEPT ![r] = one]
         /\ one.pc = "fill" /\ one.list = "featured" => one.data = Listing!findFeatured
         /\ one.pc = "fill" /\ one.list = "categories" => one.data = Listing!findAll
  <2>1. CASE Listing!Query(r)
    <3> DEFINE data == IF reader[r].list = "featured" THEN Listing!findFeatured
                                                      ELSE Listing!findAll
               one == [reader[r] EXCEPT !.pc = "fill", !.data = data]
    <3>1. data \in SUBSET Listing!Entities
      BY ListingShape DEF Listing!findFeatured, Listing!findAll, Listing!Entities
    <3>2. reader' = [reader EXCEPT ![r] = one]
      BY <2>1 DEF Listing!Query
    <3>3. one \in ReaderRecord(now) /\ one.data = data /\ one.list = reader[r].list
      BY <1>1, <3>1 DEF ReaderRecord
    <3>4. reader[r].list \in {"featured", "categories"}
      BY <1>1 DEF ReaderRecord
    <3> HIDE DEF one
    <3> QED
      BY <3>2, <3>3, <3>4
  <2>2. CASE Listing!getFeaturedDestinations(r)
    <3> DEFINE one == [pc |-> "query", list |-> "featured", since |-> now, data |-> {}]
    <3>1. one \in ReaderRecord(now) /\ one.pc = "query"
      BY <1>1 DEF ReaderRecord
    <3>2. reader' = [reader EXCEPT ![r] = one]
      BY <2>2 DEF Listing!getFeaturedDestinations
    <3> QED
      BY <3>1, <3>2
  <2>3. CASE Listing!getCategories(r)
    <3> DEFINE one == [pc |-> "query", list |-> "categories", since |-> now, data |-> {}]
    <3>1. one \in ReaderRecord(now) /\ one.pc = "query"
      BY <1>1 DEF ReaderRecord
    <3>2. reader' = [reader EXCEPT ![r] = one]
      BY <2>3 DEF Listing!getCategories
    <3> QED
      BY <3>1, <3>2
  <2> QED
    BY <2>1, <2>2, <2>3
<1>3. reader' \in [Readers -> ReaderRecord(now)]
  BY <1>1, <1>2
<1>4. \A q \in Readers : reader'[q] = IF q = r THEN one ELSE reader[q]
  BY <1>1, <1>2
<1>5. Listing!TypeOK'
  BY <1>1, <1>3 DEF ListingInv, Listing!TypeOK, ReaderRecord
<1>6. /\ Listing!findFeatured' = Listing!findFeatured /\ category' = category /\ leftAt' = leftAt
      /\ Listing!findFeatured \subseteq Destinations /\ Listing!findAll = category
      /\ category \subseteq Ids /\ Listing!Settled' = Listing!Settled
  BY <1>1, ListingShape DEF Listing!findFeatured, Listing!findAll, Listing!Settled
<1>7. AnswersWere'
  <2> SUFFICES ASSUME NEW q \in Readers, reader'[q].pc = "fill"
               PROVE  IF reader'[q].list = "featured"
                      THEN /\ reader'[q].data \subseteq Destinations
                           /\ \A d \in reader'[q].data :
                                 d \in Listing!findFeatured \/ reader'[q].since <= leftAt[d]
                      ELSE /\ reader'[q].data \subseteq Ids
                           /\ \A c \in reader'[q].data :
                                 c \in category \/ reader'[q].since <= leftAt[c]
    BY <1>6 DEF AnswersWere
  <2>1. one.list \in {"featured", "categories"}
    BY <1>2 DEF ReaderRecord
  <2>2. CASE q = r
    BY <1>2, <1>4, <1>6, <2>1, <2>2
  <2>3. CASE q # r
    BY <1>4, <2>3 DEF ListingInv, AnswersWere
  <2> QED
    BY <2>2, <2>3
<1>8. AnswersShown'
  BY <1>1, <1>2, <1>4, <1>6 DEF ListingInv, AnswersShown
<1>9. CachesWere' /\ CachesSince' /\ Listing!EditsShown' /\ DeletesSome' /\ MovedAway'
  BY <1>1, <1>6 DEF ListingInv, CachesWere, CachesSince, Listing!EditsShown, Listing!Valid,
     DeletesSome, MovedAway
<1> QED
  BY <1>5, <1>7, <1>8, <1>9 DEF ListingInv

\* What is cached expires a time to live after its reader began.
LEMMA FillStep ==
    ASSUME Assumptions, ListingInv, NEW r \in Readers, Listing!Fill(r)
    PROVE  ListingInv'
<1>1. /\ UNCHANGED <<destination, category, edit, deletion, now, leftAt, missed>>
      /\ reader[r].pc = "fill"
      /\ reader' = [reader EXCEPT ![r] = Listing!NotReading]
      /\ reader \in [Readers -> ReaderRecord(now)] /\ now \in 0 .. MaxTime
  BY DEF Listing!Fill, ListingInv, Listing!TypeOK, ReaderRecord
<1>2. {FEATURED_TTL, CACHE_TTL, MaxTime} \subseteq Nat
  BY DEF Assumptions
<1>3. Listing!NotReading \in ReaderRecord(now) /\ Listing!NotReading.pc = "idle"
  BY <1>1, <1>2 DEF Listing!NotReading, ReaderRecord
<1>4. /\ reader' \in [Readers -> ReaderRecord(now)]
      /\ \A q \in Readers : reader'[q].pc = "fill" => reader'[q] = reader[q]
  BY <1>1, <1>3
<1>5. /\ Listing!findFeatured' = Listing!findFeatured /\ Listing!Settled' = Listing!Settled
      /\ reader[r].since \in 0 .. now /\ reader[r].list \in {"featured", "categories"}
  BY <1>1 DEF Listing!findFeatured, Listing!Settled, ReaderRecord
<1>6. AnswersWere' /\ AnswersShown' /\ DeletesSome' /\ MovedAway'
  BY <1>1, <1>4, <1>5 DEF ListingInv, AnswersWere, AnswersShown, DeletesSome, MovedAway
<1>7. CASE reader[r].list = "featured"
  <2> DEFINE entry == [data |-> reader[r].data, expiresAt |-> reader[r].since + FEATURED_TTL]
  <2>1. featuredCache' = entry /\ categoriesCache' = categoriesCache
    BY <1>7 DEF Listing!Fill
  <2>2. /\ reader[r].data \subseteq Destinations
        /\ \A d \in reader[r].data : d \in Listing!findFeatured \/ reader[r].since <= leftAt[d]
        /\ Listing!Settled => reader[r].data = Listing!findFeatured
    BY <1>1, <1>7 DEF ListingInv, AnswersWere, AnswersShown
  <2>3. entry.expiresAt \in 0 .. MaxTime + CACHE_TTL + FEATURED_TTL
    BY <1>1, <1>2, <1>5
  <2>4. entry \in Listing!Entry(Destinations)
    BY <2>2, <2>3 DEF Listing!Entry
  <2>5. \A d \in Destinations : leftAt[d] \in 0 .. MaxTime
    BY ListingShape
  <2>6. Listing!TypeOK'
    BY <1>1, <1>4, <2>1, <2>4 DEF ListingInv, Listing!TypeOK, ReaderRecord
  <2>7. \A d \in entry.data :
           d \in Listing!findFeatured \/ entry.expiresAt <= leftAt[d] + FEATURED_TTL
    BY <1>2, <1>5, <2>2, <2>5
  <2>8. CachesWere' /\ Listing!EditsShown'
    BY <1>1, <1>5, <2>1, <2>2, <2>7 DEF ListingInv, CachesWere, Listing!EditsShown
  <2>9. CachesSince'
    BY <1>1, <1>2, <1>5, <2>1 DEF ListingInv, CachesSince
  <2> QED
    BY <1>6, <2>6, <2>8, <2>9 DEF ListingInv
<1>8. CASE reader[r].list = "categories"
  <2> DEFINE entry == [data |-> reader[r].data, expiresAt |-> reader[r].since + CACHE_TTL]
  <2>1. categoriesCache' = entry /\ featuredCache' = featuredCache
    BY <1>8 DEF Listing!Fill
  <2>2. /\ reader[r].data \subseteq Ids
        /\ \A c \in reader[r].data : c \in category \/ reader[r].since <= leftAt[c]
    BY <1>1, <1>8 DEF ListingInv, AnswersWere
  <2>3. entry.expiresAt \in 0 .. MaxTime + CACHE_TTL + FEATURED_TTL
    BY <1>1, <1>2, <1>5
  <2>4. entry \in Listing!Entry(Ids)
    BY <2>2, <2>3 DEF Listing!Entry
  <2>5. \A c \in Ids : leftAt[c] \in 0 .. MaxTime
    BY ListingShape
  <2>6. Listing!TypeOK'
    BY <1>1, <1>4, <2>1, <2>4 DEF ListingInv, Listing!TypeOK, ReaderRecord
  <2>7. \A c \in entry.data :
           c \in category \/ entry.expiresAt <= leftAt[c] + CACHE_TTL
    BY <1>2, <1>5, <2>2, <2>5
  <2>8. CachesWere' /\ Listing!EditsShown'
    BY <1>1, <1>5, <2>1, <2>2, <2>7 DEF ListingInv, CachesWere, Listing!EditsShown, Listing!Valid
  <2>9. CachesSince'
    BY <1>1, <1>2, <1>5, <2>1 DEF ListingInv, CachesSince
  <2> QED
    BY <1>6, <2>6, <2>8, <2>9 DEF ListingInv
<1> QED
  BY <1>5, <1>7, <1>8

\* The rows of destinations change, and the cache has yet to be emptied.
LEMMA DestinationsStep ==
    ASSUME Assumptions, ListingInv, NEW e \in Administrators, NEW pc \in {"refetch", "clear"},
           NEW new \in [Destinations -> DestinationRow],
           \A d \in Destinations : new[d] # Listing!Gone => new[d].category \in category,
           Listing!EditDestinations(e, pc, new)
    PROVE  ListingInv'
<1>1. /\ destination' = new /\ category' = category
      /\ deletion' = [deletion EXCEPT !.quiet = deletion.pc = "idle"]
      /\ Listing!Commit(e, pc, {"featured"})
  BY DEF Listing!EditDestinations
<1>2. category \subseteq Ids /\ {FEATURED_TTL, CACHE_TTL, MaxTime} \subseteq Nat
  BY ListingShape DEF Assumptions
<1>3. /\ leftAt' \in [Destinations \union Ids -> 0 .. MaxTime]
      /\ edit' \in [Administrators -> EditRecord]
      /\ edit'[e] = [pc |-> pc, clears |-> {"featured"}]
      /\ UNCHANGED <<featuredCache, categoriesCache, reader, now, missed>>
      /\ \A d \in Destinations :
            \/ d \in Listing!findFeatured'
            \/ d \in Listing!findFeatured /\ leftAt'[d] = now
            \/ d \notin Listing!findFeatured /\ leftAt'[d] = leftAt[d]
      /\ \A c \in Ids : c \in category \/ leftAt'[c] = leftAt[c]
      /\ AnswersWere'
  <2> DEFINE clears == {"featured"}
  <2>1. clears \in SUBSET {"featured", "categories"}
    OBVIOUS
  <2>2. Listing!Commit(e, pc, clears)
    BY <1>1
  <2> HIDE DEF clears
  <2>3. edit'[e] = [pc |-> pc, clears |-> clears]
    BY <1>1, <1>2, <2>1, <2>2, CommitKeeps
  <2> QED
    BY <1>1, <1>2, <2>1, <2>2, <2>3, CommitKeeps DEF clears
<1>4. /\ deletion' \in DeletionRecord
      /\ deletion'.pc = deletion.pc /\ deletion'.c = deletion.c
      /\ deletion'.quiet = (deletion.pc = "idle")
  BY <1>1, ListingShape DEF DeletionRecord
<1>5. Listing!TypeOK'
  BY <1>1, <1>3, <1>4 DEF ListingInv, Listing!TypeOK, DestinationRow, Row, EditRecord,
     DeletionRecord, Listing!Entities
<1>6. CachesWere'
  <2>1. /\ now \in 0 .. MaxTime /\ featuredCache.data \subseteq Destinations
        /\ categoriesCache.data \subseteq Ids
    BY DEF ListingInv, Listing!TypeOK, Listing!Entry
  <2>2. featuredCache.expiresAt <= now + FEATURED_TTL
    BY DEF ListingInv, CachesSince
  <2> QED
    BY <1>1, <1>3, <2>1, <2>2 DEF ListingInv, CachesWere
<1>7. ~ Listing!Settled'
  BY <1>3 DEF Listing!Settled
<1>8. /\ AnswersShown' /\ Listing!EditsShown' /\ DeletesSome' /\ MovedAway'
      /\ CachesSince'
  BY <1>3, <1>4, <1>7 DEF ListingInv, AnswersShown, Listing!EditsShown, DeletesSome, MovedAway,
     CachesSince
<1> QED
  BY <1>3, <1>5, <1>6, <1>8 DEF ListingInv

\* A destination is changed in one of the ways there are.
LEMMA EditDestinationStep ==
    ASSUME Assumptions, ListingInv,
           NEW e \in Administrators,
           \/ \E d \in Destinations, c \in Ids, b \in BOOLEAN :
                 Listing!createDestination(e, d, c, b) \/ Listing!updateDestination(e, d, c, b)
           \/ \E d \in Destinations, b \in BOOLEAN :
                 Listing!updateDestinationStatus(e, d, b) \/ Listing!deleteDestination(e, d, b)
           \/ \E D \in SUBSET Destinations, b \in BOOLEAN :
                 \/ Listing!bulkUpdateDestinationStatus(e, D, b)
                 \/ Listing!bulkDeleteDestinations(e, D, b)
    PROVE  ListingInv'
<1>1. /\ destination \in [Destinations -> DestinationRow] /\ category \subseteq Ids
      /\ \A d \in Destinations : destination[d] # Listing!Gone => destination[d].category \in category
  BY ListingShape
<1>2. \A d \in Destinations : destination[d] # Listing!Gone =>
         destination[d] \in Row
  BY <1>1 DEF DestinationRow
<1>3. \A changed \in Row, c \in Ids, b \in BOOLEAN :
         /\ [changed EXCEPT !.category = c, !.featured = b] \in Row
         /\ [changed EXCEPT !.category = c, !.featured = b].category = c
         /\ [changed EXCEPT !.deleted = b] \in Row
         /\ [changed EXCEPT !.deleted = b].category = changed.category
  BY DEF Row
<1>4. ASSUME NEW d \in Destinations, NEW c \in Ids, NEW b \in BOOLEAN,
             Listing!createDestination(e, d, c, b)
      PROVE  ListingInv'
  <2> DEFINE one == [category |-> c, featured |-> b, deleted |-> FALSE]
             new == [destination EXCEPT ![d] = one]
  <2>1. Listing!EditDestinations(e, "clear", new) /\ c \in category
    BY <1>4 DEF Listing!createDestination
  <2>2. one \in Row /\ one.category = c
    BY DEF Row
  <2> HIDE DEF one
  <2>3. /\ new \in [Destinations -> DestinationRow]
        /\ \A x \in Destinations : new[x] # Listing!Gone => new[x].category \in category
    BY <1>1, <2>1, <2>2 DEF DestinationRow
  <2> HIDE DEF new
  <2> QED
    BY <2>1, <2>3, DestinationsStep
<1>5. ASSUME NEW d \in Destinations, NEW c \in Ids, NEW b \in BOOLEAN,
             Listing!updateDestination(e, d, c, b)
      PROVE  ListingInv'
  <2> DEFINE one == [destination[d] EXCEPT !.category = c, !.featured = b]
             new == [destination EXCEPT ![d] = one]
  <2>1. /\ Listing!EditDestinations(e, "refetch", new) /\ c \in category
        /\ destination[d] # Listing!Gone
    BY <1>5 DEF Listing!updateDestination, Listing!exists
  <2>2. one \in Row /\ one.category = c
    BY <1>2, <2>1 DEF Row
  <2> HIDE DEF one
  <2>3. /\ new \in [Destinations -> DestinationRow]
        /\ \A x \in Destinations : new[x] # Listing!Gone => new[x].category \in category
    BY <1>1, <2>1, <2>2 DEF DestinationRow
  <2> HIDE DEF new
  <2> QED
    BY <2>1, <2>3, DestinationsStep
<1>6. ASSUME NEW d \in Destinations, NEW b \in BOOLEAN, Listing!updateDestinationStatus(e, d, b)
      PROVE  ListingInv'
  <2> DEFINE new == [destination EXCEPT ![d].deleted = b]
  <2>1. Listing!EditDestinations(e, "clear", new) /\ destination[d] # Listing!Gone
    BY <1>6 DEF Listing!updateDestinationStatus, Listing!exists
  <2>2. /\ new = [destination EXCEPT ![d] = [destination[d] EXCEPT !.deleted = b]]
    OBVIOUS
  <2> HIDE DEF new
  <2>3. /\ new \in [Destinations -> DestinationRow]
        /\ \A x \in Destinations : new[x] # Listing!Gone => new[x].category \in category
    BY <1>1, <1>2, <1>3, <2>1, <2>2 DEF DestinationRow
  <2> QED
    BY <2>1, <2>3, DestinationsStep
<1>7. ASSUME NEW d \in Destinations, NEW b \in BOOLEAN, Listing!deleteDestination(e, d, b)
      PROVE  ListingInv'
  <2> DEFINE new == [destination EXCEPT ![d] = IF b THEN Listing!Gone ELSE [@ EXCEPT !.deleted = TRUE]]
  <2>1. Listing!EditDestinations(e, "clear", new) /\ destination[d] # Listing!Gone
    BY <1>7 DEF Listing!deleteDestination, Listing!exists
  <2>2. \A x \in Destinations :
           new[x] = IF x # d THEN destination[x]
                    ELSE IF b THEN Listing!Gone ELSE [destination[d] EXCEPT !.deleted = TRUE]
    BY <1>1
  <2>3. DOMAIN new = Destinations /\ new = [x \in Destinations |-> new[x]]
    BY <1>1
  <2> HIDE DEF new
  <2>4. \A x \in Destinations : /\ new[x] \in DestinationRow
                                /\ new[x] # Listing!Gone => new[x].category \in category
    <3> SUFFICES ASSUME NEW x \in Destinations
                 PROVE  /\ new[x] \in DestinationRow
                        /\ new[x] # Listing!Gone => new[x].category \in category
      OBVIOUS
    <3>1. CASE x # d \/ b
      BY <1>1, <2>2, <3>1 DEF DestinationRow
    <3>2. CASE x = d /\ ~ b
      <4>1. new[x] = [destination[d] EXCEPT !.deleted = TRUE]
        BY <2>2, <3>2
      <4>2. /\ new[x] \in Row
            /\ new[x].category = destination[d].category
        BY <1>2, <2>1, <4>1 DEF Row
      <4> QED
        BY <1>1, <2>1, <4>2 DEF DestinationRow
    <3> QED
      BY <3>1, <3>2
  <2> QED
    BY <2>1, <2>3, <2>4, DestinationsStep
<1>8. ASSUME NEW D \in SUBSET Destinations, NEW b \in BOOLEAN,
             Listing!bulkUpdateDestinationStatus(e, D, b)
      PROVE  ListingInv'
  <2> DEFINE new == [d \in Destinations |->
                       IF d \in D THEN [destination[d] EXCEPT !.deleted = b] ELSE destination[d]]
  <2>1. Listing!EditDestinations(e, "clear", new) /\ \A d \in D : destination[d] # Listing!Gone
    BY <1>8 DEF Listing!bulkUpdateDestinationStatus, Listing!exists
  <2>2. \A x \in Destinations : /\ new[x] \in DestinationRow
                                /\ new[x] # Listing!Gone => new[x].category \in category
    BY <1>1, <1>2, <1>3, <2>1 DEF DestinationRow
  <2> QED
    BY <2>1, <2>2, DestinationsStep
<1>9. ASSUME NEW D \in SUBSET Destinations, NEW b \in BOOLEAN,
             Listing!bulkDeleteDestinations(e, D, b)
      PROVE  ListingInv'
  <2> DEFINE new == [d \in Destinations |->
                       IF d \notin D THEN destination[d]
                       ELSE IF b THEN Listing!Gone ELSE [destination[d] EXCEPT !.deleted = TRUE]]
  <2>1. Listing!EditDestinations(e, "clear", new) /\ \A d \in D : destination[d] # Listing!Gone
    BY <1>9 DEF Listing!bulkDeleteDestinations, Listing!exists
  <2>2. \A x \in Destinations : /\ new[x] \in DestinationRow
                                /\ new[x] # Listing!Gone => new[x].category \in category
    BY <1>1, <1>2, <1>3, <2>1 DEF DestinationRow
  <2> QED
    BY <2>1, <2>2, DestinationsStep
<1> QED
  BY <1>4, <1>5, <1>6, <1>7, <1>8, <1>9

\* The rows of categories change, and the caches have yet to be emptied.
LEMMA CategoriesStep ==
    ASSUME Assumptions, ListingInv, NEW e \in Administrators, NEW pc \in {"refetch", "clear"},
           NEW clears \in SUBSET {"featured", "categories"}, NEW new \in SUBSET Ids,
           category \subseteq new, Listing!EditCategories(e, pc, new, clears)
    PROVE  ListingInv'
<1>1. /\ category' = new /\ destination' = destination /\ deletion' = deletion
      /\ Listing!Commit(e, pc, clears)
  BY DEF Listing!EditCategories
<1>2. destination \in [Destinations -> DestinationRow]
  BY ListingShape
<1>3. Listing!findFeatured' = Listing!findFeatured
  BY <1>1 DEF Listing!findFeatured
<1>4. /\ leftAt' \in [Destinations \union Ids -> 0 .. MaxTime]
      /\ edit' \in [Administrators -> EditRecord]
      /\ \A x \in Administrators :
            edit'[x] = IF x = e THEN [pc |-> pc, clears |-> clears] ELSE edit[x]
      /\ edit[e].pc = "idle"
      /\ UNCHANGED <<featuredCache, categoriesCache, reader, now, missed>>
      /\ \A d \in Destinations : d \in Listing!findFeatured \/ leftAt'[d] = leftAt[d]
      /\ \A c \in Ids : c \in category' \/ leftAt'[c] = leftAt[c]
      /\ AnswersWere'
  BY <1>1, <1>2, <1>3, CommitKeeps
<1>5. Listing!TypeOK'
  BY <1>1, <1>4 DEF ListingInv, Listing!TypeOK, EditRecord, Listing!Entities
<1>6. CachesWere' /\ CachesSince'
  <2>1. featuredCache.data \subseteq Destinations /\ categoriesCache.data \subseteq Ids
    BY DEF ListingInv, Listing!TypeOK, Listing!Entry
  <2> QED
    BY <1>1, <1>3, <1>4, <2>1 DEF ListingInv, CachesWere, CachesSince
<1>7. Listing!Settled' => Listing!Settled
  BY <1>1, <1>4 DEF Listing!Settled
<1>8. AnswersShown' /\ Listing!EditsShown'
  BY <1>3, <1>4, <1>7 DEF ListingInv, AnswersShown, Listing!EditsShown, Listing!Valid
<1>9. DeletesSome' /\ MovedAway'
  BY <1>1 DEF ListingInv, DeletesSome, MovedAway
<1> QED
  BY <1>4, <1>5, <1>6, <1>8, <1>9 DEF ListingInv

\* The caches are emptied: what is listed later was asked for later, or is noted.
LEMMA EmptyCachesKeeps ==
    ASSUME Assumptions, ListingInv, NEW lists \in SUBSET {"featured", "categories"},
           Listing!EmptyCaches(lists), UNCHANGED <<destination, category, reader, now, leftAt>>,
           "featured" \notin lists => (Listing!Settled' => Listing!Settled),
           edit' \in [Administrators -> EditRecord], deletion' \in DeletionRecord
    PROVE  /\ Listing!TypeOK'
           /\ AnswersWere' /\ CachesWere' /\ CachesSince' /\ AnswersShown' /\ Listing!EditsShown'
<1>1. /\ featuredCache' = IF "featured" \in lists THEN Listing!NoEntry ELSE featuredCache
      /\ categoriesCache' = IF "categories" \in lists THEN Listing!NoEntry ELSE categoriesCache
      /\ missed' = IF "featured" \in lists
                   THEN \E r \in Readers : /\ reader[r].pc = "fill" /\ reader[r].list = "featured"
                                           /\ reader[r].data # Listing!findFeatured
                   ELSE missed
  BY DEF Listing!EmptyCaches
<1>2. /\ now \in 0 .. MaxTime /\ {FEATURED_TTL, CACHE_TTL, MaxTime} \subseteq Nat
      /\ missed \in BOOLEAN
  BY ListingShape DEF Assumptions
<1>3. Listing!findFeatured' = Listing!findFeatured
  BY DEF Listing!findFeatured
<1>4. /\ \A S : Listing!NoEntry \in Listing!Entry(S)
      /\ Listing!NoEntry.data = {} /\ Listing!NoEntry.expiresAt = 0
  BY <1>2 DEF Listing!NoEntry, Listing!Entry
<1>5. missed' \in BOOLEAN
  BY <1>1, <1>2
<1>6. Listing!TypeOK'
  BY <1>1, <1>4, <1>5 DEF ListingInv, Listing!TypeOK, EditRecord, DeletionRecord
<1>7. AnswersWere'
  BY <1>3 DEF ListingInv, AnswersWere
<1>8. CachesWere' /\ CachesSince'
  BY <1>1, <1>2, <1>3, <1>4 DEF ListingInv, CachesWere, CachesSince
<1>9. CASE "featured" \in lists
  <2>1. featuredCache' = Listing!NoEntry
    BY <1>1, <1>9
  <2>2. Listing!Settled' => \A r \in Readers : reader[r].pc = "fill" /\ reader[r].list = "featured" =>
                                reader[r].data = Listing!findFeatured
    BY <1>1, <1>9 DEF Listing!Settled
  <2>3. AnswersShown'
    BY <1>3, <2>2 DEF AnswersShown
  <2>4. Listing!EditsShown'
    BY <1>2, <1>4, <2>1 DEF Listing!EditsShown, Listing!Valid
  <2> QED
    BY <1>6, <1>7, <1>8, <2>3, <2>4
<1>10. CASE "featured" \notin lists
  <2>1. AnswersShown' /\ Listing!EditsShown'
    BY <1>1, <1>3, <1>10 DEF ListingInv, AnswersShown, Listing!EditsShown, Listing!Valid
  <2> QED
    BY <1>6, <1>7, <1>8, <2>1
<1> QED
  BY <1>9, <1>10

\* A request goes on after its commit, or fails before it has emptied the caches.
LEMMA ClearCacheStep ==
    ASSUME Assumptions, ListingInv, NEW e \in Administrators,
           Listing!clearCache(e) \/ Listing!FailRefetch(e)
    PROVE  ListingInv'
<1>1. /\ edit' = [edit EXCEPT ![e] = Listing!NoEdit]
      /\ UNCHANGED <<destination, category, reader, deletion, now, leftAt>>
      /\ edit[e].pc # "idle"
  BY DEF Listing!clearCache, Listing!FailRefetch
<1>2. edit \in [Administrators -> EditRecord] /\ deletion \in DeletionRecord /\ missed \in BOOLEAN
  BY ListingShape
<1>3. Listing!NoEdit \in EditRecord /\ Listing!NoEdit.pc = "idle"
  BY DEF Listing!NoEdit, EditRecord
<1>4. /\ edit' \in [Administrators -> EditRecord]
      /\ \A x \in Administrators : edit'[x] = IF x = e THEN Listing!NoEdit ELSE edit[x]
  BY <1>1, <1>2, <1>3
<1>5. DeletesSome' /\ MovedAway'
  BY <1>1 DEF ListingInv, DeletesSome, MovedAway
<1>6. Listing!findFeatured' = Listing!findFeatured
  BY <1>1 DEF Listing!findFeatured
<1>7. CASE Listing!clearCache(e)
  <2>1. Listing!EmptyCaches(edit[e].clears)
    BY <1>7 DEF Listing!clearCache
  <2>2. edit[e].clears \in SUBSET {"featured", "categories"}
    BY <1>2 DEF EditRecord
  <2>3. "featured" \notin edit[e].clears => (Listing!Settled' => Listing!Settled)
    BY <1>1, <1>4, <2>1 DEF Listing!Settled, Listing!EmptyCaches
  <2> QED
    BY <1>1, <1>2, <1>4, <1>5, <2>1, <2>2, <2>3, EmptyCachesKeeps DEF ListingInv
<1>8. CASE Listing!FailRefetch(e)
  <2>1. /\ missed' = (missed \/ "featured" \in edit[e].clears)
        /\ UNCHANGED <<featuredCache, categoriesCache>>
    BY <1>8 DEF Listing!FailRefetch
  <2>2. Listing!Settled' => Listing!Settled
    BY <1>1, <1>4, <2>1 DEF Listing!Settled
  <2>3. missed' \in BOOLEAN
    BY <1>2, <2>1
  <2>4. Listing!TypeOK'
    BY <1>1, <1>4, <2>1, <2>3 DEF ListingInv, Listing!TypeOK, EditRecord
  <2>5. /\ AnswersWere' /\ CachesWere' /\ CachesSince' /\ AnswersShown' /\ Listing!EditsShown'
    BY <1>1, <1>6, <2>1, <2>2 DEF ListingInv, AnswersWere, CachesWere, CachesSince, AnswersShown,
       Listing!EditsShown, Listing!Valid
  <2> QED
    BY <1>5, <2>4, <2>5 DEF ListingInv
<1> QED
  BY <1>7, <1>8

LEMMA SameCardinality == \A S : Listing!Cardinality(S) = Cardinality(S)
BY DEF Listing!Cardinality, Cardinality

\* Nothing is in a category without destinations.
LEMMA NoneCounted ==
    ASSUME Assumptions, NEW c, ~ Listing!countDestinations(c) > 0
    PROVE  \A d \in Destinations : destination[d].category # c
<1> DEFINE of == {d \in Destinations : destination[d].category = c}
<1>1. IsFiniteSet(of)
  BY FS_Subset DEF Assumptions
<1>2. Cardinality(of) \in Nat /\ ~ Cardinality(of) > 0
  BY <1>1, SameCardinality, FS_CardinalityType DEF Listing!countDestinations
<1>3. of = {}
  BY <1>1, <1>2, FS_EmptySet
<1> QED
  BY <1>3

LEMMA EditCategoryStep ==
    ASSUME Assumptions, ListingInv, NEW e \in Administrators, NEW c \in Ids,
           \/ Listing!createCategory(e, c)
           \/ Listing!updateCategory(e, c)
           \/ Listing!updateCategoryStatus(e, c)
    PROVE  ListingInv'
<1>1. category \subseteq Ids
  BY ListingShape
<1>2. CASE Listing!createCategory(e, c)
  <2>1. Listing!EditCategories(e, "refetch", category \union {c}, {"categories"})
    BY <1>2 DEF Listing!createCategory
  <2>2. category \union {c} \in SUBSET Ids /\ category \subseteq category \union {c}
    BY <1>1
  <2> QED
    BY <2>1, <2>2, CategoriesStep
<1>3. CASE Listing!updateCategory(e, c)
  <2>1. Listing!EditCategories(e, "refetch", category, {"categories", "featured"})
    BY <1>3 DEF Listing!updateCategory
  <2> QED
    BY <1>1, <2>1, CategoriesStep
<1>4. CASE Listing!updateCategoryStatus(e, c)
  <2>1. Listing!EditCategories(e, "clear", category, {"categories", "featured"})
    BY <1>4 DEF Listing!updateCategoryStatus
  <2> QED
    BY <1>1, <2>1, CategoriesStep
<1> QED
  BY <1>2, <1>3, <1>4

\* A category is deleted, and the caches have yet to be emptied.
LEMMA DeleteStep ==
    ASSUME Assumptions, ListingInv, Listing!Delete
    PROVE  ListingInv'
<1> DEFINE c == deletion.c
<1>1. /\ deletion.pc = "delete" /\ c \in category
      /\ deletion.force => Listing!countDestinations(c) = 0
      /\ category' = IF deletion.force THEN category \ {c} ELSE category
      /\ leftAt' = IF deletion.force THEN [leftAt EXCEPT ![c] = now] ELSE leftAt
      /\ deletion' = [Listing!NoDeletion EXCEPT !.pc = "clear"]
      /\ UNCHANGED <<destination, featuredCache, categoriesCache, reader, edit, now, missed>>
  BY DEF Listing!Delete
<1>2. /\ category \subseteq Ids /\ c \in Ids /\ now \in 0 .. MaxTime
      /\ leftAt \in [Destinations \union Ids -> 0 .. MaxTime]
      /\ Destinations \intersect Ids = {}
      /\ {FEATURED_TTL, CACHE_TTL, MaxTime} \subseteq Nat
  BY <1>1, ListingShape DEF Assumptions
<1>3. deletion.force => \A d \in Destinations : destination[d].category # c
  BY <1>1, NoneCounted
<1>4. deletion' \in DeletionRecord /\ deletion'.pc = "clear"
  BY <1>1 DEF Listing!NoDeletion, DeletionRecord
<1>5. Listing!findFeatured' = Listing!findFeatured
  BY <1>1 DEF Listing!findFeatured
<1> HIDE DEF c
<1>6. /\ leftAt' \in [Destinations \union Ids -> 0 .. MaxTime]
      /\ \A d \in Destinations : leftAt'[d] = leftAt[d]
      /\ \A x \in Ids : \/ x \in category'
                        \/ x \in category /\ leftAt'[x] = now
                        \/ x \notin category /\ leftAt'[x] = leftAt[x]
  BY <1>1, <1>2
<1>7. Listing!TypeOK'
  BY <1>1, <1>3, <1>4, <1>6 DEF ListingInv, Listing!TypeOK, DeletionRecord, Listing!Entities
<1>8. AnswersWere'
  <2>1. \A d \in Destinations :
           \/ d \in Listing!findFeatured'
           \/ d \in Listing!findFeatured /\ leftAt'[d] = now
           \/ d \notin Listing!findFeatured /\ leftAt'[d] = leftAt[d]
    BY <1>5, <1>6
  <2> QED
    BY <1>1, <1>6, <2>1, AnswersKept
<1>9. CachesWere' /\ CachesSince'
  <2>1. featuredCache.data \subseteq Destinations /\ categoriesCache.data \subseteq Ids
    BY DEF ListingInv, Listing!TypeOK, Listing!Entry
  <2> QED
    BY <1>1, <1>5, <1>6, <2>1 DEF ListingInv, CachesWere, CachesSince
<1>10. ~ Listing!Settled'
  BY <1>4 DEF Listing!Settled
<1>11. AnswersShown' /\ Listing!EditsShown' /\ DeletesSome' /\ MovedAway'
  BY <1>4, <1>10 DEF AnswersShown, Listing!EditsShown, DeletesSome, MovedAway
<1> QED
  BY <1>7, <1>8, <1>9, <1>11 DEF ListingInv

LEMMA ClearDeletedStep ==
    ASSUME Assumptions, ListingInv, Listing!ClearDeleted
    PROVE  ListingInv'
<1>1. /\ Listing!EmptyCaches({"categories", "featured"}) /\ deletion' = Listing!NoDeletion
      /\ UNCHANGED <<destination, category, reader, edit, now, leftAt>>
  BY DEF Listing!ClearDeleted
<1>2. deletion' \in DeletionRecord /\ DeletesSome' /\ MovedAway'
  BY <1>1 DEF Listing!NoDeletion, DeletionRecord, DeletesSome, MovedAway
<1>3. edit' \in [Administrators -> EditRecord]
  BY <1>1, ListingShape
<1> QED
  BY <1>1, <1>2, <1>3, EmptyCachesKeeps DEF ListingInv

\* The deletion of a category up to its last statement.
LEMMA DeletionStep ==
    ASSUME Assumptions, ListingInv,
           \/ \E c \in Ids, to \in Ids \union {None}, bySlug, force \in BOOLEAN :
                 Listing!deleteCategory(c, to, bySlug, force)
           \/ Listing!FailDeletion
    PROVE  ListingInv'
<1>1. UNCHANGED <<destination, category, featuredCache, categoriesCache, reader, edit, now, leftAt,
                  missed>>
  BY DEF Listing!deleteCategory, Listing!FailDeletion
<1>2. deletion' \in DeletionRecord /\ DeletesSome' /\ MovedAway' /\ deletion'.pc # "clear"
  <2>1. CASE Listing!FailDeletion
    BY <2>1 DEF Listing!FailDeletion, Listing!NoDeletion, DeletionRecord, DeletesSome, MovedAway
  <2>2. ASSUME NEW c \in Ids, NEW to \in Ids \union {None}, NEW bySlug \in BOOLEAN,
               NEW force \in BOOLEAN, Listing!deleteCategory(c, to, bySlug, force)
        PROVE  <1>2
    <3>1. deletion' = [pc |-> IF Listing!countDestinations(c) > 0 THEN "reassign" ELSE "delete",
                       c |-> c,
                       target |-> IF Listing!countDestinations(c) > 0 THEN to ELSE None,
                       force |-> force, quiet |-> TRUE]
      BY <2>2 DEF Listing!deleteCategory
    <3>2. deletion'.pc = "delete" => \A d \in Destinations : destination[d].category # c
      BY <3>1, NoneCounted
    <3>3. deletion'.c = c
      BY <3>1
    <3> QED
      BY <1>1, <3>1, <3>2, <3>3 DEF DeletionRecord, DeletesSome, MovedAway
  <2> QED
    BY <2>1, <2>2
<1>3. /\ Listing!findFeatured' = Listing!findFeatured
      /\ Listing!Settled' => Listing!Settled
  <2>1. deletion.pc # "clear"
    BY DEF Listing!deleteCategory, Listing!FailDeletion
  <2> QED
    BY <1>1, <2>1 DEF Listing!findFeatured, Listing!Settled
<1>4. Listing!TypeOK'
  BY <1>1, <1>2 DEF ListingInv, Listing!TypeOK, DeletionRecord
<1>5. AnswersWere' /\ CachesWere' /\ CachesSince' /\ AnswersShown' /\ Listing!EditsShown'
  BY <1>1, <1>3 DEF ListingInv, AnswersWere, CachesWere, CachesSince, AnswersShown,
     Listing!EditsShown, Listing!Valid
<1> QED
  BY <1>2, <1>4, <1>5 DEF ListingInv

LEMMA ReassignStep ==
    ASSUME Assumptions, ListingInv, Listing!reassignDestinations
    PROVE  ListingInv'
<1>1. /\ deletion.target \in category
      /\ destination' = [d \in Destinations |->
            IF destination[d].category = deletion.c
            THEN [destination[d] EXCEPT !.category = deletion.target] ELSE destination[d]]
      /\ deletion' = [deletion EXCEPT !.pc = "delete"]
      /\ UNCHANGED <<category, featuredCache, categoriesCache, reader, edit, now, leftAt, missed>>
      /\ deletion.pc = "reassign"
  BY DEF Listing!reassignDestinations
<1>2. /\ destination \in [Destinations -> DestinationRow] /\ category \subseteq Ids
      /\ \A d \in Destinations : destination[d] # Listing!Gone => destination[d].category \in category
      /\ deletion.c \in Ids /\ None \notin Ids
  BY <1>1, ListingShape DEF ListingInv, DeletesSome, Assumptions
<1>3. \A d \in Destinations : destination[d].category = deletion.c =>
         destination[d] \in Row
  BY <1>2 DEF DestinationRow, Listing!Gone
<1>4. \A changed \in Row :
         LET moved == [changed EXCEPT !.category = deletion.target] IN
         /\ moved \in Row
         /\ moved.category = deletion.target /\ moved.deleted = changed.deleted
         /\ moved.featured = changed.featured
  BY <1>1, <1>2 DEF Row
<1>5. \A d \in Destinations :
         /\ destination'[d] \in DestinationRow
         /\ destination'[d] # Listing!Gone => destination'[d].category \in category
         /\ destination'[d] # Listing!Gone <=> destination[d] # Listing!Gone
         /\ destination'[d].deleted = destination[d].deleted
         /\ destination'[d].featured = destination[d].featured
         /\ deletion.target # deletion.c => destination'[d].category # deletion.c
  <2> TAKE d \in Destinations
  <2>1. CASE destination[d].category = deletion.c
    <3> DEFINE moved == [destination[d] EXCEPT !.category = deletion.target]
    <3>1. destination'[d] = moved
      BY <1>1, <2>1
    <3>2. /\ moved \in Row
          /\ moved.category = deletion.target /\ moved.deleted = destination[d].deleted
          /\ moved.featured = destination[d].featured
      BY <1>3, <1>4, <2>1
    <3> HIDE DEF moved
    <3> QED
      BY <1>1, <1>2, <2>1, <3>1, <3>2 DEF DestinationRow, Listing!Gone
  <2>2. CASE destination[d].category # deletion.c
    <3>1. destination'[d] = destination[d]
      BY <1>1, <2>2
    <3> QED
      BY <1>2, <2>2, <3>1
  <2> QED
    BY <2>1, <2>2
<1>6. /\ Listing!findFeatured' = Listing!findFeatured
      /\ Listing!Settled' => Listing!Settled
  BY <1>1, <1>5 DEF Listing!findFeatured, Listing!Settled
<1>7. /\ deletion' \in DeletionRecord
      /\ deletion'.c = deletion.c /\ deletion'.target = deletion.target
  BY <1>1, ListingShape DEF DeletionRecord
<1>8. destination' \in [Destinations -> DestinationRow]
  BY <1>1, <1>5
<1>9. Listing!TypeOK'
  BY <1>1, <1>5, <1>7, <1>8 DEF ListingInv, Listing!TypeOK, DestinationRow, Row, DeletionRecord
<1>10. AnswersWere' /\ CachesWere' /\ CachesSince' /\ AnswersShown' /\ Listing!EditsShown'
  BY <1>1, <1>6 DEF ListingInv, AnswersWere, CachesWere, CachesSince, AnswersShown,
     Listing!EditsShown, Listing!Valid
<1>11. DeletesSome' /\ MovedAway'
  BY <1>2, <1>5, <1>7 DEF DeletesSome, MovedAway
<1> QED
  BY <1>9, <1>10, <1>11 DEF ListingInv

LEMMA TickStep ==
    ASSUME Assumptions, ListingInv, Listing!Tick
    PROVE  ListingInv'
<1>1. /\ UNCHANGED <<destination, category, featuredCache, categoriesCache, reader, edit, deletion,
                     leftAt, missed>>
      /\ now' = now + 1 /\ now < MaxTime /\ MaxTime \in Nat
      /\ now \in 0 .. MaxTime
  BY ListingShape DEF Listing!Tick, Assumptions
<1>2. /\ Listing!findFeatured' = Listing!findFeatured /\ now' \in 0 .. MaxTime
      /\ Listing!Settled' = Listing!Settled
  BY <1>1 DEF Listing!findFeatured, Listing!Settled
<1>3. reader' \in [Readers -> ReaderRecord(now')]
  <2>1. \A q \in Readers : reader[q] \in ReaderRecord(now)
    BY DEF ListingInv, Listing!TypeOK, ReaderRecord
  <2>2. ReaderRecord(now) \subseteq ReaderRecord(now')
    BY <1>1 DEF ReaderRecord
  <2> QED
    BY <1>1, <2>1, <2>2 DEF ListingInv, Listing!TypeOK
<1>4. Listing!TypeOK'
  BY <1>1, <1>2, <1>3 DEF ListingInv, Listing!TypeOK, ReaderRecord
<1>5. AnswersWere' /\ CachesWere' /\ AnswersShown' /\ DeletesSome' /\ MovedAway'
  BY <1>1, <1>2 DEF ListingInv, AnswersWere, CachesWere, AnswersShown, DeletesSome, MovedAway
<1>6. Listing!EditsShown'
  <2>1. featuredCache.expiresAt \in Int
    BY DEF ListingInv, Listing!TypeOK, Listing!Entry
  <2> QED
    BY <1>1, <1>2, <2>1 DEF ListingInv, Listing!EditsShown, Listing!Valid
<1>7. CachesSince'
  <2>1. /\ featuredCache.expiresAt \in Int /\ categoriesCache.expiresAt \in Int
        /\ FEATURED_TTL \in Nat /\ CACHE_TTL \in Nat
    BY DEF ListingInv, Listing!TypeOK, Listing!Entry, Assumptions
  <2> QED
    BY <1>1, <2>1 DEF ListingInv, CachesSince
<1> QED
  BY <1>4, <1>5, <1>6, <1>7 DEF ListingInv

LEMMA NextListing ==
    ASSUME Assumptions, ListingInv, [Listing!Next]_catalogueVars
    PROVE  ListingInv'
<1>1. CASE \E r \in Readers : \/ Listing!getFeaturedDestinations(r) \/ Listing!getCategories(r)
                              \/ Listing!Query(r) \/ Listing!Fill(r)
  BY <1>1, ReadStep, FillStep
<1>2. ASSUME NEW e \in Administrators,
             \/ \E d \in Destinations, c \in Ids, b \in BOOLEAN :
                   Listing!createDestination(e, d, c, b) \/ Listing!updateDestination(e, d, c, b)
             \/ \E d \in Destinations, b \in BOOLEAN :
                   Listing!updateDestinationStatus(e, d, b) \/ Listing!deleteDestination(e, d, b)
             \/ \E D \in SUBSET Destinations, b \in BOOLEAN :
                   \/ Listing!bulkUpdateDestinationStatus(e, D, b)
                   \/ Listing!bulkDeleteDestinations(e, D, b)
      PROVE  ListingInv'
  BY <1>2, EditDestinationStep
<1>3. ASSUME NEW e \in Administrators,
             \/ \E c \in Ids : \/ Listing!createCategory(e, c) \/ Listing!updateCategory(e, c)
                               \/ Listing!updateCategoryStatus(e, c)
             \/ Listing!clearCache(e) \/ Listing!FailRefetch(e)
      PROVE  ListingInv'
  BY <1>3, EditCategoryStep, ClearCacheStep
<1>4. CASE \/ \E c \in Ids, to \in Ids \union {None}, bySlug, force \in BOOLEAN :
                 Listing!deleteCategory(c, to, bySlug, force)
           \/ Listing!FailDeletion
  BY <1>4, DeletionStep
<1>5. CASE \/ Listing!reassignDestinations \/ Listing!Delete \/ Listing!ClearDeleted
           \/ Listing!Tick
  BY <1>5, ReassignStep, DeleteStep, ClearDeletedStep, TickStep
<1>6. CASE UNCHANGED catalogueVars
  BY <1>6 DEF catalogueVars, ListingInv, Listing!TypeOK, AnswersWere, CachesWere, CachesSince,
     AnswersShown, DeletesSome, MovedAway, Listing!EditsShown, Listing!Settled, Listing!Valid,
     Listing!findFeatured
<1> QED
  BY <1>1, <1>2, <1>3, <1>4, <1>5, <1>6 DEF Listing!Next

\* What the two properties of the catalogue ask of a state and of a step.
LEMMA ListingSound ==
    ASSUME Assumptions, ListingInv
    PROVE  /\ Listing!BoundedStaleness /\ Listing!EditsShown
           /\ [Listing!Next]_catalogueVars => Listing!UnusedWhenDeleted
<1>1. Listing!BoundedStaleness
  <2>1. /\ {FEATURED_TTL, CACHE_TTL, MaxTime} \subseteq Nat /\ now \in 0 .. MaxTime
        /\ leftAt \in [Destinations \union Ids -> 0 .. MaxTime]
    BY ListingShape DEF Assumptions
  <2>2. /\ featuredCache.data \subseteq Destinations /\ featuredCache.expiresAt \in Int
        /\ categoriesCache.data \subseteq Ids
        /\ categoriesCache.expiresAt \in Int
    BY DEF ListingInv, Listing!TypeOK, Listing!Entry
  <2>3. \A d \in featuredCache.data : leftAt[d] \in Nat
    BY <2>1, <2>2
  <2>4. \A c \in categoriesCache.data : leftAt[c] \in Nat
    BY <2>1, <2>2
  <2> QED
    BY <2>1, <2>2, <2>3, <2>4 DEF ListingInv, CachesWere, Listing!BoundedStaleness, Listing!Valid
<1>2. Listing!UnusedWhenDeleted
  BY DEF ListingInv, MovedAway, Listing!UnusedWhenDeleted, Listing!Delete
<1> QED
  BY <1>1, <1>2 DEF ListingInv

-----------------------------------------------------------------------------
(* Posts and their images.                                                 *)

PostRow == [status : Posting!PostStatuses \union {"none", "gone"}, media : SUBSET Assets]

\* No image is shown by two posts.
MediaApart == \A p, q \in Ids : p # q => post[p].media \intersect post[q].media = {}

\* What a request was sent is no other post's, and exists until it is used or cleaned up.
SentApart ==
    postRequest.pc \in {"createPost", "updatePost"} => \A a \in postRequest.media :
        asset[a] = "sent" /\ \A q \in Ids \ {postRequest.p} : a \notin post[q].media

\* What a request will delete is no other post's.
RemovedApart ==
    postRequest.pc \in {"updatePost", "deletePost", "cleanup"} =>
        \A q \in Ids \ {postRequest.p} : postRequest.removed \intersect post[q].media = {}

\* A request knows the images its post had when it was read: these it keeps or deletes.
RequestKnows ==
    LET own == post[postRequest.p] IN
    /\ postRequest.pc # "idle" => postRequest.p \in Ids
    /\ postRequest.pc = "createPost" => own = Posting!NoPost
    /\ postRequest.pc = "updatePost" =>
          /\ postRequest.removed \intersect postRequest.media = {}
          /\ own.media \subseteq postRequest.media \union postRequest.removed
    /\ postRequest.pc = "deletePost" => own.media \subseteq postRequest.removed
    /\ postRequest.pc = "cleanup" => postRequest.removed \intersect own.media = {}

\* Every image that was sent is shown, given up, or in the hands of the request.
Accounted ==
    \A a \in Assets : asset[a] = "sent" =>
        \/ \E p \in Ids : a \in post[p].media
        \/ a \in excused
        \/ postRequest.pc \in {"createPost", "updatePost"} /\ a \in postRequest.media
        \/ postRequest.pc = "cleanup" /\ a \in postRequest.removed

PostsInv ==
    /\ Posting!TypeOK /\ Posting!ImagesExist
    /\ MediaApart /\ SentApart /\ RemovedApart /\ RequestKnows /\ Accounted

LEMMA PostsShape ==
    ASSUME PostsInv
    PROVE  /\ post \in [Ids -> PostRow]
           /\ asset \in [Assets -> {"none", "stored", "sent", "deleted"}]
           /\ postRequest \in [pc : Posting!Labels, p : Ids \union {None},
                               media : SUBSET Assets, removed : SUBSET Assets]
           /\ bookmarks \subseteq {p \in Ids : post[p].status \in Posting!PostStatuses}
           /\ report \in [Ids -> [status : Posting!ReportStatuses, resolved : BOOLEAN] \union {None}]
           /\ excused \subseteq Assets
BY DEF PostsInv, Posting!TypeOK, PostRow

LEMMA InitPosts ==
    ASSUME Posting!Init
    PROVE  PostsInv
<1>1. Posting!NoPost \in PostRow /\ Posting!NoPost.media = {}
  BY DEF Posting!NoPost, PostRow
<1>2. Posting!Idle \in [pc : Posting!Labels, p : Ids \union {None},
                        media : SUBSET Assets, removed : SUBSET Assets]
      /\ Posting!Idle.pc = "idle"
  BY DEF Posting!Idle, Posting!Labels
<1>3. Posting!TypeOK
  BY <1>1, <1>2 DEF Posting!Init, Posting!TypeOK, PostRow
<1>4. /\ Posting!ImagesExist /\ MediaApart /\ SentApart /\ RemovedApart /\ RequestKnows
      /\ Accounted
  BY <1>1, <1>2 DEF Posting!Init, Posting!ImagesExist, MediaApart, SentApart, RemovedApart,
     RequestKnows, Accounted
<1> QED
  BY <1>3, <1>4 DEF PostsInv

\* Steps that leave each post its images, and the request what it has.
LEMMA SameImages ==
    ASSUME PostsInv, post' \in [Ids -> PostRow], asset' = asset, excused' = excused,
           postRequest' = postRequest,
           \A p \in Ids : post'[p].media = post[p].media,
           \A p \in Ids : post[p].status = "none" => post'[p] = post[p],
           bookmarks' \subseteq {p \in Ids : post'[p].status \in Posting!PostStatuses},
           report' \in [Ids -> [status : Posting!ReportStatuses, resolved : BOOLEAN] \union {None}]
    PROVE  PostsInv'
<1>1. Posting!TypeOK'
  BY PostsShape DEF Posting!TypeOK, PostRow
<1>2. Posting!ImagesExist' /\ MediaApart' /\ Accounted'
  BY DEF PostsInv, Posting!ImagesExist, MediaApart, Accounted
<1>3. SentApart' /\ RemovedApart'
  BY DEF PostsInv, SentApart, RemovedApart
<1>4. RequestKnows'
  <2>1. postRequest.pc # "idle" => postRequest.p \in Ids
    BY DEF PostsInv, RequestKnows
  <2>2. CASE postRequest.pc = "idle"
    BY <2>2 DEF RequestKnows
  <2>3. CASE postRequest.pc # "idle"
    BY <2>1, <2>3 DEF PostsInv, RequestKnows, Posting!NoPost
  <2> QED
    BY <2>2, <2>3
<1> QED
  BY <1>1, <1>2, <1>3, <1>4 DEF PostsInv

\* Moderators, the account's owner, and readers.
LEMMA OthersStep ==
    ASSUME PostsInv,
           \/ Posting!softDeleteUser
           \/ \E p \in Ids :
                 \/ Posting!addBookmark(p) \/ Posting!removeBookmark(p) \/ Posting!createReport(p)
                 \/ \E status \in Posting!PostStatuses : Posting!updatePostStatus(p, status)
                 \/ \E status \in Posting!ReportStatuses : Posting!updateReport(p, status)
    PROVE  PostsInv'
<1>1. /\ post \in [Ids -> PostRow]
      /\ bookmarks \subseteq {p \in Ids : post[p].status \in Posting!PostStatuses}
      /\ report \in [Ids -> [status : Posting!ReportStatuses, resolved : BOOLEAN] \union {None}]
  BY PostsShape
<1>2. CASE Posting!softDeleteUser
  <2>1. /\ post' = [p \in Ids |-> IF post[p].status \in Posting!PostStatuses
                                  THEN [post[p] EXCEPT !.status = "DELETED"] ELSE post[p]]
        /\ UNCHANGED <<asset, postRequest, bookmarks, report, excused>>
    BY <1>2 DEF Posting!softDeleteUser, Posting!Row
  <2>2. \A p \in Ids : /\ post'[p] \in PostRow /\ post'[p].media = post[p].media
                       /\ post[p].status = "none" => post'[p] = post[p]
                       /\ post[p].status \in Posting!PostStatuses =>
                             post'[p].status \in Posting!PostStatuses
    BY <1>1, <2>1 DEF PostRow, Posting!PostStatuses
  <2>3. post' \in [Ids -> PostRow]
    BY <2>1, <2>2
  <2> QED
    BY <1>1, <2>1, <2>2, <2>3, SameImages
<1>3. ASSUME NEW p \in Ids, Posting!addBookmark(p) \/ Posting!removeBookmark(p)
      PROVE  PostsInv'
  <2>1. /\ UNCHANGED <<post, asset, postRequest, report, excused>>
        /\ bookmarks' \subseteq {q \in Ids : post[q].status \in Posting!PostStatuses}
    BY <1>1, <1>3 DEF Posting!addBookmark, Posting!removeBookmark, Posting!Found,
       Posting!PostStatuses
  <2> QED
    BY <1>1, <2>1, SameImages
<1>4. ASSUME NEW p \in Ids, Posting!createReport(p)
      PROVE  PostsInv'
  <2>1. /\ UNCHANGED <<post, asset, postRequest, bookmarks, excused>>
        /\ report' = [report EXCEPT ![p] = IF report[p] = None
                        THEN [status |-> "PENDING", resolved |-> FALSE]
                        ELSE [report[p] EXCEPT !.status = "PENDING"]]
    BY <1>4 DEF Posting!createReport
  <2>2. report[p] # None => [report[p] EXCEPT !.status = "PENDING"] \in
                               [status : Posting!ReportStatuses, resolved : BOOLEAN]
    BY <1>1 DEF Posting!ReportStatuses
  <2>3. report' \in [Ids -> [status : Posting!ReportStatuses, resolved : BOOLEAN] \union {None}]
    BY <1>1, <2>1, <2>2 DEF Posting!ReportStatuses
  <2> QED
    BY <1>1, <2>1, <2>3, SameImages
<1>5. ASSUME NEW p \in Ids, NEW status \in Posting!PostStatuses, Posting!updatePostStatus(p, status)
      PROVE  PostsInv'
  <2> DEFINE new == [post[p] EXCEPT !.status = status]
  <2>1. /\ UNCHANGED <<asset, postRequest, bookmarks, report, excused>>
        /\ post' = [post EXCEPT ![p] = new] /\ post[p].status \in Posting!PostStatuses
    BY <1>5 DEF Posting!updatePostStatus, Posting!Row
  <2>2. new \in PostRow /\ new.media = post[p].media /\ new.status \in Posting!PostStatuses
    BY <1>1 DEF PostRow
  <2> HIDE DEF new
  <2>3. \A q \in Ids : post'[q] = IF q = p THEN new ELSE post[q]
    BY <1>1, <2>1
  <2>4. post' \in [Ids -> PostRow]
    BY <1>1, <2>1, <2>2
  <2>5. post[p].status # "none"
    BY <2>1 DEF Posting!PostStatuses
  <2>6. bookmarks' \subseteq {q \in Ids : post'[q].status \in Posting!PostStatuses}
    BY <1>1, <2>1, <2>2, <2>3
  <2> QED
    BY <1>1, <2>1, <2>2, <2>3, <2>4, <2>5, <2>6, SameImages
<1>6. ASSUME NEW p \in Ids, NEW status \in Posting!ReportStatuses, Posting!updateReport(p, status)
      PROVE  PostsInv'
  <2>1. /\ UNCHANGED <<post, asset, postRequest, bookmarks, excused>>
        /\ report' \in [Ids -> [status : Posting!ReportStatuses, resolved : BOOLEAN] \union {None}]
    BY <1>1, <1>6 DEF Posting!updateReport
  <2> QED
    BY <1>1, <2>1, SameImages
<1> QED
  BY <1>2, <1>3, <1>4, <1>5, <1>6

LEMMA UploadStep ==
    ASSUME PostsInv, NEW a \in Assets, Posting!Upload(a)
    PROVE  PostsInv'
<1>1. /\ asset[a] = "none" /\ asset' = [asset EXCEPT ![a] = "stored"]
      /\ UNCHANGED <<post, postRequest, bookmarks, report, excused>>
  BY DEF Posting!Upload
<1>2. /\ asset' \in [Assets -> {"none", "stored", "sent", "deleted"}]
      /\ \A b \in Assets : asset'[b] = "sent" <=> asset[b] = "sent"
  BY <1>1, PostsShape
<1>3. Posting!TypeOK'
  BY <1>1, <1>2 DEF PostsInv, Posting!TypeOK
<1>4. (\A p \in Ids : post[p].media \subseteq Assets) /\ postRequest.media \subseteq Assets
  BY PostsShape DEF PostRow
<1>5. Posting!ImagesExist' /\ SentApart' /\ Accounted'
  BY <1>1, <1>2, <1>4 DEF PostsInv, Posting!ImagesExist, SentApart, Accounted
<1>6. MediaApart' /\ RemovedApart' /\ RequestKnows'
  BY <1>1 DEF PostsInv, MediaApart, RemovedApart, RequestKnows
<1> QED
  BY <1>3, <1>5, <1>6 DEF PostsInv

\* A request that names images begins: those of its post, and fresh ones.
LEMMA SendStep ==
    ASSUME PostsInv, NEW p \in Ids, NEW media \in SUBSET Assets,
           \/ Posting!createPost(p, media)
           \/ \E editor \in {Author, Admin} : Posting!updatePost(p, editor, media)
    PROVE  PostsInv'
<1>1. /\ post \in [Ids -> PostRow] /\ Posting!NoPost.media = {}
      /\ asset \in [Assets -> {"none", "stored", "sent", "deleted"}]
  BY PostsShape DEF Posting!NoPost
<1>2. /\ postRequest.pc = "idle" /\ media \subseteq post[p].media \union Posting!Fresh
      /\ asset' = Posting!Sent(media)
      /\ UNCHANGED <<post, bookmarks, report, excused>>
  BY DEF Posting!createPost, Posting!updatePost
<1>3. PICK pc \in {"createPost", "updatePost"}, removed \in SUBSET Assets :
         /\ postRequest' = [pc |-> pc, p |-> p, media |-> media, removed |-> removed]
         /\ pc = "createPost" => post[p] = Posting!NoPost
         /\ pc = "updatePost" => removed = post[p].media \ media
  <2>1. CASE Posting!createPost(p, media)
    <3>1. postRequest' = [pc |-> "createPost", p |-> p, media |-> media, removed |-> {}]
          /\ post[p] = Posting!NoPost
      BY <2>1 DEF Posting!createPost, Posting!Idle
    <3> QED
      BY <3>1
  <2>2. CASE \E editor \in {Author, Admin} : Posting!updatePost(p, editor, media)
    <3>1. postRequest' = [pc |-> "updatePost", p |-> p, media |-> media,
                          removed |-> post[p].media \ media]
      BY <2>2 DEF Posting!updatePost
    <3>2. post[p].media \ media \in SUBSET Assets
      BY <1>1 DEF PostRow
    <3> QED
      BY <3>1, <3>2
  <2> QED
    BY <2>1, <2>2
<1>4. /\ asset' \in [Assets -> {"none", "stored", "sent", "deleted"}]
      /\ \A a \in Assets : asset'[a] = IF a \in media THEN "sent" ELSE asset[a]
  BY <1>1, <1>2 DEF Posting!Sent
<1>5. \A a \in media, q \in Ids \ {p} : a \notin post[q].media
  BY <1>2 DEF PostsInv, Posting!ImagesExist, MediaApart, Posting!Fresh
<1>6. \A q \in Ids : post[q].media \subseteq Assets
  BY <1>1 DEF PostRow
<1>7. Posting!TypeOK'
  <2>1. postRequest' \in [pc : Posting!Labels, p : Ids \union {None},
                          media : SUBSET Assets, removed : SUBSET Assets]
    BY <1>3 DEF Posting!Labels
  <2> QED
    BY <1>2, <1>4, <2>1 DEF PostsInv, Posting!TypeOK
<1>8. Posting!ImagesExist' /\ MediaApart'
  BY <1>2, <1>4, <1>6 DEF PostsInv, Posting!ImagesExist, MediaApart
<1>9. SentApart'
  BY <1>2, <1>3, <1>4, <1>5 DEF SentApart
<1>10. RemovedApart'
  BY <1>2, <1>3 DEF PostsInv, MediaApart, RemovedApart
<1>11. RequestKnows'
  BY <1>2, <1>3 DEF RequestKnows
<1>12. Accounted'
  <2>1. \A a \in Assets : asset'[a] = "sent" =>
           a \in media \/ (\E q \in Ids : a \in post[q].media) \/ a \in excused
    BY <1>2, <1>4 DEF PostsInv, Accounted
  <2> QED
    BY <1>2, <1>3, <2>1 DEF Accounted
<1> QED
  BY <1>7, <1>8, <1>9, <1>10, <1>11, <1>12 DEF PostsInv

\* A new post is shown, or its images go to the cleanup.
LEMMA InsertPostStep ==
    ASSUME PostsInv, Posting!insertPost
    PROVE  PostsInv'
<1> DEFINE r == postRequest
<1>1. /\ r.pc = "createPost" /\ r.p \in Ids /\ post[r.p] = Posting!NoPost
      /\ UNCHANGED <<asset, bookmarks, report, excused>>
      /\ \A a \in r.media : asset[a] = "sent" /\ \A q \in Ids \ {r.p} : a \notin post[q].media
  BY DEF Posting!insertPost, PostsInv, RequestKnows, SentApart
<1>2. /\ post \in [Ids -> PostRow] /\ Posting!NoPost.media = {}
      /\ Posting!NoPost.status \notin Posting!PostStatuses
      /\ r \in [pc : Posting!Labels, p : Ids \union {None},
                media : SUBSET Assets, removed : SUBSET Assets]
      /\ bookmarks \subseteq {p \in Ids : post[p].status \in Posting!PostStatuses}
  BY PostsShape DEF Posting!NoPost, Posting!PostStatuses
<1>3. CASE post' = [post EXCEPT ![r.p] = [status |-> "PUBLISHED", media |-> r.media]]
           /\ postRequest' = Posting!Idle
  <2> DEFINE changed == [status |-> "PUBLISHED", media |-> r.media]
  <2>1. changed \in PostRow /\ changed.media = r.media /\ changed.status \in Posting!PostStatuses
    BY <1>2 DEF PostRow, Posting!PostStatuses
  <2>2. post' = [post EXCEPT ![r.p] = changed]
    BY <1>3
  <2> HIDE DEF changed
  <2>3. /\ post' \in [Ids -> PostRow]
        /\ \A q \in Ids : post'[q] = IF q = r.p THEN changed ELSE post[q]
    BY <1>1, <1>2, <2>1, <2>2
  <2>4. /\ postRequest' \in [pc : Posting!Labels, p : Ids \union {None},
                             media : SUBSET Assets, removed : SUBSET Assets]
        /\ postRequest'.pc = "idle"
    BY <1>3 DEF Posting!Idle, Posting!Labels
  <2>5. bookmarks \subseteq {q \in Ids : post'[q].status \in Posting!PostStatuses}
    BY <1>1, <1>2, <2>1, <2>3
  <2>6. Posting!TypeOK'
    BY <1>1, <2>3, <2>4, <2>5 DEF PostsInv, Posting!TypeOK, PostRow
  <2>7. Posting!ImagesExist' /\ MediaApart'
    BY <1>1, <2>1, <2>3 DEF PostsInv, Posting!ImagesExist, MediaApart
  <2>8. SentApart' /\ RemovedApart' /\ RequestKnows'
    BY <2>4 DEF SentApart, RemovedApart, RequestKnows
  <2>9. Accounted'
    <3> SUFFICES ASSUME NEW a \in Assets, asset[a] = "sent"
                 PROVE  (\E q \in Ids : a \in post'[q].media) \/ a \in excused
      BY <1>1 DEF Accounted
    <3>1. (\E q \in Ids : a \in post[q].media) \/ a \in excused \/ a \in r.media
      BY <1>1 DEF PostsInv, Accounted
    <3> QED
      BY <1>1, <1>2, <2>1, <2>3, <3>1
  <2> QED
    BY <2>6, <2>7, <2>8, <2>9 DEF PostsInv
<1>4. CASE postRequest' = [r EXCEPT !.pc = "cleanup", !.removed = r.media] /\ post' = post
  <2>1. /\ postRequest' \in [pc : Posting!Labels, p : Ids \union {None},
                             media : SUBSET Assets, removed : SUBSET Assets]
        /\ postRequest'.pc = "cleanup" /\ postRequest'.p = r.p /\ postRequest'.removed = r.media
    BY <1>2, <1>4 DEF Posting!Labels
  <2>2. Posting!TypeOK'
    BY <1>1, <1>4, <2>1 DEF PostsInv, Posting!TypeOK
  <2>3. Posting!ImagesExist' /\ MediaApart'
    BY <1>1, <1>4 DEF PostsInv, Posting!ImagesExist, MediaApart
  <2>4. SentApart' /\ RemovedApart' /\ RequestKnows'
    BY <1>1, <1>2, <1>4, <2>1 DEF SentApart, RemovedApart, RequestKnows
  <2>5. Accounted'
    BY <1>1, <1>4, <2>1 DEF PostsInv, Accounted
  <2> QED
    BY <2>2, <2>3, <2>4, <2>5 DEF PostsInv
<1> QED
  BY <1>3, <1>4 DEF Posting!insertPost

\* An edit replaces the images of its post, and deletes those it has left out.
LEMMA WritePostStep ==
    ASSUME PostsInv, Posting!writePost
    PROVE  PostsInv'
<1> DEFINE r == postRequest
<1>1. /\ r.pc = "updatePost" /\ r.p \in Ids
      /\ r.removed \intersect r.media = {}
      /\ post[r.p].media \subseteq r.media \union r.removed
      /\ UNCHANGED <<asset, bookmarks, report>>
      /\ \A a \in r.media : asset[a] = "sent" /\ \A q \in Ids \ {r.p} : a \notin post[q].media
      /\ \A q \in Ids \ {r.p} : r.removed \intersect post[q].media = {}
  BY DEF Posting!writePost, PostsInv, RequestKnows, SentApart, RemovedApart
<1>2. /\ post \in [Ids -> PostRow] /\ excused \subseteq Assets
      /\ r \in [pc : Posting!Labels, p : Ids \union {None},
                media : SUBSET Assets, removed : SUBSET Assets]
      /\ bookmarks \subseteq {p \in Ids : post[p].status \in Posting!PostStatuses}
  BY PostsShape
<1>3. CASE /\ post' = [post EXCEPT ![r.p].media = r.media]
           /\ postRequest' = [r EXCEPT !.pc = "cleanup"]
           /\ excused' = excused
  <2> DEFINE changed == [post[r.p] EXCEPT !.media = r.media]
  <2>1. changed \in PostRow /\ changed.media = r.media /\ changed.status = post[r.p].status
    BY <1>1, <1>2 DEF PostRow
  <2>2. post' = [post EXCEPT ![r.p] = changed]
    BY <1>3
  <2> HIDE DEF changed
  <2>3. /\ post' \in [Ids -> PostRow]
        /\ \A q \in Ids : post'[q] = IF q = r.p THEN changed ELSE post[q]
    BY <1>1, <1>2, <2>1, <2>2
  <2>4. /\ postRequest' \in [pc : Posting!Labels, p : Ids \union {None},
                             media : SUBSET Assets, removed : SUBSET Assets]
        /\ postRequest'.pc = "cleanup" /\ postRequest'.p = r.p /\ postRequest'.removed = r.removed
    BY <1>2, <1>3 DEF Posting!Labels
  <2>5. bookmarks \subseteq {q \in Ids : post'[q].status \in Posting!PostStatuses}
    BY <1>2, <2>1, <2>3
  <2>6. Posting!TypeOK'
    BY <1>1, <1>3, <2>3, <2>4, <2>5 DEF PostsInv, Posting!TypeOK, PostRow
  <2>7. Posting!ImagesExist' /\ MediaApart'
    BY <1>1, <2>1, <2>3 DEF PostsInv, Posting!ImagesExist, MediaApart
  <2>8. SentApart' /\ RemovedApart' /\ RequestKnows'
    BY <1>1, <2>1, <2>3, <2>4 DEF SentApart, RemovedApart, RequestKnows
  <2>9. Accounted'
    <3> SUFFICES ASSUME NEW a \in Assets, asset[a] = "sent"
                 PROVE  (\E q \in Ids : a \in post'[q].media) \/ a \in excused \/ a \in r.removed
      BY <1>1, <1>3, <2>4 DEF Accounted
    <3>1. (\E q \in Ids : a \in post[q].media) \/ a \in excused \/ a \in r.media
      BY <1>1 DEF PostsInv, Accounted
    <3> QED
      BY <1>1, <2>1, <2>3, <3>1
  <2> QED
    BY <2>6, <2>7, <2>8, <2>9 DEF PostsInv
<1>4. CASE /\ postRequest' = Posting!Idle /\ post' = post
           /\ excused' = excused \union (r.media \ post[r.p].media)
  <2>1. /\ postRequest' \in [pc : Posting!Labels, p : Ids \union {None},
                             media : SUBSET Assets, removed : SUBSET Assets]
        /\ postRequest'.pc = "idle" /\ excused' \subseteq Assets
    BY <1>2, <1>4 DEF Posting!Idle, Posting!Labels
  <2>2. Posting!TypeOK'
    BY <1>1, <1>4, <2>1 DEF PostsInv, Posting!TypeOK
  <2>3. Posting!ImagesExist' /\ MediaApart'
    BY <1>1, <1>4 DEF PostsInv, Posting!ImagesExist, MediaApart
  <2>4. SentApart' /\ RemovedApart' /\ RequestKnows'
    BY <2>1 DEF SentApart, RemovedApart, RequestKnows
  <2>5. Accounted'
    BY <1>1, <1>4 DEF PostsInv, Accounted
  <2> QED
    BY <2>2, <2>3, <2>4, <2>5 DEF PostsInv
<1> QED
  BY <1>3, <1>4 DEF Posting!writePost

LEMMA DeletePostStep ==
    ASSUME PostsInv, NEW p \in Ids, Posting!deletePost(p)
    PROVE  PostsInv'
<1>1. /\ postRequest.pc = "idle" /\ UNCHANGED <<post, asset, bookmarks, report, excused>>
      /\ postRequest' = [pc |-> "deletePost", p |-> p, media |-> {}, removed |-> post[p].media]
      /\ post[p].media \subseteq Assets
  BY PostsShape DEF Posting!deletePost, Posting!Idle, PostRow
<1>2. postRequest' \in [pc : Posting!Labels, p : Ids \union {None},
                        media : SUBSET Assets, removed : SUBSET Assets]
  BY <1>1 DEF Posting!Labels
<1>3. Posting!TypeOK'
  BY <1>1, <1>2 DEF PostsInv, Posting!TypeOK
<1>4. Posting!ImagesExist' /\ MediaApart' /\ Accounted'
  BY <1>1 DEF PostsInv, Posting!ImagesExist, MediaApart, Accounted
<1>5. SentApart' /\ RemovedApart' /\ RequestKnows'
  BY <1>1 DEF PostsInv, MediaApart, SentApart, RemovedApart, RequestKnows
<1> QED
  BY <1>3, <1>4, <1>5 DEF PostsInv

LEMMA DeleteRowStep ==
    ASSUME PostsInv, Posting!deleteRow
    PROVE  PostsInv'
<1> DEFINE r == postRequest
<1>1. /\ r.pc = "deletePost" /\ r.p \in Ids /\ post[r.p].media \subseteq r.removed
      /\ UNCHANGED <<asset, excused>>
      /\ \A q \in Ids \ {r.p} : r.removed \intersect post[q].media = {}
  BY DEF Posting!deleteRow, PostsInv, RequestKnows, RemovedApart
<1>2. /\ post \in [Ids -> PostRow]
      /\ r \in [pc : Posting!Labels, p : Ids \union {None},
                media : SUBSET Assets, removed : SUBSET Assets]
      /\ bookmarks \subseteq {p \in Ids : post[p].status \in Posting!PostStatuses}
      /\ report \in [Ids -> [status : Posting!ReportStatuses, resolved : BOOLEAN] \union {None}]
  BY PostsShape
<1>3. CASE post[r.p].status \in Posting!PostStatuses
  <2> DEFINE changed == [status |-> "gone", media |-> {}]
  <2>1. /\ changed \in PostRow /\ changed.media = {}
    BY DEF PostRow
  <2>2. /\ post' = [post EXCEPT ![r.p] = changed]
        /\ bookmarks' = bookmarks \ {r.p} /\ report' = [report EXCEPT ![r.p] = None]
        /\ postRequest' = [r EXCEPT !.pc = "cleanup"]
    BY <1>3 DEF Posting!deleteRow, Posting!Row, Posting!Removed
  <2> HIDE DEF changed
  <2>3. /\ post' \in [Ids -> PostRow]
        /\ \A q \in Ids : post'[q] = IF q = r.p THEN changed ELSE post[q]
        /\ report' \in [Ids -> [status : Posting!ReportStatuses, resolved : BOOLEAN] \union {None}]
    BY <1>1, <1>2, <2>1, <2>2
  <2>4. /\ postRequest' \in [pc : Posting!Labels, p : Ids \union {None},
                             media : SUBSET Assets, removed : SUBSET Assets]
        /\ postRequest'.pc = "cleanup" /\ postRequest'.p = r.p /\ postRequest'.removed = r.removed
    BY <1>2, <2>2 DEF Posting!Labels
  <2>5. bookmarks' \subseteq {q \in Ids : post'[q].status \in Posting!PostStatuses}
    BY <1>2, <2>2, <2>3
  <2>6. Posting!TypeOK'
    BY <1>1, <2>3, <2>4, <2>5 DEF PostsInv, Posting!TypeOK, PostRow
  <2>7. Posting!ImagesExist' /\ MediaApart'
    BY <1>1, <2>1, <2>3 DEF PostsInv, Posting!ImagesExist, MediaApart
  <2>8. SentApart' /\ RemovedApart' /\ RequestKnows'
    BY <1>1, <2>1, <2>3, <2>4 DEF SentApart, RemovedApart, RequestKnows
  <2>9. Accounted'
    <3> SUFFICES ASSUME NEW a \in Assets, asset[a] = "sent"
                 PROVE  (\E q \in Ids : a \in post'[q].media) \/ a \in excused \/ a \in r.removed
      BY <1>1, <2>4 DEF Accounted
    <3>1. (\E q \in Ids : a \in post[q].media) \/ a \in excused
      BY <1>1 DEF PostsInv, Accounted
    <3> QED
      BY <1>1, <2>3, <3>1
  <2> QED
    BY <2>6, <2>7, <2>8, <2>9 DEF PostsInv
<1>4. CASE post[r.p].status \notin Posting!PostStatuses
  <2>1. postRequest' = Posting!Idle /\ UNCHANGED <<post, bookmarks, report>>
    BY <1>4 DEF Posting!deleteRow, Posting!Row
  <2>2. /\ postRequest' \in [pc : Posting!Labels, p : Ids \union {None},
                             media : SUBSET Assets, removed : SUBSET Assets]
        /\ postRequest'.pc = "idle"
    BY <2>1 DEF Posting!Idle, Posting!Labels
  <2>3. Posting!TypeOK'
    BY <1>1, <2>1, <2>2 DEF PostsInv, Posting!TypeOK
  <2>4. Posting!ImagesExist' /\ MediaApart' /\ Accounted'
    BY <1>1, <2>1 DEF PostsInv, Posting!ImagesExist, MediaApart, Accounted
  <2>5. SentApart' /\ RemovedApart' /\ RequestKnows'
    BY <2>2 DEF SentApart, RemovedApart, RequestKnows
  <2> QED
    BY <2>3, <2>4, <2>5 DEF PostsInv
<1> QED
  BY <1>3, <1>4

LEMMA CleanupStep ==
    ASSUME PostsInv, Posting!deleteMultipleAssets
    PROVE  PostsInv'
<1>1. PICK kept \in SUBSET postRequest.removed :
         /\ asset' = [a \in Assets |-> IF a \in postRequest.removed \ kept THEN "deleted" ELSE asset[a]]
         /\ excused' = excused \union kept
  BY DEF Posting!deleteMultipleAssets
<1>2. /\ postRequest.pc = "cleanup" /\ postRequest' = Posting!Idle
      /\ UNCHANGED <<post, bookmarks, report>>
  BY DEF Posting!deleteMultipleAssets
<1>3. /\ asset \in [Assets -> {"none", "stored", "sent", "deleted"}] /\ excused \subseteq Assets
      /\ postRequest.removed \subseteq Assets /\ \A q \in Ids : post[q].media \subseteq Assets
  BY PostsShape DEF PostRow
<1>4. /\ postRequest' \in [pc : Posting!Labels, p : Ids \union {None},
                           media : SUBSET Assets, removed : SUBSET Assets]
      /\ postRequest'.pc = "idle"
  BY <1>2 DEF Posting!Idle, Posting!Labels
<1>5. Posting!TypeOK'
  BY <1>1, <1>2, <1>3, <1>4 DEF PostsInv, Posting!TypeOK
<1>6. \A q \in Ids : postRequest.removed \intersect post[q].media = {}
  BY <1>2 DEF PostsInv, RemovedApart, RequestKnows
<1>7. Posting!ImagesExist'
  BY <1>1, <1>2, <1>3, <1>6 DEF PostsInv, Posting!ImagesExist
<1>8. MediaApart' /\ SentApart' /\ RemovedApart' /\ RequestKnows'
  BY <1>2, <1>4 DEF PostsInv, MediaApart, SentApart, RemovedApart, RequestKnows
<1>9. Accounted'
  BY <1>1, <1>2 DEF PostsInv, Accounted
<1> QED
  BY <1>5, <1>7, <1>8, <1>9 DEF PostsInv

\* An account goes with its posts; images that nobody deletes are given up.
LEMMA HardDeleteStep ==
    ASSUME PostsInv, Posting!hardDeleteUser
    PROVE  PostsInv'
<1> DEFINE gone == [status |-> "gone", media |-> {}]
<1>1. /\ post' = [p \in Ids |-> IF post[p].status \in Posting!PostStatuses THEN gone ELSE post[p]]
      /\ excused' = excused \union UNION {post[p].media : p \in Ids}
      /\ postRequest' = IF postRequest.pc = "createPost"
                        THEN [postRequest EXCEPT !.pc = "cleanup", !.removed = postRequest.media]
                        ELSE postRequest
      /\ bookmarks' = {} /\ report' = [p \in Ids |-> None] /\ asset' = asset
  BY DEF Posting!hardDeleteUser, Posting!Row
<1>2. /\ post \in [Ids -> PostRow] /\ excused \subseteq Assets
      /\ postRequest \in [pc : Posting!Labels, p : Ids \union {None},
                          media : SUBSET Assets, removed : SUBSET Assets]
  BY PostsShape
<1>3. gone \in PostRow /\ gone.media = {}
  BY DEF PostRow
<1> HIDE DEF gone
<1>4. /\ post' \in [Ids -> PostRow]
      /\ \A p \in Ids : post'[p] = IF post[p].status \in Posting!PostStatuses THEN gone ELSE post[p]
      /\ \A p \in Ids : post'[p].media \subseteq post[p].media
  BY <1>1, <1>2, <1>3
<1>5. excused' \subseteq Assets /\ \A p \in Ids : post[p].media \subseteq excused'
  BY <1>1, <1>2 DEF PostRow
<1>6. CASE postRequest.pc = "createPost"
  <2>1. /\ postRequest' \in [pc : Posting!Labels, p : Ids \union {None},
                             media : SUBSET Assets, removed : SUBSET Assets]
        /\ postRequest'.pc = "cleanup" /\ postRequest'.p = postRequest.p
        /\ postRequest'.removed = postRequest.media
    BY <1>1, <1>2, <1>6 DEF Posting!Labels
  <2>2. /\ postRequest.p \in Ids /\ post'[postRequest.p].media = {}
    BY <1>3, <1>4, <1>6 DEF PostsInv, RequestKnows, Posting!NoPost
  <2>3. Posting!TypeOK'
    BY <1>1, <1>2, <1>4, <1>5, <2>1 DEF PostsInv, Posting!TypeOK, PostRow
  <2>4. SentApart' /\ RemovedApart' /\ RequestKnows'
    BY <1>4, <1>6, <2>1, <2>2 DEF PostsInv, SentApart, RemovedApart, RequestKnows
  <2>5. Accounted'
    BY <1>1, <1>5, <1>6, <2>1 DEF PostsInv, Accounted
  <2>6. Posting!ImagesExist' /\ MediaApart'
    BY <1>1, <1>4 DEF PostsInv, Posting!ImagesExist, MediaApart
  <2> QED
    BY <2>3, <2>4, <2>5, <2>6 DEF PostsInv
<1>7. CASE postRequest.pc # "createPost"
  <2>1. postRequest' = postRequest
    BY <1>1, <1>7
  <2>2. Posting!TypeOK'
    BY <1>1, <1>4, <1>5, <2>1 DEF PostsInv, Posting!TypeOK, PostRow
  <2>3. SentApart' /\ RemovedApart'
    BY <1>1, <1>4, <2>1 DEF PostsInv, SentApart, RemovedApart
  <2>4. RequestKnows'
    <3>1. postRequest.pc # "idle" => postRequest.p \in Ids
      BY DEF PostsInv, RequestKnows
    <3>2. postRequest.pc # "idle" => post'[postRequest.p].media \subseteq post[postRequest.p].media
      BY <1>4, <3>1
    <3> QED
      BY <1>7, <2>1, <3>1, <3>2 DEF PostsInv, RequestKnows
  <2>5. Accounted'
    BY <1>1, <1>5, <2>1 DEF PostsInv, Accounted
  <2>6. Posting!ImagesExist' /\ MediaApart'
    BY <1>1, <1>4 DEF PostsInv, Posting!ImagesExist, MediaApart
  <2> QED
    BY <2>2, <2>3, <2>4, <2>5, <2>6 DEF PostsInv
<1> QED
  BY <1>6, <1>7

LEMMA NextPosts ==
    ASSUME PostsInv, [Posting!Next]_postsVars
    PROVE  PostsInv'
<1>1. CASE UNCHANGED postsVars
  BY <1>1 DEF postsVars, PostsInv, Posting!TypeOK, Posting!ImagesExist, MediaApart, SentApart,
     RemovedApart, RequestKnows, Accounted
<1>2. CASE Posting!Next
  BY <1>2, UploadStep, SendStep, OthersStep, InsertPostStep, WritePostStep, DeletePostStep,
     DeleteRowStep, CleanupStep, HardDeleteStep DEF Posting!Next
<1> QED
  BY <1>1, <1>2

LEMMA PostsSound ==
    ASSUME PostsInv
    PROVE  Posting!ImagesExist /\ Posting!NoImageLeft
<1>1. Posting!ImagesExist
  BY DEF PostsInv
<1>2. ASSUME postRequest.pc = "idle", NEW a \in Assets, asset[a] = "sent"
      PROVE  a \in (UNION {post[p].media : p \in Ids}) \union excused
  <2>1. (\E p \in Ids : a \in post[p].media) \/ a \in excused
    BY <1>2 DEF PostsInv, Accounted
  <2>2. ASSUME NEW p \in Ids, a \in post[p].media
        PROVE  a \in UNION {post[q].media : q \in Ids}
    BY <2>2
  <2> QED
    BY <2>1, <2>2
<1> QED
  BY <1>1, <1>2 DEF Posting!NoImageLeft

-----------------------------------------------------------------------------
(* Covers and galleries.                                                   *)

Distinct(g) ==
    \A i, j \in Images : i # j /\ g[i].asset # None => g[i].asset # g[j].asset
One(g) == \A i, j \in Media!primaries(g) : i = j

GalleryPcs == {"clearPrimary", "setCover", "writeImage"}
Kept == {row.cover} \union Media!Shown(image)
Coming == {mediaReq.row.cover} \union Media!Shown(mediaReq.image)

\* A row whose URL is of an asset that was sent as a cover has its public id too.
Named(r) == r.url \in Covers => r.url = r.cover

\* A row that does not exist has no cover, and whatever a request writes exists.
RowsExist ==
    /\ ~ row.exists => row.cover = None
    /\ Named(row)
    /\ mediaReq.pc # "idle" => mediaReq.row.exists /\ Named(mediaReq.row)

\* What a gallery shows and will show: each asset once, one primary image.
GalleriesSound ==
    /\ Distinct(image) /\ One(image)
    /\ mediaReq.pc \in {"write"} \union GalleryPcs => Distinct(mediaReq.image)
    /\ mediaReq.pc \in {"write", "setCover", "writeImage"} => One(mediaReq.image)

\* What a request may still delete is not shown where it would be missed: what is new
\* while it can fail, what is old once it cannot.  All that is new will be shown, and
\* what a request on one image will not show any more is old.
DeletesApart ==
    /\ mediaReq.pc \in {"write"} \union GalleryPcs =>
          /\ mediaReq.new \intersect Kept = {}
          /\ mediaReq.old \intersect Coming = {}
          /\ mediaReq.new \subseteq Coming
    /\ mediaReq.pc = "refetch" => mediaReq.old \intersect Kept = {}
    /\ mediaReq.pc = "write" => row.cover \in {mediaReq.row.cover, None} \union mediaReq.old
    /\ mediaReq.pc \in GalleryPcs =>
          /\ mediaReq.row.cover = row.cover
          /\ Kept \subseteq Coming \union mediaReq.old

\* What is shown now, and what will be, exists; and only what is in use, or about to be
\* or to be deleted, or dropped, does.
CloudSound ==
    /\ Kept \subseteq cloud \union {None}
    /\ mediaReq.pc \in {"write"} \union GalleryPcs => Coming \subseteq cloud \union {None}
    /\ mediaReq.pc = "idle" => cloud \subseteq Kept \union dropped
    /\ mediaReq.pc \in {"write"} \union GalleryPcs =>
          cloud \subseteq Kept \union dropped \union mediaReq.new
    /\ mediaReq.pc = "refetch" => cloud \subseteq Kept \union dropped \union mediaReq.old

MediaInv ==
    /\ Media!TypeOK
    /\ RowsExist /\ GalleriesSound /\ DeletesApart
    /\ ~ unread => CloudSound

LEMMA InitMedia ==
    ASSUME Assumptions, Media!Init
    PROVE  MediaInv
<1>1. /\ row = Media!NoRow /\ image = Media!NoGallery /\ cloud = {}
      /\ mediaReq = Media!Idle /\ unread = FALSE /\ kind \in Media!Kinds /\ dropped = {}
  BY DEF Media!Init
<1>2. Media!NoRow \in Media!Rows /\ Media!NoRow.cover = None /\ Named(Media!NoRow)
  BY DEF Media!NoRow, Media!Rows, Named
<1>3. Media!NoGallery \in Media!Galleries
  BY DEF Media!NoGallery, Media!Galleries, Media!NoImage
<1>4. Media!TypeOK
  BY <1>1, <1>2, <1>3 DEF Media!TypeOK, Media!Idle
<1>5. \A i \in Images : image[i].asset = None /\ image[i].primary = FALSE
  BY <1>1 DEF Media!NoGallery, Media!NoImage
<1>6. mediaReq.pc = "idle"
  BY <1>1 DEF Media!Idle
<1>7. RowsExist
  BY <1>1, <1>2, <1>6 DEF RowsExist
<1>8. GalleriesSound
  BY <1>5, <1>6 DEF GalleriesSound, Distinct, One, Media!primaries, GalleryPcs
<1>9. DeletesApart
  BY <1>6 DEF DeletesApart, GalleryPcs
<1>10. Kept \subseteq {None}
  BY <1>1, <1>2, <1>5 DEF Kept, Media!Shown
<1>11. CloudSound
  BY <1>1, <1>6, <1>10 DEF CloudSound, GalleryPcs
<1> QED
  BY <1>4, <1>7, <1>8, <1>9, <1>11 DEF MediaInv

LEMMA SameMediaCardinality == \A S : Media!Cardinality(S) = Cardinality(S)
BY DEF Media!Cardinality, Cardinality

\* One primary image, counted or compared.
LEMMA OneCounted ==
    ASSUME Assumptions, NEW g
    PROVE  Media!Cardinality(Media!primaries(g)) <= 1 <=> One(g)
<1> DEFINE S == Media!primaries(g)
<1>1. IsFiniteSet(S)
  BY FS_Subset DEF Assumptions, Media!primaries
<1>2. Cardinality(S) \in Nat /\ (Cardinality(S) = 0 <=> S = {})
  BY <1>1, FS_CardinalityType, FS_EmptySet
<1>3. Cardinality(S) = 1 <=> \E x : S = {x}
  BY <1>1, FS_Singleton
<1>4. Cardinality(S) <= 1 <=> S = {} \/ \E x : S = {x}
  <2>1. Cardinality(S) <= 1 <=> Cardinality(S) = 0 \/ Cardinality(S) = 1
    BY <1>2
  <2> QED
    BY <1>2, <1>3, <2>1
<1>5. S = {} \/ (\E x : S = {x}) <=> \A i, j \in S : i = j
  <2>1. ASSUME \A i, j \in S : i = j, S # {} PROVE \E x : S = {x}
    <3>1. PICK x \in S : TRUE
      BY <2>1
    <3>2. S = {x}
      BY <2>1, <3>1
    <3> QED BY <3>2
  <2> QED BY <2>1
<1> QED
  BY <1>4, <1>5, SameMediaCardinality DEF One

\* The shape of the media rows.
LEMMA MediaShape ==
    ASSUME MediaInv
    PROVE  /\ row \in Media!Rows /\ image \in Media!Galleries
           /\ cloud \subseteq Covers \union Ids
           /\ mediaReq.row \in Media!Rows /\ mediaReq.image \in Media!Galleries
           /\ mediaReq.new \subseteq Covers \union Ids /\ mediaReq.old \subseteq Covers \union Ids
           /\ mediaReq.pc \in {"idle", "write", "refetch"} \union GalleryPcs
           /\ mediaReq = [pc |-> mediaReq.pc, row |-> mediaReq.row, image |-> mediaReq.image,
                          new |-> mediaReq.new, old |-> mediaReq.old]
           /\ unread \in BOOLEAN /\ kind \in Media!Kinds /\ dropped \subseteq Ids
BY DEF MediaInv, Media!TypeOK, Media!MediaFiles, GalleryPcs

\* What a gallery shows are assets of galleries, which are not covers.
LEMMA ShownAreIds ==
    ASSUME NEW g \in Media!Galleries
    PROVE  Media!Shown(g) \subseteq Ids
BY DEF Media!Galleries, Media!Shown, Media!NoImage

LEMMA CoverOf ==
    ASSUME NEW r \in Media!Rows
    PROVE  r.cover \in Covers \union {None}
BY DEF Media!Rows

\* Every request begins alike: it uploads what is new and shown nowhere, and nothing of
\* what it will delete is among what it will show.
LEMMA BeginStep ==
    ASSUME Assumptions, MediaInv,
           NEW pc \in {"write", "clearPrimary", "writeImage"},
           NEW newRow \in Media!Rows, NEW newImage \in Media!Galleries,
           NEW new \in SUBSET (Covers \union Ids), NEW old \in SUBSET (Covers \union Ids),
           Media!Begin(pc, newRow, newImage, new, old),
           newRow.exists, Named(newRow),
           Distinct(newImage),
           pc # "clearPrimary" => One(newImage),
           new \intersect Kept = {},
           {newRow.cover} \union Media!Shown(newImage) \subseteq Kept \union new \union {None},
           old \intersect ({newRow.cover} \union Media!Shown(newImage)) = {},
           new \subseteq {newRow.cover} \union Media!Shown(newImage),
           pc = "write" => row.cover \in {newRow.cover, None} \union old,
           pc # "write" =>
               /\ newRow.cover = row.cover
               /\ Kept \subseteq {newRow.cover} \union Media!Shown(newImage) \union old
    PROVE  MediaInv'
<1> DEFINE q == [pc |-> pc, row |-> newRow, image |-> newImage, new |-> new, old |-> old]
<1>1. /\ mediaReq.pc = "idle" /\ mediaReq' = q /\ cloud' = cloud \union new
      /\ kind' = kind /\ row' = row /\ image' = image /\ unread' = unread
      /\ dropped' = dropped
  BY DEF Media!Begin
<1>2. q.pc = pc /\ q.row = newRow /\ q.image = newImage /\ q.new = new /\ q.old = old
  OBVIOUS
<1>3. Media!TypeOK'
  BY <1>1 DEF MediaInv, Media!TypeOK, Media!MediaFiles
<1> HIDE DEF q
<1>4. Kept' = Kept
  BY <1>1 DEF Kept
<1>5. Coming' = {newRow.cover} \union Media!Shown(newImage)
  BY <1>1, <1>2 DEF Coming, Media!Shown
<1>6. RowsExist'
  BY <1>1, <1>2 DEF MediaInv, RowsExist, Named
<1>7. GalleriesSound'
  BY <1>1, <1>2 DEF MediaInv, GalleriesSound, GalleryPcs, Distinct, One, Media!primaries
<1>8. DeletesApart'
  <2>1. /\ new \intersect Kept' = {} /\ old \intersect Coming' = {} /\ new \subseteq Coming'
        /\ pc # "write" => Kept' \subseteq Coming' \union old
    BY <1>4, <1>5
  <2> QED BY <2>1, <1>1, <1>2 DEF DeletesApart, GalleryPcs
<1>9. ASSUME ~ unread' PROVE CloudSound'
  <2>1. CloudSound
    BY <1>1, <1>9 DEF MediaInv
  <2>2. Kept' \subseteq cloud' \union {None}
    BY <1>1, <1>4, <2>1 DEF CloudSound
  <2>3. Coming' \subseteq cloud' \union {None}
    BY <1>1, <1>4, <1>5, <2>2
  <2>4. cloud \subseteq Kept \union dropped
    BY <1>1, <2>1 DEF CloudSound
  <2>5. cloud' \subseteq Kept' \union dropped' \union new
    BY <1>1, <1>4, <2>4
  <2> QED BY <1>1, <1>2, <2>2, <2>3, <2>5 DEF CloudSound, GalleryPcs
<1> QED
  BY <1>3, <1>6, <1>7, <1>8, <1>9 DEF MediaInv

LEMMA GalleryIsSound ==
    ASSUME Assumptions, NEW g, Media!Gallery(g)
    PROVE  Distinct(g) /\ One(g)
<1>1. One(g)
  BY OneCounted DEF Media!Gallery
<1>2. \A i \in Images : g[i].asset # None => g[i] # Media!NoImage
  BY DEF Media!NoImage
<1>3. Distinct(g)
  BY <1>2 DEF Media!Gallery, Distinct
<1> QED BY <1>1, <1>3

LEMMA CreateStep ==
    ASSUME Assumptions, MediaInv,
           NEW cover \in Covers \union {None}, NEW g \in Media!Galleries,
           Media!Create(cover, g)
    PROVE  MediaInv'
<1> DEFINE r == [url |-> cover, cover |-> cover, exists |-> TRUE]
           new == ({cover} \union Media!Shown(g)) \ {None}
<1>1. r \in Media!Rows /\ r.cover = cover /\ r.exists /\ Named(r)
  BY DEF Media!Rows, Media!MediaFiles, Named
<1>2. Media!Begin("write", r, g, new, {})
  BY DEF Media!Create
<1> HIDE DEF r
<1>3. Distinct(g) /\ One(g)
  BY GalleryIsSound DEF Media!Create
<1>4. new \subseteq Covers \union Ids
  BY ShownAreIds
<1>5. new \intersect Kept = {}
  BY DEF Media!Create, Media!Fresh, Kept
<1>6. row.cover = None
  BY DEF Media!Create, MediaInv, RowsExist
<1>7. {cover} \union Media!Shown(g) \subseteq Kept \union new \union {None}
  OBVIOUS
<1>8. row.cover \in {cover, None} \union {} /\ new \subseteq {cover} \union Media!Shown(g)
  BY <1>6
<1> HIDE DEF new
<1> QED
  BY <1>1, <1>2, <1>3, <1>4, <1>5, <1>7, <1>8, BeginStep

LEMMA UpdateStep ==
    ASSUME Assumptions, MediaInv,
           NEW cover \in Covers \union {None}, NEW g \in Media!Galleries,
           Media!Update(cover, g)
    PROVE  MediaInv'
<1> DEFINE replaced == cover \notin {None, row.cover}
           r == IF cover = None THEN row
                ELSE [url |-> cover, cover |-> cover, exists |-> TRUE]
           new == (IF replaced THEN {cover} ELSE {}) \union (Media!Shown(g) \ Media!Shown(image))
           old == IF replaced THEN {row.cover} \ {None} ELSE {}
<1>1. /\ r \in Media!Rows /\ r.exists /\ Named(r)
      /\ r.cover = (IF cover = None THEN row.cover ELSE cover)
  <2>1. [url |-> cover, cover |-> cover, exists |-> TRUE] \in Media!Rows
    BY DEF Media!Rows, Media!MediaFiles
  <2>2. Named(row)
    BY DEF MediaInv, RowsExist
  <2> QED BY <2>1, <2>2, MediaShape DEF Media!Update, Named
<1>2. Media!Begin("write", r, g, new, old)
  BY DEF Media!Update
<1> HIDE DEF r
<1>3. Distinct(g) /\ One(g)
  BY GalleryIsSound DEF Media!Update
<1>4. row.cover \in Covers \union {None}
  BY MediaShape, CoverOf
<1>5. Media!Shown(g) \subseteq Ids /\ Covers \intersect Ids = {} /\ None \notin Covers \union Ids
  BY ShownAreIds DEF Assumptions
<1>6. new \subseteq Covers \union Ids /\ old \subseteq Covers
  BY <1>4, <1>5
<1>7. new \intersect Kept = {}
  BY <1>4, <1>5 DEF Media!Update, Media!Fresh, Kept
<1>8. {r.cover} \union Media!Shown(g) \subseteq Kept \union new \union {None}
  BY <1>1 DEF Kept
<1>9. old \intersect ({r.cover} \union Media!Shown(g)) = {}
  BY <1>1, <1>4, <1>5
<1>10. row.cover \in {r.cover, None} \union old /\ new \subseteq {r.cover} \union Media!Shown(g)
  BY <1>1, <1>4, <1>5
<1> HIDE DEF new, old
<1> QED
  BY <1>1, <1>2, <1>3, <1>6, <1>7, <1>8, <1>9, <1>10, BeginStep

\* Images one by one.
LEMMA BeginImageStep ==
    ASSUME Assumptions, MediaInv,
           NEW i \in Images, NEW a \in Ids, NEW p \in BOOLEAN, NEW makesPrimary \in BOOLEAN,
           NEW new, NEW old,
           Media!BeginImage(i, a, p, makesPrimary, new, old),
           new = {a} \ {image[i].asset}, old = {image[i].asset} \ {a, None},
           a # image[i].asset => Media!Fresh(a),
           ~ makesPrimary /\ p => image[i].primary
    PROVE  MediaInv'
<1> DEFINE pc == IF makesPrimary THEN "clearPrimary" ELSE "writeImage"
           r == [row EXCEPT !.url = a]
           x == [asset |-> a, primary |-> p]
           g == [image EXCEPT ![i] = x]
<1>1. row \in Media!Rows /\ image \in Media!Galleries
  BY MediaShape
<1>2. r \in Media!Rows /\ r.cover = row.cover /\ r.exists /\ r.url = a
  BY <1>1 DEF Media!BeginImage, Media!Rows, Media!MediaFiles
<1>3. x \in [asset : Ids, primary : BOOLEAN] /\ x.asset = a /\ x.primary = p
  OBVIOUS
<1>4. Media!Begin(pc, r, g, new, old)
  BY DEF Media!BeginImage
<1> HIDE DEF r, x
<1>5. g \in Media!Galleries
  BY <1>1, <1>3 DEF Media!Galleries
<1>6. \A j \in Images : g[j] = IF j = i THEN x ELSE image[j]
  BY <1>1 DEF Media!Galleries
<1>7. image[i].asset \in Ids \union {None}
  BY <1>1 DEF Media!Galleries, Media!NoImage
<1>8. None \notin Covers \union Ids /\ Covers \intersect Ids = {} /\ row.cover \in Covers \union {None}
  BY <1>1, CoverOf DEF Assumptions
<1> HIDE DEF g
<1>9. Distinct(image) /\ One(image)
  BY DEF MediaInv, GalleriesSound
<1>10. \A j \in Images : j # i => image[j].asset # a
  <2>1. CASE a = image[i].asset
    BY <2>1, <1>8, <1>9 DEF Distinct
  <2>2. CASE a # image[i].asset
    BY <2>2, <1>8 DEF Media!Fresh, Media!Shown
  <2> QED BY <2>1, <2>2
<1>11. Distinct(g)
  BY <1>3, <1>6, <1>9, <1>10 DEF Distinct
<1>12. ~ makesPrimary => One(g)
  <2>1. ASSUME ~ makesPrimary, NEW j \in Images, g[j].primary PROVE image[j].primary
    BY <1>3, <1>6, <2>1
  <2> QED BY <1>9, <2>1 DEF One, Media!primaries
<1>13. Media!Shown(g) = {a} \union ({image[j].asset : j \in Images \ {i}} \ {None})
  BY <1>3, <1>6, <1>8 DEF Media!Shown
<1>14. new \intersect Kept = {}
  BY <1>8 DEF Media!Fresh, Kept
<1>15. {r.cover} \union Media!Shown(g) \subseteq Kept \union new \union {None}
  <2>1. {image[j].asset : j \in Images \ {i}} \ {None} \subseteq Kept
    BY DEF Kept, Media!Shown
  <2>2. a \in Kept \union new
    <3>1. a = image[i].asset => a \in Media!Shown(image)
      BY <1>8 DEF Media!Shown
    <3> QED BY <3>1 DEF Kept
  <2> QED BY <1>2, <1>13, <2>1, <2>2 DEF Kept
<1>16. old \intersect ({r.cover} \union Media!Shown(g)) = {}
  <2>1. \A j \in Images \ {i} : image[j].asset \notin old
    BY <1>9 DEF Distinct
  <2>2. r.cover \notin old
    BY <1>2, <1>7, <1>8
  <2> QED BY <1>13, <2>1, <2>2
<1>17. new \subseteq Ids /\ old \subseteq Ids
  BY <1>7
<1>18. /\ new \subseteq Media!Shown(g) /\ Named(r)
       /\ Kept \subseteq {r.cover} \union Media!Shown(g) \union old
  <2>1. new \subseteq {a} /\ a \in Media!Shown(g)
    BY <1>13
  <2>2. Media!Shown(image) \subseteq Media!Shown(g) \union old
    BY <1>8, <1>13 DEF Media!Shown
  <2> QED BY <1>2, <1>8, <2>1, <2>2 DEF Kept, Named
<1>19. pc \in {"clearPrimary", "writeImage"} /\ pc # "write" /\ (pc # "clearPrimary" => ~ makesPrimary)
  OBVIOUS
<1> HIDE DEF pc
<1> QED
  BY <1>2, <1>4, <1>5, <1>11, <1>12, <1>14, <1>15, <1>16, <1>17, <1>18, <1>19, BeginStep

LEMMA CreateImageStep ==
    ASSUME Assumptions, MediaInv,
           NEW i \in Images, NEW a \in Ids, NEW p \in BOOLEAN, Media!CreateImage(i, a, p)
    PROVE  MediaInv'
<1>1. image[i].asset = None /\ a # None
  BY DEF Media!CreateImage, Media!NoImage, Assumptions
<1>2. {a} = {a} \ {image[i].asset} /\ {} = {image[i].asset} \ {a, None}
  BY <1>1
<1> QED
  BY <1>2, BeginImageStep DEF Media!CreateImage

LEMMA UpdateImageStep ==
    ASSUME Assumptions, MediaInv,
           NEW i \in Images, NEW a \in Ids, NEW p \in BOOLEAN, Media!UpdateImage(i, a, p)
    PROVE  MediaInv'
<1>1. image[i] \in [asset : Ids, primary : BOOLEAN]
  BY MediaShape DEF Media!UpdateImage, Media!Galleries
<1>2. image[i].asset # None
  BY <1>1 DEF Assumptions
<1> DEFINE m == p /\ ~ image[i].primary
<1>3. m \in BOOLEAN /\ (~ m /\ p => image[i].primary)
  OBVIOUS
<1>4. Media!BeginImage(i, a, p, m, {a} \ {image[i].asset}, {image[i].asset} \ {a})
  BY DEF Media!UpdateImage
<1>5. a # image[i].asset => Media!Fresh(a)
  BY DEF Media!UpdateImage
<1>6. {image[i].asset} \ {a} = {image[i].asset} \ {a, None}
  BY <1>2
<1> HIDE DEF m
<1> QED
  BY <1>3, <1>4, <1>5, <1>6, BeginImageStep

LEMMA IdleTyped ==
    Media!Idle \in [pc : {"idle", "write", "refetch", "clearPrimary", "setCover", "writeImage"},
                    row : Media!Rows, image : Media!Galleries,
                    new : SUBSET Media!MediaFiles, old : SUBSET Media!MediaFiles]
<1>1. Media!NoRow \in Media!Rows
  BY DEF Media!NoRow, Media!Rows
<1>2. Media!NoGallery \in Media!Galleries
  BY DEF Media!NoGallery, Media!Galleries, Media!NoImage
<1> QED
  BY <1>1, <1>2 DEF Media!Idle

\* A request that ends where it leaves the rows alone: what it deletes last is shown
\* nowhere, and with it the last that is not in use goes.
LEMMA IdleAgain ==
    ASSUME Assumptions, MediaInv,
           NEW gone, cloud' = cloud \ gone, gone \intersect Kept = {},
           CloudSound => cloud \subseteq Kept \union dropped \union gone,
           mediaReq' = Media!Idle, UNCHANGED <<kind, row, image, unread, dropped>>
    PROVE  MediaInv'
<1>1. mediaReq'.pc = "idle" /\ Media!Idle.pc = "idle"
  BY DEF Media!Idle
<1>2. Media!TypeOK'
  BY IdleTyped DEF MediaInv, Media!TypeOK
<1>3. Kept' = Kept
  BY DEF Kept
<1>4. RowsExist' /\ DeletesApart'
  BY <1>1 DEF MediaInv, RowsExist, DeletesApart, GalleryPcs, Named
<1>5. GalleriesSound'
  BY <1>1 DEF MediaInv, GalleriesSound, GalleryPcs, Distinct, One, Media!primaries
<1>6. ASSUME ~ unread' PROVE CloudSound'
  <2>1. CloudSound
    BY <1>6 DEF MediaInv
  <2>2. Kept \subseteq cloud \union {None}
    BY <2>1 DEF CloudSound
  <2>3. cloud' \subseteq Kept' \union dropped'
    BY <1>3, <2>1
  <2>4. Kept' \subseteq cloud' \union {None}
    BY <1>3, <2>2
  <2> QED BY <1>1, <2>3, <2>4 DEF CloudSound, GalleryPcs
<1> QED
  BY <1>2, <1>4, <1>5, <1>6 DEF MediaInv

\* ... or that could not read back what it wrote.
LEMMA UnreadAgain ==
    ASSUME Assumptions, MediaInv, cloud' \subseteq cloud, unread' = TRUE,
           mediaReq' = Media!Idle, UNCHANGED <<kind, row, image, dropped>>
    PROVE  MediaInv'
<1>1. mediaReq'.pc = "idle" /\ Media!Idle.pc = "idle"
  BY DEF Media!Idle
<1>2. Media!TypeOK'
  BY IdleTyped DEF MediaInv, Media!TypeOK
<1>4. RowsExist' /\ DeletesApart'
  BY <1>1 DEF MediaInv, RowsExist, DeletesApart, GalleryPcs, Named
<1>5. GalleriesSound'
  BY <1>1 DEF MediaInv, GalleriesSound, GalleryPcs, Distinct, One, Media!primaries
<1> QED
  BY <1>2, <1>4, <1>5 DEF MediaInv

\* Statements of a request: what is left alone of the invariant follows from its parts.
LEMMA WriteMediaStep ==
    ASSUME Assumptions, MediaInv, Media!Write
    PROVE  MediaInv'
<1>1. mediaReq.pc = "write" /\ kind' = kind /\ unread' = unread
  BY DEF Media!Write
<1>2. CASE /\ row' = mediaReq.row /\ image' = mediaReq.image
           /\ mediaReq' = [mediaReq EXCEPT !.pc = "refetch"]
           /\ dropped' = dropped \union (Media!Shown(image) \ Media!Shown(mediaReq.image))
           /\ UNCHANGED cloud
  <2>1. /\ mediaReq'.pc = "refetch" /\ mediaReq'.row = mediaReq.row
        /\ mediaReq'.image = mediaReq.image
        /\ mediaReq'.new = mediaReq.new /\ mediaReq'.old = mediaReq.old
    BY <1>2, MediaShape
  <2>2. Media!TypeOK'
    <3>1. dropped' \subseteq Ids
      BY <1>2, MediaShape, ShownAreIds
    <3> QED BY <1>1, <1>2, <3>1 DEF MediaInv, Media!TypeOK
  <2>3. Kept' = Coming
    BY <1>2 DEF Kept, Coming, Media!Shown
  <2>4. RowsExist'
    BY <1>1, <1>2, <2>1 DEF MediaInv, RowsExist, Named
  <2>5. GalleriesSound'
    BY <1>1, <1>2, <2>1
    DEF MediaInv, GalleriesSound, GalleryPcs, Distinct, One, Media!primaries
  <2>6. DeletesApart'
    BY <1>1, <2>1, <2>3 DEF MediaInv, DeletesApart, GalleryPcs
  <2>7. ASSUME ~ unread' PROVE CloudSound'
    <3>1. CloudSound
      BY <1>1, <2>7 DEF MediaInv
    <3>2. Kept' \subseteq cloud' \union {None}
      BY <1>1, <1>2, <2>3, <3>1 DEF CloudSound
    <3>3. cloud \subseteq Kept \union dropped \union mediaReq.new
      BY <1>1, <3>1 DEF CloudSound
    <3>4. mediaReq.new \subseteq Coming /\ row.cover \in {mediaReq.row.cover, None} \union mediaReq.old
      BY <1>1 DEF MediaInv, DeletesApart
    <3>5. Kept \subseteq Coming \union {None} \union mediaReq.old \union dropped'
      BY <1>2, <3>4 DEF Kept, Coming
    <3>6. cloud' \subseteq Kept' \union dropped' \union mediaReq'.old
      <4>1. None \notin cloud
        BY MediaShape DEF Assumptions
      <4>2. dropped \subseteq dropped'
        BY <1>2
      <4> QED BY <1>2, <2>1, <2>3, <3>3, <3>4, <3>5, <4>1, <4>2
    <3> QED BY <2>1, <3>2, <3>6 DEF CloudSound, GalleryPcs
  <2> QED BY <2>2, <2>4, <2>5, <2>6, <2>7 DEF MediaInv
<1>3. CASE /\ cloud' = cloud \ mediaReq.new /\ mediaReq' = Media!Idle
           /\ UNCHANGED <<row, image, dropped>>
  <2>1. mediaReq.new \intersect Kept = {}
    BY <1>1 DEF MediaInv, DeletesApart
  <2>2. CloudSound => cloud \subseteq Kept \union dropped \union mediaReq.new
    BY <1>1 DEF CloudSound
  <2> QED BY <1>1, <1>3, <2>1, <2>2, IdleAgain
<1> QED
  BY <1>2, <1>3 DEF Media!Write

LEMMA RefetchStep ==
    ASSUME Assumptions, MediaInv, Media!Refetch
    PROVE  MediaInv'
<1>1. /\ mediaReq.pc = "refetch" /\ mediaReq' = Media!Idle
      /\ UNCHANGED <<kind, row, image, dropped>>
  BY DEF Media!Refetch
<1>2. mediaReq.old \intersect Kept = {}
  BY <1>1 DEF MediaInv, DeletesApart
<1>3. CloudSound => cloud \subseteq Kept \union dropped \union mediaReq.old
  BY <1>1 DEF CloudSound
<1>4. CASE cloud' = cloud \ mediaReq.old /\ UNCHANGED unread
  BY <1>1, <1>2, <1>3, <1>4, IdleAgain
<1>5. CASE unread' = TRUE /\ cloud' \subseteq cloud
  BY <1>1, <1>5, UnreadAgain
<1> QED
  BY <1>4, <1>5 DEF Media!Refetch

LEMMA FailStep ==
    ASSUME Assumptions, MediaInv, Media!Fail
    PROVE  MediaInv'
<1>1. /\ mediaReq.pc \in GalleryPcs /\ mediaReq' = Media!Idle
      /\ cloud' = cloud \ mediaReq.new /\ UNCHANGED <<kind, row, image, unread, dropped>>
  BY DEF Media!Fail, GalleryPcs
<1>2. mediaReq.new \intersect Kept = {}
  BY <1>1 DEF MediaInv, DeletesApart
<1>3. CloudSound => cloud \subseteq Kept \union dropped \union mediaReq.new
  BY <1>1 DEF CloudSound, GalleryPcs
<1> QED
  BY <1>1, <1>2, <1>3, IdleAgain

\* Between the statements of a request on one image nothing is uploaded or deleted.
LEMMA ClearStep ==
    ASSUME Assumptions, MediaInv, Media!clearPrimaryImages
    PROVE  MediaInv'
<1> DEFINE t == Media!Target
           Unset(g) == [j \in Images |-> IF j = t THEN g[j] ELSE [g[j] EXCEPT !.primary = FALSE]]
<1>1. /\ mediaReq.pc = "clearPrimary" /\ image' = Unset(image)
      /\ mediaReq' = [mediaReq EXCEPT !.pc = "setCover", !.image = Unset(mediaReq.image)]
      /\ UNCHANGED <<kind, row, cloud, unread, dropped>>
  BY DEF Media!clearPrimaryImages
<1>2. ASSUME NEW g \in Media!Galleries
      PROVE  /\ Unset(g) \in Media!Galleries
             /\ \A j \in Images : Unset(g)[j].asset = g[j].asset
             /\ \A j \in Images : Unset(g)[j].primary => j = t
  <2>1. \A x \in [asset : Ids, primary : BOOLEAN] :
           /\ [x EXCEPT !.primary = FALSE] \in [asset : Ids, primary : BOOLEAN]
           /\ [x EXCEPT !.primary = FALSE].asset = x.asset
           /\ [x EXCEPT !.primary = FALSE].primary = FALSE
    OBVIOUS
  <2>2. Media!NoImage \in [asset : {None}, primary : {FALSE}]
    BY DEF Media!NoImage
  <2>3. \A x \in [asset : {None}, primary : {FALSE}] :
           [x EXCEPT !.primary = FALSE] = x /\ x.primary = FALSE
    OBVIOUS
  <2>4. /\ [Media!NoImage EXCEPT !.primary = FALSE] = Media!NoImage
        /\ Media!NoImage.primary = FALSE
    BY <2>2, <2>3
  <2>5. \A j \in Images : g[j] \in [asset : Ids, primary : BOOLEAN] \union {Media!NoImage}
    BY DEF Media!Galleries
  <2> QED BY <2>1, <2>4, <2>5 DEF Media!Galleries
<1> HIDE DEF t, Unset
<1>3. /\ mediaReq'.pc = "setCover" /\ mediaReq'.row = mediaReq.row
      /\ mediaReq'.image = Unset(mediaReq.image)
      /\ mediaReq'.new = mediaReq.new /\ mediaReq'.old = mediaReq.old
      /\ mediaReq' = [pc |-> "setCover", row |-> mediaReq.row, image |-> Unset(mediaReq.image),
                      new |-> mediaReq.new, old |-> mediaReq.old]
  BY <1>1, MediaShape
<1>4. image \in Media!Galleries /\ mediaReq.image \in Media!Galleries
  BY MediaShape
<1>5. Media!TypeOK'
  BY <1>1, <1>2, <1>3, <1>4 DEF MediaInv, Media!TypeOK
<1>6. Kept' = Kept /\ Coming' = Coming
  BY <1>1, <1>2, <1>3, <1>4 DEF Kept, Coming, Media!Shown
<1>7. RowsExist' /\ DeletesApart'
  BY <1>1, <1>3, <1>6 DEF MediaInv, RowsExist, DeletesApart, GalleryPcs, Named
<1>8. GalleriesSound'
  <2>1. Distinct(image) /\ Distinct(mediaReq.image)
    BY <1>1 DEF MediaInv, GalleriesSound, GalleryPcs
  <2>2. Distinct(image') /\ Distinct(mediaReq'.image)
    BY <1>1, <1>2, <1>3, <1>4, <2>1 DEF Distinct
  <2>3. One(image') /\ One(mediaReq'.image)
    BY <1>1, <1>2, <1>3, <1>4 DEF One, Media!primaries
  <2> QED BY <1>3, <2>2, <2>3 DEF GalleriesSound, Distinct, One, Media!primaries
<1>9. ~ unread' => CloudSound'
  BY <1>1, <1>3, <1>6 DEF MediaInv, CloudSound, GalleryPcs
<1> QED
  BY <1>5, <1>7, <1>8, <1>9 DEF MediaInv

LEMMA SetCoverStep ==
    ASSUME Assumptions, MediaInv, Media!setCoverImage
    PROVE  MediaInv'
<1>1. /\ mediaReq.pc = "setCover" /\ row' = mediaReq.row
      /\ mediaReq' = [mediaReq EXCEPT !.pc = "writeImage"]
      /\ UNCHANGED <<kind, image, cloud, unread, dropped>>
  BY DEF Media!setCoverImage
<1>2. /\ mediaReq'.pc = "writeImage" /\ mediaReq'.row = mediaReq.row
      /\ mediaReq'.image = mediaReq.image
      /\ mediaReq'.new = mediaReq.new /\ mediaReq'.old = mediaReq.old
  BY <1>1, MediaShape
<1>3. mediaReq.row.cover = row.cover
  BY <1>1 DEF MediaInv, DeletesApart, GalleryPcs
<1>4. Media!TypeOK'
  BY <1>1 DEF MediaInv, Media!TypeOK
<1>5. Kept' = Kept /\ Coming' = Coming
  BY <1>1, <1>2, <1>3 DEF Kept, Coming, Media!Shown
<1>6. RowsExist' /\ DeletesApart'
  BY <1>1, <1>2, <1>3, <1>5 DEF MediaInv, RowsExist, DeletesApart, GalleryPcs, Named
<1>7. GalleriesSound'
  BY <1>1, <1>2 DEF MediaInv, GalleriesSound, GalleryPcs, Distinct, One, Media!primaries
<1>8. ~ unread' => CloudSound'
  BY <1>1, <1>2, <1>3, <1>5 DEF MediaInv, CloudSound, GalleryPcs
<1> QED
  BY <1>4, <1>6, <1>7, <1>8 DEF MediaInv

LEMMA WriteImageStep ==
    ASSUME Assumptions, MediaInv, Media!writeImage
    PROVE  MediaInv'
<1>1. /\ mediaReq.pc = "writeImage" /\ image' = mediaReq.image
      /\ cloud' = cloud \ mediaReq.old /\ mediaReq' = Media!Idle
      /\ UNCHANGED <<kind, row, unread, dropped>>
  BY DEF Media!writeImage
<1>2. mediaReq'.pc = "idle"
  BY <1>1 DEF Media!Idle
<1>3. Media!TypeOK'
  BY <1>1, IdleTyped DEF MediaInv, Media!TypeOK
<1>4. Kept' = Coming
  BY <1>1 DEF Kept, Coming, Media!Shown, MediaInv, DeletesApart, GalleryPcs
<1>5. RowsExist' /\ DeletesApart'
  BY <1>1, <1>2 DEF MediaInv, RowsExist, DeletesApart, GalleryPcs, Named
<1>6. GalleriesSound'
  BY <1>1, <1>2 DEF MediaInv, GalleriesSound, GalleryPcs, Distinct, One, Media!primaries
<1>7. ASSUME ~ unread' PROVE CloudSound'
  <2>1. CloudSound
    BY <1>1, <1>7 DEF MediaInv
  <2>2. mediaReq.old \intersect Coming = {}
    BY <1>1 DEF MediaInv, DeletesApart, GalleryPcs
  <2>3. Coming \subseteq cloud \union {None}
    BY <1>1, <2>1 DEF CloudSound, GalleryPcs
  <2>4. Kept' \subseteq cloud' \union {None}
    BY <1>1, <1>4, <2>2, <2>3
  <2>5. /\ cloud \subseteq Kept \union dropped \union mediaReq.new
        /\ mediaReq.new \subseteq Coming /\ Kept \subseteq Coming \union mediaReq.old
    BY <1>1, <2>1 DEF CloudSound, MediaInv, DeletesApart, GalleryPcs
  <2>6. cloud' \subseteq Kept' \union dropped'
    BY <1>1, <1>4, <2>5
  <2> QED BY <1>2, <2>4, <2>6 DEF CloudSound, GalleryPcs
<1> QED
  BY <1>3, <1>5, <1>6, <1>7 DEF MediaInv

\* With the row its cover goes, and nothing of it is shown any more.
LEMMA DeleteMediaStep ==
    ASSUME Assumptions, MediaInv, NEW assets, row.cover \in assets, Media!Delete(assets)
    PROVE  MediaInv'
<1>1. /\ mediaReq.pc = "idle" /\ row' = Media!NoRow /\ image' = Media!NoGallery
      /\ cloud' = cloud \ assets /\ UNCHANGED <<kind, mediaReq, unread>>
      /\ dropped' = dropped \union (Media!Shown(image) \ assets)
  BY DEF Media!Delete
<1>2. Media!NoRow \in Media!Rows /\ Media!NoRow.cover = None /\ Named(Media!NoRow)
  BY DEF Media!NoRow, Media!Rows, Named
<1>3. Media!NoGallery \in Media!Galleries
  BY DEF Media!NoGallery, Media!Galleries, Media!NoImage
<1>4. \A i \in Images : image'[i].asset = None /\ image'[i].primary = FALSE
  BY <1>1 DEF Media!NoGallery, Media!NoImage
<1>5. Media!TypeOK'
  <2>1. dropped' \subseteq Ids
    BY <1>1, MediaShape, ShownAreIds
  <2> QED BY <1>1, <1>2, <1>3, <2>1 DEF MediaInv, Media!TypeOK
<1>6. RowsExist' /\ DeletesApart'
  BY <1>1, <1>2 DEF MediaInv, RowsExist, DeletesApart, GalleryPcs, Named
<1>7. GalleriesSound'
  BY <1>1, <1>4 DEF GalleriesSound, GalleryPcs, Distinct, One, Media!primaries
<1>8. Kept' \subseteq {None}
  BY <1>1, <1>2, <1>4 DEF Kept, Media!Shown
<1>9. ASSUME ~ unread' PROVE CloudSound'
  <2>1. cloud \subseteq Kept \union dropped
    BY <1>1, <1>9 DEF MediaInv, CloudSound
  <2>2. cloud' \subseteq dropped'
    BY <1>1, <2>1 DEF Kept
  <2> QED BY <1>1, <1>8, <2>2 DEF CloudSound, GalleryPcs
<1> QED
  BY <1>5, <1>6, <1>7, <1>9 DEF MediaInv

LEMMA DeleteImageStep ==
    ASSUME Assumptions, MediaInv, NEW i \in Images, Media!DeleteImage(i)
    PROVE  MediaInv'
<1>1. /\ mediaReq.pc = "idle" /\ image' = [image EXCEPT ![i] = Media!NoImage]
      /\ cloud' = cloud \ {image[i].asset} /\ UNCHANGED <<kind, row, mediaReq, unread, dropped>>
  BY DEF Media!DeleteImage
<1>2. image \in Media!Galleries
  BY MediaShape
<1>3. image' \in Media!Galleries
  BY <1>1, <1>2 DEF Media!Galleries
<1>4. \A j \in Images : image'[j] = IF j = i THEN Media!NoImage ELSE image[j]
  BY <1>1, <1>2 DEF Media!Galleries
<1>5. Media!NoImage.asset = None /\ Media!NoImage.primary = FALSE
  BY DEF Media!NoImage
<1>6. image[i].asset \in Ids
  BY <1>2 DEF Media!DeleteImage, Media!Galleries
<1>7. Media!TypeOK'
  BY <1>1, <1>3 DEF MediaInv, Media!TypeOK
<1>8. RowsExist' /\ DeletesApart'
  BY <1>1 DEF MediaInv, RowsExist, DeletesApart, GalleryPcs, Named
<1>9. GalleriesSound'
  BY <1>1, <1>4, <1>5 DEF MediaInv, GalleriesSound, GalleryPcs, Distinct, One, Media!primaries
<1>10. ASSUME ~ unread' PROVE CloudSound'
  <2>1. CloudSound
    BY <1>1, <1>10 DEF MediaInv
  <2>2. Media!Shown(image') \subseteq Media!Shown(image) \ {image[i].asset}
    BY <1>4, <1>5 DEF MediaInv, GalleriesSound, Distinct, Media!Shown
  <2>3. row.cover # image[i].asset
    BY <1>6, MediaShape, CoverOf DEF Assumptions
  <2>4. Kept' \subseteq Kept \ {image[i].asset}
    BY <1>1, <2>2, <2>3 DEF Kept
  <2>5. Kept' \subseteq cloud' \union {None}
    BY <1>1, <2>1, <2>4 DEF CloudSound
  <2>6. Kept \ {image[i].asset} \subseteq Kept'
    BY <1>1, <1>4 DEF Kept, Media!Shown
  <2>7. cloud' \subseteq Kept' \union dropped'
    BY <1>1, <2>1, <2>6 DEF CloudSound
  <2> QED BY <1>1, <2>5, <2>7 DEF CloudSound, GalleryPcs
<1> QED
  BY <1>7, <1>8, <1>9, <1>10 DEF MediaInv

LEMMA NextMedia ==
    ASSUME Assumptions, MediaInv, [Media!Next]_mediaVars
    PROVE  MediaInv'
<1>1. CASE UNCHANGED mediaVars
  BY <1>1 DEF mediaVars, MediaInv, Media!TypeOK, RowsExist, GalleriesSound, DeletesApart,
       CloudSound, Kept, Coming, Distinct, One, Media!primaries, Media!Shown, GalleryPcs,
       Named
<1>2. ASSUME NEW cover \in Covers \union {None}, NEW g \in Media!Galleries,
             \/ Media!createDestination(cover, g) \/ Media!createAccommodation(cover, g)
             \/ Media!createRestaurant(cover, g)
      PROVE  MediaInv'
  BY <1>2, CreateStep
  DEF Media!createDestination, Media!createAccommodation, Media!createRestaurant
<1>3. ASSUME NEW cover \in Covers \union {None}, NEW g \in Media!Galleries,
             \/ Media!updateDestination(cover, g) \/ Media!updateAccommodation(cover, g)
             \/ Media!updateRestaurant(cover, g)
      PROVE  MediaInv'
  BY <1>3, UpdateStep
  DEF Media!updateDestination, Media!updateAccommodation, Media!updateRestaurant
<1>4. ASSUME NEW cover \in Covers \union {None},
             Media!createCategory(cover) \/ Media!createTemplate(cover)
      PROVE  MediaInv'
  <2>1. Media!NoGallery \in Media!Galleries
    BY DEF Media!NoGallery, Media!Galleries, Media!NoImage
  <2> QED BY <1>4, <2>1, CreateStep DEF Media!createCategory, Media!createTemplate
<1>5. ASSUME NEW cover \in Covers \union {None},
             Media!updateCategory(cover) \/ Media!updateTemplate(cover)
      PROVE  MediaInv'
  BY <1>5, MediaShape, UpdateStep DEF Media!updateCategory, Media!updateTemplate
<1>6. CASE Media!Write \/ Media!Refetch \/ Media!Fail
  BY <1>6, WriteMediaStep, RefetchStep, FailStep
<1>7. CASE \/ Media!hardDeleteDestination \/ Media!hardDeleteAccommodation
           \/ Media!hardDeleteRestaurant \/ Media!hardDeleteCategory \/ Media!deleteTemplate
  BY <1>7, DeleteMediaStep
  DEF Media!hardDeleteDestination, Media!hardDeleteAccommodation,
      Media!hardDeleteRestaurant, Media!hardDeleteCategory, Media!deleteTemplate
<1>8. ASSUME NEW i \in Images, NEW a \in Ids, NEW p \in BOOLEAN,
             \/ Media!createDestinationImage(i, a, p) \/ Media!createAccommodationImage(i, a, p)
             \/ Media!createRestaurantImage(i, a, p)
      PROVE  MediaInv'
  BY <1>8, CreateImageStep
  DEF Media!createDestinationImage, Media!createAccommodationImage, Media!createRestaurantImage
<1>9. ASSUME NEW i \in Images, NEW a \in Ids, NEW p \in BOOLEAN,
             \/ Media!updateDestinationImage(i, a, p) \/ Media!updateAccommodationImage(i, a, p)
             \/ Media!updateRestaurantImage(i, a, p)
      PROVE  MediaInv'
  BY <1>9, UpdateImageStep
  DEF Media!updateDestinationImage, Media!updateAccommodationImage, Media!updateRestaurantImage
<1>10. ASSUME NEW i \in Images,
              \/ Media!deleteDestinationImage(i) \/ Media!deleteAccommodationImage(i)
              \/ Media!deleteRestaurantImage(i)
       PROVE  MediaInv'
  BY <1>10, DeleteImageStep
  DEF Media!deleteDestinationImage, Media!deleteAccommodationImage, Media!deleteRestaurantImage
<1>11. CASE Media!clearPrimaryImages \/ Media!setCoverImage \/ Media!writeImage
  BY <1>11, ClearStep, SetCoverStep, WriteImageStep
<1> QED
  BY <1>1, <1>2, <1>3, <1>4, <1>5, <1>6, <1>7, <1>8, <1>9, <1>10, <1>11 DEF Media!Next

\* What the run checks of covers and galleries follows.
LEMMA MediaSound ==
    ASSUME Assumptions, MediaInv
    PROVE  Media!ImagesExist /\ Media!OnePrimary /\ Media!NothingStays
<1>1. ASSUME ~ unread
      PROVE  /\ Kept \subseteq cloud \union {None}
             /\ row.url \in cloud \union {None} \union (Ids \ Media!Shown(image))
  <2>1. Kept \subseteq cloud \union {None}
    BY <1>1 DEF MediaInv, CloudSound
  <2>2. row.url \in Covers \union Ids \union {None}
    BY MediaShape DEF Media!Rows, Media!MediaFiles
  <2>3. row.url \in Covers => row.url \in Kept
    BY DEF MediaInv, RowsExist, Named, Kept
  <2>4. row.url \in Media!Shown(image) => row.url \in Kept
    BY DEF Kept
  <2> QED BY <2>1, <2>2, <2>3, <2>4
<1>2. Media!OnePrimary
  BY OneCounted DEF Media!OnePrimary, MediaInv, GalleriesSound
<1>3. Media!NothingStays
  BY DEF Media!NothingStays, MediaInv, CloudSound, Kept
<1>4. Media!ImagesExist
  BY <1>1 DEF Media!ImagesExist, Kept
<1> QED BY <1>2, <1>3, <1>4

-----------------------------------------------------------------------------
(* Avatars.                                                                *)

\* The asset was uploaded for this request.
Own(r) == reqs[r].new \notin {None, reqs[r].read}

\* ... it exists, and nobody but the request knows it.
OwnApart ==
    \A r \in Requests : Own(r) =>
        /\ reqs[r].new \in stored /\ reqs[r].new # avatar
        /\ \A o \in Requests \ {r} : reqs[r].new \notin {reqs[o].read, reqs[o].new}

RequestsSound ==
    \A r \in Requests :
        /\ reqs[r].pc = "idle" => reqs[r] = Avatar!Idle
        /\ reqs[r].pc = "file" => Own(r)
        /\ reqs[r].pc = "close" => reqs[r].new = None

\* As long as nothing has gone wrong one request is in progress at most, what it has
\* read is still so, and only what is shown or will be is there.
NothingElse ==
    trouble = {} =>
        /\ \A r, o \in Requests : reqs[r] # Avatar!Idle /\ reqs[o] # Avatar!Idle => r = o
        /\ \A r \in Requests : reqs[r] # Avatar!Idle =>
              /\ reqs[r].read = avatar /\ stored \subseteq {avatar, reqs[r].new}
              /\ reqs[r].pc = "file" => stored \subseteq {reqs[r].new}
        /\ (\A r \in Requests : reqs[r] = Avatar!Idle) => stored \subseteq {avatar}

AvatarInv ==
    /\ Avatar!TypeOK
    /\ OwnApart /\ RequestsSound /\ NothingElse
    /\ Avatar!AvatarExists

AvatarRequest ==
    [pc : {"idle", "profile", "file", "admin", "close"},
     read : Assets \union {None}, new : Assets \union {None}]

LEMMA AvatarShape ==
    ASSUME AvatarInv
    PROVE  /\ reqs \in [Requests -> AvatarRequest] /\ Avatar!Idle \in AvatarRequest
           /\ Avatar!Idle.pc = "idle" /\ Avatar!Idle.read = None /\ Avatar!Idle.new = None
           /\ avatar \in Assets \union {None} /\ stored \subseteq Assets
           /\ account \in {"live", "deleted", "gone"} /\ trouble \subseteq Avatar!Troubles
BY DEF AvatarInv, Avatar!TypeOK, AvatarRequest, Avatar!Idle

LEMMA InitAvatar ==
    ASSUME Assumptions, Avatar!Init
    PROVE  AvatarInv
<1>1. \A r \in Requests : reqs[r] = Avatar!Idle
  BY DEF Avatar!Init
<1>2. Avatar!Idle.pc = "idle" /\ Avatar!Idle.read = None /\ Avatar!Idle.new = None
  BY DEF Avatar!Idle
<1>3. Avatar!TypeOK
  BY DEF Avatar!Init, Avatar!TypeOK, Avatar!Idle
<1>4. OwnApart /\ RequestsSound
  BY <1>1, <1>2 DEF OwnApart, RequestsSound, Own
<1>5. NothingElse /\ Avatar!AvatarExists
  BY <1>1 DEF NothingElse, Avatar!AvatarExists, Avatar!Init
<1> QED
  BY <1>3, <1>4, <1>5 DEF AvatarInv

\* The four requests begin alike.  Only a file replaces the old asset before the row is
\* written.
LEMMA BeginAvatarStep ==
    ASSUME Assumptions, AvatarInv, NEW r \in Requests,
           NEW pc \in {"profile", "file", "admin", "close"}, NEW a \in Assets \union {None},
           Avatar!Begin(r, pc, a),
           Avatar!Fresh(a) \/ a \in {None, avatar},
           pc = "file" => Avatar!Fresh(a),
           pc = "close" => a = None,
           stored' = IF pc = "file" THEN (stored \union {a}) \ {avatar}
                     ELSE stored \union ({a} \ {None, avatar})
    PROVE  AvatarInv'
<1> DEFINE q == [pc |-> pc, read |-> avatar, new |-> a]
<1>1. /\ reqs[r] = Avatar!Idle /\ reqs' = [reqs EXCEPT ![r] = q]
      /\ account' = account /\ avatar' = avatar
      /\ trouble' = IF \E o \in Requests : reqs[o] # Avatar!Idle
                    THEN trouble \union {"overlap"} ELSE trouble
  BY DEF Avatar!Begin
<1>2. /\ reqs \in [Requests -> AvatarRequest] /\ Avatar!Idle.pc = "idle"
      /\ avatar \in Assets \union {None} /\ stored \subseteq Assets /\ None \notin Assets
  BY AvatarShape DEF Assumptions
<1>3. q \in AvatarRequest /\ q.pc = pc /\ q.read = avatar /\ q.new = a
  BY <1>2 DEF AvatarRequest
<1>4. "overlap" \in Avatar!Troubles
  BY DEF Avatar!Troubles
<1> HIDE DEF q
<1>5. \A o \in Requests : reqs'[o] = IF o = r THEN q ELSE reqs[o]
  BY <1>1, <1>2
<1>6. Avatar!TypeOK'
  <2>1. reqs' \in [Requests -> AvatarRequest]
    BY <1>1, <1>2, <1>3
  <2>2. trouble' \subseteq Avatar!Troubles
    BY <1>1, <1>4, AvatarShape
  <2>3. stored' \subseteq Assets
    BY <1>2 DEF Avatar!Fresh
  <2> QED BY <1>1, <1>2, <2>1, <2>2, <2>3, AvatarShape DEF Avatar!TypeOK, AvatarRequest
<1>7. ASSUME Avatar!Fresh(a)
      PROVE  /\ a \in Assets \ stored /\ a # avatar
             /\ \A o \in Requests : a \notin {reqs[o].read, reqs[o].new}
  BY <1>7 DEF Avatar!Fresh
<1>8. OwnApart'
  <2>1. ASSUME Own(r)' PROVE Avatar!Fresh(a)
    BY <1>3, <1>5, <2>1 DEF Own
  <2>2. ASSUME Own(r)'
        PROVE  /\ reqs'[r].new \in stored' /\ reqs'[r].new # avatar'
               /\ \A o \in Requests \ {r} : reqs'[r].new \notin {reqs'[o].read, reqs'[o].new}
    BY <1>1, <1>2, <1>3, <1>5, <1>7, <2>1, <2>2
  <2>3. ASSUME NEW o \in Requests, o # r, Own(o)'
        PROVE  /\ reqs'[o].new \in stored' /\ reqs'[o].new # avatar'
               /\ \A p \in Requests \ {o} : reqs'[o].new \notin {reqs'[p].read, reqs'[p].new}
    <3>1. reqs'[o] = reqs[o] /\ Own(o)
      BY <1>5, <2>3 DEF Own
    <3>2. /\ reqs[o].new \in stored /\ reqs[o].new # avatar /\ reqs[o].new # None
          /\ \A p \in Requests \ {o} : reqs[o].new \notin {reqs[p].read, reqs[p].new}
      BY <3>1 DEF AvatarInv, OwnApart, Own
    <3>3. reqs[o].new # a
      BY <1>7, <3>2
    <3>4. reqs[o].new \in stored'
      BY <3>2
    <3> QED BY <1>1, <1>3, <1>5, <3>1, <3>2, <3>3, <3>4
  <2> QED BY <2>2, <2>3 DEF OwnApart
<1>9. RequestsSound'
  <2>1. pc = "file" => q.new \notin {None, q.read}
    BY <1>2, <1>3, <1>7
  <2> QED BY <1>3, <1>5, <2>1 DEF AvatarInv, RequestsSound, Own
<1>10. NothingElse'
  <2>1. SUFFICES ASSUME trouble' = {} PROVE NothingElse'
    BY DEF NothingElse
  <2>2. trouble = {} /\ \A o \in Requests : reqs[o] = Avatar!Idle
    BY <1>1, <2>1
  <2>3. stored \subseteq {avatar}
    BY <2>2 DEF AvatarInv, NothingElse
  <2>4. stored' \subseteq {avatar, a} /\ (pc = "file" => stored' \subseteq {a})
    BY <2>3
  <2>5. \A o \in Requests : o # r => reqs'[o] = Avatar!Idle
    BY <1>5, <2>2
  <2>6. reqs'[r] # Avatar!Idle
    BY <1>2, <1>3, <1>5
  <2> QED BY <1>1, <1>3, <1>5, <2>4, <2>5, <2>6 DEF NothingElse
<1>11. Avatar!AvatarExists'
  <2>1. CASE pc = "file"
    <3>1. reqs'[r].pc = "file"
      BY <1>3, <1>5, <2>1
    <3> QED BY <3>1 DEF Avatar!AvatarExists
  <2>2. CASE pc # "file"
    <3>1. stored \subseteq stored' /\ trouble \subseteq trouble'
      BY <1>1, <2>2
    <3>2. \A o \in Requests : reqs[o].pc = "file" => reqs'[o].pc = "file"
      BY <1>1, <1>2, <1>5
    <3>3. Avatar!AvatarExists
      BY DEF AvatarInv
    <3> QED BY <1>1, <3>1, <3>2, <3>3 DEF Avatar!AvatarExists
  <2> QED BY <2>1, <2>2
<1> QED
  BY <1>6, <1>8, <1>9, <1>10, <1>11 DEF AvatarInv

\* What the end of a request leaves alone: the other requests, and what is their own
\* unless it is deleted or shown.
LEMMA EndAvatarStep ==
    ASSUME Assumptions, AvatarInv, NEW r \in Requests,
           reqs' = [reqs EXCEPT ![r] = Avatar!Idle],
           NEW gone \in SUBSET (Assets \union {None}), stored' = stored \ gone,
           gone \subseteq {reqs[r].read, reqs[r].new},
           avatar' \in {avatar, reqs[r].new}
    PROVE  OwnApart' /\ RequestsSound'
<1>1. /\ reqs \in [Requests -> AvatarRequest] /\ Avatar!Idle \in AvatarRequest
      /\ Avatar!Idle.pc = "idle" /\ Avatar!Idle.read = None /\ Avatar!Idle.new = None
  BY AvatarShape
<1>2. \A o \in Requests : reqs'[o] = IF o = r THEN Avatar!Idle ELSE reqs[o]
  BY <1>1
<1>3. RequestsSound'
  BY <1>1, <1>2 DEF AvatarInv, RequestsSound, Own
<1>4. ASSUME NEW o \in Requests, Own(o)'
      PROVE  /\ reqs'[o].new \in stored' /\ reqs'[o].new # avatar'
             /\ \A p \in Requests \ {o} : reqs'[o].new \notin {reqs'[p].read, reqs'[p].new}
  <2>1. o # r /\ reqs'[o] = reqs[o] /\ Own(o)
    BY <1>1, <1>2, <1>4 DEF Own
  <2>2. /\ reqs[o].new \in stored /\ reqs[o].new # avatar /\ reqs[o].new # None
        /\ \A p \in Requests \ {o} : reqs[o].new \notin {reqs[p].read, reqs[p].new}
    BY <2>1 DEF AvatarInv, OwnApart, Own
  <2>3. reqs[o].new \notin {reqs[r].read, reqs[r].new}
    BY <2>1, <2>2
  <2>4. reqs'[o].new \in stored' /\ reqs'[o].new # avatar'
    BY <2>1, <2>2, <2>3
  <2>5. \A p \in Requests \ {o} : reqs'[o].new \notin {reqs'[p].read, reqs'[p].new}
    BY <1>1, <1>2, <2>1, <2>2
  <2> QED BY <2>4, <2>5
<1>5. OwnApart'
  BY <1>4 DEF OwnApart
<1> QED BY <1>3, <1>5

\* As long as nothing has gone wrong, nobody else is at work when a request ends.
LEMMA EndAlone ==
    ASSUME AvatarInv, NEW r \in Requests, reqs[r] # Avatar!Idle, trouble = {},
           reqs' = [reqs EXCEPT ![r] = Avatar!Idle],
           stored' \subseteq {avatar'}
    PROVE  NothingElse'
<1>1. reqs \in [Requests -> AvatarRequest]
  BY AvatarShape
<1>2. \A o \in Requests : o # r => reqs[o] = Avatar!Idle
  BY DEF AvatarInv, NothingElse
<1>3. \A o \in Requests : reqs'[o] = Avatar!Idle
  BY <1>1, <1>2
<1> QED BY <1>3 DEF NothingElse

LEMMA TroubleKnown == {"overlap", "sent again", "row", "failed"} \subseteq Avatar!Troubles
BY DEF Avatar!Troubles

LEMMA WriteAvatarStep ==
    ASSUME Assumptions, AvatarInv, NEW r \in Requests, Avatar!WriteRow(r)
    PROVE  AvatarInv'
<1> DEFINE gone == IF stored' = stored THEN {} ELSE Avatar!Replaced(r)
<1>1. /\ reqs[r].pc \in {"profile", "file", "admin"} /\ account' = account
      /\ avatar' = reqs[r].new
      /\ reqs' = [reqs EXCEPT ![r] = Avatar!Idle]
      /\ trouble \subseteq trouble' /\ trouble' \subseteq trouble \union {"sent again", "failed"}
      /\ stored' \in {stored, stored \ Avatar!Replaced(r)}
  BY DEF Avatar!WriteRow, Avatar!Finish
<1>2. trouble' = {} => stored' = stored \ Avatar!Replaced(r)
  BY DEF Avatar!WriteRow, Avatar!Finish
<1>3. reqs[r].read = reqs[r].new /\ reqs[r].new \notin {avatar, None} => "sent again" \in trouble'
  BY DEF Avatar!WriteRow, Avatar!Finish, Avatar!Replaced
<1>4. /\ reqs \in [Requests -> AvatarRequest] /\ reqs[r] \in AvatarRequest
      /\ Avatar!Idle.pc = "idle" /\ Avatar!Idle \in AvatarRequest
      /\ stored \subseteq Assets /\ None \notin Assets /\ reqs[r] # Avatar!Idle
  BY <1>1, AvatarShape DEF Assumptions
<1>5. /\ reqs[r].read \in Assets \union {None} /\ reqs[r].new \in Assets \union {None}
  BY <1>4 DEF AvatarRequest
<1>6. /\ Avatar!Replaced(r) \subseteq {reqs[r].read} /\ reqs[r].new \notin Avatar!Replaced(r)
      /\ None \notin Avatar!Replaced(r)
      /\ reqs[r].pc # "file" => Avatar!Replaced(r) = {reqs[r].read} \ {None, reqs[r].new}
  BY DEF Avatar!Replaced
<1>7. gone \subseteq {reqs[r].read} /\ stored' = stored \ gone
  BY <1>1, <1>6
<1> HIDE DEF gone
<1>8. OwnApart' /\ RequestsSound'
  <2>1. gone \in SUBSET (Assets \union {None})
    BY <1>5, <1>7
  <2>2. gone \subseteq {reqs[r].read, reqs[r].new}
    BY <1>7
  <2> QED BY <1>1, <1>7, <2>1, <2>2, EndAvatarStep
<1>9. Avatar!TypeOK'
  <2>1. reqs' \in [Requests -> AvatarRequest]
    BY <1>1, <1>4
  <2>2. trouble' \subseteq Avatar!Troubles
    BY <1>1, AvatarShape, TroubleKnown
  <2>3. stored' \subseteq Assets
    BY <1>1, <1>4
  <2> QED BY <1>1, <1>5, <2>1, <2>2, <2>3, AvatarShape DEF Avatar!TypeOK, AvatarRequest
<1>10. NothingElse'
  <2>1. SUFFICES ASSUME trouble' = {} PROVE NothingElse'
    BY DEF NothingElse
  <2>2. trouble = {} /\ stored' = stored \ Avatar!Replaced(r)
    BY <1>1, <1>2, <2>1
  <2>3. /\ reqs[r].read = avatar /\ stored \subseteq {avatar, reqs[r].new}
        /\ reqs[r].pc = "file" => stored \subseteq {reqs[r].new}
    BY <1>4, <2>2 DEF AvatarInv, NothingElse
  <2>4. stored' \subseteq {reqs[r].new}
    BY <1>4, <1>6, <2>2, <2>3
  <2> QED BY <1>1, <1>4, <2>2, <2>4, EndAlone
<1>11. Avatar!AvatarExists'
  <2>1. CASE reqs[r].new = None
    BY <1>1, <2>1 DEF Avatar!AvatarExists
  <2>2. CASE Own(r)
    <3>1. reqs[r].new \in stored
      BY <2>2 DEF AvatarInv, OwnApart
    <3>2. avatar' \in stored'
      BY <1>1, <1>6, <3>1
    <3> QED BY <3>2 DEF Avatar!AvatarExists
  <2>3. CASE reqs[r].new = reqs[r].read /\ reqs[r].new # None /\ reqs[r].new # avatar
    <3>1. "sent again" \in trouble'
      BY <1>3, <2>3
    <3> QED BY <3>1 DEF Avatar!AvatarExists
  <2>4. CASE reqs[r].new = reqs[r].read /\ reqs[r].new = avatar
    <3>1. avatar' = avatar /\ stored' = stored /\ reqs[r].pc # "file"
      <4>1. reqs[r].pc # "file"
        BY <2>4 DEF AvatarInv, RequestsSound, Own
      <4>2. Avatar!Replaced(r) = {}
        BY <1>6, <2>4, <4>1
      <4> QED BY <1>1, <2>4, <4>1, <4>2
    <3>2. \A o \in Requests : reqs[o].pc = "file" => reqs'[o].pc = "file"
      BY <1>1, <1>4, <3>1
    <3>3. Avatar!AvatarExists
      BY DEF AvatarInv
    <3> QED BY <1>1, <3>1, <3>2, <3>3 DEF Avatar!AvatarExists
  <2> QED BY <2>1, <2>2, <2>3, <2>4 DEF Own
<1> QED
  BY <1>8, <1>9, <1>10, <1>11 DEF AvatarInv

LEMMA FailAvatarStep ==
    ASSUME Assumptions, AvatarInv, NEW r \in Requests, Avatar!FailRow(r)
    PROVE  AvatarInv'
<1> DEFINE gone == IF reqs[r].pc = "admin" THEN {reqs[r].new} \ {reqs[r].read} ELSE {}
<1>1. /\ reqs[r].pc \in {"profile", "file", "admin"} /\ UNCHANGED <<account, avatar>>
      /\ reqs' = [reqs EXCEPT ![r] = Avatar!Idle]
      /\ trouble \subseteq trouble' /\ trouble' \subseteq trouble \union {"row", "failed"}
      /\ stored' = stored \ gone
      /\ reqs[r].pc = "file" => "row" \in trouble'
      /\ reqs[r].pc # "admin" => trouble' # {}
  BY DEF Avatar!FailRow, Avatar!Finish
<1>2. /\ reqs \in [Requests -> AvatarRequest] /\ reqs[r] \in AvatarRequest
      /\ Avatar!Idle.pc = "idle" /\ Avatar!Idle \in AvatarRequest
      /\ stored \subseteq Assets /\ None \notin Assets /\ reqs[r] # Avatar!Idle
  BY <1>1, AvatarShape DEF Assumptions
<1>3. /\ reqs[r].read \in Assets \union {None} /\ reqs[r].new \in Assets \union {None}
  BY <1>2 DEF AvatarRequest
<1>4. gone \in SUBSET (Assets \union {None}) /\ gone \subseteq {reqs[r].read, reqs[r].new}
  BY <1>3
<1>5. avatar \notin gone \/ avatar = None
  BY DEF AvatarInv, OwnApart, Own
<1>6. reqs[r].pc = "admin" => gone = {reqs[r].new} \ {reqs[r].read}
  OBVIOUS
<1> HIDE DEF gone
<1>7. OwnApart' /\ RequestsSound'
  BY <1>1, <1>4, EndAvatarStep
<1>8. Avatar!TypeOK'
  <2>1. reqs' \in [Requests -> AvatarRequest]
    BY <1>1, <1>2
  <2>2. trouble' \subseteq Avatar!Troubles
    BY <1>1, AvatarShape, TroubleKnown
  <2>3. stored' \subseteq Assets
    BY <1>1, <1>2
  <2> QED BY <1>1, <2>1, <2>2, <2>3, AvatarShape DEF Avatar!TypeOK, AvatarRequest
<1>9. NothingElse'
  <2>1. SUFFICES ASSUME trouble' = {} PROVE NothingElse'
    BY DEF NothingElse
  <2>2. trouble = {} /\ reqs[r].pc = "admin"
    BY <1>1, <2>1
  <2>3. reqs[r].read = avatar /\ stored \subseteq {avatar, reqs[r].new}
    BY <1>2, <2>2 DEF AvatarInv, NothingElse
  <2>4. stored' \subseteq {avatar'}
    BY <1>1, <1>6, <2>2, <2>3
  <2> QED BY <1>1, <1>2, <2>2, <2>4, EndAlone
<1>10. Avatar!AvatarExists'
  <2>1. CASE reqs[r].pc = "file"
    BY <1>1, <2>1 DEF Avatar!AvatarExists
  <2>2. CASE reqs[r].pc # "file"
    <3>1. \A o \in Requests : reqs[o].pc = "file" => reqs'[o].pc = "file"
      BY <1>1, <1>2, <2>2
    <3>2. Avatar!AvatarExists
      BY DEF AvatarInv
    <3> QED BY <1>1, <1>5, <3>1, <3>2 DEF Avatar!AvatarExists
  <2> QED BY <2>1, <2>2
<1> QED
  BY <1>7, <1>8, <1>9, <1>10 DEF AvatarInv

LEMMA CloseAvatarStep ==
    ASSUME Assumptions, AvatarInv, NEW r \in Requests, Avatar!softDeleteUser(r)
    PROVE  AvatarInv'
<1>1. /\ reqs[r].pc = "close" /\ account' = "deleted" /\ avatar' = avatar
      /\ reqs' = [reqs EXCEPT ![r] = Avatar!Idle]
      /\ trouble' = trouble /\ stored' = stored \ {reqs[r].read}
  BY DEF Avatar!softDeleteUser, Avatar!Finish
<1>2. /\ reqs \in [Requests -> AvatarRequest] /\ reqs[r] \in AvatarRequest
      /\ Avatar!Idle.pc = "idle" /\ Avatar!Idle \in AvatarRequest
      /\ stored \subseteq Assets /\ None \notin Assets /\ reqs[r] # Avatar!Idle
  BY <1>1, AvatarShape DEF Assumptions
<1>3. {reqs[r].read} \in SUBSET (Assets \union {None})
  BY <1>2 DEF AvatarRequest
<1>4. OwnApart' /\ RequestsSound'
  BY <1>1, <1>3, EndAvatarStep
<1>5. Avatar!TypeOK'
  <2>1. reqs' \in [Requests -> AvatarRequest]
    BY <1>1, <1>2
  <2> QED BY <1>1, <1>2, <2>1, AvatarShape DEF Avatar!TypeOK, AvatarRequest
<1>6. NothingElse'
  <2>1. SUFFICES ASSUME trouble = {} PROVE NothingElse'
    BY <1>1 DEF NothingElse
  <2>2. reqs[r].read = avatar /\ stored \subseteq {avatar, reqs[r].new}
    BY <1>2, <2>1 DEF AvatarInv, NothingElse
  <2>3. reqs[r].new = None
    BY <1>1 DEF AvatarInv, RequestsSound
  <2>4. stored' \subseteq {avatar'}
    BY <1>1, <1>2, <2>2, <2>3
  <2> QED BY <1>1, <1>2, <2>1, <2>4, EndAlone
<1>7. Avatar!AvatarExists'
  BY <1>1 DEF Avatar!AvatarExists
<1> QED
  BY <1>4, <1>5, <1>6, <1>7 DEF AvatarInv

LEMMA DeleteUserStep ==
    ASSUME Assumptions, AvatarInv, NEW hard \in BOOLEAN, Avatar!deleteUser(hard)
    PROVE  AvatarInv'
<1>1. /\ account' # "live" /\ account' \in {"deleted", "gone"} /\ reqs' = reqs
      /\ \/ avatar' = avatar /\ stored' = stored
         \/ avatar' = None /\ stored' = stored \ {avatar}
      /\ trouble' = IF \E o \in Requests : reqs[o] # Avatar!Idle
                    THEN trouble \union {"overlap"} ELSE trouble
  BY DEF Avatar!deleteUser
<1>2. stored \subseteq Assets /\ None \notin Assets /\ trouble' \subseteq Avatar!Troubles
  BY <1>1, AvatarShape, TroubleKnown DEF Assumptions
<1>3. Avatar!TypeOK'
  BY <1>1, <1>2 DEF AvatarInv, Avatar!TypeOK
<1>4. OwnApart' /\ RequestsSound'
  BY <1>1 DEF AvatarInv, OwnApart, RequestsSound, Own
<1>5. NothingElse'
  <2>1. SUFFICES ASSUME trouble' = {} PROVE NothingElse'
    BY DEF NothingElse
  <2>2. trouble = {} /\ \A o \in Requests : reqs[o] = Avatar!Idle
    BY <1>1, <2>1
  <2>3. stored' \subseteq {avatar'}
    BY <1>1, <2>2 DEF AvatarInv, NothingElse
  <2> QED BY <1>1, <2>2, <2>3 DEF NothingElse
<1>6. Avatar!AvatarExists'
  BY <1>1 DEF Avatar!AvatarExists
<1> QED
  BY <1>3, <1>4, <1>5, <1>6 DEF AvatarInv

LEMMA NextAvatar ==
    ASSUME Assumptions, AvatarInv, [Avatar!Next]_avatarsVars
    PROVE  AvatarInv'
<1>1. CASE UNCHANGED avatarsVars
  BY <1>1 DEF avatarsVars, AvatarInv, Avatar!TypeOK, OwnApart, RequestsSound, Own,
       NothingElse, Avatar!AvatarExists
<1>2. ASSUME NEW r \in Requests, NEW a \in Assets \union {None}, Avatar!updateProfile(r, a)
      PROVE  AvatarInv'
  BY <1>2, BeginAvatarStep DEF Avatar!updateProfile
<1>3. ASSUME NEW r \in Requests, NEW a \in Assets \union {None}, Avatar!updateUser(r, a)
      PROVE  AvatarInv'
  <2>1. a # None
    BY <1>3 DEF Avatar!updateUser, Avatar!Fresh, Assumptions
  <2>2. stored' = stored \union ({a} \ {None, avatar})
    BY <1>3, <2>1 DEF Avatar!updateUser
  <2> QED BY <1>3, <2>2, BeginAvatarStep DEF Avatar!updateUser
<1>4. ASSUME NEW r \in Requests, NEW a \in Assets, Avatar!uploadAvatar(r, a)
      PROVE  AvatarInv'
  BY <1>4, BeginAvatarStep DEF Avatar!uploadAvatar, Avatar!replaceFile
<1>5. ASSUME NEW r \in Requests, Avatar!deleteAccount(r)
      PROVE  AvatarInv'
  <2>1. stored' = stored \union ({None} \ {None, avatar})
    BY <1>5 DEF Avatar!deleteAccount
  <2> QED BY <1>5, <2>1, BeginAvatarStep DEF Avatar!deleteAccount
<1>6. ASSUME NEW r \in Requests,
             Avatar!softDeleteUser(r) \/ Avatar!WriteRow(r) \/ Avatar!FailRow(r)
      PROVE  AvatarInv'
  BY <1>6, CloseAvatarStep, WriteAvatarStep, FailAvatarStep
<1>7. ASSUME NEW hard \in BOOLEAN, Avatar!deleteUser(hard)
      PROVE  AvatarInv'
  BY <1>7, DeleteUserStep
<1> QED
  BY <1>1, <1>2, <1>3, <1>4, <1>5, <1>6, <1>7 DEF Avatar!Next

LEMMA AvatarSound ==
    ASSUME AvatarInv
    PROVE  Avatar!AvatarExists /\ Avatar!NoneLeft
BY DEF AvatarInv, NothingElse, Avatar!NoneLeft

-----------------------------------------------------------------------------
(* Rows that are replaced below a header.                                  *)

\* Of every request it has a row of, all it wrote.
Whole(S) ==
    \A r \in S : r \in Replacing!RowsOf(r[1]) /\ Replacing!RowsOf(r[1]) \subseteq S

\* What is committed, what a statement has found and what an edit has deleted is whole;
\* what it has inserted may not be yet.
AllWhole ==
    /\ Whole(rows)
    /\ \A s \in Requests :
          /\ Whole(txn[s].gone)
          /\ txn[s].seen # None => Whole(txn[s].seen)
          /\ txn[s].added \subseteq Replacing!RowsOf(s)

\* An edit goes through its statements in order.
InOrder ==
    \A s \in Requests :
        /\ txn[s].pc # "insert" => txn[s].added = {}
        /\ txn[s].pc \in {"begin", "header"} => txn[s].seen = None /\ txn[s].gone = {}
        /\ txn[s].pc = "activities" => header = "TEMPLATE"
        /\ txn[s].pc = "rows" /\ header = "CHECKLIST" => txn[s].gone = {}
        /\ txn[s].pc \notin {"rows", "insert"} => ~ txn[s].locked

\* The rows the header was created with are deleted by whoever inserts others.
OriginalsGo ==
    \A s \in Requests :
        /\ txn[s].pc = "rows" /\ txn[s].seen # None =>
              Replacing!RowsOf(0) \intersect rows \subseteq txn[s].seen \union txn[s].gone
        /\ txn[s].pc = "insert" =>
              Replacing!RowsOf(0) \intersect rows \subseteq txn[s].gone

\* A number that a template's edit has inserted is nobody else's, neither in progress
\* nor committed.
NumbersTaken ==
    header = "TEMPLATE" =>
        \A s \in Requests : \A r \in txn[s].added :
            /\ \A o \in Requests \ {s} : <<o, r[2]>> \notin txn[o].added
            /\ \A q \in Replacing!Writers : <<q, r[2]>> \notin rows \ txn[s].gone

\* When all edits of a checklist write its header, they go one after another, each of
\* them on what the one before has left.
OneAtATime ==
    header = "CHECKLIST" /\ titled = Requests =>
        /\ \A s \in Requests :
              /\ txn[s].pc \in {"rows", "insert"} => txn[s].locked
              /\ txn[s].pc = "rows" => txn[s].seen \in {None, rows}
              /\ txn[s].pc = "insert" => txn[s].gone = rows
        /\ \A s, o \in Requests : txn[s].locked /\ txn[o].locked => s = o

RowsInv ==
    /\ Replacing!TypeOK
    /\ AllWhole /\ InOrder /\ OriginalsGo /\ NumbersTaken /\ OneAtATime
    /\ Replacing!OneRequest

\* A row is known by its request and its number.
LEMMA RowIs ==
    ASSUME NEW q, NEW r
    PROVE  r \in Replacing!RowsOf(q) <=> r = <<q, r[2]>> /\ r[1] = q /\ r[2] \in plan[q]
BY DEF Replacing!RowsOf

LEMMA WholeMinus ==
    ASSUME NEW A, NEW B, Whole(A), Whole(B)
    PROVE  Whole(A \ B)
<1>1. ASSUME NEW r \in A \ B
      PROVE  r \in Replacing!RowsOf(r[1]) /\ Replacing!RowsOf(r[1]) \subseteq A \ B
  <2>1. r \in Replacing!RowsOf(r[1]) /\ Replacing!RowsOf(r[1]) \subseteq A
    BY <1>1 DEF Whole
  <2>2. ASSUME NEW x \in Replacing!RowsOf(r[1]), x \in B PROVE FALSE
    <3>1. x[1] = r[1]
      BY RowIs
    <3>2. Replacing!RowsOf(r[1]) \subseteq B
      BY <2>2, <3>1 DEF Whole
    <3> QED BY <1>1, <2>1, <3>2
  <2> QED BY <2>1, <2>2
<1> QED BY <1>1 DEF Whole

LEMMA WholeUnion ==
    ASSUME NEW A, NEW B, Whole(A), Whole(B)
    PROVE  Whole(A \union B) /\ Whole(A \intersect B)
BY DEF Whole

LEMMA WholeRequest ==
    ASSUME NEW q
    PROVE  Whole(Replacing!RowsOf(q)) /\ Whole({})
<1>1. ASSUME NEW r \in Replacing!RowsOf(q) PROVE r[1] = q
  BY RowIs
<1> QED BY <1>1 DEF Whole

LEMMA RowsShape ==
    ASSUME RowsInv
    PROVE  /\ txn \in [Requests -> Replacing!Transactions] /\ rows \subseteq Replacing!Rows
           /\ header \in {"CHECKLIST", "TEMPLATE"} /\ titled \subseteq Requests
           /\ plan \in [Replacing!Writers -> SUBSET Numbers] /\ live \in BOOLEAN
           /\ \A s \in Requests :
                 txn[s] = [pc |-> txn[s].pc, seen |-> txn[s].seen, locked |-> txn[s].locked,
                           gone |-> txn[s].gone, added |-> txn[s].added]
           /\ \A s \in Requests : txn[s].gone \subseteq Replacing!Rows
           /\ \A s \in Requests : txn[s].added \subseteq Replacing!Rows
<1>1. txn \in [Requests -> Replacing!Transactions]
  BY DEF RowsInv, Replacing!TypeOK
<1> QED BY <1>1 DEF RowsInv, Replacing!TypeOK, Replacing!Kinds, Replacing!Transactions

LEMMA WaitingIs ==
    /\ Replacing!Waiting \in Replacing!Transactions
    /\ Replacing!Waiting.pc = "begin" /\ Replacing!Waiting.seen = None
    /\ Replacing!Waiting.locked = FALSE
    /\ Replacing!Waiting.gone = {} /\ Replacing!Waiting.added = {}
    /\ Replacing!Ended \in Replacing!Transactions
    /\ Replacing!Ended.pc = "ended" /\ Replacing!Ended.seen = None
    /\ Replacing!Ended.locked = FALSE
    /\ Replacing!Ended.gone = {} /\ Replacing!Ended.added = {}
BY DEF Replacing!Waiting, Replacing!Ended, Replacing!Transactions

LEMMA InitRows ==
    ASSUME Assumptions, Replacing!Init
    PROVE  RowsInv
<1>1. /\ \A s \in Requests : txn[s] = Replacing!Waiting
      /\ rows = Replacing!RowsOf(0) /\ header \in Replacing!Kinds
      /\ txn = [s \in Requests |-> Replacing!Waiting]
      /\ plan \in [Replacing!Writers -> SUBSET Numbers] /\ live = TRUE
      /\ titled \subseteq Requests /\ active \subseteq Replacing!Writers
  BY DEF Replacing!Init
<1>2. 0 \in Replacing!Writers
  BY DEF Replacing!Writers
<1>3. rows \subseteq Replacing!Rows
  BY <1>1, <1>2 DEF Replacing!RowsOf, Replacing!Rows
<1>4. Replacing!TypeOK
  BY <1>1, <1>3, WaitingIs DEF Replacing!TypeOK
<1>5. AllWhole
  BY <1>1, WaitingIs, WholeRequest DEF AllWhole
<1>6. InOrder /\ OriginalsGo /\ NumbersTaken /\ OneAtATime
  BY <1>1, WaitingIs DEF InOrder, OriginalsGo, NumbersTaken, OneAtATime
<1>7. \A r \in rows : r[1] = 0
  BY <1>1, RowIs
<1>8. Replacing!OneRequest
  BY <1>7 DEF Replacing!OneRequest
<1> QED
  BY <1>4, <1>5, <1>6, <1>8 DEF RowsInv

\* A statement that commits nothing keeps the invariant if the edit it leaves behind
\* fits in.
LEMMA ContinueStep ==
    ASSUME Assumptions, RowsInv, NEW s \in Requests, NEW t \in Replacing!Transactions,
           Replacing!Continue(s, t),
           Whole(t.gone), t.seen # None => Whole(t.seen), t.added \subseteq Replacing!RowsOf(s),
           t.pc # "insert" => t.added = {},
           t.pc \in {"begin", "header"} => t.seen = None /\ t.gone = {},
           t.pc = "activities" => header = "TEMPLATE",
           t.pc = "rows" /\ header = "CHECKLIST" => t.gone = {},
           t.pc \notin {"rows", "insert"} => ~ t.locked,
           t.pc = "rows" /\ t.seen # None =>
               Replacing!RowsOf(0) \intersect rows \subseteq t.seen \union t.gone,
           t.pc = "insert" => Replacing!RowsOf(0) \intersect rows \subseteq t.gone,
           header = "TEMPLATE" => \A r \in t.added :
               /\ \A o \in Requests \ {s} : <<o, r[2]>> \notin txn[o].added
               /\ \A q \in Replacing!Writers : <<q, r[2]>> \notin rows \ t.gone,
           header = "CHECKLIST" /\ titled = Requests =>
               /\ t.pc \in {"rows", "insert"} => t.locked
               /\ t.pc = "rows" => t.seen \in {None, rows}
               /\ t.pc = "insert" => t.gone = rows
               /\ t.locked => \A o \in Requests \ {s} : ~ txn[o].locked
    PROVE  RowsInv'
<1>1. /\ txn' = [txn EXCEPT ![s] = t]
      /\ header' = header /\ plan' = plan /\ titled' = titled /\ active' = active
      /\ live' = live /\ rows' = rows
  BY DEF Replacing!Continue
<1>2. txn \in [Requests -> Replacing!Transactions]
  BY RowsShape
<1>3. \A o \in Requests : txn'[o] = IF o = s THEN t ELSE txn[o]
  BY <1>1, <1>2
<1>4. \A q : Replacing!RowsOf(q)' = Replacing!RowsOf(q)
  BY <1>1 DEF Replacing!RowsOf
<1>5. Replacing!TypeOK'
  BY <1>1, <1>2 DEF RowsInv, Replacing!TypeOK
<1>6. AllWhole'
  <2>1. \A S : Whole(S)' <=> Whole(S)
    BY <1>4 DEF Whole
  <2> QED BY <1>1, <1>3, <1>4, <2>1 DEF RowsInv, AllWhole, Whole
<1>7. InOrder'
  BY <1>1, <1>3 DEF RowsInv, InOrder
<1>8. OriginalsGo'
  BY <1>1, <1>3, <1>4 DEF RowsInv, OriginalsGo
<1>9. NumbersTaken'
  <2>1. SUFFICES ASSUME header = "TEMPLATE", NEW o \in Requests, NEW r \in txn'[o].added
                 PROVE  /\ \A p \in Requests \ {o} : <<p, r[2]>> \notin txn'[p].added
                        /\ \A q \in Replacing!Writers : <<q, r[2]>> \notin rows \ txn'[o].gone
    BY <1>1 DEF NumbersTaken
  <2>2. CASE o = s
    BY <1>3, <2>1, <2>2
  <2>3. CASE o # s
    <3>1. r \in txn[o].added
      BY <1>3, <2>1, <2>3
    <3>2. r = <<o, r[2]>>
      BY <3>1, RowIs DEF RowsInv, AllWhole
    <3>3. /\ \A p \in Requests \ {o} : <<p, r[2]>> \notin txn[p].added
          /\ \A q \in Replacing!Writers : <<q, r[2]>> \notin rows \ txn[o].gone
      BY <2>1, <3>1 DEF RowsInv, NumbersTaken
    <3>4. <<s, r[2]>> \notin t.added
      <4>1. ASSUME <<s, r[2]>> \in t.added PROVE FALSE
        <5>1. <<s, r[2]>>[2] = r[2]
          OBVIOUS
        <5>2. <<o, r[2]>> \notin txn[o].added
          BY <2>1, <2>3, <4>1, <5>1
        <5> QED BY <3>1, <3>2, <5>2
      <4> QED BY <4>1
    <3> QED BY <1>3, <2>3, <3>3, <3>4
  <2> QED BY <2>2, <2>3
<1>10. OneAtATime'
  BY <1>1, <1>3 DEF RowsInv, OneAtATime
<1>11. Replacing!OneRequest'
  BY <1>1 DEF RowsInv, Replacing!OneRequest
<1> QED
  BY <1>5, <1>6, <1>7, <1>8, <1>9, <1>10, <1>11 DEF RowsInv

LEMMA BeginRowsStep ==
    ASSUME Assumptions, RowsInv, NEW s \in Requests,
           Replacing!Begin(s) \/ Replacing!updateHeader(s) \/ Replacing!Rollback(s)
    PROVE  RowsInv'
<1>1. /\ txn \in [Requests -> Replacing!Transactions] /\ txn[s] \in Replacing!Transactions
      /\ Whole({}) /\ header \in {"CHECKLIST", "TEMPLATE"}
  BY RowsShape, WholeRequest
<1>2. CASE Replacing!Begin(s)
  <2> DEFINE t == [txn[s] EXCEPT !.pc = IF header = "CHECKLIST" THEN "header" ELSE "activities"]
  <2>1. txn[s].pc = "begin" /\ Replacing!Continue(s, t)
    BY <1>2 DEF Replacing!Begin
  <2>2. /\ t \in Replacing!Transactions /\ t.seen = txn[s].seen /\ t.gone = txn[s].gone
        /\ t.added = txn[s].added /\ t.locked = txn[s].locked
        /\ t.pc = IF header = "CHECKLIST" THEN "header" ELSE "activities"
    BY <1>1 DEF Replacing!Transactions
  <2> HIDE DEF t
  <2>3. txn[s].seen = None /\ txn[s].gone = {} /\ txn[s].added = {} /\ ~ txn[s].locked
    BY <2>1 DEF RowsInv, InOrder
  <2> QED BY <1>1, <2>1, <2>2, <2>3, ContinueStep
<1>3. CASE Replacing!updateHeader(s)
  <2> DEFINE t == [txn[s] EXCEPT !.pc = "rows", !.locked = s \in titled]
  <2>1. /\ txn[s].pc = "header" /\ Replacing!Continue(s, t)
        /\ s \in titled => \A o \in Requests \ {s} : ~ txn[o].locked
    BY <1>3 DEF Replacing!updateHeader, Replacing!Locked, Replacing!Others
  <2>2. /\ t \in Replacing!Transactions /\ t.seen = txn[s].seen /\ t.gone = txn[s].gone
        /\ t.added = txn[s].added /\ (t.locked <=> s \in titled) /\ t.pc = "rows"
    <3>1. ASSUME NEW b \in BOOLEAN, NEW u, u = [txn[s] EXCEPT !.pc = "rows", !.locked = b]
          PROVE  /\ u \in Replacing!Transactions /\ u.seen = txn[s].seen
                 /\ u.gone = txn[s].gone /\ u.added = txn[s].added
                 /\ u.locked = b /\ u.pc = "rows"
      BY <1>1, <3>1 DEF Replacing!Transactions
    <3>2. (s \in titled) \in BOOLEAN
      OBVIOUS
    <3> QED BY <3>1, <3>2
  <2> HIDE DEF t
  <2>3. txn[s].seen = None /\ txn[s].gone = {} /\ txn[s].added = {}
    BY <2>1 DEF RowsInv, InOrder
  <2> QED BY <1>1, <2>1, <2>2, <2>3, ContinueStep
<1>4. CASE Replacing!Rollback(s)
  BY <1>1, <1>4, WaitingIs, ContinueStep DEF Replacing!Rollback
<1> QED BY <1>2, <1>3, <1>4

LEMMA StartStep ==
    ASSUME Assumptions, RowsInv, NEW s \in Requests, Replacing!Start(s)
    PROVE  RowsInv'
<1> DEFINE found == {r \in rows \ txn[s].gone : txn[s].pc = "activities" => r[1] \in active}
           t == [txn[s] EXCEPT !.seen = found]
<1>1. /\ txn[s].pc \in {"activities", "rows"} /\ txn[s].seen = None /\ Replacing!Continue(s, t)
  BY DEF Replacing!Start
<1>2. /\ txn \in [Requests -> Replacing!Transactions] /\ txn[s] \in Replacing!Transactions
      /\ rows \subseteq Replacing!Rows
  BY RowsShape
<1>3. found \in SUBSET Replacing!Rows
  BY <1>2
<1>4. Whole(found)
  <2>1. Whole(rows \ txn[s].gone)
    BY WholeMinus DEF RowsInv, AllWhole
  <2>2. ASSUME NEW r \in found
        PROVE  r \in Replacing!RowsOf(r[1]) /\ Replacing!RowsOf(r[1]) \subseteq found
    <3>1. r \in Replacing!RowsOf(r[1]) /\ Replacing!RowsOf(r[1]) \subseteq rows \ txn[s].gone
      BY <2>1 DEF Whole
    <3>2. \A x \in Replacing!RowsOf(r[1]) : x[1] = r[1]
      BY RowIs
    <3> QED BY <3>1, <3>2
  <2> QED BY <2>2 DEF Whole
<1>5. txn[s].pc = "rows" => found = rows \ txn[s].gone
  OBVIOUS
<1> HIDE DEF found
<1>6. /\ t \in Replacing!Transactions /\ t.pc = txn[s].pc /\ t.gone = txn[s].gone
      /\ t.added = txn[s].added /\ t.locked = txn[s].locked /\ t.seen = found
  BY <1>2, <1>3 DEF Replacing!Transactions
<1> HIDE DEF t
<1>7. Whole(t.gone) /\ t.added \subseteq Replacing!RowsOf(s)
  BY <1>6 DEF RowsInv, AllWhole
<1>8. /\ t.added = {} /\ (t.pc = "activities" => header = "TEMPLATE")
      /\ t.pc = "rows" /\ header = "CHECKLIST" => t.gone = {}
      /\ t.pc \notin {"rows", "insert"} => ~ t.locked
  BY <1>1, <1>6 DEF RowsInv, InOrder
<1>9. t.pc = "rows" => Replacing!RowsOf(0) \intersect rows \subseteq t.seen \union t.gone
  BY <1>5, <1>6
<1>10. header = "CHECKLIST" /\ titled = Requests =>
          /\ t.pc \in {"rows", "insert"} => t.locked
          /\ t.pc = "rows" => t.seen \in {None, rows}
          /\ t.locked => \A o \in Requests \ {s} : ~ txn[o].locked
  BY <1>5, <1>6, <1>8 DEF RowsInv, OneAtATime
<1> QED
  BY <1>1, <1>4, <1>6, <1>7, <1>8, <1>9, <1>10, ContinueStep

LEMMA DeleteManyStep ==
    ASSUME Assumptions, RowsInv, NEW s \in Requests, Replacing!deleteMany(s)
    PROVE  RowsInv'
<1> DEFINE gone == txn[s].gone \union (txn[s].seen \intersect rows)
           t == [txn[s] EXCEPT !.pc = IF @ = "activities" THEN "rows" ELSE "insert",
                               !.gone = @ \union (txn[s].seen \intersect rows), !.seen = None]
<1>1. txn[s].pc \in {"activities", "rows"} /\ txn[s].seen # None /\ Replacing!Continue(s, t)
  BY DEF Replacing!deleteMany
<1>2. /\ txn \in [Requests -> Replacing!Transactions] /\ txn[s] \in Replacing!Transactions
      /\ rows \subseteq Replacing!Rows
  BY RowsShape
<1>3. gone \in SUBSET Replacing!Rows
  BY <1>2, RowsShape
<1>4. Whole(gone)
  <2>1. Whole(txn[s].seen) /\ Whole(rows) /\ Whole(txn[s].gone)
    BY <1>1 DEF RowsInv, AllWhole
  <2>2. Whole(txn[s].seen \intersect rows)
    BY <2>1, WholeUnion
  <2> QED BY <2>1, <2>2, WholeUnion
<1>5. txn[s].seen \intersect rows \subseteq gone /\ txn[s].gone \subseteq gone
  OBVIOUS
<1>6. /\ t \in Replacing!Transactions /\ t.gone = gone
      /\ t.pc = IF txn[s].pc = "activities" THEN "rows" ELSE "insert"
      /\ t.added = txn[s].added /\ t.locked = txn[s].locked /\ t.seen = None
  BY <1>2, <1>3 DEF Replacing!Transactions
<1> HIDE DEF t
<1>7. Whole(t.gone) /\ t.added \subseteq Replacing!RowsOf(s)
  BY <1>4, <1>6 DEF RowsInv, AllWhole
<1>8. /\ t.added = {} /\ (txn[s].pc = "activities" => header = "TEMPLATE")
      /\ txn[s].pc = "rows" /\ header = "CHECKLIST" => gone = txn[s].seen \intersect rows
  BY <1>1, <1>6 DEF RowsInv, InOrder
<1>9. t.pc = "insert" => Replacing!RowsOf(0) \intersect rows \subseteq t.gone
  BY <1>1, <1>5, <1>6 DEF RowsInv, OriginalsGo
<1>10. header = "CHECKLIST" /\ titled = Requests =>
          /\ t.pc \in {"rows", "insert"} => t.locked
          /\ t.pc = "insert" => t.gone = rows
          /\ t.locked => \A o \in Requests \ {s} : ~ txn[o].locked
  <2>1. SUFFICES ASSUME header = "CHECKLIST", titled = Requests
                 PROVE  /\ t.locked /\ t.gone = rows
                        /\ \A o \in Requests \ {s} : ~ txn[o].locked
    OBVIOUS
  <2>2. txn[s].pc = "rows"
    BY <1>1, <1>8, <2>1
  <2>3. txn[s].locked /\ txn[s].seen = rows
    BY <1>1, <2>1, <2>2 DEF RowsInv, OneAtATime
  <2>4. gone = rows
    BY <1>8, <2>1, <2>2, <2>3
  <2>5. \A o \in Requests \ {s} : ~ txn[o].locked
    BY <2>1, <2>3 DEF RowsInv, OneAtATime
  <2> QED BY <1>6, <2>3, <2>4, <2>5
<1>11. t.pc \in {"rows", "insert"} /\ (t.pc = "rows" => header = "TEMPLATE")
  BY <1>1, <1>6, <1>8
<1>12. header = "TEMPLATE" => header # "CHECKLIST"
  OBVIOUS
<1> HIDE DEF gone
<1> QED
  BY <1>1, <1>6, <1>7, <1>8, <1>9, <1>10, <1>11, <1>12, ContinueStep

LEMMA InsertRowsStep ==
    ASSUME Assumptions, RowsInv, NEW s \in Requests,
           Replacing!createItems(s) \/ Replacing!createDay(s)
    PROVE  RowsInv'
<1>1. /\ txn \in [Requests -> Replacing!Transactions] /\ txn[s] \in Replacing!Transactions
      /\ header \in {"CHECKLIST", "TEMPLATE"} /\ plan \in [Replacing!Writers -> SUBSET Numbers]
      /\ s \in Replacing!Writers
  BY RowsShape DEF Replacing!Writers
<1>2. txn[s].pc = "insert"
  BY DEF Replacing!createItems, Replacing!createDay
<1>3. ASSUME NEW added \in SUBSET Replacing!RowsOf(s),
             Replacing!Continue(s, [txn[s] EXCEPT !.added = added]),
             header = "TEMPLATE" => \A r \in added :
                 /\ \A o \in Requests \ {s} : <<o, r[2]>> \notin txn[o].added
                 /\ \A q \in Replacing!Writers : <<q, r[2]>> \notin rows \ txn[s].gone
      PROVE  RowsInv'
  <2> DEFINE t == [txn[s] EXCEPT !.added = added]
  <2>1. Replacing!RowsOf(s) \subseteq Replacing!Rows
    BY <1>1 DEF Replacing!RowsOf, Replacing!Rows
  <2>2. /\ t \in Replacing!Transactions /\ t.pc = "insert" /\ t.gone = txn[s].gone
        /\ t.added = added /\ t.locked = txn[s].locked /\ t.seen = txn[s].seen
    BY <1>1, <1>2, <2>1 DEF Replacing!Transactions
  <2> HIDE DEF t
  <2>3. Whole(t.gone) /\ (t.seen # None => Whole(t.seen))
    BY <2>2 DEF RowsInv, AllWhole
  <2>4. Replacing!RowsOf(0) \intersect rows \subseteq t.gone
    BY <1>2, <2>2 DEF RowsInv, OriginalsGo
  <2>5. header = "CHECKLIST" /\ titled = Requests =>
            /\ t.locked /\ t.gone = rows
            /\ \A o \in Requests \ {s} : ~ txn[o].locked
    BY <1>2, <2>2 DEF RowsInv, OneAtATime
  <2>6. Replacing!Continue(s, t)
    BY <1>3 DEF t
  <2> QED BY <1>3, <2>2, <2>3, <2>4, <2>5, <2>6, ContinueStep
<1>4. CASE Replacing!createItems(s)
  <2>1. header # "TEMPLATE" /\ Replacing!Continue(s, [txn[s] EXCEPT !.added = Replacing!RowsOf(s)])
    BY <1>4 DEF Replacing!createItems
  <2> QED BY <1>3, <2>1
<1>5. CASE Replacing!createDay(s)
  <2>1. PICK n \in plan[s] :
           /\ header = "TEMPLATE" /\ Replacing!Free(s, n)
           /\ Replacing!Continue(s, [txn[s] EXCEPT !.added = @ \union {<<s, n>>}])
    BY <1>5 DEF Replacing!createDay
  <2> DEFINE added == txn[s].added \union {<<s, n>>}
  <2>2. [txn[s] EXCEPT !.added = @ \union {<<s, n>>}] = [txn[s] EXCEPT !.added = added]
    BY <1>1 DEF Replacing!Transactions
  <2>3. added \in SUBSET Replacing!RowsOf(s)
    BY <2>1, RowIs DEF RowsInv, AllWhole
  <2>4. ASSUME NEW r \in added
        PROVE  /\ \A o \in Requests \ {s} : <<o, r[2]>> \notin txn[o].added
               /\ \A q \in Replacing!Writers : <<q, r[2]>> \notin rows \ txn[s].gone
    <3>1. CASE r \in txn[s].added
      BY <2>1, <3>1 DEF RowsInv, NumbersTaken
    <3>2. CASE r = <<s, n>>
      <4>1. r[2] = n
        BY <3>2
      <4>2. \A o \in Requests \ {s}, q \in Replacing!Writers : <<q, n>> \notin txn[o].added
        BY <2>1 DEF Replacing!Free, Replacing!Others
      <4>3. \A q \in Replacing!Writers : <<q, n>> \notin rows \ txn[s].gone
        BY <2>1 DEF Replacing!Free
      <4>4. Requests \subseteq Replacing!Writers
        BY DEF Replacing!Writers
      <4> QED BY <4>1, <4>2, <4>3, <4>4
    <3> QED BY <3>1, <3>2
  <2> HIDE DEF added
  <2> QED BY <1>3, <2>1, <2>2, <2>3, <2>4
<1> QED BY <1>4, <1>5

\* The rows of a template are of one request after a commit: of two edits that share a
\* number one finds it taken, and the rows the header came with are gone.
LEMMA TemplateCommits ==
    ASSUME Assumptions, RowsInv, NEW s \in Requests,
           header = "TEMPLATE", txn[s].pc = "insert", txn[s].added = Replacing!RowsOf(s),
           \A p, o \in Requests : p # o =>
               plan[p] = {} \/ plan[o] = {} \/ plan[p] \intersect plan[o] # {},
           plan[s] # {},
           NEW r \in rows \ txn[s].gone
    PROVE  r[1] = s
<1> DEFINE q == r[1]
<1>1. Whole(rows \ txn[s].gone)
  BY WholeMinus DEF RowsInv, AllWhole
<1>2. r \in Replacing!RowsOf(q) /\ Replacing!RowsOf(q) \subseteq rows \ txn[s].gone
  BY <1>1 DEF Whole
<1>3. q \in Replacing!Writers /\ r[2] \in plan[q]
  BY <1>2, RowIs, RowsShape DEF Replacing!Rows
<1>4. q # 0
  BY <1>2 DEF RowsInv, OriginalsGo
<1> HIDE DEF q
<1>5. ASSUME q # s PROVE FALSE
  <2>1. q \in Requests
    BY <1>3, <1>4 DEF Replacing!Writers
  <2>2. PICK n \in plan[s] : n \in plan[q]
    BY <1>3, <1>5, <2>1
  <2>3. <<q, n>> \in rows \ txn[s].gone
    BY <1>2, <2>2 DEF Replacing!RowsOf
  <2>4. <<s, n>> \in txn[s].added
    BY <2>2 DEF Replacing!RowsOf
  <2>5. <<s, n>>[2] = n
    OBVIOUS
  <2>6. <<q, n>> \notin rows \ txn[s].gone
    BY <1>3, <2>4, <2>5 DEF RowsInv, NumbersTaken
  <2> QED BY <2>3, <2>6
<1> QED BY <1>5 DEF q

LEMMA CommitStep ==
    ASSUME Assumptions, RowsInv, NEW s \in Requests, Replacing!Commit(s)
    PROVE  RowsInv'
<1>1. /\ txn[s].pc = "insert" /\ txn[s].added = Replacing!RowsOf(s)
      /\ rows' = (rows \ txn[s].gone) \union Replacing!RowsOf(s)
      /\ txn' = [txn EXCEPT ![s] = Replacing!Ended]
      /\ header' = header /\ plan' = plan /\ titled' = titled /\ active' = active
      /\ live' = live
  BY DEF Replacing!Commit
<1>2. /\ txn \in [Requests -> Replacing!Transactions] /\ rows \subseteq Replacing!Rows
      /\ txn[s].added \subseteq Replacing!Rows /\ header \in {"CHECKLIST", "TEMPLATE"}
  BY RowsShape
<1>3. \A o \in Requests : txn'[o] = IF o = s THEN Replacing!Ended ELSE txn[o]
  BY <1>1, <1>2
<1>4. \A q : Replacing!RowsOf(q)' = Replacing!RowsOf(q)
  BY <1>1 DEF Replacing!RowsOf
<1>5. Replacing!TypeOK'
  <2>1. rows' \subseteq Replacing!Rows
    BY <1>1, <1>2
  <2>2. txn' \in [Requests -> Replacing!Transactions]
    BY <1>1, <1>2, WaitingIs
  <2> QED BY <1>1, <2>1, <2>2 DEF RowsInv, Replacing!TypeOK
<1>6. AllWhole'
  <2>1. \A S : Whole(S)' <=> Whole(S)
    BY <1>4 DEF Whole
  <2>2. Whole(rows \ txn[s].gone) /\ Whole(Replacing!RowsOf(s)) /\ Whole({})
    BY WholeMinus, WholeRequest DEF RowsInv, AllWhole
  <2>3. Whole(rows')
    BY <1>1, <2>2, WholeUnion
  <2>4. \A o \in Requests :
           /\ Whole(txn'[o].gone) /\ (txn'[o].seen # None => Whole(txn'[o].seen))
           /\ txn'[o].added \subseteq Replacing!RowsOf(o)
    BY <1>3, <2>2, WaitingIs DEF RowsInv, AllWhole
  <2> QED BY <1>4, <2>1, <2>3, <2>4 DEF AllWhole, Whole
<1>7. InOrder'
  BY <1>1, <1>3, WaitingIs DEF RowsInv, InOrder
<1>8. OriginalsGo'
  <2>1. Replacing!RowsOf(0) \intersect rows' \subseteq Replacing!RowsOf(0) \intersect rows
    <3>1. \A x : ~ (x \in Replacing!RowsOf(0) /\ x \in Replacing!RowsOf(s))
      BY RowIs DEF Assumptions
    <3> QED BY <1>1, <3>1
  <2> QED BY <1>3, <1>4, <2>1, WaitingIs DEF RowsInv, OriginalsGo
<1>9. NumbersTaken'
  <2>1. SUFFICES ASSUME header = "TEMPLATE", NEW o \in Requests, NEW r \in txn'[o].added
                 PROVE  /\ \A p \in Requests \ {o} : <<p, r[2]>> \notin txn'[p].added
                        /\ \A q \in Replacing!Writers : <<q, r[2]>> \notin rows' \ txn'[o].gone
    BY <1>1 DEF NumbersTaken
  <2>2. o # s /\ txn'[o] = txn[o] /\ r \in txn[o].added
    BY <1>3, <2>1, WaitingIs
  <2>3. /\ \A p \in Requests \ {o} : <<p, r[2]>> \notin txn[p].added
        /\ \A q \in Replacing!Writers : <<q, r[2]>> \notin rows \ txn[o].gone
    BY <2>1, <2>2 DEF RowsInv, NumbersTaken
  <2>4. \A q \in Replacing!Writers : <<q, r[2]>> \notin Replacing!RowsOf(s)
    <3>1. ASSUME NEW q \in Replacing!Writers, <<q, r[2]>> \in Replacing!RowsOf(s) PROVE FALSE
      <4>1. <<q, r[2]>>[1] = q
        OBVIOUS
      <4>2. q = s
        BY <3>1, <4>1, RowIs
      <4>3. <<s, r[2]>> \in txn[s].added
        BY <1>1, <3>1, <4>2
      <4> QED BY <2>2, <2>3, <4>3
    <3> QED BY <3>1
  <2> QED BY <1>1, <1>3, <2>2, <2>3, <2>4, WaitingIs
<1>10. OneAtATime'
  <2>1. SUFFICES ASSUME header = "CHECKLIST", titled = Requests
                 PROVE  OneAtATime'
    BY <1>1 DEF OneAtATime
  <2>2. \A o \in Requests \ {s} : ~ txn[o].locked /\ txn[o].pc \notin {"rows", "insert"}
    BY <1>1, <2>1 DEF RowsInv, OneAtATime
  <2> QED BY <1>1, <1>3, <2>2, WaitingIs DEF OneAtATime
<1>11. Replacing!OneRequest'
  <2>1. SUFFICES
          ASSUME header = "CHECKLIST" => titled = Requests,
                 header = "TEMPLATE" => \A p, o \in Requests : p # o =>
                     plan[p] = {} \/ plan[o] = {} \/ plan[p] \intersect plan[o] # {}
          PROVE  \A r, q \in rows' : r[1] = q[1]
    BY <1>1 DEF Replacing!OneRequest
  <2>2. \A r \in Replacing!RowsOf(s) : r[1] = s
    BY RowIs
  <2>3. CASE header = "CHECKLIST"
    <3>1. txn[s].gone = rows
      BY <1>1, <2>1, <2>3 DEF RowsInv, OneAtATime
    <3> QED BY <1>1, <2>2, <3>1
  <2>4. CASE header = "TEMPLATE" /\ plan[s] = {}
    <3>1. Replacing!RowsOf(s) = {}
      BY <2>4 DEF Replacing!RowsOf
    <3>2. \A r, q \in rows : r[1] = q[1]
      BY <2>1, <2>4 DEF RowsInv, Replacing!OneRequest
    <3> QED BY <1>1, <3>1, <3>2
  <2>5. CASE header = "TEMPLATE" /\ plan[s] # {}
    <3>1. \A r \in rows \ txn[s].gone : r[1] = s
      BY <1>1, <2>1, <2>5, TemplateCommits
    <3> QED BY <1>1, <2>2, <3>1
  <2> QED BY <1>2, <2>3, <2>4, <2>5
<1> QED
  BY <1>5, <1>6, <1>7, <1>8, <1>9, <1>10, <1>11 DEF RowsInv

LEMMA DeleteHeaderStep ==
    ASSUME Assumptions, RowsInv, Replacing!delete
    PROVE  RowsInv'
<1>1. /\ header' = header /\ plan' = plan /\ titled' = titled /\ active' = active
      /\ txn' = txn /\ live' = FALSE
      /\ \/ rows' = rows
         \/ /\ rows' = {} /\ header = "CHECKLIST"
            /\ \A s \in Requests : ~ txn[s].locked
  BY DEF Replacing!delete
<1>2. CASE rows' = rows
  <2>1. \A q : Replacing!RowsOf(q)' = Replacing!RowsOf(q)
    BY <1>1 DEF Replacing!RowsOf
  <2>2. Replacing!TypeOK'
    BY <1>1, <1>2 DEF RowsInv, Replacing!TypeOK
  <2>3. AllWhole'
    BY <1>1, <1>2, <2>1 DEF RowsInv, AllWhole, Whole
  <2> QED BY <1>1, <1>2, <2>1, <2>2, <2>3
          DEF RowsInv, InOrder, OriginalsGo, NumbersTaken, OneAtATime, Replacing!OneRequest
<1>3. CASE rows' = {} /\ header = "CHECKLIST" /\ \A s \in Requests : ~ txn[s].locked
  <2>1. \A q : Replacing!RowsOf(q)' = Replacing!RowsOf(q)
    BY <1>1 DEF Replacing!RowsOf
  <2>2. Replacing!TypeOK'
    BY <1>1, <1>3 DEF RowsInv, Replacing!TypeOK
  <2>3. AllWhole'
    BY <1>1, <1>3, <2>1 DEF RowsInv, AllWhole, Whole
  <2>4. InOrder' /\ OriginalsGo' /\ NumbersTaken'
    BY <1>1, <1>3 DEF RowsInv, InOrder, OriginalsGo, NumbersTaken
  <2>5. OneAtATime' /\ Replacing!OneRequest'
    BY <1>1, <1>3 DEF RowsInv, OneAtATime, Replacing!OneRequest
  <2> QED BY <2>2, <2>3, <2>4, <2>5 DEF RowsInv
<1> QED BY <1>1, <1>2, <1>3

LEMMA NextRows ==
    ASSUME Assumptions, RowsInv, [Replacing!Next]_rowsVars
    PROVE  RowsInv'
<1>1. CASE UNCHANGED rowsVars
  <2>1. /\ header' = header /\ plan' = plan /\ titled' = titled /\ active' = active
        /\ live' = live /\ rows' = rows /\ txn' = txn
    BY <1>1 DEF rowsVars
  <2>2. \A q : Replacing!RowsOf(q)' = Replacing!RowsOf(q)
    BY <2>1 DEF Replacing!RowsOf
  <2>3. Replacing!TypeOK' /\ AllWhole'
    BY <2>1, <2>2 DEF RowsInv, Replacing!TypeOK, AllWhole, Whole
  <2> QED BY <2>1, <2>2, <2>3
          DEF RowsInv, InOrder, OriginalsGo, NumbersTaken, OneAtATime, Replacing!OneRequest
<1>2. ASSUME NEW s \in Requests,
             \/ Replacing!Begin(s) \/ Replacing!updateHeader(s) \/ Replacing!Start(s)
             \/ Replacing!deleteMany(s) \/ Replacing!createItems(s) \/ Replacing!createDay(s)
             \/ Replacing!Commit(s) \/ Replacing!Rollback(s)
      PROVE  RowsInv'
  BY <1>2, BeginRowsStep, StartStep, DeleteManyStep, InsertRowsStep, CommitStep
<1>3. CASE Replacing!delete
  BY <1>3, DeleteHeaderStep
<1> QED
  BY <1>1, <1>2, <1>3 DEF Replacing!Next

LEMMA RowsSound ==
    ASSUME RowsInv
    PROVE  Replacing!Entire /\ Replacing!OneRequest
BY DEF RowsInv, AllWhole, Whole, Replacing!Entire

-----------------------------------------------------------------------------
(* The rating of a destination.                                            *)

ReviewRecord(x) ==
    /\ x = [pc |-> x.pc, v |-> x.v, rating |-> x.rating, status |-> x.status,
            counts |-> x.counts, alone |-> x.alone, result |-> x.result]
    /\ x.alone \in BOOLEAN

Rating(of, which) == Reviewing!AggregateOf(of, Reviewing!Counted(of, which))

\* Nobody else is at work while a request is alone, so that what it has counted is still
\* so when it writes it.
ReviewInv ==
    /\ DOMAIN reviewReq = Requests /\ reviewReq = [r \in Requests |-> reviewReq[r]]
    /\ \A r \in Requests :
          /\ ReviewRecord(reviewReq[r])
          /\ reviewReq[r].alone => \A q \in Requests \ {r} : reviewReq[q].pc = "idle"
          /\ reviewReq[r].alone /\ reviewReq[r].pc = "write" =>
                reviewReq[r].result = Rating(review, reviewReq[r].counts)
    /\ Reviewing!RatingRepaired

LEMMA IdleReview == ReviewRecord(Reviewing!Idle) /\ Reviewing!Idle.pc = "idle" /\ ~ Reviewing!Idle.alone
BY DEF Reviewing!Idle, ReviewRecord

LEMMA SameReviewCardinality == \A S : Reviewing!Cardinality(S) = Cardinality(S)
BY DEF Reviewing!Cardinality, Cardinality

LEMMA RepairedIs ==
    Reviewing!RatingRepaired <=> (settled # "unknown" => cached = Rating(review, settled))
BY DEF Reviewing!RatingRepaired, Reviewing!Aggregate, Rating

LEMMA AloneAgain ==
    ASSUME NEW y, ReviewRecord(y), NEW b \in BOOLEAN, NEW z, z = [y EXCEPT !.alone = b]
    PROVE  ReviewRecord(z) /\ z.pc = y.pc /\ z.alone = b
BY DEF ReviewRecord

LEMMA InitReview ==
    ASSUME Assumptions, Reviewing!Init
    PROVE  ReviewInv
<1>1. /\ reviewReq = [r \in Requests |-> Reviewing!Idle] /\ review = [v \in Ids |-> None]
      /\ cached = [rating |-> 0, count |-> 0]
  BY DEF Reviewing!Init, Reviewing!NoResult
<1>2. \A which : Reviewing!Counted(review, which) = {}
  BY <1>1 DEF Reviewing!Counted
<1>3. Reviewing!Cardinality({}) = 0
  BY FS_EmptySet, SameReviewCardinality
<1>4. \A sum : Reviewing!Rounded(sum, 0) = 0
  BY DEF Reviewing!Rounded
<1>5. \A which : Rating(review, which) = cached
  BY <1>1, <1>2, <1>3, <1>4 DEF Rating, Reviewing!AggregateOf
<1> QED
  BY <1>1, <1>5, IdleReview, RepairedIs DEF ReviewInv

\* A request that begins: the others are not alone any more, nor is it if there are any.
LEMMA BeginReview ==
    ASSUME Assumptions, ReviewInv, NEW r \in Requests, NEW record,
           Reviewing!Begin(r, record), record.pc # "write", ReviewRecord(record),
           \/ review' = review /\ settled' = settled /\ cached' = cached
           \/ settled' = "unknown"
    PROVE  ReviewInv'
<1> DEFINE busy == \E q \in Requests : reviewReq[q].pc # "idle"
           x == [record EXCEPT !.alone = ~ busy]
           Other(q) == [reviewReq[q] EXCEPT !.alone = FALSE]
<1>1. reviewReq' = [q \in Requests |-> IF q = r THEN x ELSE Other(q)]
  BY DEF Reviewing!Begin, Reviewing!At
<1>2. ReviewRecord(x) /\ x.pc # "write" /\ (x.alone <=> ~ busy)
  <2>1. (~ busy) \in BOOLEAN
    OBVIOUS
  <2> QED BY <2>1, AloneAgain
<1>3. ASSUME NEW q \in Requests
      PROVE  ReviewRecord(Other(q)) /\ ~ Other(q).alone /\ Other(q).pc = reviewReq[q].pc
  <2>1. ReviewRecord(reviewReq[q])
    BY DEF ReviewInv
  <2>2. \A y, z : ReviewRecord(y) /\ z = [y EXCEPT !.alone = FALSE] =>
           ReviewRecord(z) /\ z.pc = y.pc /\ z.alone = FALSE
    BY AloneAgain
  <2> QED BY <2>1, <2>2
<1> HIDE DEF x, Other
<1>4. \A q \in Requests : reviewReq'[q] = IF q = r THEN x ELSE Other(q)
  BY <1>1
<1>5. DOMAIN reviewReq' = Requests /\ reviewReq' = [q \in Requests |-> reviewReq'[q]]
  BY <1>1
<1>6. ASSUME NEW q \in Requests
      PROVE  /\ ReviewRecord(reviewReq'[q])
             /\ reviewReq'[q].alone => \A p \in Requests \ {q} : reviewReq'[p].pc = "idle"
             /\ ~ (reviewReq'[q].alone /\ reviewReq'[q].pc = "write")
  BY <1>2, <1>3, <1>4
<1>7. Reviewing!RatingRepaired'
  BY RepairedIs DEF ReviewInv, Reviewing!RatingRepaired, Reviewing!Aggregate, Rating
<1> QED
  BY <1>5, <1>6, <1>7 DEF ReviewInv, ReviewRecord

\* A statement of a request under way.
LEMMA GoOnReview ==
    ASSUME Assumptions, ReviewInv, NEW r \in Requests, NEW x, ReviewRecord(x),
           reviewReq[r].pc # "idle", reviewReq' = [reviewReq EXCEPT ![r] = x],
           x.alone => reviewReq[r].alone,
           x.alone /\ x.pc = "write" => x.result = Rating(review', x.counts),
           Reviewing!RatingRepaired'
    PROVE  ReviewInv'
<1>1. \A q \in Requests : reviewReq'[q] = IF q = r THEN x ELSE reviewReq[q]
  BY DEF ReviewInv
<1>2. DOMAIN reviewReq' = Requests /\ reviewReq' = [q \in Requests |-> reviewReq'[q]]
  BY DEF ReviewInv
<1>3. \A q \in Requests \ {r} : ~ reviewReq[q].alone
  BY DEF ReviewInv
<1>4. ASSUME NEW q \in Requests
      PROVE  /\ ReviewRecord(reviewReq'[q])
             /\ reviewReq'[q].alone => \A p \in Requests \ {q} : reviewReq'[p].pc = "idle"
             /\ reviewReq'[q].alone /\ reviewReq'[q].pc = "write" =>
                   reviewReq'[q].result = Rating(review', reviewReq'[q].counts)
  <2>1. CASE q = r
    <3>1. reviewReq'[q] = x
      BY <1>1, <2>1
    <3>2. x.alone => \A p \in Requests \ {q} : reviewReq'[p].pc = "idle"
      BY <1>1, <2>1 DEF ReviewInv
    <3> QED BY <3>1, <3>2
  <2>2. CASE q # r
    BY <1>1, <1>3, <2>2 DEF ReviewInv
  <2> QED BY <2>1, <2>2
<1> QED
  BY <1>2, <1>4 DEF ReviewInv, ReviewRecord

LEMMA RequestReview ==
    ASSUME Assumptions, ReviewInv, NEW r \in Requests, NEW v \in Ids,
           \/ \E rating \in Ratings : \/ Reviewing!createDestinationReview(r, v, rating)
                                      \/ Reviewing!updateReview(r, v, rating)
           \/ \E status \in Reviewing!ReviewStatus : Reviewing!moderateReview(r, v, status)
           \/ Reviewing!deleteReview(r, v) \/ Reviewing!adminDeleteReview(r, v)
    PROVE  ReviewInv'
<1>1. ASSUME NEW rating \in Ratings, Reviewing!createDestinationReview(r, v, rating)
      PROVE  ReviewInv'
  <2> DEFINE x == [Reviewing!Idle EXCEPT !.pc = "aggregate", !.v = v]
  <2>1. Reviewing!Begin(r, x) /\ settled' = "unknown"
    BY <1>1 DEF Reviewing!createDestinationReview
  <2>2. ReviewRecord(x) /\ x.pc = "aggregate"
    <3>1. ASSUME NEW y, ReviewRecord(y), NEW z,
                 z = [y EXCEPT !.pc = "aggregate", !.v = v]
          PROVE  ReviewRecord(z) /\ z.pc = "aggregate"
      BY <3>1 DEF ReviewRecord
    <3> QED BY <3>1, IdleReview
  <2> HIDE DEF x
  <2> QED BY <2>1, <2>2, BeginReview
<1>2. ASSUME NEW rating \in Ratings, Reviewing!updateReview(r, v, rating)
      PROVE  ReviewInv'
  <2> DEFINE x == [Reviewing!Idle EXCEPT !.pc = "update", !.v = v, !.rating = rating]
  <2>1. Reviewing!Begin(r, x) /\ UNCHANGED <<review, cached, settled>>
    BY <1>2 DEF Reviewing!updateReview
  <2>2. ReviewRecord(x) /\ x.pc = "update"
    <3>1. ASSUME NEW y, ReviewRecord(y), NEW z,
                 z = [y EXCEPT !.pc = "update", !.v = v, !.rating = rating]
          PROVE  ReviewRecord(z) /\ z.pc = "update"
      BY <3>1 DEF ReviewRecord
    <3> QED BY <3>1, IdleReview
  <2> HIDE DEF x
  <2> QED BY <2>1, <2>2, BeginReview
<1>3. ASSUME NEW status \in Reviewing!ReviewStatus, Reviewing!moderateReview(r, v, status)
      PROVE  ReviewInv'
  <2> DEFINE x == [Reviewing!Idle EXCEPT !.pc = "updateStatus", !.v = v, !.status = status,
                                         !.counts = "approved"]
  <2>1. Reviewing!Begin(r, x) /\ UNCHANGED <<review, cached, settled>>
    BY <1>3 DEF Reviewing!moderateReview
  <2>2. ReviewRecord(x) /\ x.pc = "updateStatus"
    <3>1. ASSUME NEW y, ReviewRecord(y), NEW z,
                 z = [y EXCEPT !.pc = "updateStatus", !.v = v,
                                  !.status = status, !.counts = "approved"]
          PROVE  ReviewRecord(z) /\ z.pc = "updateStatus"
      BY <3>1 DEF ReviewRecord
    <3> QED BY <3>1, IdleReview
  <2> HIDE DEF x
  <2> QED BY <2>1, <2>2, BeginReview
<1>4. CASE Reviewing!deleteReview(r, v)
  <2> DEFINE x == [Reviewing!Idle EXCEPT !.pc = "softDelete", !.v = v]
  <2>1. Reviewing!Begin(r, x) /\ UNCHANGED <<review, cached, settled>>
    BY <1>4 DEF Reviewing!deleteReview
  <2>2. ReviewRecord(x) /\ x.pc = "softDelete"
    <3>1. ASSUME NEW y, ReviewRecord(y), NEW z,
                 z = [y EXCEPT !.pc = "softDelete", !.v = v]
          PROVE  ReviewRecord(z) /\ z.pc = "softDelete"
      BY <3>1 DEF ReviewRecord
    <3> QED BY <3>1, IdleReview
  <2> HIDE DEF x
  <2> QED BY <2>1, <2>2, BeginReview
<1>5. CASE Reviewing!adminDeleteReview(r, v)
  <2> DEFINE x == [Reviewing!Idle EXCEPT !.pc = "hardDelete", !.v = v, !.counts = "approved"]
  <2>1. Reviewing!Begin(r, x) /\ UNCHANGED <<review, cached, settled>>
    BY <1>5 DEF Reviewing!adminDeleteReview
  <2>2. ReviewRecord(x) /\ x.pc = "hardDelete"
    <3>1. ASSUME NEW y, ReviewRecord(y), NEW z,
                 z = [y EXCEPT !.pc = "hardDelete", !.v = v, !.counts = "approved"]
          PROVE  ReviewRecord(z) /\ z.pc = "hardDelete"
      BY <3>1 DEF ReviewRecord
    <3> QED BY <3>1, IdleReview
  <2> HIDE DEF x
  <2> QED BY <2>1, <2>2, BeginReview
<1> QED BY <1>1, <1>2, <1>3, <1>4, <1>5

LEMMA StatementReview ==
    ASSUME Assumptions, ReviewInv, NEW r \in Requests,
           \/ Reviewing!writeReview(r) \/ Reviewing!aggregate(r)
           \/ Reviewing!writeRating(r) \/ Reviewing!Fail(r)
    PROVE  ReviewInv'
<1>1. ReviewRecord(reviewReq[r]) /\ reviewReq = [q \in Requests |-> reviewReq[q]]
  BY DEF ReviewInv
<1>2. CASE Reviewing!writeReview(r)
  <2> DEFINE x == [reviewReq[r] EXCEPT !.pc = "aggregate"]
  <2>1. /\ reviewReq[r].pc # "idle" /\ settled' = "unknown"
        /\ reviewReq' = [reviewReq EXCEPT ![r] = x]
    BY <1>1, <1>2 DEF Reviewing!writeReview, Reviewing!Goto
  <2>2. ReviewRecord(x) /\ x.pc = "aggregate" /\ x.alone = reviewReq[r].alone
    BY <1>1 DEF ReviewRecord
  <2> HIDE DEF x
  <2>3. Reviewing!RatingRepaired'
    BY <2>1 DEF Reviewing!RatingRepaired
  <2> QED BY <2>1, <2>2, <2>3, GoOnReview
<1>3. CASE Reviewing!aggregate(r)
  <2> DEFINE found == Reviewing!Aggregate(reviewReq[r].counts)
             x == [reviewReq[r] EXCEPT !.pc = "write", !.result = found]
  <2>1. /\ reviewReq[r].pc # "idle" /\ UNCHANGED <<review, cached, settled>>
        /\ reviewReq' = [reviewReq EXCEPT ![r] = x]
    BY <1>1, <1>3 DEF Reviewing!aggregate, Reviewing!At
  <2> HIDE DEF found
  <2>2. /\ ReviewRecord(x) /\ x.alone = reviewReq[r].alone /\ x.counts = reviewReq[r].counts
        /\ x.result = found
    <3>1. ASSUME NEW y, ReviewRecord(y), NEW z,
                 z = [y EXCEPT !.pc = "write", !.result = found]
          PROVE  ReviewRecord(z) /\ z.alone = y.alone /\ z.counts = y.counts /\ z.result = found
      BY <3>1 DEF ReviewRecord
    <3> QED BY <1>1, <3>1
  <2> HIDE DEF x
  <2>3. Reviewing!RatingRepaired'
    BY <2>1, RepairedIs
    DEF ReviewInv, Reviewing!RatingRepaired, Reviewing!Aggregate, Rating
  <2>4. x.result = Rating(review', x.counts)
    BY <2>1, <2>2 DEF found, Reviewing!Aggregate, Rating
  <2> QED BY <2>1, <2>2, <2>3, <2>4, GoOnReview
<1>4. CASE Reviewing!writeRating(r)
  <2>1. /\ reviewReq[r].pc = "write" /\ review' = review /\ cached' = reviewReq[r].result
        /\ settled' = IF reviewReq[r].alone THEN reviewReq[r].counts ELSE "unknown"
        /\ reviewReq' = [reviewReq EXCEPT ![r] = Reviewing!Idle]
    BY <1>4 DEF Reviewing!writeRating, Reviewing!At, Reviewing!Return
  <2>2. reviewReq[r].alone => cached' = Rating(review, reviewReq[r].counts)
    BY <2>1 DEF ReviewInv
  <2>3. Reviewing!RatingRepaired'
    BY <2>1, <2>2 DEF Reviewing!RatingRepaired, Reviewing!Aggregate, Rating
  <2> QED BY <2>1, <2>3, IdleReview, GoOnReview
<1>5. CASE Reviewing!Fail(r)
  <2>1. /\ reviewReq[r].pc # "idle" /\ UNCHANGED <<review, cached, settled>>
        /\ reviewReq' = [reviewReq EXCEPT ![r] = Reviewing!Idle]
    BY <1>5 DEF Reviewing!Fail, Reviewing!At, Reviewing!Return
  <2>2. Reviewing!RatingRepaired'
    BY <2>1, RepairedIs
    DEF ReviewInv, Reviewing!RatingRepaired, Reviewing!Aggregate, Rating
  <2> QED BY <2>1, <2>2, IdleReview, GoOnReview
<1> QED BY <1>2, <1>3, <1>4, <1>5

LEMMA NextReview ==
    ASSUME Assumptions, ReviewInv, [Reviewing!Next]_reviewsVars
    PROVE  ReviewInv'
<1>1. CASE UNCHANGED reviewsVars
  BY <1>1, RepairedIs
  DEF reviewsVars, ReviewInv, ReviewRecord, Reviewing!RatingRepaired, Reviewing!Aggregate, Rating
<1>2. ASSUME NEW v \in Ids, Reviewing!hardDeleteUser(v)
      PROVE  ReviewInv'
  <2> DEFINE Other(q) == [reviewReq[q] EXCEPT !.alone = FALSE]
  <2>1. reviewReq' = [q \in Requests |-> Other(q)] /\ settled' = "unknown"
    BY <1>2 DEF Reviewing!hardDeleteUser
  <2>2. \A y, z : ReviewRecord(y) /\ z = [y EXCEPT !.alone = FALSE] =>
           ReviewRecord(z) /\ z.alone = FALSE
    BY AloneAgain
  <2>3. \A q \in Requests : ReviewRecord(Other(q)) /\ Other(q).alone = FALSE
    BY <2>2 DEF ReviewInv
  <2> HIDE DEF Other
  <2>4. \A q \in Requests : ReviewRecord(reviewReq'[q]) /\ reviewReq'[q].alone = FALSE
    BY <2>1, <2>3
  <2>5. DOMAIN reviewReq' = Requests /\ reviewReq' = [q \in Requests |-> reviewReq'[q]]
    BY <2>1
  <2> QED BY <2>1, <2>4, <2>5 DEF ReviewInv, ReviewRecord, Reviewing!RatingRepaired
<1> QED
  BY <1>1, <1>2, RequestReview, StatementReview DEF Reviewing!Next

-----------------------------------------------------------------------------
(* Likes and comments, one request after the other.                        *)

LikeRecord == [pc : Liking!Labels, op : Liking!AllOps \union {"none"}, u : Users,
               c : Liking!Comments \union {0}, count : Nat]

Remarks(of) == {c \in Liking!Comments : of[c] = "live"}

\* What the request x in progress has found out is still so, although a moderator may act
\* between two of its statements.
LikeStage(x, of, fans, remarks) ==
    /\ of.state = "gone" => x.pc = "idle" /\ Remarks(remarks) = {}
    /\ x.pc \in {"findLike", "deleteLike", "decrementLikes"} => x.count = of.likeCount
    /\ x.pc \in {"insertLike", "incrementLikes"} => x.u \notin fans
    /\ x.pc \in {"deleteLike", "decrementLikes"} => x.u \in fans
    /\ x.pc \in {"insertComment", "incrementComments"} => x.c \in Liking!Comments
    /\ x.pc = "softDelete" =>
          x.c \in Liking!Comments /\ remarks[x.c] \in {"live", "gone"}
    /\ x.pc \in {"readCount", "decrementComments"} =>
          x.c \in Liking!Comments /\ remarks[x.c] = "live"
    /\ x.pc = "decrementComments" => x.count = of.commentCount

LikesInv ==
    /\ likedPost \in [state : Liking!PostState, likeCount : Nat, commentCount : Nat]
    /\ likes \subseteq Users /\ IsFiniteSet(likes)
    /\ comment \in [Liking!Comments -> Liking!CommentState]
    /\ tx \in [{1} -> LikeRecord]
    /\ LikeStage(tx[1], likedPost, likes, comment)
    /\ likedPost.state # "gone" =>
          /\ likedPost.likeCount = Cardinality(likes)
          /\ likedPost.commentCount >= Cardinality(Remarks(comment))

LEMMA LikesSound ==
    ASSUME LikesInv
    PROVE  Liking!LikeCountExact /\ Liking!CommentCountCovers
<1>1. \A S : Liking!Cardinality(S) = Cardinality(S)
  BY DEF Liking!Cardinality, Cardinality
<1> QED
  BY <1>1 DEF LikesInv, Liking!LikeCountExact, Liking!CommentCountCovers, Remarks

LEMMA RemarksFinite ==
    ASSUME Assumptions
    PROVE  \A remarks : IsFiniteSet(Remarks(remarks)) /\ Cardinality(Remarks(remarks)) \in Nat
<1>1. IsFiniteSet(Liking!Comments)
  BY FS_Interval DEF Assumptions, Liking!Comments
<1>2. \A remarks : Remarks(remarks) \subseteq Liking!Comments
  BY DEF Remarks
<1>3. \A remarks : IsFiniteSet(Remarks(remarks))
  BY <1>1, <1>2, FS_Subset
<1> QED BY <1>3, FS_CardinalityType

LEMMA IdleLike == Assumptions => Liking!Idle \in LikeRecord /\ Liking!Idle.pc = "idle"
BY DEF Assumptions, Liking!Idle, LikeRecord, Liking!Labels

LEMMA InitLikes ==
    ASSUME Assumptions, Liking!Init
    PROVE  LikesInv
<1>1. tx \in [{1} -> LikeRecord] /\ tx[1].pc = "idle"
  BY IdleLike DEF Liking!Init
<1>2. Remarks(comment) = {}
  BY DEF Liking!Init, Remarks
<1>3. LikeStage(tx[1], likedPost, likes, comment)
  BY <1>1 DEF Liking!Init, LikeStage
<1>4. Cardinality({}) = 0 /\ IsFiniteSet({})
  BY FS_EmptySet
<1> QED
  BY <1>1, <1>2, <1>3, <1>4 DEF Liking!Init, LikesInv, Liking!PostState, Liking!CommentState

\* The one request goes to its next statement, or is done.
LEMMA LikeGoto ==
    ASSUME LikesInv, NEW pc \in Liking!Labels, Liking!Goto(1, pc)
    PROVE  /\ tx' \in [{1} -> LikeRecord]
           /\ tx'[1].pc = pc /\ tx'[1].u = tx[1].u /\ tx'[1].c = tx[1].c
           /\ tx'[1].count = tx[1].count
<1> DEFINE x == [tx[1] EXCEPT !.pc = pc]
<1>1. tx \in [{1} -> LikeRecord] /\ tx[1] \in LikeRecord
  BY DEF LikesInv
<1>2. /\ x \in LikeRecord /\ x.pc = pc /\ x.u = tx[1].u /\ x.c = tx[1].c
      /\ x.count = tx[1].count
  BY <1>1 DEF LikeRecord
<1>3. tx' = [tx EXCEPT ![1] = x]
  BY DEF Liking!Goto
<1> HIDE DEF x
<1> QED BY <1>1, <1>2, <1>3

LEMMA LikeReturn ==
    ASSUME Assumptions, LikesInv, Liking!Return(1)
    PROVE  tx' \in [{1} -> LikeRecord] /\ tx'[1].pc = "idle"
<1>1. tx \in [{1} -> LikeRecord]
  BY DEF LikesInv
<1>2. tx' = [tx EXCEPT ![1] = Liking!Idle]
  BY DEF Liking!Return
<1> QED BY <1>1, <1>2, IdleLike

\* Steps that change no table.
LEMMA LikeQuiet ==
    ASSUME LikesInv, UNCHANGED <<likedPost, likes, comment>>,
           tx' \in [{1} -> LikeRecord],
           tx'[1].pc = "idle" \/ LikeStage(tx'[1], likedPost, likes, comment)
    PROVE  LikesInv'
<1>1. LikeStage(tx'[1], likedPost, likes, comment)
  BY DEF LikesInv, LikeStage
<1>2. LikeStage(tx[1], likedPost, likes, comment)'
  BY <1>1 DEF LikeStage, Remarks
<1> QED BY <1>2 DEF LikesInv, Remarks

LEMMA RequestLike ==
    ASSUME Assumptions, LikesInv, Liking!Request(1)
    PROVE  LikesInv'
<1>1. ASSUME NEW u \in Users, NEW op \in {"likePost", "unlikePost"},
             Liking!findPostToLike(1, op, u)
      PROVE  LikesInv'
  <2> DEFINE x == [pc |-> "findLike", op |-> op, u |-> u, c |-> 0,
                   count |-> likedPost.likeCount]
  <2>1. /\ tx' = [tx EXCEPT ![1] = x] /\ UNCHANGED <<likedPost, likes, comment>>
        /\ likedPost.state = "live"
    BY <1>1 DEF Liking!findPostToLike
  <2>2. x \in LikeRecord /\ x.pc = "findLike" /\ x.count = likedPost.likeCount
    BY DEF LikeRecord, LikesInv, Liking!Labels, Liking!AllOps
  <2> HIDE DEF x
  <2>3. tx' \in [{1} -> LikeRecord] /\ tx'[1] = x
    BY <2>1, <2>2 DEF LikesInv
  <2>4. LikeStage(tx'[1], likedPost, likes, comment)
    BY <2>1, <2>2, <2>3 DEF LikeStage
  <2> QED BY <2>1, <2>3, <2>4, LikeQuiet
<1>2. ASSUME NEW u \in Users, NEW c \in Liking!Comments, Liking!findPostToComment(1, u, c)
      PROVE  LikesInv'
  <2> DEFINE x == [pc |-> "insertComment", op |-> "createComment", u |-> u, c |-> c,
                   count |-> 0]
  <2>1. /\ tx' = [tx EXCEPT ![1] = x] /\ UNCHANGED <<likedPost, likes, comment>>
        /\ likedPost.state = "live"
    BY <1>2 DEF Liking!findPostToComment, Liking!Begin
  <2>2. x \in LikeRecord /\ x.pc = "insertComment" /\ x.c \in Liking!Comments
    BY DEF LikeRecord, Liking!Labels, Liking!AllOps
  <2> HIDE DEF x
  <2>3. tx' \in [{1} -> LikeRecord] /\ tx'[1] = x
    BY <2>1, <2>2 DEF LikesInv
  <2>4. LikeStage(tx'[1], likedPost, likes, comment)
    BY <2>1, <2>2, <2>3 DEF LikeStage
  <2> QED BY <2>1, <2>3, <2>4, LikeQuiet
<1>3. ASSUME NEW c \in Liking!Comments, Liking!findComment(1, c)
      PROVE  LikesInv'
  <2> DEFINE x == [pc |-> "softDelete", op |-> "deleteComment", u |-> Author, c |-> c,
                   count |-> 0]
  <2>1. /\ tx' = [tx EXCEPT ![1] = x] /\ UNCHANGED <<likedPost, likes, comment>>
        /\ comment[c] = "live"
    BY <1>3 DEF Liking!findComment, Liking!Begin
  <2>2. x \in LikeRecord /\ x.pc = "softDelete" /\ x.c = c
    BY DEF LikeRecord, Liking!Labels, Liking!AllOps, Assumptions
  <2> HIDE DEF x
  <2>3. tx' \in [{1} -> LikeRecord] /\ tx'[1] = x
    BY <2>1, <2>2 DEF LikesInv
  <2>4. likedPost.state # "gone"
    BY <2>1 DEF LikesInv, LikeStage, Remarks
  <2>5. LikeStage(tx'[1], likedPost, likes, comment)
    BY <2>1, <2>2, <2>3, <2>4 DEF LikeStage
  <2> QED BY <2>1, <2>3, <2>5, LikeQuiet
<1>4. CASE Liking!findPostToDelete(1)
  <2> DEFINE x == [pc |-> "deleteRow", op |-> "deletePost", u |-> Author, c |-> 0, count |-> 0]
  <2>1. /\ tx' = [tx EXCEPT ![1] = x] /\ UNCHANGED <<likedPost, likes, comment>>
        /\ likedPost.state = "live"
    BY <1>4 DEF Liking!findPostToDelete, Liking!Begin
  <2>2. x \in LikeRecord /\ x.pc = "deleteRow"
    BY DEF LikeRecord, Liking!Labels, Liking!AllOps, Assumptions
  <2> HIDE DEF x
  <2>3. tx' \in [{1} -> LikeRecord] /\ tx'[1] = x
    BY <2>1, <2>2 DEF LikesInv
  <2>4. LikeStage(tx'[1], likedPost, likes, comment)
    BY <2>1, <2>2, <2>3 DEF LikeStage
  <2> QED BY <2>1, <2>3, <2>4, LikeQuiet
<1> QED BY <1>1, <1>2, <1>3, <1>4 DEF Liking!Request

\* Statements that only look, or that hold what they write until the next.
LEMMA LookLike ==
    ASSUME Assumptions, LikesInv,
           \/ Liking!findLike(1) \/ Liking!insertLike(1) \/ Liking!notify(1)
           \/ Liking!deleteLike(1) \/ Liking!insertComment(1) \/ Liking!softDelete(1)
           \/ Liking!deleteRow(1) \/ Liking!abort(1)
    PROVE  LikesInv'
<1>1. tx[1] \in LikeRecord
  BY DEF LikesInv
<1>2. UNCHANGED <<likedPost, likes, comment>>
  BY DEF Liking!findLike, Liking!insertLike, Liking!notify, Liking!deleteLike,
         Liking!insertComment, Liking!softDelete, Liking!deleteRow, Liking!abort
<1>3. CASE Liking!Return(1)
  BY <1>2, <1>3, LikeReturn, LikeQuiet
<1>4. ASSUME NEW pc \in Liking!Labels, Liking!Goto(1, pc),
             \/ pc = "insertLike" /\ tx[1].u \notin likes /\ tx[1].pc = "findLike"
             \/ pc = "incrementLikes" /\ tx[1].u \notin likes /\ tx[1].pc = "insertLike"
             \/ pc = "deleteLike" /\ tx[1].u \in likes /\ tx[1].pc = "findLike"
             \/ pc = "decrementLikes" /\ tx[1].u \in likes /\ tx[1].pc = "deleteLike"
             \/ pc = "incrementComments" /\ tx[1].pc = "insertComment"
             \/ pc = "readCount" /\ tx[1].pc = "softDelete" /\ comment[tx[1].c] # "gone"
             \/ pc = "cascade" /\ tx[1].pc = "deleteRow"
      PROVE  LikesInv'
  <2>1. /\ tx' \in [{1} -> LikeRecord] /\ tx'[1].pc = pc /\ tx'[1].u = tx[1].u
        /\ tx'[1].c = tx[1].c /\ tx'[1].count = tx[1].count
    BY <1>4, LikeGoto
  <2>2. LikeStage(tx[1], likedPost, likes, comment) /\ tx[1].pc # "idle"
    BY <1>4 DEF LikesInv
  <2>3. LikeStage(tx'[1], likedPost, likes, comment)
    BY <1>4, <2>1, <2>2 DEF LikeStage
  <2> QED BY <1>2, <2>1, <2>3, LikeQuiet
<1>5. CASE Liking!findLike(1)
  <2>1. \/ Liking!Return(1)
        \/ Liking!Goto(1, "insertLike") /\ tx[1].u \notin likes /\ tx[1].pc = "findLike"
        \/ Liking!Goto(1, "deleteLike") /\ tx[1].u \in likes /\ tx[1].pc = "findLike"
    BY <1>5 DEF Liking!findLike, Liking!At
  <2> QED BY <1>3, <1>4, <2>1 DEF Liking!Labels
<1>6. CASE Liking!insertLike(1)
  <2>1. \/ Liking!Return(1)
        \/ Liking!Goto(1, "incrementLikes") /\ tx[1].u \notin likes /\ tx[1].pc = "insertLike"
    BY <1>6 DEF Liking!insertLike, Liking!At
  <2> QED BY <1>3, <1>4, <2>1 DEF Liking!Labels
<1>7. CASE Liking!notify(1) \/ Liking!abort(1)
  BY <1>3, <1>7 DEF Liking!notify, Liking!abort
<1>8. CASE Liking!deleteLike(1)
  <2>1. \/ Liking!Return(1)
        \/ Liking!Goto(1, "decrementLikes") /\ tx[1].u \in likes /\ tx[1].pc = "deleteLike"
    BY <1>8 DEF Liking!deleteLike, Liking!At
  <2> QED BY <1>3, <1>4, <2>1 DEF Liking!Labels
<1>9. CASE Liking!insertComment(1)
  <2>1. \/ Liking!Return(1)
        \/ Liking!Goto(1, "incrementComments") /\ tx[1].pc = "insertComment"
    BY <1>9 DEF Liking!insertComment, Liking!At
  <2> QED BY <1>3, <1>4, <2>1 DEF Liking!Labels
<1>10. CASE Liking!softDelete(1)
  <2>1. \/ Liking!Return(1)
        \/ /\ Liking!Goto(1, "readCount") /\ tx[1].pc = "softDelete"
           /\ comment[tx[1].c] # "gone"
    BY <1>10 DEF Liking!softDelete, Liking!At
  <2> QED BY <1>3, <1>4, <2>1 DEF Liking!Labels
<1>11. CASE Liking!deleteRow(1)
  <2>1. \/ Liking!Return(1)
        \/ Liking!Goto(1, "cascade") /\ tx[1].pc = "deleteRow"
    BY <1>11 DEF Liking!deleteRow, Liking!At
  <2> QED BY <1>3, <1>4, <2>1 DEF Liking!Labels
<1> QED BY <1>5, <1>6, <1>7, <1>8, <1>9, <1>10, <1>11

\* A like is committed or taken back with its count.
LEMMA CountLike ==
    ASSUME Assumptions, LikesInv, Liking!incrementLikes(1) \/ Liking!decrementLikes(1)
    PROVE  LikesInv'
<1> DEFINE u == tx[1].u
<1>1. /\ tx[1] \in LikeRecord /\ u \in Users
      /\ LikeStage(tx[1], likedPost, likes, comment)
      /\ likedPost = [state |-> likedPost.state, likeCount |-> likedPost.likeCount,
                      commentCount |-> likedPost.commentCount]
      /\ likedPost.likeCount \in Nat
  BY DEF LikesInv, LikeRecord
<1>2. likedPost.state # "gone" /\ likedPost.likeCount = Cardinality(likes)
  BY <1>1 DEF LikesInv, LikeStage, Liking!incrementLikes, Liking!decrementLikes, Liking!At
<1>3. /\ IsFiniteSet(likes') /\ likes' \subseteq Users
      /\ likedPost'.likeCount = Cardinality(likes') /\ likedPost'.likeCount \in Nat
      /\ likedPost' = [likedPost EXCEPT !.likeCount = likedPost'.likeCount]
      /\ comment' = comment
  <2>1. CASE Liking!incrementLikes(1)
    <3>1. u \notin likes
      BY <1>1, <2>1 DEF LikeStage, Liking!incrementLikes, Liking!At
    <3>2. /\ likes' = likes \union {u} /\ comment' = comment
          /\ likedPost' = [likedPost EXCEPT !.likeCount = likedPost.likeCount + 1]
      BY <2>1 DEF Liking!incrementLikes
    <3>3. IsFiniteSet(likes') /\ Cardinality(likes') = Cardinality(likes) + 1
      BY <3>1, <3>2, FS_AddElement DEF LikesInv
    <3>4. likedPost'.likeCount = likedPost.likeCount + 1
      BY <1>1, <3>2
    <3> QED BY <1>1, <1>2, <3>2, <3>3, <3>4 DEF LikesInv
  <2>2. CASE Liking!decrementLikes(1)
    <3>1. u \in likes /\ tx[1].count = likedPost.likeCount
      BY <1>1, <2>2 DEF LikeStage, Liking!decrementLikes, Liking!At
    <3>2. /\ likes' = likes \ {u} /\ comment' = comment
          /\ likedPost' = [likedPost EXCEPT !.likeCount = Liking!Decremented(likedPost.likeCount)]
      BY <2>2, <3>1 DEF Liking!decrementLikes
    <3>3. IsFiniteSet(likes') /\ Cardinality(likes') = Cardinality(likes) - 1
      BY <3>1, <3>2, FS_RemoveElement DEF LikesInv
    <3>4. likedPost'.likeCount = Liking!Decremented(likedPost.likeCount)
      BY <1>1, <3>2
    <3>5. Cardinality(likes') \in Nat
      BY <3>3, FS_CardinalityType
    <3>6. Liking!Decremented(likedPost.likeCount) = Cardinality(likes')
      BY <1>1, <1>2, <3>3, <3>5 DEF Liking!Decremented
    <3> QED BY <3>2, <3>3, <3>4, <3>5, <3>6 DEF LikesInv
  <2> QED BY <2>1, <2>2
<1>4. /\ likedPost'.state = likedPost.state
      /\ likedPost'.commentCount = likedPost.commentCount
      /\ likedPost' \in [state : Liking!PostState, likeCount : Nat, commentCount : Nat]
  BY <1>1, <1>3 DEF LikesInv
<1>5. /\ tx' \in [{1} -> LikeRecord]
      /\ tx'[1].pc \in {"idle", "notify"}
  <2>1. Liking!Return(1) \/ Liking!Goto(1, "notify")
    BY DEF Liking!incrementLikes, Liking!decrementLikes
  <2>2. "notify" \in Liking!Labels
    BY DEF Liking!Labels
  <2> QED BY <2>1, <2>2, LikeGoto, LikeReturn
<1>6. LikeStage(tx[1], likedPost, likes, comment)'
  BY <1>2, <1>4, <1>5 DEF LikeStage
<1>7. likedPost'.commentCount >= Cardinality(Remarks(comment'))
  BY <1>2, <1>3, <1>4 DEF LikesInv
<1> QED
  BY <1>3, <1>4, <1>5, <1>6, <1>7 DEF LikesInv, Remarks

\* A comment is committed or deleted with its count.
LEMMA CountComment ==
    ASSUME Assumptions, LikesInv, Liking!incrementComments(1) \/ Liking!decrementComments(1)
    PROVE  LikesInv'
<1> DEFINE c == tx[1].c
<1>1. /\ tx[1] \in LikeRecord /\ LikeStage(tx[1], likedPost, likes, comment)
      /\ likedPost = [state |-> likedPost.state, likeCount |-> likedPost.likeCount,
                      commentCount |-> likedPost.commentCount]
      /\ likedPost.commentCount \in Nat
      /\ comment \in [Liking!Comments -> Liking!CommentState]
  BY DEF LikesInv
<1>2. /\ likedPost.state # "gone" /\ c \in Liking!Comments
      /\ likedPost.commentCount >= Cardinality(Remarks(comment))
  BY <1>1 DEF LikesInv, LikeStage, Liking!incrementComments, Liking!decrementComments, Liking!At
<1>3. IsFiniteSet(Remarks(comment)) /\ Cardinality(Remarks(comment)) \in Nat
  BY RemarksFinite
<1>4. /\ comment' \in [Liking!Comments -> Liking!CommentState]
      /\ likedPost'.commentCount >= Cardinality(Remarks(comment'))
      /\ likedPost'.commentCount \in Nat
      /\ likedPost' = [likedPost EXCEPT !.commentCount = likedPost'.commentCount]
      /\ likes' = likes
  <2>1. CASE Liking!incrementComments(1)
    <3>1. /\ comment' = [comment EXCEPT ![c] = "live"] /\ likes' = likes
          /\ likedPost' = [likedPost EXCEPT !.commentCount = likedPost.commentCount + 1]
      BY <2>1 DEF Liking!incrementComments
    <3>2. Remarks(comment') = Remarks(comment) \union {c}
      BY <1>1, <1>2, <3>1 DEF Remarks
    <3>3. Cardinality(Remarks(comment')) <= Cardinality(Remarks(comment)) + 1
      <4>1. Cardinality(Remarks(comment) \union {c}) =
               IF c \in Remarks(comment) THEN Cardinality(Remarks(comment))
               ELSE Cardinality(Remarks(comment)) + 1
        BY <1>3, FS_AddElement
      <4> QED BY <1>3, <3>2, <4>1
    <3>4. likedPost'.commentCount = likedPost.commentCount + 1
      BY <1>1, <3>1
    <3>5. Cardinality(Remarks(comment')) \in Nat
      BY RemarksFinite
    <3>6. comment' \in [Liking!Comments -> Liking!CommentState]
      BY <1>1, <1>2, <3>1 DEF Liking!CommentState
    <3>7. likedPost'.commentCount >= Cardinality(Remarks(comment'))
      BY <1>1, <1>2, <1>3, <3>3, <3>4, <3>5
    <3> QED BY <1>1, <3>1, <3>4, <3>6, <3>7
  <2>2. CASE Liking!decrementComments(1)
    <3>1. tx[1].count = likedPost.commentCount /\ comment[c] = "live"
      BY <1>1, <2>2 DEF LikeStage, Liking!decrementComments, Liking!At
    <3>2. /\ comment' = [comment EXCEPT ![c] = "deleted"] /\ likes' = likes
          /\ likedPost' = [likedPost EXCEPT !.commentCount =
                              Liking!Decremented(likedPost.commentCount)]
      BY <2>2, <3>1 DEF Liking!decrementComments
    <3>3. Remarks(comment') = Remarks(comment) \ {c} /\ c \in Remarks(comment)
      BY <1>1, <1>2, <3>1, <3>2 DEF Remarks
    <3>4. Cardinality(Remarks(comment')) = Cardinality(Remarks(comment)) - 1
      <4>1. \A S, x : IsFiniteSet(S) /\ x \in S =>
               Cardinality(S \ {x}) = Cardinality(S) - 1
        BY FS_RemoveElement
      <4> QED BY <1>3, <3>3, <4>1
    <3>5. Cardinality(Remarks(comment')) \in Nat
      BY RemarksFinite
    <3>6. /\ Liking!Decremented(likedPost.commentCount) \in Nat
          /\ Liking!Decremented(likedPost.commentCount) >= Cardinality(Remarks(comment'))
      BY <1>1, <1>2, <1>3, <3>4, <3>5 DEF Liking!Decremented
    <3>7. likedPost'.commentCount = Liking!Decremented(likedPost.commentCount)
      BY <1>1, <3>2
    <3>8. comment' \in [Liking!Comments -> Liking!CommentState]
      BY <1>1, <1>2, <3>2 DEF Liking!CommentState
    <3> QED BY <3>2, <3>6, <3>7, <3>8
  <2> QED BY <2>1, <2>2
<1>5. /\ likedPost'.state = likedPost.state /\ likedPost'.likeCount = likedPost.likeCount
      /\ likedPost' \in [state : Liking!PostState, likeCount : Nat, commentCount : Nat]
  BY <1>1, <1>4 DEF LikesInv
<1>6. /\ tx' \in [{1} -> LikeRecord]
      /\ tx'[1].pc \in {"idle", "notify"}
  <2>1. Liking!Return(1) \/ Liking!Goto(1, "notify")
    BY DEF Liking!incrementComments, Liking!decrementComments
  <2>2. "notify" \in Liking!Labels
    BY DEF Liking!Labels
  <2> QED BY <2>1, <2>2, LikeGoto, LikeReturn
<1>7. LikeStage(tx[1], likedPost, likes, comment)'
  BY <1>2, <1>5, <1>6 DEF LikeStage
<1> QED
  BY <1>1, <1>2, <1>4, <1>5, <1>6, <1>7 DEF LikesInv, Remarks

LEMMA StatementLike ==
    ASSUME Assumptions, LikesInv, Liking!Statement(1)
    PROVE  LikesInv'
<1>1. CASE Liking!readCount(1)
  <2> DEFINE x == [tx[1] EXCEPT !.count = likedPost.commentCount, !.pc = "decrementComments"]
  <2>1. /\ tx \in [{1} -> LikeRecord] /\ tx[1] \in LikeRecord /\ tx[1].pc = "readCount"
        /\ LikeStage(tx[1], likedPost, likes, comment) /\ likedPost.commentCount \in Nat
    BY <1>1 DEF LikesInv, Liking!readCount, Liking!At
  <2>2. /\ UNCHANGED <<likedPost, likes, comment>>
        /\ tx' = [tx EXCEPT ![1] = x]
    BY <1>1, <2>1 DEF Liking!readCount, LikeRecord
  <2>3. /\ x \in LikeRecord /\ x.pc = "decrementComments" /\ x.c = tx[1].c
        /\ x.count = likedPost.commentCount
    BY <2>1 DEF LikeRecord, Liking!Labels
  <2> HIDE DEF x
  <2>4. tx' \in [{1} -> LikeRecord] /\ tx'[1] = x
    BY <2>1, <2>2, <2>3
  <2>5. LikeStage(tx'[1], likedPost, likes, comment)
    BY <2>1, <2>3, <2>4 DEF LikeStage
  <2> QED BY <2>2, <2>4, <2>5, LikeQuiet
<1>2. CASE Liking!cascade(1)
  <2>1. /\ likedPost' = [likedPost EXCEPT !.state = "gone"] /\ likes' = {}
        /\ comment' = [c \in Liking!Comments |-> IF comment[c] = "none" THEN "none" ELSE "gone"]
        /\ Liking!Return(1)
    BY <1>2 DEF Liking!cascade
  <2>2. tx' \in [{1} -> LikeRecord] /\ tx'[1].pc = "idle"
    BY <2>1, LikeReturn
  <2>3. /\ likedPost' \in [state : Liking!PostState, likeCount : Nat, commentCount : Nat]
        /\ likedPost'.state = "gone"
    BY <2>1 DEF LikesInv, Liking!PostState
  <2>4. comment' \in [Liking!Comments -> Liking!CommentState] /\ Remarks(comment') = {}
    BY <2>1 DEF Liking!CommentState, Remarks
  <2>5. LikeStage(tx[1], likedPost, likes, comment)'
    BY <2>2, <2>4 DEF LikeStage, Remarks
  <2>6. IsFiniteSet(likes') /\ likes' \subseteq Users
    BY <2>1, FS_EmptySet
  <2> QED BY <2>2, <2>3, <2>4, <2>5, <2>6 DEF LikesInv
<1> QED
  BY <1>1, <1>2, LookLike, CountLike, CountComment DEF Liking!Statement

\* A moderator acts between two statements of the request.
LEMMA ModerateLike ==
    ASSUME Assumptions, LikesInv, Liking!Moderate
    PROVE  LikesInv'
<1>1. tx \in [{1} -> LikeRecord] /\ LikeStage(tx[1], likedPost, likes, comment)
  BY DEF LikesInv
<1>2. ASSUME NEW c \in Liking!Comments, Liking!adminDeleteComment(c)
      PROVE  LikesInv'
  <2>1. /\ comment' = [comment EXCEPT ![c] = "gone"] /\ UNCHANGED <<likedPost, likes, tx>>
        /\ tx[1].pc \in {"readCount", "decrementComments"} => tx[1].c # c
    BY <1>2 DEF Liking!adminDeleteComment
  <2>2. comment \in [Liking!Comments -> Liking!CommentState]
    BY DEF LikesInv
  <2>3. /\ comment' \in [Liking!Comments -> Liking!CommentState]
        /\ \A b \in Liking!Comments : comment'[b] = IF b = c THEN "gone" ELSE comment[b]
    BY <2>1, <2>2 DEF Liking!CommentState
  <2>4. Remarks(comment') \subseteq Remarks(comment)
    BY <2>3 DEF Remarks
  <2>5. Cardinality(Remarks(comment')) <= Cardinality(Remarks(comment))
    BY <2>4, RemarksFinite, FS_Subset
  <2>6. LikeStage(tx[1], likedPost, likes, comment)'
    BY <1>1, <2>1, <2>3, <2>4 DEF LikeStage
  <2>7. likedPost.state # "gone" => likedPost.commentCount >= Cardinality(Remarks(comment'))
    <3>1. /\ Cardinality(Remarks(comment')) \in Nat /\ Cardinality(Remarks(comment)) \in Nat
          /\ likedPost.commentCount \in Nat
      BY RemarksFinite DEF LikesInv
    <3> QED BY <2>5, <3>1 DEF LikesInv
  <2> QED BY <2>1, <2>3, <2>6, <2>7 DEF LikesInv
<1>3. ASSUME NEW state \in {"live", "deleted"}, Liking!adminUpdatePostStatus(state)
      PROVE  LikesInv'
  <2>1. /\ likedPost' = [likedPost EXCEPT !.state = state] /\ UNCHANGED <<likes, comment, tx>>
        /\ likedPost.state # "gone"
    BY <1>3 DEF Liking!adminUpdatePostStatus
  <2>2. /\ likedPost' \in [state : Liking!PostState, likeCount : Nat, commentCount : Nat]
        /\ likedPost'.state = state /\ likedPost'.likeCount = likedPost.likeCount
        /\ likedPost'.commentCount = likedPost.commentCount
    BY <2>1 DEF LikesInv, Liking!PostState
  <2>3. LikeStage(tx[1], likedPost, likes, comment)'
    BY <1>1, <2>1, <2>2 DEF LikeStage
  <2> QED BY <2>1, <2>2, <2>3 DEF LikesInv, Remarks
<1> QED BY <1>2, <1>3 DEF Liking!Moderate

LEMMA NextLikes ==
    ASSUME Assumptions, LikesInv, [Liking!Next]_likesVars
    PROVE  LikesInv'
<1>1. CASE UNCHANGED likesVars
  BY <1>1 DEF likesVars, LikesInv, LikeStage, Remarks
<1>2. CASE \E r \in {1} : Liking!Request(r) \/ Liking!Statement(r) \/ Liking!abort(r)
  <2>1. Liking!Request(1) \/ Liking!Statement(1) \/ Liking!abort(1)
    BY <1>2
  <2> QED BY <2>1, RequestLike, StatementLike, LookLike
<1> QED
  BY <1>1, <1>2, ModerateLike DEF Liking!Next

-----------------------------------------------------------------------------
(* Likes and comments, any number of transactions at a time.                *)

LEMMA CrowdAssumed == Author \in Users /\ CrowdComments \in Nat
BY Assumptions DEF Assumptions

LEMMA CrowdCardinality == \A S : Crowd!Cardinality(S) = Cardinality(S)
BY DEF Crowd!Cardinality, Cardinality

LEMMA CrowdFinite == \A S : Crowd!IsFiniteSet(S) <=> IsFiniteSet(S)
BY DEF Crowd!IsFiniteSet, IsFiniteSet

CrowdRecord == [pc : Crowd!Labels, op : Crowd!AllOps \union {"none"}, u : Users,
             c : Crowd!Comments \union {0}, count : Nat]

\* A slot without a request is well-formed.
LEMMA CrowdIdleType == Crowd!Idle \in CrowdRecord
BY CrowdAssumed DEF Crowd!Idle, CrowdRecord, Crowd!Labels

\* A counter that is decremented stays a natural number.
LEMMA CrowdDecrementedType == \A n \in Nat : Crowd!Decremented(n) \in Nat
BY DEF Crowd!Decremented

\* One step of a request, seen from the table of requests.
LEMMA CrowdSteps ==
    ASSUME Crowd!TypeOK, NEW r \in Likers
    PROVE  /\ \A pc : Crowd!Goto(r, pc) => \A q \in Likers :
                 tx'[q] = IF q = r THEN [tx[r] EXCEPT !.pc = pc] ELSE tx[q]
           /\ Crowd!Return(r) => \A q \in Likers : tx'[q] = IF q = r THEN Crowd!Idle ELSE tx[q]
           /\ \A pc, op, u, c : Crowd!Begin(r, op, pc, u, c) => \A q \in Likers :
                 tx'[q] = IF q = r THEN [pc |-> pc, op |-> op, u |-> u, c |-> c, count |-> 0]
                          ELSE tx[q]
           /\ \A pc \in Crowd!Labels : Crowd!Goto(r, pc) => tx' \in [Likers -> CrowdRecord]
           /\ Crowd!Return(r) => tx' \in [Likers -> CrowdRecord]
           /\ \A pc \in Crowd!Labels, op \in Crowd!AllOps, u \in Users, c \in Crowd!Comments \union {0} :
                 Crowd!Begin(r, op, pc, u, c) => tx' \in [Likers -> CrowdRecord]
<1>1. tx \in [Likers -> CrowdRecord]
  BY DEF Crowd!TypeOK, CrowdRecord
<1>2. \A pc : Crowd!Goto(r, pc) => tx' = [tx EXCEPT ![r] = [tx[r] EXCEPT !.pc = pc]]
  BY DEF Crowd!Goto
<1>3. \A pc \in Crowd!Labels : [tx[r] EXCEPT !.pc = pc] \in CrowdRecord
  BY <1>1 DEF CrowdRecord
<1>4. \A pc \in Crowd!Labels, op \in Crowd!AllOps, u \in Users, c \in Crowd!Comments \union {0} :
        [pc |-> pc, op |-> op, u |-> u, c |-> c, count |-> 0] \in CrowdRecord
  BY DEF CrowdRecord
<1>5. \A pc : Crowd!Goto(r, pc) => \A q \in Likers :
         tx'[q] = IF q = r THEN [tx[r] EXCEPT !.pc = pc] ELSE tx[q]
  BY <1>1, <1>2
<1>6. Crowd!Return(r) => \A q \in Likers : tx'[q] = IF q = r THEN Crowd!Idle ELSE tx[q]
  BY <1>1 DEF Crowd!Return
<1>7. \A pc, op, u, c : Crowd!Begin(r, op, pc, u, c) => \A q \in Likers :
         tx'[q] = IF q = r THEN [pc |-> pc, op |-> op, u |-> u, c |-> c, count |-> 0]
                  ELSE tx[q]
  BY <1>1 DEF Crowd!Begin
<1>8. \A pc \in Crowd!Labels : Crowd!Goto(r, pc) => tx' \in [Likers -> CrowdRecord]
  BY <1>1, <1>2, <1>3
<1>9. Crowd!Return(r) => tx' \in [Likers -> CrowdRecord]
  BY <1>1, CrowdIdleType DEF Crowd!Return
<1>10. \A pc \in Crowd!Labels, op \in Crowd!AllOps, u \in Users, c \in Crowd!Comments \union {0} :
         Crowd!Begin(r, op, pc, u, c) => tx' \in [Likers -> CrowdRecord]
  BY <1>1, <1>4 DEF Crowd!Begin
<1> QED
  BY <1>5, <1>6, <1>7, <1>8, <1>9, <1>10

-----------------------------------------------------------------------------
(* Type correctness.                                                       *)

\* A new post is well-formed.
LEMMA CrowdInitType == Crowd!Init => Crowd!TypeOK
<1> SUFFICES ASSUME Crowd!Init PROVE Crowd!TypeOK
  OBVIOUS
<1>1. tx \in [Likers -> CrowdRecord]
  BY CrowdIdleType DEF Crowd!Init
<1> QED
  BY <1>1, CrowdAssumed DEF Crowd!Init, Crowd!TypeOK, Crowd!PostState, Crowd!CommentState,
       CrowdRecord

\* Requests that begin change no table.
LEMMA CrowdRequestType ==
    ASSUME Crowd!TypeOK, NEW r \in Likers, Crowd!Request(r)
    PROVE  Crowd!TypeOK'
<1>1. UNCHANGED <<likedPost, likes, comment, notified>>
  BY DEF Crowd!Request, Crowd!findPostToLike, Crowd!findPostToComment, Crowd!findComment,
       Crowd!findPostToDelete
<1>2. tx' \in [Likers -> CrowdRecord]
  <2>1. ASSUME NEW u \in Users, NEW op \in {"likePost", "unlikePost"}, Crowd!findPostToLike(r, op, u)
        PROVE  tx' \in [Likers -> CrowdRecord]
    BY <2>1 DEF Crowd!findPostToLike, Crowd!TypeOK, CrowdRecord, Crowd!Labels, Crowd!AllOps
  <2>2. ASSUME NEW u \in Users, NEW c \in Crowd!Comments, Crowd!findPostToComment(r, u, c)
        PROVE  tx' \in [Likers -> CrowdRecord]
    BY <2>2, CrowdSteps DEF Crowd!findPostToComment, Crowd!Labels, Crowd!AllOps
  <2>3. ASSUME NEW c \in Crowd!Comments, Crowd!findComment(r, c)
        PROVE  tx' \in [Likers -> CrowdRecord]
    BY <2>3, CrowdSteps, CrowdAssumed DEF Crowd!findComment, Crowd!Labels, Crowd!AllOps
  <2>4. CASE Crowd!findPostToDelete(r)
    BY <2>4, CrowdSteps, CrowdAssumed DEF Crowd!findPostToDelete, Crowd!Labels, Crowd!AllOps
  <2> QED
    BY <2>1, <2>2, <2>3, <2>4 DEF Crowd!Request
<1> QED
  BY <1>1, <1>2 DEF Crowd!TypeOK, CrowdRecord

\* Statements write well-formed rows.
LEMMA CrowdStatementType ==
    ASSUME Crowd!TypeOK, NEW r \in Likers, Crowd!Statement(r)
    PROVE  Crowd!TypeOK'
<1> DEFINE TablesOK ==
       /\ likedPost' \in [state : Crowd!PostState, likeCount : Nat, commentCount : Nat]
       /\ likes' \subseteq Users
       /\ comment' \in [Crowd!Comments -> Crowd!CommentState]
       /\ notified' \in [Users -> 0 .. 2]
<1>1. UNCHANGED <<likedPost, likes, comment, notified>> => TablesOK
  BY DEF Crowd!TypeOK
<1>2. /\ tx[r] \in CrowdRecord /\ tx \in [Likers -> CrowdRecord]
      /\ tx[r].u \in Users /\ tx[r].count \in Nat
      /\ Crowd!Decremented(tx[r].count) \in Nat
  BY CrowdDecrementedType DEF Crowd!TypeOK, CrowdRecord
<1>3. CASE Crowd!findLike(r) \/ Crowd!insertLike(r) \/ Crowd!deleteLike(r)
  <2>1. tx' \in [Likers -> CrowdRecord]
    BY <1>3, CrowdSteps DEF Crowd!findLike, Crowd!insertLike, Crowd!deleteLike, Crowd!Labels
  <2> QED
    BY <1>1, <1>3, <2>1 DEF Crowd!findLike, Crowd!insertLike, Crowd!deleteLike, Crowd!TypeOK,
         CrowdRecord
<1>4. CASE Crowd!insertComment(r) \/ Crowd!softDelete(r) \/ Crowd!deleteRow(r)
  <2>1. tx' \in [Likers -> CrowdRecord]
    BY <1>4, CrowdSteps DEF Crowd!insertComment, Crowd!softDelete, Crowd!deleteRow,
         Crowd!Labels
  <2> QED
    BY <1>1, <1>4, <2>1 DEF Crowd!insertComment, Crowd!softDelete, Crowd!deleteRow,
         Crowd!TypeOK, CrowdRecord
<1>5. CASE Crowd!incrementLikes(r)
  <2>1. tx' \in [Likers -> CrowdRecord]
    BY <1>5, CrowdSteps DEF Crowd!incrementLikes, Crowd!Labels
  <2>2. likedPost' \in [state : Crowd!PostState, likeCount : Nat, commentCount : Nat]
    BY <1>5 DEF Crowd!incrementLikes, Crowd!TypeOK
  <2> QED
    BY <1>2, <1>5, <2>1, <2>2 DEF Crowd!incrementLikes, Crowd!TypeOK, CrowdRecord
<1>6. CASE Crowd!notify(r)
  <2>1. tx' \in [Likers -> CrowdRecord]
    BY <1>6, CrowdSteps DEF Crowd!notify
  <2>2. notified' \in [Users -> 0 .. 2]
    BY <1>2, <1>6, CrowdAssumed DEF Crowd!notify, Crowd!TypeOK
  <2> QED
    BY <1>6, <2>1, <2>2 DEF Crowd!notify, Crowd!TypeOK, CrowdRecord
<1>7. CASE Crowd!decrementLikes(r)
  <2>1. tx' \in [Likers -> CrowdRecord]
    BY <1>7, CrowdSteps DEF Crowd!decrementLikes
  <2>2. likedPost' \in [state : Crowd!PostState, likeCount : Nat, commentCount : Nat]
    BY <1>2, <1>7 DEF Crowd!decrementLikes, Crowd!TypeOK
  <2> QED
    BY <1>7, <2>1, <2>2 DEF Crowd!decrementLikes, Crowd!TypeOK, CrowdRecord
<1>8. CASE Crowd!incrementComments(r)
  <2>1. tx' \in [Likers -> CrowdRecord]
    BY <1>8, CrowdSteps DEF Crowd!incrementComments, Crowd!Labels
  <2>2. likedPost' \in [state : Crowd!PostState, likeCount : Nat, commentCount : Nat]
    BY <1>8 DEF Crowd!incrementComments, Crowd!TypeOK
  <2>3. comment' \in [Crowd!Comments -> Crowd!CommentState]
    BY <1>8 DEF Crowd!incrementComments, Crowd!TypeOK, Crowd!CommentState
  <2> QED
    BY <1>8, <2>1, <2>2, <2>3 DEF Crowd!incrementComments, Crowd!TypeOK, CrowdRecord
<1>9. CASE Crowd!readCount(r)
  <2>1. tx' = [tx EXCEPT ![r] = [tx[r] EXCEPT !.count = likedPost.commentCount,
                                              !.pc = "decrementComments"]]
    BY <1>2, <1>9 DEF Crowd!readCount, CrowdRecord
  <2>2. [tx[r] EXCEPT !.count = likedPost.commentCount, !.pc = "decrementComments"] \in CrowdRecord
    BY <1>2 DEF Crowd!TypeOK, CrowdRecord, Crowd!Labels
  <2>3. tx' \in [Likers -> CrowdRecord]
    BY <1>2, <2>1, <2>2
  <2> QED
    BY <1>1, <1>9, <2>3 DEF Crowd!readCount, Crowd!TypeOK, CrowdRecord
<1>10. CASE Crowd!decrementComments(r)
  <2>1. tx' \in [Likers -> CrowdRecord]
    BY <1>10, CrowdSteps DEF Crowd!decrementComments
  <2>2. likedPost' \in [state : Crowd!PostState, likeCount : Nat, commentCount : Nat]
    BY <1>2, <1>10 DEF Crowd!decrementComments, Crowd!TypeOK
  <2>3. comment' \in [Crowd!Comments -> Crowd!CommentState]
    BY <1>10 DEF Crowd!decrementComments, Crowd!TypeOK, Crowd!CommentState
  <2> QED
    BY <1>10, <2>1, <2>2, <2>3 DEF Crowd!decrementComments, Crowd!TypeOK, CrowdRecord
<1>11. CASE Crowd!cascade(r)
  <2>1. tx' \in [Likers -> CrowdRecord]
    BY <1>11, CrowdSteps DEF Crowd!cascade
  <2>2. likedPost' \in [state : Crowd!PostState, likeCount : Nat, commentCount : Nat]
    BY <1>11 DEF Crowd!cascade, Crowd!TypeOK, Crowd!PostState
  <2>3. /\ comment' \in [Crowd!Comments -> Crowd!CommentState]
        /\ notified' \in [Users -> 0 .. 2]
    BY <1>11, CrowdAssumed DEF Crowd!cascade, Crowd!CommentState
  <2> QED
    BY <1>11, <2>1, <2>2, <2>3 DEF Crowd!cascade, Crowd!TypeOK, CrowdRecord
<1> QED
  BY <1>3, <1>4, <1>5, <1>6, <1>7, <1>8, <1>9, <1>10, <1>11 DEF Crowd!Statement

\* So does moderation.
LEMMA CrowdModerateType ==
    ASSUME Crowd!TypeOK, Crowd!Moderate
    PROVE  Crowd!TypeOK'
<1>1. ASSUME NEW c \in Crowd!Comments, Crowd!adminDeleteComment(c)
      PROVE  Crowd!TypeOK'
  BY <1>1 DEF Crowd!adminDeleteComment, Crowd!TypeOK, Crowd!CommentState
<1>2. ASSUME NEW state \in {"live", "deleted"}, Crowd!adminUpdatePostStatus(state)
      PROVE  Crowd!TypeOK'
  BY <1>2 DEF Crowd!adminUpdatePostStatus, Crowd!TypeOK, Crowd!PostState
<1> QED
  BY <1>1, <1>2 DEF Crowd!Moderate

\* Every step keeps the tables well-formed.
LEMMA CrowdNextType ==
    ASSUME Crowd!TypeOK, [Crowd!Next]_likesVars
    PROVE  Crowd!TypeOK'
<1>1. ASSUME NEW r \in Likers, Crowd!abort(r)
      PROVE  Crowd!TypeOK'
  <2>1. tx' \in [Likers -> CrowdRecord]
    BY <1>1, CrowdSteps DEF Crowd!abort
  <2> QED
    BY <1>1, <2>1 DEF Crowd!abort, Crowd!TypeOK, CrowdRecord
<1>2. CASE UNCHANGED likesVars
  BY <1>2 DEF likesVars, Crowd!TypeOK
<1>3. CASE \E r \in Likers : Crowd!Request(r) \/ Crowd!Statement(r) \/ Crowd!abort(r)
  BY <1>1, <1>3, CrowdRequestType, CrowdStatementType
<1> QED
  BY <1>2, <1>3, CrowdModerateType DEF Crowd!Next

-----------------------------------------------------------------------------
(* Likes, as long as nobody takes one back.                                *)

\* A new post has no likes, and counts none.
LEMMA CrowdInitLike == Crowd!Init => Crowd!LikeInv
<1> SUFFICES ASSUME Crowd!Init PROVE Crowd!LikeInv
  OBVIOUS
<1>1. \A r \in Likers : tx[r].pc = "idle" /\ tx[r].op = "none"
  BY DEF Crowd!Init, Crowd!Idle
<1>2. IsFiniteSet(likes) /\ Cardinality(likes) = 0
  BY FS_EmptySet DEF Crowd!Init
<1>3. Crowd!NotifyStages
  BY <1>1 DEF Crowd!Init, Crowd!NotifyStages, Crowd!Notifying
<1> QED
  BY <1>1, <1>2, <1>3, CrowdInitType, CrowdCardinality, CrowdFinite
  DEF Crowd!Init, Crowd!LikeInv, Crowd!LikeCountExact, Crowd!LikeWritersExclusive,
       Crowd!Holding, Crowd!Stages

\* Steps that change neither the likes nor the notifications, and take no request
\* to a stage at which it holds a like, has to notify or deletes the post.
LEMMA CrowdQuiet ==
    ASSUME Crowd!LikeInv, Crowd!TypeOK', likes' = likes, notified' = notified,
           likedPost'.likeCount = likedPost.likeCount,
           likedPost'.state = "gone" <=> likedPost.state = "gone",
           \A q \in Likers :
              \/ tx'[q] = tx[q]
              \/ /\ tx'[q].op = "likePost" <=> tx'[q].pc \in {"findLike", "insertLike"}
                 /\ tx'[q].pc \notin {"incrementLikes", "deleteLike", "decrementLikes", "cascade"}
    PROVE  Crowd!LikeInv'
<1>1. Crowd!LikeCountExact' /\ IsFiniteSet(likes)'
  BY CrowdFinite DEF Crowd!LikeInv, Crowd!LikeCountExact
<1>2. Crowd!LikeWritersExclusive'
  BY DEF Crowd!LikeInv, Crowd!LikeWritersExclusive, Crowd!Holding
<1>3. Crowd!Stages'
  BY DEF Crowd!LikeInv, Crowd!Stages
<1>4. ASSUME NEW u \in Users
      PROVE  {r \in Likers : tx'[r].pc = "notify" /\ tx'[r].op = "likePost" /\ tx'[r].u = u}
                \subseteq Crowd!Notifying(u)
  BY DEF Crowd!Notifying
<1>5. Crowd!NotifyStages'
  BY <1>4 DEF Crowd!LikeInv, Crowd!NotifyStages, Crowd!Notifying
<1> QED
  BY <1>1, <1>2, <1>3, <1>5 DEF Crowd!LikeInv

\* A like is inserted, not yet committed: nobody else holds a like of this user.
LEMMA CrowdInsertStep ==
    ASSUME Crowd!LikeInv, Crowd!TypeOK', NEW r \in Likers, Crowd!insertLike(r)
    PROVE  Crowd!LikeInv'
<1>1. \/ Crowd!Return(r)
      \/ Crowd!Goto(r, "incrementLikes") /\ tx[r].u \notin likes /\ likedPost.state # "gone"
  BY DEF Crowd!insertLike
<1>2. UNCHANGED <<likedPost, likes, comment, notified>>
  BY DEF Crowd!insertLike
<1>3. Crowd!TypeOK /\ tx[r].op = "likePost"
  BY DEF Crowd!LikeInv, Crowd!Stages, Crowd!insertLike, Crowd!At
<1>4. CASE Crowd!Return(r)
  BY <1>2, <1>3, <1>4, CrowdSteps, CrowdQuiet DEF Crowd!Idle
<1>5. CASE Crowd!Goto(r, "incrementLikes") /\ tx[r].u \notin likes /\ likedPost.state # "gone"
  <2>1. \A q \in Likers : tx'[q] = IF q = r THEN [tx[r] EXCEPT !.pc = "incrementLikes"] ELSE tx[q]
    BY <1>3, <1>5, CrowdSteps
  <2>2. tx[r] \in CrowdRecord
    BY <1>3 DEF Crowd!TypeOK, CrowdRecord
  <2>3. /\ tx'[r].pc = "incrementLikes" /\ tx'[r].u = tx[r].u /\ tx'[r].op = "likePost"
    BY <1>3, <2>1, <2>2 DEF CrowdRecord
  <2>4. \A q \in Likers : q # r => tx'[q] = tx[q]
    BY <2>1
  <2>5. \A q \in Likers \ {r} : tx[q].pc = "incrementLikes" => tx[q].u # tx[r].u
    BY DEF Crowd!insertLike, Crowd!LikeLocked, Crowd!Others
  <2>6. \A q \in Likers \ {r} : tx[q].pc # "cascade"
    BY DEF Crowd!insertLike, Crowd!PostLocked, Crowd!Others
  <2>7. Crowd!LikeWritersExclusive'
    BY <1>2, <1>5, <2>3, <2>4, <2>5 DEF Crowd!LikeInv, Crowd!LikeWritersExclusive,
         Crowd!Holding
  <2>8. Crowd!Stages'
    BY <1>2, <1>5, <2>3, <2>4, <2>6 DEF Crowd!LikeInv, Crowd!Stages
  <2>9. \A u : \A q \in Likers :
          tx'[q].pc = "notify" /\ tx'[q].op = "likePost" /\ tx'[q].u = u
            => q # r /\ tx'[q] = tx[q]
    BY <2>3, <2>4
  <2>10. Crowd!NotifyStages'
    BY <1>2, <2>9 DEF Crowd!LikeInv, Crowd!NotifyStages, Crowd!Notifying
  <2> QED
    BY <1>2, <2>7, <2>8, <2>10 DEF Crowd!LikeInv, Crowd!LikeCountExact
<1> QED
  BY <1>1, <1>4, <1>5

\* The like is committed, and the increment counts it.
LEMMA CrowdIncrementStep ==
    ASSUME Crowd!LikeInv, Crowd!TypeOK', NEW r \in Likers, Crowd!incrementLikes(r)
    PROVE  Crowd!LikeInv'
<1> DEFINE u == tx[r].u
<1>1. /\ Crowd!TypeOK /\ tx[r] \in CrowdRecord /\ u \in Users
      /\ tx[r].pc = "incrementLikes" /\ tx[r].op = "likePost" /\ likedPost.state # "gone"
  BY DEF Crowd!LikeInv, Crowd!Stages, Crowd!incrementLikes, Crowd!At, Crowd!TypeOK, CrowdRecord
<1>2. u \notin likes /\ \A q \in Likers \ {r} : tx[q].pc = "incrementLikes" => tx[q].u # u
  BY <1>1 DEF Crowd!LikeInv, Crowd!LikeWritersExclusive, Crowd!Holding
<1>3. /\ likes' = likes \union {u} /\ notified' = notified
      /\ likedPost' = [likedPost EXCEPT !.likeCount = @ + 1]
      /\ \/ Crowd!Return(r)
         \/ Crowd!Goto(r, "notify")
  BY DEF Crowd!incrementLikes
<1>4. /\ IsFiniteSet(likes')
      /\ Cardinality(likes') = Cardinality(likes) + 1
  BY <1>2, <1>3, FS_AddElement, CrowdFinite DEF Crowd!LikeInv
<1>5. Crowd!LikeCountExact'
  BY <1>1, <1>3, <1>4, CrowdCardinality
  DEF Crowd!LikeInv, Crowd!LikeCountExact, Crowd!TypeOK
<1>6. \A q \in Likers : q # r => tx'[q] = tx[q]
  BY <1>1, <1>3, CrowdSteps
<1>7. \/ tx'[r].pc = "idle" /\ tx'[r].op = "none"
      \/ tx'[r].pc = "notify" /\ tx'[r].op = "likePost" /\ tx'[r].u = u
  <2>1. CASE Crowd!Return(r)
    BY <1>1, <2>1, CrowdSteps DEF Crowd!Idle
  <2>2. CASE Crowd!Goto(r, "notify")
    <3>1. tx'[r] = [tx[r] EXCEPT !.pc = "notify"]
      BY <1>1, <2>2, CrowdSteps
    <3> QED
      BY <1>1, <3>1 DEF CrowdRecord
  <2> QED
    BY <1>3, <2>1, <2>2
<1>8. Crowd!LikeWritersExclusive'
  BY <1>2, <1>3, <1>6, <1>7 DEF Crowd!LikeInv, Crowd!LikeWritersExclusive, Crowd!Holding
<1>9. likedPost'.state = likedPost.state
  BY <1>1, <1>3 DEF Crowd!TypeOK
<1>10. Crowd!Stages'
  BY <1>6, <1>7, <1>9 DEF Crowd!LikeInv, Crowd!Stages
<1>11. Crowd!Notifying(u) = {} /\ notified[u] = 0
  BY <1>1, <1>2 DEF Crowd!LikeInv, Crowd!NotifyStages
<1>12. Crowd!NotifyStages'
  <2>1. ASSUME NEW v \in Users
        PROVE  /\ notified'[v] \in {0, 1}
               /\ likedPost'.state # "gone" =>
                     /\ notified'[v] # 0 => v \in likes'
                     /\ \A q \in Likers : tx'[q].pc = "notify" /\ tx'[q].op = "likePost"
                                          /\ tx'[q].u = v
                           => v \in likes' /\ notified'[v] = 0
                     /\ \A p, q \in Likers :
                           /\ tx'[q].pc = "notify" /\ tx'[q].op = "likePost" /\ tx'[q].u = v
                           /\ tx'[p].pc = "notify" /\ tx'[p].op = "likePost" /\ tx'[p].u = v
                           => p = q
    <3>1. CASE v = u
      BY <1>3, <1>6, <1>7, <1>11, <3>1 DEF Crowd!LikeInv, Crowd!NotifyStages, Crowd!Notifying
    <3>2. CASE v # u
      BY <1>3, <1>6, <1>7, <1>9, <3>2 DEF Crowd!LikeInv, Crowd!NotifyStages, Crowd!Notifying
    <3> QED
      BY <3>1, <3>2
  <2> QED
    BY <2>1 DEF Crowd!NotifyStages, Crowd!Notifying
<1> QED
  BY <1>4, <1>5, <1>8, <1>10, <1>12, CrowdFinite DEF Crowd!LikeInv

\* The one notification of a like is written.
LEMMA CrowdNotifyStep ==
    ASSUME Crowd!LikeInv, Crowd!TypeOK', NEW r \in Likers, Crowd!notify(r)
    PROVE  Crowd!LikeInv'
<1>1. /\ Crowd!TypeOK /\ tx[r] \in CrowdRecord /\ tx[r].u \in Users /\ tx[r].pc = "notify"
      /\ UNCHANGED <<likedPost, likes>>
  BY DEF Crowd!LikeInv, Crowd!notify, Crowd!At, Crowd!TypeOK, CrowdRecord
<1>2. \A q \in Likers : tx'[q] = IF q = r THEN Crowd!Idle ELSE tx[q]
  BY <1>1, CrowdSteps DEF Crowd!notify
<1>3. \A q \in Likers : q # r => tx'[q] = tx[q]
  BY <1>2
<1>4. tx'[r].pc = "idle" /\ tx'[r].op = "none"
  BY <1>2 DEF Crowd!Idle
<1>5. Crowd!LikeWritersExclusive' /\ Crowd!Stages'
  BY <1>1, <1>3, <1>4 DEF Crowd!LikeInv, Crowd!LikeWritersExclusive, Crowd!Holding,
       Crowd!Stages
<1>6. \/ notified' = notified
      \/ /\ notified' = [notified EXCEPT ![tx[r].u] = @ + 1]
         /\ r \in Crowd!Notifying(tx[r].u) /\ likedPost.state # "gone"
  BY <1>1 DEF Crowd!notify, Crowd!Notifying
<1>7. \A v \in Users : notified'[v] = notified[v]
          \/ (v = tx[r].u /\ r \in Crowd!Notifying(v) /\ notified'[v] = 1 /\ likedPost.state # "gone")
  BY <1>1, <1>6 DEF Crowd!LikeInv, Crowd!NotifyStages, Crowd!TypeOK
<1>8. Crowd!NotifyStages'
  <2>1. ASSUME NEW v \in Users
        PROVE  /\ notified'[v] \in {0, 1}
               /\ likedPost'.state # "gone" =>
                     /\ notified'[v] # 0 => v \in likes'
                     /\ \A q \in Likers : tx'[q].pc = "notify" /\ tx'[q].op = "likePost"
                                          /\ tx'[q].u = v
                           => v \in likes' /\ notified'[v] = 0
                     /\ \A p, q \in Likers :
                           /\ tx'[q].pc = "notify" /\ tx'[q].op = "likePost" /\ tx'[q].u = v
                           /\ tx'[p].pc = "notify" /\ tx'[p].op = "likePost" /\ tx'[p].u = v
                           => p = q
    BY <1>1, <1>3, <1>4, <1>7 DEF Crowd!LikeInv, Crowd!NotifyStages, Crowd!Notifying
  <2> QED
    BY <2>1 DEF Crowd!NotifyStages, Crowd!Notifying
<1> QED
  BY <1>1, <1>5, <1>8 DEF Crowd!LikeInv, Crowd!LikeCountExact

\* Deleting the post locks it only when no like is about to be committed.
LEMMA CrowdDeleteSteps ==
    ASSUME Crowd!LikeInv, Crowd!TypeOK', NEW r \in Likers, Crowd!deleteRow(r) \/ Crowd!cascade(r)
    PROVE  Crowd!LikeInv'
<1>1. Crowd!TypeOK /\ tx[r] \in CrowdRecord /\ tx[r].pc \in {"deleteRow", "cascade"}
      /\ tx[r].op # "likePost"
  BY DEF Crowd!LikeInv, Crowd!Stages, Crowd!TypeOK, Crowd!deleteRow, Crowd!cascade, Crowd!At,
       CrowdRecord
<1>2. CASE Crowd!deleteRow(r) /\ Crowd!Return(r)
  BY <1>1, <1>2, CrowdSteps, CrowdQuiet DEF Crowd!deleteRow, Crowd!Idle
<1>3. CASE Crowd!deleteRow(r) /\ Crowd!Goto(r, "cascade")
  <2>1. UNCHANGED <<likedPost, likes, notified>>
    BY <1>3 DEF Crowd!deleteRow
  <2>2. \A q \in Likers : tx'[q] = IF q = r THEN [tx[r] EXCEPT !.pc = "cascade"] ELSE tx[q]
    BY <1>1, <1>3, CrowdSteps
  <2>3. tx'[r].pc = "cascade" /\ tx'[r].op # "likePost"
    BY <1>1, <2>2 DEF CrowdRecord
  <2>4. \A q \in Likers : q # r => tx'[q] = tx[q] /\ tx[q].pc # "incrementLikes"
    BY <1>3, <2>2 DEF Crowd!deleteRow, Crowd!PostReferenced, Crowd!Others
  <2>5. Crowd!LikeWritersExclusive' /\ Crowd!Stages'
    BY <2>1, <2>3, <2>4 DEF Crowd!LikeInv, Crowd!LikeWritersExclusive, Crowd!Holding,
         Crowd!Stages
  <2>6. \A q \in Likers : tx'[q].op = "likePost" => tx'[q] = tx[q]
    BY <2>3, <2>4
  <2>7. Crowd!NotifyStages'
    BY <2>1, <2>6 DEF Crowd!LikeInv, Crowd!NotifyStages, Crowd!Notifying
  <2> QED
    BY <2>1, <2>5, <2>7 DEF Crowd!LikeInv, Crowd!LikeCountExact
<1>4. CASE Crowd!cascade(r)
  <2>1. /\ likedPost'.state = "gone" /\ likes' = {}
        /\ \A u \in Users : notified'[u] = 0
    BY <1>1, <1>4 DEF Crowd!cascade, Crowd!TypeOK
  <2>2. \A q \in Likers : tx'[q] = IF q = r THEN Crowd!Idle ELSE tx[q]
    BY <1>1, <1>4, CrowdSteps DEF Crowd!cascade
  <2>3. \A q \in Likers : tx[q].pc # "incrementLikes"
    BY <1>4 DEF Crowd!cascade, Crowd!At, Crowd!LikeInv, Crowd!Stages
  <2>4. \A q \in Likers : tx'[q] = tx[q] \/ (tx'[q].pc = "idle" /\ tx'[q].op = "none")
    BY <2>2 DEF Crowd!Idle
  <2>5. Crowd!LikeWritersExclusive' /\ Crowd!Stages'
    BY <2>3, <2>4 DEF Crowd!LikeInv, Crowd!LikeWritersExclusive, Crowd!Holding, Crowd!Stages
  <2>6. IsFiniteSet(likes')
    BY <2>1, FS_EmptySet
  <2>7. Crowd!NotifyStages' /\ Crowd!LikeCountExact'
    BY <2>1 DEF Crowd!NotifyStages, Crowd!LikeCountExact
  <2> QED
    BY <2>5, <2>6, <2>7, CrowdFinite DEF Crowd!LikeInv
<1> QED
  BY <1>2, <1>3, <1>4 DEF Crowd!deleteRow

\* Every step keeps likes, counter and notifications in step, if none takes a like back.
LEMMA CrowdNextLike ==
    ASSUME "unlikePost" \notin CrowdOps, Crowd!LikeInv, [Crowd!Next]_likesVars
    PROVE  Crowd!LikeInv'
<1>1. Crowd!TypeOK /\ Crowd!TypeOK'
  BY CrowdNextType DEF Crowd!LikeInv
<1>2. ASSUME NEW r \in Likers, Crowd!Request(r)
      PROVE  Crowd!LikeInv'
  <2>1. UNCHANGED <<likedPost, likes, comment, notified>>
    BY <1>2 DEF Crowd!Request, Crowd!findPostToLike, Crowd!findPostToComment,
         Crowd!findComment, Crowd!findPostToDelete
  <2>2. ASSUME NEW u \in Users, NEW op \in {"likePost", "unlikePost"}, Crowd!findPostToLike(r, op, u)
        PROVE  \A q \in Likers : tx'[q] = tx[q]
                 \/ (tx'[q].op = "likePost" /\ tx'[q].pc = "findLike")
    BY <1>1, <2>2 DEF Crowd!findPostToLike, Crowd!Offered, Crowd!TypeOK
  <2>3. ASSUME NEW u \in Users, NEW c \in Crowd!Comments, Crowd!findPostToComment(r, u, c)
        PROVE  \A q \in Likers : tx'[q] = tx[q]
                 \/ (tx'[q].op # "likePost" /\ tx'[q].pc = "insertComment")
    BY <1>1, <2>3 DEF Crowd!findPostToComment, Crowd!Begin, Crowd!TypeOK
  <2>4. ASSUME NEW c \in Crowd!Comments, Crowd!findComment(r, c)
        PROVE  \A q \in Likers : tx'[q] = tx[q]
                 \/ (tx'[q].op # "likePost" /\ tx'[q].pc = "softDelete")
    BY <1>1, <2>4 DEF Crowd!findComment, Crowd!Begin, Crowd!TypeOK
  <2>5. CASE Crowd!findPostToDelete(r)
    <3>1. \A q \in Likers : tx'[q] = tx[q]
            \/ (tx'[q].op # "likePost" /\ tx'[q].pc = "deleteRow")
      BY <1>1, <2>5 DEF Crowd!findPostToDelete, Crowd!Begin, Crowd!TypeOK
    <3> QED
      BY <1>1, <2>1, <3>1, CrowdQuiet
  <2>6. ASSUME NEW u \in Users, NEW op \in {"likePost", "unlikePost"}, Crowd!findPostToLike(r, op, u)
        PROVE  Crowd!LikeInv'
    BY <1>1, <2>1, <2>2, <2>6, CrowdQuiet
  <2>7. ASSUME NEW u \in Users, NEW c \in Crowd!Comments, Crowd!findPostToComment(r, u, c)
        PROVE  Crowd!LikeInv'
    BY <1>1, <2>1, <2>3, <2>7, CrowdQuiet
  <2>8. ASSUME NEW c \in Crowd!Comments, Crowd!findComment(r, c)
        PROVE  Crowd!LikeInv'
    BY <1>1, <2>1, <2>4, <2>8, CrowdQuiet
  <2> QED
    BY <1>2, <2>5, <2>6, <2>7, <2>8 DEF Crowd!Request
<1>3. ASSUME NEW r \in Likers, Crowd!Statement(r)
      PROVE  Crowd!LikeInv'
  <2>1. tx[r] \in CrowdRecord /\ tx[r].pc \notin {"deleteLike", "decrementLikes"}
    BY <1>1 DEF Crowd!TypeOK, CrowdRecord, Crowd!LikeInv, Crowd!Stages
  <2>2. CASE Crowd!findLike(r)
    <3>1. tx[r].op = "likePost"
      BY <2>2 DEF Crowd!findLike, Crowd!At, Crowd!LikeInv, Crowd!Stages
    <3>2. \A q \in Likers : tx'[q] = tx[q]
            \/ (tx'[q].op = "likePost" /\ tx'[q].pc = "insertLike")
            \/ (tx'[q].op = "none" /\ tx'[q].pc = "idle")
      <4>1. Crowd!Return(r) \/ Crowd!Goto(r, "insertLike")
        BY <2>2, <3>1 DEF Crowd!findLike
      <4>2. CASE Crowd!Return(r)
        BY <1>1, <4>2, CrowdSteps DEF Crowd!Idle
      <4>3. CASE Crowd!Goto(r, "insertLike")
        <5>1. \A q \in Likers : tx'[q] = IF q = r THEN [tx[r] EXCEPT !.pc = "insertLike"] ELSE tx[q]
          BY <1>1, <4>3, CrowdSteps
        <5> QED
          BY <2>1, <3>1, <5>1 DEF CrowdRecord
      <4> QED
        BY <4>1, <4>2, <4>3
    <3> QED
      BY <1>1, <2>2, <3>2, CrowdQuiet DEF Crowd!findLike
  <2>3. CASE Crowd!insertComment(r) \/ Crowd!softDelete(r) \/ Crowd!readCount(r)
    <3>1. tx[r].op # "likePost"
      BY <2>3 DEF Crowd!insertComment, Crowd!softDelete, Crowd!readCount, Crowd!At,
           Crowd!LikeInv, Crowd!Stages
    <3>2. \/ Crowd!Return(r) \/ Crowd!readCount(r)
          \/ Crowd!Goto(r, "incrementComments") \/ Crowd!Goto(r, "readCount")
      BY <2>3 DEF Crowd!insertComment, Crowd!softDelete
    <3>3. \A q \in Likers : tx'[q] = tx[q]
            \/ /\ tx'[q].op # "likePost"
               /\ tx'[q].pc \in {"idle", "incrementComments", "readCount", "decrementComments"}
      <4>1. CASE Crowd!Return(r)
        BY <1>1, <4>1, CrowdSteps DEF Crowd!Idle
      <4>2. ASSUME NEW pc \in {"incrementComments", "readCount"}, Crowd!Goto(r, pc)
            PROVE  \A q \in Likers : tx'[q] = tx[q] \/ (tx'[q].op # "likePost" /\ tx'[q].pc = pc)
        <5>1. \A q \in Likers : tx'[q] = IF q = r THEN [tx[r] EXCEPT !.pc = pc] ELSE tx[q]
          BY <1>1, <4>2, CrowdSteps
        <5> QED
          BY <2>1, <3>1, <5>1 DEF CrowdRecord
      <4>3. CASE Crowd!readCount(r)
        <5>1. tx' = [tx EXCEPT ![r] = [tx[r] EXCEPT !.count = likedPost.commentCount,
                                                    !.pc = "decrementComments"]]
          BY <1>1, <4>3 DEF Crowd!readCount, Crowd!TypeOK
        <5> QED
          BY <1>1, <2>1, <3>1, <5>1 DEF Crowd!TypeOK, CrowdRecord
      <4> QED
        BY <3>2, <4>1, <4>2, <4>3
    <3>4. UNCHANGED <<likedPost, likes, notified>>
      BY <2>3 DEF Crowd!insertComment, Crowd!softDelete, Crowd!readCount
    <3> QED
      BY <1>1, <3>3, <3>4, CrowdQuiet
  <2>4. CASE Crowd!incrementComments(r) \/ Crowd!decrementComments(r)
    <3>1. tx[r].op # "likePost"
      BY <2>4 DEF Crowd!incrementComments, Crowd!decrementComments, Crowd!At, Crowd!LikeInv,
           Crowd!Stages
    <3>2. Crowd!Return(r) \/ Crowd!Goto(r, "notify")
      BY <2>4 DEF Crowd!incrementComments, Crowd!decrementComments
    <3>3. \A q \in Likers : tx'[q] = tx[q]
            \/ (tx'[q].op # "likePost" /\ tx'[q].pc \in {"idle", "notify"})
      <4>1. CASE Crowd!Return(r)
        BY <1>1, <4>1, CrowdSteps DEF Crowd!Idle
      <4>2. CASE Crowd!Goto(r, "notify")
        <5>1. \A q \in Likers : tx'[q] = IF q = r THEN [tx[r] EXCEPT !.pc = "notify"] ELSE tx[q]
          BY <1>1, <4>2, CrowdSteps
        <5> QED
          BY <2>1, <3>1, <5>1 DEF CrowdRecord
      <4> QED
        BY <3>2, <4>1, <4>2
    <3>4. /\ likes' = likes /\ notified' = notified
          /\ likedPost'.likeCount = likedPost.likeCount /\ likedPost'.state = likedPost.state
      BY <1>1, <2>4 DEF Crowd!incrementComments, Crowd!decrementComments, Crowd!TypeOK
    <3> QED
      BY <1>1, <3>3, <3>4, CrowdQuiet
  <2>5. CASE Crowd!deleteLike(r) \/ Crowd!decrementLikes(r)
    BY <2>1, <2>5 DEF Crowd!deleteLike, Crowd!decrementLikes, Crowd!At
  <2> QED
    BY <1>1, <1>3, <2>2, <2>3, <2>4, <2>5, CrowdInsertStep, CrowdIncrementStep, CrowdNotifyStep, CrowdDeleteSteps
    DEF Crowd!Statement
<1>4. ASSUME NEW r \in Likers, Crowd!abort(r)
      PROVE  Crowd!LikeInv'
  <2>1. \A q \in Likers : tx'[q] = tx[q] \/ (tx'[q].op = "none" /\ tx'[q].pc = "idle")
    BY <1>1, <1>4, CrowdSteps DEF Crowd!abort, Crowd!Idle
  <2> QED
    BY <1>1, <1>4, <2>1, CrowdQuiet DEF Crowd!abort
<1>5. CASE Crowd!Moderate
  <2>1. /\ tx' = tx /\ likes' = likes /\ notified' = notified
        /\ likedPost'.likeCount = likedPost.likeCount
        /\ likedPost'.state = "gone" <=> likedPost.state = "gone"
    BY <1>1, <1>5 DEF Crowd!Moderate, Crowd!adminDeleteComment, Crowd!adminUpdatePostStatus,
         Crowd!TypeOK
  <2> QED
    BY <1>1, <2>1, CrowdQuiet
<1>6. CASE UNCHANGED likesVars
  BY <1>1, <1>6, CrowdQuiet DEF likesVars
<1>7. CASE \E r \in Likers : Crowd!Request(r) \/ Crowd!Statement(r) \/ Crowd!abort(r)
  BY <1>2, <1>3, <1>4, <1>7
<1> QED
  BY <1>5, <1>6, <1>7 DEF Crowd!Next

-----------------------------------------------------------------------------
(* Comments and their counter, while comments are not deleted one by one.   *)
(* The post may be deleted with all of them.                               *)

\* The comments that are not deleted.
LiveComments == {c \in Crowd!Comments : comment[c] = "live"}

\* The stages at which a request has a comment to write.
Writing == {"insertComment", "incrementComments"}

\* A comment that is being written is not in the table, no other request writes it, and
\* the post is there until the counter has been incremented.
CommentStages ==
    \A r \in Likers :
        /\ tx[r].pc \notin {"softDelete", "readCount", "decrementComments"}
        /\ tx[r].pc \in Writing =>
              /\ tx[r].c \in Crowd!Comments
              /\ comment[tx[r].c] = "none"
              /\ \A q \in Likers \ {r} : tx[q].pc \in Writing => tx[q].c # tx[r].c
        /\ tx[r].pc = "incrementComments" =>
              /\ likedPost.state # "gone"
              /\ \A q \in Likers : tx[q].pc # "cascade"

\* The inductive invariant behind CommentsCounted.
CommentInv == Crowd!TypeOK /\ Crowd!CommentCountExact /\ CommentStages

NoDeletion == {"deleteComment", "adminDeleteComment"} \intersect CrowdOps = {}

\* Steps that change neither comments nor their counter, and take no request to a stage at
\* which it writes a comment, deletes one or deletes the post.
LEMMA CrowdCommentQuiet ==
    ASSUME CommentInv, Crowd!TypeOK', comment' = comment,
           likedPost'.commentCount = likedPost.commentCount,
           likedPost'.state = "gone" <=> likedPost.state = "gone",
           \A q \in Likers :
              \/ tx'[q] = tx[q]
              \/ tx'[q].pc \notin Writing \union {"softDelete", "readCount",
                                                  "decrementComments", "cascade"}
    PROVE  CommentInv'
<1>1. Crowd!CommentCountExact'
  BY DEF CommentInv, Crowd!CommentCountExact
<1>2. CommentStages'
  BY DEF CommentInv, CommentStages, Writing
<1> QED
  BY <1>1, <1>2 DEF CommentInv

\* Of all requests, the ones that begin: one that will write a comment takes one that
\* nobody holds.
LEMMA CrowdCommentRequest ==
    ASSUME NoDeletion, CommentInv, Crowd!TypeOK', NEW r \in Likers, Crowd!Request(r)
    PROVE  CommentInv'
<1>1. Crowd!TypeOK /\ UNCHANGED <<likedPost, likes, comment, notified>>
  BY DEF CommentInv, Crowd!Request, Crowd!findPostToLike, Crowd!findPostToComment,
       Crowd!findComment, Crowd!findPostToDelete
<1>2. ASSUME NEW u \in Users, NEW op \in {"likePost", "unlikePost"}, Crowd!findPostToLike(r, op, u)
      PROVE  CommentInv'
  <2>1. \A q \in Likers : tx'[q] = tx[q] \/ tx'[q].pc = "findLike"
    BY <1>1, <1>2 DEF Crowd!findPostToLike, Crowd!TypeOK
  <2> QED
    BY <1>1, <2>1, CrowdCommentQuiet DEF Writing
<1>3. ASSUME NEW u \in Users, NEW c \in Crowd!Comments, Crowd!findPostToComment(r, u, c)
      PROVE  CommentInv'
  <2>1. \A q \in Likers : q # r => tx'[q] = tx[q] /\ tx[q].c # c
    BY <1>1, <1>3 DEF Crowd!findPostToComment, Crowd!Begin, Crowd!TypeOK
  <2>2. tx'[r].pc = "insertComment" /\ tx'[r].c = c /\ comment[c] = "none"
    BY <1>1, <1>3 DEF Crowd!findPostToComment, Crowd!Begin, Crowd!TypeOK
  <2>3. CommentStages'
    BY <1>1, <2>1, <2>2 DEF CommentInv, CommentStages, Writing
  <2> QED
    BY <1>1, <2>3 DEF CommentInv, Crowd!CommentCountExact
<1>4. ASSUME NEW c \in Crowd!Comments, Crowd!findComment(r, c)
      PROVE  CommentInv'
  BY <1>4 DEF Crowd!findComment, Crowd!Offered, NoDeletion
<1>5. CASE Crowd!findPostToDelete(r)
  <2>1. \A q \in Likers : tx'[q] = tx[q] \/ tx'[q].pc = "deleteRow"
    BY <1>1, <1>5 DEF Crowd!findPostToDelete, Crowd!Begin, Crowd!TypeOK
  <2> QED
    BY <1>1, <2>1, CrowdCommentQuiet DEF Writing
<1> QED
  BY <1>2, <1>3, <1>4, <1>5 DEF Crowd!Request

\* A request that returns, and changes nothing that comments depend on.
LEMMA CrowdCommentReturn ==
    ASSUME CommentInv, Crowd!TypeOK', NEW r \in Likers, Crowd!Return(r), comment' = comment,
           likedPost'.commentCount = likedPost.commentCount,
           likedPost'.state = "gone" <=> likedPost.state = "gone"
    PROVE  CommentInv'
<1>1. \A q \in Likers : tx'[q] = tx[q] \/ tx'[q].pc = "idle"
  BY CrowdSteps DEF CommentInv, Crowd!Idle
<1> QED
  BY <1>1, CrowdCommentQuiet DEF Writing

\* A request that goes on without touching comments.
LEMMA CrowdCommentGoto ==
    ASSUME CommentInv, Crowd!TypeOK', NEW r \in Likers,
           NEW pc \in {"insertLike", "incrementLikes", "deleteLike", "decrementLikes", "notify"},
           Crowd!Goto(r, pc), comment' = comment,
           likedPost'.commentCount = likedPost.commentCount,
           likedPost'.state = "gone" <=> likedPost.state = "gone"
    PROVE  CommentInv'
<1>1. tx[r] \in CrowdRecord
  BY DEF CommentInv, Crowd!TypeOK, CrowdRecord
<1>2. \A q \in Likers : tx'[q] = IF q = r THEN [tx[r] EXCEPT !.pc = pc] ELSE tx[q]
  BY CrowdSteps DEF CommentInv
<1>3. tx'[r].pc = pc
  BY <1>1, <1>2 DEF CrowdRecord
<1> QED
  BY <1>2, <1>3, CrowdCommentQuiet DEF Writing

\* Statements about likes.
LEMMA CrowdCommentLikes ==
    ASSUME CommentInv, Crowd!TypeOK', NEW r \in Likers,
           \/ Crowd!findLike(r) \/ Crowd!insertLike(r) \/ Crowd!incrementLikes(r) \/ Crowd!notify(r)
           \/ Crowd!deleteLike(r) \/ Crowd!decrementLikes(r)
    PROVE  CommentInv'
<1>1. /\ comment' = comment /\ likedPost'.commentCount = likedPost.commentCount
      /\ likedPost'.state = likedPost.state
  BY DEF CommentInv, Crowd!TypeOK, Crowd!findLike, Crowd!insertLike, Crowd!incrementLikes,
       Crowd!notify, Crowd!deleteLike,
         Crowd!decrementLikes
<1>2. \/ Crowd!Return(r)
      \/ \E pc \in {"insertLike", "incrementLikes", "deleteLike", "decrementLikes", "notify"} :
            Crowd!Goto(r, pc)
  BY DEF Crowd!findLike, Crowd!insertLike, Crowd!incrementLikes, Crowd!notify,
       Crowd!deleteLike, Crowd!decrementLikes
<1> QED
  BY <1>1, <1>2, CrowdCommentReturn, CrowdCommentGoto

\* A comment is inserted, not yet committed: the post cannot be deleted under it.
LEMMA CrowdCommentInsert ==
    ASSUME CommentInv, Crowd!TypeOK', NEW r \in Likers, Crowd!insertComment(r)
    PROVE  CommentInv'
<1>1. Crowd!TypeOK /\ UNCHANGED <<likedPost, likes, comment, notified>> /\ tx[r].pc = "insertComment"
  BY DEF CommentInv, Crowd!insertComment, Crowd!At
<1>2. CASE Crowd!Return(r)
  BY <1>1, <1>2, CrowdCommentReturn
<1>3. CASE likedPost.state # "gone" /\ Crowd!Goto(r, "incrementComments")
  <2>1. \A q \in Likers :
          tx'[q] = IF q = r THEN [tx[r] EXCEPT !.pc = "incrementComments"] ELSE tx[q]
    BY <1>1, <1>3, CrowdSteps
  <2>2. tx[r] \in CrowdRecord
    BY <1>1 DEF Crowd!TypeOK, CrowdRecord
  <2>3. tx'[r].pc = "incrementComments" /\ tx'[r].c = tx[r].c
    BY <2>1, <2>2 DEF CrowdRecord
  <2>4. \A q \in Likers : q # r => tx'[q] = tx[q] /\ tx[q].pc # "cascade"
    BY <2>1 DEF Crowd!insertComment, Crowd!PostLocked, Crowd!Others
  <2>5. CommentStages'
    BY <1>1, <1>3, <2>3, <2>4 DEF CommentInv, CommentStages, Writing
  <2> QED
    BY <1>1, <2>5 DEF CommentInv, Crowd!CommentCountExact
<1> QED
  BY <1>2, <1>3 DEF Crowd!insertComment

\* The comment is committed, and the increment counts it.
LEMMA CrowdCommentIncrement ==
    ASSUME CommentInv, Crowd!TypeOK', NEW r \in Likers, Crowd!incrementComments(r)
    PROVE  CommentInv'
<1> DEFINE c == tx[r].c
<1>1. /\ Crowd!TypeOK /\ tx[r] \in CrowdRecord /\ tx[r].pc = "incrementComments"
      /\ c \in Crowd!Comments /\ comment[c] = "none" /\ likedPost.state # "gone"
  BY DEF CommentInv, CommentStages, Crowd!incrementComments, Crowd!At, Crowd!TypeOK,
       CrowdRecord, Writing
<1>2. /\ comment' = [comment EXCEPT ![c] = "live"]
      /\ likedPost' = [likedPost EXCEPT !.commentCount = @ + 1]
  BY DEF Crowd!incrementComments
<1>3. likedPost'.commentCount = likedPost.commentCount + 1 /\ likedPost'.state = likedPost.state
  BY <1>1, <1>2 DEF Crowd!TypeOK
<1>4. Crowd!CommentCountExact'
  <2>1. LiveComments' = LiveComments \union {c} /\ c \notin LiveComments
    BY <1>1, <1>2 DEF LiveComments, Crowd!TypeOK
  <2>2. IsFiniteSet(Crowd!Comments)
    BY CrowdAssumed, FS_Interval DEF Crowd!Comments
  <2>3. IsFiniteSet(LiveComments)
    BY <2>2, FS_Subset DEF LiveComments
  <2>4. Cardinality(LiveComments') = Cardinality(LiveComments) + 1
    BY <2>1, <2>3, FS_AddElement
  <2> QED
    BY <1>1, <1>3, <2>4, CrowdCardinality DEF CommentInv, Crowd!CommentCountExact, LiveComments
<1>5. \A q \in Likers : q # r => tx'[q] = tx[q]
  BY <1>1 DEF Crowd!incrementComments, Crowd!Return, Crowd!Goto, Crowd!TypeOK
<1>6. tx'[r].pc \in {"idle", "notify"}
  <2>1. CASE Crowd!Return(r)
    BY <1>1, <2>1, CrowdSteps DEF Crowd!Idle
  <2>2. CASE Crowd!Goto(r, "notify")
    <3>1. tx'[r] = [tx[r] EXCEPT !.pc = "notify"]
      BY <1>1, <2>2, CrowdSteps
    <3> QED
      BY <1>1, <3>1 DEF CrowdRecord
  <2> QED
    BY <2>1, <2>2 DEF Crowd!incrementComments
<1>7. \A q \in Likers : q # r /\ tx[q].pc \in Writing => tx[q].c # c
  BY <1>1 DEF CommentInv, CommentStages, Writing
<1>8. \A b \in Crowd!Comments : b # c => comment'[b] = comment[b]
  BY <1>2 DEF CommentInv, Crowd!TypeOK
<1>9. CommentStages'
  BY <1>3, <1>5, <1>6, <1>7, <1>8 DEF CommentInv, CommentStages, Writing
<1> QED
  BY <1>4, <1>9 DEF CommentInv

\* The post is deleted with its comments; a comment that is still to be inserted will find
\* it gone.
LEMMA CrowdCommentDelete ==
    ASSUME CommentInv, Crowd!TypeOK', NEW r \in Likers, Crowd!deleteRow(r) \/ Crowd!cascade(r)
    PROVE  CommentInv'
<1>1. Crowd!TypeOK /\ tx[r] \in CrowdRecord
  BY DEF CommentInv, Crowd!TypeOK, CrowdRecord
<1>2. CASE Crowd!deleteRow(r) /\ Crowd!Return(r)
  BY <1>2, CrowdCommentReturn DEF Crowd!deleteRow
<1>3. CASE Crowd!deleteRow(r) /\ Crowd!Goto(r, "cascade")
  <2>1. UNCHANGED <<likedPost, likes, comment, notified>>
    BY <1>3 DEF Crowd!deleteRow
  <2>2. \A q \in Likers : tx'[q] = IF q = r THEN [tx[r] EXCEPT !.pc = "cascade"] ELSE tx[q]
    BY <1>1, <1>3, CrowdSteps
  <2>3. tx'[r].pc = "cascade"
    BY <1>1, <2>2 DEF CrowdRecord
  <2>4. \A q \in Likers : q # r => tx'[q] = tx[q] /\ tx[q].pc # "incrementComments"
    BY <1>3, <2>2 DEF Crowd!deleteRow, Crowd!PostReferenced, Crowd!Others
  <2>5. CommentStages'
    BY <2>1, <2>3, <2>4 DEF CommentInv, CommentStages, Writing
  <2> QED
    BY <2>1, <2>5 DEF CommentInv, Crowd!CommentCountExact
<1>4. CASE Crowd!cascade(r)
  <2>1. /\ likedPost'.state = "gone"
        /\ \A b \in Crowd!Comments : comment[b] = "none" => comment'[b] = "none"
    BY <1>1, <1>4 DEF Crowd!cascade, Crowd!TypeOK
  <2>2. \A q \in Likers : tx'[q] = tx[q] \/ tx'[q].pc = "idle"
    BY <1>1, <1>4, CrowdSteps DEF Crowd!cascade, Crowd!Idle
  <2>3. \A q \in Likers : tx[q].pc # "incrementComments"
    BY <1>4 DEF Crowd!cascade, Crowd!At, CommentInv, CommentStages
  <2>4. CommentStages'
    BY <2>1, <2>2, <2>3 DEF CommentInv, CommentStages, Writing
  <2> QED
    BY <2>1, <2>4 DEF CommentInv, Crowd!CommentCountExact
<1> QED
  BY <1>2, <1>3, <1>4 DEF Crowd!deleteRow

\* Every step keeps comments and counter in step.
LEMMA CrowdNextComment ==
    ASSUME NoDeletion, CommentInv, [Crowd!Next]_likesVars
    PROVE  CommentInv'
<1>1. Crowd!TypeOK /\ Crowd!TypeOK'
  BY CrowdNextType DEF CommentInv
<1>2. ASSUME NEW r \in Likers, Crowd!Request(r)
      PROVE  CommentInv'
  BY <1>1, <1>2, CrowdCommentRequest
<1>3. ASSUME NEW r \in Likers, Crowd!Statement(r)
      PROVE  CommentInv'
  <2>1. ~ Crowd!softDelete(r) /\ ~ Crowd!readCount(r) /\ ~ Crowd!decrementComments(r)
    BY DEF Crowd!softDelete, Crowd!readCount, Crowd!decrementComments, Crowd!At, CommentInv,
         CommentStages
  <2> QED
    BY <1>1, <1>3, <2>1, CrowdCommentLikes, CrowdCommentInsert, CrowdCommentIncrement, CrowdCommentDelete
    DEF Crowd!Statement
<1>4. ASSUME NEW r \in Likers, Crowd!abort(r)
      PROVE  CommentInv'
  BY <1>1, <1>4, CrowdCommentReturn DEF Crowd!abort
<1>5. CASE Crowd!Moderate
  <2>1. PICK state \in {"live", "deleted"} : Crowd!adminUpdatePostStatus(state)
    BY <1>5 DEF Crowd!Moderate, Crowd!adminDeleteComment, NoDeletion
  <2>2. /\ tx' = tx /\ comment' = comment /\ likedPost'.commentCount = likedPost.commentCount
        /\ likedPost'.state = "gone" <=> likedPost.state = "gone"
    BY <1>1, <2>1 DEF Crowd!adminUpdatePostStatus, Crowd!TypeOK
  <2> QED
    BY <1>1, <2>2, CrowdCommentQuiet
<1>6. CASE UNCHANGED likesVars
  BY <1>1, <1>6, CrowdCommentQuiet DEF likesVars
<1>7. CASE \E r \in Likers : Crowd!Request(r) \/ Crowd!Statement(r) \/ Crowd!abort(r)
  BY <1>2, <1>3, <1>4, <1>7
<1> QED
  BY <1>5, <1>6, <1>7 DEF Crowd!Next

\* A new post has no comments, and counts none.
LEMMA CrowdInitComment == Crowd!Init => CommentInv
<1> SUFFICES ASSUME Crowd!Init PROVE CommentInv
  OBVIOUS
<1>1. {c \in Crowd!Comments : comment[c] = "live"} = {}
  BY DEF Crowd!Init
<1>2. Crowd!CommentCountExact
  BY <1>1, FS_EmptySet, CrowdCardinality DEF Crowd!Init, Crowd!CommentCountExact
<1>3. CommentStages
  BY DEF Crowd!Init, Crowd!Idle, CommentStages, Writing
<1> QED
  BY <1>2, <1>3, CrowdInitType DEF CommentInv


CrowdInv ==
    /\ Crowd!TypeOK
    /\ "unlikePost" \notin CrowdOps => Crowd!LikeInv
    /\ NoDeletion => CommentInv

LEMMA InitCrowd == Crowd!Init => CrowdInv
BY CrowdInitType, CrowdInitLike, CrowdInitComment DEF CrowdInv

LEMMA NextCrowd ==
    ASSUME CrowdInv, [Crowd!Next]_likesVars
    PROVE  CrowdInv'
BY CrowdNextType, CrowdNextLike, CrowdNextComment DEF CrowdInv, NoDeletion

\* Of the likes of one user a post's author is told once.
LEMMA CrowdSound ==
    ASSUME CrowdInv
    PROVE  /\ "unlikePost" \notin CrowdOps => Crowd!LikeInv /\ Crowd!NotifiedOnce
           /\ NoDeletion => Crowd!CommentCountExact
<1>1. Crowd!LikeInv => Crowd!NotifiedOnce
  BY DEF Crowd!LikeInv, Crowd!NotifyStages, Crowd!NotifiedOnce
<1> QED
  BY <1>1 DEF CrowdInv, CommentInv

=============================================================================
