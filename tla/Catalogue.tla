------------------------------ MODULE Catalogue -----------------------------
(***************************************************************************)
(* Destinations and their categories: what administrators change           *)
(* (src/src/modules/admin/destinations, admin/categories) and what the     *)
(* public lists show from memory (src/src/modules/destinations,            *)
(* categories).                                                            *)
(*                                                                         *)
(* Two lists are cached in the process, the featured destinations and the  *)
(* categories.  A reader that misses asks the database and then fills the  *)
(* cache.  An edit commits, and once the administrator's request goes on   *)
(* it empties the caches it knows of; three edits read their row again in  *)
(* between, and where that fails the caches are left as they are.  The     *)
(* deletion of a category is several statements.                           *)
(*                                                                         *)
(* Left out: everything of a row but its category, whether it is featured  *)
(* and whether it is deleted (statuses do not matter to the public         *)
(* queries), covers and galleries (see MediaAssets), locales, the limit of *)
(* the list of featured destinations (it shows all there are), and the     *)
(* number of destinations a category is listed with.                       *)
(***************************************************************************)
EXTENDS Naturals, FiniteSets

CONSTANTS
    Destinations,
    Categories,
    Readers,
    Editors,          \* requests of administrators that may be in progress together
    FEATURED_TTL,
    CACHE_TTL,
    MaxTime,       \* bound on the clock
    Nothing

VARIABLES
    destination,      \* table destinations
    category,         \* table categories: the rows there are
    featuredCache,
    categoriesCache,
    reader,           \* list requests that missed their cache
    edit,             \* what requests of administrators have left to do after their commit
    deletion,         \* the deletion of a category in progress
    now,
    leftAt,           \* when a destination or category was last listed; only properties read it
    missed            \* an edit failed to empty the cache of featured destinations, or a reader
                      \* had an older answer in hand when it did; only properties read it

vars == <<destination, category, featuredCache, categoriesCache, reader, edit, deletion, now,
          leftAt, missed>>

Entities == Destinations \union Categories
Gone == [category |-> Nothing, featured |-> FALSE, deleted |-> FALSE]
NoEntry == [data |-> {}, expiresAt |-> 0]
NotReading == [pc |-> "idle", list |-> "featured", since |-> 0, data |-> {}]
NoEdit == [pc |-> "idle", clears |-> {}]
NoDeletion == [pc |-> "idle", c |-> Nothing, target |-> Nothing, force |-> FALSE, quiet |-> TRUE]

Entry(S) == [data : SUBSET S, expiresAt : 0 .. MaxTime + CACHE_TTL + FEATURED_TTL]

TypeOK ==
    /\ destination \in [Destinations -> [category : Categories, featured : BOOLEAN,
                                         deleted : BOOLEAN] \union {Gone}]
    /\ category \subseteq Categories
    /\ \A d \in Destinations : destination[d] # Gone => destination[d].category \in category
    /\ featuredCache \in Entry(Destinations)
    /\ categoriesCache \in Entry(Categories)
    /\ reader \in [Readers -> [pc : {"idle", "query", "fill"}, list : {"featured", "categories"},
                               since : 0 .. now, data : SUBSET Entities]]
    /\ edit \in [Editors -> [pc : {"idle", "refetch", "clear"},
                             clears : SUBSET {"featured", "categories"}]]
    /\ deletion \in [pc : {"idle", "reassign", "delete", "clear"}, c : Categories \union {Nothing},
                     target : Categories \union {Nothing}, force : BOOLEAN, quiet : BOOLEAN]
    /\ now \in 0 .. MaxTime
    /\ leftAt \in [Entities -> 0 .. MaxTime]
    /\ missed \in BOOLEAN

Init ==
    /\ destination = [d \in Destinations |-> Gone]
    /\ category = {}
    /\ featuredCache = NoEntry
    /\ categoriesCache = NoEntry
    /\ reader = [r \in Readers |-> NotReading]
    /\ edit = [e \in Editors |-> NoEdit]
    /\ deletion = NoDeletion
    /\ now = 0
    /\ leftAt = [e \in Entities |-> 0]
    /\ missed = FALSE

-----------------------------------------------------------------------------
(* What the public queries return.  Neither looks at the status, the second *)
(* not even at whether a category is deleted: only its row matters.         *)

findFeatured ==
    {d \in Destinations : /\ destination[d] # Gone
                          /\ destination[d].featured /\ ~ destination[d].deleted}

findAll == category

There == findFeatured \union category

Valid(entry) == entry.expiresAt > now

\* A list request that finds nothing in the cache, or nothing that is still valid.  It
\* has looked at the clock by then.
getFeaturedDestinations(r) ==
    /\ reader[r].pc = "idle" /\ ~ Valid(featuredCache)
    /\ reader' = [reader EXCEPT ![r] = [pc |-> "query", list |-> "featured", since |-> now,
                                        data |-> {}]]
    /\ UNCHANGED <<destination, category, featuredCache, categoriesCache, edit, deletion, now,
                   leftAt, missed>>

getCategories(r) ==
    /\ reader[r].pc = "idle" /\ ~ Valid(categoriesCache)
    /\ reader' = [reader EXCEPT ![r] = [pc |-> "query", list |-> "categories", since |-> now,
                                        data |-> {}]]
    /\ UNCHANGED <<destination, category, featuredCache, categoriesCache, edit, deletion, now,
                   leftAt, missed>>

Query(r) ==
    /\ reader[r].pc = "query"
    /\ reader' = [reader EXCEPT ![r].pc = "fill",
                                ![r].data = IF reader[r].list = "featured" THEN findFeatured
                                                                           ELSE findAll]
    /\ UNCHANGED <<destination, category, featuredCache, categoriesCache, edit, deletion, now,
                   leftAt, missed>>

\* Whatever was read, however long ago, counted from before it was read.
Fill(r) ==
    /\ reader[r].pc = "fill"
    /\ IF reader[r].list = "featured"
       THEN /\ featuredCache' = [data |-> reader[r].data,
                                 expiresAt |-> reader[r].since + FEATURED_TTL]
            /\ UNCHANGED categoriesCache
       ELSE /\ categoriesCache' = [data |-> reader[r].data,
                                   expiresAt |-> reader[r].since + CACHE_TTL]
            /\ UNCHANGED featuredCache
    /\ reader' = [reader EXCEPT ![r] = NotReading]
    /\ UNCHANGED <<destination, category, edit, deletion, now, leftAt, missed>>

-----------------------------------------------------------------------------
(* Administrators.  Between the commit of an edit and the emptying of the  *)
(* caches it knows of, others run.                                         *)

\* What the commit of request e leaves it to do; where pc is "refetch", its row is read
\* before the caches are emptied.
Commit(e, pc, clears) ==
    /\ edit[e].pc = "idle"
    /\ edit' = [edit EXCEPT ![e] = [pc |-> pc, clears |-> clears]]
    /\ leftAt' = [x \in Entities |-> IF x \in There' THEN 0
                                     ELSE IF x \in There THEN now ELSE leftAt[x]]
    /\ UNCHANGED <<featuredCache, categoriesCache, reader, now, missed>>

\* Changes of destinations empty their own cache only.
EditDestinations(e, pc, table) ==
    /\ destination' = table
    /\ deletion' = [deletion EXCEPT !.quiet = deletion.pc = "idle"]
    /\ UNCHANGED category
    /\ Commit(e, pc, {"featured"})

exists(d) == destination[d] # Gone

\* The category need only exist.
createDestination(e, d, c, featured) ==
    /\ ~ exists(d) /\ c \in category
    /\ EditDestinations(e, "clear", [destination EXCEPT
          ![d] = [category |-> c, featured |-> featured, deleted |-> FALSE]])

\* An update does not touch deletedAt, whatever status it sets.
updateDestination(e, d, c, featured) ==
    /\ exists(d) /\ c \in category
    /\ EditDestinations(e, "refetch", [destination EXCEPT
          ![d] = [@ EXCEPT !.category = c, !.featured = featured]])

updateDestinationStatus(e, d, archived) ==
    /\ exists(d)
    /\ EditDestinations(e, "clear", [destination EXCEPT ![d].deleted = archived])

deleteDestination(e, d, hard) ==
    /\ exists(d)
    /\ EditDestinations(e, "clear", [destination EXCEPT
          ![d] = IF hard THEN Gone ELSE [@ EXCEPT !.deleted = TRUE]])

\* All or none: every id must exist.
bulkUpdateDestinationStatus(e, D, archived) ==
    /\ \A d \in D : exists(d)
    /\ EditDestinations(e, "clear", [d \in Destinations |->
          IF d \in D THEN [destination[d] EXCEPT !.deleted = archived] ELSE destination[d]])

bulkDeleteDestinations_stale(e, D, hard) ==
    /\ \A d \in D : exists(d)
    /\ destination' = [d \in Destinations |->
          IF d \notin D THEN destination[d]
          ELSE IF hard THEN Gone ELSE [destination[d] EXCEPT !.deleted = TRUE]]
    /\ deletion' = [deletion EXCEPT !.quiet = deletion.pc = "idle"]
    /\ UNCHANGED category
    /\ Commit(e, "clear", {})

bulkDeleteDestinations(e, D, hard) ==
    /\ \A d \in D : exists(d)
    /\ EditDestinations(e, "clear", [d \in Destinations |->
          IF d \notin D THEN destination[d]
          ELSE IF hard THEN Gone ELSE [destination[d] EXCEPT !.deleted = TRUE]])

EditCategories(e, pc, table, clears) ==
    /\ category' = table
    /\ UNCHANGED <<destination, deletion>>
    /\ Commit(e, pc, clears)

createCategory(e, c) ==
    /\ c \notin category
    /\ EditCategories(e, "refetch", category \union {c}, {"categories"})

\* Names, texts and the cover.
updateCategory(e, c) ==
    /\ c \in category
    /\ EditCategories(e, "refetch", category, {"categories", "featured"})

\* Its deletedAt is looked at by nothing else here.
updateCategoryStatus(e, c) ==
    /\ c \in category
    /\ EditCategories(e, "clear", category, {"categories", "featured"})

\* The caches are emptied, whatever a reader is about to fill them with.
EmptyCaches(lists) ==
    /\ featuredCache' = IF "featured" \in lists THEN NoEntry ELSE featuredCache
    /\ categoriesCache' = IF "categories" \in lists THEN NoEntry ELSE categoriesCache
    /\ missed' = IF "featured" \in lists
                 THEN \E r \in Readers : /\ reader[r].pc = "fill" /\ reader[r].list = "featured"
                                         /\ reader[r].data # findFeatured
                 ELSE missed

\* The row has been read again, where it is.
clearCache(e) ==
    /\ edit[e].pc # "idle"
    /\ EmptyCaches(edit[e].clears)
    /\ edit' = [edit EXCEPT ![e] = NoEdit]
    /\ UNCHANGED <<destination, category, reader, deletion, now, leftAt>>

\* It cannot be read: the request fails, and what it committed stays.
FailRefetch(e) ==
    /\ edit[e].pc = "refetch"
    /\ edit' = [edit EXCEPT ![e] = NoEdit]
    /\ missed' = (missed \/ "featured" \in edit[e].clears)
    /\ UNCHANGED <<destination, category, featuredCache, categoriesCache, reader, deletion, now,
                   leftAt>>

countDestinations(c) == Cardinality({d \in Destinations : destination[d].category = c})

\* Refused if the category has destinations, deleted ones too, and no other category
\* is named for them.  "Other" compares ids: the category itself passes by its slug.
deleteCategory(c, target, bySlug, force) ==
    /\ deletion.pc = "idle"
    /\ c \in category
    /\ countDestinations(c) > 0 =>
          /\ target # Nothing
          /\ target # c \/ bySlug
          /\ target \in category
    /\ deletion' = [pc |-> IF countDestinations(c) > 0 THEN "reassign" ELSE "delete",
                    c |-> c, target |-> IF countDestinations(c) > 0 THEN target ELSE Nothing,
                    force |-> force, quiet |-> TRUE]
    /\ UNCHANGED <<destination, category, featuredCache, categoriesCache, reader, edit, now,
                   leftAt, missed>>

reassignDestinations_live ==
    /\ deletion.pc = "reassign"
    /\ deletion.target \in category
    /\ destination' = [d \in Destinations |->
          IF destination[d].category = deletion.c /\ ~ destination[d].deleted
          THEN [destination[d] EXCEPT !.category = deletion.target] ELSE destination[d]]
    /\ deletion' = [deletion EXCEPT !.pc = "delete"]
    /\ UNCHANGED <<category, featuredCache, categoriesCache, reader, edit, now, leftAt, missed>>

reassignDestinations ==
    /\ deletion.pc = "reassign"
    /\ deletion.target \in category
    /\ destination' = [d \in Destinations |->
          IF destination[d].category = deletion.c
          THEN [destination[d] EXCEPT !.category = deletion.target] ELSE destination[d]]
    /\ deletion' = [deletion EXCEPT !.pc = "delete"]
    /\ UNCHANGED <<category, featuredCache, categoriesCache, reader, edit, now, leftAt, missed>>

\* The foreign key stops the removal of a category that is in use.
Delete ==
    /\ deletion.pc = "delete"
    /\ deletion.c \in category
    /\ deletion.force => countDestinations(deletion.c) = 0
    /\ category' = IF deletion.force THEN category \ {deletion.c} ELSE category
    /\ leftAt' = IF deletion.force THEN [leftAt EXCEPT ![deletion.c] = now] ELSE leftAt
    /\ deletion' = [NoDeletion EXCEPT !.pc = "clear"]
    /\ UNCHANGED <<destination, featuredCache, categoriesCache, reader, edit, now, missed>>

ClearDeleted ==
    /\ deletion.pc = "clear"
    /\ EmptyCaches({"categories", "featured"})
    /\ deletion' = NoDeletion
    /\ UNCHANGED <<destination, category, reader, edit, now, leftAt>>

\* A statement of the deletion fails; what it did stays, and no cache is emptied.
FailDeletion ==
    /\ deletion.pc \in {"reassign", "delete"}
    /\ deletion' = NoDeletion
    /\ UNCHANGED <<destination, category, featuredCache, categoriesCache, reader, edit, now,
                   leftAt, missed>>

Tick ==
    /\ now < MaxTime
    /\ now' = now + 1
    /\ UNCHANGED <<destination, category, featuredCache, categoriesCache, reader, edit, deletion,
                   leftAt, missed>>

Next ==
    \/ \E r \in Readers :
          getFeaturedDestinations(r) \/ getCategories(r) \/ Query(r) \/ Fill(r)
    \/ \E e \in Editors :
          \/ \E d \in Destinations :
                \/ \E c \in Categories, b \in BOOLEAN :
                      createDestination(e, d, c, b) \/ updateDestination(e, d, c, b)
                \/ \E b \in BOOLEAN :
                      updateDestinationStatus(e, d, b) \/ deleteDestination(e, d, b)
          \/ \E D \in SUBSET Destinations, b \in BOOLEAN :
                bulkUpdateDestinationStatus(e, D, b) \/ bulkDeleteDestinations(e, D, b)
          \/ \E c \in Categories :
                createCategory(e, c) \/ updateCategory(e, c) \/ updateCategoryStatus(e, c)
          \/ clearCache(e) \/ FailRefetch(e)
    \/ \E c \in Categories, target \in Categories \union {Nothing}, bySlug, force \in BOOLEAN :
          deleteCategory(c, target, bySlug, force)
    \/ reassignDestinations \/ Delete \/ ClearDeleted \/ FailDeletion
    \/ Tick

Spec == Init /\ [][Next]_vars

-----------------------------------------------------------------------------
(* Properties.                                                             *)

\* However readers and edits overlap, no answer from memory shows a destination or a
\* category that has not been there for as long as the cache may keep it.
BoundedStaleness ==
    /\ \A d \in featuredCache.data :
          Valid(featuredCache) => d \in findFeatured \/ now < leftAt[d] + FEATURED_TTL
    /\ \A c \in categoriesCache.data :
          Valid(categoriesCache) => c \in category \/ now < leftAt[c] + CACHE_TTL

\* No request has yet to empty the cache of featured destinations, and the last that did
\* is the last that was to: none failed since, and no reader had an older answer then.
Settled ==
    /\ ~ missed
    /\ \A e \in Editors : edit[e].pc # "idle" => "featured" \notin edit[e].clears
    /\ deletion.pc # "clear"

\* Then whoever asks for the featured destinations finds every change that was made,
\* however the edits, their failures and the readers overlapped before.
EditsShown ==
    Settled /\ Valid(featuredCache) => featuredCache.data = findFeatured

\* When deleteCategory is done, nothing changed meanwhile and it was not told to move
\* the destinations to the category itself, none is in the category, not even a
\* deleted one that may be restored.
UnusedWhenDeleted ==
    Delete /\ deletion.quiet /\ deletion.target # deletion.c
        => \A d \in Destinations : destination'[d].category # deletion.c

=============================================================================
