------------------------- MODULE DestinationSearch --------------------------
(***************************************************************************)
(* Finding destinations: the list, the search and what is nearby           *)
(* (src/src/modules/destinations, and the list of a category in            *)
(* src/src/modules/categories); and accommodations and restaurants         *)
(* (src/src/modules/accommodations, restaurants).                          *)
(*                                                                         *)
(* A list is one query; of destinations with a search term it is three:    *)
(* the ids of a page and their number, by SQL, and then the rows of those  *)
(* ids.                                                                    *)
(* Administrators edit meanwhile.  A client goes from page to page as long *)
(* as it is told that there is another.  How relevant a row is and what it *)
(* is sorted by are abstracted to a score; rows of equal score come in any *)
(* order, another one for each query, as no query has a last sort key that *)
(* tells all rows apart.  All the other filters are like the category,     *)
(* which stands for the type of an accommodation and the cuisine of a      *)
(* restaurant, too.                                                        *)
(***************************************************************************)
EXTENDS Sorting, Functions

CONSTANTS
    Places,      \* numbers: where they are on a line
    Score,       \* what each is sorted by: ratings, names, prices, dates, relevance
    Categories,
    AllCategories,         \* no category is asked for
    limit,       \* the page size
    MaxRead      \* how many destinations are read to look for what is nearby

VARIABLES
    table,       \* the table that the client looks at
    place,       \* its rows
    filter,      \* the category the client asks for
    term,        \* whether with a search term
    pc,          \* "page", or "hydrate" between the queries of a search, or "done"
    page,
    ids,         \* the page a search has found, and how many there are
    shown,
    quiet        \* no edit since the first page; only properties read it

vars == <<table, place, filter, term, pc, page, ids, shown, quiet>>

Tables == {"destinations", "accommodations", "restaurants"}
Statuses == {"PUBLISHED", "DRAFT"}
PlaceType == [status : Statuses, deleted : BOOLEAN, category : Categories, matches : BOOLEAN]
NoIds == [rows |-> <<>>, total |-> 0]

TypeOK ==
    /\ table \in Tables
    /\ place \in [Places -> PlaceType]
    /\ filter \in Categories \union {AllCategories}
    /\ term \in BOOLEAN
    /\ pc \in {"page", "hydrate", "done"}
    /\ page \in 1 .. Cardinality(Places) + 1
    /\ ids \in [rows : Seq(Places), total : 0 .. Cardinality(Places)]
    /\ shown \in Seq(Places)
    /\ quiet \in BOOLEAN

Init ==
    /\ table \in Tables
    /\ place \in [Places -> PlaceType]
    /\ filter \in Categories \union {AllCategories}
    /\ term \in BOOLEAN
    /\ pc = "page" /\ page = 1 /\ ids = NoIds /\ shown = <<>> /\ quiet = TRUE

-----------------------------------------------------------------------------
Filtered(p) == filter \in {AllCategories, p.category}

\* buildWhereClause: drafts too.
buildWhereClause == {d \in Places : ~ place[d].deleted /\ Filtered(place[d])}

whereConditions_withDeleted ==
    {d \in Places : /\ place[d].status = "PUBLISHED"
                    /\ Filtered(place[d])
                    /\ place[d].matches}

\* The conditions of the search, which wants a destination to be published.
whereConditions ==
    {d \in Places : /\ ~ place[d].deleted
                    /\ place[d].status = "PUBLISHED"
                    /\ Filtered(place[d])
                    /\ place[d].matches}

\* How a query happens to put rows of equal score.
TieBreaks == {f \in [Places -> Places] : IsInjective(f)}

\* The order of an answer.
Precedes(f, d, e) == Score[d] < Score[e] \/ (Score[d] = Score[e] /\ f[d] < f[e])
InOrder(found, f) == Sorted(found, {p \in found \X found : Precedes(f, p[1], p[2])})

skip(n) == (n - 1) * limit

\* The destinations a post can be tagged with: the first that match or, without words, the
\* first of all.
searchDestinations(words, f) ==
    LET found == {d \in Places : /\ ~ place[d].deleted
                                 /\ place[d].status = "PUBLISHED"
                                 /\ words => place[d].matches}
    IN  Rows(InOrder(found, f), 0, limit)

\* LIMIT and OFFSET.
Slice(found, f) == Rows(InOrder(found, f), skip(page), limit)

\* The client shows a page, and asks for the next if totalPages says that there is one.
Show(rows, total) ==
    /\ shown' = shown \o rows
    /\ IF page * limit < total
       THEN page' = page + 1 /\ pc' = "page"
       ELSE pc' = "done" /\ UNCHANGED page

\* getDestinations without a term, and getCategoryDestinations; the rows and their
\* number at the same time.
findMany ==
    /\ table = "destinations"
    /\ pc = "page" /\ ~ term
    /\ \E f \in TieBreaks : Show(Slice(buildWhereClause, f), Cardinality(buildWhereClause))
    /\ UNCHANGED <<table, place, filter, term, ids, quiet>>

\* With nothing on the page the number is zero, whatever there is on others.
search ==
    /\ table = "destinations"
    /\ pc = "page" /\ term
    /\ \E f \in TieBreaks :
          LET rows == Slice(whereConditions, f)
          IN  ids' = [rows |-> rows,
                      total |-> IF rows = <<>> THEN 0 ELSE Cardinality(whereConditions)]
    /\ pc' = "hydrate"
    /\ UNCHANGED <<table, place, filter, term, page, shown, quiet>>

\* The rows of the ids, in the order of the ids; they may have been edited since.
hydrate ==
    /\ pc = "hydrate"
    /\ Show(ids.rows, ids.total)
    /\ ids' = NoIds
    /\ UNCHANGED <<table, place, filter, term, quiet>>

\* The lists of the other two tables find what is published, with or without a term.
wherePublished ==
    {d \in Places : /\ ~ place[d].deleted
                    /\ place[d].status = "PUBLISHED"
                    /\ Filtered(place[d])
                    /\ term => place[d].matches}

ListPublished ==
    /\ pc = "page"
    /\ \E f \in TieBreaks : Show(Slice(wherePublished, f), Cardinality(wherePublished))
    /\ UNCHANGED <<table, place, filter, term, ids, quiet>>

getAccommodations == table = "accommodations" /\ ListPublished
getRestaurants == table = "restaurants" /\ ListPublished

\* Those on the start page of the application, if all of them are featured.
findFeatured(f) ==
    Rows(InOrder({d \in Places : ~ place[d].deleted /\ place[d].status = "PUBLISHED"}, f), 0, limit)

\* What a client can open by its slug.
findByIdOrSlug ==
    {d \in Places : ~ place[d].deleted /\ (table = "destinations" \/ place[d].status = "PUBLISHED")}

\* An administrator publishes, archives or restores one.
SetStatus(d, status, deleted) ==
    /\ place' = [place EXCEPT ![d].status = status, ![d].deleted = deleted]
    /\ quiet' = FALSE
    /\ UNCHANGED <<table, filter, term, pc, page, ids, shown>>

updateDestinationStatus(d, status, deleted) ==
    table = "destinations" /\ SetStatus(d, status, deleted)
updateAccommodationStatus(d, status, deleted) ==
    table = "accommodations" /\ SetStatus(d, status, deleted)
updateRestaurantStatus(d, status, deleted) ==
    table = "restaurants" /\ SetStatus(d, status, deleted)

-----------------------------------------------------------------------------
calculateDistanceKm(here, d) == IF here < d THEN d - here ELSE here - d

Nearer(here, d, e) ==
    \/ calculateDistanceKm(here, d) < calculateDistanceKm(here, e)
    \/ calculateDistanceKm(here, d) = calculateDistanceKm(here, e) /\ d < e

NearestFirst(here, found) == Sorted(found, {p \in found \X found : Nearer(here, p[1], p[2])})

InCircle(sample, here, radius) == {d \in sample : calculateDistanceKm(here, d) <= radius}

\* Of the destinations that were read, wherever they are: those in the circle, nearest
\* first, as many as asked for.
getNearbyDestinations(sample, here, radius) ==
    Rows(NearestFirst(here, InCircle(sample, here, radius)), 0, limit)

Next ==
    \/ findMany \/ search \/ hydrate \/ getAccommodations \/ getRestaurants
    \/ \E d \in Places, status \in Statuses, deleted \in BOOLEAN :
          \/ updateDestinationStatus(d, status, deleted)
          \/ updateAccommodationStatus(d, status, deleted)
          \/ updateRestaurantStatus(d, status, deleted)

Spec == Init /\ [][Next]_vars

-----------------------------------------------------------------------------
(* Properties.                                                             *)

\* Whoever searches finds only what the list shows with the same filters: the search,
\* which is written a second time in SQL, has none of them weaker.  What is offered for a
\* post is within the list, too, and with words within the search.
SearchWithinList ==
    /\ whereConditions \subseteq buildWhereClause
    /\ filter = AllCategories => \A f \in TieBreaks :
          /\ Range(searchDestinations(TRUE, f)) \subseteq whereConditions
          /\ Range(searchDestinations(FALSE, f)) \subseteq buildWhereClause

Wanted ==
    IF table # "destinations" THEN wherePublished
    ELSE IF term THEN whereConditions ELSE buildWhereClause

\* Those that come before a row in any case, and those that are its equals, with itself.
Ahead(d) == {e \in Wanted : Score[e] < Score[d]}
Equals(d) == {e \in Wanted : Score[e] = Score[d]}

\* A row is on one page with all its equals.
OnOnePage(d) ==
    \E n \in 1 .. page :
        /\ skip(n) <= Cardinality(Ahead(d))
        /\ Cardinality(Ahead(d)) + Cardinality(Equals(d)) <= skip(n) + limit

\* Going from page to page, with a term or without, if no row is edited meanwhile, a client
\* is shown as many as qualify, in the order asked for.  It sees each once whose equals are
\* all on one page; one of several on either side of the end of a page it may see twice, or
\* not at all.
EveryPage ==
    pc = "done" /\ quiet =>
        /\ Len(shown) = Cardinality(Wanted) /\ Range(shown) \subseteq Wanted
        /\ \A k, l \in DOMAIN shown : k < l => Score[shown[k]] <= Score[shown[l]]
        /\ \A d \in Wanted : OnOnePage(d) =>
              \E k \in DOMAIN shown : \A l \in DOMAIN shown : shown[l] = d <=> l = k

\* Whatever a client was shown and nobody has edited since it can open, whichever of the
\* queries showed it; and what is offered for a post or on the start page as well.
ShownOpens ==
    /\ quiet => Range(shown) \subseteq findByIdOrSlug
    /\ table = "destinations" =>
          \A words \in BOOLEAN, f \in TieBreaks :
              Range(searchDestinations(words, f)) \subseteq findByIdOrSlug
    /\ table # "destinations" =>
          \A f \in TieBreaks : Range(findFeatured(f)) \subseteq findByIdOrSlug

\* As long as there are no more destinations than are read, nothing that is nearer than
\* one that is shown is left out, and a short answer has everything in the circle.
NearestShown ==
    LET live == {d \in Places : ~ place[d].deleted}
    IN  Cardinality(live) <= MaxRead =>
            \A here \in Places, radius \in 0 .. Cardinality(Places) :
                LET answer == getNearbyDestinations(live, here, radius)
                IN  \A d \in InCircle(live, here, radius) \ Range(answer) :
                        /\ Len(answer) = limit
                        /\ \A e \in Range(answer) : Nearer(here, e, d)

=============================================================================
