------------------------------ MODULE MCContent -----------------------------
(***************************************************************************)
(* The instances of the parts around the trip that TLC checks for safety.  *)
(* They share no state: each behaviour is one part's, chosen at the        *)
(* beginning, and the variables of the others are Absent throughout.       *)
(***************************************************************************)
EXTENDS Integers, Sequences, FiniteSets, TLC

CONSTANTS
    Author, Admin, None, Absent,
    Users, MaxComments, Likers, CrowdComments, CrowdOps,   \* FeedInteractions
    Ratings,                \* Reviews
    Ids,                    \* of posts, reviews, gallery assets, categories
    Requests,               \* at the same time; edits of one header
    Assets, AssetOwner,     \* FeedPosts, Avatars
    Covers, Images,         \* MediaAssets
    Destinations, Readers, Administrators, FEATURED_TTL, CACHE_TTL, MaxTime,  \* Catalogue
    Numbers,                \* RowReplacement
    Targets, Kind,          \* Favorites
    Items, PageSizes,       \* FeedPaging
    Locations, Scores, MaxRead,     \* DestinationSearch
    PageSize,               \* of destinations and favorites
    PlanRequests, PlanCatalogues, LUNCH_COST,   \* PlanGenerator
    StopLists, Modes, MatrixAnswers, MaxTurns,  \* RouteOrder
    Sightseeing, Visits, MaxCandidates, MaxReviews,             \* Recommendations
    Tokens, Expenses, Journals, ExpenseTypes, Amounts, Dates, JournalPage   \* TravelRecords

VARIABLES
    part,
    post, asset, postRequest, bookmarks, report, excused,  \* FeedPosts
    likedPost, likes, comment, notified, tx,  \* FeedInteractions
    item, clock, list, client,  \* FeedPaging
    review, cached, reviewReq, settled,  \* Reviews
    favorite, target, favoriteReq, balance,  \* Favorites
    kind, row, image, cloud, mediaReq, unread, dropped,  \* MediaAssets
    destination, category, featuredCache, categoriesCache, reader, edit, deletion,
    now, leftAt, missed,  \* Catalogue
    request, catalogue, generatorPc, day, candidates, at, minutes, lunched,
    activities, generatedDays, visited, cost,  \* PlanGenerator
    stops, by, answer, matrix, fixedEnd, routePc, tour, iterations,  \* RouteOrder
    table, place, filter, term, searchPc, page, ids, shown, quiet,  \* DestinationSearch
    recommended, context, favorites, praised, recommendPc, liked, recommendation,
        \* Recommendations
    header, plan, titled, active, live, rows, txn,  \* RowReplacement
    account, avatar, stored, reqs, trouble,  \* Avatars
    topic, itinerary, links, clash, expense, journal, meant, inFlight  \* TravelRecords

ASSUME Assumptions ==
    /\ None \notin Ids \union Assets \union Covers \union Destinations
    /\ Destinations \intersect Ids = {} /\ IsFiniteSet(Destinations)
    /\ Covers \intersect Ids = {} /\ IsFiniteSet(Images)
    /\ {FEATURED_TTL, CACHE_TTL, MaxTime} \subseteq Nat
    /\ 0 \notin Requests /\ {MaxComments, CrowdComments} \subseteq Nat
    /\ Author \in Users

Symmetry == Permutations(Ids)
Three == 1 .. 3
InteractionOps ==
    {"likePost", "unlikePost", "createComment", "deleteComment", "deletePost",
     "adminDeleteComment", "adminUpdatePostStatus", "abort"}
ASSUME OpsAssumption == CrowdOps \subseteq InteractionOps

\* The second and the third are equal.
ScoreOf == [d \in Three |-> IF d = 1 THEN 1 ELSE 2]

Kinds == {"DESTINATION", "ACCOMMODATION", "RESTAURANT"}
KindOf == [k \in Kinds |-> k]
Uploaders == [a \in Three |-> IF a = 3 THEN Admin ELSE Author]

\* Three destinations by their score, here and there, with and without time for lunch.
PlanPlaces ==
    [region : {"LOMBOK_SELATAN", "GILI_ISLANDS"}, at : {0, 40}, duration : {60, 150},
     fee : {1}, score : {50}]
ThreePlaces == [1 .. 3 -> PlanPlaces]
AskedPlans ==
    [days : {2}, pace : {"RELAXED", "BALANCED", "INTENSE"}, by : {"CAR", "WALKING"},
     start : {510, 690}, end : {840, 1140}, travelers : {2}]

\* One, two and five stops on a line, of which Mapbox knows nothing; four for which it has
\* a table with gaps, where one way may be longer than the other; and six for which MaxTurns
\* are not enough.
DaysOnALine ==
    [1 .. 1 -> {0}] \union [1 .. 2 -> {0, 3}] \union [1 .. 5 -> {0, 100, 300, 400}]
        \union {<<0, 300, 100, 200>>, <<300, 500, 2000, 800, 0, 100>>}
FullTable(cells) ==
    {[i \in 1 .. 4 |-> [j \in 1 .. 4 |->
        IF i = j THEN [distance |-> 0, duration |-> 0]
                 ELSE d[i][IF j > i THEN j - 1 ELSE j]]] : d \in [1 .. 4 -> [1 .. 3 -> cells]]}
Gap == [distance |-> None, duration |-> None]
MapboxTables ==
    [k \in 1 .. 6 |-> {None} \union (IF k # 4 THEN {} ELSE
        FullTable({Gap, [distance |-> 1014, duration |-> 20]}))]

\* Two destinations, and in some cases a third that comes first among the candidates.
Sight(rating, dives, fee, km) ==
    [deleted |-> FALSE, featured |-> FALSE, rating |-> rating, reviews |-> 0,
     category |-> IF dives THEN "beach" ELSE "hill",
     tags |-> IF dives THEN {"diving"} ELSE {}, fee |-> fee, easy |-> dives, at |-> km]
Sights == {Sight(r, d, f, k) : r \in {40, 47}, d \in BOOLEAN, f \in {0, 150000}, k \in {0, 150}}
Featured == [Sight(20, TRUE, 0, 0) EXCEPT !.featured = TRUE]
SightLists ==
    [1 .. 2 -> Sights]
        \union {<<p, q, Featured>> : p, q \in {s \in Sights : s.at = 0 /\ s.fee = 0}}
Visit == [user |-> TRUE, style |-> None, category |-> None, budget |-> "BUDGET", here |-> None,
          radius |-> 100, limit |-> 1]
VisitCases ==
    {[Visit EXCEPT !.style = style, !.here = here, !.limit = limit] :
        style \in {None, "BEACH_RELAXATION"}, here \in {None, 0}, limit \in {1, 2}}
    \union {[Visit EXCEPT !.user = FALSE, !.style = "FAMILY_FRIENDLY"],
             [Visit EXCEPT !.category = "hill", !.budget = "MID_RANGE"]}

Posting == INSTANCE FeedPosts WITH Posts <- Ids, Editors <- {Author, Admin},
    request <- postRequest
Liking == INSTANCE FeedInteractions WITH Author <- Author, Slots <- {1},
    Ops <- InteractionOps, MaxNotified <- 2, post <- likedPost
\* The same, many transactions at a time; not all that may happen does (CrowdOps).
Crowd == INSTANCE FeedInteractions WITH Author <- Author, Slots <- Likers,
    Ops <- CrowdOps, MaxComments <- CrowdComments, MaxNotified <- 2,
    post <- likedPost
Paging == INSTANCE FeedPaging WITH Ids <- Items, Limits <- PageSizes, reader <- client
Reviewing == INSTANCE Reviews WITH ReviewIds <- Ids, Slots <- Requests,
    NoReview <- None, req <- reviewReq
Favoring == INSTANCE Favorites WITH Slots <- Requests, limit <- PageSize,
    req <- favoriteReq
Media == INSTANCE MediaAssets WITH CoverAssets <- Covers, GalleryAssets <- Ids,
    req <- mediaReq
Listing == INSTANCE Catalogue WITH Categories <- Ids, Editors <- Administrators,
    Nothing <- None
Generating == INSTANCE PlanGenerator WITH Requests <- PlanRequests,
    Catalogues <- PlanCatalogues, pc <- generatorPc, plan <- generatedDays
Ordering == INSTANCE RouteOrder WITH Days <- StopLists, Tables <- MatrixAnswers,
    NoMatrix <- None, Missing <- None, maxIterations <- MaxTurns,
    coordinates <- stops, mode <- by, pc <- routePc
Searching == INSTANCE DestinationSearch WITH Places <- Locations, Score <- Scores,
    Categories <- Ids, AllCategories <- None, limit <- PageSize, pc <- searchPc
Recommending == INSTANCE Recommendations WITH Catalogues <- Sightseeing,
    Contexts <- Visits, destination <- recommended, pc <- recommendPc,
    answer <- recommendation
Replacing == INSTANCE RowReplacement WITH NotStarted <- None, kind <- header
Avatar == INSTANCE Avatars WITH cloud <- stored
Records == INSTANCE TravelRecords WITH Owner <- Author, Friend <- None,
    Categories <- ExpenseTypes, limit <- JournalPage, Slots <- Requests

\* What the theorems about lists, plans and routes need of their instances: catalogues and
\* days are sequences, page sizes are not zero, a table says something of every way, and
\* there are finitely many rows and ratings to add up.
ASSUME ListAssumptions ==
    /\ MaxTime \in Nat \ {0}
    /\ Items \subseteq Nat /\ IsFiniteSet(Items) /\ PageSizes \subseteq Nat \ {0}
    /\ Locations \subseteq Nat /\ IsFiniteSet(Locations) /\ Scores \in [Locations -> Nat]
    /\ PageSize \in Nat \ {0}
    /\ None \notin Tokens \union Records!JournalRow /\ Targets # {}

ASSUME RatingAssumptions ==
    Ratings \subseteq Nat /\ Ratings # {} /\ IsFiniteSet(Ratings) /\ IsFiniteSet(Ids)

ASSUME RecordAssumptions ==
    /\ IsFiniteSet(Expenses) /\ IsFiniteSet(Journals)
    /\ Amounts \union Dates \subseteq Nat /\ JournalPage \in Nat \ {0}

ASSUME PlanAssumptions ==
    /\ PlanRequests \subseteq Generating!RequestType
    /\ PlanCatalogues \subseteq Seq(Generating!DestinationType) /\ LUNCH_COST \in Nat

ASSUME RouteAssumptions ==
    /\ StopLists \subseteq Seq(Int) \ {<<>>} /\ Modes \subseteq DOMAIN Ordering!Speed
    /\ MaxTurns \in Nat
    /\ \A stop \in StopLists : \A told \in MatrixAnswers[Len(stop)] :
          told = None \/ \A i, j \in DOMAIN stop :
             {told[i][j].distance, told[i][j].duration} \subseteq Nat \union {None}

ASSUME RecommendAssumptions ==
    /\ Sightseeing \subseteq Seq(Recommending!DestinationType)
    /\ \A sights \in Sightseeing : \A d \in DOMAIN sights : IsFiniteSet(sights[d].tags)
    /\ Visits \subseteq Recommending!ContextType
    /\ MaxCandidates \in Nat \ {0}

postsVars == <<post, asset, postRequest, bookmarks, report, excused>>
likesVars == <<likedPost, likes, comment, notified, tx>>
pagingVars == <<item, clock, list, client>>
reviewsVars == <<review, cached, reviewReq, settled>>
favoritesVars == <<favorite, target, favoriteReq, balance>>
mediaVars == <<kind, row, image, cloud, mediaReq, unread, dropped>>
catalogueVars == <<destination, category, featuredCache, categoriesCache, reader,
                   edit, deletion, now, leftAt, missed>>
generatorVars == <<request, catalogue, generatorPc, day, candidates, at, minutes,
                   lunched, activities, generatedDays, visited, cost>>
routeVars == <<stops, by, answer, matrix, fixedEnd, routePc, tour, iterations>>
searchVars == <<table, place, filter, term, searchPc, page, ids, shown, quiet>>
recommendVars ==
    <<recommended, context, favorites, praised, recommendPc, liked, recommendation>>
rowsVars == <<header, plan, titled, active, live, rows, txn>>
avatarsVars == <<account, avatar, stored, reqs, trouble>>
recordsVars == <<topic, itinerary, links, clash, expense, journal, meant, inFlight>>

\* Accommodations and restaurants are listed alike: one is filtered, the other is not.
TwinsShared ==
    /\ table = "accommodations" => filter # None
    /\ table = "restaurants" => filter = None

Parts == {"posts", "likes", "crowd", "paging", "reviews", "favorites", "media",
          "catalogue", "generator", "route", "search", "recommendations", "rows",
          "avatars", "records"}

Init ==
    /\ part \in Parts
    /\ IF part = "posts" THEN Posting!Init
       ELSE /\ post = Absent /\ asset = Absent /\ postRequest = Absent
            /\ bookmarks = Absent /\ report = Absent /\ excused = Absent
    /\ IF part = "likes" THEN Liking!Init ELSE
       IF part = "crowd" THEN Crowd!Init
       ELSE /\ likedPost = Absent /\ likes = Absent /\ comment = Absent
            /\ notified = Absent /\ tx = Absent
    /\ IF part = "paging" THEN Paging!Init
       ELSE /\ item = Absent /\ clock = Absent /\ list = Absent /\ client = Absent
    /\ IF part = "reviews" THEN Reviewing!Init
       ELSE /\ review = Absent /\ cached = Absent /\ reviewReq = Absent
            /\ settled = Absent
    /\ IF part = "favorites" THEN Favoring!Init
       ELSE /\ favorite = Absent /\ target = Absent /\ favoriteReq = Absent
            /\ balance = Absent
    /\ IF part = "media" THEN Media!Init
       ELSE /\ kind = Absent /\ row = Absent /\ image = Absent /\ cloud = Absent
            /\ mediaReq = Absent /\ unread = Absent /\ dropped = Absent
    /\ IF part = "catalogue" THEN Listing!Init
       ELSE /\ destination = Absent /\ category = Absent /\ featuredCache = Absent
            /\ categoriesCache = Absent /\ reader = Absent /\ edit = Absent
            /\ deletion = Absent
            /\ now = Absent /\ leftAt = Absent /\ missed = Absent
    /\ IF part = "generator" THEN Generating!Init
       ELSE /\ request = Absent /\ catalogue = Absent /\ generatorPc = Absent
            /\ day = Absent /\ candidates = Absent /\ at = Absent /\ minutes = Absent
            /\ lunched = Absent /\ activities = Absent /\ generatedDays = Absent
            /\ visited = Absent /\ cost = Absent
    /\ IF part = "route" THEN Ordering!Init
       ELSE /\ stops = Absent /\ by = Absent /\ answer = Absent /\ matrix = Absent
            /\ fixedEnd = Absent /\ routePc = Absent /\ tour = Absent
            /\ iterations = Absent
    /\ IF part = "search" THEN Searching!Init /\ TwinsShared
       ELSE /\ table = Absent /\ place = Absent /\ filter = Absent /\ term = Absent
            /\ searchPc = Absent /\ page = Absent /\ ids = Absent /\ shown = Absent
            /\ quiet = Absent
    /\ IF part = "recommendations" THEN Recommending!Init
       ELSE /\ recommended = Absent /\ context = Absent /\ favorites = Absent
            /\ praised = Absent /\ recommendPc = Absent /\ liked = Absent
            /\ recommendation = Absent
    /\ IF part = "rows" THEN Replacing!Init
       ELSE /\ header = Absent /\ plan = Absent /\ titled = Absent /\ active = Absent
            /\ live = Absent /\ rows = Absent /\ txn = Absent
    /\ IF part = "avatars" THEN Avatar!Init
       ELSE /\ account = Absent /\ avatar = Absent /\ stored = Absent
            /\ reqs = Absent /\ trouble = Absent
    /\ IF part = "records" THEN Records!Init
       ELSE /\ topic = Absent /\ itinerary = Absent /\ links = Absent /\ clash = Absent
            /\ expense = Absent /\ journal = Absent /\ meant = Absent
            /\ inFlight = Absent

Next ==
    \/ /\ part = "posts" /\ Posting!Next
       /\ UNCHANGED <<part, likesVars, pagingVars, reviewsVars, favoritesVars, mediaVars,
                       catalogueVars, generatorVars, routeVars, searchVars, recommendVars,
                       rowsVars, avatarsVars, recordsVars>>
    \/ /\ part = "likes" /\ Liking!Next
       /\ UNCHANGED <<part, postsVars, pagingVars, reviewsVars, favoritesVars, mediaVars,
                       catalogueVars, generatorVars, routeVars, searchVars, recommendVars,
                       rowsVars, avatarsVars, recordsVars>>
    \/ /\ part = "crowd" /\ Crowd!Next
       /\ UNCHANGED <<part, postsVars, pagingVars, reviewsVars, favoritesVars, mediaVars,
                       catalogueVars, generatorVars, routeVars, searchVars, recommendVars,
                       rowsVars, avatarsVars, recordsVars>>
    \/ /\ part = "paging" /\ Paging!Next
       /\ UNCHANGED <<part, postsVars, likesVars, reviewsVars, favoritesVars, mediaVars,
                       catalogueVars, generatorVars, routeVars, searchVars, recommendVars,
                       rowsVars, avatarsVars, recordsVars>>
    \/ /\ part = "reviews" /\ Reviewing!Next
       /\ UNCHANGED <<part, postsVars, likesVars, pagingVars, favoritesVars, mediaVars,
                       catalogueVars, generatorVars, routeVars, searchVars, recommendVars,
                       rowsVars, avatarsVars, recordsVars>>
    \/ /\ part = "favorites" /\ Favoring!Next
       /\ UNCHANGED <<part, postsVars, likesVars, pagingVars, reviewsVars, mediaVars,
                       catalogueVars, generatorVars, routeVars, searchVars, recommendVars,
                       rowsVars, avatarsVars, recordsVars>>
    \/ /\ part = "media" /\ Media!Next
       /\ UNCHANGED <<part, postsVars, likesVars, pagingVars, reviewsVars, favoritesVars,
                       catalogueVars, generatorVars, routeVars, searchVars, recommendVars,
                       rowsVars, avatarsVars, recordsVars>>
    \/ /\ part = "catalogue" /\ Listing!Next
       /\ UNCHANGED <<part, postsVars, likesVars, pagingVars, reviewsVars, favoritesVars,
                       mediaVars, generatorVars, routeVars, searchVars, recommendVars,
                       rowsVars, avatarsVars, recordsVars>>
    \/ /\ part = "generator" /\ Generating!Next
       /\ UNCHANGED <<part, postsVars, likesVars, pagingVars, reviewsVars, favoritesVars,
                       mediaVars, catalogueVars, routeVars, searchVars, recommendVars,
                       rowsVars, avatarsVars, recordsVars>>
    \/ /\ part = "route" /\ Ordering!Next
       /\ UNCHANGED <<part, postsVars, likesVars, pagingVars, reviewsVars, favoritesVars,
                       mediaVars, catalogueVars, generatorVars, searchVars, recommendVars,
                       rowsVars, avatarsVars, recordsVars>>
    \/ /\ part = "search" /\ Searching!Next
       /\ UNCHANGED <<part, postsVars, likesVars, pagingVars, reviewsVars, favoritesVars,
                       mediaVars, catalogueVars, generatorVars, routeVars, recommendVars,
                       rowsVars, avatarsVars, recordsVars>>
    \/ /\ part = "recommendations" /\ Recommending!Next
       /\ UNCHANGED <<part, postsVars, likesVars, pagingVars, reviewsVars, favoritesVars,
                       mediaVars, catalogueVars, generatorVars, routeVars, searchVars,
                       rowsVars, avatarsVars, recordsVars>>
    \/ /\ part = "rows" /\ Replacing!Next
       /\ UNCHANGED <<part, postsVars, likesVars, pagingVars, reviewsVars, favoritesVars,
                       mediaVars, catalogueVars, generatorVars, routeVars, searchVars,
                       recommendVars, avatarsVars, recordsVars>>
    \/ /\ part = "avatars" /\ Avatar!Next
       /\ UNCHANGED <<part, postsVars, likesVars, pagingVars, reviewsVars, favoritesVars,
                       mediaVars, catalogueVars, generatorVars, routeVars, searchVars,
                       recommendVars, rowsVars, recordsVars>>
    \/ /\ part = "records" /\ Records!Next
       /\ UNCHANGED <<part, postsVars, likesVars, pagingVars, reviewsVars, favoritesVars,
                       mediaVars, catalogueVars, generatorVars, routeVars, searchVars,
                       recommendVars, rowsVars, avatarsVars>>

vars == <<part, postsVars, likesVars, pagingVars, reviewsVars, favoritesVars, mediaVars,
          catalogueVars, generatorVars, routeVars, searchVars, recommendVars, rowsVars,
          avatarsVars, recordsVars>>

Spec == Init /\ [][Next]_vars

-----------------------------------------------------------------------------
(* Properties: those of the parts.                                         *)

\* Every variable of every part has its type.
TypeOK ==
    /\ part = "posts" => Posting!TypeOK
    /\ part = "likes" => Liking!TypeOK
    /\ part = "crowd" => Crowd!TypeOK
    /\ part = "paging" => Paging!TypeOK
    /\ part = "reviews" => Reviewing!TypeOK
    /\ part = "favorites" => Favoring!TypeOK
    /\ part = "media" => Media!TypeOK
    /\ part = "catalogue" => Listing!TypeOK
    /\ part = "generator" => Generating!TypeOK
    /\ part = "route" => Ordering!TypeOK
    /\ part = "search" => Searching!TypeOK
    /\ part = "recommendations" => Recommending!TypeOK
    /\ part = "rows" => Replacing!TypeOK
    /\ part = "avatars" => Avatar!TypeOK
    /\ part = "records" => Records!TypeOK

\* Whatever fails, and whoever edits, hides, closes or deletes what meanwhile: posts,
\* covers, galleries and the avatars of live accounts show images that are still at
\* Cloudinary (but for the failures the parts name), and a gallery has one primary image.
\* The URL of a cover does so but where it names an image its gallery does not have (any more).
ImagesExist ==
    /\ part = "posts" => Posting!ImagesExist
    /\ part = "media" => Media!ImagesExist /\ Media!OnePrimary
    /\ part = "avatars" => Avatar!AvatarExists

\* An image that was refused, replaced or whose row is gone does not stay at Cloudinary,
\* but for the failures the parts name, the images an edit of a whole row leaves out of its
\* gallery, and the gallery of an accommodation or restaurant deleted for good.
NothingLeft ==
    /\ part = "posts" => Posting!NoImageLeft
    /\ part = "media" => Media!NothingStays
    /\ part = "avatars" => Avatar!NoneLeft

\* What is cached about rows agrees with them: one transaction after another, likeCount
\* is the number of likes and no comment shown goes uncounted, whatever is aborted where;
\* and a review that is written alone makes the rating exact again, whatever went wrong
\* before.
AggregatesAgree ==
    /\ part = "likes" => Liking!LikeCountExact /\ Liking!CommentCountCovers
    /\ part = "reviews" => Reviewing!RatingRepaired

\* However many like a post and comment on it at a time, at whatever statement one of them
\* is rolled back and whenever the post is deleted: while nobody takes a like back,
\* likeCount is the number of likes, each of which is counted once and notified once; and
\* while no comment is deleted on its own, commentCount is the number of comments.
CountersExact ==
    part = "crowd" =>
        /\ "unlikePost" \notin CrowdOps => Crowd!LikeInv
        /\ {"deleteComment", "adminDeleteComment"} \intersect CrowdOps = {} =>
              Crowd!CommentCountExact

\* Going from page to page a client is shown nothing twice and misses nothing that was
\* there all along, by cursor, whatever is created and hidden meanwhile.  By number, while
\* nothing changes, so it is of what has no equals in the order on another page.
EveryItemOnce ==
    /\ part = "paging" => Paging!NothingTwice /\ Paging!NothingMissed
    /\ part = "search" => Searching!EveryPage

\* However toggles, additions, removals and edits overlap, what clients are told adds up:
\* of favorites, of the links of trips, and of what was set in journals and expenses.
AnswersAddUp ==
    /\ part = "favorites" => Favoring!AnswersAddUp
    /\ part = "records" => Records!LinksOpen /\ Records!NothingTakenBack

\* No answer from memory is older than the cache may keep it; and once the last edit that was
\* to empty the cache of featured destinations has done so, the list there shows every change.
CachesFresh == part = "catalogue" => Listing!BoundedStaleness /\ Listing!EditsShown

\* A category that is deleted has no destinations, not even deleted ones.
DeletedUnused == [][part = "catalogue" => Listing!UnusedWhenDeleted]_vars

\* A generated plan visits no destination twice and each of its days can be walked as
\* written; an optimized order has every stop once and the ends where they belong, and no
\* gap in Mapbox's table makes a way seem free.
PlanSound ==
    /\ part = "generator" => Generating!NoRepeats /\ Generating!Walkable
    /\ part = "route" => Ordering!EveryStopOnce /\ Ordering!NoWayForFree

\* The search finds only what the list shows with the same filters, whatever is shown can
\* be opened, and nothing nearer than what is shown as nearby, or better than what is
\* recommended, is left out.
SearchSound ==
    /\ part = "search" =>
          Searching!SearchWithinList /\ Searching!NearestShown /\ Searching!ShownOpens
    /\ part = "recommendations" => Recommending!BetterFirst

\* What is added up over a whole list agrees with it: the price of a plan, the summary of
\* expenses, the pages of journals and of favorites.
SumsAgree ==
    /\ part = "generator" => Generating!CostAddsUp
    /\ part = "favorites" => Favoring!ListedOnce
    /\ part = "records" => Records!SummaryAddsUp /\ Records!PagesAddUp

\* The local optimizer stops when it has tried as often as it may, or when no part of the
\* tour saves more than ten metres the other way round.
ToursSettled == part = "route" => Ordering!NothingToTurn

\* The rows a request has written below a header are all there or none is, and they are
\* of one request where the header or a unique number serializes the edits.
RowsWhole == part = "rows" => Replacing!Entire /\ Replacing!OneRequest

=============================================================================
