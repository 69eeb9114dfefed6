--------------------------- MODULE Recommendations --------------------------
(***************************************************************************)
(* The recommended destinations                                            *)
(* (src/src/modules/recommendations, the rule-based engine): what the user *)
(* likes is read, then the candidates, which are scored rule by rule and   *)
(* sorted.                                                                 *)
(*                                                                         *)
(* A destination stands on a line, in kilometres.  Scores are in tenths of *)
(* a point, to which the code rounds them.  The number of reviews counts   *)
(* by its logarithm, which is what the model has.  The reasons that are    *)
(* shown with a destination are left out.                                  *)
(***************************************************************************)
EXTENDS Integers, Sorting, FiniteSetsExt

CONSTANTS
    Catalogues,     \* sequences of DestinationType
    Contexts,       \* see ContextType
    None,
    MaxCandidates,  \* destinations that are scored
    MaxReviews      \* reviews that are read

VARIABLES
    destination,
    context,
    favorites,     \* of the user
    praised,       \* what the user has given four stars or more
    pc,
    liked,         \* userFavoriteCategoryIds and userFavoriteTags
    answer

vars == <<destination, context, favorites, praised, pc, liked, answer>>

DestinationType ==
    [deleted : BOOLEAN, featured : BOOLEAN, rating : 0 .. 50, reviews : Nat,
     category : STRING, tags : SUBSET STRING, fee : Nat, easy : BOOLEAN, at : Int]
ContextType ==
    [user : BOOLEAN, style : STRING \union {None}, category : STRING \union {None},
     budget : STRING \union {None}, here : Int \union {None}, radius : Nat, limit : Nat \ {0}]

DestinationIds == DOMAIN destination
NobodyKnown == [categories |-> {}, tags |-> {}]

TypeOK ==
    /\ destination \in Seq(DestinationType)
    /\ context \in ContextType
    /\ favorites \subseteq DestinationIds /\ praised \subseteq DestinationIds
    /\ pc \in {"history", "score", "done"}
    /\ liked.categories \subseteq {destination[d].category : d \in DestinationIds}
    /\ liked.tags \subseteq UNION {destination[d].tags : d \in DestinationIds}
    /\ answer \in Seq(DestinationIds)

Init ==
    /\ destination \in Catalogues
    /\ context \in Contexts
    /\ favorites \in SUBSET DestinationIds
    /\ praised \in SUBSET DestinationIds
    /\ pc = "history"
    /\ liked = NobodyKnown
    /\ answer = <<>>

-----------------------------------------------------------------------------
\* The first step of getRecommendations, for a user who has signed in; of the reviews
\* whichever come first.
readHistory(read) ==
    /\ pc = "history"
    /\ read \subseteq praised
    /\ Cardinality(read) = Min({MaxReviews, Cardinality(praised)})
    /\ liked' = IF ~ context.user THEN NobodyKnown
                ELSE [categories |-> {destination[d].category : d \in favorites \union read},
                      tags |-> UNION {destination[d].tags : d \in favorites}]
    /\ pc' = "score"
    /\ UNCHANGED <<destination, context, favorites, praised, answer>>

\* ORDER BY isFeatured DESC, rating DESC, reviewCount DESC.
Before(d, e) ==
    LET p == destination[d]
        q == destination[e]
    IN  \/ p.featured /\ ~ q.featured
        \/ p.featured = q.featured /\ p.rating > q.rating
        \/ p.featured = q.featured /\ p.rating = q.rating /\ p.reviews > q.reviews
        \/ p.featured = q.featured /\ p.rating = q.rating /\ p.reviews = q.reviews /\ d < e

\* Drafts, too.
candidates ==
    LET found == {d \in DestinationIds : /\ ~ destination[d].deleted
                              /\ context.category \in {None, destination[d].category}}
    IN  Rows(Sorted(found, {p \in found \X found : Before(p[1], p[2])}), 0, MaxCandidates)

-----------------------------------------------------------------------------
(* The rules.                                                              *)

popularity(p) == 10 * p.rating + 60 * p.reviews + (IF p.featured THEN 150 ELSE 0)

affinity(p) ==
    (IF p.category \in liked.categories THEN 300 ELSE 0)
        + Min({100 * Cardinality(p.tags \intersect liked.tags), 250})

\* The categories that fit a style; only a family looks for what is easy to reach.
Styles ==
    [BEACH_RELAXATION  |-> {"beach", "gili", "snorkeling", "sunset"},
     NATURE_ADVENTURE  |-> {"waterfall", "mountain", "hill", "adventure"},
     CULTURE_HERITAGE  |-> {"culture", "village"},
     CULINARY_EXPLORER |-> {"culinary"},
     PHOTOGRAPHY_SPOTS |-> {"sunset", "hill", "waterfall"}]

styleMatch(p) ==
    IF context.style = None THEN 0
    ELSE IF context.style = "FAMILY_FRIENDLY" THEN (IF p.easy THEN 500 ELSE 0)
    ELSE IF p.category \in Styles[context.style] THEN 600 ELSE 0

\* All the candidates have the category that was asked for, by its slug.
categoryMatch == IF context.category = None THEN 0 ELSE 600

budgetMatch(p) ==
    CASE context.budget = "BUDGET" /\ p.fee <= 20000 -> 200
      [] context.budget = "MID_RANGE" /\ p.fee <= 100000 -> 150
      [] context.budget = "LUXURY" -> 150
      [] OTHER -> 0

distanceKm(p) == IF p.at < context.here THEN context.here - p.at ELSE p.at - context.here

\* The nearer the better, and a hundred points less beyond the radius.
proximity(p) ==
    IF context.here = None THEN 0
    ELSE IF distanceKm(p) > context.radius THEN - (1000 + 50 * (distanceKm(p) - context.radius))
    ELSE Max({0, 400 - 8 * distanceKm(p)})

score(d) ==
    LET p == destination[d]
    IN  popularity(p) + affinity(p) + styleMatch(p) + categoryMatch + budgetMatch(p) + proximity(p)

\* The places in the list of candidates by descending score, equal ones as they were read.
Higher(i, j) ==
    \/ score(candidates[i]) > score(candidates[j])
    \/ score(candidates[i]) = score(candidates[j]) /\ i < j
HighestFirst(places) == Sorted(places, {p \in places \X places : Higher(p[1], p[2])})

\* As many of them as asked for.
recommend ==
    /\ pc = "score"
    /\ LET sorted == HighestFirst(DOMAIN candidates)
       IN  answer' = Rows([i \in DOMAIN sorted |-> candidates[sorted[i]]], 0, context.limit)
    /\ pc' = "done"
    /\ UNCHANGED <<destination, context, favorites, praised, liked>>

Next == (\E read \in SUBSET praised : readHistory(read)) \/ recommend

Spec == Init /\ [][Next]_vars

-----------------------------------------------------------------------------
(* Properties.                                                             *)

Fits(p) ==
    IF context.style = "FAMILY_FRIENDLY" THEN p.easy
    ELSE context.style # None /\ p.category \in Styles[context.style]

\* p has a better rating than q and in nothing that the rules look at is it behind.
Better(p, q) ==
    /\ p.rating > q.rating
    /\ p.reviews >= q.reviews
    /\ q.featured => p.featured
    /\ q.category \in liked.categories => p.category \in liked.categories
    /\ Cardinality(p.tags \intersect liked.tags) >= Cardinality(q.tags \intersect liked.tags)
    /\ Fits(q) => Fits(p)
    /\ p.fee <= q.fee
    /\ context.here # None => distanceKm(p) <= distanceKm(q)

\* No two rules work against each other, and neither the number of candidates nor that of
\* the answer cuts off the wrong end: nothing is recommended unless everything that is
\* better comes before it.
BetterFirst ==
    pc = "done" =>
        \A i \in DOMAIN answer : \A d \in DestinationIds :
            /\ ~ destination[d].deleted
            /\ context.category \in {None, destination[d].category}
            /\ Better(destination[d], destination[answer[i]])
            => \E j \in 1 .. i - 1 : answer[j] = d

=============================================================================
