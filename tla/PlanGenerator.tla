---------------------------- MODULE PlanGenerator ---------------------------
(***************************************************************************)
(* The automatic itinerary of generateItinerary                            *)
(* (src/src/modules/itineraries/itinerary-generator.service.ts): a loop    *)
(* over the days, and in each day a loop that takes the nearest good       *)
(* destination until time or pace ends it.  One step is one turn.          *)
(*                                                                         *)
(* A destination stands on a line, in kilometres from the start; times are *)
(* minutes after midnight, and the clock that is shown starts over at      *)
(* midnight.  The score of a destination is an input, and so is the order  *)
(* of the scores.  Texts, dates and the saving of the plan are left out.   *)
(***************************************************************************)
EXTENDS Integers, Sorting, FiniteSetsExt

CONSTANTS
    Requests,     \* of what is asked: see RequestType
    Catalogues,   \* of what there is: destinations by descending score
    LUNCH_COST

VARIABLES
    request,
    catalogue,
    pc,          \* "day" before a day, "visit" within, "done"
    day,         \* its number
    candidates,  \* dayCandidates, as positions in the catalogue
    at,          \* currentLat, currentLng
    minutes,     \* currentMinutes
    lunched,     \* lunchInserted
    activities,  \* of the day
    plan,        \* generatedDays
    visited,     \* visitedDestinationIds
    cost         \* totalItineraryCost

vars == <<request, catalogue, pc, day, candidates, at, minutes, lunched, activities, plan,
          visited, cost>>

Transportation == {"CAR", "MOTORCYCLE", "WALKING", "PUBLIC_BOAT"}
Pace == {"RELAXED", "BALANCED", "INTENSE"}
RequestType == [days : 1 .. 14, pace : Pace, by : Transportation, start : 0 .. 1439,
                end : 0 .. 1439, travelers : Nat \ {0}]

DestinationType == [region : STRING, at : Int, duration : Nat, fee : Nat, score : Int]

Lunch == 0
Activity == [dest : Nat, start : Nat, end : Nat, cost : Nat, distance : Nat]

TypeOK ==
    /\ request \in RequestType
    /\ pc \in {"day", "visit", "done"}
    /\ day \in 1 .. request.days + 1
    /\ Len(plan) = day - 1
    /\ Range(candidates) \subseteq DOMAIN catalogue
    /\ visited \subseteq DOMAIN catalogue
    /\ Range(activities) \subseteq Activity
    /\ at \in Int /\ minutes \in Nat /\ cost \in Nat /\ lunched \in BOOLEAN

Init ==
    /\ request \in Requests
    /\ catalogue \in Catalogues
    /\ pc = "day"
    /\ day = 1
    /\ candidates = <<>>
    /\ at = 0
    /\ minutes = 0
    /\ lunched = FALSE
    /\ activities = <<>>
    /\ plan = <<>>
    /\ visited = {}
    /\ cost = 0

-----------------------------------------------------------------------------
calculateDistanceKm(p, q) == IF p < q THEN q - p ELSE p - q

getAverageSpeedKmH(by) ==
    CASE by = "MOTORCYCLE" -> 40 [] by = "WALKING" -> 5 [] by = "PUBLIC_BOAT" -> 20 [] by = "CAR" -> 45

\* Rounded, with a buffer, and never less than ten minutes.
estimateTransitMinutes(km, by) ==
    LET speed == getAverageSpeedKmH(by)
        buffer == IF by = "WALKING" THEN 5 ELSE 15
        m == (120 * km + speed) \div (2 * speed) + buffer
    IN  IF m < 10 THEN 10 ELSE m

\* The clusters of regions the days take in turn.
regionClusters ==
    << {"LOMBOK_SELATAN", "LOMBOK_TENGAH"}, {"GILI_ISLANDS", "LOMBOK_BARAT"},
       {"LOMBOK_UTARA", "LOMBOK_TIMUR"}, {"LOMBOK_SELATAN", "LOMBOK_BARAT"} >>

maxActivitiesPerDay ==
    CASE request.pace = "RELAXED" -> 2 [] request.pace = "INTENSE" -> 4 [] request.pace = "BALANCED" -> 3

visitDuration(d) ==
    CASE request.pace = "RELAXED"  -> (12 * catalogue[d].duration + 5) \div 10
      [] request.pace = "INTENSE"  -> (85 * catalogue[d].duration + 50) \div 100
      [] request.pace = "BALANCED" -> catalogue[d].duration

\* What is left of the catalogue, best first; of the cluster of the day unless fewer
\* than two are left of it.
BestFirst(found) == Sorted(found, {p \in found \X found : p[1] < p[2]})
Near(found) == {d \in found : catalogue[d].region \in regionClusters[((day - 1) % 4) + 1]}

dayCandidates_revisits ==
    LET all == DOMAIN catalogue
    IN  BestFirst(IF Cardinality(Near(all)) < 2 THEN all ELSE Near(all))

dayCandidates ==
    LET left == DOMAIN catalogue \ visited
    IN  BestFirst(IF Cardinality(Near(left)) < 2 THEN left ELSE Near(left))

BeginDay ==
    /\ pc = "day" /\ day <= request.days
    /\ pc' = "visit"
    /\ candidates' = dayCandidates
    /\ at' = 0
    /\ minutes' = request.start
    /\ lunched' = FALSE
    /\ activities' = <<>>
    /\ UNCHANGED <<request, catalogue, day, plan, visited, cost>>

More == minutes < request.end /\ Len(activities) < maxActivitiesPerDay /\ candidates # <<>>

LunchTime == ~ lunched /\ minutes \in 720 .. 810

insertLunch ==
    /\ pc = "visit" /\ More /\ LunchTime
    /\ activities' = Append(activities, [dest |-> Lunch, start |-> minutes, end |-> minutes + 60,
                                         cost |-> LUNCH_COST * request.travelers, distance |-> 0])
    /\ minutes' = minutes + 60
    /\ cost' = cost + LUNCH_COST * request.travelers
    /\ lunched' = TRUE
    /\ UNCHANGED <<request, catalogue, pc, day, candidates, at, plan, visited>>

\* Ten times the score, less the way there.
proximityScore(d) ==
    LET km == calculateDistanceKm(at, catalogue[d].at)
    IN  10 * catalogue[d].score - 12 * km - 3 * estimateTransitMinutes(km, request.by)

\* The first of the best among the first ten.
bestCandidateIndex ==
    LET first == {i \in DOMAIN candidates : i <= 10}
        best == {i \in first : \A j \in first : proximityScore(candidates[j]) <= proximityScore(candidates[i])}
    IN  Min(best)

EndDay ==
    /\ plan' = Append(plan, activities')
    /\ day' = day + 1
    /\ pc' = "day"

\* A destination that cannot be reached before the day ends counts as visited all the
\* same, and ends the day.
visitNext ==
    /\ pc = "visit" /\ More /\ ~ LunchTime
    /\ LET d == candidates[bestCandidateIndex]
           km == calculateDistanceKm(at, catalogue[d].at)
           arrival == minutes + estimateTransitMinutes(km, request.by)
           fee == catalogue[d].fee * request.travelers
       IN  /\ candidates' = AllBut(candidates, bestCandidateIndex)
           /\ visited' = visited \union {d}
           /\ IF arrival >= request.end
              THEN /\ UNCHANGED <<activities, cost, at>>
                   /\ minutes' = arrival
                   /\ EndDay
              ELSE /\ activities' = Append(activities,
                          [dest |-> d, start |-> arrival, end |-> arrival + visitDuration(d),
                           cost |-> fee, distance |-> km])
                   /\ minutes' = arrival + visitDuration(d)
                   /\ cost' = cost + fee
                   /\ at' = catalogue[d].at
                   /\ UNCHANGED <<pc, day, plan>>
    /\ UNCHANGED <<request, catalogue, lunched>>

endDay ==
    /\ pc = "visit" /\ ~ More
    /\ UNCHANGED activities
    /\ EndDay
    /\ UNCHANGED <<request, catalogue, candidates, at, minutes, lunched, visited, cost>>

Finish ==
    /\ pc = "day" /\ day > request.days
    /\ pc' = "done"
    /\ UNCHANGED <<request, catalogue, day, candidates, at, minutes, lunched, activities, plan,
                   visited, cost>>

Next == BeginDay \/ insertLunch \/ visitNext \/ endDay \/ Finish

Spec == Init /\ [][Next]_vars

-----------------------------------------------------------------------------
(* Properties.                                                             *)

Days == IF pc = "visit" THEN Append(plan, activities) ELSE plan
Places(acts) == {i \in DOMAIN acts : acts[i].dest # Lunch}

\* Nobody is sent to the same destination twice, on whichever days.
NoRepeats ==
    \A m, n \in DOMAIN Days : \A i \in Places(Days[m]), j \in Places(Days[n]) :
        Days[m][i].dest = Days[n][j].dest => m = n /\ i = j

\* Every day can be walked as written: it begins no earlier than asked, each activity
\* after the one before and the way from there, each before the day should end.
Walkable ==
    \A n \in DOMAIN Days : \A i \in DOMAIN Days[n] :
        LET act == Days[n][i]
            free == IF i = 1 THEN request.start ELSE Days[n][i - 1].end
            way == IF act.dest = Lunch THEN 0 ELSE estimateTransitMinutes(act.distance, request.by)
        IN  free + way <= act.start /\ act.start < request.end

\* The price of the plan is the sum of what its activities cost.
priceOf(acts) == FoldFunction(LAMBDA act, sum : sum + act.cost, 0, acts)
CostAddsUp == cost = FoldFunction(LAMBDA acts, sum : sum + priceOf(acts), 0, Days)

=============================================================================
