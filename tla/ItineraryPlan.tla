--------------------------- MODULE ItineraryPlan ---------------------------
(***************************************************************************)
(* The schedule, the legs and the totals of a user's live plan             *)
(* (src/src/modules/itineraries/itineraries.service.ts and                 *)
(* itineraries.repository.ts).                                             *)
(*                                                                         *)
(* Each edit recalculates the day it is about and, through                 *)
(* recalculateDayRouteAndSchedule, the days after it as far as the cascade *)
(* goes.  An action is one whole request.  Distances and travel times come *)
(* from the same matrix: only times are modelled.  One means of transport. *)
(*                                                                         *)
(* Nothing orders activities of equal orderIndex, so the recalculation may *)
(* visit them either way: it is modelled by the set of its results.        *)
(*                                                                         *)
(* An operator name_variant is the operator name with a slip that would be *)
(* easy to make in the code; a property is worth checking only if one of   *)
(* them breaks it.                                                         *)
(***************************************************************************)
EXTENDS Integers, SequencesExt

CONSTANTS
    Places,          \* coordinates of destinations, lodgings and custom locations
    Lodgings,        \* places that are restaurants or accommodations
    Departures,      \* places, or None, that clients let a plan or a day start from
    Travel,          \* Travel[p, q]: minutes from p to q, by the matrix service
    Costs,
    Budgets,         \* totalEstimatedBudget of new plans
    Templates,       \* published templates, see TemplateType
    StartTimes,      \* times of day that clients set
    Duration,        \* estimatedDurationMinutes of an activity
    DefaultStart,    \* 08:30
    Midnight,        \* minutes of a day: times wrap around
    MaxActivities,   \* bound: activities of a plan
    MaxDays,         \* bound: days of a plan
    None

Activities == 1 .. MaxActivities
Times == 0 .. Midnight - 1
MaybePlace == Places \union {None}

ASSUME PlacesAssumption ==
    /\ Lodgings \subseteq Places
    /\ None \notin Places
    /\ Departures \subseteq MaybePlace
ASSUME TravelAssumption == Travel \in [Places \X Places -> Nat]
ASSUME TimesAssumption ==
    /\ Midnight \in Nat \ {0}
    /\ StartTimes \subseteq Times
    /\ DefaultStart \in Times
    /\ Duration \in Nat
    /\ None \notin Times
ASSUME CostsAssumption == Costs \subseteq Nat /\ Budgets \subseteq Nat
ASSUME BoundsAssumption == MaxActivities \in Nat /\ MaxDays \in Nat

ItemType == [day : Nat, idx : Nat, place : MaybePlace, cost : Nat, leg : Nat,
             start : Times \union {None}]

\* The rows of a template, with the figures that administrators have given them; its
\* activities are numbered like those of a plan.
TemplateType ==
    [travel : Nat, budget : Nat, day : Seq([travel : Nat, cost : Nat]),
     item : [Activities -> ItemType]]

\* An activity of a template is on one of its days.
ASSUME TemplatesAssumption ==
    \A m \in Templates :
       /\ m \in TemplateType /\ Len(m.day) <= MaxDays
       /\ \A a \in Activities : m.item[a].day \in 0 .. Len(m.day)

VARIABLES
    plan,   \* the live row of table itineraries
    day,    \* its rows of itinerary_days; no day, no plan
    item,   \* its rows of itinerary_items, with place and arrival
    edited  \* only for the properties: the day that the last request edited, or 0

vars == <<plan, day, item, edited>>
Tables == [plan |-> plan, day |-> day, item |-> item]

\* own: only for the properties, whether the budget is a template's, and the costs have
\* not been summed since.
NoPlan == [from |-> None, travel |-> 0, budget |-> 0, own |-> FALSE]
NoItem == [day |-> 0, idx |-> 0, place |-> None, cost |-> 0, leg |-> 0,
           start |-> None]

TypeOK ==
    /\ plan \in [from : MaybePlace, travel : Nat, budget : Nat, own : BOOLEAN]
    /\ Len(day) <= MaxDays
    /\ \A d \in DOMAIN day :
          day[d] \in [start : StartTimes \union {None}, from : MaybePlace,
                      travel : Nat, cost : Nat]
    /\ item \in [Activities -> ItemType]
    /\ \A a \in Activities : item[a].day \in 0 .. Len(day)
    /\ edited \in 0 .. Len(day)

Init ==
    /\ plan = NoPlan
    /\ day = <<>>
    /\ item = [a \in Activities |-> NoItem]
    /\ edited = 0

-----------------------------------------------------------------------------
(* The recalculation of a day, on tables t.                                *)

DayItems(t, d) == {a \in Activities : t.item[a].day = d}
PlanItems(t) == {a \in Activities : t.item[a].day # 0}

SumLegs(t, S) == SumFunctionOnSet([a \in Activities |-> t.item[a].leg], S)
SumCosts(t, S) == SumFunctionOnSet([a \in Activities |-> t.item[a].cost], S)

\* The orders in which a query may return the activities of a day.
Orders(t, d) ==
    {s \in SetToSeqs(DayItems(t, d)) :
        \A i, j \in DOMAIN s : i < j => t.item[s[i]].idx <= t.item[s[j]].idx}

\* Where a query may find the last activity of the day before.
LastPlaces(t, d) ==
    IF d = 1 \/ DayItems(t, d - 1) = {} THEN {None}
    ELSE {t.item[s[Len(s)]].place : s \in Orders(t, d - 1)}

\* The place that a day starts from: its own, the end of the day before, or
\* the start of the plan.
Origins(t, d) ==
    IF t.day[d].from # None THEN {t.day[d].from}
    ELSE {IF p = None THEN t.plan.from ELSE p : p \in LastPlaces(t, d)}

Leg(p, q) == IF p = None \/ q = None THEN 0 ELSE Travel[p, q]

LegTo_fromNeighbour(t, s, i, origin) ==
    Leg(IF i = 1 THEN origin ELSE t.item[s[i - 1]].place, t.item[s[i]].place)

\* The leg to the i-th activity, from the last one before it that has a place.
LegTo(t, s, i, origin) ==
    LET before == {j \in 1 .. i - 1 : t.item[s[j]].place # None}
    IN  Leg(IF before = {} THEN origin ELSE t.item[s[Max(before)]].place, t.item[s[i]].place)

formatTime(minutes) == minutes % Midnight

FirstStart(t, d, s) ==
    IF t.day[d].start # None THEN t.day[d].start
    ELSE IF t.item[s[1]].start # None THEN t.item[s[1]].start
    ELSE DefaultStart

\* The activities of a day with their legs and times.
Scheduled(t, d, s, origin) ==
    LET clock[i \in 0 .. Len(s)] ==   \* when the i-th activity ends
            IF i = 0 THEN FirstStart(t, d, s)
            ELSE clock[i - 1] + LegTo(t, s, i, origin) + Duration
    IN  [i \in DOMAIN s |->
            [t.item[s[i]] EXCEPT !.leg = LegTo(t, s, i, origin),
                                 !.start = formatTime(clock[i] - Duration)]]

Reached_ownStartToo(t, d) ==
    {e \in d .. Len(t.day) : \A f \in d + 1 .. e : DayItems(t, f - 1) # {}}

\* The days the cascade visits: it ends before a day with a start of its own,
\* and after a day without activities.
Reached(t, d) ==
    {e \in d .. Len(t.day) :
        \A f \in d + 1 .. e : t.day[f].from = None /\ DayItems(t, f - 1) # {}}

\* The totals of the plan in tables u, after a recalculation of day d.
PlanTotals_dayBudget(u, d) ==
    [u.plan EXCEPT !.travel = SumLegs(u, PlanItems(u)), !.own = FALSE,
                   !.budget = Max({@, SumCosts(u, DayItems(u, d))})]

PlanTotals(u, d) ==
    [u.plan EXCEPT !.travel = SumLegs(u, PlanItems(u)), !.own = FALSE,
                   !.budget = Max({@, SumCosts(u, PlanItems(u))})]

\* The tables after a recalculation of d that visits days in these orders and
\* from these origins.  An empty day returns before the totals of the plan.
Recalculated(t, d, order, origin) ==
    LET R == Reached(t, d)
        new == [a \in Activities |->
                  IF t.item[a].day \in R
                  THEN LET e == t.item[a].day
                           i == CHOOSE i \in DOMAIN order[e] : order[e][i] = a
                       IN  Scheduled(t, e, order[e], origin[e])[i]
                  ELSE t.item[a]]
        u == [t EXCEPT !.item = new]
    IN  [u EXCEPT
          !.day = [e \in DOMAIN t.day |->
                     IF e \in R THEN [t.day[e] EXCEPT !.travel = SumLegs(u, DayItems(u, e)),
                                                      !.cost = SumCosts(u, DayItems(u, e))]
                                ELSE t.day[e]],
          !.plan = IF DayItems(t, d) = {} THEN @ ELSE PlanTotals(u, d)]

Recalculations(t, d) ==
    LET R == Reached(t, d)
    IN  {Recalculated(t, d, order, origin) :
            order \in {f \in [R -> UNION {Orders(t, e) : e \in R}] :
                          \A e \in R : f[e] \in Orders(t, e)},
            origin \in {f \in [R -> MaybePlace] : \A e \in R : f[e] \in Origins(t, e)}}

Save(t) == plan' = t.plan /\ day' = t.day /\ item' = t.item

\* A request about the plan, or an edit of day d.
NoDay == edited' = 0
Edits(d) == d \in DOMAIN day /\ edited' = d

\* An edit that is followed by the recalculation of day d.
SaveRecalculated(t, d) == \E u \in Recalculations(t, d) : Save(u)

-----------------------------------------------------------------------------
(* The plan as a whole.                                                    *)

Live == day # <<>>
NewDay(start, from) == [start |-> start, from |-> from, travel |-> 0, cost |-> 0]
NewItem(d, idx, place, cost, start) ==
    [NoItem EXCEPT !.day = d, !.idx = idx, !.place = place, !.cost = cost, !.start = start]

\* "for (const d of created.days)": the days are recalculated one after another,
\* so the cascade of an early day recalculates a later one more than once.
EachRecalculated(t) ==
    LET after[d \in 0 .. Len(t.day)] ==
            IF d = 0 THEN {t}
            ELSE IF DayItems(t, d) = {} THEN after[d - 1]
            ELSE UNION {Recalculations(u, d) : u \in after[d - 1]}
    IN  after[Len(t.day)]

\* A user who has a plan archives it with this, like with deleteItinerary first.
\* on[a] is the day of the a-th activity of the request.
createItinerary(n, from, on, place, cost, budget) ==
    /\ ~ Live
    /\ NoDay
    /\ \A a, b \in Activities : a < b /\ on[b] # 0 => on[a] # 0 /\ on[a] <= on[b]
    /\ LET rank(a) == Cardinality({b \in Activities : b < a /\ on[b] = on[a]})
           t == [plan |-> [NoPlan EXCEPT !.from = from, !.budget = budget],
                 day |-> [d \in 1 .. n |-> NewDay(None, None)],
                 item |-> [a \in Activities |->
                             IF on[a] = 0 THEN NoItem
                             ELSE NewItem(on[a], rank(a), place[a], cost, None)]]
       IN  \E u \in EachRecalculated(t) : Save(u)

\* Whatever figures the template has are taken as they are: nothing is recalculated.
\* The plan the user had is archived, like with createItinerary.
applyTemplate(template) ==
    /\ ~ Live
    /\ NoDay
    /\ plan' = [NoPlan EXCEPT !.travel = template.travel, !.budget = template.budget,
                               !.own = TRUE]
    /\ day' = [d \in DOMAIN template.day |->
                  [NewDay(None, None) EXCEPT !.travel = template.day[d].travel,
                                             !.cost = template.day[d].cost]]
    /\ item' = template.item

\* start is None when the request does not set it.  No request writes a budget:
\* updateMasterData drops the one that updateItinerary hands it.
WithStart(t, from, start) ==
    [t EXCEPT !.plan.from = from, !.day[1].start = IF start = None THEN @ ELSE start]

updateItinerary(from, start) ==
    /\ Live
    /\ NoDay
    /\ SaveRecalculated(WithStart(Tables, from, start), 1)

\* Finds the plan by its user instead of its id.
updateActiveTripStart(from, start) == updateItinerary(from, start)

\* The copy is not recalculated.  Neither its days' starts nor its references to
\* restaurants and accommodations are copied, but all the legs are.
duplicateItinerary ==
    /\ Live
    /\ NoDay
    /\ plan' = [plan EXCEPT !.travel = 0]
    /\ day' = [d \in DOMAIN day |-> NewDay(None, None)]
    /\ item' = [a \in Activities |->
                  IF item[a].place \in Lodgings THEN [item[a] EXCEPT !.place = None] ELSE item[a]]

\* Also deleteActiveTrip.
deleteItinerary ==
    /\ Live
    /\ NoDay
    /\ Save([plan |-> NoPlan, day |-> <<>>, item |-> [a \in Activities |-> NoItem]])

-----------------------------------------------------------------------------
(* Days.                                                                   *)

addDay(start, from) ==
    /\ Live
    /\ NoDay
    /\ Len(day) < MaxDays
    /\ day' = Append(day, NewDay(start, from))
    /\ UNCHANGED <<plan, item>>

updateDay(d, start, from) ==
    /\ Edits(d)
    /\ SaveRecalculated([Tables EXCEPT !.day[d].start = start, !.day[d].from = from], d)

\* The days after it are renumbered; nothing is recalculated.
deleteDay(d) ==
    /\ d \in DOMAIN day
    /\ IF Len(day) = 1 THEN deleteItinerary
       ELSE /\ NoDay
            /\ day' = RemoveAt(day, d)
            /\ item' = [a \in Activities |->
                          IF item[a].day = d THEN NoItem
                          ELSE IF item[a].day > d THEN [item[a] EXCEPT !.day = @ - 1]
                          ELSE item[a]]
            /\ UNCHANGED plan

-----------------------------------------------------------------------------
(* Activities.                                                             *)

NextIdx(d) ==
    IF DayItems(Tables, d) = {} THEN 0
    ELSE Max({item[a].idx : a \in DayItems(Tables, d)}) + 1

\* Clients may set orderIndex themselves.
addActivity(d, place, cost, start, ownIdx) ==
    /\ Edits(d)
    /\ PlanItems(Tables) # Activities
    /\ LET a == Min(Activities \ PlanItems(Tables))
           idx == IF ownIdx = None THEN NextIdx(d) ELSE ownIdx
       IN  SaveRecalculated([Tables EXCEPT !.item[a] = NewItem(d, idx, place, cost, start)], d)

updateActivity(d, a, place, cost, start) ==
    /\ Edits(d)
    /\ item[a].day = d
    /\ SaveRecalculated([Tables EXCEPT !.item[a].place = place, !.item[a].cost = cost,
                                       !.item[a].start = start], d)

deleteActivity(d, a) ==
    /\ Edits(d)
    /\ item[a].day = d
    /\ LET t == [Tables EXCEPT !.item[a] = NoItem]
       IN  \E s \in Orders(t, d) :
              SaveRecalculated([t EXCEPT !.item = [b \in Activities |->
                  IF t.item[b].day = d
                  THEN [t.item[b] EXCEPT !.idx = (CHOOSE i \in DOMAIN s : s[i] = b) - 1]
                  ELSE t.item[b]]], d)

\* Any of the day's activities, with any orderIndex.
reorderActivities(d, S, idx) ==
    /\ Edits(d)
    /\ S \subseteq DayItems(Tables, d)
    /\ SaveRecalculated([Tables EXCEPT !.item = [a \in Activities |->
           IF a \in S THEN [item[a] EXCEPT !.idx = idx[a]] ELSE item[a]]], d)

\* The results of optimizing day d: the activities that are destinations or
\* custom locations get the indices from 0 on, the first one stays first, and the
\* others keep the index they had.
OptimizedDay(t, d) ==
    LET Sights == {a \in DayItems(t, d) : t.item[a].place \notin Lodgings \union {None}}
        Visits == {v \in SetToSeqs(Sights) :
                      \A a \in Sights : t.item[v[1]].idx <= t.item[a].idx}
        Reordered(v) == [t EXCEPT !.item = [a \in Activities |->
            IF a \in Sights THEN [t.item[a] EXCEPT !.idx = (CHOOSE i \in DOMAIN v : v[i] = a) - 1]
                            ELSE t.item[a]]]
    IN  IF Cardinality(Sights) <= 1 THEN {t}
        ELSE UNION {Recalculations(Reordered(v), d) : v \in Visits}

optimizeRoute(D) ==
    /\ D # {} /\ D \subseteq DOMAIN day
    /\ NoDay
    /\ LET after[d \in 0 .. Len(day)] ==
               IF d = 0 THEN {Tables}
               ELSE IF d \in D THEN UNION {OptimizedDay(t, d) : t \in after[d - 1]}
               ELSE after[d - 1]
       IN  \E t \in after[Len(day)] : Save(t)

Create ==
    \E n \in 1 .. MaxDays :
       \E on \in [Activities -> 0 .. n], place \in [Activities -> MaybePlace],
          from \in Departures, cost \in Costs, budget \in Budgets :
             createItinerary(n, from, on, place, cost, budget)

EditDay(d) ==
    \/ \E start \in StartTimes \union {None}, from \in Departures : updateDay(d, start, from)
    \/ \E place \in MaybePlace, cost \in Costs, start \in StartTimes \union {None} :
          \/ \E ownIdx \in {None, 0} : addActivity(d, place, cost, start, ownIdx)
          \/ \E a \in Activities : updateActivity(d, a, place, cost, start)
    \/ \E a \in Activities : deleteActivity(d, a)
    \/ \E S \in SUBSET Activities : \E idx \in [S -> 0 .. 1] : reorderActivities(d, S, idx)

Next ==
    \/ Create
    \/ \E template \in Templates : applyTemplate(template)
    \/ \E from \in Departures, start \in StartTimes \union {None} :
          \/ updateItinerary(from, start) \/ updateActiveTripStart(from, start)
          \/ addDay(start, from)
    \/ duplicateItinerary
    \/ deleteItinerary
    \/ optimizeRoute(DOMAIN day)
    \/ \E d \in 1 .. MaxDays : deleteDay(d) \/ optimizeRoute({d}) \/ EditDay(d)

Spec == Init /\ [][Next]_vars

-----------------------------------------------------------------------------
(* Properties.                                                             *)

\* Where a traveller is who has done the first k activities of s: those without a place
\* are done where one is.
Whereabouts(t, s, origin, k) ==
    LET at[j \in 0 .. Len(s)] ==
            IF j = 0 THEN origin
            ELSE IF t.item[s[j]].place = None THEN at[j - 1] ELSE t.item[s[j]].place
    IN  at[k]

\* The figures of day e are those of some order and origin that its rows allow:
\* its legs, the times that follow from them, and its totals.
Consistent(t, e) ==
    /\ t.day[e].travel = SumLegs(t, DayItems(t, e))
    /\ t.day[e].cost = SumCosts(t, DayItems(t, e))
    /\ \E s \in Orders(t, e), origin \in Origins(t, e) :
          \A i \in DOMAIN s :
             LET x == t.item[s[i]]
             IN  /\ x.leg = Leg(Whereabouts(t, s, origin, i - 1), x.place)
                 /\ i = 1 /\ t.day[e].start # None =>
                       x.start = (t.day[e].start + x.leg) % Midnight
                 /\ i > 1 =>
                       x.start = (t.item[s[i - 1]].start + Duration + x.leg) % Midnight

\* Whether the last edit is to reach day e: it is the edited day, or a later one
\* that, like those between, goes on from the activities of the day before.
Downstream(e) ==
    \/ e = edited
    \/ /\ edited < e
       /\ \A f \in edited + 1 .. e :
             day[f].from = None /\ \E a \in Activities : item[a].day = f - 1

\* Whatever an earlier deletion or copy left stale, an edit of a day leaves that
\* day, and those after it up to the end of the cascade, with the legs, times and
\* totals that their rows call for; and the plan with the sum of all its legs.
Repaired ==
    edited # 0 =>
        /\ \A e \in DOMAIN day : Downstream(e) => Consistent(Tables, e)
        /\ DayItems(Tables, edited) # {} => plan.travel = SumLegs(Tables, PlanItems(Tables))

EditRepairs == [][Repaired']_vars

\* The budget of a plan is not below what its activities cost, whatever the requests that
\* add, copy, move and delete activities and days, but for a
\* template's until the costs are summed.
BudgetCovers ==
    Live /\ ~ plan.own => plan.budget >= SumCosts(Tables, PlanItems(Tables))

\* Times wrap around at midnight, so schedules stay times of a day however often a day
\* drifts; and the budget covers the costs.
PlanInv == TypeOK /\ BudgetCovers

\* An edit leaves the days before it alone, and those from the first day with a
\* start of its own, or after a day without activities, on.
CascadeStops ==
    [][edited' # 0 =>
          \A e \in DOMAIN day :
             \/ Downstream(e)'
             \/ /\ day'[e] = day[e]
                /\ \A a \in Activities :
                      item[a].day = e \/ item'[a].day = e => item'[a] = item[a]]_vars

=============================================================================
