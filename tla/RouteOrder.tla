----------------------------- MODULE RouteOrder -----------------------------
(***************************************************************************)
(* The order in which the stops of a day are visited                       *)
(* (src/src/modules/itineraries/services/mapbox-optimization.service.ts):  *)
(* Mapbox is asked; if it is not there or its answer is no good, a nearest *)
(* neighbour tour is improved by turning parts of it round.                *)
(*                                                                         *)
(* The first stop stays the first; the last may be fixed too.  Distances   *)
(* are those of TravelMatrix, in units of ten metres, where the way back   *)
(* need not be as long.  Totals are left out: the one caller uses the      *)
(* order alone.                                                            *)
(***************************************************************************)
EXTENDS TravelMatrix, FiniteSets

CONSTANTS
    Days,           \* of what is asked: sequences of coordinates
    Modes,
    Tables,         \* of what Mapbox says of k stops: Tables[k], with NoMatrix
    maxIterations

VARIABLES
    coordinates,
    mode,
    answer,      \* of the Matrix API
    matrix,
    fixedEnd,    \* whether the last stop stays the last
    pc,
    tour,
    iterations

vars == <<coordinates, mode, answer, matrix, fixedEnd, pc, tour, iterations>>

Stops == DOMAIN coordinates
n == Len(coordinates)
Added(distances) == FoldFunction(+, 0, distances)
Length(route) == Added([i \in 1 .. Len(route) - 1 |-> matrix[route[i]][route[i + 1]].distance])

TypeOK ==
    /\ matrix = <<>> \/ matrix \in [Stops -> [Stops -> [distance : Nat, duration : Nat]]]
    /\ fixedEnd \in BOOLEAN
    /\ pc \in {"matrix", "ask", "answered", "greedy", "improve", "done"}
    /\ tour \in Seq(Stops)
    /\ iterations \in 0 .. maxIterations

Init ==
    /\ coordinates \in Days
    /\ mode \in Modes
    /\ answer \in Tables[n]
    /\ matrix = <<>>
    /\ fixedEnd \in BOOLEAN
    /\ pc = "matrix"
    /\ tour = <<1>>
    /\ iterations = 0

-----------------------------------------------------------------------------
asked == <<coordinates, mode, answer, fixedEnd>>

\* The first step of optimizeRoute; a single stop needs none.
computeMatrix ==
    /\ pc = "matrix"
    /\ IF n = 1 THEN pc' = "done" /\ UNCHANGED matrix
                ELSE pc' = "ask" /\ matrix' = calculateMatrix(coordinates, mode, answer)
    /\ UNCHANGED <<asked, tour, iterations>>

\* The second with an answer of Mapbox: the stops sorted by their waypoint_index.
waypoints ==
    {order \in [Stops -> Stops] : order[1] = 1 /\ (fixedEnd => order[n] = n) /\ IsInjective(order)}

mapboxOrder(order) ==
    /\ pc = "ask"
    /\ n \in 3 .. 12
    /\ tour' = order
    /\ pc' = "answered"
    /\ UNCHANGED <<asked, matrix, iterations>>

\* Without a token, with too few stops or too many, after an error or with an answer
\* of another length.  Two stops are in order.
useLocalOptimizer ==
    /\ pc = "ask"
    /\ IF n <= 2 THEN pc' = "done" /\ tour' = [i \in 1 .. n |-> i]
                 ELSE pc' = "greedy" /\ UNCHANGED tour
    /\ UNCHANGED <<asked, matrix, iterations>>

Left == Stops \ (Range(tour) \union (IF fixedEnd THEN {n} ELSE {}))

\* The nearest stop that is left, of several the first.
nearestNeighbor ==
    /\ pc = "greedy" /\ Left # {}
    /\ LET d == [s \in Stops |-> matrix[tour[Len(tour)]][s].distance]
           nearest == {s \in Left : \A t \in Left : d[s] <= d[t]}
       IN  tour' = Append(tour, Min(nearest))
    /\ UNCHANGED <<asked, matrix, pc, iterations>>

appendEnd ==
    /\ pc = "greedy" /\ Left = {}
    /\ tour' = IF fixedEnd THEN Append(tour, n) ELSE tour
    /\ pc' = "improve"
    /\ UNCHANGED <<asked, matrix, iterations>>

\* tour[i...k] the other way round.
Reversed(route, i, k) == [j \in DOMAIN route |-> IF j \in i .. k THEN route[i + k - j] ELSE route[j]]

endK_short == IF fixedEnd THEN Len(tour) - 2 ELSE Len(tour) - 1

endK == IF fixedEnd THEN Len(tour) - 1 ELSE Len(tour)

\* The parts that save so much, or more, if they are turned round.
Turns(saved) ==
    {p \in (2 .. endK) \X (2 .. endK) :
        p[1] < p[2] /\ Length(Reversed(tour, p[1], p[2])) + saved <= Length(tour)}

Before(p, q) == p[1] < q[1] \/ (p[1] = q[1] /\ p[2] < q[2])

\* The first part, by its start and then its end, that saves more than ten metres.  Of
\* one that saves just ten, the last digits of the sums decide.
twoOpt ==
    /\ pc = "improve"
    /\ iterations < maxIterations
    /\ \E p \in Turns(1) :
          /\ \A q \in Turns(2) : ~ Before(q, p)
          /\ tour' = Reversed(tour, p[1], p[2])
    /\ iterations' = iterations + 1
    /\ UNCHANGED <<asked, matrix, pc>>

Stop ==
    /\ pc = "improve"
    /\ iterations < maxIterations => Turns(2) = {}
    /\ pc' = "done"
    /\ UNCHANGED <<asked, matrix, tour, iterations>>

Next ==
    \/ computeMatrix
    \/ pc = "ask" /\ \E order \in waypoints : mapboxOrder(order)
    \/ useLocalOptimizer \/ nearestNeighbor \/ appendEnd \/ twoOpt \/ Stop

Spec == Init /\ [][Next]_vars

-----------------------------------------------------------------------------
(* Properties.                                                             *)

\* The answer has every stop once, the first one first, and the last one last if it
\* has to be.
EveryStopOnce ==
    pc \in {"answered", "done"} =>
        /\ Len(tour) = n /\ Range(tour) = Stops
        /\ tour[1] = 1
        /\ fixedEnd => tour[n] = n

\* Unless it has tried as often as it may, the local optimizer leaves nothing to improve
\* but ten metres: with the ends where they are, no part of the tour saves more the other
\* way round.
NothingToTurn ==
    pc = "done" /\ iterations < maxIterations =>
        \A i, k \in 2 .. (IF fixedEnd THEN n - 1 ELSE n) :
            i < k => ~ (Length(Reversed(tour, i, k)) + 2 <= Length(tour))

\* Wherever Mapbox has no figure, different places are a way apart and going there takes
\* time; nowhere is a cell without a figure.
NoWayForFree ==
    matrix # <<>> =>
        \A i, j \in Stops :
            LET raw == IF answer = NoMatrix THEN [distance |-> Missing, duration |-> Missing]
                                            ELSE answer[i][j]
            IN  /\ raw.distance = Missing =>
                      (matrix[i][j].distance = 0 <=> coordinates[i] = coordinates[j])
                /\ matrix[i][j].distance > 0 /\ raw.duration # 0 => matrix[i][j].duration > 0

=============================================================================
