----------------------------- MODULE RouteLegs ------------------------------
(***************************************************************************)
(* Directions along the stops of a trip                                    *)
(* (src/src/modules/itineraries/services/mapbox-directions.service.ts):    *)
(* one request for the whole way and, if that does not help, one for each  *)
(* leg; each repeated after a timeout or a server error; and where nothing *)
(* helps, the great circle.  The way is drawn as an encoded polyline.      *)
(*                                                                         *)
(* What Mapbox answers, a timeout among it, is chosen freely each time.    *)
(* How long is waited between attempts, profiles and durations (which are  *)
(* treated as distances are) are left out.                                 *)
(***************************************************************************)
EXTENDS Integers, Sequences, SequencesExt, FiniteSetsExt

CONSTANTS
    Ways,            \* of what is asked: sequences of coordinates
    ApiDistance,     \* what Mapbox says of a leg
    StraightDistance,
    maxRetries,
    maxWaypoints     \* 25 in the code

VARIABLES
    coordinates,
    token,       \* whether there is an access token
    pc,
    retryCount,
    delayed,     \* waiting before the next attempt
    legs,
    total,       \* totalDistanceMeters
    geometry

vars == <<coordinates, token, pc, retryCount, delayed, legs, total, geometry>>

n == Len(coordinates)

\* What a fetch comes back with: a route, one that has fewer legs than asked for, an answer
\* without a route or an error of ours, an error of the server, or nothing in time.
Answers == {"route", "no route", "server error", "timeout"}

Char == 63 .. 126
FromMapbox == <<0>>

TypeOK ==
    /\ coordinates \in Seq([latitude : Int, longitude : Int])
    /\ token \in BOOLEAN
    /\ pc \in {"start", "batch", "leg", "done"}
    /\ retryCount \in 0 .. maxRetries
    /\ delayed \in BOOLEAN
    /\ legs \in Seq([from : Nat, to : Nat, distance : {ApiDistance, StraightDistance}])
    /\ total \in Nat
    /\ geometry = FromMapbox \/ geometry \in Seq(Char)

Init ==
    /\ coordinates \in Ways
    /\ token \in BOOLEAN
    /\ pc = "start"
    /\ retryCount = 0
    /\ delayed = FALSE
    /\ legs = <<>>
    /\ total = 0
    /\ geometry = <<>>

-----------------------------------------------------------------------------
(* The polyline.                                                           *)

\* Five bits to a character, low ones first; all but the last have the sixth bit set.
encodeChunks[m \in Nat] ==
    IF m < 32 THEN <<m + 63>> ELSE <<32 + (m % 32) + 63>> \o encodeChunks[m \div 32]

\* ~(num << 1) is - 2 * num - 1.
encodeSignedNumber(num) == encodeChunks[IF num < 0 THEN - 2 * num - 1 ELSE 2 * num]

\* Each coordinate as its difference from the one before, the first from zero; a
\* degree has been multiplied and rounded by then.
encodePolyline(way) ==
    FlattenSeq([i \in DOMAIN way |->
        LET prev == IF i = 1 THEN [latitude |-> 0, longitude |-> 0] ELSE way[i - 1]
        IN  encodeSignedNumber(way[i].latitude - prev.latitude)
            \o encodeSignedNumber(way[i].longitude - prev.longitude)])

-----------------------------------------------------------------------------
fetchWithRetry_onceMore(answer) ==
    IF answer \in {"server error", "timeout"} /\ retryCount <= maxRetries THEN "again" ELSE answer

\* fetchWithRetry: after a timeout or a server error there is another attempt, up to a
\* limit.  "again" is not an answer.
fetchWithRetry(answer) ==
    IF answer \in {"server error", "timeout"} /\ retryCount < maxRetries THEN "again" ELSE answer

Leg(i, distance) == [from |-> i, to |-> i + 1, distance |-> distance]

getRoutesForActivities ==
    /\ pc = "start"
    /\ pc' = IF n < 2 THEN "done" ELSE IF token /\ n <= maxWaypoints THEN "batch" ELSE "leg"
    /\ UNCHANGED <<coordinates, token, retryCount, delayed, legs, total, geometry>>

Again_uncounted ==
    /\ delayed' = TRUE
    /\ UNCHANGED <<pc, retryCount, legs, total, geometry>>

Again ==
    /\ retryCount' = retryCount + 1
    /\ delayed' = TRUE
    /\ UNCHANGED <<pc, legs, total, geometry>>

Delay ==
    /\ delayed
    /\ delayed' = FALSE
    /\ UNCHANGED <<coordinates, token, pc, retryCount, legs, total, geometry>>

\* The whole way at once.  A leg the answer lacks is a straight line.
Batch(answer, lacks) ==
    /\ pc = "batch" /\ ~ delayed
    /\ CASE fetchWithRetry(answer) = "again" -> Again
         [] fetchWithRetry(answer) = "route" ->
              /\ legs' = [i \in 1 .. n - 1 |-> Leg(i, IF i \in lacks THEN StraightDistance
                                                                    ELSE ApiDistance)]
              /\ total' = (n - 1) * ApiDistance
              /\ geometry' = FromMapbox
              /\ pc' = "done"
              /\ UNCHANGED <<retryCount, delayed>>
         [] OTHER ->
              /\ pc' = "leg"
              /\ retryCount' = 0
              /\ UNCHANGED <<delayed, legs, total, geometry>>
    /\ UNCHANGED <<coordinates, token>>

\* getRouteForLeg.
NextLeg_late(distance) ==
    /\ legs' = Append(legs, Leg(Len(legs) + 1, distance))
    /\ total' = total + distance
    /\ retryCount' = 0
    /\ UNCHANGED delayed
    /\ IF Len(legs) = n - 1
       THEN pc' = "done" /\ geometry' = encodePolyline(coordinates)
       ELSE UNCHANGED <<pc, geometry>>

NextLeg(distance) ==
    /\ legs' = Append(legs, Leg(Len(legs) + 1, distance))
    /\ total' = total + distance
    /\ retryCount' = 0
    /\ UNCHANGED delayed
    /\ IF Len(legs) + 1 = n - 1
       THEN pc' = "done" /\ geometry' = encodePolyline(coordinates)
       ELSE UNCHANGED <<pc, geometry>>

getRoute(answer) ==
    /\ pc = "leg" /\ token /\ ~ delayed
    /\ CASE fetchWithRetry(answer) = "again" -> Again
         [] fetchWithRetry(answer) = "route" -> NextLeg(ApiDistance)
         [] OTHER -> NextLeg(StraightDistance)
    /\ UNCHANGED <<coordinates, token>>

\* Without a token nothing is asked.
fallbackRoute ==
    /\ pc = "leg" /\ ~ token
    /\ NextLeg(StraightDistance)
    /\ UNCHANGED <<coordinates, token>>

Next ==
    \/ getRoutesForActivities
    \/ \E answer \in Answers, lacks \in SUBSET (1 .. n - 1) : Batch(answer, lacks)
    \/ \E answer \in Answers : getRoute(answer)
    \/ fallbackRoute
    \/ Delay

\* Every fetch ends, with an answer or without.
Spec == Init /\ [][Next]_vars /\ WF_vars(Next)

-----------------------------------------------------------------------------
(* Properties.                                                             *)

\* Whatever fails, the answer has every leg, in order, and never two for one.
EveryLeg ==
    /\ \A i \in DOMAIN legs : legs[i].from = i /\ legs[i].to = i + 1
    /\ pc = "done" => Len(legs) = Max({n, 1}) - 1

\* Mapbox may fail for as long as it likes: an answer comes.
Answered == <>(pc = "done")

\* Reading a polyline as Mapbox and the app do: numbers of chunks, then differences.
Read(char, acc) ==
    LET bits == (char - 63) % 32
        value == acc.value + bits * acc.weight
    IN  IF char - 63 >= 32
        THEN [done |-> acc.done, value |-> value, weight |-> 32 * acc.weight]
        ELSE [done |-> Append(acc.done, IF value % 2 = 0 THEN value \div 2
                                                         ELSE - ((value + 1) \div 2)),
              value |-> 0, weight |-> 1]

Numbers(line) ==
    LET read[k \in 0 .. Len(line)] ==
            IF k = 0 THEN [done |-> <<>>, value |-> 0, weight |-> 1] ELSE Read(line[k], read[k - 1])
    IN  read[Len(line)].done

\* The line that is drawn when Mapbox has none goes through the stops, in order, and
\* nowhere else.
DrawnAsGone ==
    pc = "done" /\ geometry # FromMapbox /\ n > 1 =>
        LET N == Numbers(geometry)
            drawn[i \in 0 .. n] ==
                IF i = 0 THEN [latitude |-> 0, longitude |-> 0]
                ELSE [latitude |-> drawn[i - 1].latitude + N[2 * i - 1],
                      longitude |-> drawn[i - 1].longitude + N[2 * i]]
        IN  Len(N) = 2 * n /\ \A i \in 1 .. n : drawn[i] = coordinates[i]

=============================================================================
