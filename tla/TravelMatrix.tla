---------------------------- MODULE TravelMatrix ----------------------------
(***************************************************************************)
(* Distances and travel times between the stops of a day                   *)
(* (src/src/modules/itineraries/services/mapbox-matrix.service.ts).        *)
(* Mapbox is asked for all pairs at once; what its answer lacks is taken   *)
(* from the great circle and the usual speed, cell by cell.                *)
(*                                                                         *)
(* Places stand on a line.  Distances are in units of ten metres, to which *)
(* the code rounds, and times in minutes.                                  *)
(***************************************************************************)
EXTENDS Naturals, Sequences, FiniteSetsExt

CONSTANTS
    NoMatrix,   \* no token, an error of the server or of the network, or no table
    Missing     \* null in a cell of the table

\* Profiles and speeds, in tenths of km/h, with the minutes that are added.
Speed == [CAR |-> 450, MOTORCYCLE |-> 400, WALKING |-> 45, CYCLING |-> 150,
          PUBLIC_TRANSPORT |-> 350]
Buffer == [CAR |-> 5, MOTORCYCLE |-> 3, WALKING |-> 0, CYCLING |-> 2, PUBLIC_TRANSPORT |-> 10]

\* Nothing but the same place is nearer than a hundred metres.
AtLeast(least, d) == IF d = 0 THEN 0 ELSE Max({least, d})

calculateHaversineKm(p, q) == AtLeast(10, IF p < q THEN q - p ELSE p - q)

\* d / speed * 60 + buffer, rounded.
estimateDurationMinutes(d, mode) ==
    IF d = 0 THEN 0
    ELSE Max({1, (12 * d + Speed[mode] * (2 * Buffer[mode] + 1)) \div (2 * Speed[mode])})

\* Metres and seconds to ten metres and minutes, rounded, but not to zero.
Distance(raw, p, q) ==
    IF raw = Missing THEN calculateHaversineKm(p, q)
    ELSE IF raw = 0 THEN 0 ELSE Max({10, (raw + 5) \div 10})

Duration(raw, distance, mode) ==
    IF raw = Missing THEN estimateDurationMinutes(distance, mode)
    ELSE IF raw = 0 THEN 0 ELSE Max({1, (raw + 30) \div 60})

calculateFallbackMatrix(coordinates, mode) ==
    LET d(i, j) == calculateHaversineKm(coordinates[i], coordinates[j])
    IN  [i \in DOMAIN coordinates |-> [j \in DOMAIN coordinates |->
            [distance |-> d(i, j), duration |-> estimateDurationMinutes(d(i, j), mode)]]]

\* answer[i][j] has the metres and the seconds from i to j, either of which may be Missing.
calculateMatrix(coordinates, mode, answer) ==
    IF answer = NoMatrix THEN calculateFallbackMatrix(coordinates, mode)
    ELSE [i \in DOMAIN coordinates |-> [j \in DOMAIN coordinates |->
            LET d == Distance(answer[i][j].distance, coordinates[i], coordinates[j])
            IN  [distance |-> d, duration |-> Duration(answer[i][j].duration, d, mode)]]]

=============================================================================
