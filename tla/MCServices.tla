----------------------------- MODULE MCServices -----------------------------
(***************************************************************************)
(* The parts that wait for other services together, for TLC to check, for  *)
(* liveness too.  They share no state: each behaviour is one part's,       *)
(* chosen at the beginning.                                                *)
(***************************************************************************)
EXTENDS Integers, Sequences, FiniteSets

CONSTANTS
    Users, Tokens, Notes, Slots, MaxMulticast, Nobody,              \* PushDelivery
    Ways, ApiDistance, StraightDistance, maxRetries, maxWaypoints,  \* RouteLegs
    Requests, Locations, Providers, None, Failed,                   \* WeatherCache
    cacheTtlMs, timeout, MaxTime

VARIABLES
    part,
    device, notification, push, installed, signedIn, refused,  \* PushDelivery
    coordinates, token, pc, retryCount, delayed, legs, total, geometry,  \* RouteLegs
    provider, cache, clock, asking, told  \* WeatherCache

\* Nobody is no user; a way is any sequence of coordinates; distances, times and limits
\* are numbers.
ASSUME Assumptions ==
    /\ Nobody \notin Users
    /\ \A way \in Ways : way \in Seq([latitude : Int, longitude : Int])
    /\ {ApiDistance, StraightDistance, maxRetries, maxWaypoints} \subseteq Nat
    /\ {cacheTtlMs, timeout, MaxTime} \subseteq Nat

\* Ways of no to three stops, which go on in every direction, on the spot too, and with
\* numbers of one chunk and of several: those that TLC asks directions for.
Stops == [latitude : {-8892, 15, -17}, longitude : {116295, 116279}]
ShortWays == {<<>>} \union UNION {[1 .. k -> Stops] : k \in 1 .. 3}

Push == INSTANCE PushDelivery
Legs == INSTANCE RouteLegs
Weather == INSTANCE WeatherCache

pushVars == <<device, notification, push, installed, signedIn, refused>>
legsVars == <<coordinates, token, pc, retryCount, delayed, legs, total, geometry>>
weatherVars == <<provider, cache, clock, asking, told>>

Parts == {"push", "legs", "weather"}

\* The others stay as they begin.
Init ==
    /\ part \in Parts
    /\ Push!Init
    /\ Legs!Init /\ (part # "legs" => ~ token /\ coordinates = CHOOSE way \in Ways : TRUE)
    /\ Weather!Init /\ (part # "weather" => provider = CHOOSE p \in Providers : TRUE)

Next ==
    \/ /\ part = "push" /\ Push!Next
       /\ UNCHANGED <<part, legsVars, weatherVars>>
    \/ /\ part = "legs" /\ Legs!Next
       /\ UNCHANGED <<part, pushVars, weatherVars>>
    \/ /\ part = "weather" /\ Weather!Next
       /\ UNCHANGED <<part, pushVars, legsVars>>

vars == <<part, pushVars, legsVars, weatherVars>>

\* That of each part (see the modules), as long as the part is the one that takes steps.
Only(p, A) == part = p /\ A

Fairness ==
    /\ \A s \in Slots : WF_pushVars(Only("push", Push!sendMulticast(s)))
    /\ \A t \in Tokens :
          /\ SF_pushVars(Only("push", \E s \in Slots : Push!Takes(s, t) /\ Push!sendMulticast(s)))
          /\ SF_pushVars(Only("push", \E s \in Slots : /\ t \in push[s].invalid
                                                     /\ Push!deactivateTokensByValues(s)))
    /\ \A u \in Users :
          SF_pushVars(Only("push", \E n \in Notes, actor \in Users, s \in Slots :
                                        Push!createNotification(s, n, u, actor)))
    /\ \A n \in Notes : WF_pushVars(Only("push", Push!Cascade(n)))
    /\ WF_legsVars(Only("legs", Legs!Next))
    /\ WF_weatherVars(Only("weather", Weather!Tick))
    /\ \A r \in Requests : WF_weatherVars(Only("weather", Weather!abort(r)))

Spec == Init /\ [][Next]_vars /\ Fairness

-----------------------------------------------------------------------------
(* Properties: those of the parts.                                         *)

\* Every variable of every part has its type.
TypeOK ==
    /\ part = "push" => Push!TypeOK
    /\ part = "legs" => Legs!TypeOK
    /\ part = "weather" => Weather!TypeOK

\* The app of a phone gets the pushes of nobody but the user who is signed in there, and
\* all of those unless FCM has refused a message to it.
RightHands == part = "push" => Push!RightHands

\* A token that FCM does not know any more is deactivated in the end.
DeadTokensRetired == part = "push" => Push!DeadTokensRetired

\* Directions have every leg of the way once and in order, and the line drawn without
\* Mapbox goes through the stops.
DirectionsSound == part = "legs" => Legs!EveryLeg /\ Legs!DrawnAsGone

\* Nobody is told weather older than the cache may keep it.
FreshEnough == part = "weather" => Weather!FreshEnough

\* Directions are found however long Mapbox fails, and whoever asks for the weather is
\* told something although the provider may be silent.
Answered == (part = "legs" => Legs!Answered) /\ (part = "weather" => Weather!Answered)

=============================================================================
