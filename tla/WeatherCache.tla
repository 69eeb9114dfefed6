---------------------------- MODULE WeatherCache ----------------------------
(***************************************************************************)
(* The weather of a place (src/src/modules/weather): asked for at a        *)
(* provider, which may fail or not answer for eight seconds, and kept for  *)
(* ten minutes in a map of the process.  Requests overlap wherever they    *)
(* wait.                                                                   *)
(*                                                                         *)
(* An answer is abstracted to its provider, its place and the time the     *)
(* provider gave it.  Time passes between any two steps but not beyond     *)
(* timeout while a request waits for the provider.                         *)
(***************************************************************************)
EXTENDS Naturals

CONSTANTS
    Requests,
    Locations,
    Providers,
    None,
    Failed,       \* the answer is an error
    cacheTtlMs,   \* how long an answer is kept
    timeout,      \* how long a request waits for an answer
    MaxTime       \* bound: the clock stops here, and nobody asks when that is near

VARIABLES
    provider,     \* the provider in use
    cache,        \* an entry for each provider and location, or None
    clock,
    asking,       \* the requests that wait for the provider
    told          \* the answer a request has got, or its error

vars == <<provider, cache, clock, asking, told>>

Times == 0 .. MaxTime
Data == [provider : Providers, location : Locations, at : Times]
Entries == [data : Data, cachedAt : Times, expiresAt : 0 .. MaxTime + cacheTtlMs]

TypeOK ==
    /\ provider \in Providers
    /\ cache \in [Providers \X Locations -> Entries \union {None}]
    /\ clock \in Times
    /\ asking \in [Requests -> [key : Providers \X Locations, from : Providers, now : Times]
                               \union {None}]
    /\ told \in [Requests -> [data : Data, provider : Providers, at : Times] \union {None, Failed}]

Init ==
    /\ provider \in Providers
    /\ cache = [k \in Providers \X Locations |-> None]
    /\ clock = 0
    /\ asking = [r \in Requests |-> None]
    /\ told = [r \in Requests |-> None]

-----------------------------------------------------------------------------
\* What the client is told, with the provider in use by then.
Tell(r, data) == told' = [told EXCEPT ![r] = [data |-> data, provider |-> provider, at |-> clock]]

setProvider(p) ==
    /\ provider' = p
    /\ UNCHANGED <<cache, clock, asking, told>>

clearCache ==
    /\ cache' = [k \in DOMAIN cache |-> None]
    /\ UNCHANGED <<provider, clock, asking, told>>

Hit(k) == cache[k] # None /\ cache[k].expiresAt > clock

\* The key and the time are those of the request.
getWeather(r, l) ==
    LET k == <<provider, l>>
    IN  /\ asking[r] = None /\ told[r] = None
        /\ clock + timeout <= MaxTime
        /\ IF Hit(k)
           THEN Tell(r, cache[k].data) /\ UNCHANGED asking
           ELSE /\ asking' = [asking EXCEPT ![r] = [key |-> k, from |-> provider, now |-> clock]]
                /\ UNCHANGED told
        /\ UNCHANGED <<provider, cache, clock>>

expiresAt_fromNow(r) == clock + cacheTtlMs

expiresAt(r) == asking[r].now + cacheTtlMs

\* The answer, given at some time since the request and kept from then on.
getCurrentWeather(r) ==
    /\ asking[r] # None
    /\ \E at \in asking[r].now .. clock :
          LET data == [provider |-> asking[r].from, location |-> asking[r].key[2], at |-> at]
          IN  /\ cache' = [cache EXCEPT ![asking[r].key] =
                              [data |-> data, cachedAt |-> asking[r].now, expiresAt |-> expiresAt(r)]]
              /\ Tell(r, data)
    /\ asking' = [asking EXCEPT ![r] = None]
    /\ UNCHANGED <<provider, clock>>

\* No such place, a failure of the provider or of the network: not kept, the next
\* request asks again.
getCurrentWeather_fails(r) ==
    /\ asking[r] # None
    /\ told' = [told EXCEPT ![r] = Failed]
    /\ asking' = [asking EXCEPT ![r] = None]
    /\ UNCHANGED <<provider, cache, clock>>

Late(r) == asking[r] # None /\ clock - asking[r].now >= timeout

\* AbortSignal.timeout ends the wait.
abort(r) == Late(r) /\ getCurrentWeather_fails(r)

\* The client is done with the answer and may ask again.
Read(r) ==
    /\ told[r] # None
    /\ told' = [told EXCEPT ![r] = None]
    /\ UNCHANGED <<provider, cache, clock, asking>>

Tick ==
    /\ clock < MaxTime
    /\ \A r \in Requests : asking[r] # None => clock - asking[r].now < timeout
    /\ clock' = clock + 1
    /\ UNCHANGED <<provider, cache, asking, told>>

Next ==
    \/ \E p \in Providers : setProvider(p)
    \/ clearCache
    \/ \E r \in Requests :
          \/ \E l \in Locations : getWeather(r, l)
          \/ getCurrentWeather(r) \/ getCurrentWeather_fails(r) \/ abort(r)
          \/ Read(r)
    \/ Tick

\* The clock goes on and a signal that is due is raised; that the provider answers is
\* not assumed.
Fairness ==
    /\ WF_vars(Tick)
    /\ \A r \in Requests : WF_vars(abort(r))

Spec == Init /\ [][Next]_vars /\ Fairness

-----------------------------------------------------------------------------
(* Properties.                                                             *)

\* Nobody is told weather as old as the cache keeps it, however long the provider took
\* and whichever of two overlapping answers came last; at most as old as a provider
\* may take where that is longer.
FreshEnough ==
    \A r \in Requests : told[r] \notin {None, Failed} =>
        LET age == told[r].at - told[r].data.at
        IN  age < cacheTtlMs \/ age <= timeout

\* Whoever asks is told something although a provider may never answer.
Answered == \A r \in Requests : asking[r] # None ~> asking[r] = None

=============================================================================
