---------------------------- MODULE TripSession ----------------------------
(***************************************************************************)
(* Live trip sessions and the itineraries they follow                      *)
(* (src/src/modules/itineraries/trip-sessions.service.ts, with the edits   *)
(* of itineraries.service.ts that a session is reconciled with).           *)
(*                                                                         *)
(* Every action is one whole request, from the handler's first read to its *)
(* last write: this is the service as one request after another sees it.   *)
(* TripSessionSteps splits the handlers at their awaits.                   *)
(*                                                                         *)
(* The tables are functions on their primary keys.  Ids are never reused:  *)
(* activities and sessions are handed out in order (lastItem, NewSession). *)
(*                                                                         *)
(* An operator name_variant is the operator name with a slip that would be *)
(* easy to make in the code; a property is worth checking only if one of   *)
(* them breaks it.                                                         *)
(***************************************************************************)
EXTENDS Naturals, FiniteSets

CONSTANTS
    Itineraries,     \* ids of itineraries
    Users,           \* ids of users
    Owner,           \* Owner[i]: the user an itinerary id is created for
    MaxActivities,   \* bound: itinerary items ever created
    MaxSessions,     \* bound: trip sessions ever created
    MaxDays,         \* bound: days of an itinerary
    Indices,         \* order indices that clients send
    None             \* the null of currentActivityId and of foreign keys

Activities == 1 .. MaxActivities
Sessions   == 1 .. MaxSessions

ASSUME OwnerAssumption == Owner \in [Itineraries -> Users]
ASSUME BoundsAssumption ==
    /\ MaxActivities \in Nat
    /\ MaxSessions \in Nat
    /\ MaxDays \in Nat
ASSUME IndicesAssumption == Indices \subseteq Nat
ASSUME NoneAssumption ==
    /\ None \notin Nat
    /\ None \notin Itineraries

VARIABLES
    itin,       \* table itineraries: state and number of days
    item,       \* table itinerary_items: where an activity is, isCompleted
    lastItem,   \* activities 1 .. lastItem have been created
    session,    \* table trip_sessions
    progress    \* table trip_activity_progress, keyed by session and activity

vars == <<itin, item, lastItem, session, progress>>

ItinState == {"absent", "live", "archived"}   \* archived: deletedAt is set
SessionStatus == {"NONE", "ACTIVE", "COMPLETED", "CANCELLED"}
RowStatus == {"ABSENT", "NOT_STARTED", "IN_PROGRESS", "COMPLETED", "SKIPPED"}

NoItem == [itin |-> None, day |-> 0, idx |-> 0, done |-> FALSE]
NoRow == [status |-> "ABSENT", idx |-> 0]
NoSession == [itin |-> None, status |-> "NONE", ended |-> FALSE, current |-> None]

TypeOK ==
    /\ itin \in [Itineraries -> [state : ItinState, days : Nat]]
    /\ item \in [Activities -> [itin : Itineraries \union {None},
                                day : Nat, idx : Nat, done : BOOLEAN]]
    /\ lastItem \in Nat
    /\ session \in [Sessions -> [itin : Itineraries \union {None},
                                 status : SessionStatus, ended : BOOLEAN,
                                 current : Activities \union {None}]]
    /\ progress \in [Sessions -> [Activities -> [status : RowStatus, idx : Nat]]]

Init ==
    /\ itin = [i \in Itineraries |-> [state |-> "absent", days |-> 0]]
    /\ item = [a \in Activities |-> NoItem]
    /\ lastItem = 0
    /\ session = [s \in Sessions |-> NoSession]
    /\ progress = [s \in Sessions |-> [a \in Activities |-> NoRow]]

-----------------------------------------------------------------------------
(* Reading the tables.                                                     *)

ItemsOf(table, i) == {a \in Activities : table[a].itin = i}

DayItems(table, i, d) == {a \in ItemsOf(table, i) : table[a].day = d}

\* What "orderBy dayNumber" and "orderBy orderIndex" say of two items.
Before(table, a, b) ==
    \/ table[a].day < table[b].day
    \/ table[a].day = table[b].day /\ table[a].idx < table[b].idx

\* The orders in which a query may return the items P: clients choose the indices, and
\* items of equal index, which nothing else orders, come in any order.  r[a] is the
\* globalIndex of a in "for day of days, for item of day.items".
Listings(table, P) ==
    {r \in [P -> 0 .. Cardinality(P) - 1] :
        \A a, b \in P : /\ a # b => r[a] # r[b]
                        /\ Before(table, a, b) => r[a] < r[b]}

Present(rows)    == {a \in Activities : rows[a].status # "ABSENT"}
NotStarted(rows) == {a \in Activities : rows[a].status = "NOT_STARTED"}
Unfinished(rows) == {a \in Activities : rows[a].status \in {"NOT_STARTED", "IN_PROGRESS"}}

AllDone(rows) == Present(rows) # {} /\ Unfinished(rows) = {}

\* n is what find() returns on the members of P listed by orderIndex.
IsFirst(rows, P, n) ==
    IF P = {} THEN n = None
              ELSE n \in P /\ \A b \in P : rows[n].idx <= rows[b].idx

Promote(rows, n) ==
    IF n = None THEN rows ELSE [rows EXCEPT ![n].status = "IN_PROGRESS"]

ActiveOf(u) ==
    {s \in Sessions : session[s].status = "ACTIVE" /\ Owner[session[s].itin] = u}

ActiveOn_anyStatus(i) ==
    {s \in Sessions : session[s].status # "NONE" /\ session[s].itin = i}

ActiveOn(i) == {s \in Sessions : session[s].status = "ACTIVE" /\ session[s].itin = i}

\* findFirst with orderBy startedAt desc: sessions are numbered as they start.
IsNewest(S, s) == s \in S /\ \A t \in S : t <= s

\* The foreign key from trip_activity_progress to itinerary_items cascades.
CascadeRows(table) ==
    [s \in Sessions |-> [a \in Activities |->
        IF table[a].itin = None THEN NoRow ELSE progress[s][a]]]

CloseSession_keepsCurrent(s, st) ==
    [itin |-> session[s].itin, status |-> st, ended |-> TRUE, current |-> session[s].current]

CloseSession(s, st) ==
    [itin |-> session[s].itin, status |-> st, ended |-> TRUE, current |-> None]

-----------------------------------------------------------------------------
(* Reconciling the active session after its itinerary was edited.          *)

ReconciledRows_noInsert(rows, table, i, r) ==
    [a \in Activities |->
        IF table[a].itin # i \/ rows[a].status = "ABSENT" THEN NoRow
        ELSE [status |-> rows[a].status, idx |-> r[a]]]

ReconciledRows_noReindex(rows, table, i, r) ==
    [a \in Activities |->
        IF table[a].itin # i THEN NoRow
        ELSE IF rows[a].status # "ABSENT" THEN rows[a]
        ELSE [status |-> IF table[a].done THEN "COMPLETED" ELSE "NOT_STARTED",
              idx |-> r[a]]]

\* Rows after the deletions, insertions and re-indexing of steps 1 and 2.
ReconciledRows(rows, table, i, r) ==
    [a \in Activities |->
        IF table[a].itin # i THEN NoRow
        ELSE [status |-> IF rows[a].status # "ABSENT" THEN rows[a].status
                         ELSE IF table[a].done THEN "COMPLETED" ELSE "NOT_STARTED",
              idx |-> r[a]]]

reconcileItineraryChange(i) ==
    IF ActiveOn(i) = {}
    THEN progress' = CascadeRows(item') /\ UNCHANGED session
    ELSE \E s \in Sessions, n \in Activities \union {None}, r \in Listings(item', ItemsOf(item', i)) :
        LET rows == ReconciledRows(progress[s], item', i, r)
            kept == session[s].current \in ItemsOf(item', i)
            next == IF kept THEN session[s].current ELSE n
        IN  /\ IsNewest(ActiveOn(i), s)
            /\ IF kept THEN n = None ELSE IsFirst(rows, Unfinished(rows), n)
            /\ progress' = [CascadeRows(item') EXCEPT ![s] = Promote(rows, n)]
            /\ session' = [session EXCEPT ![s] =
                  [itin |-> i, current |-> next, ended |-> AllDone(rows),
                   status |-> IF AllDone(rows) THEN "COMPLETED" ELSE "ACTIVE"]]

-----------------------------------------------------------------------------
(* Itinerary requests.  Days of an itinerary are numbered 1 .. days.       *)

Exists(i) == itin[i].state # "absent"

\* POST /itineraries, a duplicate, a template or a generated plan: in one
\* transaction every live itinerary of the user is archived and the new one
\* is stored.  An activity has the orderIndex the client sent, if any, and else its
\* position in its day.  Sessions that follow an archived itinerary are left alone.
createWithTransaction(i) ==
    /\ itin[i].state = "absent"
    /\ \E n \in 0 .. (MaxActivities - lastItem), d \in 1 .. MaxDays :
       LET new == (lastItem + 1) .. (lastItem + n) IN
       \E dayOf \in [new -> 1 .. d], sent \in [new -> Indices \union {None}],
          completed \in SUBSET new :
          /\ item' = [a \in Activities |->
                IF a \in new
                THEN [itin |-> i, day |-> dayOf[a],
                      idx |-> IF sent[a] # None THEN sent[a]
                              ELSE Cardinality({b \in new : b < a /\ dayOf[b] = dayOf[a]}),
                      done |-> a \in completed]
                ELSE item[a]]
          /\ itin' = [j \in Itineraries |->
                IF j = i THEN [state |-> "live", days |-> d]
                ELSE IF Owner[j] = Owner[i] /\ itin[j].state = "live"
                     THEN [itin[j] EXCEPT !.state = "archived"]
                     ELSE itin[j]]
          /\ lastItem' = lastItem + n
    /\ UNCHANGED <<session, progress>>

\* The handlers below find the day or the item by its own id, which also finds
\* those of an archived itinerary; addDay looks the itinerary up and does not.
addDay(i) ==
    /\ itin[i].state = "live"
    /\ itin[i].days < MaxDays
    /\ itin' = [itin EXCEPT ![i].days = @ + 1]
    /\ UNCHANGED <<item, lastItem, session, progress>>

\* k is the index an activity gets that is sent without one: that after the last.
IsNextIndex(P, k) ==
    /\ \A b \in P : item[b].idx < k
    /\ k = 0 \/ \E b \in P : item[b].idx + 1 = k

\* The index a client sends is stored as it is, one that is taken included.
addActivity(i, d) ==
    LET P == DayItems(item, i, d)
    IN  /\ Exists(i)
        /\ d \in 1 .. itin[i].days
        /\ lastItem < MaxActivities
        /\ \E k \in Indices \union {0} \union {item[b].idx + 1 : b \in P} :
              /\ k \in Indices \/ IsNextIndex(P, k)
              /\ item' = [item EXCEPT ![lastItem + 1] =
                             [itin |-> i, day |-> d, idx |-> k, done |-> FALSE]]
        /\ lastItem' = lastItem + 1
        /\ reconcileItineraryChange(i)
        /\ UNCHANGED itin

\* Editing isCompleted by hand, or fields that are not modelled.
updateActivity(a) ==
    /\ item[a].itin # None
    /\ \E done \in BOOLEAN : item' = [item EXCEPT ![a].done = done]
    /\ reconcileItineraryChange(item[a].itin)
    /\ UNCHANGED <<itin, lastItem>>

deleteActivity(a) ==
    LET i == item[a].itin
        rest == DayItems(item, i, item[a].day) \ {a}
    IN  /\ i # None
        /\ \E r \in Listings(item, rest) :
              item' = [b \in Activities |->
                 IF b = a THEN NoItem
                 ELSE IF b \in rest THEN [item[b] EXCEPT !.idx = r[b]] ELSE item[b]]
        /\ reconcileItineraryChange(i)
        /\ UNCHANGED <<itin, lastItem>>

\* Indices f of the activities P; all others keep theirs.
Reindexed(P, f) ==
    [a \in Activities |-> IF a \in P THEN [item[a] EXCEPT !.idx = f[a]] ELSE item[a]]

\* Some of a day's activities, with indices that differ from each other
\* (ReorderActivitiesDtoSchema) but not from those of the rest of the day.
reorderActivities(i, d) ==
    /\ Exists(i)
    /\ \E P \in SUBSET DayItems(item, i, d) \ {{}} : \E f \in [P -> Indices] :
          /\ \A a, b \in P : a # b => f[a] # f[b]
          /\ item' = Reindexed(P, f)
    /\ reconcileItineraryChange(i)
    /\ UNCHANGED <<itin, lastItem>>

\* A day, or each day, gets a new order of those of its activities that have a place,
\* P in all, if there are two; the rest keep their indices.
optimizeRoute(i) ==
    /\ itin[i].state = "live"
    /\ \E D \in {1 .. itin[i].days} \union {{d} : d \in 1 .. itin[i].days} :
       \E P \in SUBSET {a \in ItemsOf(item, i) : item[a].day \in D} :
          /\ \A d \in D : Cardinality({a \in P : item[a].day = d}) # 1
          /\ \E f \in [P -> 0 .. Cardinality(P) - 1] :
                /\ \A d \in D : LET Q == {a \in P : item[a].day = d}
                               IN  {f[a] : a \in Q} = 0 .. Cardinality(Q) - 1
                /\ item' = Reindexed(P, f)
    /\ reconcileItineraryChange(i)
    /\ UNCHANGED <<itin, lastItem>>

CancelSessionsOf(i) ==
    session' = [s \in Sessions |->
        IF s \in ActiveOn(i) THEN CloseSession(s, "CANCELLED") ELSE session[s]]

\* Deleting the last day archives the itinerary and cancels its sessions.
deleteDay(i, d) ==
    /\ Exists(i)
    /\ d \in 1 .. itin[i].days
    /\ item' = [a \in Activities |->
          IF a \in DayItems(item, i, d) THEN NoItem
          ELSE IF item[a].itin = i /\ item[a].day > d
               THEN [item[a] EXCEPT !.day = @ - 1]
               ELSE item[a]]
    /\ IF itin[i].days = 1
       THEN /\ itin' = [itin EXCEPT ![i] = [state |-> "archived", days |-> 0]]
            /\ CancelSessionsOf(i)
            /\ progress' = CascadeRows(item')
       ELSE /\ itin' = [itin EXCEPT ![i].days = @ - 1]
            /\ reconcileItineraryChange(i)
    /\ UNCHANGED lastItem

\* DELETE /itineraries/:id and DELETE of the active trip.
deleteItinerary(i) ==
    /\ itin[i].state = "live"
    /\ CancelSessionsOf(i)
    /\ itin' = [itin EXCEPT ![i].state = "archived"]
    /\ UNCHANGED <<item, lastItem, progress>>

-----------------------------------------------------------------------------
(* Trip session requests, sent by the owner of the session.                *)

NewSession == {s \in Sessions : /\ session[s].status = "NONE"
                                /\ \A t \in Sessions : t < s => session[t].status # "NONE"}

\* A session is orphaned when its itinerary has been archived.
Orphaned(s) == itin[session[s].itin].state # "live"

Healed(s) == [session EXCEPT ![s] = CloseSession(s, "CANCELLED")]

\* first: the first activity that is not completed yet, as r lists them.
StartingRows(i, first, r) ==
    [a \in Activities |->
        IF item[a].itin # i THEN NoRow
        ELSE [status |-> IF item[a].done THEN "COMPLETED"
                         ELSE IF a = first THEN "IN_PROGRESS" ELSE "NOT_STARTED",
              idx |-> r[a]]]

startTrip(i) ==
    LET open == {a \in ItemsOf(item, i) : ~ item[a].done}
        active == ActiveOf(Owner[i])
    IN  /\ itin[i].state = "live"
        /\ \E healed \in IF active = {} THEN {session}
                         ELSE {Healed(s) : s \in {t \in active : IsNewest(active, t) /\ Orphaned(t)}} :
             IF ItemsOf(item, i) = {}        \* 400 EMPTY_ITINERARY
             THEN session' = healed /\ UNCHANGED progress
             ELSE \E s \in NewSession, first \in Activities \union {None},
                     r \in Listings(item, ItemsOf(item, i)) :
                    /\ IF open = {} THEN first = None
                       ELSE first \in open /\ \A b \in open : r[first] <= r[b]
                    /\ session' = [healed EXCEPT ![s] =
                          [itin |-> i, ended |-> FALSE, current |-> first,
                           status |-> IF first = None THEN "COMPLETED" ELSE "ACTIVE"]]
                    /\ progress' = [progress EXCEPT ![s] = StartingRows(i, first, r)]
        /\ UNCHANGED <<itin, item, lastItem>>

\* GET /trip-sessions/active cancels the session it finds orphaned.
getActiveSession(u) ==
    /\ \E s \in ActiveOf(u) :
          /\ IsNewest(ActiveOf(u), s)
          /\ Orphaned(s)
          /\ session' = Healed(s)
    /\ UNCHANGED <<itin, item, lastItem, progress>>

startActivity_anyStatus(s, a) ==
    /\ session[s].status = "ACTIVE"
    /\ progress[s][a].status \notin {"ABSENT", "IN_PROGRESS"}
    /\ progress' = [progress EXCEPT ![s][a].status = "IN_PROGRESS"]
    /\ session' = [session EXCEPT ![s].current = a]
    /\ UNCHANGED <<itin, item, lastItem>>

startActivity(s, a) ==
    /\ session[s].status = "ACTIVE"
    /\ progress[s][a].status = "NOT_STARTED"
    /\ progress' = [progress EXCEPT ![s][a].status = "IN_PROGRESS"]
    /\ session' = [session EXCEPT ![s].current = a]
    /\ UNCHANGED <<itin, item, lastItem>>

\* a's row becomes st; the first NOT_STARTED row is promoted or, if there is
\* none, the session ends provided that `closes' holds.
Advance(s, a, st, closes) ==
    LET rows == [progress[s] EXCEPT ![a].status = st] IN
    \E n \in Activities \union {None} :
        /\ IsFirst(rows, NotStarted(rows) \ {a}, n)
        /\ progress' = [progress EXCEPT ![s] = Promote(rows, n)]
        /\ session' = [session EXCEPT ![s] =
              IF n # None THEN [session[s] EXCEPT !.current = n]
              ELSE IF closes THEN CloseSession(s, "COMPLETED") ELSE session[s]]

NothingElseUnfinished_self(s, a) == Unfinished(progress[s]) = {}

NothingElseUnfinished(s, a) == Unfinished(progress[s]) \ {a} = {}

completeActivity(s, a) ==
    /\ session[s].status = "ACTIVE"
    /\ progress[s][a].status \notin {"ABSENT", "COMPLETED"}
    /\ item' = [item EXCEPT ![a].done = TRUE]
    /\ Advance(s, a, "COMPLETED", NothingElseUnfinished(s, a))
    /\ UNCHANGED <<itin, lastItem>>

skipActivity_endedToo(s, a) ==
    /\ progress[s][a].status \notin {"ABSENT", "SKIPPED"}
    /\ Advance(s, a, "SKIPPED", NothingElseUnfinished(s, a))
    /\ UNCHANGED <<itin, item, lastItem>>

skipActivity(s, a) ==
    /\ session[s].status = "ACTIVE"
    /\ progress[s][a].status \notin {"ABSENT", "SKIPPED"}
    /\ Advance(s, a, "SKIPPED", NothingElseUnfinished(s, a))
    /\ UNCHANGED <<itin, item, lastItem>>

\* An accepted arrival closes the session as soon as nothing is NOT_STARTED.
\* The other location updates store coordinates only and are not modelled.
syncLocation(s, a) ==
    /\ session[s].status = "ACTIVE"
    /\ progress[s][a].status \notin {"ABSENT", "COMPLETED"}
    /\ item' = [item EXCEPT ![a].done = TRUE]
    /\ Advance(s, a, "COMPLETED", TRUE)
    /\ UNCHANGED <<itin, lastItem>>

finishTrip(s) ==
    /\ session[s].status \notin {"NONE", "COMPLETED"}
    /\ session' = [session EXCEPT ![s] = CloseSession(s, "COMPLETED")]
    /\ UNCHANGED <<itin, item, lastItem, progress>>

cancelTrip(s) ==
    /\ session[s].status # "NONE"
    /\ session' = [session EXCEPT ![s] = CloseSession(s, "CANCELLED")]
    /\ UNCHANGED <<itin, item, lastItem, progress>>

EditItinerary(i) ==
    \/ createWithTransaction(i)
    \/ addDay(i)
    \/ deleteItinerary(i)
    \/ optimizeRoute(i)
    \/ \E d \in 1 .. MaxDays : \/ addActivity(i, d)
                               \/ reorderActivities(i, d)
                               \/ deleteDay(i, d)

EditActivity(a) == updateActivity(a) \/ deleteActivity(a)

FollowTrip(s) ==
    \/ finishTrip(s)
    \/ cancelTrip(s)
    \/ \E a \in Activities : \/ startActivity(s, a)
                             \/ completeActivity(s, a)
                             \/ skipActivity(s, a)
                             \/ syncLocation(s, a)

Next ==
    \/ \E i \in Itineraries : EditItinerary(i) \/ startTrip(i)
    \/ \E a \in Activities : EditActivity(a)
    \/ \E u \in Users : getActiveSession(u)
    \/ \E s \in Sessions : FollowTrip(s)

Spec == Init /\ [][Next]_vars

-----------------------------------------------------------------------------
(* Properties.                                                             *)

\* A user has at most one ACTIVE session, whatever is archived, healed,
\* edited or restarted in between (startTrip's 409 and the auto-heal).
OneActiveTrip == \A u \in Users : \A s, t \in ActiveOf(u) : s = t

\* The rows of an ACTIVE session are those of the itinerary's present items:
\* every edit is carried over to the session that follows the itinerary.
ActiveMirrorsPlan ==
    \A s \in Sessions : session[s].status = "ACTIVE" =>
        Present(progress[s]) = ItemsOf(item, session[s].itin)

\* ... and they follow one another in an order that the days and order indices of
\* the itinerary allow, whatever indices clients send, with ties, for part of a day, and
\* whatever day was optimized, reordered or deleted since: activities that the
\* itinerary orders are in its order, and those that it does not have one order all the same.
ActiveOrderAgrees ==
    \A s \in Sessions : session[s].status = "ACTIVE" =>
        \A a, b \in Present(progress[s]) :
            /\ Before(item, a, b) => progress[s][a].idx < progress[s][b].idx
            /\ a # b => progress[s][a].idx # progress[s][b].idx

\* The current activity of an ACTIVE session is never a deleted one, and only
\* a session that lost all its activities is without one (the promise in the
\* comment of reconcileItineraryChange).
CurrentNotDeleted ==
    \A s \in Sessions : session[s].status = "ACTIVE" =>
        \/ session[s].current \in Present(progress[s])
        \/ session[s].current = None /\ Present(progress[s]) = {}

\* An ACTIVE session has something left to do, unless all its activities were
\* deleted: the trip ends by itself with its last activity, also when that is
\* skipped, or deleted from the itinerary.
NotStranded ==
    \A s \in Sessions : session[s].status = "ACTIVE" =>
        Present(progress[s]) = {} \/ Unfinished(progress[s]) # {}

\* A cancelled session is stamped and points at no activity; an ACTIVE one
\* has no end stamp.
EndStamps ==
    \A s \in Sessions :
        /\ session[s].status = "CANCELLED" => session[s].ended /\ session[s].current = None
        /\ session[s].status = "ACTIVE" => ~ session[s].ended

\* "Preserves completed progress": a COMPLETED row is never sent back to
\* NOT_STARTED or IN_PROGRESS, whatever is done to the itinerary.
CompletedPreserved ==
    [][\A s \in Sessions, a \in Activities : progress[s][a].status = "COMPLETED" =>
           progress'[s][a].status \in {"COMPLETED", "SKIPPED", "ABSENT"}]_vars

\* The rows of an ended session are the record of the trip: no later request
\* changes one, it only disappears with its activity (the foreign key).
HistoryFrozen ==
    [][\A s \in Sessions : session[s].status \in {"COMPLETED", "CANCELLED"} =>
           \A a \in Activities :
               \/ progress'[s][a] = progress[s][a]
               \/ progress'[s][a] = NoRow /\ item'[a].itin = None]_vars

\* Activities and sessions belong to an itinerary that has been created, and an
\* activity that has not been created yet is not in the table.
References ==
    /\ \A a \in Activities :
          /\ item[a].itin # None => Exists(item[a].itin)
          /\ a > lastItem => item[a] = NoItem
    /\ \A s \in Sessions :
          IF session[s].status = "NONE" THEN session[s] = NoSession
          ELSE session[s].itin # None /\ Exists(session[s].itin)

\* The inductive invariant of the proofs in TripSessionProofs.
IInv ==
    /\ TypeOK
    /\ References
    /\ OneActiveTrip
    /\ ActiveMirrorsPlan
    /\ CurrentNotDeleted
    /\ NotStranded
    /\ EndStamps

\* The sessions as the abstract specification TripLifecycle sees them.
openSessions == [u \in Users |-> ActiveOf(u)]
overSessions == {s \in Sessions : session[s].status \in {"COMPLETED", "CANCELLED"}}

Lifecycle == INSTANCE TripLifecycle WITH open <- openSessions, over <- overSessions

\* Every request, however it heals, cascades or reconciles, is a step of
\* TripLifecycle or leaves the sessions' lifetimes alone.
LifecycleSpec == Lifecycle!Spec

=============================================================================
