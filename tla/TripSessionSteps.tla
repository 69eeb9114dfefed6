-------------------------- MODULE TripSessionSteps --------------------------
(***************************************************************************)
(* The trip session requests split at their awaits                         *)
(* (src/src/modules/itineraries/trip-sessions.service.ts, with             *)
(* deleteItinerary, addActivity and deleteActivity of                      *)
(* itineraries.service.ts).                                                *)
(*                                                                         *)
(* The server is one Node process over one database.  An action is what a  *)
(* handler does between two awaits: one database call and the code behind  *)
(* it.  Requests of one user, from several devices or repeated by an       *)
(* impatient client, occupy the Slots and interleave at every await; any   *)
(* call can fail, which abandons the rest of its handler.                  *)
(*                                                                         *)
(* One user and one itinerary of a single day, whose activities are listed *)
(* in the order in which they were added; 0 stands for "no activity".      *)
(*                                                                         *)
(* An operator name_variant is the operator name with a slip that would be *)
(* easy to make in the code; a property is worth checking only if one of   *)
(* them breaks it.                                                         *)
(***************************************************************************)
EXTENDS Naturals, FiniteSets, FiniteSetsExt

CONSTANTS
    Slots,           \* requests in progress at the same time
    Ops,             \* the operations the client uses
    InitialItems,    \* activities in the itinerary at the start
    MaxActivities,   \* bound: activities ever added
    MaxSessions,     \* bound: sessions ever created
    MaxFailures      \* bound: database calls that fail

Activities == 1 .. MaxActivities
Sessions   == 1 .. MaxSessions

ASSUME BoundsAssumption ==
    /\ MaxActivities \in Nat
    /\ InitialItems \in 0 .. MaxActivities
    /\ MaxSessions \in Nat
    /\ MaxFailures \in Nat

FollowOps == {"startActivity", "completeActivity", "skipActivity", "syncLocation"}
CloseOps == {"finishTrip", "cancelTrip"}
EditOps == {"addActivity", "deleteActivity"}
AllOps == FollowOps \union CloseOps \union EditOps
             \union {"startTrip", "getActiveSession", "deleteItinerary"}

ASSUME OpsAssumption == Ops \subseteq AllOps

VARIABLES
    live,        \* the itinerary's deletedAt is null
    items,       \* its activities
    done,        \* the activities with isCompleted set
    lastItem,    \* activities 1 .. lastItem have been added
    session,     \* table trip_sessions
    row,         \* table trip_activity_progress: status by session and activity
    req,         \* the local variables of the handler in each slot
    failures     \* calls that have failed

vars == <<live, items, done, lastItem, session, row, req, failures>>
plan == <<live, items, done, lastItem>>

SessionStatus == {"NONE", "ACTIVE", "COMPLETED", "CANCELLED"}
RowStatus == {"ABSENT", "NOT_STARTED", "IN_PROGRESS", "COMPLETED", "SKIPPED"}

Labels == {"idle", "findProgress", "updateProgress", "flagItem", "listProgress",
           "promote", "updateSession", "close", "findActive", "heal",
           "createSession", "cancelAll", "archive", "findSession", "readItinerary",
           "listExisting", "repair", "listRefreshed", "reconcileSession"}

\* pc: the await the handler is at.  s, a: the session and the activity of the
\* request.  next, ends: what it decided.  seen, seenDone, add, del: what it read.
Idle == [op |-> "none", pc |-> "idle", s |-> 0, a |-> 0, next |-> 0, ends |-> FALSE,
         seen |-> {}, seenDone |-> {}, add |-> {}, del |-> {}]

TypeOK ==
    /\ live \in BOOLEAN
    /\ items \subseteq Activities
    /\ done \subseteq Activities
    /\ lastItem \in 0 .. MaxActivities
    /\ session \in [Sessions -> [status : SessionStatus, current : Activities \union {0}]]
    /\ row \in [Sessions -> [Activities -> RowStatus]]
    /\ req \in [Slots -> [op : AllOps \union {"none"}, pc : Labels,
                          s : Sessions \union {0}, a : Activities \union {0},
                          next : Activities \union {0}, ends : BOOLEAN,
                          seen : SUBSET Activities, seenDone : SUBSET Activities,
                          add : SUBSET Activities, del : SUBSET Activities]]
    /\ failures \in 0 .. MaxFailures

Init ==
    /\ live = TRUE
    /\ items = 1 .. InitialItems
    /\ done = {}
    /\ lastItem = InitialItems
    /\ session = [s \in Sessions |-> [status |-> "NONE", current |-> 0]]
    /\ row = [s \in Sessions |-> [a \in Activities |-> "ABSENT"]]
    /\ req = [p \in Slots |-> Idle]
    /\ failures = 0

-----------------------------------------------------------------------------
(* Reading the tables.                                                     *)

First(S) == IF S = {} THEN 0 ELSE Min(S)

Present(s)    == {a \in Activities : row[s][a] # "ABSENT"}
NotStarted(s) == {a \in Activities : row[s][a] = "NOT_STARTED"}
Unfinished(s) == {a \in Activities : row[s][a] \in {"NOT_STARTED", "IN_PROGRESS"}}

ActiveSessions == {s \in Sessions : session[s].status = "ACTIVE"}

\* findFirst with orderBy startedAt desc.
ActiveSession == IF ActiveSessions = {} THEN 0 ELSE Max(ActiveSessions)

Created == {s \in Sessions : session[s].status # "NONE"}

At(p, pc) == req[p].pc = pc

\* The handler goes on to the next await, or is over.
Goto(p, r) == req' = [req EXCEPT ![p] = r]
Return(p) == Goto(p, Idle)

Offered(p, op) == At(p, "idle") /\ op \in Ops

-----------------------------------------------------------------------------
(* startActivity, completeActivity, skipActivity and syncLocation with an   *)
(* accepted arrival.                                                        *)

\* The handler finds the session ACTIVE and goes on to read the row.
readSession(p, op, s, a) ==
    /\ Offered(p, op)
    /\ session[s].status = "ACTIVE"
    /\ Goto(p, [Idle EXCEPT !.op = op, !.pc = "findProgress", !.s = s, !.a = a])
    /\ UNCHANGED <<plan, session, row, failures>>

\* The row statuses an operation goes on with.
Accepted(op) ==
    CASE op = "startActivity" -> {"NOT_STARTED"}
      [] op = "skipActivity"  -> {"NOT_STARTED", "IN_PROGRESS", "COMPLETED"}
      [] OTHER                -> {"NOT_STARTED", "IN_PROGRESS", "SKIPPED"}

findProgress(p) ==
    /\ At(p, "findProgress")
    /\ IF row[req[p].s][req[p].a] \in Accepted(req[p].op)
       THEN Goto(p, [req[p] EXCEPT !.pc = "updateProgress"])
       ELSE Return(p)
    /\ UNCHANGED <<plan, session, row, failures>>

Target(op) ==
    CASE op = "startActivity" -> "IN_PROGRESS"
      [] op = "skipActivity"  -> "SKIPPED"
      [] OTHER                -> "COMPLETED"

\* The update by id throws when the row has been deleted since.
updateProgress(p) ==
    LET s == req[p].s
        a == req[p].a
    IN  /\ At(p, "updateProgress")
        /\ IF row[s][a] = "ABSENT"
           THEN Return(p) /\ UNCHANGED row
           ELSE /\ row' = [row EXCEPT ![s][a] = Target(req[p].op)]
                /\ CASE req[p].op = "startActivity" ->
                          Goto(p, [req[p] EXCEPT !.pc = "updateSession", !.next = a])
                     [] req[p].op = "skipActivity" ->
                          Goto(p, [req[p] EXCEPT !.pc = "listProgress"])
                     [] OTHER -> Goto(p, [req[p] EXCEPT !.pc = "flagItem"])
        /\ UNCHANGED <<plan, session, failures>>

flagItem_forgotten(p) ==
    /\ At(p, "flagItem")
    /\ Goto(p, [req[p] EXCEPT !.pc = "listProgress"])
    /\ UNCHANGED <<plan, session, row, failures>>

flagItem(p) ==
    /\ At(p, "flagItem")
    /\ IF req[p].a \notin items
       THEN Return(p) /\ UNCHANGED done
       ELSE Goto(p, [req[p] EXCEPT !.pc = "listProgress"]) /\ done' = done \union {req[p].a}
    /\ UNCHANGED <<live, items, lastItem, session, row, failures>>

listProgress_skippedIsLeft(p) ==
    LET s == req[p].s
        a == req[p].a
        next == First(NotStarted(s) \ {a})
    IN  /\ At(p, "listProgress")
        /\ Goto(p, [req[p] EXCEPT
                !.pc = IF next # 0 THEN "promote" ELSE "updateSession",
                !.next = next,
                !.ends = \A b \in Present(s) \ {a} : row[s][b] = "COMPLETED"])
        /\ UNCHANGED <<plan, session, row, failures>>

listProgress(p) ==
    LET s == req[p].s
        a == req[p].a
        next == First(NotStarted(s) \ {a})
    IN  /\ At(p, "listProgress")
        /\ Goto(p, [req[p] EXCEPT
                !.pc = IF next # 0 THEN "promote" ELSE "updateSession",
                !.next = next,
                !.ends = /\ next = 0
                         /\ \/ req[p].op = "syncLocation"
                            \/ Unfinished(s) \ {a} = {}])
        /\ UNCHANGED <<plan, session, row, failures>>

\* The row the handler chose becomes IN_PROGRESS, whatever it is by now.
promote(p) ==
    LET s == req[p].s
        n == req[p].next
    IN  /\ At(p, "promote")
        /\ IF row[s][n] = "ABSENT"
           THEN Return(p) /\ UNCHANGED row
           ELSE /\ row' = [row EXCEPT ![s][n] = "IN_PROGRESS"]
                /\ Goto(p, [req[p] EXCEPT
                        !.pc = IF req[p].op \in EditOps THEN "reconcileSession"
                               ELSE "updateSession"])
        /\ UNCHANGED <<plan, session, failures>>

updateSession_writesActive(p) ==
    LET s == req[p].s IN
    /\ At(p, "updateSession")
    /\ session' = [session EXCEPT ![s] =
          IF req[p].ends THEN [status |-> "COMPLETED", current |-> 0]
          ELSE [status |-> "ACTIVE",
                current |-> IF req[p].next # 0 THEN req[p].next ELSE @.current]]
    /\ Return(p)
    /\ UNCHANGED <<plan, row, failures>>

updateSession_keepsStatus(p) ==
    LET s == req[p].s IN
    /\ At(p, "updateSession")
    /\ session' = [session EXCEPT ![s].current = req[p].next]
    /\ Return(p)
    /\ UNCHANGED <<plan, row, failures>>

updateSession(p) ==
    LET s == req[p].s IN
    /\ At(p, "updateSession")
    /\ session' = [session EXCEPT ![s] =
          IF req[p].ends THEN [status |-> "COMPLETED", current |-> 0]
          ELSE IF req[p].next # 0 THEN [@ EXCEPT !.current = req[p].next] ELSE @]
    /\ Return(p)
    /\ UNCHANGED <<plan, row, failures>>

-----------------------------------------------------------------------------
(* finishTrip and cancelTrip.                                              *)

readToClose(p, op, s) ==
    /\ Offered(p, op)
    /\ session[s].status # "NONE"
    /\ op = "finishTrip" => session[s].status # "COMPLETED"
    /\ Goto(p, [Idle EXCEPT !.op = op, !.pc = "close", !.s = s])
    /\ UNCHANGED <<plan, session, row, failures>>

close(p) ==
    /\ At(p, "close")
    /\ session' = [session EXCEPT ![req[p].s] =
          [status |-> IF req[p].op = "finishTrip" THEN "COMPLETED" ELSE "CANCELLED",
           current |-> 0]]
    /\ Return(p)
    /\ UNCHANGED <<plan, row, failures>>

-----------------------------------------------------------------------------
(* startTrip and getActiveSession.                                         *)

\* Starting a trip reads the itinerary once, before everything else.
readTrip(p) ==
    /\ Offered(p, "startTrip")
    /\ live
    /\ Cardinality(Created) + Cardinality({q \in Slots : req[q].op = "startTrip"})
          < MaxSessions
    /\ Goto(p, [Idle EXCEPT !.op = "startTrip", !.pc = "findActive",
                            !.seen = items, !.seenDone = items \intersect done])
    /\ UNCHANGED <<plan, session, row, failures>>

\* With no activities the handler answers EMPTY_ITINERARY instead of creating.
CreateOrReturn(p) ==
    IF req[p].seen = {} THEN Return(p) ELSE Goto(p, [req[p] EXCEPT !.pc = "createSession"])

\* An ACTIVE session is returned as it is, or healed if the itinerary is gone.
findActive(p) ==
    /\ At(p, "findActive")
    /\ IF ActiveSession = 0 THEN CreateOrReturn(p)
       ELSE IF live THEN Return(p)
       ELSE Goto(p, [req[p] EXCEPT !.pc = "heal", !.s = ActiveSession])
    /\ UNCHANGED <<plan, session, row, failures>>

findOrphan(p) ==
    /\ Offered(p, "getActiveSession")
    /\ ActiveSession # 0
    /\ ~ live
    /\ Goto(p, [Idle EXCEPT !.op = "getActiveSession", !.pc = "heal", !.s = ActiveSession])
    /\ UNCHANGED <<plan, session, row, failures>>

heal_keepsStatus(p) ==
    /\ At(p, "heal")
    /\ session' = [session EXCEPT ![req[p].s].current = 0]
    /\ IF req[p].op = "startTrip" THEN CreateOrReturn(p) ELSE Return(p)
    /\ UNCHANGED <<plan, row, failures>>

heal(p) ==
    /\ At(p, "heal")
    /\ session' = [session EXCEPT ![req[p].s] = [status |-> "CANCELLED", current |-> 0]]
    /\ IF req[p].op = "startTrip" THEN CreateOrReturn(p) ELSE Return(p)
    /\ UNCHANGED <<plan, row, failures>>

\* One transaction, from what readTrip saw; a foreign key of the rows makes it
\* fail when an activity has been deleted since.
createSession(p) ==
    LET s == Cardinality(Created) + 1
        first == First(req[p].seen \ req[p].seenDone)
    IN  /\ At(p, "createSession")
        /\ IF req[p].seen \subseteq items
           THEN /\ s \in Sessions
                /\ session' = [session EXCEPT ![s] =
                      [status |-> IF first = 0 THEN "COMPLETED" ELSE "ACTIVE",
                       current |-> first]]
                /\ row' = [row EXCEPT ![s] = [a \in Activities |->
                      IF a \notin req[p].seen THEN "ABSENT"
                      ELSE IF a \in req[p].seenDone THEN "COMPLETED"
                      ELSE IF a = first THEN "IN_PROGRESS" ELSE "NOT_STARTED"]]
           ELSE UNCHANGED <<session, row>>
        /\ Return(p)
        /\ UNCHANGED <<plan, failures>>

-----------------------------------------------------------------------------
(* deleteItinerary.                                                        *)

readToDelete(p) ==
    /\ Offered(p, "deleteItinerary")
    /\ live
    /\ Goto(p, [Idle EXCEPT !.op = "deleteItinerary", !.pc = "cancelAll"])
    /\ UNCHANGED <<plan, session, row, failures>>

cancelAll(p) ==
    /\ At(p, "cancelAll")
    /\ session' = [s \in Sessions |-> IF s \in ActiveSessions
                                      THEN [status |-> "CANCELLED", current |-> 0]
                                      ELSE session[s]]
    /\ Goto(p, [req[p] EXCEPT !.pc = "archive"])
    /\ UNCHANGED <<plan, row, failures>>

archive(p) ==
    /\ At(p, "archive")
    /\ live' = FALSE
    /\ Return(p)
    /\ UNCHANGED <<items, done, lastItem, session, row, failures>>

-----------------------------------------------------------------------------
(* Adding or deleting an activity, and the reconciliation that follows.    *)

addActivity(p) ==
    /\ Offered(p, "addActivity")
    /\ lastItem < MaxActivities
    /\ lastItem' = lastItem + 1
    /\ items' = items \union {lastItem'}
    /\ Goto(p, [Idle EXCEPT !.op = "addActivity", !.pc = "findSession"])
    /\ UNCHANGED <<live, done, session, row, failures>>

\* The rows of the activity go with it (foreign key, ON DELETE CASCADE).
deleteActivity(p, a) ==
    /\ Offered(p, "deleteActivity")
    /\ a \in items
    /\ items' = items \ {a}
    /\ row' = [s \in Sessions |-> [row[s] EXCEPT ![a] = "ABSENT"]]
    /\ Goto(p, [Idle EXCEPT !.op = "deleteActivity", !.pc = "findSession"])
    /\ UNCHANGED <<live, done, lastItem, session, failures>>

\* The session found here is not read again: next holds its currentActivityId.
findSession(p) ==
    /\ At(p, "findSession")
    /\ IF ActiveSession = 0 THEN Return(p)
       ELSE Goto(p, [req[p] EXCEPT !.pc = "readItinerary", !.s = ActiveSession,
                                 !.next = session[ActiveSession].current])
    /\ UNCHANGED <<plan, session, row, failures>>

readItinerary(p) ==
    /\ At(p, "readItinerary")
    /\ Goto(p, [req[p] EXCEPT !.pc = "listExisting", !.seen = items,
                              !.seenDone = items \intersect done])
    /\ UNCHANGED <<plan, session, row, failures>>

listExisting_newestOnly(p) ==
    /\ At(p, "listExisting")
    /\ Goto(p, [req[p] EXCEPT !.pc = "repair", !.del = Present(req[p].s) \ req[p].seen,
                              !.add = (req[p].seen \ Present(req[p].s)) \intersect {lastItem}])
    /\ UNCHANGED <<plan, session, row, failures>>

listExisting(p) ==
    /\ At(p, "listExisting")
    /\ Goto(p, [req[p] EXCEPT !.pc = "repair", !.del = Present(req[p].s) \ req[p].seen,
                              !.add = req[p].seen \ Present(req[p].s)])
    /\ UNCHANGED <<plan, session, row, failures>>

deleteProgress(p) ==
    LET a == Min(req[p].del) IN
    /\ At(p, "repair")
    /\ req[p].del # {}
    /\ row' = [row EXCEPT ![req[p].s][a] = "ABSENT"]
    /\ Goto(p, [req[p] EXCEPT !.del = @ \ {a}])
    /\ UNCHANGED <<plan, session, failures>>

\* The upsert leaves the status of a row that exists by now; it fails, and the
\* reconciliation with it, when the activity has been deleted since.
upsertProgress(p) ==
    LET s == req[p].s
        a == Min(req[p].add)
    IN  /\ At(p, "repair")
        /\ req[p].del = {}
        /\ req[p].add # {}
        /\ IF a \notin items
           THEN Return(p) /\ UNCHANGED row
           ELSE /\ row' = [row EXCEPT ![s][a] =
                      IF @ # "ABSENT" THEN @
                      ELSE IF a \in req[p].seenDone THEN "COMPLETED" ELSE "NOT_STARTED"]
                /\ Goto(p, [req[p] EXCEPT !.add = @ \ {a}])
        /\ UNCHANGED <<plan, session, failures>>

\* The re-indexing keeps the order; then the session's rows are read again.
listRefreshed(p) ==
    LET s == req[p].s
        kept == req[p].next \in req[p].seen
        next == IF kept THEN req[p].next ELSE First(Unfinished(s) \intersect req[p].seen)
        fresh == ~ kept /\ next \in NotStarted(s)
    IN  /\ At(p, "repair")
        /\ req[p].del = {}
        /\ req[p].add = {}
        /\ Goto(p, [req[p] EXCEPT !.pc = IF fresh THEN "promote" ELSE "reconcileSession",
                                  !.next = next,
                                  !.ends = Present(s) # {} /\ Unfinished(s) = {}])
        /\ UNCHANGED <<plan, session, row, failures>>

reconcileSession(p) ==
    /\ At(p, "reconcileSession")
    /\ session' = [session EXCEPT ![req[p].s] =
          [status |-> IF req[p].ends THEN "COMPLETED" ELSE "ACTIVE", current |-> req[p].next]]
    /\ Return(p)
    /\ UNCHANGED <<plan, row, failures>>

-----------------------------------------------------------------------------

\* A database call rejects: the rest of the handler is not run.
Fail(p) ==
    /\ ~ At(p, "idle")
    /\ failures < MaxFailures
    /\ failures' = failures + 1
    /\ Return(p)
    /\ UNCHANGED <<plan, session, row>>

Submit(p) ==
    \/ readTrip(p) \/ findOrphan(p) \/ readToDelete(p) \/ addActivity(p)
    \/ \E a \in Activities : deleteActivity(p, a)
    \/ \E s \in Sessions :
          \/ \E op \in CloseOps : readToClose(p, op, s)
          \/ \E op \in FollowOps, a \in Activities : readSession(p, op, s, a)

Continue(p) ==
    \/ findProgress(p) \/ updateProgress(p) \/ flagItem(p) \/ listProgress(p)
    \/ promote(p) \/ updateSession(p) \/ close(p)
    \/ findActive(p) \/ heal(p) \/ createSession(p)
    \/ cancelAll(p) \/ archive(p)
    \/ findSession(p) \/ readItinerary(p) \/ listExisting(p) \/ deleteProgress(p)
    \/ upsertProgress(p) \/ listRefreshed(p) \/ reconcileSession(p)

Next == \E p \in Slots : Submit(p) \/ Continue(p) \/ Fail(p)

Spec == Init /\ [][Next]_vars

\* Every call is answered at some time, and the event loop runs its callback.
ServerFairness == \A p \in Slots : WF_vars(Continue(p))

\* A client that completes the first activity it sees unfinished or, when there
\* is none, repeats the current one, again and again.  Strong fairness: a slot
\* is a bound of the model, a real request is always accepted.
completeNext(p, s) ==
    LET a == IF Unfinished(s) # {} THEN First(Unfinished(s)) ELSE session[s].current
    IN  a # 0 /\ readSession(p, "completeActivity", s, a)

GuidedSpec ==
    /\ Spec
    /\ ServerFairness
    /\ \A s \in Sessions : SF_vars(\E p \in Slots : completeNext(p, s))

\* A client that polls GET /trip-sessions/active.
PollingSpec == Spec /\ ServerFairness /\ SF_vars(\E p \in Slots : findOrphan(p))

-----------------------------------------------------------------------------
(* Properties.                                                             *)

AtRest == \A p \in Slots : At(p, "idle")

\* A COMPLETED row's activity has isCompleted set, or the request that will set
\* it is between its two writes: no interleaving of requests on the same
\* activity loses the mark of the itinerary (as long as no call fails).
FlagFollowsRow ==
    \A s \in Sessions, a \in Activities : row[s][a] = "COMPLETED" =>
        \/ a \in done
        \/ \E p \in Slots : At(p, "flagItem") /\ req[p].a = a

\* Once all requests are answered, an ACTIVE session has something left to do:
\* of two requests that finish the last two activities at the same time, one
\* sees that nothing is left, because each writes its row before it reads all.
NotStrandedAtRest ==
    AtRest => \A s \in ActiveSessions : Present(s) = {} \/ Unfinished(s) # {}

\* "ACTIVE -> COMPLETED / CANCELLED" (docs/ANDROID_TRIP_TRACKING_GUIDE.md): a
\* request that found a session ACTIVE does not bring it back after another has
\* ended it.  Holds without edits; a reconciliation does bring it back.
StaysEnded ==
    \A s \in Sessions : session[s].status \in {"COMPLETED", "CANCELLED"} =>
        session'[s].status # "ACTIVE"

\* The same of every step.
NotResurrected == [][StaysEnded]_vars

\* A reconciliation that runs to its end leaves the session with the rows of
\* the itinerary and a current activity among them, whatever step an earlier
\* one was abandoned at (requests not overlapping).
Repairs ==
    \A p \in Slots : reconcileSession(p) =>
        LET s == req[p].s IN
        /\ Present(s) = items
        /\ session'[s].current = 0 => Unfinished(s) = {}
        /\ session'[s].current # 0 => session'[s].current \in items
        /\ session'[s].status = "ACTIVE" => Present(s) = {} \/ Unfinished(s) # {}

\* With a client that keeps completing activities a trip ends by itself,
\* whatever other requests start, skip or complete at the same time.  One failed
\* call is enough to break it, although completing again is meant to be safe
\* (test "should safely and idempotently handle duplicate completion (offline
\* retry safe)"): the row is COMPLETED by then and the retry returns early.
TripEnds ==
    \A s \in Sessions : session[s].status = "ACTIVE" ~> session[s].status # "ACTIVE"

-----------------------------------------------------------------------------
(* What the documentation says and interleaved requests do not keep.       *)

\* docs/ANDROID_TRIP_TRACKING_GUIDE.md, section A, "Idempotent: if the session of
\* this itinerary is already active, the backend returns the running session".
OneActiveSession == Cardinality(ActiveSessions) <= 1

=============================================================================
