# A verification project for lombok-explorer

lombok-explorer is the backend of a travel application for Lombok: an Express
server in TypeScript (`src/src`) over PostgreSQL through Prisma
(`src/prisma/schema.prisma`).  Clients plan an itinerary of days and activities, or
have one generated, follow it as a *trip session* while they travel, look for
destinations, review and collect them, and share posts in a feed.  Administrators
curate the content and moderate.

This directory holds TLA+ models of the parts whose correctness depends on the
order in which things happen or on arithmetic at a border, the TLC configurations
that check them, and proofs for TLAPS.  `PROJECT.json` maps every definition to the
lines it models and lists what is hard to test, line by line.

    tlc -config TripSessionEdits.cfg MCTripSession.tla      # one run
    tlapm TripSessionProofs.tla                             # one module's proofs

## 1. The system

Every handler is an `async` function of one Node.js process: between two `await`s
nothing else runs, and at every `await` any other request may.  The process keeps
little between requests: three caches (featured destinations, categories, weather).
The rest of the state is PostgreSQL's, and Cloudinary's for images.  Some repository
methods use an interactive transaction at the default level READ COMMITTED.  Most
services make several calls of the repository one after another *without* a
transaction, so a request is a sequence of separately committed statements that other
requests interleave with and that a failure can cut short.

| component | state | operations | interacts with | what is hard |
|---|---|---|---|---|
| **Trip sessions** `itineraries/trip-sessions.*` | `TripSession` (status, current activity, stamps), `TripActivityProgress` rows (status, orderIndex) | start, active session, start/complete/skip an activity, location, finish, cancel, reconcile | reads the itinerary; writes `isCompleted` of its items; called back by every edit of it; Mapbox for legs | state read many awaits before it is used; four writes that are not atomic; three different tests for "the trip is over"; sessions of archived itineraries |
| **Itineraries** `itineraries.*` | `Itinerary`, `ItineraryDay`, `ItineraryItem` (order, schedule, legs, totals) | create, update, archive, duplicate, from a template; add, delete, optimise, edit a day; add, edit, delete, reorder activities | reconciles trip sessions; the route services | one live plan per user; re-indexing; a cascade of recalculations over days |
| **Expenses**, **journals** `expenses`, `journals`, and the link that shares a trip | `Expense`, `TravelJournal`, `Itinerary.shareToken` | create, edit, delete, list, sum up; share | itineraries | an edit that writes back what it read; two requests that share at once |
| **Generation and routes** `itinerary-generator.service.ts`, `itineraries/services/` | none | choose destinations and times; matrix, order, directions | Mapbox, with timeouts, retries and fallbacks | arithmetic at the borders of days; answers with gaps |
| **Templates**, **checklists** `admin/itinerary-templates`, `checklists` | header rows with rows below them | edits that replace all rows | itineraries, Cloudinary | overlapping replacements |
| **Feed** `feeds` | `Post` with cached `likeCount`, `commentCount`; likes, comments, bookmarks, reports, media | create, edit, delete a post; like, comment, bookmark, report; lists by cursor | notifications, Cloudinary | counters next to the rows they count; two stores without a transaction; a list that moves while it is read |
| **Moderation** `admin/feeds` | the same tables | delete comments, post status, reports | feed | writes the feed's tables without its bookkeeping |
| **Notifications**, **devices** `notifications`, `devices`, `admin/notifications` | `Notification`, `DeviceToken` | create, read, broadcast; register, deactivate | Firebase, fire-and-forget | an answer that arrives after a phone changed hands; limits |
| **Accounts** `auth`, `users`, `admin/users` | `User` (status, deletedAt, password, one refresh token, avatar), `UserIdentity` | register, login, refresh, logout, Google sign-in, linking, password, suspension, deletion, avatar | everything, by the auth middleware; Cloudinary | several writers of one refresh token; a status checked before or after the write it should prevent |
| **Favorites**, **reviews** | `Favorite`, `Review`, the rating of a destination | toggle, list; write, moderate, delete | destinations | check-then-insert; an aggregate recomputed in a statement of its own |
| **Admin content and galleries** `admin/{destinations,accommodations,restaurants,categories,*-images}` | rows, covers, gallery images | create, edit, publish, delete, primary image | Cloudinary, both caches | assets uploaded before a row that may fail to be written; deletion after a check |
| **Public catalogue** `destinations`, `categories`, `accommodations`, `restaurants` | two caches | list, featured, search, nearby, details | admin content | staleness, paging, a search in two queries |
| **Recommendations** `recommendations` | none | score the candidates | favorites, reviews | rules that have to agree on an order |
| **Weather** `weather` | a cache, a provider | get | OpenWeather | a provider that never answers |

What makes each correct, in short:

* *Trip sessions*: a user has one ACTIVE session; it has a row for exactly the
  activities of its itinerary, in an order its days and indices allow; its current activity exists; it has
  something left to do, or it ends; ended sessions are history; whatever is
  interrupted is repaired later.
* *Itineraries*: after an edit, legs, times and totals of what it reaches are those
  its rows call for, and nothing else changes.
* *Generation, routes*: nothing twice, nothing lost, days that can be walked as written.
* *Feed*: counters equal the rows they count; images exist as long as a post shows
  them and no longer; a reader sees every item once.
* *Accounts*: who may not sign in has no session that can be refreshed; nobody loses
  the last way in; a Google account belongs to one user.
* *Notifications*: a push goes to whoever is signed in on the phone, and to nobody else.
* *Expenses, journals*: edits of different fields both stay; a link that was given out
  stays open; sums and pages show every row once.
* *Content*: covers and galleries show images that exist; nothing is cached longer
  than agreed; a deleted category has no destinations.

## 2. The modules

| module | models | granularity |
|---|---|---|
| `TripSession` | trip sessions and the itinerary they follow: all requests of `trip-sessions.service.ts`, the edits of `itineraries.service.ts` and the reconciliation each ends in | one action per request |
| `TripLifecycle` | abstract specification: what a user can tell of the lifetimes of sessions | one action per change |
| `TripSessionProofs` | theorems about `TripSession` | |
| `TripSessionSteps`, `TripSessionStepsProofs`, `TripRequestsProofs` | the same requests, several at a time, with failures; theorems about them, and about their composition `MCTripRequests` | one action per `await` |
| `ItineraryPlan`, `ItineraryPlanProofs` | the schedule of a plan: days, activities, legs, times, totals, and the recalculation that follows edits; templates; theorems | one action per request |
| `PlanGenerator` | `generateItinerary`: candidates, clock, lunch, price | one action per turn of its loops |
| `TravelMatrix`, `RouteOrder` | the table of distances with its gaps; the order of a day's stops, by Mapbox or by nearest neighbour and 2-opt | one action per pass |
| `RouteLegs` | Directions: retries, batches, one leg at a time, the great circle, the polyline | one action per answer |
| `FeedInteractions` | likes, comments, deletion, moderation of one post | one action per SQL statement |
| `FeedPosts` | posts, their images, bookmarks, reports | one action per `await` |
| `FeedPaging` | every list that is read by cursor | one action per page |
| `Reviews` | reviews and the rating they aggregate to | one action per `await` |
| `Favorites` | favorites and their lists | one action per `await`, or page |
| `MediaAssets` | covers and galleries, five kinds of owner | one action per `await`, or call that may fail |
| `Avatars` | three ways to change an avatar | one action per `await` |
| `Catalogue` | destinations and categories against both caches; deletion of a category | one action per `await` |
| `DestinationSearch` | lists, search, nearby, details of destinations, accommodations and restaurants | one action per query |
| `Recommendations` | candidates and the rules that score them | one action per query |
| `TravelRecords` | the link that shares an itinerary, expenses, journals | one action per `await` |
| `Sorting` | `ORDER BY`, `LIMIT` and `OFFSET`, for the modules that read lists | |
| `RowReplacement` | edits that replace the rows below a header: checklists, templates | one action per SQL statement |
| `PushDelivery` | device tokens, notifications, pushes and FCM's answers | one action per `await` |
| `WeatherCache` | weather by cache and provider, with time | one action per `await` |
| `Accounts`, `AccountsProofs` | accounts, refresh tokens, identities; theorems | one action per `await` |
| `ContentRequestsProofs`, `ContentProofs` | theorems about `MCContent`: lemmas on the parts with overlapping requests; those on lists, routes and sums, and the theorems | |
| `ServicesProofs` | theorems about the parts of `MCServices` | |
| `MC*` | constants for TLC; `MCContent`, `MCServices`, `MCTripRequests` put several modules in one run | |

The parts of `MCContent` and `MCServices` share no state.  A behaviour is of one part,
chosen at the beginning; in `MCContent` the variables of the others are `Absent`, in `MCServices` they stay as they begin.  So the
states of such a run are the sum of its parts', not their product, and a property of the run is a conjunction
of `part = "..." => <the part's property>`.  `MCTripRequests` does the same with four
instances of `TripSessionSteps`.  Where parts do influence each other in
the code they are in one module: itinerary and session (`TripSession`), account and
avatar (`Avatars`), destination, category and caches (`Catalogue`), cover, gallery and
assets (`MediaAssets`), device, notification and sign-in (`PushDelivery`), post, report
and assets (`FeedPosts`).

An operator `name_variant` next to an operator `name` is the same operator with a
slip that would be easy to make in the code (a dropped guard, a missing reset, a
stale read).  They are not part of any specification: each property is shown to
distinguish the code from one of them.

### TripSession

State: `itinerary` (live or archived), `item` (the activities, with day and
orderIndex), `session`, `progress` (rows by session and activity).  An action is a
whole request, with everything the handler calls: `addActivity` includes
`reconcileItineraryChange`, `startTrip` includes the auto-heal of an orphaned
session, `deleteItinerary` the cancellation of its sessions, and deleting an item
the cascade of the foreign key.  Clients choose `orderIndex`, when they create an
itinerary, add an activity or reorder some of a day, and it is stored as it comes, with
ties; `optimizeRoute` renumbers the activities that have coordinates and leaves the others'
indices.  So a query may return a day in several orders: `Listings` is the set of them, and
each handler that numbers what it read takes one.  Requests are atomic here, so this module answers
what *sequences* of requests can do.  Times are abstracted to "is there an end
stamp", coordinates and route legs are left out, and whether `syncLocation` accepts an arrival
is a free choice.

### TripLifecycle

The promise a user sees: a user has at most one running trip; a trip begins, after
ending the one that ran before, and ends; an ended trip stays in the history.
`TripSession` implements it under the mapping `openSessions`, `overSessions`.

### TripSessionSteps

One user, one itinerary, and `Slots` for requests in progress.  A request is a
record of its program counter and of what it has read so far; an action is what runs
between two awaits, so it ends with one repository call.  What a handler read early
and uses late (the session's status, the itinerary's items, the list of rows) is in
the record and may be stale by then.  `Fail` drops a request at any await: a call
that failed, or a process that stopped.  A failed reconciliation is the same thing,
because the code logs the error and answers the edit.

### ItineraryPlan

State: `plan` (the live row of a user: where it starts, total travel time, budget),
`day` (a sequence: start time and start place of its own, totals), `item` (day,
orderIndex, place, cost, the leg to it, start time), and `edited`, which only
the properties read.  The heart is `Recalculated`, which is
`recalculateDayRouteAndSchedule` with the days its recursion reaches.  Rows with equal
orderIndex come back from the database in any order, and equal indices are normal:
clients may choose an index, and `optimizeRoute` renumbers only some activities of a
day.  So `Recalculations` is the set of all results, one for each order and each
activity that may count as the last of the day before.  Each edit is its
change followed by one of them, except those that do not recalculate in the code either:
`addDay`, `deleteDay`, `duplicateItinerary`, `applyTemplate`.  Distances follow travel times through the
same matrix and are left out; the route optimizer may return any order that keeps the
first activity first; a request is atomic.

### FeedInteractions

One post and `Slots` for transactions in progress, at READ COMMITTED.  A statement
that writes keeps the row locked until its transaction commits; what it wrote is
visible to others only then.  The last statement of a transaction and the commit are
one action, because the locks it takes keep everybody out between the two.  The
guards `LikeLocked`, `CommentLocked`, `PostReferenced`, `PostLocked` and
`ChildrenLocked` are PostgreSQL's: unique index, row locks, and the foreign keys
that lock the post against deletion.  `abort` rolls a transaction back anywhere.

### Content, one paragraph each

`FeedPosts` keeps `post`, `asset` (what Cloudinary has), one request in progress and the
reports.  The database and Cloudinary share no transaction; a request reads, writes, and cleans up
images after it.  A failure the code does not handle marks the images it leaves
behind (`excused`), which only the properties read.

`FeedPaging` is the one list of which posts, comments and bookmarks are instances, a cursor,
and a client that reads on; items are created and hidden between two pages.  Items may
have the same time, ids decide then.

`Reviews` and `Favorites` split requests at their awaits, so two of them overlap
between check and insert, and between write and aggregation.  `settled` records what a request that ran
alone leaves the rating to be; only the property reads it.

`MediaAssets` is one entity of one of five kinds: destinations, accommodations and restaurants with
galleries, categories and templates with a cover, by URL and by public id.  Every call may fail; the guards say which
kind compensates how.  An image that is made primary writes its URL to the row before it is
written itself, and nothing takes that back; `dropped` are the images of galleries that the
code leaves at Cloudinary.  Only the properties read `dropped`.  `Avatars` does the same for three ways to change an avatar, overlapping.

`Catalogue` has rows, both caches and a clock.  A reader that misses asks the database in one
step and fills the cache in a later one.  A request of an administrator commits, and clears
the caches it knows of in a later step, so that readers and other administrators run in
between; `updateDestination`, `createCategory` and `updateCategory` read their row again before, and clear
nothing if that fails.  `deleteCategory` is a step per statement, and one that clears.

`DestinationSearch` has the table, a client that goes from page to page, and the queries of a
list, a search (three of them), a category, nearby, and details.  What a query sorts by is a score;
no query has a last sort key that tells all rows apart, so each returns rows of equal score
in an order of its own (`TieBreaks`).

`PlanGenerator` takes one turn of the inner loop per step, with the code's arithmetic on
minutes and kilometres.  `TravelMatrix` fills the gaps of Mapbox's table; `RouteOrder`
keeps the tour and turns one part of it per step of 2-opt, if that saves more than ten metres.  `RouteLegs` takes one answer per step:
retries, batches, single legs, the great circle, the polyline's differences and chunks.

`Recommendations` reads likes, then candidates, scores them by the code's rules in tenths, and sorts.

`RowReplacement` takes one SQL statement per step at READ COMMITTED: what a `DELETE` removes is what was
committed when it began, a row lock or a unique key makes others wait.

`TravelRecords` is one of three topics per behaviour: the link of an itinerary, expenses, journals.
A request reads a row, looks at whose it is, and writes what it was asked to or what it
read.  `links` remembers what links the owner was given, `meant` what each field was last set to; only the properties read them.

### Services and accounts

`PushDelivery` has the tokens' table, notifications, pushes under way, and what the server
cannot know for sure: which apps are installed, and who is signed in there.  FCM calls a token
invalid when it does not know it, or when something is wrong with the message
(`messaging/invalid-argument`); `refused` are the tokens deactivated for the second reason since
they were registered, and only the properties read it.

`WeatherCache` has a clock.  A request asks the provider, which answers, fails, or is
silent until `timeout`.

`Accounts` has the rows of users and identities and, per slot, the request between two awaits
with what it has read.  `epoch` counts revocations, so that a token can be told from the one
before; `overlap` records whether requests have ever run at the same time, and only the
properties read it.

## 3. What TLC checks

"Pass" runs check what the code keeps; "violation" runs check a sentence of the
repository's documentation or comments that the code does not keep.

| run | instance | what it shows |
|---|---|---|
| `trip_edits` | 1 itinerary, 3 activities, 2 days, 1 session, indices with ties | after every request an ACTIVE session has exactly the itinerary's activities (`ActiveMirrorsPlan`), in an order that its days and indices allow (`ActiveOrderAgrees`), and something left to do (`NotStranded`); what is completed stays so through every edit (`CompletedPreserved`) |
| `trip_lifecycle` | 2 itineraries of one user, 2 activities, 2 sessions, 1 day | the inductive invariant of the proofs (`IInv`) through archiving, orphaning, healing and restarting; sessions implement `TripLifecycle` (`LifecycleSpec`); ended sessions keep their rows (`HistoryFrozen`) |
| `plan_edits` | 2 activities, 2 days, 2 places, a template | whatever was deleted, copied, reordered or optimized before, an edit of a day leaves that day and the days its cascade reaches consistent with their rows (`EditRepairs`) and touches no other (`CascadeStops`); the budget never falls below the costs, but for a template's until it is recalculated (`PlanInv`) |
| `steps_safety` | part *follow*: 2 requests at a time, 3 activities; part *crash*: one request after another, 2 abandoned at any await | overlapping requests lose no `isCompleted` flag (`StepsInv`), strand no session (`NobodyStranded`) and bring none back (`EndedStaysEnded`); the next reconciliation that runs to its end repairs what an abandoned one left (`CrashRepaired`) |
| `steps_liveness` | parts *ends* and *orphans*: 2 requests at a time, up to 3 activities and 2 sessions, fairness | a trip whose client keeps completing ends by itself (`EveryTripEnds`); after a deletion a polling client gets rid of every ACTIVE session for good (`NoOrphanLeft`) |
| `accounts` | 2 users, 2 Google accounts, 2 requests at a time | references stay sound (`IInv`); one request after another, nobody locked out has a refresh token (`LockedOut`); whatever overlaps, everybody keeps a way in (`LastWayIn`) and no Google account changes users (`NeverRelinked`) |
| `content` | fifteen parts, below | images, counters, aggregates, paging, caches, generated plans, routes, search, row replacement, expenses, journals and links; the tables of every part stay well-formed (`TypeOK`) |
| `services` | three parts, below | pushes, directions, weather |
| `steps_two_active` | 2 overlapping `startTrip` | **violated**: two ACTIVE sessions |
| `steps_resurrect` | an edit and a cancellation | **violated**: a reconciliation in progress makes a cancelled session ACTIVE again |
| `feed_like_lost` | a like and an unlike | **violated**: `likeCount` loses a like |

The parts of `content` and `services`:

| part | module and bounds | what it shows |
|---|---|---|
| posts | `FeedPosts`: 2 posts, 3 images, the author and an administrator | shown images exist, hidden or replaced ones are removed (`ImagesExist`, `NothingLeft`) |
| likes | `FeedInteractions` with all its operations: one transaction at a time, 3 comments | one after another `likeCount` is exact, `commentCount` never too low (`AggregatesAgree`) |
| crowd | `FeedInteractions` with likes, comments, deletion, moderation of the post and rollbacks: 3 transactions at a time, 2 users, 2 comments | while nothing is taken back, counters are exact and a like notifies once (`CountersExact`) |
| paging | `FeedPaging`: 4 items, pages of 1 and 2 | nothing twice, nothing missed (`EveryItemOnce`) |
| reviews | `Reviews`: 2 reviews, 2 requests at a time | a review written alone makes the rating exact, whatever overlapped before (`AggregatesAgree`) |
| favorites | `Favorites`: a target of each kind, 2 requests at a time, pages of 2 | what clients are told adds up (`AnswersAddUp`); lists show each once (`SumsAgree`) |
| media | `MediaAssets`: each kind, 2 covers, 2 gallery images | covers and galleries show images that exist, one of them primary; the URL of a cover does but for images its gallery has lost; nothing stays but the images `dropped` names (`ImagesExist`, `NothingLeft`) |
| avatars | `Avatars`: 2 requests at a time, 3 images | the same for avatars |
| catalogue | `Catalogue`: 1 destination, 2 categories, 1 reader, 1 administrator's request next to a deletion, times to live 1 | bounded staleness, edits shown once the cache is cleared, a deleted category has no destination (`CachesFresh`, `DeletedUnused`) |
| generator | `PlanGenerator`: 3 destinations, 2 days | no repeats, days that can be walked (`PlanSound`), the price adds up (`SumsAgree`) |
| route | `RouteOrder`: up to 5 stops on a line, 4 with a table that has gaps | every stop once, ends where they belong, no way for free (`PlanSound`), nothing left to turn that saves more than ten metres unless the attempts, 2 here, are used up (`ToursSettled`) |
| search | `DestinationSearch`: 3 places, pages of 2, 3 read for nearby | search within list, pages complete but for equals on both sides of a page's end, nearest first, what is shown opens (`SearchSound`, `EveryItemOnce`) |
| recommendations | `Recommendations`: 2 to 3 destinations, 2 of them scored | nothing better left out (`SearchSound`) |
| rows | `RowReplacement`: 2 overlapping edits of 2 rows | all of a request's rows or none; of one request where something serializes them (`RowsWhole`) |
| records | `TravelRecords`: 2 rows and 2 links, 2 requests at a time, pages of 1 | links that were given out stay open, no edit takes another back (`AnswersAddUp`), sums and pages add up (`SumsAgree`) |
| push | `PushDelivery`: 2 users, 2 tokens, 2 pushes, 1 token at a time | pushes go to who is signed in, and to all of them but for messages FCM refuses (`RightHands`); dead tokens are retired (`DeadTokensRetired`) |
| legs | `RouteLegs`: up to 3 stops, 2 retries, batches of 2 | every leg once and in order, the line goes through the stops (`DirectionsSound`), and it ends (`Answered`) |
| weather | `WeatherCache`: 2 requests, time to live 2, timeout 1, time to 4 | nothing older than allowed (`FreshEnough`), everybody answered (`Answered`) |

### Bounds, and why they are enough

* *Activities*: three is the least number with a finished, a current and a next one,
  and with a middle one to delete or move; the hazards are about pairs.
* *Days*: two, so that the order of a session runs over a day's end and a day with
  activities can be deleted before another.
* *Itineraries and sessions*: two of each, the least number for one to displace
  another.  A third session would start from the same states as the second, because
  an ended session takes part in nothing.
* *A plan* (`plan_edits`): two days are one step of the cascade, which the recursion
  repeats, and one day to stop at; two activities are one with a place before or after
  one without, two of equal orderIndex, or an emptied day.  The second place is a lodging, which
  `optimizeRoute` and copies treat differently.  A day of three minutes
  (`Midnight`) makes schedules wrap around, and bounds the drift of start times.
  No action reads `edited`, so the run's VIEW leaves it out.
* *Requests at a time*: two (three in the part *crowd*, where one deletes the post while
  two like).  Every hazard listed in `PROJECT.json` is a race of two.
* *Lists*: one item more than two pages' worth at the smallest page, so that a page ends
  inside a run of equal times and a cursor may have lost its item.
* *Indices*: `trip_edits` has clients send 0 only, so that every two activities of a day may
  tie; activities without an index and optimized ones have others.  `trip_lifecycle` has 0 and 1.
* *Times to live*: a list of the catalogue lives for one tick, the least in which an entry can be
  filled late and read before it expires; the clock goes to 1, so it expires as well.  An answer
  about the weather lives for two, longer than its request waits (1); the clock goes to 4.
* *Routes*: four stops are the least with two inner edges that 2-opt can exchange, five leave
  something to do for a second pass.
* *Batches and limits* (`MaxMulticast`, `maxWaypoints`, `MaxRead`, `MaxCandidates`) are one less than
  what there is, so that both sides of the limit occur.
* `MaxFailures`, `MaxComments`, `MaxNotified`, `MaxEpoch` bound how often a request is dropped, how
  many comments are ever written, how far notifications are counted (beyond 1 the
  property is broken already), and how often a session is revoked.  `MaxActivities` and
  `MaxSessions` bound identifiers, which the code never reuses.

Where a run says `CHECK_DEADLOCK FALSE`, the system may really stop: clients need not
send anything, or a bound is used up.

### Fairness

`ServerFairness` says that every call a request awaits is answered, so each request
goes on: Node's event loop runs the callbacks that are due.  It holds only for runs
without failures (`MaxFailures = 0`).  What clients do is never assumed in general: `TripEnds` assumes one that
keeps completing what it sees unfinished (`GuidedSpec`), `OrphansEnd` one that polls
for its active session (`PollingSpec`), as the Android guide tells clients to do.
Both are strong fairness because a slot is a bound of the model: a real server always
accepts another request, in the model the other requests can occupy all slots again
and again.

`PushDelivery` assumes that FCM answers, that of the pushes to a token not all are abandoned, and
that users go on being notified; `RouteLegs` that each attempt ends, by an answer or by
axios' timeout; `WeatherCache` that time passes and the abort timer fires.  The provider is
not assumed to answer.

## 4. What is proved

TLC looks at the instances above; TLAPS proves these for every value of the constants.

**TripSessionProofs**: any number of users, itineraries, activities, days, sessions.
`OneActiveTrip`, `ActiveMirrorsPlan`, `CurrentNotDeleted` and `NotStranded` are not
inductive one by one.  `startTrip` returns or heals the session it finds, and this leaves at
most one only if there was at most one before; `CurrentNotDeleted` after a completion needs
`NotStranded` before it, and both need the rows to be those of the plan.  The
invariant is therefore

    IInv == TypeOK /\ References /\ OneActiveTrip /\ ActiveMirrorsPlan
            /\ CurrentNotDeleted /\ NotStranded /\ EndStamps

`References` says that rows refer to what has been created, which makes a new
activity or session a fresh one; `EndStamps` ties the stamps of a session to its status.
The heart is a lemma about `reconcileItineraryChange`: from *any* rows of the session it
establishes the parts that speak of that session, and leaves the others alone.  Every edit
ends in it, so each edit has a short proof; the requests that follow a trip are proved
one by one.  Theorems: `Invariant`, `TypeCorrect`, `OneActiveTripAlways`,
`ActiveMirrorsPlanAlways`, `CurrentNotDeletedAlways`, `NotStrandedAlways`.

The second half of the module is about steps instead of states.  One lemma says what a request may do to a
row, and the action properties `HistoryFrozen` and `CompletedPreserved` follow from it together
with `FreshRows`: `startTrip` writes rows of a session that has just begun, and this changes no history only if
it had none.  The refinement of `TripLifecycle` (`Refinement`) says that a step of the abstract
specification, or none, is all that happens to the sessions: `OneActiveTrip` is what makes a request end one
session at most, and the healing in `startTrip` the end of one together with the beginning of another.

`ActiveOrderAlways` is there too.  A reconciliation and a start number the rows as one of the itinerary's
`Listings` has them (`ReconcileOrders`, `StartOrders`); a request that changes what orders the activities reconciles
before it ends, and all others leave day and index of every activity, and the numbers of the rows, alone
(`OrderStepsKeep`, `SamePlaces`).  It holds of any indices, ties included.

**ItineraryPlanProofs**: plans of any size, with any costs, travel times, templates and starts.
`PlanInvAlways`, `CascadeStopsAlways` and `EditRepairsAlways` have one invariant,

    Inv == Whole(Tables) /\ edited \in 0 .. Len(day) /\ Covered(Tables)

`Whole` and `Covered` speak of any tables instead of the variables, because a request goes through several:
an edit, its recalculation, perhaps another for each day (`EachRecalculatedCovers`, `OptimizedDaysCover`).  `Kept` is
all that the other proofs need of a recalculation (`RecalculatedKeeps`): which rows, and what of a row,
it leaves alone, and that it has the budget cover the costs unless the day is empty.  `EditOf` is what an edit does before it:
it touches one day, and leaves either an activity there or costs that are covered already.  `EditStep` puts the two together
for all edits of a day; the others follow one by one.

`EditRepairsAlways` needs no invariant about legs and times, and could have none: deletions, copies and templates
leave days stale.  It is a property of the recalculation itself, from whatever tables it starts.
In the order it goes by, each leg is the one from where a traveller comes (`WhereaboutsAre`, `LegToIs`), each start
follows from the one before on a clock that wraps around at midnight (`WrapsOnce`, `ScheduledInTurn`), and the
totals are sums of what it wrote.  What makes the day consistent in the tables it leaves, and not only in those it read, is that it
writes none of the columns that order a day's rows or give its origin (`OrderOnce`, `SameOrdersSame`, `SameWhereabouts`), and that
the rows it writes for one day are not those of another (`RecalculatedWrites`): hence `RecalculatedConsistent`.

The budget is compared with a sum over a set of activities.  What is needed of sums (that they are natural numbers, that a part is not
more than the whole, that equal costs have equal sums) is proved from the definition
of `SumFunctionOnSet`, and so is that the recursive functions of the model exist, by induction in the form that the
prover can use: a set of natural numbers with 0 and all successors is `Nat` (`EveryNatural`).

**TripSessionStepsProofs**: any number of requests at a time, activities and sessions.  Each theorem states
what it excludes, and each exclusion is needed: `steps_two_active` and `steps_resurrect` show what happens otherwise.

* `TypeCorrect`, of all operations, overlapping and failing.  Its second half is `CreatedInv`: sessions are
  numbered without gaps, and handlers only know created ones.
* `FlagFollowsRowAlways`, if no call fails.  `startTrip` and the reconciliation write COMPLETED rows from what
  they read earlier, so what a request has read as completed must still be so (`SeenStaysDone`),
  and the request that sets the mark gives up when the activity is gone, which loses nothing because the
  rows go with the activity (`RowsRefer`).  One lemma (`StepKeeps`) says what the step of a
  handler must do to keep the four parts of `FlagInv`; each await is an instance of it.
* `StaysEndedAlways`, without edits: only the reconciliation writes ACTIVE to a session it
  read before, and nobody is at one (`NoEdits`).
* `NotStrandedAlways`, without edits and failures.  `StrandInv` says of every ACTIVE session that it has no rows,
  something unfinished, or a request under way that will look at it again (`Open`): of several requests that finish the
  last activities, the last to write its row finds the others done.
* `RepairsAlways`, if requests do not overlap, whatever was abandoned before: `Reconciles` says at each await of a
  reconciliation what of the itinerary is in its record and already in the rows.

**TripRequestsProofs** carries these over to `MCTripRequests`, the composition that `steps_safety` runs:
`StepsInvAlways`, `NobodyStrandedAlways`, `EndedStaysEndedAlways`, `CrashRepairedAlways`.  The part *follow* is the module the
theorems are about; the part *crash* is an instance of it with failures, and so are the theorems (`CrashProofs`).

**AccountsProofs**: any number of users, Google accounts and requests, under any overlap.

    IInv == TypeOK /\ RequestInv /\ LastWayIn /\ SerialInv /\ LockedOut /\ SessionsRevoked

`RequestInv` says what a request in progress may rely on of what it has read; `hardDelete` ends
the requests of the user it removes, whose later statements would find no row.  `LockedOut` and
`SessionsRevoked` speak of requests that come one after another, and `SerialInv` of the single
request there is then: under overlap they fail, because a login that has read an account may
write its token after the suspension.  Theorems: `Invariant`,
`TypeCorrect`, `LockedOutAlways`, `SessionsRevokedAlways`, `LastWayInAlways`, `NeverRelinkedAlways`.

**ServicesProofs**: the parts of `services` with any users, devices, pushes, locations, providers, times and ways.
`RightHandsAlways` has an active token belong to who is signed in, and says where a token of
somebody signed in may be inactive: an answer of FCM may be used late, on a token registered anew since, and only the
step that deactivates it knows whether FCM still knew it (`refused`).
`FreshEnoughAlways` needs that a request is abandoned in time (`WeatherInv`), because
what it is answered is stamped when it began; two that overlap may overwrite each other's answers in any order.
`DirectionsSoundAlways` says that directions have a leg from each stop to the next, however long the way
and whatever batches and retries brought, and that the polyline leads back to the stops.  For that half the encoding is
a concatenation of pieces (`EncodedIsJoined`), and the reader a recursive function along the line: where a number
begins, it has it after the chunks of that number and is ready for the next (`ReadChunks`, by induction on the number,
and `ReadSigned`, for the sign in the lowest bit); so it has the differences of the coordinates after the whole line
(`NumbersRead`), and their sums are the way (`PolylineDrawn`).  `TypeCorrect` rests on the same invariants.

**ContentRequestsProofs**, **ContentProofs**: all fifteen parts of `content`, for any number of rows, images, requests, readers, users and comments,
any catalogues, stops, ratings, page sizes and times to live.  `PartsAlways` is the conjunction of the parts' invariants,
and each theorem a consequence of it.

* `ImagesExistAlways`, `NothingLeftAlways`.  Two stores without a transaction: what Cloudinary has is what rows show and what
  requests hold.  `PostsInv` says that no image is two posts' (`MediaApart`), that what a request was sent is nobody
  else's until it is used (`SentApart`), and that what it will delete is its own post's (`RemovedApart`, `RequestKnows`).
  `MediaInv` says at each statement what a failure there must and must not delete: what is new while the row may still refuse it, what
  is old once it cannot (`DeletesApart`), and that nothing else is there but what the code leaves there (`CloudSound`).  It
  says the same of the public id and the gallery, and of the URL which assets it may name in vain.  `AvatarInv` does so
  for overlapping replacements by three ways (`OwnApart`, `RequestsSound`, `NothingElse`).
* `AggregatesAgreeAlways`.  `LikesInv` says that the one request in progress has read the counters as they still
  are, although a moderator may act between two of its statements; `ReviewInv`
  that nobody is at work next to a request that is alone, so what it has counted is still so when it
  writes the rating.
* `CountersExactAlways`, `LikesNotifiedOnce`, for any number of users, comments and transactions.  `LikeInv` says, next to the exact
  count, that a like being inserted is held by one transaction alone and is not in the table yet (`LikeWritersExclusive`, what
  the unique index gives), that the post is not deleted under it (`Stages`), and that a notification is owed to one request at
  most and only for a like in the table (`NotifyStages`).  A comment being written is nobody else's, and the
  foreign key keeps the post until it is counted (`CommentStages`).  Nobody may take a like back, or delete a single comment: with unlikes `feed_like_lost` has a
  counterexample.
* `CachesFreshAlways`, `DeletedUnusedAlways`.  A reader with an answer in hand has what was there or left no earlier than it
  asked (`AnswersWere`); a cache has what left less than its time to live before it expires (`CachesWere`).  The list of featured
  destinations is what there is as long as no request has yet to clear it and the last one did (`EditsShown`): a reader who
  asked before a commit may fill the cache after it, so what it has in hand is compared when the cache is cleared (`AnswersShown`).  A deletion has
  moved everything that used the category before it (`MovedAway`).
* `RowsWholeAlways`.  What is committed, found or deleted is whole, what is inserted may not be yet (`AllWhole`);
  edits of one header go one after another (`OneAtATime`), of one number too (`NumbersTaken`).
* `EveryItemOnceAlways`.  `ORDER BY` is the bijection `Sorted` with places (who has `k - 1` rows before it is in place `k`), and `Rows`
  what `LIMIT` and `OFFSET` cut out of it; their lemmas say who is on a page, in what order, and that it is short only if nothing follows.
  Nothing a client was shown is behind its cursor, and what was there all along has been shown or is behind it (`ReadSoFar`), whether
  or not the cursor's own row is still there.  Page by page, it has been shown as many as there are, in the order asked for, as long as
  nothing is changed; a row that is on one page with all its equals is there whichever way they come.
* `SearchSoundAlways`.  The queries filter alike and read again what the first found (`SearchInv`); nearest first and best first are the orders of
  `Sorted` again, and the rules that score a candidate are only compared with themselves (`BetterFirst`).
* `AnswersAddUpAlways`.  What favorites say to overlapping requests is what its table holds, in which nothing is twice (`FavoritesInv`);
  links given to the owner are known (`LinksKnown`), until two requests that have both read an itinerary without one clash;
  an edit writes the fields it names to the row as it is then (`NothingTakenBack`), and the row is of its own table (`RowsNamed`).
* `PlanSoundAlways`.  `Fits` says of a plan in progress that each visit is of a destination that is visited by now, and of no other, and
  that it is `Timely`, after the way from the one before; the clock is never behind the last visit.  Of a
  tour `RouteInv` says that it has each stop once: the beginning of one while stops are added, a permutation that keeps its ends while parts
  of it are turned (`Tour`, `WholeRoute`).
* `ToursSettledAlways`.  Whatever the distances and however often it may try: where the optimizer stops with
  attempts left, it has looked at every part of the tour between its fixed ends, and none saves more than ten metres.
* `TypeCorrect`.  Most types are parts of the invariants above; `TypesInv` has the others.  That an average is never above the best rating needs a theory of
  sums: a sum over a finite set exists, does not depend on the order of its terms (`TotalAny`), and is at most the number of its terms
  times the greatest of them (`TotalBelow`).
* `SumsAgreeAlways`.  The price of a plan in progress is that of its days and of the visits of the day (`PriceKept`), and so are the
  categories of the expenses a way to split the total (`GroupsAddUp`).  Rounding loses half a tenth of a percent per category at most, and the
  halves add up (`RoundedAddUp`).  A number up to the total is in one place of one page (`OnePlace`), so a list that does not change is
  shown once; journals are sorted anew for each page, but two lists by date have the same dates in the same places (`SameDates`).

Assumptions: the named ASSUMEs of the modules (each itinerary has an owner, bounds, amounts and dates are
natural numbers, the operations offered are among those that exist, ids of different tables differ, page sizes are not zero,
catalogues and lists of stops are sequences, tables are finite, and a table of Mapbox has natural numbers where it has any), which TLC evaluates
in the runs, and the hypotheses of the theorems (the operations that are
excluded; that no call fails, or no requests overlap).

Only model-checked:

* Liveness (`EveryTripEnds`, `NoOrphanLeft`, `DeadTokensRetired`, `Answered`), which the prover does not do.
* Whether the optimizer stops before its `maxIterations` turns, which depends on the distances: `ToursSettled` speaks
  of tours where it does.

The provers cannot use the library's induction theorems.  Where a proof needs induction it is stated with sets: a set of natural
numbers with 0 and all successors is `Nat` (`EveryNatural`), a family of sets that has the empty one and can always
take one member more has every finite set (`EveryFiniteSet`).

## 5. Where the code and what is said of it part

`PROJECT.json` quotes the lines.

* **Two active trips**: `startTrip` looks for an active session, then asks for routes,
  then inserts.  Nothing in the schema forbids a second ACTIVE session, so two overlapping
  starts create two, although the guide calls the operation idempotent.
* **A cancelled trip comes back**: `reconcileItineraryChange` ends by writing `ACTIVE` or
  `COMPLETED` to the session it read at its beginning.
* **A lost like**: `removeLike` writes the count read at the beginning of its transaction
  minus one, while `addLike` increments in the database.  `softDeleteComment` does
  the same with `commentCount`; so the part *crowd* of `content`, whose requests overlap, leaves both out, and
  the part *likes* has them one after another.

Met while modelling, part of the models' behaviours or of what they leave out, without a
run of their own:

*Trips and plans*

* `syncLocation` completes a session when no row is NOT_STARTED (`trip-sessions.service.ts:1092`);
  `completeActivity` also looks for rows IN_PROGRESS.
* A day without a start time begins, at each recalculation, later by its first leg.
* After `deleteDay` and after the last activity of a day is deleted, the totals of the plan and
  the first leg of the next day stay as they were until the next edit there.
* `duplicateItinerary` copies neither the days' starts nor the references to restaurants and
  accommodations, but the legs that led to them.  A template update drops these references too, creation keeps them.
* `updateItinerary` accepts `totalEstimatedBudget`, the repository's `updateMasterData` writes no
  such column (`itineraries.service.ts:1033`, `itineraries.repository.ts:665`).
* A template's budget may be below its costs until the plan is recalculated.
* In `optimizeRoute`, stops without coordinates keep their orderIndex; it ends by reading the plan by the
  id it was given instead of the one it resolved.  The local optimizer minimises distance, its comment
  (`mapbox-optimization.service.ts:164`) says travel time.
* The generator counts a destination it cannot reach as visited; the last visit of a day may
  overrun it, and the clock wraps at midnight.
* Two overlapping updates of a checklist's items alone, or of a template's days with different
  numbers, take no common lock and can mix.  `findTemplateById` reads in several
  statements, so a plan may be made from half an update.

*Content*

* A rejected review counts again after the next traveller's write; the public list shows it;
  removing an account leaves the rating as it was.
* When the row cannot be read back after a commit, new images that it shows are deleted.  Images dropped
  from a gallery by an update, and galleries of deleted accommodations and restaurants, stay at
  Cloudinary; deleting the primary image leaves none.  An image made primary has its URL written to
  `coverImageUrl` first: if the statement after fails, its asset is deleted, and so it is when the image is replaced or
  deleted later; the cover shows it still (`admin-destination-images.service.ts:104`, `215`).
  A failing `updatePost`, and overlapping edits of one post, may leave or lose images.
* An avatar may be an image of a post (`validateAssetOwnership`), and replacing it deletes the post's.
* `deleteCategory` accepts the category's own slug as the one to reassign to; if it fails
  after reassigning, neither cache is cleared.  Nor is it when an update of a destination, or a new or updated category, cannot be read back after
  the commit (`admin-destinations.service.ts:536`): the lists stay as they were for their time to live.  Archived categories stay listed.  Edits of destinations leave
  category counts stale for five minutes.  `updateDestination` sets a status and leaves `deletedAt`.
* Drafts are in the public list and among recommendations, the search has published
  destinations alone; favorites show archived ones and drafts.
* A search page beyond the end says that there are none at all; equal sort keys have no tie-breaker, so
  of rows that tie across the end of a page one may be shown twice and another never; a search
  reads rows again without checking `deletedAt`; nearby looks at any 200 destinations.
* Recommendations: `radius_km` defaults to 100, so `radiusKm` is never used; the aliases `style`, `budget` and
  `categoryId` are accepted and ignored; asking by a category's id gives no bonus for it.

*Accounts and services*

* Overlapping requests can give a suspended account a refresh token; a valid access token
  completes a registration after the account's deletion.  An administrator's deletion of an account
  keeps its device tokens and posts; posts of a closed account can be restored.
* FCM's `messaging/invalid-argument`, which speaks of the message, deactivates tokens that are fine;
  such a phone is without pushes until its app registers again.
* An older answer about the weather may overwrite a newer one; the name of the provider
  is read after the answer.

## 6. Plan

Done, in this order: `TripSession` with `TripLifecycle` and its proofs, `TripSessionSteps`,
`FeedInteractions` and proofs, `ItineraryPlan`, `Accounts` and proofs, `PushDelivery`, content and
galleries, the algorithms of routes and generation, the caches, search, recommendations, row
replacement, expenses, journals and links; then the proofs about overlapping trip requests, about services, about plans and about content with its counters, lists, plans, routes, sums and types.  Left:

1. The statements of overlapping recalculations of one plan, and of creating two plans at the
   same time, which leaves both live.
2. A bound on the turns of the route optimizer, from the distances.
3. The number of destinations a category is listed with, which edits of destinations leave stale.

## 7. Not modelled

* *Dashboard, audit log, trip sessions and featured recommendations of administrators*: queries, appends, and
  writes of one row.
* *HTTP, validation, i18n, configuration, the seed*: no state that an order of events could spoil.
* *Code without callers*: `calculateRouteLegsAndPolyline` and `encodePolyline` of the matrix
  service, `fallbackPrismaSearch` of the destinations, `softDeletePost`, `setProvider`.
* *Firebase, Cloudinary, Mapbox, OpenWeather* are environment: their answers are free choices.
* What stays with TLC alone is listed in section 4.
