----------------------------- MODULE FeedPaging -----------------------------
(***************************************************************************)
(* Reading a list page by page with a cursor while the list changes        *)
(* (src/src/modules/feeds): the feed and a user's posts, newest first; the *)
(* comments of a post, newest or oldest first; the bookmarks of a user,    *)
(* newest first.  They share the cursor, the filter behind it and the row  *)
(* fetched beyond the page, so they are one list of items here.            *)
(*                                                                         *)
(* One client reads the list from its beginning to its end.  Times of      *)
(* creation have the precision of the cursor, so several items may have    *)
(* the same one; ids are random, so they say nothing about the order.      *)
(***************************************************************************)
EXTENDS Sorting

CONSTANTS
    Ids,      \* a set of numbers: ids compare
    Limits,   \* page sizes a client asks for
    MaxTime   \* bound: times of creation

VARIABLES
    item,     \* what there is
    clock,
    list,     \* which list the client reads
    reader    \* cursor (<<>> is none), what was shown, and what was there all along

vars == <<item, clock, list, reader>>

Lists == {"posts", "comments asc", "comments desc", "bookmarks"}

Ascending == list = "comments asc"

NoItem == [time |-> 0, visible |-> FALSE]

Shown(i) == item[i].visible

\* kept: the items that have been visible since the client began to read.
Beginning(kept) == [cursor |-> <<>>, shown |-> <<>>, kept |-> kept, done |-> FALSE]

TypeOK ==
    /\ item \in [Ids -> [time : 0 .. MaxTime, visible : BOOLEAN]]
    /\ clock \in 1 .. MaxTime
    /\ list \in Lists
    /\ reader.cursor \in {<<>>} \union ((1 .. MaxTime) \X Ids)
    /\ reader.shown \in Seq(Ids)
    /\ reader.kept \subseteq Ids

Init ==
    /\ item = [i \in Ids |-> NoItem]
    /\ clock = 1
    /\ list \in Lists
    /\ reader = Beginning({})

\* The order of the list, and of the pairs of a cursor.
Before(k, l) ==
    \/ IF Ascending THEN k[1] < l[1] ELSE k[1] > l[1]
    \/ k[1] = l[1] /\ IF Ascending THEN k[2] < l[2] ELSE k[2] > l[2]

Key(i) == <<item[i].time, i>>

Behind_byTime(i) ==
    reader.cursor = <<>> \/ IF Ascending THEN item[i].time > reader.cursor[1]
                                             ELSE item[i].time < reader.cursor[1]

\* The condition on createdAt and id that a cursor adds.
Behind(i) == reader.cursor = <<>> \/ Before(reader.cursor, Key(i))

InListOrder(found) ==
    Sorted(found, {p \in found \X found : Before(Key(p[1]), Key(p[2]))})

\* One row more than asked for, to know whether there is another page.
findManyWithCursor(limit) ==
    Rows(InListOrder({i \in Ids : Shown(i) /\ Behind(i)}), 0, limit + 1)

\* The key of the last item on the page, if there is another page.
nextCursor(rows, limit) == IF Len(rows) > limit THEN Key(rows[limit]) ELSE <<>>

-----------------------------------------------------------------------------
ReadPage(limit) ==
    /\ ~ reader.done
    /\ LET rows == findManyWithCursor(limit)
           page == Rows(rows, 0, limit)
           next == nextCursor(rows, limit)
       IN  reader' = [reader EXCEPT !.cursor = next, !.shown = @ \o page, !.done = (next = <<>>)]
    /\ UNCHANGED <<item, clock, list>>

getFeeds(limit) == list = "posts" /\ ReadPage(limit)

getComments(limit) == list \in {"comments asc", "comments desc"} /\ ReadPage(limit)

\* The times and ids are those of the bookmarks, and a hidden post hides its own.
getUserBookmarks(limit) == list = "bookmarks" /\ ReadPage(limit)

\* A cursor that cannot be read is none.
Restart ==
    /\ reader' = Beginning({i \in Ids : Shown(i)})
    /\ UNCHANGED <<item, clock, list>>

\* The time is that of the insertion, in milliseconds.
Create(i) ==
    /\ item[i] = NoItem
    /\ item' = [item EXCEPT ![i] = [time |-> clock, visible |-> TRUE]]
    /\ UNCHANGED <<clock, list, reader>>

Tick ==
    /\ clock < MaxTime
    /\ clock' = clock + 1
    /\ UNCHANGED <<item, list, reader>>

\* A moderator hides a post or shows it again; a deleted comment stays so.
SetVisible(i, visible) ==
    /\ visible => list \in {"posts", "bookmarks"}
    /\ item[i].time # 0
    /\ item' = [item EXCEPT ![i].visible = visible]
    /\ reader' = [reader EXCEPT !.kept = IF visible THEN @ ELSE @ \ {i}]
    /\ UNCHANGED <<clock, list>>

Next ==
    \/ \E limit \in Limits : getFeeds(limit) \/ getComments(limit) \/ getUserBookmarks(limit)
    \/ Restart
    \/ Tick
    \/ \E i \in Ids : Create(i) \/ \E visible \in BOOLEAN : SetVisible(i, visible)

Spec == Init /\ [][Next]_vars

-----------------------------------------------------------------------------
(* Properties.                                                             *)

\* Whatever is created, hidden and shown again meanwhile, a client that goes from
\* page to page is shown nothing twice, also among items of the same millisecond.
NothingTwice == \A m, n \in DOMAIN reader.shown : reader.shown[m] = reader.shown[n] => m = n

\* ... and at the end it has been shown everything that was there all along.
NothingMissed == reader.done => reader.kept \subseteq {reader.shown[n] : n \in DOMAIN reader.shown}

=============================================================================
