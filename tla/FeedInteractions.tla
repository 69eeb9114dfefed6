-------------------------- MODULE FeedInteractions --------------------------
(***************************************************************************)
(* Likes and comments of one feed post, and their cached counters          *)
(* (src/src/modules/feeds/feeds.repository.ts, feeds.service.ts and the    *)
(* moderation of src/src/modules/admin/feeds).                             *)
(*                                                                         *)
(* The repository runs each operation in an interactive transaction of     *)
(* PostgreSQL at its default level, READ COMMITTED.  An action is one      *)
(* statement of a transaction; the last statement and the commit are one   *)
(* action, because the row locks it takes keep everybody else out between  *)
(* the two.  What a transaction wrote before is not in the tables yet: it  *)
(* is held by the request (its pc says what) and locks the row.            *)
(*                                                                         *)
(* An operator name_variant is the operator name with a slip that would be *)
(* easy to make in the code; a property is worth checking only if one of   *)
(* them breaks it.                                                         *)
(***************************************************************************)
EXTENDS Integers, FiniteSets

CONSTANTS
    Users,
    Author,        \* the user who wrote the post
    Slots,         \* requests in progress at the same time
    Ops,           \* the operations clients and moderators use, of AllOps
    MaxComments,   \* bound: comments ever written
    MaxNotified    \* bound: notifications counted per user

Comments == 1 .. MaxComments

AllOps == {"likePost", "unlikePost", "createComment", "deleteComment", "deletePost",
           "adminDeleteComment", "adminUpdatePostStatus", "abort"}

VARIABLES
    post,       \* the row of table posts
    likes,      \* table post_likes: users who like the post
    comment,    \* table post_comments
    notified,   \* table notifications: POST_LIKED rows, by actor
    tx          \* the request in each slot

vars == <<post, likes, comment, notified, tx>>

\* deleted: status DELETED, deletedAt set; gone: the row has been removed.
PostState == {"live", "deleted", "gone"}
CommentState == {"none", "live", "deleted", "gone"}

Labels == {"idle", "findLike", "insertLike", "incrementLikes", "notify", "deleteLike",
           "decrementLikes", "insertComment", "incrementComments", "softDelete",
           "readCount", "decrementComments", "deleteRow", "cascade"}

\* count: the counter as the transaction read it.
Idle == [pc |-> "idle", op |-> "none", u |-> Author, c |-> 0, count |-> 0]

\* Counters are never negative, although updates of them can be lost.
TypeOK ==
    /\ post \in [state : PostState, likeCount : Nat, commentCount : Nat]
    /\ likes \subseteq Users
    /\ comment \in [Comments -> CommentState]
    /\ notified \in [Users -> 0 .. MaxNotified]
    /\ tx \in [Slots -> [pc : Labels, op : AllOps \union {"none"}, u : Users,
                         c : Comments \union {0}, count : Nat]]

Init ==
    /\ post = [state |-> "live", likeCount |-> 0, commentCount |-> 0]
    /\ likes = {}
    /\ comment = [c \in Comments |-> "none"]
    /\ notified = [u \in Users |-> 0]
    /\ tx = [r \in Slots |-> Idle]

-----------------------------------------------------------------------------
(* Locks of PostgreSQL that other transactions hold.                       *)

At(r, pc) == tx[r].pc = pc

Others(r, labels) == {q \in Slots \ {r} : tx[q].pc \in labels}

\* The like of u is inserted or deleted, but not committed.
LikeLocked(r, u) == \E q \in Others(r, {"incrementLikes", "decrementLikes"}) : tx[q].u = u

\* The comment is soft-deleted, but not committed.
CommentLocked(r, c) == \E q \in Others(r, {"readCount", "decrementComments"}) : tx[q].c = c

\* A row that refers to the post is inserted: its foreign key locks the post
\* against deletion.
PostReferenced(r) == Others(r, {"incrementLikes", "incrementComments"}) # {}

\* The post's row is deleted, but not committed.
PostLocked(r) == Others(r, {"cascade"}) # {}

\* Rows that deleting the post has to delete too are locked.
ChildrenLocked(r) == Others(r, {"decrementLikes", "readCount", "decrementComments"}) # {}

Offered(r, op) == At(r, "idle") /\ op \in Ops
Begin(r, op, pc, u, c) ==
    tx' = [tx EXCEPT ![r] = [pc |-> pc, op |-> op, u |-> u, c |-> c, count |-> 0]]
Goto(r, pc) == tx' = [tx EXCEPT ![r].pc = pc]
Return(r) == tx' = [tx EXCEPT ![r] = Idle]

\* max(0, n - 1)
Decremented(n) == IF n = 0 THEN 0 ELSE n - 1

-----------------------------------------------------------------------------
(* addLike and removeLike.                                                 *)

findPostToLike(r, op, u) ==
    /\ Offered(r, op)
    /\ post.state = "live"
    /\ tx' = [tx EXCEPT ![r] = [pc |-> "findLike", op |-> op, u |-> u, c |-> 0,
                                count |-> post.likeCount]]
    /\ UNCHANGED <<post, likes, comment, notified>>

findLike(r) ==
    /\ At(r, "findLike")
    /\ IF tx[r].op = "likePost"
       THEN IF tx[r].u \in likes THEN Return(r) ELSE Goto(r, "insertLike")
       ELSE IF tx[r].u \in likes THEN Goto(r, "deleteLike") ELSE Return(r)
    /\ UNCHANGED <<post, likes, comment, notified>>

insertLike_noUnique(r) ==
    /\ At(r, "insertLike")
    /\ ~ PostLocked(r)
    /\ IF post.state = "gone" THEN Return(r) ELSE Goto(r, "incrementLikes")
    /\ UNCHANGED <<post, likes, comment, notified>>

\* Fails on the unique index (user, post), or on the foreign key to the post.
insertLike(r) ==
    /\ At(r, "insertLike")
    /\ ~ LikeLocked(r, tx[r].u)
    /\ ~ PostLocked(r)
    /\ IF tx[r].u \in likes \/ post.state = "gone"
       THEN Return(r)
       ELSE Goto(r, "incrementLikes")
    /\ UNCHANGED <<post, likes, comment, notified>>

\* likeCount: { increment: 1 } is computed on the row as it is by then.
incrementLikes(r) ==
    /\ At(r, "incrementLikes")
    /\ likes' = likes \union {tx[r].u}
    /\ post' = [post EXCEPT !.likeCount = @ + 1]
    /\ IF tx[r].u = Author THEN Return(r) ELSE Goto(r, "notify")
    /\ UNCHANGED <<comment, notified>>

\* The notification of a new like or comment, after the commit; it is dropped
\* when the post or the comment is gone by now.  Only likes are counted.
notify(r) ==
    /\ At(r, "notify")
    /\ ~ PostLocked(r)
    /\ notified' = IF /\ tx[r].op = "likePost"
                      /\ post.state # "gone"
                      /\ notified[tx[r].u] < MaxNotified
                   THEN [notified EXCEPT ![tx[r].u] = @ + 1]
                   ELSE notified
    /\ Return(r)
    /\ UNCHANGED <<post, likes, comment>>

\* Fails when another request has deleted the like by now.
deleteLike(r) ==
    /\ At(r, "deleteLike")
    /\ ~ LikeLocked(r, tx[r].u)
    /\ IF tx[r].u \in likes THEN Goto(r, "decrementLikes") ELSE Return(r)
    /\ UNCHANGED <<post, likes, comment, notified>>

\* likeCount is computed from what the transaction read first.
decrementLikes(r) ==
    /\ At(r, "decrementLikes")
    /\ ~ PostLocked(r)
    /\ likes' = likes \ {tx[r].u}
    /\ post' = [post EXCEPT !.likeCount = Decremented(tx[r].count)]
    /\ Return(r)
    /\ UNCHANGED <<comment, notified>>

-----------------------------------------------------------------------------
(* createComment and deleteComment.                                        *)

findPostToComment(r, u, c) ==
    /\ Offered(r, "createComment")
    /\ post.state = "live"
    /\ comment[c] = "none"
    /\ \A q \in Slots : tx[q].c # c
    /\ \A b \in Comments : b < c => comment[b] # "none" \/ \E q \in Slots : tx[q].c = b
    /\ Begin(r, "createComment", "insertComment", u, c)
    /\ UNCHANGED <<post, likes, comment, notified>>

insertComment(r) ==
    /\ At(r, "insertComment")
    /\ ~ PostLocked(r)
    /\ IF post.state = "gone" THEN Return(r) ELSE Goto(r, "incrementComments")
    /\ UNCHANGED <<post, likes, comment, notified>>

incrementComments_stale(r) ==
    /\ At(r, "incrementComments")
    /\ comment' = [comment EXCEPT ![tx[r].c] = "live"]
    /\ post' = [post EXCEPT !.commentCount = tx[r].count + 1]
    /\ IF tx[r].u = Author THEN Return(r) ELSE Goto(r, "notify")
    /\ UNCHANGED <<likes, notified>>

incrementComments(r) ==
    /\ At(r, "incrementComments")
    /\ comment' = [comment EXCEPT ![tx[r].c] = "live"]
    /\ post' = [post EXCEPT !.commentCount = @ + 1]
    /\ IF tx[r].u = Author THEN Return(r) ELSE Goto(r, "notify")
    /\ UNCHANGED <<likes, notified>>

\* The service looks the comment up and checks who may delete it.
findComment(r, c) ==
    /\ Offered(r, "deleteComment")
    /\ comment[c] = "live"
    /\ Begin(r, "deleteComment", "softDelete", Author, c)
    /\ UNCHANGED <<post, likes, comment, notified>>

\* The update of deletedAt succeeds on a deleted comment too.
softDelete(r) ==
    /\ At(r, "softDelete")
    /\ ~ CommentLocked(r, tx[r].c)
    /\ IF comment[tx[r].c] = "gone" THEN Return(r) ELSE Goto(r, "readCount")
    /\ UNCHANGED <<post, likes, comment, notified>>

readCount(r) ==
    /\ At(r, "readCount")
    /\ tx' = [tx EXCEPT ![r].count = post.commentCount, ![r].pc = "decrementComments"]
    /\ UNCHANGED <<post, likes, comment, notified>>

decrementComments(r) ==
    /\ At(r, "decrementComments")
    /\ ~ PostLocked(r)
    /\ comment' = [comment EXCEPT ![tx[r].c] = "deleted"]
    /\ post' = [post EXCEPT !.commentCount = Decremented(tx[r].count)]
    /\ Return(r)
    /\ UNCHANGED <<likes, notified>>

-----------------------------------------------------------------------------
(* deletePost and moderation.                                              *)

findPostToDelete(r) ==
    /\ Offered(r, "deletePost")
    /\ post.state = "live"
    /\ Begin(r, "deletePost", "deleteRow", Author, 0)
    /\ UNCHANGED <<post, likes, comment, notified>>

deleteRow(r) ==
    /\ At(r, "deleteRow")
    /\ ~ PostLocked(r)
    /\ ~ PostReferenced(r)
    /\ IF post.state = "gone" THEN Return(r) ELSE Goto(r, "cascade")
    /\ UNCHANGED <<post, likes, comment, notified>>

cascade(r) ==
    /\ At(r, "cascade")
    /\ ~ ChildrenLocked(r)
    /\ post' = [post EXCEPT !.state = "gone"]
    /\ likes' = {}
    /\ comment' = [c \in Comments |-> IF comment[c] = "none" THEN "none" ELSE "gone"]
    /\ notified' = [u \in Users |-> 0]
    /\ Return(r)

\* Removes the comment's row and leaves the counter as it is.
adminDeleteComment(c) ==
    /\ "adminDeleteComment" \in Ops
    /\ comment[c] \in {"live", "deleted"}
    /\ \A r \in Slots : tx[r].pc \in {"readCount", "decrementComments"} => tx[r].c # c
    /\ comment' = [comment EXCEPT ![c] = "gone"]
    /\ UNCHANGED <<post, likes, notified, tx>>

adminUpdatePostStatus(state) ==
    /\ "adminUpdatePostStatus" \in Ops
    /\ post.state # "gone"
    /\ \A r \in Slots : ~ At(r, "cascade")
    /\ post' = [post EXCEPT !.state = state]
    /\ UNCHANGED <<likes, comment, notified, tx>>

\* A transaction is rolled back: a lost connection, its time limit, or the
\* victim of a deadlock.  After the commit only the notification is lost.
abort(r) ==
    /\ "abort" \in Ops
    /\ ~ At(r, "idle")
    /\ Return(r)
    /\ UNCHANGED <<post, likes, comment, notified>>

Request(r) ==
    \/ \E u \in Users, op \in {"likePost", "unlikePost"} : findPostToLike(r, op, u)
    \/ \E u \in Users, c \in Comments : findPostToComment(r, u, c)
    \/ \E c \in Comments : findComment(r, c)
    \/ findPostToDelete(r)

Statement(r) ==
    \/ findLike(r) \/ insertLike(r) \/ incrementLikes(r) \/ notify(r)
    \/ deleteLike(r) \/ decrementLikes(r)
    \/ insertComment(r) \/ incrementComments(r)
    \/ softDelete(r) \/ readCount(r) \/ decrementComments(r)
    \/ deleteRow(r) \/ cascade(r)

Moderate ==
    \/ \E c \in Comments : adminDeleteComment(c)
    \/ \E state \in {"live", "deleted"} : adminUpdatePostStatus(state)

Next == Moderate \/ \E r \in Slots : Request(r) \/ Statement(r) \/ abort(r)

Spec == Init /\ [][Next]_vars

-----------------------------------------------------------------------------
(* Properties.                                                             *)

\* The transactions between two of their statements.
Holding(labels) == {r \in Slots : tx[r].pc \in labels}

\* The cached likeCount of a post is the number of its likes in every state that
\* other requests can see, also when transactions are rolled back half-way.
LikeCountExact == post.state # "gone" => post.likeCount = Cardinality(likes)

\* ... and commentCount the number of its comments that are not deleted.
CommentCountExact ==
    post.state # "gone" =>
        post.commentCount = Cardinality({c \in Comments : comment[c] = "live"})

\* A user who likes a post, however often and however fast, gives its author one
\* notification: of simultaneous requests one alone creates the like.
NotifiedOnce == \A u \in Users : notified[u] <= 1

\* Of all the transactions that have inserted a like of the same user, at most
\* one is still to commit, and then the like is not in the table yet: each
\* increment counts a like that nobody else counts.
LikeWritersExclusive ==
    /\ \A q, r \in Holding({"incrementLikes"}) : tx[q].u = tx[r].u => q = r
    /\ \A r \in Holding({"incrementLikes"}) : tx[r].u \notin likes

\* A moderator's deletion leaves commentCount too high, but one request after
\* another never makes it lower than the number of comments.
CommentCountCovers ==
    post.state # "gone" =>
        post.commentCount >= Cardinality({c \in Comments : comment[c] = "live"})

\* The requests that have a POST_LIKED notification of u still to write.
Notifying(u) == {r \in Slots : tx[r].pc = "notify" /\ tx[r].op = "likePost" /\ tx[r].u = u}

\* The stages of a like request, and the locks that keep it and the deletion of
\* the post apart.
Stages ==
    \A r \in Slots :
        /\ tx[r].op = "likePost" <=>
              \/ tx[r].pc \in {"findLike", "insertLike", "incrementLikes"}
              \/ tx[r].pc = "notify" /\ tx[r].op = "likePost"
        /\ tx[r].pc \notin {"deleteLike", "decrementLikes"}
        /\ tx[r].pc = "incrementLikes" =>
              /\ post.state # "gone"
              /\ \A q \in Slots : tx[q].pc # "cascade"

\* A user's notification is written or about to be written only for a like that
\* is in the table, and not both.
NotifyStages ==
    \A u \in Users :
        /\ notified[u] \in {0, 1}
        /\ post.state # "gone" =>
              /\ notified[u] # 0 \/ Notifying(u) # {} => u \in likes
              /\ Notifying(u) # {} => notified[u] = 0
              /\ \A q, r \in Notifying(u) : q = r

\* The inductive invariant of the proofs, for clients that do not
\* take likes back: whatever the interleaving, a counted like is in the table, an
\* uncounted one is held by one transaction, and a notification is owed once.
LikeInv ==
    /\ TypeOK
    /\ IsFiniteSet(likes)
    /\ LikeCountExact
    /\ LikeWritersExclusive
    /\ Stages
    /\ NotifyStages

=============================================================================
