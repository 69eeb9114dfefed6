----------------------------- MODULE FeedPosts ------------------------------
(***************************************************************************)
(* The posts of the feed and their images in Cloudinary, with bookmarks    *)
(* and reports (src/src/modules/feeds, src/src/modules/admin/feeds,        *)
(* src/src/modules/cloudinary).                                            *)
(*                                                                         *)
(* A client uploads images by itself and then sends their ids.  The        *)
(* database and Cloudinary share no transaction: a request reads the post, *)
(* writes it, and deletes images afterwards, or when it failed.  Between   *)
(* its steps moderators, readers and the deletion of accounts go on.  Two  *)
(* requests that edit one post do not overlap here; likes and comments are *)
(* in FeedInteractions, the order of images and the location left out.     *)
(***************************************************************************)
EXTENDS Naturals, FiniteSets

CONSTANTS
    Posts,
    Assets,
    Editors,    \* the author of all posts, and an administrator who edits them
    Author,
    AssetOwner, \* who uploaded an image: the folder in its id
    None

VARIABLES
    post,       \* tables posts and post_media
    asset,      \* what Cloudinary has
    request,    \* the request that edits a post
    bookmarks,
    report,     \* the report of one reader on each post
    excused     \* images left behind by a failure the code does not handle; only a
                \* property reads it

vars == <<post, asset, request, bookmarks, report, excused>>

PostStatuses == {"PUBLISHED", "HIDDEN", "DELETED"}
ReportStatuses == {"PENDING", "REVIEWED", "RESOLVED", "DISMISSED"}

NoPost == [status |-> "none", media |-> {}]

Idle == [pc |-> "idle", p |-> None, media |-> {}, removed |-> {}]

\* cleanup: the statement is done or has failed, removed is to be deleted.
Labels == {"idle", "createPost", "updatePost", "deletePost", "cleanup"}

\* asset: "none" before the upload, "sent" once a client has named it in a request.
TypeOK ==
    /\ post \in [Posts -> [status : PostStatuses \union {"none", "gone"}, media : SUBSET Assets]]
    /\ asset \in [Assets -> {"none", "stored", "sent", "deleted"}]
    /\ request \in [pc : Labels, p : Posts \union {None}, media : SUBSET Assets, removed : SUBSET Assets]
    /\ bookmarks \subseteq {p \in Posts : post[p].status \in PostStatuses}
    /\ report \in [Posts -> [status : ReportStatuses, resolved : BOOLEAN] \union {None}]
    /\ excused \subseteq Assets

Init ==
    /\ post = [p \in Posts |-> NoPost]
    /\ asset = [a \in Assets |-> "none"]
    /\ request = Idle
    /\ bookmarks = {}
    /\ report = [p \in Posts |-> None]
    /\ excused = {}

-----------------------------------------------------------------------------
Row(p) == post[p].status \in PostStatuses

\* findById: deleted posts are not found.
Found(p) == post[p].status \in {"PUBLISHED", "HIDDEN"}

Fresh == {a \in Assets : asset[a] = "stored"}

validateAssetOwnership(media, by) == \A a \in media : AssetOwner[a] = by

Sent(media) == [a \in Assets |-> IF a \in media THEN "sent" ELSE asset[a]]

Upload(a) ==
    /\ asset[a] = "none"
    /\ asset' = [asset EXCEPT ![a] = "stored"]
    /\ UNCHANGED <<post, request, bookmarks, report, excused>>

\* A client names images it has uploaded for this post.  Without any the request
\* fails, like one for a destination that does not exist.
createPost(p, media) ==
    /\ request.pc = "idle"
    /\ post[p] = NoPost
    /\ media # {}
    /\ media \subseteq Fresh
    /\ validateAssetOwnership(media, Author)
    /\ asset' = Sent(media)
    /\ request' = [Idle EXCEPT !.pc = "createPost", !.p = p, !.media = media]
    /\ UNCHANGED <<post, bookmarks, report, excused>>

insertPost_failsAlone ==
    /\ request.pc = "createPost"
    /\ \/ /\ post' = [post EXCEPT ![request.p] = [status |-> "PUBLISHED", media |-> request.media]]
          /\ request' = Idle
       \/ /\ request' = Idle
          /\ UNCHANGED post
    /\ UNCHANGED <<asset, bookmarks, report, excused>>

\* When the destination or the transaction fails, everything sent is deleted.
insertPost ==
    /\ request.pc = "createPost"
    /\ \/ /\ post' = [post EXCEPT ![request.p] = [status |-> "PUBLISHED", media |-> request.media]]
          /\ request' = Idle
       \/ /\ request' = [request EXCEPT !.pc = "cleanup", !.removed = request.media]
          /\ UNCHANGED post
    /\ UNCHANGED <<asset, bookmarks, report, excused>>

\* The editor keeps images of the post and adds others, all of them his own, and
\* sends no list of images at all if he changes none.
updatePost(p, by, media) ==
    /\ request.pc = "idle"
    /\ Found(p)
    /\ media \subseteq post[p].media \union Fresh
    /\ validateAssetOwnership(media, by)
    /\ asset' = Sent(media)
    /\ request' = [pc |-> "updatePost", p |-> p, media |-> media, removed |-> post[p].media \ media]
    /\ UNCHANGED <<post, bookmarks, report, excused>>

\* The media rows are replaced whatever the status of the post is by now.  If the row
\* is gone or the transaction fails nothing is deleted, and what is new stays behind.
writePost ==
    /\ request.pc = "updatePost"
    /\ \/ /\ Row(request.p)
          /\ post' = [post EXCEPT ![request.p].media = request.media]
          /\ request' = [request EXCEPT !.pc = "cleanup"]
          /\ UNCHANGED excused
       \/ /\ request' = Idle
          /\ excused' = excused \union (request.media \ post[request.p].media)
          /\ UNCHANGED post
    /\ UNCHANGED <<asset, bookmarks, report>>

\* By the author or an administrator.
deletePost(p) ==
    /\ request.pc = "idle"
    /\ Found(p)
    /\ request' = [Idle EXCEPT !.pc = "deletePost", !.p = p, !.removed = post[p].media]
    /\ UNCHANGED <<post, asset, bookmarks, report, excused>>

Removed(p) == [post EXCEPT ![p] = [status |-> "gone", media |-> {}]]

\* Bookmarks and reports go with the row.
deleteRow ==
    /\ request.pc = "deletePost"
    /\ IF Row(request.p)
       THEN /\ post' = Removed(request.p)
            /\ bookmarks' = bookmarks \ {request.p}
            /\ report' = [report EXCEPT ![request.p] = None]
            /\ request' = [request EXCEPT !.pc = "cleanup"]
       ELSE request' = Idle /\ UNCHANGED <<post, bookmarks, report>>
    /\ UNCHANGED <<asset, excused>>

\* Each image by itself; one that fails is only logged.
deleteMultipleAssets ==
    /\ request.pc = "cleanup"
    /\ \E kept \in SUBSET request.removed :
          /\ asset' = [a \in Assets |-> IF a \in request.removed \ kept THEN "deleted" ELSE asset[a]]
          /\ excused' = excused \union kept
    /\ request' = Idle
    /\ UNCHANGED <<post, bookmarks, report>>

-----------------------------------------------------------------------------
(* Others.                                                                 *)

\* A moderator, also back from DELETED.
updatePostStatus(p, status) ==
    /\ Row(p)
    /\ post' = [post EXCEPT ![p].status = status]
    /\ UNCHANGED <<asset, request, bookmarks, report, excused>>

\* The author closes the account, or an administrator removes it with its rows.
softDeleteUser ==
    /\ post' = [p \in Posts |-> IF Row(p) THEN [post[p] EXCEPT !.status = "DELETED"] ELSE post[p]]
    /\ UNCHANGED <<asset, request, bookmarks, report, excused>>

\* A post that is about to be inserted fails then on its foreign key.
hardDeleteUser ==
    /\ post' = [p \in Posts |-> IF Row(p) THEN [status |-> "gone", media |-> {}] ELSE post[p]]
    /\ excused' = excused \union UNION {post[p].media : p \in Posts}
    /\ request' = IF request.pc = "createPost"
                  THEN [request EXCEPT !.pc = "cleanup", !.removed = request.media]
                  ELSE request
    /\ bookmarks' = {}
    /\ report' = [p \in Posts |-> None]
    /\ UNCHANGED asset

addBookmark(p) ==
    /\ Found(p)
    /\ bookmarks' = bookmarks \union {p}
    /\ UNCHANGED <<post, asset, request, report, excused>>

removeBookmark(p) ==
    /\ Found(p)
    /\ bookmarks' = bookmarks \ {p}
    /\ UNCHANGED <<post, asset, request, report, excused>>

\* A second report of the same reader opens the first one again; who resolved it, and
\* when, stays on it.
createReport(p) ==
    /\ Found(p)
    /\ report' = [report EXCEPT ![p] =
                    IF @ = None THEN [status |-> "PENDING", resolved |-> FALSE]
                                    ELSE [@ EXCEPT !.status = "PENDING"]]
    /\ UNCHANGED <<post, asset, request, bookmarks, excused>>

updateReport(p, status) ==
    /\ report[p] # None
    /\ report' = [report EXCEPT ![p] = [status |-> status,
                                        resolved |-> status \in {"RESOLVED", "DISMISSED"}]]
    /\ UNCHANGED <<post, asset, request, bookmarks, excused>>

Next ==
    \/ \E a \in Assets : Upload(a)
    \/ \E p \in Posts, media \in SUBSET Assets :
          \/ createPost(p, media)
          \/ \E by \in Editors : updatePost(p, by, media)
    \/ \E p \in Posts :
          \/ deletePost(p) \/ addBookmark(p) \/ removeBookmark(p) \/ createReport(p)
          \/ \E status \in PostStatuses : updatePostStatus(p, status)
          \/ \E status \in ReportStatuses : updateReport(p, status)
    \/ insertPost \/ writePost \/ deleteRow \/ deleteMultipleAssets
    \/ softDeleteUser \/ hardDeleteUser

Spec == Init /\ [][Next]_vars

-----------------------------------------------------------------------------
(* Properties.                                                             *)

\* Whatever fails, and whoever hides, restores or closes what meanwhile, a post never
\* shows an image that has been deleted.
ImagesExist == \A p \in Posts : \A a \in post[p].media : asset[a] = "sent"

\* Once requests are answered, every image that was sent and is still stored belongs
\* to a post, unless a deletion in Cloudinary, an update or the removal of the account
\* lost it: a post that could not be created, was edited or deleted leaves none behind.
NoImageLeft ==
    request.pc = "idle" =>
        {a \in Assets : asset[a] = "sent"}
            \subseteq (UNION {post[p].media : p \in Posts}) \union excused

=============================================================================
