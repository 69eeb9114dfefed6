------------------------------ MODULE Avatars -------------------------------
(***************************************************************************)
(* The avatar of one user (src/src/modules/users, .../admin/users,         *)
(* .../storage), and the assets at Cloudinary it shows.                    *)
(*                                                                         *)
(* The user changes it, by the id of an asset uploaded before or with a    *)
(* file, an administrator does, and the account is closed: requests that   *)
(* may overlap.  Each reads the row, waits, and writes it.                 *)
(*                                                                         *)
(* Left out: avatars that are only a URL, all the other fields.            *)
(***************************************************************************)
EXTENDS FiniteSets

CONSTANTS
    Requests,
    Assets,
    None

VARIABLES
    account,   \* "live", "deleted" when it is only marked, or "gone"
    avatar,    \* the avatar's public id in the row
    cloud,     \* the assets that exist
    reqs,      \* the requests in progress
    trouble    \* what has gone wrong so far; only properties read it

vars == <<account, avatar, cloud, reqs, trouble>>

Idle == [pc |-> "idle", read |-> None, new |-> None]

Troubles ==
    {"overlap",      \* two requests at a time
     "sent again",   \* ... one of which wrote the avatar it had read, replaced since
     "row",          \* the row was not written after a file was uploaded
     "failed"}       \* a profile was not written, or an asset not deleted

TypeOK ==
    /\ account \in {"live", "deleted", "gone"}
    /\ avatar \in Assets \union {None}
    /\ cloud \subseteq Assets
    /\ reqs \in [Requests -> [pc : {"idle", "profile", "file", "admin", "close"},
                              read : Assets \union {None}, new : Assets \union {None}]]
    /\ trouble \subseteq Troubles

Init ==
    /\ account = "live"
    /\ avatar = None
    /\ cloud = {}
    /\ reqs = [r \in Requests |-> Idle]
    /\ trouble = {}

-----------------------------------------------------------------------------
\* Uploaded for one request: nothing else refers to it.
Fresh(a) ==
    /\ a \in Assets \ cloud /\ a # avatar
    /\ \A r \in Requests : a \notin {reqs[r].read, reqs[r].new}

\* The row is read.
Begin(r, pc, new) ==
    /\ reqs[r] = Idle
    /\ reqs' = [reqs EXCEPT ![r] = [pc |-> pc, read |-> avatar, new |-> new]]
    /\ trouble' = IF \E o \in Requests : reqs[o] # Idle THEN trouble \union {"overlap"} ELSE trouble
    /\ UNCHANGED <<account, avatar>>

\* What is deleted after the row is written.
Replaced(r) == IF reqs[r].pc = "file" THEN {} ELSE {reqs[r].read} \ {None, reqs[r].new}

\* By the id of an asset of one's own, new or as it is, or none.
updateProfile(r, a) ==
    /\ account = "live"
    /\ (Fresh(a) \/ a \in {None, avatar})
    /\ Begin(r, "profile", a)
    /\ cloud' = cloud \union ({a} \ ({None, avatar}))

\* replaceImage uploads the file and deletes the asset it replaces.
replaceFile(a) == (cloud \union {a}) \ {avatar}

\* The row is written afterwards.  When the upload fails nothing has happened.
uploadAvatar(r, a) ==
    /\ account = "live"
    /\ Fresh(a)
    /\ Begin(r, "file", a)
    /\ cloud' = replaceFile(a)

\* By an administrator; accounts that are marked as deleted too.
updateUser(r, a) ==
    /\ account # "gone"
    /\ (Fresh(a) \/ (a = avatar /\ a # None))
    /\ Begin(r, "admin", a)
    /\ cloud' = cloud \union ({a} \ {avatar})

deleteAccount(r) ==
    /\ account = "live"
    /\ Begin(r, "close", None)
    /\ UNCHANGED cloud

Finish(r, problems) ==
    /\ reqs' = [reqs EXCEPT ![r] = Idle]
    /\ trouble' = trouble \union problems

\* The row is written, whether or not it is marked as deleted, and then what it
\* replaces is deleted, which may fail unnoticed.
WriteRow(r) ==
    /\ reqs[r].pc \in {"profile", "file", "admin"} /\ account # "gone"
    /\ avatar' = reqs[r].new
    /\ \/ /\ cloud' = cloud \ Replaced(r)
          /\ Finish(r, IF reqs[r].new \in {avatar, None} \/ reqs[r].read # reqs[r].new
                       THEN {} ELSE {"sent again"})
       \/ /\ Replaced(r) # {}
          /\ UNCHANGED cloud /\ Finish(r, {"failed"})
    /\ UNCHANGED account

\* The statement fails: an administrator's asset is deleted again, a user's stays.
FailRow(r) ==
    /\ reqs[r].pc \in {"profile", "file", "admin"}
    /\ CASE reqs[r].pc = "admin" -> /\ cloud' = cloud \ ({reqs[r].new} \ {reqs[r].read})
                                    /\ Finish(r, {})
         [] reqs[r].pc = "profile" -> UNCHANGED cloud /\ Finish(r, {"failed"})
         [] reqs[r].pc = "file" -> UNCHANGED cloud /\ Finish(r, {"row"})
    /\ UNCHANGED <<account, avatar>>

\* The account is marked as deleted, and its avatar deleted.
softDeleteUser(r) ==
    /\ reqs[r].pc = "close" /\ account # "gone"
    /\ account' = "deleted"
    /\ cloud' = cloud \ {reqs[r].read}
    /\ Finish(r, {})
    /\ UNCHANGED avatar

\* By an administrator: marked, with its avatar kept, or removed with it.
deleteUser(hard) ==
    /\ account # "gone"
    /\ IF hard
       THEN account' = "gone" /\ avatar' = None /\ cloud' = cloud \ {avatar}
       ELSE account' = "deleted" /\ UNCHANGED <<avatar, cloud>>
    /\ trouble' = IF \E o \in Requests : reqs[o] # Idle THEN trouble \union {"overlap"} ELSE trouble
    /\ UNCHANGED reqs

Next ==
    \/ \E r \in Requests :
          \/ \E a \in Assets \union {None} : updateProfile(r, a) \/ updateUser(r, a)
          \/ \E a \in Assets : uploadAvatar(r, a)
          \/ deleteAccount(r) \/ softDeleteUser(r)
          \/ WriteRow(r) \/ FailRow(r)
    \/ \E hard \in BOOLEAN : deleteUser(hard)

Spec == Init /\ [][Next]_vars

-----------------------------------------------------------------------------
(* Properties.                                                             *)

\* However requests overlap and fail, the avatar of a live account exists, but for two
\* ways of losing it: while a file is being put in its place, and for good if the row
\* is not written after that, or is written with the avatar as it had been read.
AvatarExists ==
    \/ account # "live"
    \/ avatar \in cloud \union {None}
    \/ trouble \intersect {"row", "sent again"} # {}
    \/ \E r \in Requests : reqs[r].pc = "file"

\* After requests that did not overlap and wrote what they meant to, nothing is left at
\* Cloudinary but the avatar of the row.
NoneLeft ==
    trouble = {} /\ (\A r \in Requests : reqs[r] = Idle) => cloud \subseteq {avatar}

=============================================================================
