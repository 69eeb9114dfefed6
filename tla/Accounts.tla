------------------------------ MODULE Accounts ------------------------------
(***************************************************************************)
(* Accounts, their one refresh token, and the Google accounts linked to    *)
(* them (src/src/modules/auth, src/src/modules/users,                      *)
(* src/src/modules/admin/users).                                           *)
(*                                                                         *)
(* No operation but completeGoogleRegistration and softDeleteUser uses a   *)
(* transaction: a request reads, awaits, and writes with a statement of    *)
(* its own.  An action is what runs between two awaits whose order         *)
(* matters; consecutive reads that decide nothing alone are one action.    *)
(*                                                                         *)
(* A user stands for the row with one email address; usernames, which are  *)
(* unique in the same way, profiles and roles are left out.  Access tokens *)
(* are never looked up in the database, so every operation that takes one  *)
(* may come at any time, also after the account is gone.                   *)
(***************************************************************************)
EXTENDS Integers

CONSTANTS
    Users,
    GoogleAccounts,
    GoogleEmail,   \* the user whose address a Google account has
    Slots,         \* requests in progress at the same time
    NoUser,        \* no row, or nobody
    MaxEpoch       \* bound: revocations counted per user

ASSUME EmailAssumption == GoogleEmail \in [GoogleAccounts -> Users]
ASSUME EpochAssumption == MaxEpoch \in Nat \ {0}

VARIABLES
    user,       \* table users
    identity,   \* table auth_identities: the user a Google account belongs to
    epoch,      \* revocations of a user's sessions so far; only properties read it
    req,        \* the request in each slot
    overlap     \* whether requests overlap, or come one after another

vars == <<user, identity, epoch, req, overlap>>

Statuses == {"ACTIVE", "SUSPENDED", "INACTIVE"}

\* token: 0 is null, n a token of a session begun after n - 1 revocations.
UserRow == [status : Statuses, deleted : BOOLEAN, password : BOOLEAN, token : 0 .. MaxEpoch]

ASSUME NoUserAssumption == NoUser \notin Users \union UserRow

\* An account of a time when one could sign up with Google alone.
LegacyUser == [status |-> "ACTIVE", deleted |-> FALSE, password |-> FALSE, token |-> 0]

NewUser == [status |-> "ACTIVE", deleted |-> FALSE, password |-> TRUE, token |-> 0]

Labels == {"idle", "createUser", "comparePassword", "updateRefreshToken", "createIdentity",
           "deleteIdentity", "updatePassword", "softDelete", "hardDelete", "updateStatus"}

Idle == [pc |-> "idle", u |-> NoUser, g |-> NoUser, login |-> FALSE, status |-> "ACTIVE",
         epoch |-> 0]

\* login: a googleLogin, which goes on after linking; epoch: as of the time the
\* request checked who is there.
Requests == [pc : Labels, u : Users \union {NoUser}, g : GoogleAccounts \union {NoUser},
             login : BOOLEAN, status : Statuses, epoch : 0 .. MaxEpoch]

\* ... and the foreign key of an identity.
TypeOK ==
    /\ user \in [Users -> UserRow \union {NoUser}]
    /\ identity \in [GoogleAccounts -> Users \union {NoUser}]
    /\ epoch \in [Users -> 1 .. MaxEpoch]
    /\ req \in [Slots -> Requests]
    /\ overlap \in BOOLEAN
    /\ \A g \in GoogleAccounts : identity[g] # NoUser => user[identity[g]] # NoUser

Init ==
    /\ user \in [Users -> {NoUser, LegacyUser}]
    /\ identity = [g \in GoogleAccounts |->
                      IF user[GoogleEmail[g]] = NoUser THEN NoUser ELSE GoogleEmail[g]]
    /\ \A u \in Users : user[u] = LegacyUser => \E g \in GoogleAccounts : GoogleEmail[g] = u
    /\ epoch = [u \in Users |-> 1]
    /\ req = [r \in Slots |-> Idle]
    /\ overlap \in BOOLEAN

-----------------------------------------------------------------------------
Exists(u) == user[u] # NoUser
Live(u) == Exists(u) /\ ~ user[u].deleted
HasGoogle(u) == \E g \in GoogleAccounts : identity[g] = u

getAuthProviders(u) == [password |-> user[u].password, google |-> HasGoogle(u)]

\* A user who may not sign in.
Blocked(u) == Exists(u) /\ (user[u].deleted \/ user[u].status # "ACTIVE")

At(r, pc) == req[r].pc = pc

Offered(r) == At(r, "idle") /\ (overlap \/ \A q \in Slots : At(q, "idle"))

Begin(r, pc, u) ==
    req' = [req EXCEPT ![r] = [Idle EXCEPT !.pc = pc, !.u = u, !.epoch = epoch[u]]]

Return(r) == req' = [req EXCEPT ![r] = Idle]

\* The sessions of u that were begun before no longer count.
Revoked(u) == IF epoch[u] < MaxEpoch THEN [epoch EXCEPT ![u] = @ + 1] ELSE epoch

\* Bound: there is room to count a revocation.
Countable(u) == epoch[u] < MaxEpoch

-----------------------------------------------------------------------------
(* Tokens.                                                                 *)

\* The two look-ups ignore deleted users.
register(r, u) ==
    /\ Offered(r)
    /\ ~ Live(u)
    /\ Begin(r, "createUser", u)
    /\ UNCHANGED <<user, identity, epoch, overlap>>

\* The unique index does not ignore them.
createUser(r) ==
    /\ At(r, "createUser")
    /\ LET u == req[r].u IN
       IF Exists(u)
       THEN Return(r) /\ UNCHANGED user
       ELSE /\ user' = [user EXCEPT ![u] = NewUser]
            /\ Begin(r, "updateRefreshToken", u)
    /\ UNCHANGED <<identity, epoch, overlap>>

\* The row is found whatever its state.
login(r, u) ==
    /\ Offered(r)
    /\ Exists(u)
    /\ user[u].password
    /\ req' = [req EXCEPT ![r] = [Idle EXCEPT !.pc = "comparePassword", !.u = u,
                    !.status = IF user[u].deleted THEN "INACTIVE" ELSE user[u].status,
                    !.epoch = epoch[u]]]
    /\ UNCHANGED <<user, identity, epoch, overlap>>

\* Deleted users are not found, and the status is checked before the password.
adminLogin(r, u) ==
    /\ Offered(r)
    /\ Live(u)
    /\ user[u].status = "ACTIVE"
    /\ user[u].password
    /\ Begin(r, "comparePassword", u)
    /\ UNCHANGED <<user, identity, epoch, overlap>>

comparePassword_noStatus(r) ==
    /\ At(r, "comparePassword")
    /\ req' = [req EXCEPT ![r].pc = "updateRefreshToken"]
    /\ UNCHANGED <<user, identity, epoch, overlap>>

\* The password is right; deletion and status are checked on the row read before.
comparePassword(r) ==
    /\ At(r, "comparePassword")
    /\ IF req[r].status = "ACTIVE"
       THEN req' = [req EXCEPT ![r].pc = "updateRefreshToken"]
       ELSE Return(r)
    /\ UNCHANGED <<user, identity, epoch, overlap>>

\* The client presents the token stored now; nobody looks at the status.
refreshToken(r, u) ==
    /\ Offered(r)
    /\ Live(u)
    /\ user[u].token # 0
    /\ req' = [req EXCEPT ![r] = [Idle EXCEPT !.pc = "updateRefreshToken", !.u = u,
                    !.epoch = user[u].token]]
    /\ UNCHANGED <<user, identity, epoch, overlap>>

\* By id alone: whatever happened to the row since.
updateRefreshToken(r) ==
    /\ At(r, "updateRefreshToken")
    /\ user' = [user EXCEPT ![req[r].u].token = req[r].epoch]
    /\ Return(r)
    /\ UNCHANGED <<identity, epoch, overlap>>

\* One statement, so it fits between any two steps of the others.
logout(u) ==
    /\ overlap \/ \A r \in Slots : At(r, "idle")
    /\ Exists(u)
    /\ Countable(u)
    /\ user' = [user EXCEPT ![u].token = 0]
    /\ epoch' = Revoked(u)
    /\ UNCHANGED <<identity, req, overlap>>

-----------------------------------------------------------------------------
(* Google.                                                                 *)

\* A Google account nobody has linked is linked to the live user with its address;
\* if there is none, the client is told to register, and nothing changes.
googleLogin(r, g) ==
    /\ Offered(r)
    /\ LET u == IF identity[g] # NoUser THEN identity[g] ELSE GoogleEmail[g]
           found == [Idle EXCEPT !.u = u, !.g = g, !.login = TRUE, !.epoch = epoch[u],
                                 !.status = user[u].status]
       IN  \/ /\ identity[g] # NoUser
              /\ ~ Blocked(u)
              /\ req' = [req EXCEPT ![r] = [found EXCEPT !.pc = "updateRefreshToken"]]
           \/ /\ identity[g] = NoUser
              /\ Live(u)
              /\ req' = [req EXCEPT ![r] = [found EXCEPT !.pc = "createIdentity"]]
    /\ UNCHANGED <<user, identity, epoch, overlap>>

linkGoogle(r, u, g) ==
    /\ Offered(r)
    /\ Exists(u)
    /\ identity[g] = NoUser
    /\ ~ HasGoogle(u)
    /\ req' = [req EXCEPT ![r] = [Idle EXCEPT !.pc = "createIdentity", !.u = u, !.g = g]]
    /\ UNCHANGED <<user, identity, epoch, overlap>>

createIdentity_upserts(r) ==
    /\ At(r, "createIdentity")
    /\ identity' = [identity EXCEPT ![req[r].g] = req[r].u]
    /\ IF req[r].login /\ req[r].status = "ACTIVE"
       THEN req' = [req EXCEPT ![r].pc = "updateRefreshToken"]
       ELSE Return(r)
    /\ UNCHANGED <<user, epoch, overlap>>

\* Fails on the unique index.  A googleLogin checks the status only now, as it
\* read it before.
createIdentity(r) ==
    /\ At(r, "createIdentity")
    /\ IF identity[req[r].g] # NoUser
       THEN Return(r) /\ UNCHANGED identity
       ELSE /\ identity' = [identity EXCEPT ![req[r].g] = req[r].u]
            /\ IF req[r].login /\ req[r].status = "ACTIVE"
               THEN req' = [req EXCEPT ![r].pc = "updateRefreshToken"]
               ELSE Return(r)
    /\ UNCHANGED <<user, epoch, overlap>>

\* A transaction; the client got its registration token from a googleLogin in the
\* last ten minutes, which says nothing about the tables now.
completeGoogleRegistration(r, g) ==
    /\ Offered(r)
    /\ ~ Exists(GoogleEmail[g])
    /\ identity[g] = NoUser
    /\ user' = [user EXCEPT ![GoogleEmail[g]] = NewUser]
    /\ identity' = [identity EXCEPT ![g] = GoogleEmail[g]]
    /\ Begin(r, "updateRefreshToken", GoogleEmail[g])
    /\ UNCHANGED <<epoch, overlap>>

unlinkGoogle_unguarded(r, u) ==
    /\ Offered(r)
    /\ Live(u)
    /\ HasGoogle(u)
    /\ Begin(r, "deleteIdentity", u)
    /\ UNCHANGED <<user, identity, epoch, overlap>>

unlinkGoogle(r, u) ==
    /\ Offered(r)
    /\ Live(u)
    /\ HasGoogle(u)
    /\ user[u].password
    /\ Begin(r, "deleteIdentity", u)
    /\ UNCHANGED <<user, identity, epoch, overlap>>

deleteIdentity(r) ==
    /\ At(r, "deleteIdentity")
    /\ identity' = [g \in GoogleAccounts |->
                       IF identity[g] = req[r].u THEN NoUser ELSE identity[g]]
    /\ Return(r)
    /\ UNCHANGED <<user, epoch, overlap>>

-----------------------------------------------------------------------------
(* Passwords, deletion, moderation.                                        *)

\* The current password is given, where there is one.
changePassword(r, u) ==
    /\ Offered(r)
    /\ Live(u)
    /\ Begin(r, "updatePassword", u)
    /\ UNCHANGED <<user, identity, epoch, overlap>>

updatePassword_keepsToken(r) ==
    /\ At(r, "updatePassword")
    /\ Countable(req[r].u)
    /\ user' = [user EXCEPT ![req[r].u].password = TRUE]
    /\ epoch' = Revoked(req[r].u)
    /\ Return(r)
    /\ UNCHANGED <<identity, overlap>>

updatePassword(r) ==
    /\ At(r, "updatePassword")
    /\ Countable(req[r].u)
    /\ LET u == req[r].u IN
       user' = [user EXCEPT ![u].password = TRUE, ![u].token = 0]
    /\ epoch' = Revoked(req[r].u)
    /\ Return(r)
    /\ UNCHANGED <<identity, overlap>>

\* The account's owner, or an administrator, who finds deleted accounts too.
deleteAccount(r, u) ==
    /\ Offered(r)
    /\ Live(u)
    /\ Begin(r, "softDelete", u)
    /\ UNCHANGED <<user, identity, epoch, overlap>>

deleteUser(r, u, hard) ==
    /\ Offered(r)
    /\ Exists(u)
    /\ Begin(r, IF hard THEN "hardDelete" ELSE "softDelete", u)
    /\ UNCHANGED <<user, identity, epoch, overlap>>

softDelete(r) ==
    /\ At(r, "softDelete")
    /\ Countable(req[r].u)
    /\ LET u == req[r].u IN
       user' = [user EXCEPT ![u].deleted = TRUE, ![u].status = "INACTIVE", ![u].token = 0]
    /\ epoch' = Revoked(req[r].u)
    /\ Return(r)
    /\ UNCHANGED <<identity, overlap>>

\* The identities go with the row.  The requests on the row that are under way will
\* find nothing to write to, so they end here; a later row with the same address has
\* another id.
hardDelete(r) ==
    /\ At(r, "hardDelete")
    /\ LET u == req[r].u IN
       /\ user' = [user EXCEPT ![u] = NoUser]
       /\ identity' = [g \in GoogleAccounts |->
                          IF identity[g] = u THEN NoUser ELSE identity[g]]
       /\ req' = [q \in Slots |-> IF req[q].u = u /\ ~ At(q, "createUser")
                                  THEN Idle ELSE req[q]]
    /\ UNCHANGED <<epoch, overlap>>

\* updateUser with a status does the same.
updateUserStatus(r, u, status) ==
    /\ Offered(r)
    /\ Exists(u)
    /\ req' = [req EXCEPT ![r] = [Idle EXCEPT !.pc = "updateStatus", !.u = u,
                    !.status = status]]
    /\ UNCHANGED <<user, identity, epoch, overlap>>

\* Only a suspension takes the token.
updateStatus(r) ==
    /\ At(r, "updateStatus")
    /\ LET u == req[r].u
           suspended == req[r].status = "SUSPENDED"
       IN  /\ suspended => Countable(u)
           /\ user' = [user EXCEPT ![u].status = req[r].status,
                                   ![u].token = IF suspended THEN 0 ELSE @]
           /\ epoch' = IF suspended THEN Revoked(u) ELSE epoch
    /\ Return(r)
    /\ UNCHANGED <<identity, overlap>>

-----------------------------------------------------------------------------
Request(r) ==
    \/ \E u \in Users :
          \/ register(r, u) \/ login(r, u) \/ adminLogin(r, u) \/ refreshToken(r, u)
          \/ unlinkGoogle(r, u) \/ changePassword(r, u) \/ deleteAccount(r, u)
          \/ \E hard \in BOOLEAN : deleteUser(r, u, hard)
          \/ \E status \in Statuses : updateUserStatus(r, u, status)
          \/ \E g \in GoogleAccounts : linkGoogle(r, u, g)
    \/ \E g \in GoogleAccounts : googleLogin(r, g) \/ completeGoogleRegistration(r, g)

Step(r) ==
    \/ createUser(r) \/ comparePassword(r) \/ updateRefreshToken(r)
    \/ createIdentity(r) \/ deleteIdentity(r)
    \/ updatePassword(r) \/ softDelete(r) \/ hardDelete(r) \/ updateStatus(r)

Next == \E r \in Slots : Request(r) \/ Step(r) \/ \E u \in Users : logout(u)

Spec == Init /\ [][Next]_vars

-----------------------------------------------------------------------------
(* Properties.                                                             *)

\* While requests come one after another, nobody who is suspended or deleted has a
\* refresh token, although refreshToken looks at nothing else: every way to get one
\* checks first, and every way to lose the account takes it.
LockedOut ==
    \A u \in Users :
        ~ overlap /\ Exists(u) /\ (user[u].deleted \/ user[u].status = "SUSPENDED")
            => user[u].token = 0

\* ... and no session survives the logout, the change of password, the suspension or
\* the deletion that came after it.
SessionsRevoked ==
    \A u \in Users : ~ overlap /\ Exists(u) => user[u].token \in {0, epoch[u]}

\* However requests overlap, an account keeps a way to sign in: a password, or a
\* Google account that is linked to it.
LastWayIn ==
    \A u \in Users : Live(u) => getAuthProviders(u).password \/ getAuthProviders(u).google

\* A linked Google account never passes from one user to another, not even between
\* simultaneous links, without having been unlinked.
NeverRelinked ==
    [][\A g \in GoogleAccounts : identity[g] # NoUser => identity'[g] \in {identity[g], NoUser}]_vars

-----------------------------------------------------------------------------
(* The inductive invariant of the proofs.                                  *)

\* A request under way is about a row, which hardDelete would have ended it with; and
\* what it found then still holds, where nothing ever takes it back.
RequestInv ==
    \A r \in Slots :
        /\ ~ At(r, "idle") => req[r].u \in Users
        /\ req[r].pc \notin {"idle", "createUser"} => Exists(req[r].u)
        /\ At(r, "createIdentity") => req[r].g \in GoogleAccounts
        /\ At(r, "deleteIdentity") => user[req[r].u].password

OneAtATime == \A r, q \in Slots : At(r, "idle") \/ At(q, "idle") \/ r = q

\* Nothing has changed since the request looked.
SignIn(r) ==
    LET u == req[r].u IN
    /\ At(r, "comparePassword") =>
          /\ req[r].epoch = epoch[u]
          /\ req[r].status = "ACTIVE" => ~ user[u].deleted /\ user[u].status = "ACTIVE"
    /\ At(r, "createIdentity") /\ req[r].login =>
          /\ req[r].epoch = epoch[u]
          /\ ~ user[u].deleted
          /\ req[r].status = user[u].status
    /\ At(r, "updateRefreshToken") =>
          /\ req[r].epoch = epoch[u]
          /\ ~ user[u].deleted
          /\ user[u].status # "SUSPENDED"

SerialInv == ~ overlap => OneAtATime /\ \A r \in Slots : SignIn(r)

\* Tables and requests are well-formed; an account keeps a way in; and while requests
\* come one after another, a request that is about to write a token still may, nobody
\* who is suspended or deleted has one, and none survives its revocation.
IInv ==
    /\ TypeOK
    /\ RequestInv
    /\ LastWayIn
    /\ SerialInv
    /\ LockedOut
    /\ SessionsRevoked

=============================================================================
