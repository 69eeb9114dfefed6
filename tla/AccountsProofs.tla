--------------------------- MODULE AccountsProofs ---------------------------
(* Proofs about Accounts, for any number of users, Google accounts and     *)
(* requests in progress.                                                   *)
EXTENDS Accounts, TLAPS

\* What IInv says of a request, whatever slot it is in.
Sound(q) ==
    /\ q.pc # "idle" => q.u \in Users
    /\ q.pc \notin {"idle", "createUser"} => Exists(q.u)
    /\ q.pc = "createIdentity" => q.g \in GoogleAccounts
    /\ q.pc = "deleteIdentity" => user[q.u].password

\* ... and while requests come one after another.
Current(q) ==
    /\ q.pc = "comparePassword" =>
          /\ q.epoch = epoch[q.u]
          /\ q.status = "ACTIVE" => ~ user[q.u].deleted /\ user[q.u].status = "ACTIVE"
    /\ q.pc = "createIdentity" /\ q.login =>
          /\ q.epoch = epoch[q.u]
          /\ ~ user[q.u].deleted
          /\ q.status = user[q.u].status
    /\ q.pc = "updateRefreshToken" =>
          /\ q.epoch = epoch[q.u]
          /\ ~ user[q.u].deleted
          /\ user[q.u].status # "SUSPENDED"

\* IInv, one request at a time.
LEMMA IInvByRequest ==
    IInv <=> /\ TypeOK
             /\ \A r \in Slots : Sound(req[r])
             /\ LastWayIn
             /\ ~ overlap => OneAtATime /\ \A r \in Slots : Current(req[r])
             /\ LockedOut
             /\ SessionsRevoked
BY DEF IInv, RequestInv, SerialInv, SignIn, Sound, Current, At

\* The same after a step.
LEMMA IInvNext ==
    ASSUME TypeOK',
           \A r \in Slots : Sound(req[r])',
           LastWayIn',
           ~ overlap' => OneAtATime' /\ \A r \in Slots : Current(req[r])',
           LockedOut',
           SessionsRevoked'
    PROVE  IInv'
BY DEF IInv, RequestInv, SerialInv, SignIn, Sound, Current, At

\* What the types say of one row and one slot.
LEMMA Types ==
    ASSUME TypeOK
    PROVE  /\ \A u \in Users : Exists(u) => user[u] \in UserRow
           /\ \A u \in Users : Live(u) => Exists(u)
           /\ \A u \in Users : epoch[u] \in Nat /\ epoch[u] \in 1 .. MaxEpoch
           /\ \A u \in Users : epoch[u] \in 0 .. MaxEpoch
           /\ \A r \in Slots : req[r] \in Requests
           /\ Idle \in Requests
           /\ Idle.pc = "idle"
           /\ NoUser \notin Users
           /\ 1 \in 1 .. MaxEpoch /\ 0 \in 0 .. MaxEpoch
<1>1. \A u \in Users : Exists(u) => user[u] \in UserRow
  BY DEF TypeOK, Exists
<1>2. MaxEpoch \in Nat /\ MaxEpoch >= 1
  BY EpochAssumption
<1>3. Idle \in Requests
  BY <1>2 DEF Idle, Requests, Labels, Statuses
<1> QED
  BY <1>1, <1>2, <1>3, NoUserAssumption DEF TypeOK, Live, Idle

\* A request that begins with what it is entitled to.
LEMMA Beginning ==
    ASSUME IInv, NEW r \in Slots, Offered(r),
           NEW q \in Requests, q.pc # "idle", Sound(q), ~ overlap => Current(q),
           req' = [req EXCEPT ![r] = q],
           UNCHANGED <<user, identity, epoch, overlap>>
    PROVE  IInv'
<1> USE IInvByRequest
<1>1. TypeOK'
  BY Types DEF TypeOK
<1>2. \A p \in Slots : req'[p] = IF p = r THEN q ELSE req[p]
  BY DEF TypeOK
<1>3. \A p \in Slots : Sound(req[p])'
  BY <1>2 DEF Sound, Exists
<1>4. ASSUME ~ overlap' PROVE OneAtATime' /\ \A p \in Slots : Current(req[p])'
  <2>1. ~ overlap
    BY <1>4
  <2>2. \A p \in Slots : p # r => req'[p].pc = "idle"
    BY <1>2, <2>1 DEF Offered, At
  <2> QED
    BY <1>2, <2>1, <2>2 DEF OneAtATime, At, Current
<1>5. LastWayIn' /\ LockedOut' /\ SessionsRevoked'
  BY DEF LastWayIn, LockedOut, SessionsRevoked, Live, Exists, getAuthProviders, HasGoogle
<1> QED
  BY <1>1, <1>3, <1>4, <1>5, IInvNext

\* The slots after a request has returned.
LEMMA Returned ==
    ASSUME TypeOK, NEW r \in Slots, Return(r)
    PROVE  /\ req' \in [Slots -> Requests]
           /\ \A p \in Slots : req'[p] = IF p = r THEN Idle ELSE req[p]
BY Types DEF Return, TypeOK

\* ... where it was the only one.
LEMMA AllReturned ==
    ASSUME IInv, NEW r \in Slots, req[r].pc # "idle", Return(r), UNCHANGED overlap, ~ overlap
    PROVE  \A p \in Slots : req'[p].pc = "idle"
<1>1. \A p \in Slots : p = r \/ req[p].pc = "idle"
  BY IInvByRequest DEF OneAtATime, At
<1> QED
  BY <1>1, IInvByRequest, Returned, Types

\* A request that ends without having written anything.
LEMMA Returning ==
    ASSUME IInv, NEW r \in Slots, req[r].pc # "idle", Return(r),
           UNCHANGED <<user, identity, epoch, overlap>>
    PROVE  IInv'
<1> USE IInvByRequest
<1>1. TypeOK'
  BY Returned DEF TypeOK
<1>2. \A p \in Slots : Sound(req[p])'
  BY Returned, Types DEF Sound, Exists
<1>3. ASSUME ~ overlap' PROVE OneAtATime' /\ \A p \in Slots : Current(req[p])'
  BY <1>3, AllReturned DEF OneAtATime, At, Current
<1>4. LastWayIn' /\ LockedOut' /\ SessionsRevoked'
  BY DEF LastWayIn, LockedOut, SessionsRevoked, Live, Exists, getAuthProviders, HasGoogle
<1> QED
  BY <1>1, <1>2, <1>3, <1>4, IInvNext

\* A request that ends with a write to the row it is about.
LEMMA WritingRow ==
    ASSUME IInv, NEW r \in Slots, req[r].pc \notin {"idle", "createUser"}, Return(r),
           NEW u \in Users, u = req[r].u,
           NEW row \in UserRow, user' = [user EXCEPT ![u] = row],
           user[u].password => row.password,
           user[u].deleted => row.deleted,
           epoch' = epoch \/ epoch' = Revoked(u),
           ~ overlap => /\ row.token \in {0, epoch'[u]}
                        /\ row.deleted \/ row.status = "SUSPENDED" => row.token = 0,
           UNCHANGED <<identity, overlap>>
    PROVE  IInv'
<1> USE IInvByRequest
<1>1. row # NoUser /\ Exists(u)
  BY NoUserAssumption DEF Sound
<1>2. \A v \in Users : user'[v] = IF v = u THEN row ELSE user[v]
  BY DEF TypeOK
<1>3. /\ epoch' \in [Users -> 1 .. MaxEpoch]
      /\ \A v \in Users : v # u => epoch'[v] = epoch[v]
  BY EpochAssumption DEF Revoked, TypeOK
<1>4. \A v \in Users : Exists(v)' <=> Exists(v)
  BY <1>1, <1>2 DEF Exists
<1>5. TypeOK'
  <2>1. user' \in [Users -> UserRow \union {NoUser}]
    BY DEF TypeOK
  <2> QED
    BY <1>1, <1>2, <1>3, <2>1, Returned DEF TypeOK
<1>6. \A p \in Slots : Sound(req[p])'
  BY <1>2, <1>4, Returned, Types DEF Sound
<1>7. LastWayIn'
  BY <1>1, <1>2, <1>4 DEF LastWayIn, Live, getAuthProviders, HasGoogle
<1>8. ASSUME ~ overlap' PROVE OneAtATime' /\ \A p \in Slots : Current(req[p])'
  BY <1>8, AllReturned DEF OneAtATime, At, Current
<1>9. LockedOut' /\ SessionsRevoked'
  BY <1>2, <1>3, <1>4 DEF LockedOut, SessionsRevoked
<1> QED
  BY <1>5, <1>6, <1>7, <1>8, <1>9, IInvNext

-----------------------------------------------------------------------------
(* The actions.                                                            *)

\* An account from before passwords, or none.
LEMMA InitIInv == Init => IInv
<1> SUFFICES ASSUME Init PROVE IInv
  OBVIOUS
<1>0. LegacyUser \in UserRow
  BY EpochAssumption DEF LegacyUser, UserRow, Statuses
<1>1. LegacyUser \in UserRow /\ LegacyUser # NoUser
  BY <1>0, NoUserAssumption
<1>2. Idle \in Requests /\ Idle.pc = "idle"
  BY EpochAssumption DEF Idle, Requests, Labels, Statuses
<1>3. identity \in [GoogleAccounts -> Users \union {NoUser}]
  BY EmailAssumption DEF Init
<1>4. \A g \in GoogleAccounts : identity[g] # NoUser => user[identity[g]] # NoUser
  BY EmailAssumption, NoUserAssumption DEF Init
<1>5. TypeOK
  <2>1. user \in [Users -> UserRow \union {NoUser}]
    BY <1>1 DEF Init
  <2>2. epoch \in [Users -> 1 .. MaxEpoch]
    BY EpochAssumption DEF Init
  <2>3. req \in [Slots -> Requests] /\ overlap \in BOOLEAN
    BY <1>2 DEF Init
  <2> QED
    BY <1>3, <1>4, <2>1, <2>2, <2>3 DEF TypeOK
<1>6. \A u \in Users : Exists(u) => user[u] = LegacyUser
  BY DEF Init, Exists
<1>7. LastWayIn
  <2> SUFFICES ASSUME NEW u \in Users, Live(u) PROVE HasGoogle(u)
    BY DEF LastWayIn, getAuthProviders
  <2>1. user[u] = LegacyUser
    BY <1>6 DEF Live
  <2>2. PICK g \in GoogleAccounts : GoogleEmail[g] = u
    BY <2>1 DEF Init
  <2>3. identity[g] = u
    BY <1>1, <2>1, <2>2 DEF Init
  <2> QED
    BY <2>3 DEF HasGoogle
<1>8. LockedOut /\ SessionsRevoked
  BY <1>6 DEF LockedOut, SessionsRevoked, LegacyUser
<1>9. \A r \in Slots : req[r] = Idle
  BY DEF Init
<1> QED
  BY <1>2, <1>5, <1>7, <1>8, <1>9, IInvByRequest DEF Sound, Current, OneAtATime, At

\* A row that is created with a request that goes on to its first token: by register
\* without, by completeGoogleRegistration with an identity.
LEMMA CreatingRow ==
    ASSUME IInv, NEW r \in Slots, req[r].pc = "createUser" \/ Offered(r),
           NEW u \in Users, ~ Exists(u),
           user' = [user EXCEPT ![u] = NewUser],
           Begin(r, "updateRefreshToken", u),
           \/ identity' = identity
           \/ \E g \in GoogleAccounts : identity[g] = NoUser /\ identity' = [identity EXCEPT ![g] = u],
           UNCHANGED <<epoch, overlap>>
    PROVE  IInv'
<1> DEFINE q == [Idle EXCEPT !.pc = "updateRefreshToken", !.u = u, !.epoch = epoch[u]]
<1> USE IInvByRequest
<1>0. NewUser \in UserRow /\ NewUser.password
      /\ ~ NewUser.deleted /\ NewUser.status = "ACTIVE" /\ NewUser.token = 0
  BY EpochAssumption DEF NewUser, UserRow, Statuses
<1>1. NewUser # NoUser
  BY <1>0, NoUserAssumption
<1>2. q \in Requests /\ q.pc = "updateRefreshToken" /\ q.u = u /\ q.epoch = epoch[u]
  BY Types DEF Idle, Requests, Labels
<1>3. /\ \A p \in Slots : req'[p] = IF p = r THEN q ELSE req[p]
      /\ req' \in [Slots -> Requests]
  BY <1>2 DEF Begin, TypeOK
<1> HIDE DEF q
<1>4. \A v \in Users : user'[v] = IF v = u THEN NewUser ELSE user[v]
  BY DEF TypeOK
<1>5. \A g \in GoogleAccounts : identity'[g] \in {identity[g], u}
  BY DEF TypeOK
<1>6. \A v \in Users, g \in GoogleAccounts : identity[g] = v => identity'[g] = v
  BY NoUserAssumption DEF TypeOK
<1>7. TypeOK'
  <2>1. user' \in [Users -> UserRow \union {NoUser}]
    BY <1>0 DEF TypeOK
  <2>2. identity' \in [GoogleAccounts -> Users \union {NoUser}]
    BY DEF TypeOK
  <2>3. \A g \in GoogleAccounts : identity'[g] # NoUser => user'[identity'[g]] # NoUser
    BY <1>1, <1>4, <1>5 DEF TypeOK
  <2> QED
    BY <1>3, <2>1, <2>2, <2>3 DEF TypeOK
<1>8. \A p \in Slots : Sound(req[p])'
  BY <1>1, <1>2, <1>3, <1>4 DEF Sound, Exists
<1>9. LastWayIn'
  BY <1>0, <1>4, <1>6 DEF LastWayIn, Live, Exists, getAuthProviders, HasGoogle
<1>10. ASSUME ~ overlap' PROVE OneAtATime' /\ \A p \in Slots : Current(req[p])'
  <2>1. \A p \in Slots : p # r => req'[p].pc = "idle"
    BY <1>3, <1>10 DEF Offered, At, OneAtATime
  <2>2. Current(req[r])'
    BY <1>0, <1>2, <1>3, <1>4 DEF Current
  <2> QED
    BY <2>1, <2>2 DEF OneAtATime, At, Current
<1>11. LockedOut' /\ SessionsRevoked'
  BY <1>0, <1>4 DEF LockedOut, SessionsRevoked, Exists
<1> QED
  BY <1>7, <1>8, <1>9, <1>10, <1>11, IInvNext

\* Every request begins with what it is entitled to.
LEMMA RequestsBegin ==
    ASSUME IInv, NEW r \in Slots, Request(r)
    PROVE  IInv'
<1> USE IInvByRequest, Types
<1> DEFINE About(u) == [Idle EXCEPT !.u = u, !.epoch = epoch[u]]
<1>1. ASSUME NEW u \in Users, NEW pc \in Labels, pc \notin {"idle", "comparePassword",
             "createIdentity", "updateRefreshToken"},
             pc # "createUser" => Exists(u), pc = "deleteIdentity" => user[u].password,
             Offered(r), Begin(r, pc, u), UNCHANGED <<user, identity, epoch, overlap>>
      PROVE  IInv'
  <2> DEFINE q == [Idle EXCEPT !.pc = pc, !.u = u, !.epoch = epoch[u]]
  <2>1. q \in Requests /\ q.pc = pc /\ q.u = u
    BY <1>1 DEF Idle, Requests
  <2>2. Sound(q) /\ Current(q)
    BY <1>1, <2>1 DEF Sound, Current
  <2>3. req' = [req EXCEPT ![r] = q]
    BY <1>1 DEF Begin
  <2> QED
    BY <1>1, <2>1, <2>2, <2>3, Beginning
<1>2. ASSUME NEW u \in Users, register(r, u) PROVE IInv'
  BY <1>1, <1>2 DEF register, Labels
<1>3. ASSUME NEW u \in Users, login(r, u) PROVE IInv'
  <2> DEFINE q == [Idle EXCEPT !.pc = "comparePassword", !.u = u,
                       !.status = IF user[u].deleted THEN "INACTIVE" ELSE user[u].status,
                       !.epoch = epoch[u]]
  <2>1. user[u] \in UserRow /\ Exists(u)
    BY <1>3 DEF login
  <2>2. q \in Requests /\ q.pc = "comparePassword" /\ q.u = u /\ q.epoch = epoch[u]
        /\ q.status = IF user[u].deleted THEN "INACTIVE" ELSE user[u].status
    BY <2>1 DEF Idle, Requests, Labels, Statuses, UserRow
  <2>3. Sound(q) /\ Current(q)
    BY <2>1, <2>2 DEF Sound, Current
  <2> QED
    BY <1>3, <2>2, <2>3, Beginning DEF login
<1>4. ASSUME NEW u \in Users, adminLogin(r, u) PROVE IInv'
  <2> DEFINE q == [Idle EXCEPT !.pc = "comparePassword", !.u = u, !.epoch = epoch[u]]
  <2>1. q \in Requests /\ q.pc = "comparePassword" /\ q.u = u /\ q.epoch = epoch[u]
    BY DEF Idle, Requests, Labels
  <2>2. Sound(q) /\ Current(q)
    BY <1>4, <2>1 DEF adminLogin, Sound, Current, Live
  <2> QED
    BY <1>4, <2>1, <2>2, Beginning DEF adminLogin, Begin
<1>5. ASSUME NEW u \in Users, refreshToken(r, u) PROVE IInv'
  <2> DEFINE q == [Idle EXCEPT !.pc = "updateRefreshToken", !.u = u, !.epoch = user[u].token]
  <2>1. user[u] \in UserRow /\ Exists(u) /\ ~ user[u].deleted /\ user[u].token # 0
    BY <1>5 DEF refreshToken, Live
  <2>2. q \in Requests /\ q.pc = "updateRefreshToken" /\ q.u = u /\ q.epoch = user[u].token
    BY <2>1 DEF Idle, Requests, Labels, UserRow
  <2>3. Sound(q)
    BY <2>1, <2>2 DEF Sound
  <2>4. ASSUME ~ overlap PROVE Current(q)
    BY <2>1, <2>2, <2>4 DEF Current, LockedOut, SessionsRevoked
  <2> QED
    BY <1>5, <2>2, <2>3, <2>4, Beginning DEF refreshToken
<1>6. ASSUME NEW u \in Users, unlinkGoogle(r, u) PROVE IInv'
  BY <1>1, <1>6 DEF unlinkGoogle, Live, Labels
<1>7. ASSUME NEW u \in Users, changePassword(r, u) PROVE IInv'
  BY <1>1, <1>7 DEF changePassword, Live, Labels
<1>8. ASSUME NEW u \in Users, deleteAccount(r, u) PROVE IInv'
  BY <1>1, <1>8 DEF deleteAccount, Live, Labels
<1>9. ASSUME NEW u \in Users, NEW hard \in BOOLEAN, deleteUser(r, u, hard) PROVE IInv'
  BY <1>1, <1>9 DEF deleteUser, Labels
<1>10. ASSUME NEW u \in Users, NEW status \in Statuses, updateUserStatus(r, u, status) PROVE IInv'
  <2> DEFINE q == [Idle EXCEPT !.pc = "updateStatus", !.u = u, !.status = status]
  <2>1. q \in Requests /\ q.pc = "updateStatus" /\ q.u = u
    BY DEF Idle, Requests, Labels
  <2>2. Sound(q) /\ Current(q)
    BY <1>10, <2>1 DEF updateUserStatus, Sound, Current
  <2> QED
    BY <1>10, <2>1, <2>2, Beginning DEF updateUserStatus
<1>11. ASSUME NEW u \in Users, NEW g \in GoogleAccounts, linkGoogle(r, u, g) PROVE IInv'
  <2> DEFINE q == [Idle EXCEPT !.pc = "createIdentity", !.u = u, !.g = g]
  <2>1. q \in Requests /\ q.pc = "createIdentity" /\ q.u = u /\ q.g = g /\ ~ q.login
    BY DEF Idle, Requests, Labels
  <2>2. Sound(q) /\ Current(q)
    BY <1>11, <2>1 DEF linkGoogle, Sound, Current
  <2> QED
    BY <1>11, <2>1, <2>2, Beginning DEF linkGoogle
<1>12. ASSUME NEW g \in GoogleAccounts, googleLogin(r, g) PROVE IInv'
  <2> DEFINE u == IF identity[g] # NoUser THEN identity[g] ELSE GoogleEmail[g]
             Found(pc) == [[Idle EXCEPT !.u = u, !.g = g, !.login = TRUE, !.epoch = epoch[u],
                                        !.status = user[u].status] EXCEPT !.pc = pc]
  <2>1. u \in Users
    BY EmailAssumption DEF TypeOK
  <2>2. ASSUME identity[g] # NoUser PROVE Exists(u)
    BY <2>2 DEF TypeOK, Exists
  <2>3. Exists(u) /\ user[u] \in UserRow
    BY <1>12, <2>1, <2>2 DEF googleLogin, Live
  <2>4. \A pc \in Labels : /\ Found(pc) \in Requests
                           /\ Found(pc).pc = pc /\ Found(pc).u = u /\ Found(pc).g = g
                           /\ Found(pc).login /\ Found(pc).epoch = epoch[u]
                           /\ Found(pc).status = user[u].status
    BY <2>1, <2>3 DEF Idle, Requests, UserRow
  <2>5. Offered(r) /\ UNCHANGED <<user, identity, epoch, overlap>>
    BY <1>12 DEF googleLogin
  <2>6. CASE ~ Blocked(u) /\ req' = [req EXCEPT ![r] = Found("updateRefreshToken")]
    <3> DEFINE q == Found("updateRefreshToken")
    <3>1. q \in Requests /\ q.pc = "updateRefreshToken" /\ q.u = u /\ q.epoch = epoch[u]
      BY <2>4 DEF Labels
    <3>2. Sound(q) /\ Current(q)
      BY <2>1, <2>3, <2>6, <3>1 DEF Sound, Current, Blocked
    <3> HIDE DEF q
    <3>3. req' = [req EXCEPT ![r] = q]
      BY <2>6 DEF q
    <3> QED
      BY <2>5, <3>1, <3>2, <3>3, Beginning
  <2>7. CASE Live(u) /\ req' = [req EXCEPT ![r] = Found("createIdentity")]
    <3> DEFINE q == Found("createIdentity")
    <3>1. q \in Requests /\ q.pc = "createIdentity" /\ q.u = u /\ q.g = g
          /\ q.epoch = epoch[u] /\ q.status = user[u].status
      BY <2>4 DEF Labels
    <3>2. Sound(q) /\ Current(q)
      BY <2>1, <2>3, <2>7, <3>1 DEF Sound, Current, Live
    <3> HIDE DEF q
    <3>3. req' = [req EXCEPT ![r] = q]
      BY <2>7 DEF q
    <3> QED
      BY <2>5, <3>1, <3>2, <3>3, Beginning
  <2> QED
    BY <1>12, <2>6, <2>7 DEF googleLogin
<1>13. ASSUME NEW g \in GoogleAccounts, completeGoogleRegistration(r, g) PROVE IInv'
  <2>1. GoogleEmail[g] \in Users
    BY EmailAssumption
  <2> QED
    BY <1>13, <2>1, CreatingRow DEF completeGoogleRegistration
<1> QED
  BY <1>2, <1>3, <1>4, <1>5, <1>6, <1>7, <1>8, <1>9, <1>10, <1>11, <1>12, <1>13 DEF Request

\* A password is the way in that is left.
LEMMA deleteIdentityKeeps ==
    ASSUME IInv, NEW r \in Slots, deleteIdentity(r)
    PROVE  IInv'
<1> USE IInvByRequest, Types
<1>1. req[r].pc = "deleteIdentity" /\ req[r].u \in Users /\ Exists(req[r].u)
      /\ user[req[r].u].password
  BY DEF deleteIdentity, At, Sound
<1>2. /\ Return(r)
      /\ UNCHANGED <<user, epoch, overlap>>
      /\ identity' = [g \in GoogleAccounts |->
                          IF identity[g] = req[r].u THEN NoUser ELSE identity[g]]
  BY DEF deleteIdentity
<1>3. TypeOK'
  BY <1>2, Returned DEF TypeOK
<1>4. \A p \in Slots : Sound(req[p])'
  BY <1>2, Returned DEF Sound, Exists
<1>5. LastWayIn'
  <2> SUFFICES ASSUME NEW u \in Users, Live(u), ~ user[u].password
               PROVE  HasGoogle(u)'
    BY <1>2 DEF LastWayIn, Live, Exists, getAuthProviders
  <2>1. u # req[r].u
    BY <1>1
  <2>2. PICK g \in GoogleAccounts : identity[g] = u
    BY DEF LastWayIn, getAuthProviders, HasGoogle
  <2> QED
    BY <1>2, <2>1, <2>2 DEF HasGoogle
<1>6. ASSUME ~ overlap' PROVE OneAtATime' /\ \A p \in Slots : Current(req[p])'
  BY <1>1, <1>2, <1>6, AllReturned DEF OneAtATime, At, Current
<1>7. LockedOut' /\ SessionsRevoked'
  BY <1>2 DEF LockedOut, SessionsRevoked, Exists
<1> QED
  BY <1>3, <1>4, <1>5, <1>6, <1>7, IInvNext

\* A request that has found the user goes on to write the token.
LEMMA GoingOn ==
    ASSUME IInv, NEW r \in Slots, req[r].pc \in {"comparePassword", "createIdentity"},
           req' = [req EXCEPT ![r].pc = "updateRefreshToken"],
           ~ overlap => /\ ~ user[req[r].u].deleted
                        /\ user[req[r].u].status # "SUSPENDED"
                        /\ req[r].epoch = epoch[req[r].u],
           TypeOK', LastWayIn', UNCHANGED <<user, epoch, overlap>>
    PROVE  IInv'
<1> USE IInvByRequest, Types
<1>1. \A p \in Slots : req'[p] = IF p = r THEN [req[r] EXCEPT !.pc = "updateRefreshToken"]
                                 ELSE req[p]
  BY DEF TypeOK
<1>2. /\ req'[r].pc = "updateRefreshToken" /\ req'[r].u = req[r].u
      /\ req'[r].epoch = req[r].epoch
  BY <1>1 DEF Requests
<1>3. \A p \in Slots : Sound(req[p])'
  BY <1>1, <1>2 DEF Sound, Exists
<1>4. ASSUME ~ overlap' PROVE OneAtATime' /\ \A p \in Slots : Current(req[p])'
  <2>1. \A p \in Slots : p # r => req'[p].pc = "idle"
    BY <1>1, <1>4 DEF OneAtATime, At
  <2> QED
    BY <1>2, <1>4, <2>1 DEF OneAtATime, At, Current
<1>5. LockedOut' /\ SessionsRevoked'
  BY DEF LockedOut, SessionsRevoked, Exists
<1> QED
  BY <1>3, <1>4, <1>5, IInvNext

\* The index lets only a Google account through that nobody has.
LEMMA createIdentityKeeps ==
    ASSUME IInv, NEW r \in Slots, createIdentity(r)
    PROVE  IInv'
<1> USE IInvByRequest, Types
<1>1. /\ req[r].pc = "createIdentity" /\ req[r].u \in Users /\ Exists(req[r].u)
      /\ req[r].g \in GoogleAccounts
      /\ UNCHANGED <<user, epoch, overlap>>
  BY DEF createIdentity, At, Sound
<1>2. CASE identity[req[r].g] # NoUser
  BY <1>1, <1>2, Returning DEF createIdentity
<1>3. CASE identity[req[r].g] = NoUser
  <2>1. identity' = [identity EXCEPT ![req[r].g] = req[r].u]
    BY <1>3 DEF createIdentity
  <2>2. /\ identity' \in [GoogleAccounts -> Users \union {NoUser}]
        /\ \A g \in GoogleAccounts : identity'[g] # NoUser => user'[identity'[g]] # NoUser
        /\ \A g \in GoogleAccounts, u \in Users : identity[g] = u => identity'[g] = u
    BY <1>1, <1>3, <2>1 DEF TypeOK, Exists
  <2>3. LastWayIn'
    BY <1>1, <2>2 DEF LastWayIn, Live, Exists, getAuthProviders, HasGoogle
  <2>4. CASE req[r].login /\ req[r].status = "ACTIVE"
    <3>1. req' = [req EXCEPT ![r].pc = "updateRefreshToken"]
      BY <1>3, <2>4 DEF createIdentity
    <3>2. req' \in [Slots -> Requests]
      BY <3>1 DEF TypeOK, Requests, Labels
    <3>3. TypeOK'
      BY <1>1, <2>2, <3>2 DEF TypeOK
    <3>4. ~ overlap => /\ ~ user[req[r].u].deleted
                       /\ user[req[r].u].status # "SUSPENDED"
                       /\ req[r].epoch = epoch[req[r].u]
      BY <1>1, <2>4 DEF Current
    <3> QED
      BY <1>1, <2>3, <3>1, <3>3, <3>4, GoingOn
  <2>5. CASE ~ (req[r].login /\ req[r].status = "ACTIVE")
    <3>1. Return(r)
      BY <1>3, <2>5 DEF createIdentity
    <3>2. TypeOK'
      BY <1>1, <2>2, <3>1, Returned DEF TypeOK
    <3>3. \A p \in Slots : Sound(req[p])'
      BY <1>1, <3>1, Returned DEF Sound, Exists
    <3>4. ASSUME ~ overlap' PROVE OneAtATime' /\ \A p \in Slots : Current(req[p])'
      BY <1>1, <3>1, <3>4, AllReturned DEF OneAtATime, At, Current
    <3>5. LockedOut' /\ SessionsRevoked'
      BY <1>1 DEF LockedOut, SessionsRevoked, Exists
    <3> QED
      BY <2>3, <3>2, <3>3, <3>4, <3>5, IInvNext
  <2> QED
    BY <2>4, <2>5
<1> QED
  BY <1>2, <1>3

\* With the row its identities and the requests about it go.
LEMMA hardDeleteKeeps ==
    ASSUME IInv, NEW r \in Slots, hardDelete(r)
    PROVE  IInv'
<1> USE IInvByRequest, Types
<1> DEFINE u == req[r].u
<1>1. u \in Users /\ req[r].pc = "hardDelete"
  BY DEF hardDelete, At, Sound
<1>2. /\ \A v \in Users : user'[v] = IF v = u THEN NoUser ELSE user[v]
      /\ user' \in [Users -> UserRow \union {NoUser}]
  BY DEF hardDelete, TypeOK
<1>3. /\ \A g \in GoogleAccounts : identity'[g] = IF identity[g] = u THEN NoUser ELSE identity[g]
      /\ identity' \in [GoogleAccounts -> Users \union {NoUser}]
  BY DEF hardDelete, TypeOK
<1>4. /\ \A p \in Slots : req'[p] = IF req[p].u = u /\ req[p].pc # "createUser"
                                    THEN Idle ELSE req[p]
      /\ req' \in [Slots -> Requests]
  BY DEF hardDelete, At, TypeOK
<1>5. UNCHANGED <<epoch, overlap>>
  BY DEF hardDelete
<1>6. TypeOK'
  <2>1. \A g \in GoogleAccounts : identity'[g] # NoUser => user'[identity'[g]] # NoUser
    BY <1>2, <1>3 DEF TypeOK
  <2> QED
    BY <1>2, <1>3, <1>4, <1>5, <2>1 DEF TypeOK
<1>7. \A p \in Slots : Sound(req[p])'
  <2> SUFFICES ASSUME NEW p \in Slots PROVE Sound(req[p])'
    OBVIOUS
  <2>1. Sound(req[p])
    OBVIOUS
  <2> QED
    BY <1>2, <1>4, <2>1 DEF Sound, Exists
<1>8. LastWayIn'
  BY <1>2, <1>3 DEF LastWayIn, Live, Exists, getAuthProviders, HasGoogle
<1>9. ASSUME ~ overlap' PROVE OneAtATime' /\ \A p \in Slots : Current(req[p])'
  <2>1. \A p \in Slots : req'[p].pc = "idle"
    BY <1>1, <1>4, <1>5, <1>9 DEF OneAtATime, At
  <2> QED
    BY <2>1 DEF OneAtATime, At, Current
<1>10. LockedOut' /\ SessionsRevoked'
  BY <1>2, <1>5 DEF LockedOut, SessionsRevoked, Exists
<1> QED
  BY <1>6, <1>7, <1>8, <1>9, <1>10, IInvNext

\* Every other step writes to the row of its request, or nothing.
LEMMA StepsKeep ==
    ASSUME IInv, NEW r \in Slots, Step(r)
    PROVE  IInv'
<1> USE IInvByRequest, Types
<1> DEFINE u == req[r].u
<1>1. ASSUME createUser(r) PROVE IInv'
  <2>1. req[r].pc = "createUser" /\ u \in Users
    BY <1>1 DEF createUser, At, Sound
  <2>2. CASE Exists(u)
    BY <1>1, <2>1, <2>2, Returning DEF createUser
  <2>3. CASE ~ Exists(u)
    BY <1>1, <2>1, <2>3, CreatingRow DEF createUser
  <2> QED
    BY <2>2, <2>3
<1>2. ASSUME comparePassword(r) PROVE IInv'
  <2>1. req[r].pc = "comparePassword" /\ u \in Users
    BY <1>2 DEF comparePassword, At, Sound
  <2>2. CASE req[r].status = "ACTIVE"
    <3>1. req' = [req EXCEPT ![r].pc = "updateRefreshToken"]
          /\ UNCHANGED <<user, identity, epoch, overlap>>
      BY <1>2, <2>2 DEF comparePassword
    <3>2. req' \in [Slots -> Requests]
      BY <3>1 DEF TypeOK, Requests, Labels
    <3>3. TypeOK' /\ LastWayIn'
      BY <3>1, <3>2 DEF TypeOK, LastWayIn, Live, Exists, getAuthProviders, HasGoogle
    <3>4. ~ overlap => ~ user[u].deleted /\ user[u].status # "SUSPENDED" /\ req[r].epoch = epoch[u]
      BY <2>1, <2>2 DEF Current
    <3> QED
      BY <2>1, <3>1, <3>3, <3>4, GoingOn
  <2>3. CASE req[r].status # "ACTIVE"
    BY <1>2, <2>1, <2>3, Returning DEF comparePassword
  <2> QED
    BY <2>2, <2>3
<1>3. ASSUME updateRefreshToken(r) PROVE IInv'
  <2> DEFINE row == [user[u] EXCEPT !.token = req[r].epoch]
  <2>1. req[r].pc = "updateRefreshToken" /\ u \in Users /\ user[u] \in UserRow
    BY <1>3 DEF updateRefreshToken, At, Sound
  <2>2. /\ row \in UserRow /\ row.password = user[u].password /\ row.deleted = user[u].deleted
        /\ row.status = user[u].status /\ row.token = req[r].epoch
    BY <2>1 DEF UserRow, Requests
  <2>3. /\ user' = [user EXCEPT ![u] = row]
        /\ Return(r) /\ UNCHANGED <<identity, epoch, overlap>>
    BY <1>3, <2>1 DEF updateRefreshToken
  <2>4. ~ overlap => /\ row.token \in {0, epoch'[u]}
                     /\ row.deleted \/ row.status = "SUSPENDED" => row.token = 0
    BY <2>1, <2>2, <2>3 DEF Current
  <2> HIDE DEF row
  <2> QED
    BY <2>1, <2>2, <2>3, <2>4, WritingRow
<1>4. ASSUME updatePassword(r) PROVE IInv'
  <2> DEFINE row == [user[u] EXCEPT !.password = TRUE, !.token = 0]
  <2>1. req[r].pc = "updatePassword" /\ u \in Users /\ user[u] \in UserRow
    BY <1>4 DEF updatePassword, At, Sound
  <2>2. /\ row \in UserRow /\ row.password /\ row.deleted = user[u].deleted /\ row.token = 0
    BY <2>1 DEF UserRow
  <2>3. /\ user' = [user EXCEPT ![u] = row] /\ epoch' = Revoked(u)
        /\ Return(r) /\ UNCHANGED <<identity, overlap>>
    BY <1>4, <2>1 DEF updatePassword
  <2> HIDE DEF row
  <2> QED
    BY <2>1, <2>2, <2>3, WritingRow
<1>5. ASSUME softDelete(r) PROVE IInv'
  <2> DEFINE row == [user[u] EXCEPT !.deleted = TRUE, !.status = "INACTIVE", !.token = 0]
  <2>1. req[r].pc = "softDelete" /\ u \in Users /\ user[u] \in UserRow
    BY <1>5 DEF softDelete, At, Sound
  <2>2. row \in UserRow /\ row.password = user[u].password /\ row.deleted /\ row.token = 0
    BY <2>1 DEF UserRow, Statuses
  <2>3. /\ user' = [user EXCEPT ![u] = row] /\ epoch' = Revoked(u)
        /\ Return(r) /\ UNCHANGED <<identity, overlap>>
    BY <1>5, <2>1 DEF softDelete
  <2> HIDE DEF row
  <2> QED
    BY <2>1, <2>2, <2>3, WritingRow
<1>6. ASSUME updateStatus(r) PROVE IInv'
  <2> DEFINE row == [user[u] EXCEPT !.status = req[r].status,
                                    !.token = IF req[r].status = "SUSPENDED" THEN 0 ELSE @]
  <2>1. req[r].pc = "updateStatus" /\ u \in Users /\ user[u] \in UserRow /\ Exists(u)
    BY <1>6 DEF updateStatus, At, Sound
  <2>2. /\ row \in UserRow /\ row.password = user[u].password /\ row.deleted = user[u].deleted
        /\ row.status = req[r].status
        /\ row.token = IF req[r].status = "SUSPENDED" THEN 0 ELSE user[u].token
    BY <2>1 DEF UserRow, Requests
  <2>3. /\ user' = [user EXCEPT ![u] = row]
        /\ epoch' = IF req[r].status = "SUSPENDED" THEN Revoked(u) ELSE epoch
        /\ Return(r) /\ UNCHANGED <<identity, overlap>>
    BY <1>6, <2>1 DEF updateStatus
  <2>4. ~ overlap => /\ row.token \in {0, epoch'[u]}
                     /\ row.deleted \/ row.status = "SUSPENDED" => row.token = 0
    BY <2>1, <2>2, <2>3 DEF LockedOut, SessionsRevoked
  <2> HIDE DEF row
  <2> QED
    BY <2>1, <2>2, <2>3, <2>4, WritingRow
<1> QED
  BY <1>1, <1>2, <1>3, <1>4, <1>5, <1>6, createIdentityKeeps, deleteIdentityKeeps,
     hardDeleteKeeps DEF Step

\* logout is a request of one statement.
LEMMA logoutKeeps ==
    ASSUME IInv, NEW u \in Users, logout(u)
    PROVE  IInv'
<1> USE IInvByRequest, Types
<1> DEFINE row == [user[u] EXCEPT !.token = 0]
<1>1. user[u] \in UserRow /\ Exists(u) /\ UNCHANGED <<identity, req, overlap>>
  BY DEF logout
<1>2. /\ row \in UserRow /\ row # NoUser /\ row.password = user[u].password
      /\ row.deleted = user[u].deleted /\ row.token = 0
  <2>1. row \in UserRow /\ row.password = user[u].password
        /\ row.deleted = user[u].deleted /\ row.token = 0
    BY <1>1, EpochAssumption DEF UserRow
  <2> QED
    BY <2>1, NoUserAssumption
<1>3. /\ \A v \in Users : user'[v] = IF v = u THEN row ELSE user[v]
      /\ user' \in [Users -> UserRow \union {NoUser}]
  BY <1>1, <1>2 DEF logout, TypeOK
<1>4. /\ epoch' \in [Users -> 1 .. MaxEpoch]
      /\ \A v \in Users : v # u => epoch'[v] = epoch[v]
  BY EpochAssumption DEF logout, Revoked, TypeOK
<1> HIDE DEF row
<1>5. TypeOK'
  BY <1>1, <1>2, <1>3, <1>4 DEF TypeOK
<1>6. \A p \in Slots : Sound(req[p])'
  BY <1>1, <1>2, <1>3 DEF Sound, Exists
<1>7. LastWayIn'
  BY <1>1, <1>2, <1>3 DEF LastWayIn, Live, Exists, getAuthProviders, HasGoogle
<1>8. ASSUME ~ overlap' PROVE OneAtATime' /\ \A p \in Slots : Current(req[p])'
  <2>1. \A p \in Slots : req'[p].pc = "idle"
    BY <1>1, <1>8 DEF logout, At
  <2> QED
    BY <2>1 DEF OneAtATime, At, Current
<1>9. LockedOut' /\ SessionsRevoked'
  BY <1>1, <1>2, <1>3, <1>4 DEF LockedOut, SessionsRevoked, Exists
<1> QED
  BY <1>5, <1>6, <1>7, <1>8, <1>9, IInvNext

-----------------------------------------------------------------------------
(* Theorems.                                                               *)

\* Every step keeps the invariant.
LEMMA NextIInv == IInv /\ [Next]_vars => IInv'
<1> SUFFICES ASSUME IInv, [Next]_vars PROVE IInv'
  OBVIOUS
<1>1. CASE UNCHANGED vars
  BY <1>1 DEF vars, IInv, TypeOK, RequestInv, SerialInv, OneAtATime, SignIn, LastWayIn,
     LockedOut, SessionsRevoked, At, Exists, Live, getAuthProviders, HasGoogle
<1>2. ASSUME NEW r \in Slots, Request(r) PROVE IInv'
  BY <1>2, RequestsBegin
<1>3. ASSUME NEW r \in Slots, Step(r) PROVE IInv'
  BY <1>3, StepsKeep
<1>4. ASSUME NEW u \in Users, logout(u) PROVE IInv'
  BY <1>4, logoutKeeps
<1> QED
  BY <1>1, <1>2, <1>3, <1>4 DEF Next

\* The inductive invariant, for any number of users and of overlapping requests.
THEOREM Invariant == Spec => []IInv
BY InitIInv, NextIInv, PTL DEF Spec

\* The tables are well-formed, and identities refer to rows that exist.
THEOREM TypeCorrect == Spec => []TypeOK
<1>1. IInv => TypeOK
  BY DEF IInv
<1> QED
  BY <1>1, Invariant, PTL

\* While requests come one after another nobody who is suspended or deleted has a
\* refresh token (refreshToken does not check).
THEOREM LockedOutAlways == Spec => []LockedOut
<1>1. IInv => LockedOut
  BY DEF IInv
<1> QED
  BY <1>1, Invariant, PTL

\* ... and no session survives its revocation.
THEOREM SessionsRevokedAlways == Spec => []SessionsRevoked
<1>1. IInv => SessionsRevoked
  BY DEF IInv
<1> QED
  BY <1>1, Invariant, PTL

\* However requests overlap, every account keeps a way to sign in.
THEOREM LastWayInAlways == Spec => []LastWayIn
<1>1. IInv => LastWayIn
  BY DEF IInv
<1> QED
  BY <1>1, Invariant, PTL

\* No step passes a linked Google account on to another user.
LEMMA StepNeverRelinks ==
    ASSUME IInv, [Next]_vars, NEW g \in GoogleAccounts, identity[g] # NoUser
    PROVE  identity'[g] \in {identity[g], NoUser}
<1>1. CASE UNCHANGED identity
  BY <1>1
<1>2. ASSUME NEW r \in Slots, createIdentity(r) PROVE identity'[g] = identity[g]
  <2>1. identity \in [GoogleAccounts -> Users \union {NoUser}]
    BY IInvByRequest DEF TypeOK
  <2> QED
    BY <1>2, <2>1 DEF createIdentity
<1>3. ASSUME NEW r \in Slots, NEW h \in GoogleAccounts, completeGoogleRegistration(r, h)
      PROVE  identity'[g] = identity[g]
  BY <1>3, IInvByRequest DEF completeGoogleRegistration, TypeOK
<1>4. ASSUME NEW r \in Slots, deleteIdentity(r) \/ hardDelete(r)
      PROVE  identity'[g] \in {identity[g], NoUser}
  BY <1>4 DEF deleteIdentity, hardDelete
<1> QED
  BY <1>1, <1>2, <1>3, <1>4 DEF Next, Request, Step, vars, register, login, adminLogin,
     refreshToken, unlinkGoogle, changePassword, deleteAccount, deleteUser, updateUserStatus,
     linkGoogle, googleLogin, createUser, comparePassword, updateRefreshToken,
     updatePassword, softDelete, updateStatus, logout

\* A linked Google account never passes from one user to another, not even between
\* simultaneous links, without having been unlinked.
THEOREM NeverRelinkedAlways == Spec => NeverRelinked
<1>1. IInv /\ [Next]_vars =>
        [\A g \in GoogleAccounts : identity[g] # NoUser => identity'[g] \in {identity[g], NoUser}]_vars
  BY StepNeverRelinks
<1> QED
  BY <1>1, Invariant, PTL DEF Spec, NeverRelinked

=============================================================================
