--------------------------- MODULE ServicesProofs ---------------------------
(* Proofs about MCServices and its parts: PushDelivery for any number of     *)
(* users, devices, notifications and pushes under way, WeatherCache for any  *)
(* times and providers, RouteLegs for ways of any length.                    *)
EXTENDS MCServices, NaturalsInduction, WellFoundedInduction, TLAPS

DeviceRow == [user : Users, active : BOOLEAN] \union {Push!NoDevice}
NoteRow == [recipient : Users, read : BOOLEAN] \union {Push!NoNote}
PushRecord == [pc : {"idle", "send", "deactivate"}, tokens : SUBSET Tokens,
               invalid : SUBSET Tokens]

\* Nobody is signed in where the app is not installed.
SignedInInstalled == \A t \in Tokens : ~ installed[t] => signedIn[t] = Nobody

\* The inductive invariant of the proofs.
PushInv == Push!TypeOK /\ Push!RightHands /\ SignedInInstalled

-----------------------------------------------------------------------------
(* PushDelivery: devices.                                                  *)

\* Requests about devices leave pushes alone.
LEMMA SamePushes ==
    ASSUME PushInv, push' = push, notification' = notification,
           device' \in [Tokens -> DeviceRow],
           installed' \in [Tokens -> BOOLEAN],
           signedIn' \in [Tokens -> Users \union {Nobody}],
           refused' \subseteq Tokens
    PROVE  Push!TypeOK'
BY DEF PushInv, Push!TypeOK, DeviceRow, Push!NoDevice

\* Whoever signs in on a phone takes its token over.
LEMMA RegisterStep ==
    ASSUME Nobody \notin Users, PushInv, NEW u \in Users, NEW t \in Tokens, Push!registerToken(u, t)
    PROVE  PushInv'
<1>1. /\ installed[t] /\ UNCHANGED <<notification, push, installed>> /\ refused' = refused \ {t}
      /\ device' = [device EXCEPT ![t] = [user |-> u, active |-> TRUE]]
      /\ signedIn' = [signedIn EXCEPT ![t] = u]
  BY DEF Push!registerToken
<1>2. /\ device \in [Tokens -> DeviceRow] /\ signedIn \in [Tokens -> Users \union {Nobody}]
      /\ installed \in [Tokens -> BOOLEAN] /\ refused \subseteq Tokens
  BY DEF PushInv, Push!TypeOK, DeviceRow
<1>3. /\ device' \in [Tokens -> DeviceRow]
      /\ signedIn' \in [Tokens -> Users \union {Nobody}]
  BY <1>1, <1>2 DEF DeviceRow
<1>4. Push!TypeOK'
  BY <1>1, <1>2, <1>3, SamePushes
<1>5. ASSUME NEW k \in Tokens, NEW v \in Users, installed'[k]
      PROVE  /\ k \in Push!findActiveTokensByUser(v)' => signedIn'[k] = v
             /\ signedIn'[k] = v => k \in Push!findActiveTokensByUser(v)' \union refused'
  <2>1. CASE k = t
    BY <1>1, <1>2, <2>1 DEF Push!findActiveTokensByUser
  <2>2. CASE k # t
    BY <1>1, <1>2, <1>5, <2>2 DEF Push!findActiveTokensByUser, PushInv, Push!RightHands
  <2> QED
    BY <2>1, <2>2
<1>6. SignedInInstalled'
  BY <1>1, <1>2 DEF PushInv, SignedInInstalled
<1> QED
  BY <1>4, <1>5, <1>6 DEF PushInv, Push!RightHands

\* A sign-out that comes late finds the token with its next owner, and leaves it there.
LEMMA DeactivateStep ==
    ASSUME Nobody \notin Users, PushInv, NEW u \in Users, NEW t \in Tokens,
           Push!deactivateToken(u, t)
    PROVE  PushInv'
<1>1. /\ device[t] # Push!NoDevice /\ UNCHANGED <<notification, push, installed, refused>>
      /\ device' = IF device[t].user = u THEN [device EXCEPT ![t].active = FALSE] ELSE device
      /\ signedIn' = [signedIn EXCEPT ![t] = IF signedIn[t] = u THEN Nobody ELSE signedIn[t]]
  BY DEF Push!deactivateToken
<1>2. /\ device \in [Tokens -> DeviceRow] /\ signedIn \in [Tokens -> Users \union {Nobody}]
      /\ installed \in [Tokens -> BOOLEAN] /\ refused \subseteq Tokens
  BY DEF PushInv, Push!TypeOK, DeviceRow
<1>3. [device[t] EXCEPT !.active = FALSE] \in [user : Users, active : BOOLEAN]
  BY <1>1, <1>2 DEF DeviceRow
<1>4. /\ device' \in [Tokens -> DeviceRow]
      /\ signedIn' \in [Tokens -> Users \union {Nobody}]
  BY <1>1, <1>2, <1>3 DEF DeviceRow
<1>5. Push!TypeOK'
  BY <1>1, <1>2, <1>4, SamePushes
<1>6. ASSUME NEW k \in Tokens, NEW v \in Users, installed'[k]
      PROVE  /\ k \in Push!findActiveTokensByUser(v)' => signedIn'[k] = v
             /\ signedIn'[k] = v => k \in Push!findActiveTokensByUser(v)' \union refused'
  <2>1. /\ k \in Push!findActiveTokensByUser(v) => signedIn[k] = v
        /\ signedIn[k] = v => k \in Push!findActiveTokensByUser(v) \union refused
    BY <1>1, <1>6 DEF PushInv, Push!RightHands
  <2>2. CASE k # t
    BY <1>1, <1>2, <2>1, <2>2 DEF Push!findActiveTokensByUser
  <2>3. CASE k = t /\ device[t].user = u
    <3>1. device'[t] = [device[t] EXCEPT !.active = FALSE]
      BY <1>1, <1>2, <2>3
    <3>2. device'[t].active = FALSE
      BY <1>1, <1>2, <3>1 DEF DeviceRow
    <3>3. signedIn'[t] = v => signedIn[t] = v /\ v # u
      BY <1>1, <1>2
    <3>4. signedIn'[t] = v => t \in refused
      BY <2>1, <2>3, <3>3 DEF Push!findActiveTokensByUser
    <3> QED
      BY <1>1, <2>3, <3>2, <3>4 DEF Push!findActiveTokensByUser
  <2>4. CASE k = t /\ device[t].user # u
    <3>1. device' = device /\ (v # u => signedIn'[t] = v <=> signedIn[t] = v)
      BY <1>1, <1>2, <2>4
    <3>2. v = u => t \notin Push!findActiveTokensByUser(v)' /\ signedIn'[t] # v
      BY <1>1, <1>2, <2>4, <3>1 DEF Push!findActiveTokensByUser
    <3>3. CASE v # u
      BY <1>1, <2>1, <2>4, <3>1, <3>3 DEF Push!findActiveTokensByUser
    <3> QED
      BY <2>4, <3>2, <3>3
  <2> QED
    BY <2>2, <2>3, <2>4
<1>7. SignedInInstalled'
  BY <1>1, <1>2 DEF PushInv, SignedInInstalled
<1> QED
  BY <1>5, <1>6, <1>7 DEF PushInv, Push!RightHands

\* An account that is deleted takes its tokens along, and no others.
LEMMA DeleteTokensStep ==
    ASSUME Nobody \notin Users, PushInv, NEW u \in Users, Push!DeleteTokensOf(u)
    PROVE  PushInv'
<1>1. /\ UNCHANGED <<notification, push, installed, refused>>
      /\ device' = [t \in Tokens |-> IF device[t].user = u THEN Push!NoDevice ELSE device[t]]
      /\ signedIn' = [t \in Tokens |-> IF signedIn[t] = u THEN Nobody ELSE signedIn[t]]
  BY DEF Push!DeleteTokensOf
<1>2. /\ device \in [Tokens -> DeviceRow] /\ signedIn \in [Tokens -> Users \union {Nobody}]
      /\ installed \in [Tokens -> BOOLEAN] /\ refused \subseteq Tokens
  BY DEF PushInv, Push!TypeOK, DeviceRow
<1>3. /\ device' \in [Tokens -> DeviceRow]
      /\ signedIn' \in [Tokens -> Users \union {Nobody}]
  BY <1>1, <1>2 DEF DeviceRow
<1>4. Push!TypeOK'
  BY <1>1, <1>2, <1>3, SamePushes
<1>5. ASSUME NEW k \in Tokens, NEW v \in Users, installed'[k]
      PROVE  /\ k \in Push!findActiveTokensByUser(v)' => signedIn'[k] = v
             /\ signedIn'[k] = v => k \in Push!findActiveTokensByUser(v)' \union refused'
  <2>1. /\ k \in Push!findActiveTokensByUser(v) => signedIn[k] = v
        /\ signedIn[k] = v => k \in Push!findActiveTokensByUser(v) \union refused
    BY <1>1, <1>5 DEF PushInv, Push!RightHands
  <2>2. CASE device[k].user = u
    <3>1. device'[k].user = Nobody
      BY <1>1, <2>2 DEF Push!NoDevice
    <3>2. signedIn'[k] = v => v # u /\ signedIn[k] = v
      BY <1>1
    <3>3. signedIn'[k] = v => k \in refused
      BY <2>1, <2>2, <3>2 DEF Push!findActiveTokensByUser
    <3> QED
      BY <1>1, <3>1, <3>3 DEF Push!findActiveTokensByUser
  <2>3. CASE device[k].user # u
    <3>1. device'[k] = device[k] /\ (v # u => (signedIn'[k] = v <=> signedIn[k] = v))
      BY <1>1, <2>3
    <3>2. v = u => k \notin Push!findActiveTokensByUser(v)' /\ signedIn'[k] # v
      BY <1>1, <2>3, <3>1 DEF Push!findActiveTokensByUser
    <3>3. CASE v # u
      BY <1>1, <2>1, <3>1, <3>3 DEF Push!findActiveTokensByUser
    <3> QED
      BY <3>2, <3>3
  <2> QED
    BY <2>2, <2>3
<1>6. SignedInInstalled'
  BY <1>1, <1>2 DEF PushInv, SignedInInstalled
<1> QED
  BY <1>4, <1>5, <1>6 DEF PushInv, Push!RightHands

\* Where the app is removed nobody is signed in any more.
LEMMA UninstallStep ==
    ASSUME Nobody \notin Users, PushInv, NEW t \in Tokens, Push!Uninstall(t)
    PROVE  PushInv'
<1>1. /\ UNCHANGED <<device, notification, push, refused>>
      /\ installed' = [installed EXCEPT ![t] = FALSE]
      /\ signedIn' = [signedIn EXCEPT ![t] = Nobody]
  BY DEF Push!Uninstall
<1>2. /\ device \in [Tokens -> DeviceRow] /\ signedIn \in [Tokens -> Users \union {Nobody}]
      /\ installed \in [Tokens -> BOOLEAN] /\ refused \subseteq Tokens
  BY DEF PushInv, Push!TypeOK, DeviceRow
<1>3. Push!TypeOK'
  BY <1>1, <1>2, SamePushes
<1>4. Push!RightHands'
  BY <1>1, <1>2 DEF PushInv, Push!RightHands, Push!findActiveTokensByUser
<1>5. SignedInInstalled'
  BY <1>1, <1>2 DEF PushInv, SignedInInstalled
<1> QED
  BY <1>3, <1>4, <1>5 DEF PushInv

-----------------------------------------------------------------------------
(* PushDelivery: notifications and pushes.                                 *)

\* What changes neither devices nor phones.
LEMMA SameDevices ==
    ASSUME PushInv, UNCHANGED <<device, installed, signedIn, refused>>,
           notification' \in [Notes -> NoteRow],
           push' \in [Slots -> PushRecord],
           \A s \in Slots : push'[s].invalid \subseteq push'[s].tokens
    PROVE  PushInv'
<1>1. Push!TypeOK'
  BY DEF PushInv, Push!TypeOK, NoteRow, PushRecord, Push!NoDevice, Push!NoNote
<1>2. Push!RightHands' /\ SignedInInstalled'
  BY DEF PushInv, Push!RightHands, SignedInInstalled, Push!findActiveTokensByUser
<1> QED
  BY <1>1, <1>2 DEF PushInv

\* A push that begins, or is dropped, knows no answer yet.
LEMMA NoAnswerYet ==
    ASSUME PushInv, NEW s \in Slots, NEW p \in PushRecord, p.invalid = {},
           push' = [push EXCEPT ![s] = p],
           UNCHANGED <<device, installed, signedIn, refused>>,
           notification' \in [Notes -> NoteRow]
    PROVE  PushInv'
<1>1. push \in [Slots -> PushRecord]
  BY DEF PushInv, Push!TypeOK, PushRecord
<1>2. push' \in [Slots -> PushRecord]
  BY <1>1
<1>3. \A r \in Slots : push'[r] = IF r = s THEN p ELSE push[r]
  BY <1>1
<1>4. \A r \in Slots : push'[r].invalid \subseteq push'[r].tokens
  BY <1>3 DEF PushInv, Push!TypeOK
<1> QED
  BY <1>2, <1>4, SameDevices

\* A slot without a push knows no answer either.
LEMMA IdleType == Push!Idle \in PushRecord /\ Push!Idle.invalid = {}
BY DEF Push!Idle, PushRecord

\* FCM's answer.
LEMMA MulticastStep ==
    ASSUME PushInv, NEW s \in Slots, Push!sendMulticast(s)
    PROVE  PushInv'
<1>1. /\ push \in [Slots -> PushRecord] /\ notification \in [Notes -> NoteRow]
      /\ push[s].tokens \subseteq Tokens
  BY DEF PushInv, Push!TypeOK, PushRecord, NoteRow
<1>2. UNCHANGED <<device, notification, installed, signedIn, refused>>
  BY DEF Push!sendMulticast
<1>3. PICK more \in SUBSET push[s].tokens :
        LET bad == {t \in push[s].tokens : ~ installed[t]} \union more
        IN  \/ push' = [push EXCEPT ![s] = Push!Idle]
            \/ push' = [push EXCEPT ![s] =
                  [pc |-> "deactivate", tokens |-> push[s].tokens, invalid |-> bad]]
  BY DEF Push!sendMulticast
<1> DEFINE bad == {t \in push[s].tokens : ~ installed[t]} \union more
           answer == [pc |-> "deactivate", tokens |-> push[s].tokens, invalid |-> bad]
<1>4. CASE push' = [push EXCEPT ![s] = Push!Idle]
  BY <1>1, <1>2, <1>4, IdleType, NoAnswerYet
<1>5. CASE push' = [push EXCEPT ![s] = answer]
  <2>1. bad \subseteq push[s].tokens
    OBVIOUS
  <2> HIDE DEF bad
  <2>2. answer \in PushRecord /\ answer.invalid \subseteq answer.tokens
    BY <1>1, <2>1 DEF PushRecord
  <2> HIDE DEF answer
  <2>3. push' \in [Slots -> PushRecord]
    BY <1>1, <1>5, <2>2
  <2>4. \A r \in Slots : push'[r] = IF r = s THEN answer ELSE push[r]
    BY <1>1, <1>5
  <2>5. \A r \in Slots : push'[r].invalid \subseteq push'[r].tokens
    BY <2>2, <2>4 DEF PushInv, Push!TypeOK
  <2> QED
    BY <1>1, <1>2, <2>3, <2>5, SameDevices
<1> QED
  BY <1>3, <1>4, <1>5

\* Tokens that are deactivated by an answer of FCM are nobody's phone any more, whoever
\* registered them in the meantime, or FCM has refused them.
LEMMA DeactivateValuesStep ==
    ASSUME PushInv, NEW s \in Slots, Push!deactivateTokensByValues(s)
    PROVE  PushInv'
<1>1. /\ UNCHANGED <<notification, installed, signedIn>>
      /\ push' = [push EXCEPT ![s] = Push!Idle]
      /\ device' = [t \in Tokens |-> IF t \in push[s].invalid /\ device[t] # Push!NoDevice
                                     THEN [device[t] EXCEPT !.active = FALSE] ELSE device[t]]
      /\ refused' = refused \union {t \in push[s].invalid : installed[t] /\ device[t].active}
  BY DEF Push!deactivateTokensByValues
<1>2. /\ device \in [Tokens -> DeviceRow] /\ push \in [Slots -> PushRecord]
      /\ push[s].invalid \subseteq Tokens /\ refused \subseteq Tokens
  BY DEF PushInv, Push!TypeOK, DeviceRow, PushRecord
<1>3. \A d \in DeviceRow : d # Push!NoDevice =>
          /\ [d EXCEPT !.active = FALSE] \in DeviceRow
          /\ [d EXCEPT !.active = FALSE].active = FALSE
  BY DEF DeviceRow
<1>4. device' \in [Tokens -> DeviceRow] /\ refused' \subseteq Tokens
  BY <1>1, <1>2, <1>3
<1>5. push' \in [Slots -> PushRecord]
  BY <1>1, <1>2, IdleType
<1>6. \A r \in Slots : push'[r] = IF r = s THEN Push!Idle ELSE push[r]
  BY <1>1, <1>2
<1>7. \A r \in Slots : push'[r].invalid \subseteq push'[r].tokens
  BY <1>6, IdleType DEF PushInv, Push!TypeOK
<1>8. Push!TypeOK'
  BY <1>1, <1>4, <1>5, <1>7 DEF PushInv, Push!TypeOK,
     DeviceRow, PushRecord, Push!NoDevice, Push!NoNote
<1>9. ASSUME NEW t \in Tokens, NEW u \in Users, installed'[t]
      PROVE  /\ t \in Push!findActiveTokensByUser(u)' => signedIn'[t] = u
             /\ signedIn'[t] = u => t \in Push!findActiveTokensByUser(u)' \union refused'
  <2>1. /\ t \in Push!findActiveTokensByUser(u) => signedIn[t] = u
        /\ signedIn[t] = u => t \in Push!findActiveTokensByUser(u) \union refused
    BY <1>1, <1>9 DEF PushInv, Push!RightHands
  <2>2. CASE t \in push[s].invalid /\ device[t] # Push!NoDevice
    <3>1. device'[t].active = FALSE
      BY <1>1, <1>2, <1>3, <2>2
    <3>2. t \in Push!findActiveTokensByUser(u) => t \in refused'
      BY <1>1, <1>9, <2>2 DEF Push!findActiveTokensByUser
    <3> QED
      BY <1>1, <2>1, <3>1, <3>2 DEF Push!findActiveTokensByUser
  <2>3. CASE ~ (t \in push[s].invalid /\ device[t] # Push!NoDevice)
    <3>1. device'[t] = device[t]
      BY <1>1, <2>3
    <3> QED
      BY <1>1, <2>1, <3>1 DEF Push!findActiveTokensByUser
  <2> QED
    BY <2>2, <2>3
<1>10. SignedInInstalled'
  BY <1>1 DEF PushInv, SignedInInstalled
<1> QED
  BY <1>8, <1>9, <1>10 DEF PushInv, Push!RightHands

\* A notification or a broadcast begins to be sent.
LEMMA DispatchStep ==
    ASSUME PushInv, NEW s \in Slots, NEW tokens \in SUBSET Tokens, Push!Dispatch(s, tokens),
           UNCHANGED <<device, installed, signedIn, refused>>,
           notification' \in [Notes -> NoteRow]
    PROVE  PushInv'
<1> DEFINE p == [pc |-> "send", tokens |-> tokens, invalid |-> {}]
<1>1. p \in PushRecord /\ p.invalid = {}
  BY DEF PushRecord
<1>2. push' = [push EXCEPT ![s] = Push!Idle] \/ push' = [push EXCEPT ![s] = p]
  BY DEF Push!Dispatch
<1>3. CASE push' = [push EXCEPT ![s] = Push!Idle]
  BY <1>3, IdleType, NoAnswerYet
<1>4. CASE push' = [push EXCEPT ![s] = p]
  BY <1>1, <1>4, NoAnswerYet
<1> QED
  BY <1>2, <1>3, <1>4

\* Reading and deleting notifications.
LEMMA ReadStep ==
    ASSUME Nobody \notin Users, PushInv,
           \/ \E u \in Users, n \in Notes : Push!markAsRead(u, n)
           \/ \E u \in Users : Push!markAllAsRead(u)
           \/ \E n \in Notes : Push!Cascade(n)
    PROVE  PushInv'
<1>1. UNCHANGED <<device, push, installed, signedIn, refused>>
  BY DEF Push!markAsRead, Push!markAllAsRead, Push!Cascade
<1>2. notification \in [Notes -> NoteRow] /\ push \in [Slots -> PushRecord]
  BY DEF PushInv, Push!TypeOK, NoteRow, PushRecord
<1>3. \A d \in NoteRow, u \in Users : d.recipient = u => [d EXCEPT !.read = TRUE] \in NoteRow
  BY DEF NoteRow, Push!NoNote
<1>4. notification' \in [Notes -> NoteRow]
  <2>1. ASSUME NEW u \in Users, NEW n \in Notes, Push!markAsRead(u, n)
        PROVE  notification' \in [Notes -> NoteRow]
    <3>1. notification' = [notification EXCEPT ![n] = [notification[n] EXCEPT !.read = TRUE]]
      BY <2>1 DEF Push!markAsRead
    <3>2. [notification[n] EXCEPT !.read = TRUE] \in NoteRow
      BY <1>2, <1>3, <2>1 DEF Push!markAsRead
    <3> QED
      BY <1>2, <3>1, <3>2
  <2>2. ASSUME NEW u \in Users, Push!markAllAsRead(u)
        PROVE  notification' \in [Notes -> NoteRow]
    BY <1>2, <1>3, <2>2 DEF Push!markAllAsRead
  <2>3. ASSUME NEW n \in Notes, Push!Cascade(n)
        PROVE  notification' \in [Notes -> NoteRow]
    BY <1>2, <2>3 DEF Push!Cascade, NoteRow
  <2> QED
    BY <2>1, <2>2, <2>3
<1>5. \A s \in Slots : push'[s].invalid \subseteq push'[s].tokens
  BY <1>1 DEF PushInv, Push!TypeOK
<1>6. push' \in [Slots -> PushRecord]
  BY <1>1, <1>2
<1> QED
  BY <1>1, <1>4, <1>5, <1>6, SameDevices

-----------------------------------------------------------------------------
(* PushDelivery: the invariant is inductive.                               *)

\* At first nobody is signed in anywhere.
LEMMA InitPush == ASSUME Nobody \notin Users, Push!Init PROVE PushInv
<1>1. push \in [Slots -> PushRecord]
  BY IdleType DEF Push!Init
<1>2. Push!TypeOK
  BY <1>1 DEF Push!Init, Push!TypeOK, PushRecord, Push!Idle
<1>3. Push!RightHands /\ SignedInInstalled
  BY DEF Push!Init, Push!RightHands, SignedInInstalled,
     Push!findActiveTokensByUser, Push!NoDevice, Push!Idle
<1> QED
  BY <1>2, <1>3 DEF PushInv

\* Every step keeps pushes in the right hands.
LEMMA NextPush ==
    ASSUME Nobody \notin Users, PushInv, [Push!Next]_pushVars
    PROVE  PushInv'
<1>1. notification \in [Notes -> NoteRow] /\ push \in [Slots -> PushRecord]
  BY DEF PushInv, Push!TypeOK, NoteRow, PushRecord
<1>2. ASSUME NEW u \in Users, NEW actor \in Users, NEW n \in Notes, NEW s \in Slots,
             Push!createNotification(s, n, u, actor)
      PROVE  PushInv'
  <2>1. notification' \in [Notes -> NoteRow]
    BY <1>1, <1>2 DEF Push!createNotification, NoteRow
  <2>2. /\ Push!Dispatch(s, Push!findActiveTokensByUser(u))
        /\ UNCHANGED <<device, installed, signedIn, refused>>
    BY <1>2 DEF Push!createNotification
  <2>3. Push!findActiveTokensByUser(u) \in SUBSET Tokens
    BY DEF Push!findActiveTokensByUser
  <2> QED
    BY <2>1, <2>2, <2>3, DispatchStep
<1>3. ASSUME NEW s \in Slots, NEW tokens \in SUBSET Tokens, Push!sendBroadcast(s, tokens)
      PROVE  PushInv'
  <2>1. Push!Dispatch(s, tokens) /\ UNCHANGED <<device, notification, installed, signedIn, refused>>
    BY <1>3 DEF Push!sendBroadcast
  <2> QED
    BY <1>1, <2>1, DispatchStep
<1>4. ASSUME NEW s \in Slots, Push!Abandon(s)
      PROVE  PushInv'
  <2>1. /\ push' = [push EXCEPT ![s] = Push!Idle]
        /\ UNCHANGED <<device, notification, installed, signedIn, refused>>
    BY <1>4 DEF Push!Abandon
  <2> QED
    BY <1>1, <2>1, IdleType, NoAnswerYet
<1>5. CASE UNCHANGED pushVars
  <2>1. UNCHANGED <<device, notification, push, installed, signedIn, refused>>
    BY <1>5 DEF pushVars
  <2>2. \A s \in Slots : push'[s].invalid \subseteq push'[s].tokens
    BY <2>1 DEF PushInv, Push!TypeOK
  <2> QED
    BY <1>1, <2>1, <2>2, SameDevices
<1> QED
  BY <1>2, <1>3, <1>4, <1>5, RegisterStep, DeactivateStep, DeleteTokensStep, UninstallStep,
     MulticastStep, DeactivateValuesStep, ReadStep
  DEF Push!Next

-----------------------------------------------------------------------------
(* WeatherCache.                                                           *)

\* A request that waits has waited no longer than it may; what is kept expires before it
\* is older than it may get, and no answer is from the future.
WeatherInv ==
    /\ Weather!TypeOK
    /\ \A r \in Requests : asking[r] # None =>
          asking[r].now <= clock /\ clock <= asking[r].now + timeout
    /\ \A k \in Providers \X Locations : cache[k] # None =>
          cache[k].data.at <= clock /\ cache[k].expiresAt <= cache[k].data.at + cacheTtlMs
    /\ Weather!FreshEnough

Asking == [key : Providers \X Locations, from : Providers, now : Weather!Times]
Told == [data : Weather!Data, provider : Providers, at : Weather!Times]

\* Numbers that may be times are numbers.
LEMMA Numbers ==
    /\ cacheTtlMs \in Nat /\ timeout \in Nat /\ MaxTime \in Nat
    /\ Weather!Times \subseteq Nat
BY Assumptions DEF Weather!Times

\* The types, with names.
LEMMA WeatherTypes ==
    ASSUME Weather!TypeOK
    PROVE  /\ provider \in Providers /\ clock \in Weather!Times
           /\ cache \in [Providers \X Locations -> Weather!Entries \union {None}]
           /\ asking \in [Requests -> Asking \union {None}]
           /\ told \in [Requests -> Told \union {None, Failed}]
BY DEF Weather!TypeOK, Asking, Told

LEMMA InitWeather == ASSUME Weather!Init PROVE WeatherInv
<1>1. 0 \in Weather!Times
  BY Numbers DEF Weather!Times
<1>2. Weather!TypeOK
  BY <1>1 DEF Weather!Init, Weather!TypeOK
<1> QED
  BY <1>2 DEF Weather!Init, WeatherInv, Weather!FreshEnough

\* Telling a request something that is fresh enough, or that there was a failure.
LEMMA TellStep ==
    ASSUME WeatherInv, NEW r \in Requests, NEW answer,
           \/ /\ answer \in Told
              /\ \/ answer.at - answer.data.at < cacheTtlMs
                 \/ answer.at - answer.data.at <= timeout
           \/ answer \in {None, Failed},
           told' = [told EXCEPT ![r] = answer]
    PROVE  told' \in [Requests -> Told \union {None, Failed}] /\ Weather!FreshEnough'
<1>1. told \in [Requests -> Told \union {None, Failed}]
  BY WeatherTypes DEF WeatherInv
<1>2. told' \in [Requests -> Told \union {None, Failed}]
  BY <1>1
<1>3. \A q \in Requests : told'[q] = IF q = r THEN answer ELSE told[q]
  BY <1>1
<1> QED
  BY <1>2, <1>3 DEF WeatherInv, Weather!FreshEnough

\* A request that finds an entry is told what is in it, and one that does not begins to
\* wait.
LEMMA GetWeatherStep ==
    ASSUME WeatherInv, NEW r \in Requests, NEW l \in Locations, Weather!getWeather(r, l)
    PROVE  WeatherInv'
<1> DEFINE k == <<provider, l>>
<1>1. /\ provider \in Providers /\ clock \in Weather!Times
      /\ cache \in [Providers \X Locations -> Weather!Entries \union {None}]
      /\ asking \in [Requests -> Asking \union {None}]
      /\ told \in [Requests -> Told \union {None, Failed}]
  BY WeatherTypes DEF WeatherInv
<1>2. k \in Providers \X Locations /\ UNCHANGED <<provider, cache, clock>>
  BY <1>1 DEF Weather!getWeather
<1> HIDE DEF k
<1>3. CASE Weather!Hit(k)
  <2> DEFINE answer == [data |-> cache[k].data, provider |-> provider, at |-> clock]
  <2>1. UNCHANGED asking /\ told' = [told EXCEPT ![r] = answer]
    BY <1>3 DEF Weather!getWeather, Weather!Tell, k
  <2>2. /\ cache[k] \in Weather!Entries /\ cache[k].expiresAt > clock
        /\ cache[k].data.at <= clock /\ cache[k].expiresAt <= cache[k].data.at + cacheTtlMs
    BY <1>1, <1>2, <1>3 DEF Weather!Hit, WeatherInv
  <2>3. /\ cache[k].data \in Weather!Data /\ cache[k].data.at \in Nat /\ clock \in Nat
        /\ cache[k].expiresAt \in Nat
    <3>1. cache[k].data \in Weather!Data /\ cache[k].expiresAt \in 0 .. MaxTime + cacheTtlMs
      BY <2>2 DEF Weather!Entries
    <3>2. cache[k].data.at \in Weather!Times
      BY <3>1 DEF Weather!Data
    <3>3. cache[k].data.at \in Nat /\ clock \in Nat
      BY <1>1, <3>2, Numbers
    <3>4. cache[k].expiresAt \in Nat
      BY <3>1, Numbers
    <3> QED
      BY <3>1, <3>3, <3>4
  <2>4. answer \in Told /\ answer.at - answer.data.at < cacheTtlMs
    BY <1>1, <2>2, <2>3, Numbers DEF Told
  <2> HIDE DEF answer
  <2>5. told' \in [Requests -> Told \union {None, Failed}] /\ Weather!FreshEnough'
    BY <2>1, <2>4, TellStep
  <2> QED
    BY <1>2, <2>1, <2>5 DEF WeatherInv, Weather!TypeOK, Told
<1>4. CASE ~ Weather!Hit(k)
  <2> DEFINE new == [key |-> k, from |-> provider, now |-> clock]
  <2>1. UNCHANGED told /\ asking' = [asking EXCEPT ![r] = new]
    BY <1>4 DEF Weather!getWeather, k
  <2>2. new \in Asking /\ new.now = clock
    BY <1>1, <1>2 DEF Asking
  <2> HIDE DEF new
  <2>3. asking' \in [Requests -> Asking \union {None}]
    BY <1>1, <2>1, <2>2
  <2>4. \A q \in Requests : asking'[q] = IF q = r THEN new ELSE asking[q]
    BY <1>1, <2>1
  <2>5. \A q \in Requests : asking'[q] # None =>
           asking'[q].now <= clock' /\ clock' <= asking'[q].now + timeout
    BY <1>1, <1>2, <2>2, <2>4, Numbers DEF WeatherInv
  <2> QED
    BY <1>2, <2>1, <2>3, <2>5 DEF WeatherInv, Weather!TypeOK, Asking, Weather!FreshEnough
<1> QED
  BY <1>3, <1>4

\* An answer is no older than its request has waited, and is kept no longer than the
\* cache may keep one of the time of the request.
LEMMA CurrentWeatherStep ==
    ASSUME WeatherInv, NEW r \in Requests, Weather!getCurrentWeather(r)
    PROVE  WeatherInv'
<1>1. /\ provider \in Providers /\ clock \in Weather!Times
      /\ cache \in [Providers \X Locations -> Weather!Entries \union {None}]
      /\ asking \in [Requests -> Asking \union {None}]
      /\ told \in [Requests -> Told \union {None, Failed}]
  BY WeatherTypes DEF WeatherInv
<1>2. asking[r] # None /\ UNCHANGED <<provider, clock>> /\ asking' = [asking EXCEPT ![r] = None]
  BY DEF Weather!getCurrentWeather
<1>3. PICK at \in asking[r].now .. clock :
          LET data == [provider |-> asking[r].from, location |-> asking[r].key[2], at |-> at]
          IN  /\ cache' = [cache EXCEPT ![asking[r].key] =
                    [data |-> data, cachedAt |-> asking[r].now, expiresAt |-> Weather!expiresAt(r)]]
              /\ Weather!Tell(r, data)
  BY DEF Weather!getCurrentWeather
<1> DEFINE data == [provider |-> asking[r].from, location |-> asking[r].key[2], at |-> at]
           entry == [data |-> data, cachedAt |-> asking[r].now,
                     expiresAt |-> asking[r].now + cacheTtlMs]
           answer == [data |-> data, provider |-> provider, at |-> clock]
<1>4. /\ asking[r] \in Asking /\ asking[r].now <= clock /\ clock <= asking[r].now + timeout
  BY <1>1, <1>2 DEF WeatherInv
<1>5. /\ asking[r].key \in Providers \X Locations /\ asking[r].from \in Providers
      /\ asking[r].now \in 0 .. MaxTime /\ clock \in 0 .. MaxTime
      /\ at \in 0 .. MaxTime /\ asking[r].now <= at /\ at <= clock
  BY <1>1, <1>3, <1>4, Numbers DEF Asking, Weather!Times
<1>6. data \in Weather!Data /\ data.at = at
  BY <1>5 DEF Weather!Data, Weather!Times
<1>7. /\ cache' = [cache EXCEPT ![asking[r].key] = entry]
      /\ told' = [told EXCEPT ![r] = answer]
  BY <1>3 DEF Weather!Tell, Weather!expiresAt
<1> HIDE DEF data
<1>8. /\ entry \in Weather!Entries /\ entry.data.at <= clock
      /\ entry.expiresAt <= entry.data.at + cacheTtlMs
  <2>1. asking[r].now + cacheTtlMs \in 0 .. MaxTime + cacheTtlMs
    BY <1>5, Numbers
  <2> QED
    BY <1>5, <1>6, <2>1, Numbers DEF Weather!Entries, Weather!Times
<1>9. answer \in Told /\ answer.at - answer.data.at <= timeout
  BY <1>1, <1>4, <1>5, <1>6, Numbers DEF Told
<1> HIDE DEF entry, answer
<1>10. told' \in [Requests -> Told \union {None, Failed}] /\ Weather!FreshEnough'
  BY <1>7, <1>9, TellStep
<1>11. /\ cache' \in [Providers \X Locations -> Weather!Entries \union {None}]
       /\ \A k \in Providers \X Locations :
             cache'[k] = IF k = asking[r].key THEN entry ELSE cache[k]
  BY <1>1, <1>5, <1>7, <1>8
<1>12. \A k \in Providers \X Locations : cache'[k] # None =>
          /\ cache'[k].data.at <= clock'
          /\ cache'[k].expiresAt <= cache'[k].data.at + cacheTtlMs
  BY <1>2, <1>8, <1>11 DEF WeatherInv
<1>13. /\ asking' \in [Requests -> Asking \union {None}]
       /\ \A q \in Requests : asking'[q] = IF q = r THEN None ELSE asking[q]
  BY <1>1, <1>2
<1>14. \A q \in Requests : asking'[q] # None =>
          asking'[q].now <= clock' /\ clock' <= asking'[q].now + timeout
  BY <1>2, <1>13 DEF WeatherInv
<1>15. Weather!TypeOK'
  BY <1>2, <1>10, <1>11, <1>13, <1>1 DEF Weather!TypeOK, Asking, Told
<1> QED
  BY <1>10, <1>12, <1>14, <1>15 DEF WeatherInv

\* A failure tells nothing and keeps nothing.
LEMMA FailsStep ==
    ASSUME WeatherInv, NEW r \in Requests, Weather!getCurrentWeather_fails(r)
    PROVE  WeatherInv'
<1>1. /\ UNCHANGED <<provider, cache, clock>> /\ asking' = [asking EXCEPT ![r] = None]
      /\ told' = [told EXCEPT ![r] = Failed]
  BY DEF Weather!getCurrentWeather_fails
<1>2. asking \in [Requests -> Asking \union {None}]
  BY WeatherTypes DEF WeatherInv
<1>3. told' \in [Requests -> Told \union {None, Failed}] /\ Weather!FreshEnough'
  BY <1>1, TellStep
<1>4. /\ asking' \in [Requests -> Asking \union {None}]
      /\ \A q \in Requests : asking'[q] = IF q = r THEN None ELSE asking[q]
  BY <1>1, <1>2
<1>5. Weather!TypeOK'
  BY <1>1, <1>3, <1>4 DEF WeatherInv, Weather!TypeOK, Asking, Told
<1> QED
  BY <1>1, <1>3, <1>4, <1>5 DEF WeatherInv

LEMMA NextWeather == ASSUME WeatherInv, [Weather!Next]_weatherVars PROVE WeatherInv'
<1>1. /\ provider \in Providers /\ clock \in Weather!Times
      /\ cache \in [Providers \X Locations -> Weather!Entries \union {None}]
      /\ asking \in [Requests -> Asking \union {None}]
      /\ told \in [Requests -> Told \union {None, Failed}]
  BY WeatherTypes DEF WeatherInv
<1>2. ASSUME NEW p \in Providers, Weather!setProvider(p)
      PROVE  WeatherInv'
  BY <1>2 DEF Weather!setProvider, WeatherInv, Weather!TypeOK, Weather!FreshEnough
<1>3. CASE Weather!clearCache
  <2>1. /\ UNCHANGED <<provider, clock, asking, told>>
        /\ cache' = [k \in Providers \X Locations |-> None]
    BY <1>1, <1>3 DEF Weather!clearCache
  <2> QED
    BY <2>1 DEF WeatherInv, Weather!TypeOK, Weather!FreshEnough
<1>4. ASSUME NEW r \in Requests, Weather!Read(r)
      PROVE  WeatherInv'
  <2>1. UNCHANGED <<provider, cache, clock, asking>> /\ told' = [told EXCEPT ![r] = None]
    BY <1>4 DEF Weather!Read
  <2>2. told' \in [Requests -> Told \union {None, Failed}] /\ Weather!FreshEnough'
    BY <2>1, TellStep
  <2> QED
    BY <2>1, <2>2 DEF WeatherInv, Weather!TypeOK, Told
<1>5. CASE Weather!Tick
  <2>1. /\ clock' = clock + 1 /\ clock < MaxTime /\ UNCHANGED <<provider, cache, asking, told>>
        /\ \A r \in Requests : asking[r] # None => clock - asking[r].now < timeout
    BY <1>5 DEF Weather!Tick
  <2>2. clock \in Nat /\ clock' \in Weather!Times
    BY <1>1, <2>1, Numbers DEF Weather!Times
  <2>3. \A r \in Requests : asking'[r] # None =>
           asking'[r].now <= clock' /\ clock' <= asking'[r].now + timeout
    <3>1. \A r \in Requests : asking[r] # None => asking[r].now \in Nat
      BY <1>1, Numbers DEF Asking
    <3> QED
      BY <2>1, <2>2, <3>1, Numbers DEF WeatherInv
  <2>4. \A k \in Providers \X Locations : cache'[k] # None =>
          /\ cache'[k].data.at <= clock'
          /\ cache'[k].expiresAt <= cache'[k].data.at + cacheTtlMs
    <3>1. \A k \in Providers \X Locations : cache[k] # None => cache[k].data.at \in Nat
      BY <1>1, Numbers DEF Weather!Entries, Weather!Data
    <3> QED
      BY <2>1, <2>2, <3>1 DEF WeatherInv
  <2> QED
    BY <2>1, <2>2, <2>3, <2>4 DEF WeatherInv, Weather!TypeOK, Weather!FreshEnough
<1>6. CASE UNCHANGED weatherVars
  BY <1>6 DEF weatherVars, WeatherInv, Weather!TypeOK, Weather!FreshEnough
<1> QED
  BY <1>2, <1>3, <1>4, <1>5, <1>6, GetWeatherStep, CurrentWeatherStep, FailsStep
  DEF Weather!Next, Weather!abort

-----------------------------------------------------------------------------
(* RouteLegs: the polyline of the way, read as Mapbox and the app read it.  *)

(* Induction over the naturals, for a set of them.                         *)

\* A set of naturals has a least element.
LEMMA LeastNatural ==
    ASSUME NEW S \in SUBSET Nat, S # {}
    PROVE  \E m \in S : \A x \in S : m <= x
<1>1. PICK m \in S : \A x \in S : ~ (<<x, m>> \in OpToRel(<, Nat))
  BY NatLessThanWellFounded, WFMin
<1>2. ASSUME NEW x \in S
      PROVE  m <= x
  <2>1. ~ (x < m)
    BY <1>1 DEF OpToRel
  <2> QED
    BY <2>1
<1> QED
  BY <1>2

-----------------------------------------------------------------------------
(* Recursive functions exist, and have values of their type.               *)

\* The tail of the naturals is where the least counterexample would be.
LEMMA EveryNatural ==
    ASSUME NEW S, 0 \in S, \A k \in Nat : k \in S => k + 1 \in S
    PROVE  \A k \in Nat : k \in S
<1> DEFINE Bad == {k \in Nat : k \notin S}
<1> SUFFICES ASSUME Bad # {} PROVE FALSE
  OBVIOUS
<1>1. PICK m \in Bad : \A x \in Bad : m <= x
  <2>1. Bad \in SUBSET Nat
    OBVIOUS
  <2> HIDE DEF Bad
  <2> QED
    BY <2>1, LeastNatural
<1>2. m # 0 /\ m - 1 \in Nat
  OBVIOUS
<1>3. m - 1 \in S
  BY <1>1, <1>2
<1> QED
  BY <1>2, <1>3

\* From b on, step by step.
Stepwise(k, b, step, f) ==
    f = [i \in 0 .. k |-> IF i = 0 THEN b ELSE step[<<i, f[i - 1]>>]]

LEMMA StepsExist ==
    ASSUME NEW V, NEW b \in V, NEW k \in Nat, NEW step \in [(1 .. k) \X V -> V]
    PROVE  \E f \in [0 .. k -> V] : Stepwise(k, b, step, f)
<1> DEFINE Upto(l, f) ==
             \A i \in 0 .. l : f[i] = IF i = 0 THEN b ELSE step[<<i, f[i - 1]>>]
           Good == {l \in Nat : l <= k => \E f \in [0 .. k -> V] : Upto(l, f)}
<1>1. 0 \in Good
  <2>1. [i \in 0 .. k |-> b] \in [0 .. k -> V] /\ Upto(0, [i \in 0 .. k |-> b])
    OBVIOUS
  <2> QED
    BY <2>1
<1>2. ASSUME NEW l \in Nat, l \in Good
      PROVE  l + 1 \in Good
  <2> SUFFICES ASSUME l + 1 <= k
               PROVE  \E f \in [0 .. k -> V] : Upto(l + 1, f)
    OBVIOUS
  <2>1. PICK f \in [0 .. k -> V] : Upto(l, f)
    BY <1>2
  <2> DEFINE g == [f EXCEPT ![l + 1] = step[<<l + 1, f[l]>>]]
  <2>2. step[<<l + 1, f[l]>>] \in V
    OBVIOUS
  <2>3. g \in [0 .. k -> V]
    BY <2>2
  <2>4. \A i \in 0 .. l : g[i] = f[i]
    OBVIOUS
  <2>5. g[l + 1] = step[<<l + 1, g[l]>>]
    <3>1. l + 1 \in 0 .. k /\ l \in 0 .. l
      OBVIOUS
    <3>2. g[l + 1] = step[<<l + 1, f[l]>>]
      BY <3>1
    <3>3. g[l] = f[l]
      BY <2>4, <3>1
    <3> QED
      BY <3>2, <3>3
  <2> HIDE DEF g
  <2>6. ASSUME NEW i \in 0 .. l + 1
        PROVE  g[i] = IF i = 0 THEN b ELSE step[<<i, g[i - 1]>>]
    <3>1. CASE i = l + 1
      BY <3>1, <2>5
    <3>2. CASE i # l + 1
      <4>1. i \in 0 .. l /\ (i # 0 => i - 1 \in 0 .. l)
        BY <3>2
      <4> QED
        BY <4>1, <2>1, <2>4
    <3> QED
      BY <3>1, <3>2
  <2> QED
    BY <2>3, <2>6
<1>3. k \in Good
  <2>1. \A l \in Nat : l \in Good
    <3> HIDE DEF Good
    <3> QED
      BY <1>1, <1>2, EveryNatural
  <2> QED
    BY <2>1
<1>4. PICK f \in [0 .. k -> V] : Upto(k, f)
  BY <1>3
<1>5. Stepwise(k, b, step, f)
  BY <1>4 DEF Stepwise
<1> QED
  BY <1>5

\* The same for values that need what is much earlier: the chunks of a number.
Next32(m, f) == IF m < 32 THEN <<m + 63>> ELSE <<32 + (m % 32) + 63>> \o f[m \div 32]

LEMMA Quotient ==
    \A m \in Nat : /\ m \div 32 \in Nat /\ m % 32 \in 0 .. 31
                   /\ m = 32 * (m \div 32) + (m % 32)
                   /\ m >= 32 => m \div 32 < m /\ m \div 32 > 0
OBVIOUS

LEMMA Next32Char ==
    ASSUME NEW m \in Nat, NEW f, m >= 32 => f[m \div 32] \in Seq(Legs!Char)
    PROVE  Next32(m, f) \in Seq(Legs!Char)
<1>1. CASE m < 32
  BY <1>1 DEF Next32, Legs!Char
<1>2. CASE m >= 32
  <2>1. 32 + (m % 32) + 63 \in Legs!Char
    BY Quotient DEF Legs!Char
  <2> QED
    BY <2>1, <1>2 DEF Next32
<1> QED
  BY <1>1, <1>2

LEMMA ChunksExist ==
    \E f \in [Nat -> Seq(Legs!Char)] : f = [m \in Nat |-> Next32(m, f)]
<1> DEFINE Upto(l, f) == f \in [Nat -> Seq(Legs!Char)] /\ \A m \in 0 .. l : f[m] = Next32(m, f)
           Good == {l \in Nat : \E f : Upto(l, f)}
<1>1. 0 \in Good
  <2> DEFINE f == [m \in Nat |-> <<63>>]
  <2>1. f \in [Nat -> Seq(Legs!Char)]
    BY DEF Legs!Char
  <2>2. f[0] = Next32(0, f)
    BY DEF Next32
  <2>3. Upto(0, f)
    BY <2>1, <2>2
  <2> QED
    BY <2>3
<1>2. ASSUME NEW l \in Nat, l \in Good
      PROVE  l + 1 \in Good
  <2>1. PICK f : Upto(l, f)
    BY <1>2
  <2> DEFINE g == [f EXCEPT ![l + 1] = Next32(l + 1, f)]
  <2>2. Next32(l + 1, f) \in Seq(Legs!Char)
    <3>1. l + 1 \in Nat /\ (l + 1) \div 32 \in Nat
      BY Quotient
    <3>2. f[(l + 1) \div 32] \in Seq(Legs!Char)
      BY <3>1, <2>1
    <3> QED
      BY <3>1, <3>2, Next32Char
  <2>3. g \in [Nat -> Seq(Legs!Char)] /\ g[l + 1] = Next32(l + 1, f)
        /\ \A m \in 0 .. l : g[m] = f[m]
    BY <2>1, <2>2
  <2> HIDE DEF g
  <2>4. ASSUME NEW m \in 0 .. l + 1
        PROVE  g[m] = Next32(m, g)
    <3>1. g[m] = Next32(m, f)
      <4>1. CASE m = l + 1
        BY <4>1, <2>3
      <4>2. CASE m # l + 1
        <5>1. m \in 0 .. l
          BY <4>2
        <5> QED
          BY <5>1, <2>1, <2>3
      <4> QED
        BY <4>1, <4>2
    <3>2. m >= 32 => m \div 32 \in 0 .. l
      BY Quotient
    <3>3. m >= 32 => g[m \div 32] = f[m \div 32]
      BY <3>2, <2>3
    <3> QED
      BY <3>1, <3>3 DEF Next32
  <2>5. Upto(l + 1, g)
    BY <2>3, <2>4
  <2> QED
    BY <2>5
<1>3. \A l \in Nat : \E f : Upto(l, f)
  <2>1. \A l \in Nat : l \in Good
    <3> HIDE DEF Good
    <3> QED
      BY <1>1, <1>2, EveryNatural
  <2> QED
    BY <2>1
\* Two of them agree as far as both go.
<1>4. ASSUME NEW k, NEW l, NEW f, NEW g, k \in Nat, l \in Nat, Upto(k, f), Upto(l, g)
      PROVE  \A m \in Nat : m <= k /\ m <= l => f[m] = g[m]
  <2> DEFINE Same == {j \in Nat : \A m \in 0 .. j : m <= k /\ m <= l => f[m] = g[m]}
  <2>1. 0 \in Same
    <3>1. f[0] = Next32(0, f) /\ g[0] = Next32(0, g)
      BY <1>4
    <3>2. f[0] = g[0]
      BY <3>1 DEF Next32
    <3> QED
      BY <3>2
  <2>2. ASSUME NEW j \in Nat, j \in Same
        PROVE  j + 1 \in Same
    <3> SUFFICES ASSUME j + 1 <= k, j + 1 <= l
                 PROVE  f[j + 1] = g[j + 1]
      BY <2>2
    <3>1. f[j + 1] = Next32(j + 1, f) /\ g[j + 1] = Next32(j + 1, g)
      BY <1>4
    <3>2. j + 1 >= 32 => (j + 1) \div 32 \in 0 .. j /\ (j + 1) \div 32 <= k /\ (j + 1) \div 32 <= l
      BY <1>4, Quotient
    <3>3. j + 1 >= 32 => f[(j + 1) \div 32] = g[(j + 1) \div 32]
      BY <2>2, <3>2
    <3> QED
      BY <3>1, <3>3 DEF Next32
  <2>3. \A j \in Nat : j \in Same
    <3> HIDE DEF Same
    <3> QED
      BY <2>1, <2>2, EveryNatural
  <2> QED
    BY <2>3
<1> DEFINE some(l) == CHOOSE f : Upto(l, f)
           all == [m \in Nat |-> some(m)[m]]
<1>5. \A l \in Nat : Upto(l, some(l))
  BY <1>3
<1>6. all \in [Nat -> Seq(Legs!Char)]
  BY <1>5
<1>7. ASSUME NEW m \in Nat
      PROVE  all[m] = Next32(m, all)
  <2>1. some(m)[m] = Next32(m, some(m))
    <3> HIDE DEF some
    <3>1. Upto(m, some(m))
      BY <1>5
    <3>2. m \in 0 .. m
      OBVIOUS
    <3> QED
      BY <3>1, <3>2
  <2>2. m >= 32 => some(m)[m \div 32] = some(m \div 32)[m \div 32]
    <3> HIDE DEF some, Upto
    <3> QED
      BY <1>4, <1>5, Quotient
  <2>3. m >= 32 => all[m \div 32] = some(m)[m \div 32]
    BY <2>2, Quotient
  <2>4. all[m] = Next32(m, some(m))
    BY <2>1
  <2> HIDE DEF all, some
  <2> QED
    BY <2>3, <2>4 DEF Next32
<1> HIDE DEF all
<1>8. all = [m \in Nat |-> Next32(m, all)]
  BY <1>6, <1>7
<1> QED
  BY <1>6, <1>8

\* encodeChunks is such a function.
LEMMA EncodedChunks ==
    /\ Legs!encodeChunks \in [Nat -> Seq(Legs!Char)]
    /\ \A m \in Nat : Legs!encodeChunks[m] = Next32(m, Legs!encodeChunks)
<1> DEFINE Is(f) == f = [m \in Nat |-> Next32(m, f)]
<1>1. Is(Legs!encodeChunks)
  <2>1. \E f : Is(f)
    BY ChunksExist
  <2>2. Legs!encodeChunks = CHOOSE f : Is(f)
    BY DEF Legs!encodeChunks, Next32
  <2> HIDE DEF Is
  <2> QED
    BY <2>1, <2>2
<1>2. \A m \in Nat : Legs!encodeChunks[m] = Next32(m, Legs!encodeChunks)
  BY <1>1
<1> DEFINE Good == {l \in Nat : \A m \in 0 .. l : Legs!encodeChunks[m] \in Seq(Legs!Char)}
<1>3. 0 \in Good
  <2>1. Next32(0, Legs!encodeChunks) \in Seq(Legs!Char)
    BY Next32Char
  <2> QED
    BY <1>2, <2>1
<1>4. ASSUME NEW l \in Nat, l \in Good
      PROVE  l + 1 \in Good
  <2>1. l + 1 >= 32 => (l + 1) \div 32 \in 0 .. l
    BY Quotient
  <2>2. Next32(l + 1, Legs!encodeChunks) \in Seq(Legs!Char)
    BY <1>4, <2>1, Next32Char
  <2>3. Legs!encodeChunks[l + 1] \in Seq(Legs!Char)
    BY <1>2, <2>2
  <2> QED
    BY <1>4, <2>3
<1>5. \A l \in Nat : l \in Good
  <2> HIDE DEF Good
  <2> QED
    BY <1>3, <1>4, EveryNatural
<1>6. \A m \in Nat : Legs!encodeChunks[m] \in Seq(Legs!Char)
  <2>1. TAKE m \in Nat
  <2>2. m \in Good /\ m \in 0 .. m
    BY <1>5
  <2> QED
    BY <2>2
<1>7. Legs!encodeChunks = [m \in Nat |-> Legs!encodeChunks[m]]
  BY <1>1
<1> QED
  BY <1>2, <1>6, <1>7

-----------------------------------------------------------------------------
(* Reading what has been drawn.                                            *)

Readers == [done : Seq(Int), value : Nat, weight : Nat]
Reader(d, v, w) == [done |-> d, value |-> v, weight |-> w]
SignedNumber(x) == IF x % 2 = 0 THEN x \div 2 ELSE - ((x + 1) \div 2)

LEMMA BitsOf ==
    \A c \in Legs!Char : (c - 63) % 32 \in Nat
BY DEF Legs!Char

LEMMA SignedIs == \A x \in Nat : SignedNumber(x) \in Int
BY DEF SignedNumber

LEMMA Times32 ==
    \A v \in Nat, b \in Nat, w \in Nat : v + b * w \in Nat /\ 32 * w \in Nat
OBVIOUS

LEMMA ReadIs ==
    ASSUME NEW c \in Legs!Char, NEW d \in Seq(Int), NEW v \in Nat, NEW w \in Nat
    PROVE  Legs!Read(c, Reader(d, v, w)) =
              IF c - 63 >= 32 THEN Reader(d, v + ((c - 63) % 32) * w, 32 * w)
              ELSE Reader(Append(d, SignedNumber(v + ((c - 63) % 32) * w)), 0, 1)
<1>1. /\ Reader(d, v, w).done = d /\ Reader(d, v, w).value = v /\ Reader(d, v, w).weight = w
  BY DEF Reader
<1> QED
  BY <1>1 DEF Legs!Read, Reader, SignedNumber

LEMMA ReadType ==
    ASSUME NEW c \in Legs!Char, NEW a \in Readers
    PROVE  Legs!Read(c, a) \in Readers
<1>1. /\ a.done \in Seq(Int) /\ a.value \in Nat /\ a.weight \in Nat
      /\ a = Reader(a.done, a.value, a.weight)
  BY DEF Readers, Reader
<1> DEFINE b == (c - 63) % 32
           v == a.value + b * a.weight
<1>2. b \in Nat
  BY BitsOf
<1>3. v \in Nat /\ 32 * a.weight \in Nat
  BY <1>1, <1>2, Times32
<1>4. Legs!Read(c, a) = IF c - 63 >= 32 THEN Reader(a.done, v, 32 * a.weight)
                        ELSE Reader(Append(a.done, SignedNumber(v)), 0, 1)
  BY <1>1, ReadIs
<1> HIDE DEF b, v
<1>5. Append(a.done, SignedNumber(v)) \in Seq(Int)
  BY <1>1, <1>3, SignedIs
<1>6. Reader(a.done, v, 32 * a.weight) \in Readers
      /\ Reader(Append(a.done, SignedNumber(v)), 0, 1) \in Readers
  BY <1>1, <1>3, <1>5 DEF Reader, Readers
<1> QED
  BY <1>4, <1>6

\* What the reader of a line has at each of its characters.
Reading(line, A) ==
    /\ A \in [0 .. Len(line) -> Readers]
    /\ A[0] = Reader(<<>>, 0, 1)
    /\ \A k \in 1 .. Len(line) : A[k] = Legs!Read(line[k], A[k - 1])

LEMMA ReadingOf ==
    ASSUME NEW line \in Seq(Legs!Char)
    PROVE  \E A : Reading(line, A) /\ Legs!Numbers(line) = A[Len(line)].done
<1> DEFINE k == Len(line)
           b == Reader(<<>>, 0, 1)
           step == [x \in (1 .. k) \X Readers |-> Legs!Read(line[x[1]], x[2])]
           Is(f) == f = [i \in 0 .. k |-> IF i = 0 THEN [done |-> <<>>, value |-> 0, weight |-> 1]
                                          ELSE Legs!Read(line[i], f[i - 1])]
           read == CHOOSE f : Is(f)
<1>1. k \in Nat /\ b \in Readers /\ \A i \in 1 .. k : line[i] \in Legs!Char
  BY DEF Reader, Readers
<1>2. step \in [(1 .. k) \X Readers -> Readers]
  BY <1>1, ReadType
<1>3. PICK f \in [0 .. k -> Readers] : Stepwise(k, b, step, f)
  <2> HIDE DEF k, b, step
  <2> QED
    BY <1>1, <1>2, StepsExist
<1>4. \A i \in 1 .. k : f[i] = Legs!Read(line[i], f[i - 1])
  <2>1. TAKE i \in 1 .. k
  <2>2. f[i] = step[<<i, f[i - 1]>>]
    <3>1. i \in 0 .. k /\ i # 0
      BY <1>1
    <3> HIDE DEF k, b, step
    <3> QED
      BY <1>3, <3>1 DEF Stepwise
  <2>3. i - 1 \in 0 .. k /\ <<i, f[i - 1]>> \in (1 .. k) \X Readers
    BY <1>1, <1>3
  <2> QED
    BY <2>2, <2>3
<1>5. f[0] = b
  BY <1>3, <1>1 DEF Stepwise
<1>6. Is(f)
  BY <1>3, <1>4, <1>5, <1>1 DEF Reader
<1>7. Is(read)
  <2> HIDE DEF Is
  <2> QED
    BY <1>6
<1>8. Legs!Numbers(line) = read[k].done
  BY DEF Legs!Numbers
<1> HIDE DEF read
<1>9. /\ DOMAIN read = 0 .. k /\ read[0] = b
      /\ \A i \in 1 .. k : read[i] = Legs!Read(line[i], read[i - 1])
  BY <1>7, <1>1 DEF Reader
<1>10. \A i \in 0 .. k : read[i] = f[i]
  <2> DEFINE Good == {l \in Nat : \A i \in 0 .. k : i <= l => read[i] = f[i]}
  <2>1. 0 \in Good
    BY <1>5, <1>9, <1>1
  <2>2. ASSUME NEW l \in Nat, l \in Good
        PROVE  l + 1 \in Good
    <3> SUFFICES ASSUME l + 1 <= k PROVE read[l + 1] = f[l + 1]
      BY <2>2
    <3>1. l + 1 \in 1 .. k /\ l + 1 - 1 = l /\ l \in 0 .. k
      BY <1>1
    <3>2. read[l] = f[l]
      BY <3>1, <2>2
    <3> QED
      BY <3>1, <3>2, <1>4, <1>9
  <2>3. \A l \in Nat : l \in Good
    <3> HIDE DEF Good
    <3> QED
      BY <2>1, <2>2, EveryNatural
  <2>4. k \in Good
    BY <2>3, <1>1
  <2> QED
    BY <2>4
<1>11. Reading(line, f)
  BY <1>3, <1>4, <1>5, <1>1 DEF Reading
<1>12. read[k] = f[k]
  BY <1>10, <1>1
<1> QED
  BY <1>8, <1>11, <1>12

\* A line has s after its first p characters.
Has(line, p, s) ==
    p + Len(s) <= Len(line) /\ \A j \in 1 .. Len(s) : line[p + j] = s[j]

LEMMA HasParts ==
    ASSUME NEW line \in Seq(Legs!Char), NEW p \in Nat, NEW s \in Seq(Legs!Char),
           NEW t \in Seq(Legs!Char), Has(line, p, s \o t)
    PROVE  Has(line, p, s) /\ Has(line, p + Len(s), t) /\ Len(s \o t) = Len(s) + Len(t)
<1>1. /\ Len(s) \in Nat /\ Len(t) \in Nat /\ Len(s \o t) = Len(s) + Len(t) /\ Len(line) \in Nat
      /\ \A j \in 1 .. Len(s) : (s \o t)[j] = s[j]
      /\ \A j \in 1 .. Len(t) : (s \o t)[Len(s) + j] = t[j]
  OBVIOUS
<1> DEFINE both == s \o t
<1> HIDE DEF both
<1>2. /\ p + Len(both) <= Len(line) /\ Len(both) = Len(s) + Len(t)
      /\ \A j \in 1 .. Len(both) : line[p + j] = both[j]
  BY <1>1 DEF Has, both
<1>3. \A j \in 1 .. Len(s) : both[j] = s[j]
  BY <1>1 DEF both
<1>4. \A j \in 1 .. Len(t) : both[Len(s) + j] = t[j]
  BY <1>1 DEF both
<1>5. Has(line, p, s)
  BY <1>1, <1>2, <1>3 DEF Has
<1>6. ASSUME NEW j \in 1 .. Len(t) PROVE line[p + Len(s) + j] = t[j]
  <2>1. Len(s) + j \in 1 .. Len(both) /\ p + (Len(s) + j) = p + Len(s) + j
    BY <1>1, <1>2
  <2> QED
    BY <2>1, <1>2, <1>4
<1>7. Has(line, p + Len(s), t)
  BY <1>1, <1>2, <1>6 DEF Has
<1> QED
  BY <1>1, <1>5, <1>7

LEMMA ReadOne ==
    ASSUME NEW line \in Seq(Legs!Char), NEW A, Reading(line, A), NEW p \in Nat,
           NEW c \in Legs!Char, Has(line, p, <<c>>)
    PROVE  A[p + 1] = Legs!Read(c, A[p])
<1>1. p + 1 \in 1 .. Len(line) /\ line[p + 1] = c /\ p + 1 - 1 = p
  BY DEF Has
<1> QED
  BY <1>1 DEF Reading

\* To read m with value and weight w before it.
ReadsNumber(line, A, m) ==
    \A p \in Nat, d \in Seq(Int), v \in Nat, w \in Nat :
        Has(line, p, Legs!encodeChunks[m]) /\ A[p] = Reader(d, v, w)
          => A[p + Len(Legs!encodeChunks[m])]
                = Reader(Append(d, SignedNumber(v + m * w)), 0, 1)

LEMMA Weighed ==
    \A q \in Nat, r \in Nat, v \in Nat, w \in Nat :
        (v + r * w) + q * (32 * w) = v + (32 * q + r) * w
OBVIOUS

LEMMA LowBits ==
    \A r \in 0 .. 31 : /\ (32 + r + 63) - 63 >= 32 /\ ((32 + r + 63) - 63) % 32 = r
                       /\ ~ ((r + 63) - 63 >= 32) /\ ((r + 63) - 63) % 32 = r
                       /\ r + 63 \in Legs!Char /\ 32 + r + 63 \in Legs!Char
BY DEF Legs!Char

LEMMA ReadChunks ==
    ASSUME NEW line \in Seq(Legs!Char), NEW A, Reading(line, A)
    PROVE  \A m \in Nat : ReadsNumber(line, A, m)
<1> DEFINE Good == {l \in Nat : \A m \in 0 .. l : ReadsNumber(line, A, m)}
<1>1. ASSUME NEW m \in Nat, m < 32
      PROVE  ReadsNumber(line, A, m)
  <2>1. ASSUME NEW p \in Nat, NEW d \in Seq(Int), NEW v \in Nat, NEW w \in Nat,
               Has(line, p, <<m + 63>>), A[p] = Reader(d, v, w)
        PROVE  A[p + 1] = Reader(Append(d, SignedNumber(v + m * w)), 0, 1)
    <3>1. m \in 0 .. 31
      BY <1>1
    <3>2. /\ m + 63 \in Legs!Char /\ ~ ((m + 63) - 63 >= 32) /\ ((m + 63) - 63) % 32 = m
      BY <3>1, LowBits
    <3> DEFINE c == m + 63
    <3> HIDE DEF c
    <3>3. A[p + 1] = Legs!Read(c, A[p])
      BY <2>1, <3>2, ReadOne DEF c
    <3>4. c \in Legs!Char /\ ~ (c - 63 >= 32) /\ (c - 63) % 32 = m
      BY <3>2 DEF c
    <3> QED
      BY <2>1, <3>3, <3>4, ReadIs
  <2>2. Legs!encodeChunks[m] = <<m + 63>>
    BY <1>1, EncodedChunks DEF Next32
  <2>3. Len(<<m + 63>>) = 1
    OBVIOUS
  <2> QED
    BY <2>1, <2>2, <2>3 DEF ReadsNumber
<1>2. ASSUME NEW m \in Nat, m >= 32, ReadsNumber(line, A, m \div 32)
      PROVE  ReadsNumber(line, A, m)
  <2> DEFINE q == m \div 32
             r == m % 32
             rest == Legs!encodeChunks[q]
             c == 32 + r + 63
  <2>1. q \in Nat /\ r \in 0 .. 31 /\ r \in Nat /\ m = 32 * q + r
    BY Quotient
  <2>2. rest \in Seq(Legs!Char)
    BY <2>1, EncodedChunks
  <2>3. Legs!encodeChunks[m] = <<c>> \o rest
    <3>1. Next32(m, Legs!encodeChunks) = <<c>> \o rest
      BY <1>2 DEF Next32
    <3> QED
      BY <3>1, EncodedChunks
  <2>4. c \in Legs!Char /\ c - 63 >= 32 /\ (c - 63) % 32 = r
    BY <2>1, LowBits
  <2> DEFINE one == <<c>>
  <2>5. one \in Seq(Legs!Char) /\ Len(one) = 1
    BY <2>4
  <2>6. ReadsNumber(line, A, q)
    BY <1>2
  <2>7. \A p \in Nat : Has(line, p, one) => A[p + 1] = Legs!Read(c, A[p])
    BY <2>4, ReadOne
  <2> DEFINE whole == one \o rest
  <2>8. Legs!encodeChunks[m] = whole
    BY <2>3
  <2> HIDE DEF q, r, rest, c, one
  <2>9. \A p \in Nat : Has(line, p, whole) =>
           /\ Has(line, p, one) /\ Has(line, p + 1, rest) /\ Len(whole) = 1 + Len(rest)
    <3>1. ASSUME NEW p \in Nat, Has(line, p, one \o rest)
          PROVE  /\ Has(line, p, one) /\ Has(line, p + Len(one), rest)
                 /\ Len(one \o rest) = Len(one) + Len(rest)
      <4>1. one \in Seq(Legs!Char) /\ rest \in Seq(Legs!Char)
        BY <2>2, <2>5
      <4> QED
        BY <3>1, <4>1, HasParts
    <3> HIDE DEF whole
    <3>2. \A p \in Nat : p + Len(one) = p + 1
      BY <2>5
    <3> QED
      BY <2>5, <3>1, <3>2 DEF whole
  <2>10. Len(rest) \in Nat
    BY <2>2
  <2>r. \A p \in Nat, d \in Seq(Int), v \in Nat, w \in Nat :
           Has(line, p, rest) /\ A[p] = Reader(d, v, w)
             => A[p + Len(rest)] = Reader(Append(d, SignedNumber(v + q * w)), 0, 1)
    BY <2>6 DEF ReadsNumber, rest
  <2> HIDE DEF whole
  <2>11. ASSUME NEW p \in Nat, NEW d \in Seq(Int), NEW v \in Nat, NEW w \in Nat,
               Has(line, p, whole), A[p] = Reader(d, v, w)
        PROVE  A[p + Len(whole)] = Reader(Append(d, SignedNumber(v + m * w)), 0, 1)
    <3>1. Has(line, p, one) /\ Has(line, p + 1, rest) /\ Len(whole) = 1 + Len(rest)
      BY <2>9, <2>11
    <3>2. A[p + 1] = Reader(d, v + r * w, 32 * w)
      <4>1. A[p + 1] = Legs!Read(c, Reader(d, v, w))
        BY <2>7, <2>11, <3>1
      <4>2. Legs!Read(c, Reader(d, v, w)) = Reader(d, v + ((c - 63) % 32) * w, 32 * w)
        BY <2>4, ReadIs
      <4> QED
        BY <2>4, <4>1, <4>2
    <3>3. v + r * w \in Nat /\ 32 * w \in Nat /\ p + 1 \in Nat
      BY <2>1, Times32
    <3>4. A[(p + 1) + Len(rest)]
             = Reader(Append(d, SignedNumber((v + r * w) + q * (32 * w))), 0, 1)
      <4> DEFINE v2 == v + r * w
                 w2 == 32 * w
                 p2 == p + 1
      <4>1. v2 \in Nat /\ w2 \in Nat /\ p2 \in Nat /\ Has(line, p2, rest) /\ A[p2] = Reader(d, v2, w2)
        BY <3>1, <3>2, <3>3
      <4> HIDE DEF v2, w2, p2
      <4>2. A[p2 + Len(rest)] = Reader(Append(d, SignedNumber(v2 + q * w2)), 0, 1)
        BY <2>r, <4>1
      <4> QED
        BY <4>2 DEF v2, w2, p2
    <3>5. (v + r * w) + q * (32 * w) = v + m * w
      BY <2>1, Weighed
    <3>6. p + Len(whole) = (p + 1) + Len(rest)
      BY <3>1, <2>10
    <3> QED
      BY <3>4, <3>5, <3>6
  <2> QED
    BY <2>8, <2>11 DEF ReadsNumber
<1>3. 0 \in Good
  BY <1>1
<1>4. ASSUME NEW l \in Nat, l \in Good
      PROVE  l + 1 \in Good
  <2>1. CASE l + 1 < 32
    BY <1>1, <1>4, <2>1
  <2>2. CASE l + 1 >= 32
    <3>1. (l + 1) \div 32 \in 0 .. l
      BY <2>2, Quotient
    <3>2. ReadsNumber(line, A, l + 1)
      BY <1>2, <1>4, <2>2, <3>1
    <3> QED
      BY <1>4, <3>2
  <2> QED
    BY <2>1, <2>2
<1>5. \A l \in Nat : l \in Good
  <2> HIDE DEF Good
  <2> QED
    BY <1>3, <1>4, EveryNatural
<1> QED
  <2>1. TAKE m \in Nat
  <2>2. m \in Good /\ m \in 0 .. m
    BY <1>5
  <2> QED
    BY <2>2

\* To read a number that may be negative.
LEMMA ReadSigned ==
    ASSUME NEW line \in Seq(Legs!Char), NEW A, Reading(line, A), NEW p \in Nat, NEW d \in Seq(Int),
           NEW num \in Int, A[p] = Reader(d, 0, 1), Has(line, p, Legs!encodeSignedNumber(num))
    PROVE  A[p + Len(Legs!encodeSignedNumber(num))] = Reader(Append(d, num), 0, 1)
<1> DEFINE m == IF num < 0 THEN - 2 * num - 1 ELSE 2 * num
<1>1. m \in Nat /\ 0 + m * 1 = m
  OBVIOUS
<1>2. SignedNumber(m) = num
  BY DEF SignedNumber
<1>3. Legs!encodeSignedNumber(num) = Legs!encodeChunks[m]
  BY DEF Legs!encodeSignedNumber
<1> HIDE DEF m
<1>4. ReadsNumber(line, A, m)
  BY <1>1, ReadChunks
<1>5. A[p + Len(Legs!encodeChunks[m])] = Reader(Append(d, SignedNumber(0 + m * 1)), 0, 1)
  BY <1>3, <1>4 DEF ReadsNumber
<1> QED
  BY <1>1, <1>2, <1>3, <1>5

LEMMA SignedChars ==
    \A num \in Int : Legs!encodeSignedNumber(num) \in Seq(Legs!Char)
<1> SUFFICES ASSUME NEW num \in Int
             PROVE  Legs!encodeSignedNumber(num) \in Seq(Legs!Char)
  OBVIOUS
<1> DEFINE m == IF num < 0 THEN - 2 * num - 1 ELSE 2 * num
<1>1. m \in Nat
  OBVIOUS
<1>2. Legs!encodeSignedNumber(num) = Legs!encodeChunks[m]
  BY DEF Legs!encodeSignedNumber
<1> QED
  BY <1>1, <1>2, EncodedChunks

\* What is drawn of a way for its i-th stop: how far it is from the one before.
Origin == [latitude |-> 0, longitude |-> 0]
Coordinate == [latitude : Int, longitude : Int]
Before(way, i) == IF i = 1 THEN Origin ELSE way[i - 1]
North(way, i) == way[i].latitude - Before(way, i).latitude
East(way, i) == way[i].longitude - Before(way, i).longitude
Piece(way, i) == Legs!encodeSignedNumber(North(way, i)) \o Legs!encodeSignedNumber(East(way, i))

LEMMA PieceType ==
    ASSUME NEW way \in Seq(Coordinate), NEW i \in 1 .. Len(way)
    PROVE  /\ North(way, i) \in Int /\ East(way, i) \in Int
           /\ Piece(way, i) \in Seq(Legs!Char)
<1>1. way[i] \in Coordinate
  OBVIOUS
<1>2. Before(way, i) \in Coordinate
  <2>1. i # 1 => i - 1 \in 1 .. Len(way)
    OBVIOUS
  <2>2. i # 1 => way[i - 1] \in Coordinate
    BY <2>1
  <2>3. Origin \in Coordinate
    BY DEF Origin, Coordinate
  <2> QED
    BY <2>2, <2>3 DEF Before
<1>3. North(way, i) \in Int /\ East(way, i) \in Int
  BY <1>1, <1>2 DEF North, East, Coordinate
<1>4. /\ Legs!encodeSignedNumber(North(way, i)) \in Seq(Legs!Char)
      /\ Legs!encodeSignedNumber(East(way, i)) \in Seq(Legs!Char)
  BY <1>3, SignedChars
<1> QED
  BY <1>3, <1>4 DEF Piece

\* The pieces one after another, up to each.
Joined(way, f) ==
    /\ f \in [0 .. Len(way) -> Seq(Legs!Char)]
    /\ f[0] = <<>>
    /\ \A i \in 1 .. Len(way) : f[i] = f[i - 1] \o Piece(way, i)

LEMMA EncodedIsJoined ==
    ASSUME NEW way \in Seq(Coordinate), Len(way) > 0
    PROVE  \E f : Joined(way, f) /\ Legs!encodePolyline(way) = f[Len(way)]
<1> DEFINE k == Len(way)
           V == Seq(Legs!Char)
           step == [x \in (1 .. k) \X V |-> x[2] \o Piece(way, x[1])]
           parts == [i \in 1 .. k |-> Piece(way, i)]
           Is(g) == g = [i \in 1 .. k |-> IF i = 1 THEN parts[i] ELSE g[i - 1] \o parts[i]]
           flatten == CHOOSE g : Is(g)
<1>1. k \in Nat /\ k > 0 /\ <<>> \in V /\ \A i \in 1 .. k : Piece(way, i) \in V
  BY PieceType
<1>2. step \in [(1 .. k) \X V -> V]
  <2>1. \A i \in 1 .. k, s \in V : s \o Piece(way, i) \in V
    BY <1>1
  <2> HIDE DEF V
  <2> QED
    BY <2>1
<1>3. PICK f \in [0 .. k -> V] : Stepwise(k, <<>>, step, f)
  <2> HIDE DEF k, V, step
  <2> QED
    BY <1>1, <1>2, StepsExist
<1>4. f[0] = <<>>
  BY <1>3, <1>1 DEF Stepwise
<1>5. \A i \in 1 .. k : f[i] = f[i - 1] \o Piece(way, i)
  <2>1. TAKE i \in 1 .. k
  <2>2. i \in 0 .. k /\ i # 0 /\ i - 1 \in 0 .. k
    BY <1>1
  <2>3. f[i] = step[<<i, f[i - 1]>>]
    <3> HIDE DEF k, V, step
    <3> QED
      BY <1>3, <2>2 DEF Stepwise
  <2>4. <<i, f[i - 1]>> \in (1 .. k) \X V
    BY <1>3, <2>2
  <2> QED
    BY <2>3, <2>4
<1>6. Joined(way, f)
  BY <1>3, <1>4, <1>5 DEF Joined
<1>7. Legs!encodePolyline(way) = flatten[k]
  <2>1. DOMAIN way = 1 .. k
    OBVIOUS
  <2>2. [i \in DOMAIN way |->
           LET prev == IF i = 1 THEN [latitude |-> 0, longitude |-> 0] ELSE way[i - 1]
           IN  Legs!encodeSignedNumber(way[i].latitude - prev.latitude)
               \o Legs!encodeSignedNumber(way[i].longitude - prev.longitude)] = parts
    BY <2>1 DEF Piece, North, East, Before, Origin
  <2>3. Len(parts) = k /\ k # 0
    BY <1>1
  <2>4. Legs!encodePolyline(way) = Legs!FlattenSeq(parts)
    BY <2>2 DEF Legs!encodePolyline
  <2> HIDE DEF parts, k
  <2>5. Legs!FlattenSeq(parts) = flatten[k]
    BY <2>3 DEF Legs!FlattenSeq
  <2> QED
    BY <2>4, <2>5
<1>8. \E g : Is(g)
  <2> DEFINE g == [i \in 1 .. k |-> f[i]]
  <2>1. f[1] = parts[1]
    <3>1. f[1] = f[0] \o Piece(way, 1) /\ 1 \in 1 .. k
      BY <1>1, <1>5
    <3>2. <<>> \o Piece(way, 1) = Piece(way, 1)
      BY <1>1
    <3> QED
      BY <1>4, <3>1, <3>2
  <2>2. \A i \in 1 .. k : i # 1 => i - 1 \in 1 .. k
    BY <1>1
  <2>3. \A i \in 1 .. k : g[i] = IF i = 1 THEN parts[i] ELSE g[i - 1] \o parts[i]
    BY <1>5, <2>1, <2>2
  <2> HIDE DEF parts
  <2>4. Is(g)
    BY <2>3
  <2> HIDE DEF Is, g
  <2> QED
    BY <2>4
<1>9. Is(flatten)
  <2> HIDE DEF Is
  <2> QED
    BY <1>8
<1> HIDE DEF flatten
<1>10. \A i \in 1 .. k : flatten[i] = IF i = 1 THEN parts[i] ELSE flatten[i - 1] \o parts[i]
  <2> HIDE DEF parts
  <2> QED
    BY <1>9
<1>11. flatten[k] = f[k]
  <2> DEFINE Good == {l \in Nat : l < k => flatten[l + 1] = f[l + 1]}
  <2>1. 0 \in Good
    <3>1. 1 \in 1 .. k /\ flatten[1] = parts[1]
      BY <1>1, <1>10
    <3>2. f[1] = f[0] \o Piece(way, 1) /\ <<>> \o Piece(way, 1) = Piece(way, 1)
      BY <1>1, <1>5
    <3> QED
      BY <3>1, <3>2, <1>4
  <2>2. ASSUME NEW l \in Nat, l \in Good
        PROVE  l + 1 \in Good
    <3> SUFFICES ASSUME l + 1 < k PROVE flatten[l + 2] = f[l + 2]
      OBVIOUS
    <3> DEFINE i == l + 2
    <3>1. i \in 1 .. k /\ i # 1 /\ i - 1 = l + 1 /\ l < k
      BY <1>1
    <3>2. flatten[l + 1] = f[l + 1]
      BY <2>2, <3>1
    <3>3. parts[i] = Piece(way, i)
      BY <3>1
    <3> HIDE DEF i, k, parts
    <3>4. flatten[i] = flatten[i - 1] \o parts[i]
      BY <3>1, <1>10
    <3>5. f[i] = f[i - 1] \o Piece(way, i)
      BY <3>1, <1>5
    <3>6. flatten[i] = f[i]
      BY <3>1, <3>2, <3>3, <3>4, <3>5
    <3> QED
      BY <3>6 DEF i
  <2>3. \A l \in Nat : l \in Good
    <3> HIDE DEF Good
    <3> QED
      BY <2>1, <2>2, EveryNatural
  <2>4. k - 1 \in Good /\ k - 1 < k /\ k - 1 + 1 = k
    BY <2>3, <1>1
  <2> QED
    BY <2>4
<1> QED
  BY <1>6, <1>7, <1>11

\* A line begins with each of its beginnings.
LEMMA JoinedHas ==
    ASSUME NEW way \in Seq(Coordinate), NEW f, Joined(way, f)
    PROVE  \A i \in 1 .. Len(way) : Has(f[Len(way)], Len(f[i - 1]), Piece(way, i))
<1> DEFINE k == Len(way)
           line == f[k]
           Within(s) == Len(s) <= Len(line) /\ \A q \in 1 .. Len(s) : line[q] = s[q]
           Good == {l \in Nat : l <= k => Within(f[k - l])}
<1>1. k \in Nat /\ f \in [0 .. k -> Seq(Legs!Char)]
      /\ \A i \in 1 .. k : f[i] = f[i - 1] \o Piece(way, i)
  BY DEF Joined
<1>l. line \in Seq(Legs!Char)
  BY <1>1
<1>2. 0 \in Good
  <2>1. line \in Seq(Legs!Char) /\ k - 0 = k
    BY <1>1
  <2> QED
    BY <2>1
<1>3. ASSUME NEW l \in Nat, l \in Good
      PROVE  l + 1 \in Good
  <2> SUFFICES ASSUME l + 1 <= k PROVE Within(f[k - (l + 1)])
    OBVIOUS
  <2> DEFINE i == k - l
  <2>1. i \in 1 .. k /\ i - 1 = k - (l + 1) /\ i - 1 \in 0 .. k /\ l <= k
    BY <1>1
  <2> DEFINE s == f[i - 1]
             t == Piece(way, i)
  <2>2. f[i] = s \o t /\ s \in Seq(Legs!Char) /\ t \in Seq(Legs!Char)
    BY <1>1, <2>1, PieceType
  <2>3. Within(f[i])
    BY <1>3, <2>1
  <2> HIDE DEF i, s, t, line
  <2>4. Len(s \o t) >= Len(s) /\ Len(line) \in Nat /\ Len(s) \in Nat
        /\ \A q \in 1 .. Len(s) : q \in 1 .. Len(s \o t) /\ (s \o t)[q] = s[q]
    BY <2>2, <1>l
  <2>5. Within(s)
    BY <2>2, <2>3, <2>4
  <2> QED
    BY <2>1, <2>5 DEF s
<1>4. \A l \in Nat : l \in Good
  <2> HIDE DEF Good
  <2> QED
    BY <1>2, <1>3, EveryNatural
<1>5. ASSUME NEW i \in 1 .. k PROVE Has(line, Len(f[i - 1]), Piece(way, i))
  <2> DEFINE s == f[i - 1]
             t == Piece(way, i)
  <2>1. f[i] = s \o t /\ s \in Seq(Legs!Char) /\ t \in Seq(Legs!Char)
    <3>1. i - 1 \in 0 .. k
      BY <1>1
    <3> QED
      BY <1>1, <3>1, PieceType
  <2>2. Within(f[i])
    <3>1. k - i \in Good /\ k - i <= k /\ k - (k - i) = i
      BY <1>1, <1>4
    <3> QED
      BY <3>1
  <2> HIDE DEF s, t, line
  <2>3. /\ Len(s \o t) = Len(s) + Len(t) /\ Len(s) \in Nat /\ Len(t) \in Nat
        /\ \A j \in 1 .. Len(t) : Len(s) + j \in 1 .. Len(s \o t) /\ (s \o t)[Len(s) + j] = t[j]
    BY <2>1
  <2>4. Has(line, Len(s), t)
    BY <2>1, <2>2, <2>3 DEF Has
  <2> QED
    BY <2>4 DEF s, t
<1> QED
  BY <1>5

\* The numbers that were read of a way when i of its stops have been.
FirstNumbers(way, i, d) ==
    /\ d \in Seq(Int) /\ Len(d) = 2 * i
    /\ \A j \in 1 .. i : d[2 * j - 1] = North(way, j) /\ d[2 * j] = East(way, j)

LEMMA TwoMore ==
    ASSUME NEW way \in Seq(Coordinate), NEW i \in Nat, i + 1 \in 1 .. Len(way), NEW d,
           FirstNumbers(way, i, d)
    PROVE  FirstNumbers(way, i + 1, Append(Append(d, North(way, i + 1)), East(way, i + 1)))
<1> DEFINE a == North(way, i + 1)
           b == East(way, i + 1)
           e == Append(Append(d, a), b)
<1>1. a \in Int /\ b \in Int /\ d \in Seq(Int) /\ Len(d) = 2 * i
  BY PieceType DEF FirstNumbers
<1> HIDE DEF a, b
<1>2. /\ e \in Seq(Int) /\ Len(e) = 2 * i + 2
      /\ e[2 * i + 1] = a /\ e[2 * i + 2] = b
      /\ \A m \in 1 .. 2 * i : e[m] = d[m]
  <2> DEFINE c == Append(d, a)
             l == 2 * i
  <2>1. l \in Nat /\ Len(d) = l
    BY <1>1
  <2> HIDE DEF l
  <2>2. c \in Seq(Int) /\ Len(c) = l + 1 /\ c[l + 1] = a /\ \A m \in 1 .. l : c[m] = d[m]
    BY <1>1, <2>1
  <2>3. e = Append(c, b)
    OBVIOUS
  <2> HIDE DEF c, e
  <2>4. e \in Seq(Int) /\ Len(e) = l + 2 /\ e[l + 2] = b /\ \A m \in 1 .. l + 1 : e[m] = c[m]
    BY <1>1, <2>1, <2>2, <2>3
  <2>5. l + 1 \in 1 .. l + 1 /\ \A m \in 1 .. l : m \in 1 .. l + 1
    BY <2>1
  <2> QED
    BY <2>2, <2>4, <2>5 DEF l
<1> HIDE DEF e
<1>3. ASSUME NEW j \in 1 .. i + 1
      PROVE  e[2 * j - 1] = North(way, j) /\ e[2 * j] = East(way, j)
  <2>1. CASE j = i + 1
    <3>1. 2 * j - 1 = 2 * i + 1 /\ 2 * j = 2 * i + 2
      BY <2>1
    <3> QED
      BY <1>2, <2>1, <3>1 DEF a, b
  <2>2. CASE j # i + 1
    <3>1. j \in 1 .. i /\ 2 * j - 1 \in 1 .. 2 * i /\ 2 * j \in 1 .. 2 * i
      BY <2>2
    <3> QED
      BY <1>2, <3>1 DEF FirstNumbers
  <2> QED
    BY <2>1, <2>2
<1>4. Len(e) = 2 * (i + 1)
  BY <1>2
<1>5. FirstNumbers(way, i + 1, e)
  BY <1>2, <1>3, <1>4 DEF FirstNumbers
<1> QED
  BY <1>5 DEF e, a, b

LEMMA NumbersRead ==
    ASSUME NEW way \in Seq(Coordinate), Len(way) > 0
    PROVE  /\ Legs!encodePolyline(way) \in Seq(Legs!Char)
           /\ FirstNumbers(way, Len(way), Legs!Numbers(Legs!encodePolyline(way)))
<1> DEFINE k == Len(way)
<1>1. PICK f : Joined(way, f) /\ Legs!encodePolyline(way) = f[k]
  BY EncodedIsJoined
<1>2. k \in Nat /\ f \in [0 .. k -> Seq(Legs!Char)] /\ f[0] = <<>>
      /\ \A i \in 1 .. k : f[i] = f[i - 1] \o Piece(way, i)
  BY <1>1 DEF Joined
<1> DEFINE line == f[k]
<1>3. line \in Seq(Legs!Char)
  BY <1>2
<1>4. \A i \in 1 .. k : Has(line, Len(f[i - 1]), Piece(way, i))
  BY <1>1, JoinedHas
<1> HIDE DEF line
<1>5. PICK A : Reading(line, A) /\ Legs!Numbers(line) = A[Len(line)].done
  BY <1>3, ReadingOf
<1> DEFINE Good == {i \in Nat : i <= k =>
                      \E d : FirstNumbers(way, i, d) /\ A[Len(f[i])] = Reader(d, 0, 1)}
<1>6. 0 \in Good
  <2>1. FirstNumbers(way, 0, <<>>)
    BY DEF FirstNumbers
  <2>2. Len(f[0]) = 0 /\ A[0] = Reader(<<>>, 0, 1)
    BY <1>2, <1>5 DEF Reading
  <2> QED
    BY <2>1, <2>2
<1>7. ASSUME NEW i \in Nat, i \in Good
      PROVE  i + 1 \in Good
  <2> SUFFICES ASSUME i + 1 <= k
               PROVE  \E d : FirstNumbers(way, i + 1, d) /\ A[Len(f[i + 1])] = Reader(d, 0, 1)
    OBVIOUS
  <2>1. i + 1 \in 1 .. k /\ i + 1 - 1 = i /\ i \in 0 .. k /\ i <= k
    BY <1>2
  <2>2. PICK d : FirstNumbers(way, i, d) /\ A[Len(f[i])] = Reader(d, 0, 1)
    BY <1>7, <2>1
  <2>p. f[i] \in Seq(Legs!Char) /\ Len(f[i]) \in Nat
    <3> HIDE DEF k
    <3>1. f[i] \in Seq(Legs!Char)
      BY <1>2, <2>1
    <3> QED
      BY <3>1
  <2> DEFINE a == North(way, i + 1)
             b == East(way, i + 1)
  <2>3. a \in Int /\ b \in Int
    BY <2>1, PieceType
  <2>e. FirstNumbers(way, i + 1, Append(Append(d, a), b))
    BY <2>1, <2>2, TwoMore
  <2>5. Piece(way, i + 1) = Legs!encodeSignedNumber(a) \o Legs!encodeSignedNumber(b)
    BY DEF Piece
  <2> HIDE DEF a, b
  <2> DEFINE s == Legs!encodeSignedNumber(a)
             t == Legs!encodeSignedNumber(b)
             p == Len(f[i])
  <2>4. s \in Seq(Legs!Char) /\ t \in Seq(Legs!Char)
    BY <2>3, SignedChars
  <2>r. \A num \in Int, q \in Nat, x \in Seq(Int) :
           A[q] = Reader(x, 0, 1) /\ Has(line, q, Legs!encodeSignedNumber(num))
              => A[q + Len(Legs!encodeSignedNumber(num))] = Reader(Append(x, num), 0, 1)
    BY <1>3, <1>5, ReadSigned
  <2>s. /\ \A q \in Nat, x \in Seq(Int) :
              A[q] = Reader(x, 0, 1) /\ Has(line, q, s)
                 => A[q + Len(s)] = Reader(Append(x, a), 0, 1)
        /\ \A q \in Nat, x \in Seq(Int) :
              A[q] = Reader(x, 0, 1) /\ Has(line, q, t)
                 => A[q + Len(t)] = Reader(Append(x, b), 0, 1)
    BY <2>3, <2>r
  <2> HIDE DEF s, t
  <2>7. Has(line, p, s \o t) /\ f[i + 1] = f[i] \o (s \o t)
    <3> DEFINE m == i + 1
    <3>1. m \in 1 .. k /\ m - 1 = i
      BY <2>1
    <3>2. Piece(way, m) = s \o t
      BY <2>5 DEF s, t
    <3> HIDE DEF k, m
    <3>3. f[m] = f[m - 1] \o Piece(way, m) /\ Has(line, Len(f[m - 1]), Piece(way, m))
      BY <1>2, <1>4, <3>1
    <3> QED
      BY <3>1, <3>2, <3>3 DEF m
  <2>6. p \in Nat /\ A[p] = Reader(d, 0, 1)
    BY <2>2, <2>p
  <2>8. Len(f[i] \o (s \o t)) = p + Len(s \o t)
    BY <2>4, <2>p
  <2>9. d \in Seq(Int)
    BY <2>2 DEF FirstNumbers
  <2> HIDE DEF p
  <2>10. Has(line, p, s) /\ Has(line, p + Len(s), t) /\ Len(s \o t) = Len(s) + Len(t)
    BY <1>3, <2>4, <2>6, <2>7, HasParts
  <2>11. A[p + Len(s)] = Reader(Append(d, a), 0, 1)
    BY <2>6, <2>9, <2>10, <2>s
  <2>12. A[(p + Len(s)) + Len(t)] = Reader(Append(Append(d, a), b), 0, 1)
    <3>1. p + Len(s) \in Nat /\ Append(d, a) \in Seq(Int)
      BY <2>3, <2>4, <2>6, <2>9
    <3> QED
      BY <3>1, <2>10, <2>11, <2>s
  <2>13. Len(f[i + 1]) = (p + Len(s)) + Len(t)
    <3>1. Len(s) \in Nat /\ Len(t) \in Nat
      BY <2>4
    <3>2. Len(f[i + 1]) = p + (Len(s) + Len(t))
      BY <2>7, <2>8, <2>10
    <3> QED
      BY <2>6, <3>1, <3>2
  <2> QED
    BY <2>e, <2>12, <2>13
<1>8. \A i \in Nat : i \in Good
  <2> HIDE DEF Good
  <2> QED
    BY <1>6, <1>7, EveryNatural
<1>9. PICK d : FirstNumbers(way, k, d) /\ A[Len(f[k])] = Reader(d, 0, 1)
  <2>1. k \in Good
    BY <1>2, <1>8
  <2> QED
    BY <1>2, <2>1
<1>10. Legs!Numbers(line) = d
  BY <1>5, <1>9 DEF line, Reader
<1> QED
  BY <1>1, <1>3, <1>9, <1>10 DEF line

\* A stop is the one before and what is drawn for it.
LEMMA StopRegained ==
    ASSUME NEW way \in Seq(Coordinate), NEW i \in 1 .. Len(way)
    PROVE  way[i] = [latitude |-> Before(way, i).latitude + North(way, i),
                     longitude |-> Before(way, i).longitude + East(way, i)]
<1> DEFINE c == way[i]
           o == Before(way, i)
<1>1. c \in Coordinate
  OBVIOUS
<1>2. o \in Coordinate
  <2>1. i # 1 => i - 1 \in 1 .. Len(way)
    OBVIOUS
  <2>2. i # 1 => way[i - 1] \in Coordinate
    BY <2>1
  <2>3. Origin \in Coordinate
    BY DEF Origin, Coordinate
  <2> QED
    BY <2>2, <2>3 DEF Before
<1>3. North(way, i) = c.latitude - o.latitude /\ East(way, i) = c.longitude - o.longitude
  BY DEF North, East
<1> HIDE DEF c, o
<1>4. o.latitude \in Int /\ o.longitude \in Int /\ c.latitude \in Int /\ c.longitude \in Int
      /\ c = [latitude |-> c.latitude, longitude |-> c.longitude]
  BY <1>1, <1>2 DEF Coordinate
<1>5. c.latitude = o.latitude + North(way, i) /\ c.longitude = o.longitude + East(way, i)
  BY <1>3, <1>4
<1> QED
  BY <1>4, <1>5 DEF c, o

LEMMA PolylineDrawn ==
    ASSUME coordinates \in Seq(Coordinate), Len(coordinates) > 1,
           geometry = Legs!encodePolyline(coordinates)
    PROVE  Legs!DrawnAsGone
<1> DEFINE way == coordinates
           k == Len(way)
           N == Legs!Numbers(geometry)
           Is(f) == f = [i \in 0 .. k |->
                           IF i = 0 THEN [latitude |-> 0, longitude |-> 0]
                           ELSE [latitude |-> f[i - 1].latitude + N[2 * i - 1],
                                 longitude |-> f[i - 1].longitude + N[2 * i]]]
           drawn == CHOOSE f : Is(f)
           g == [i \in 0 .. k |-> IF i = 0 THEN Origin ELSE way[i]]
<1>1. way \in Seq(Coordinate) /\ k \in Nat /\ k > 1
  OBVIOUS
<1>2. FirstNumbers(way, k, N)
  BY NumbersRead
<1> HIDE DEF N
<1>3. \A i \in 1 .. k : g[i] = way[i] /\ g[i - 1] = Before(way, i)
  <2>1. TAKE i \in 1 .. k
  <2>2. i \in 0 .. k /\ i - 1 \in 0 .. k /\ i # 0 /\ (i - 1 = 0 <=> i = 1)
    BY <1>1
  <2> HIDE DEF way, k
  <2> QED
    BY <2>2 DEF Before
<1>4. \A i \in 1 .. k : way[i] = [latitude |-> Before(way, i).latitude + N[2 * i - 1],
                                  longitude |-> Before(way, i).longitude + N[2 * i]]
  <2>1. TAKE i \in 1 .. k
  <2>2. N[2 * i - 1] = North(way, i) /\ N[2 * i] = East(way, i)
    BY <1>2 DEF FirstNumbers
  <2> HIDE DEF way, k
  <2>3. i \in 1 .. Len(way)
    BY DEF k
  <2> QED
    BY <1>1, <2>2, <2>3, StopRegained
<1> HIDE DEF way, k
<1>5. Is(g)
  <2>1. g[0] = Origin
    BY <1>1
  <2>2. \A i \in 1 .. k : g[i] = [latitude |-> g[i - 1].latitude + N[2 * i - 1],
                                  longitude |-> g[i - 1].longitude + N[2 * i]]
    BY <1>3, <1>4
  <2>3. \A i \in 0 .. k : i # 0 => i \in 1 .. k
    BY <1>1
  <2>4. g = [i \in 0 .. k |-> g[i]]
    OBVIOUS
  <2> HIDE DEF g
  <2> QED
    BY <2>1, <2>2, <2>3, <2>4 DEF Origin
<1>6. Is(drawn)
  <2> HIDE DEF Is, g
  <2> QED
    BY <1>5
<1> HIDE DEF drawn
<1>7. /\ drawn[0] = Origin
      /\ \A i \in 1 .. k : drawn[i] = [latitude |-> drawn[i - 1].latitude + N[2 * i - 1],
                                       longitude |-> drawn[i - 1].longitude + N[2 * i]]
  BY <1>1, <1>6 DEF Origin
<1> HIDE DEF Is, g
<1>8. \A i \in 0 .. k : drawn[i] = g[i]
  <2> DEFINE Good == {l \in Nat : l <= k => drawn[l] = g[l]}
  <2>1. 0 \in Good
    BY <1>1, <1>7 DEF g
  <2>2. ASSUME NEW l \in Nat, l \in Good
        PROVE  l + 1 \in Good
    <3> SUFFICES ASSUME l + 1 <= k PROVE drawn[l + 1] = g[l + 1]
      OBVIOUS
    <3> DEFINE i == l + 1
    <3>1. i \in 1 .. k /\ i - 1 = l /\ l <= k
      BY <1>1
    <3>2. drawn[l] = g[l]
      BY <2>2, <3>1
    <3> HIDE DEF i
    <3>3. drawn[i] = g[i]
      BY <1>3, <1>4, <1>7, <3>1, <3>2
    <3> QED
      BY <3>3 DEF i
  <2>3. \A l \in Nat : l \in Good
    <3> HIDE DEF Good
    <3> QED
      BY <2>1, <2>2, EveryNatural
  <2> QED
    BY <2>3, <1>1
<1>9. \A i \in 1 .. k : drawn[i] = way[i]
  <2>1. \A i \in 1 .. k : i \in 0 .. k
    BY <1>1
  <2> QED
    BY <1>3, <1>8, <2>1
<1>10. Len(N) = 2 * k
  BY <1>2 DEF FirstNumbers
<1> QED
  BY <1>9, <1>10 DEF Legs!DrawnAsGone, Legs!n, drawn, Is, way, k, N

-----------------------------------------------------------------------------
(* RouteLegs: the legs.                                                    *)

LegRecord == [from : Nat, to : Nat, distance : {ApiDistance, StraightDistance}]

\* What has been found so far are the first legs, each once; while there is one left to
\* find the answer is not given.  What is drawn in the end is what Mapbox drew or the way.
LegsInv ==
    /\ coordinates \in Seq(Coordinate)
    /\ token \in BOOLEAN /\ delayed \in BOOLEAN
    /\ retryCount \in 0 .. maxRetries
    /\ total \in Nat
    /\ legs \in Seq(LegRecord)
    /\ \A i \in DOMAIN legs : legs[i].from = i /\ legs[i].to = i + 1
    /\ pc \in {"start", "batch", "leg", "done"}
    /\ pc \in {"start", "batch"} => legs = <<>>
    /\ pc \in {"batch", "leg"} => Len(coordinates) > 1 /\ Len(legs) < Len(coordinates) - 1
    /\ pc = "done" => Len(legs) = IF Len(coordinates) > 1 THEN Len(coordinates) - 1 ELSE 0
    /\ geometry # Legs!FromMapbox =>
          geometry = IF pc = "done" /\ Len(coordinates) > 1
                     THEN Legs!encodePolyline(coordinates) ELSE <<>>

\* The greater of two numbers.
LEMMA GreaterOfTwo ==
    ASSUME NEW m \in Nat
    PROVE  Legs!Max({m, 1}) = IF m > 1 THEN m ELSE 1
BY DEF Legs!Max

LEMMA LegsInvEveryLeg == LegsInv => Legs!EveryLeg
<1> SUFFICES ASSUME LegsInv PROVE Legs!EveryLeg
  OBVIOUS
<1> DEFINE m == Len(coordinates)
<1>1. m \in Nat /\ m = Legs!n
  BY DEF LegsInv, Legs!n
<1> HIDE DEF m
<1>2. Legs!Max({Legs!n, 1}) - 1 = IF m > 1 THEN m - 1 ELSE 0
  BY <1>1, GreaterOfTwo
<1> QED
  BY <1>2 DEF LegsInv, Legs!EveryLeg, m

LEMMA LegsInvDrawn == LegsInv => Legs!DrawnAsGone
<1>1. ASSUME LegsInv, pc = "done", geometry # Legs!FromMapbox, Len(coordinates) > 1
      PROVE  Legs!DrawnAsGone
  BY <1>1, PolylineDrawn DEF LegsInv
<1> QED
  BY <1>1 DEF Legs!DrawnAsGone, Legs!n

LEMMA LegsInvType == LegsInv => Legs!TypeOK
<1> SUFFICES ASSUME LegsInv PROVE Legs!TypeOK
  OBVIOUS
<1>1. geometry = Legs!FromMapbox \/ geometry \in Seq(Legs!Char)
  <2>1. coordinates \in Seq(Coordinate)
    BY DEF LegsInv
  <2>2. Len(coordinates) > 1 => Legs!encodePolyline(coordinates) \in Seq(Legs!Char)
    <3>1. Len(coordinates) > 1 => Len(coordinates) > 0
      BY <2>1
    <3> QED
      BY <2>1, <3>1, NumbersRead
  <2>3. <<>> \in Seq(Legs!Char)
    OBVIOUS
  <2> QED
    BY <2>2, <2>3 DEF LegsInv
<1> QED
  BY <1>1 DEF LegsInv, Legs!TypeOK, Coordinate, LegRecord

LEMMA InitLegs == ASSUME Legs!Init PROVE LegsInv
<1>1. coordinates \in Seq(Coordinate)
  BY Assumptions DEF Legs!Init, Coordinate
<1>2. legs = <<>> /\ legs \in Seq(LegRecord) /\ DOMAIN legs = {}
  BY DEF Legs!Init
<1>3. /\ pc = "start" /\ token \in BOOLEAN /\ delayed \in BOOLEAN /\ geometry = <<>>
      /\ retryCount \in 0 .. maxRetries /\ total \in Nat
  <2>1. /\ pc = "start" /\ token \in BOOLEAN /\ delayed = FALSE /\ geometry = <<>>
        /\ retryCount = 0 /\ total = 0
    BY DEF Legs!Init
  <2>2. maxRetries \in Nat
    BY Assumptions
  <2>3. delayed \in BOOLEAN
    BY <2>1
  <2>4. retryCount \in 0 .. maxRetries /\ total \in Nat
    BY <2>1, <2>2
  <2> QED
    BY <2>1, <2>3, <2>4
<1> QED
  BY <1>1, <1>2, <1>3 DEF LegsInv

\* One more leg.
LEMMA NextLegStep ==
    ASSUME LegsInv, NEW distance \in {ApiDistance, StraightDistance}, pc = "leg",
           Legs!NextLeg(distance), UNCHANGED <<coordinates, token>>
    PROVE  LegsInv'
<1> DEFINE leg == [from |-> Len(legs) + 1, to |-> Len(legs) + 2, distance |-> distance]
<1>1. legs \in Seq(LegRecord) /\ Len(legs) \in Nat /\ Len(coordinates) \in Nat
  BY DEF LegsInv
<1>2. leg \in LegRecord /\ leg.from = Len(legs) + 1 /\ leg.to = Len(legs) + 2
  BY <1>1 DEF LegRecord
<1>3. legs' = Append(legs, leg)
  BY <1>1 DEF Legs!NextLeg, Legs!Leg
<1> HIDE DEF leg
<1>4. /\ legs' \in Seq(LegRecord) /\ Len(legs') = Len(legs) + 1
      /\ \A i \in 1 .. Len(legs) + 1 : legs'[i] = IF i = Len(legs) + 1 THEN leg ELSE legs[i]
  BY <1>1, <1>2, <1>3
<1>5. \A i \in DOMAIN legs' : legs'[i].from = i /\ legs'[i].to = i + 1
  <2>1. DOMAIN legs' = 1 .. Len(legs) + 1 /\ DOMAIN legs = 1 .. Len(legs)
    BY <1>1, <1>4
  <2>2. ASSUME NEW i \in DOMAIN legs' PROVE legs'[i].from = i /\ legs'[i].to = i + 1
    <3>1. CASE i = Len(legs) + 1
      BY <1>1, <1>2, <1>4, <2>1, <3>1
    <3>2. CASE i # Len(legs) + 1
      <4>1. i \in DOMAIN legs /\ legs'[i] = legs[i]
        BY <1>1, <1>4, <2>1, <3>2
      <4> QED
        BY <4>1 DEF LegsInv
    <3> QED
      BY <3>1, <3>2
  <2> QED
    BY <2>2
<1>6. IF Len(legs) + 1 = Len(coordinates) - 1
      THEN pc' = "done" /\ geometry' = Legs!encodePolyline(coordinates)
      ELSE UNCHANGED <<pc, geometry>>
  BY DEF Legs!NextLeg, Legs!n
<1>7. retryCount' \in 0 .. maxRetries /\ total' \in Nat /\ delayed' \in BOOLEAN
      /\ token' \in BOOLEAN
  BY Assumptions DEF LegsInv, Legs!NextLeg
<1> QED
  BY <1>1, <1>4, <1>5, <1>6, <1>7 DEF LegsInv

\* There is another attempt only while they are not used up.
LEMMA AgainStep ==
    ASSUME LegsInv, NEW answer \in Legs!Answers, Legs!fetchWithRetry(answer) = "again", Legs!Again
    PROVE  /\ retryCount' \in 0 .. maxRetries /\ total' \in Nat /\ delayed' \in BOOLEAN
           /\ UNCHANGED <<pc, legs, geometry>>
<1>1. retryCount < maxRetries
  BY DEF Legs!fetchWithRetry, Legs!Answers
<1> QED
  BY <1>1, Assumptions DEF LegsInv, Legs!Again

\* The whole way at once, or not at all.
LEMMA BatchStep ==
    ASSUME LegsInv, NEW answer \in Legs!Answers, NEW lacks, Legs!Batch(answer, lacks)
    PROVE  LegsInv'
<1> DEFINE all == [i \in 1 .. Len(coordinates) - 1 |->
                      Legs!Leg(i, IF i \in lacks THEN StraightDistance ELSE ApiDistance)]
<1>1. pc = "batch" /\ legs = <<>> /\ UNCHANGED <<coordinates, token>> /\ Len(coordinates) > 1
      /\ Len(coordinates) \in Nat
  BY DEF Legs!Batch, LegsInv
<1>2. \/ UNCHANGED <<pc, legs, geometry>>
      \/ legs' = all /\ pc' = "done" /\ geometry' = Legs!FromMapbox
      \/ pc' = "leg" /\ UNCHANGED <<legs, geometry>>
  BY DEF Legs!Batch, Legs!Again, Legs!n
<1>4. retryCount' \in 0 .. maxRetries /\ total' \in Nat /\ delayed' \in BOOLEAN
      /\ token' \in BOOLEAN
  <2>1. CASE Legs!fetchWithRetry(answer) = "again"
    BY <1>1, <2>1, AgainStep DEF Legs!Batch, LegsInv
  <2>2. CASE Legs!fetchWithRetry(answer) = "route"
    <3>1. total' = (Len(coordinates) - 1) * ApiDistance /\ UNCHANGED <<retryCount, delayed>>
      BY <2>2 DEF Legs!Batch, Legs!n
    <3>2. (Len(coordinates) - 1) * ApiDistance \in Nat
      BY <1>1, Assumptions
    <3> QED
      BY <1>1, <3>1, <3>2 DEF LegsInv
  <2>3. CASE Legs!fetchWithRetry(answer) \notin {"again", "route"}
    BY <1>1, <2>3, Assumptions DEF Legs!Batch, LegsInv
  <2> QED
    BY <2>1, <2>2, <2>3
<1>3. /\ all \in Seq(LegRecord) /\ Len(all) = Len(coordinates) - 1
      /\ \A i \in DOMAIN all : all[i].from = i /\ all[i].to = i + 1
  <2>1. \A i \in 1 .. Len(coordinates) - 1 : all[i] \in LegRecord /\ all[i].from = i /\ all[i].to = i + 1
    BY <1>1 DEF Legs!Leg, LegRecord
  <2> QED
    BY <1>1, <2>1
<1> HIDE DEF all
<1> QED
  BY <1>1, <1>2, <1>3, <1>4 DEF LegsInv

LEMMA NextLegs == ASSUME LegsInv, [Legs!Next]_legsVars PROVE LegsInv'
<1>1. Len(coordinates) \in Nat
  BY DEF LegsInv
<1>2. CASE Legs!getRoutesForActivities
  <2>1. pc = "start" /\ legs = <<>>
        /\ UNCHANGED <<coordinates, token, retryCount, delayed, legs, total, geometry>>
        /\ pc' \in (IF Len(coordinates) < 2 THEN {"done"} ELSE {"batch", "leg"})
    BY <1>2 DEF Legs!getRoutesForActivities, LegsInv, Legs!n
  <2> QED
    BY <1>1, <2>1 DEF LegsInv
<1>3. ASSUME NEW answer \in Legs!Answers, Legs!getRoute(answer)
      PROVE  LegsInv'
  <2>1. pc = "leg" /\ UNCHANGED <<coordinates, token>>
    BY <1>3 DEF Legs!getRoute
  <2>2. \/ Legs!fetchWithRetry(answer) = "again" /\ Legs!Again
        \/ Legs!NextLeg(ApiDistance)
        \/ Legs!NextLeg(StraightDistance)
    BY <1>3 DEF Legs!getRoute
  <2>3. CASE Legs!fetchWithRetry(answer) = "again" /\ Legs!Again
    BY <2>1, <2>3, AgainStep DEF LegsInv
  <2> QED
    BY <2>1, <2>2, <2>3, NextLegStep
<1>4. CASE Legs!fallbackRoute
  BY <1>4, NextLegStep DEF Legs!fallbackRoute
<1>5. CASE Legs!Delay \/ UNCHANGED legsVars
  BY <1>5 DEF Legs!Delay, legsVars, LegsInv
<1> QED
  BY <1>2, <1>3, <1>4, <1>5, BatchStep DEF Legs!Next

-----------------------------------------------------------------------------
(* The theorems.                                                           *)

\* Each part keeps its invariant, whichever part takes steps.
PartsInv ==
    /\ PushInv
    /\ WeatherInv
    /\ LegsInv

LEMMA InitParts == Init => PartsInv
BY Assumptions, InitPush, InitWeather, InitLegs DEF Init, PartsInv

LEMMA NextParts == PartsInv /\ [Next]_vars => PartsInv'
<1> SUFFICES ASSUME PartsInv, [Next]_vars PROVE PartsInv'
  OBVIOUS
<1>1. [Push!Next]_pushVars /\ [Weather!Next]_weatherVars /\ [Legs!Next]_legsVars
  BY DEF Next, vars, pushVars, weatherVars, legsVars
<1> QED
  BY <1>1, Assumptions, NextPush, NextWeather, NextLegs DEF PartsInv

LEMMA PartsAlways == Spec => []PartsInv
BY InitParts, NextParts, PTL DEF Spec

\* Whatever late sign-outs, deleted accounts and late answers of FCM do, and however
\* many pushes are under way, an app gets the pushes of nobody but the user who is signed in
\* there; and it gets those, unless FCM has found something wrong with a message to it and
\* its token was not registered again since.
THEOREM RightHandsAlways == Spec => []RightHands
<1>1. PartsInv => RightHands
  BY DEF PartsInv, PushInv, RightHands
<1> QED
  BY <1>1, PartsAlways, PTL

\* Nobody is told weather older than the cache may keep it or the provider take to answer,
\* whatever overlaps, whatever is cleared or switched meanwhile, and for any such times.
THEOREM FreshEnoughAlways == Spec => []FreshEnough
<1>1. PartsInv => FreshEnough
  BY DEF PartsInv, WeatherInv, FreshEnough
<1> QED
  BY <1>1, PartsAlways, PTL

\* However many stops there are, wherever they are, and whatever Mapbox answers and leaves
\* out, directions have every leg of the way, in order, each once; and the line that
\* encodePolyline draws when Mapbox has none, read as a polyline is, goes through the
\* stops and nowhere else.
THEOREM DirectionsSoundAlways == Spec => []DirectionsSound
<1>1. PartsInv => DirectionsSound
  BY LegsInvEveryLeg, LegsInvDrawn DEF PartsInv, DirectionsSound
<1> QED
  BY <1>1, PartsAlways, PTL

\* The states keep their types: no more attempts than are allowed, and what is drawn is
\* characters of a polyline, among other things.
THEOREM TypeCorrect == Spec => []TypeOK
<1>1. PartsInv => TypeOK
  BY LegsInvType DEF PartsInv, PushInv, WeatherInv, TypeOK
<1> QED
  BY <1>1, PartsAlways, PTL

=============================================================================
