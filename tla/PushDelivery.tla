---------------------------- MODULE PushDelivery ----------------------------
(***************************************************************************)
(* Device tokens, notifications and their delivery by Firebase Cloud       *)
(* Messaging (src/src/modules/devices, src/src/modules/notifications,      *)
(* src/src/modules/admin/notifications).                                   *)
(*                                                                         *)
(* A notification is a row and, in the background, a push: the tokens are  *)
(* read, FCM is asked, and the tokens it calls invalid are deactivated.    *)
(* Meanwhile phones change hands.  A token belongs to one installation of  *)
(* the app; FCM knows it until the app is removed, and never again after.  *)
(* It may also refuse a message to a token that it knows.                  *)
(* Titles, bodies and the audit log of broadcasts are left out.            *)
(***************************************************************************)
EXTENDS Naturals, FiniteSets

CONSTANTS
    Users,
    Tokens,
    Notes,         \* ids of notifications; one that is gone may be used again
    Slots,         \* pushes under way at the same time
    MaxMulticast,  \* how many tokens FCM takes at once
    Nobody

VARIABLES
    device,        \* table device_tokens
    notification,  \* table notifications
    push,          \* background pushes and broadcasts
    installed,     \* the tokens FCM knows: "yes", or "no" for good
    signedIn,      \* who the app of a token is signed in as, of what the server answered
    refused        \* tokens deactivated in spite of their app; only properties read it

vars == <<device, notification, push, installed, signedIn, refused>>

NoDevice == [user |-> Nobody, active |-> FALSE]
NoNote == [recipient |-> Nobody, read |-> FALSE]
Idle == [pc |-> "idle", tokens |-> {}, invalid |-> {}]

TypeOK ==
    /\ device \in [Tokens -> [user : Users, active : BOOLEAN] \union {NoDevice}]
    /\ notification \in [Notes -> [recipient : Users, read : BOOLEAN] \union {NoNote}]
    /\ push \in [Slots -> [pc : {"idle", "send", "deactivate"}, tokens : SUBSET Tokens,
                           invalid : SUBSET Tokens]]
    /\ \A s \in Slots : push[s].invalid \subseteq push[s].tokens
    /\ installed \in [Tokens -> BOOLEAN]
    /\ signedIn \in [Tokens -> Users \union {Nobody}]
    /\ refused \subseteq Tokens

Init ==
    /\ device = [t \in Tokens |-> NoDevice]
    /\ notification = [n \in Notes |-> NoNote]
    /\ push = [s \in Slots |-> Idle]
    /\ installed = [t \in Tokens |-> TRUE]
    /\ signedIn = [t \in Tokens |-> Nobody]
    /\ refused = {}

-----------------------------------------------------------------------------
(* Devices.                                                                *)

\* upsertToken: whoever had it before.
registerToken(u, t) ==
    /\ installed[t]
    /\ device' = [device EXCEPT ![t] = [user |-> u, active |-> TRUE]]
    /\ signedIn' = [signedIn EXCEPT ![t] = u]
    /\ refused' = refused \ {t}
    /\ UNCHANGED <<notification, push, installed>>

deactivateToken_anyUser(u, t) ==
    /\ device[t] # NoDevice
    /\ device' = [device EXCEPT ![t].active = FALSE]
    /\ signedIn' = [signedIn EXCEPT ![t] = IF @ = u THEN Nobody ELSE @]
    /\ UNCHANGED <<notification, push, installed, refused>>

\* On signing out; the request of a user who left long ago may come late.
deactivateToken(u, t) ==
    /\ device[t] # NoDevice
    /\ device' = IF device[t].user = u THEN [device EXCEPT ![t].active = FALSE] ELSE device
    /\ signedIn' = [signedIn EXCEPT ![t] = IF @ = u THEN Nobody ELSE @]
    /\ UNCHANGED <<notification, push, installed, refused>>

\* softDeleteUser, and the foreign key when the row of the user is deleted.
DeleteTokensOf(u) ==
    /\ device' = [t \in Tokens |-> IF device[t].user = u THEN NoDevice ELSE device[t]]
    /\ signedIn' = [t \in Tokens |-> IF signedIn[t] = u THEN Nobody ELSE signedIn[t]]
    /\ UNCHANGED <<notification, push, installed, refused>>

\* The app is removed, or its data is cleared; it gets another token next time.
Uninstall(t) ==
    /\ installed' = [installed EXCEPT ![t] = FALSE]
    /\ signedIn' = [signedIn EXCEPT ![t] = Nobody]
    /\ UNCHANGED <<device, notification, push, refused>>

-----------------------------------------------------------------------------
(* Pushes.                                                                 *)

findActiveTokensByUser(u) == {t \in Tokens : device[t].user = u /\ device[t].active}

Dispatch(s, tokens) ==
    /\ push[s].pc = "idle"
    /\ push' = [push EXCEPT ![s] = IF tokens = {} THEN Idle
                                   ELSE [pc |-> "send", tokens |-> tokens, invalid |-> {}]]

\* Not to oneself.  The answer to the caller does not wait for the push.
createNotification(s, n, recipient, actor) ==
    /\ recipient # actor
    /\ notification[n] = NoNote
    /\ notification' = [notification EXCEPT ![n] = [recipient |-> recipient, read |-> FALSE]]
    /\ Dispatch(s, findActiveTokensByUser(recipient))
    /\ UNCHANGED <<device, installed, signedIn, refused>>

\* To every active device, or to those of one platform or region.
sendBroadcast(s, tokens) ==
    /\ tokens \subseteq {t \in Tokens : device[t].active}
    /\ Dispatch(s, tokens)
    /\ UNCHANGED <<device, notification, installed, signedIn, refused>>

\* FCM answers for each token.  Those it does not know are invalid, and so is every one
\* for which it finds something wrong with the message; other failures are not.  With too
\* many at once, or without an answer, none is.
sendMulticast(s) ==
    /\ push[s].pc = "send"
    /\ \E invalidArgument \in SUBSET push[s].tokens :
          LET invalid == {t \in push[s].tokens : ~ installed[t]} \union invalidArgument
          IN  push' = [push EXCEPT ![s] =
                 IF invalid = {} \/ Cardinality(push[s].tokens) > MaxMulticast THEN Idle
                 ELSE [pc |-> "deactivate", tokens |-> push[s].tokens, invalid |-> invalid]]
    /\ UNCHANGED <<device, notification, installed, signedIn, refused>>

deactivateTokensByValues_never(s) ==
    /\ push[s].pc = "deactivate"
    /\ push' = [push EXCEPT ![s] = Idle]
    /\ UNCHANGED <<device, notification, installed, signedIn, refused>>

\* Whoever they belong to by now.
deactivateTokensByValues(s) ==
    /\ push[s].pc = "deactivate"
    /\ device' = [t \in Tokens |-> IF t \in push[s].invalid /\ device[t] # NoDevice
                                   THEN [device[t] EXCEPT !.active = FALSE] ELSE device[t]]
    /\ refused' = refused \union {t \in push[s].invalid : installed[t] /\ device[t].active}
    /\ push' = [push EXCEPT ![s] = Idle]
    /\ UNCHANGED <<notification, installed, signedIn>>

\* FCM cannot be reached, or the server stops.
Abandon(s) ==
    /\ push[s].pc # "idle"
    /\ push' = [push EXCEPT ![s] = Idle]
    /\ UNCHANGED <<device, notification, installed, signedIn, refused>>

-----------------------------------------------------------------------------
(* Reading.                                                                *)

markAsRead(u, n) ==
    /\ notification[n].recipient = u
    /\ notification' = [notification EXCEPT ![n].read = TRUE]
    /\ UNCHANGED <<device, push, installed, signedIn, refused>>

markAllAsRead(u) ==
    /\ notification' = [n \in Notes |-> IF notification[n].recipient = u
                                        THEN [notification[n] EXCEPT !.read = TRUE]
                                        ELSE notification[n]]
    /\ UNCHANGED <<device, push, installed, signedIn, refused>>

\* A notification goes with its post, its comment or its actor.
Cascade(n) ==
    /\ notification[n] # NoNote
    /\ notification' = [notification EXCEPT ![n] = NoNote]
    /\ UNCHANGED <<device, push, installed, signedIn, refused>>

Next ==
    \/ \E u \in Users :
          \/ \E t \in Tokens : registerToken(u, t) \/ deactivateToken(u, t)
          \/ DeleteTokensOf(u)
          \/ \E n \in Notes : markAsRead(u, n)
          \/ markAllAsRead(u)
          \/ \E actor \in Users, n \in Notes, s \in Slots : createNotification(s, n, u, actor)
    \/ \E t \in Tokens : Uninstall(t)
    \/ \E n \in Notes : Cascade(n)
    \/ \E s \in Slots :
          \/ sendMulticast(s) \/ deactivateTokensByValues(s) \/ Abandon(s)
          \/ \E tokens \in SUBSET Tokens : sendBroadcast(s, tokens)

\* The server goes on with what it began, if not always, then again and again, for
\* every token; users go on being notified.
Takes(s, t) == t \in push[s].tokens /\ Cardinality(push[s].tokens) <= MaxMulticast

Fairness ==
    /\ \A s \in Slots : WF_vars(sendMulticast(s))
    /\ \A t \in Tokens :
          /\ SF_vars(\E s \in Slots : Takes(s, t) /\ sendMulticast(s))
          /\ SF_vars(\E s \in Slots : t \in push[s].invalid /\ deactivateTokensByValues(s))
    /\ \A u \in Users :
          SF_vars(\E n \in Notes, actor \in Users, s \in Slots : createNotification(s, n, u, actor))
    /\ \A n \in Notes : WF_vars(Cascade(n))

Spec == Init /\ [][Next]_vars /\ Fairness

-----------------------------------------------------------------------------
(* Properties.                                                             *)

\* Whatever late sign-outs, deleted accounts and answers of FCM do, the app of a phone
\* gets the pushes of nobody but the user who signed in last and has not signed out; and
\* it gets those, unless FCM found something wrong with a message to it and the app has
\* not registered its token again since.
RightHands ==
    \A t \in Tokens, u \in Users :
        installed[t] =>
            /\ t \in findActiveTokensByUser(u) => signedIn[t] = u
            /\ signedIn[t] = u => t \in findActiveTokensByUser(u) \union refused

\* A token that FCM does not know any more is not asked for forever: as long as its
\* user is notified of something again and again, on no more devices than FCM takes
\* at once, it is deactivated, or given up.
DeadTokensRetired ==
    \A t \in Tokens :
        ~ installed[t] ~>
            \/ ~ device[t].active
            \/ Cardinality(findActiveTokensByUser(device[t].user)) > MaxMulticast

=============================================================================
