----------------------------- MODULE Favorites ------------------------------
(***************************************************************************)
(* The favorites of a user: destinations, accommodations and restaurants   *)
(* (src/src/modules/favorites).                                            *)
(*                                                                         *)
(* A request looks for the target and for the favorite and then inserts or *)
(* deletes a row, with nothing but the unique index between two requests.  *)
(* The lists are read page by page, newest first.                          *)
(***************************************************************************)
EXTENDS Integers, Sorting, Functions

CONSTANTS
    Targets,
    Kind,    \* "DESTINATION", "ACCOMMODATION" or "RESTAURANT" for each target
    Slots,   \* requests in progress at the same time
    limit    \* the page size

VARIABLES
    favorite,  \* table favorites: the targets of the user, newest first
    target,    \* status of each target
    req,
    balance    \* for each target, additions minus removals a client was told of since
               \* the target exists; only a property reads it

vars == <<favorite, target, req, balance>>

FavoriteType == {"DESTINATION", "ACCOMMODATION", "RESTAURANT"}
TargetStatus == {"PUBLISHED", "DRAFT", "ARCHIVED", "gone"}

Idle == [pc |-> "idle", t |-> CHOOSE t \in Targets : TRUE]

TypeOK ==
    /\ favorite \in Seq({t \in Targets : target[t] # "gone"})
    /\ target \in [Targets -> TargetStatus]
    /\ req \in [Slots -> [pc : {"idle", "create", "delete"}, t : Targets]]
    /\ balance \in [Targets -> Int]

Init ==
    /\ favorite = <<>>
    /\ target = [t \in Targets |-> "PUBLISHED"]
    /\ req = [r \in Slots |-> Idle]
    /\ balance = [t \in Targets |-> 0]

-----------------------------------------------------------------------------
\* findByIdOrSlug: a destination need only not be archived, which is when it has a
\* deletedAt; the others have to be published.
Found(t) ==
    \/ target[t] = "PUBLISHED"
    \/ Kind[t] = "DESTINATION" /\ target[t] = "DRAFT"

getFavoriteStatus(t) == t \in Range(favorite)

Begin(r, t, pc) ==
    /\ req[r].pc = "idle"
    /\ Found(t)
    /\ req' = [req EXCEPT ![r] = [pc |-> pc, t |-> t]]
    /\ UNCHANGED <<favorite, target, balance>>

Adding(r, t) == ~ getFavoriteStatus(t) /\ Begin(r, t, "create")

Removing(r, t) == getFavoriteStatus(t) /\ Begin(r, t, "delete")

addFavorite(r, t) == Kind[t] = "DESTINATION" /\ Adding(r, t)
removeFavorite(r, t) == Kind[t] = "DESTINATION" /\ Removing(r, t)
toggleFavorite(r, t) == Kind[t] = "DESTINATION" /\ (Adding(r, t) \/ Removing(r, t))

addAccommodationFavorite(r, t) == Kind[t] = "ACCOMMODATION" /\ Adding(r, t)
removeAccommodationFavorite(r, t) == Kind[t] = "ACCOMMODATION" /\ Removing(r, t)
toggleAccommodationFavorite(r, t) == Kind[t] = "ACCOMMODATION" /\ (Adding(r, t) \/ Removing(r, t))

addRestaurantFavorite(r, t) == Kind[t] = "RESTAURANT" /\ Adding(r, t)
removeRestaurantFavorite(r, t) == Kind[t] = "RESTAURANT" /\ Removing(r, t)
toggleRestaurantFavorite(r, t) == Kind[t] = "RESTAURANT" /\ (Adding(r, t) \/ Removing(r, t))

\* Fails on the unique index, or on the foreign key.
create(r) ==
    /\ req[r].pc = "create"
    /\ LET t == req[r].t IN
       IF getFavoriteStatus(t) \/ target[t] = "gone"
       THEN UNCHANGED <<favorite, balance>>
       ELSE /\ favorite' = <<t>> \o favorite
            /\ balance' = [balance EXCEPT ![t] = @ + 1]
    /\ req' = [req EXCEPT ![r] = Idle]
    /\ UNCHANGED target

\* The rows without that of t, of which the unique index allows one.
Without(t) ==
    IF getFavoriteStatus(t)
    THEN AllBut(favorite, CHOOSE k \in DOMAIN favorite : favorite[k] = t)
    ELSE favorite

delete_many(r) ==
    /\ req[r].pc = "delete"
    /\ favorite' = Without(req[r].t)
    /\ balance' = [balance EXCEPT ![req[r].t] = @ - 1]
    /\ req' = [req EXCEPT ![r] = Idle]
    /\ UNCHANGED target

\* Fails if there is no row any more.
delete(r) ==
    /\ req[r].pc = "delete"
    /\ LET t == req[r].t IN
       IF ~ getFavoriteStatus(t)
       THEN UNCHANGED <<favorite, balance>>
       ELSE /\ favorite' = Without(t)
            /\ balance' = [balance EXCEPT ![t] = @ - 1]
    /\ req' = [req EXCEPT ![r] = Idle]
    /\ UNCHANGED target

\* An administrator; the rows of a target go with it.
SetTarget(t, status) ==
    /\ target[t] # "gone"
    /\ target' = [target EXCEPT ![t] = status]
    /\ IF status = "gone"
       THEN /\ favorite' = Without(t)
            /\ balance' = [balance EXCEPT ![t] = 0]
       ELSE UNCHANGED <<favorite, balance>>
    /\ UNCHANGED req

-----------------------------------------------------------------------------
(* The lists, whatever has become of the targets' status.                  *)

OfType(type) ==
    LET places == {k \in DOMAIN favorite : type \in {"ALL", Kind[favorite[k]]}}
        order == Sorted(places, {p \in places \X places : p[1] < p[2]})
    IN  [n \in DOMAIN order |-> favorite[order[n]]]

getUserUnifiedFavorites(type, page) == Rows(OfType(type), (page - 1) * limit, limit)

getUserFavorites(page) == getUserUnifiedFavorites("DESTINATION", page)

\* A client is told of one page at least.
totalPages(type) == IF OfType(type) = <<>> THEN 1 ELSE (Len(OfType(type)) + limit - 1) \div limit

Next ==
    \/ \E r \in Slots :
          \/ \E t \in Targets :
                \/ addFavorite(r, t) \/ removeFavorite(r, t) \/ toggleFavorite(r, t)
                \/ addAccommodationFavorite(r, t) \/ removeAccommodationFavorite(r, t)
                \/ toggleAccommodationFavorite(r, t)
                \/ addRestaurantFavorite(r, t) \/ removeRestaurantFavorite(r, t)
                \/ toggleRestaurantFavorite(r, t)
          \/ create(r) \/ delete(r)
    \/ \E t \in Targets, status \in TargetStatus : SetTarget(t, status)

Spec == Init /\ [][Next]_vars

-----------------------------------------------------------------------------
(* Properties.                                                             *)

\* However toggles, additions and removals of one target overlap, and whatever becomes
\* of the target, the answers add up: a client that was told of as many removals as
\* additions has no favorite, and with one addition more it has.
AnswersAddUp ==
    \A t \in Targets : balance[t] = (IF getFavoriteStatus(t) THEN 1 ELSE 0)

\* Going through the pages of a list a client finds each favorite of that type once, and
\* nothing else, also after additions and removals that have overlapped.
ListedOnce ==
    \A type \in FavoriteType \union {"ALL"} :
        LET page(k) == getUserUnifiedFavorites(type, k)
            places == UNION {{k} \X DOMAIN page(k) : k \in 1 .. totalPages(type)}
        IN  \A t \in Targets :
               Cardinality({p \in places : page(p[1])[p[2]] = t}) =
                   IF getFavoriteStatus(t) /\ type \in {"ALL", Kind[t]} THEN 1 ELSE 0

=============================================================================
