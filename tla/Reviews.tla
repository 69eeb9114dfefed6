------------------------------ MODULE Reviews -------------------------------
(***************************************************************************)
(* The reviews of a destination and the average rating cached on it        *)
(* (src/src/modules/reviews, src/src/modules/admin/reviews).               *)
(*                                                                         *)
(* A request changes one review and then aggregates all of them anew:      *)
(* read, write, aggregate and update are statements of their own, and only *)
(* the requests of travellers and those of moderators agree on the         *)
(* details: the first count every review that is not deleted, the second   *)
(* those that are approved.  Texts and photos are left out, and so is the  *)
(* destination going away; PENDING is one of the statuses not APPROVED.    *)
(***************************************************************************)
EXTENDS Naturals, FiniteSets, FiniteSetsExt

CONSTANTS
    ReviewIds,
    Ratings,
    Slots,      \* requests in progress at the same time
    NoReview

VARIABLES
    review,     \* table reviews, of one destination
    cached,     \* rating, in tenths, and reviewCount of the destination
    req,
    settled     \* what cached ought to be: "live" or "approved" after a request that
                \* was alone from beginning to end, "unknown" otherwise; only a
                \* property reads it

vars == <<review, cached, req, settled>>

ReviewStatus == {"APPROVED", "REJECTED"}

ReviewRow == [rating : Ratings, status : ReviewStatus, deleted : BOOLEAN]

Labels == {"idle", "update", "softDelete", "updateStatus", "hardDelete", "aggregate", "write"}

NoResult == [rating |-> 0, count |-> 0]

\* alone: no other request has been in progress since this one began, and no account
\* was removed.
Idle == [pc |-> "idle", v |-> NoReview, rating |-> CHOOSE n \in Ratings : TRUE,
         status |-> "APPROVED", counts |-> "live", alone |-> FALSE, result |-> NoResult]

Result == [rating : 0 .. 10 * Max(Ratings), count : 0 .. Cardinality(ReviewIds)]

TypeOK ==
    /\ review \in [ReviewIds -> ReviewRow \union {NoReview}]
    /\ cached \in Result
    /\ req \in [Slots -> [pc : Labels, v : ReviewIds \union {NoReview}, rating : Ratings,
                          status : ReviewStatus, counts : {"live", "approved"}, alone : BOOLEAN, result : Result]]
    /\ settled \in {"live", "approved", "unknown"}

Init ==
    /\ review = [v \in ReviewIds |-> NoReview]
    /\ cached = NoResult
    /\ req = [r \in Slots |-> Idle]
    /\ settled = "live"

-----------------------------------------------------------------------------
At(r, pc) == req[r].pc = pc

\* findById does not find a deleted review, an update by id does.
Row(v) == review[v] # NoReview
Live(v) == Row(v) /\ ~ review[v].deleted

Counted(rows, which) ==
    {v \in ReviewIds :
        /\ rows[v] # NoReview /\ ~ rows[v].deleted
        /\ which = "approved" => rows[v].status = "APPROVED"}

RatingSum(rows, counted) == FoldSet(LAMBDA v, sum : sum + rows[v].rating, 0, counted)

\* Math.round(10 * average), or toFixed(1).
Rounded_sum(sum, count) == 10 * sum

Rounded(sum, count) == IF count = 0 THEN 0 ELSE (20 * sum + count) \div (2 * count)

AggregateOf(rows, counted) ==
    [rating |-> Rounded(RatingSum(rows, counted), Cardinality(counted)),
     count |-> Cardinality(counted)]

Aggregate(which) == AggregateOf(review, Counted(review, which))

\* A request begins: those in progress, and this one if there are any, are not alone.
Begin(r, record) ==
    LET busy == \E q \in Slots : ~ At(q, "idle")
    IN  /\ At(r, "idle")
        /\ req' = [q \in Slots |-> IF q = r THEN [record EXCEPT !.alone = ~ busy]
                                   ELSE [req[q] EXCEPT !.alone = FALSE]]

Goto(r, pc) == req' = [req EXCEPT ![r].pc = pc]

Return(r) == req' = [req EXCEPT ![r] = Idle]

createDestinationReview(r, v, rating) ==
    /\ review[v] = NoReview
    /\ Begin(r, [Idle EXCEPT !.pc = "aggregate", !.v = v])
    /\ review' = [review EXCEPT ![v] = [rating |-> rating, status |-> "APPROVED",
                                        deleted |-> FALSE]]
    /\ settled' = "unknown"
    /\ UNCHANGED cached

\* An update that leaves the rating alone changes nothing here.
updateReview(r, v, rating) ==
    /\ Live(v)
    /\ Begin(r, [Idle EXCEPT !.pc = "update", !.v = v, !.rating = rating])
    /\ UNCHANGED <<review, cached, settled>>

deleteReview(r, v) ==
    /\ Live(v)
    /\ Begin(r, [Idle EXCEPT !.pc = "softDelete", !.v = v])
    /\ UNCHANGED <<review, cached, settled>>

moderateReview(r, v, status) ==
    /\ Live(v)
    /\ Begin(r, [Idle EXCEPT !.pc = "updateStatus", !.v = v, !.status = status,
                             !.counts = "approved"])
    /\ UNCHANGED <<review, cached, settled>>

adminDeleteReview(r, v) ==
    /\ Live(v)
    /\ Begin(r, [Idle EXCEPT !.pc = "hardDelete", !.v = v, !.counts = "approved"])
    /\ UNCHANGED <<review, cached, settled>>

\* The row as the write of a request leaves it.
Written(r) ==
    LET v == req[r].v
    IN  CASE At(r, "update") -> [review[v] EXCEPT !.rating = req[r].rating]
          [] At(r, "softDelete") -> [review[v] EXCEPT !.deleted = TRUE]
          [] At(r, "updateStatus") -> [review[v] EXCEPT !.status = req[r].status]
          [] At(r, "hardDelete") -> NoReview

\* Fails if the row is gone.
writeReview(r) ==
    /\ req[r].pc \in {"update", "softDelete", "updateStatus", "hardDelete"}
    /\ Row(req[r].v)
    /\ review' = [review EXCEPT ![req[r].v] = Written(r)]
    /\ Goto(r, "aggregate")
    /\ settled' = "unknown"
    /\ UNCHANGED cached

aggregate_countsDeleted(r) ==
    /\ At(r, "aggregate")
    /\ LET counted == {v \in ReviewIds : Row(v) /\ (req[r].counts = "approved" =>
                                                      review[v].status = "APPROVED")}
       IN  req' = [req EXCEPT ![r].pc = "write", ![r].result = AggregateOf(review, counted)]
    /\ UNCHANGED <<review, cached, settled>>

aggregate(r) ==
    /\ At(r, "aggregate")
    /\ req' = [req EXCEPT ![r].pc = "write", ![r].result = Aggregate(req[r].counts)]
    /\ UNCHANGED <<review, cached, settled>>

writeRating(r) ==
    /\ At(r, "write")
    /\ cached' = req[r].result
    /\ settled' = IF req[r].alone THEN req[r].counts ELSE "unknown"
    /\ Return(r)
    /\ UNCHANGED review

\* A statement fails, or the server stops.
Fail(r) ==
    /\ ~ At(r, "idle")
    /\ Return(r)
    /\ UNCHANGED <<review, cached, settled>>

\* The rows of an account that is removed go with it, and nobody aggregates.
hardDeleteUser(v) ==
    /\ Row(v)
    /\ review' = [review EXCEPT ![v] = NoReview]
    /\ req' = [q \in Slots |-> [req[q] EXCEPT !.alone = FALSE]]
    /\ settled' = "unknown"
    /\ UNCHANGED cached

Next ==
    \/ \E r \in Slots :
          \/ \E v \in ReviewIds :
                \/ \E rating \in Ratings :
                      createDestinationReview(r, v, rating) \/ updateReview(r, v, rating)
                \/ \E status \in ReviewStatus : moderateReview(r, v, status)
                \/ deleteReview(r, v) \/ adminDeleteReview(r, v)
          \/ writeReview(r) \/ aggregate(r) \/ writeRating(r) \/ Fail(r)
    \/ \E v \in ReviewIds : hardDeleteUser(v)

Spec == Init /\ [][Next]_vars

-----------------------------------------------------------------------------
(* Properties.                                                             *)

\* Whatever overlaps, failures and removed accounts have done to the cached rating, one
\* request that changes a review and is alone makes it exact again: the aggregate of
\* the reviews that are live, or of those that are approved if it was a moderator's.
\* It stays so until the next change.
RatingRepaired == settled # "unknown" => cached = Aggregate(settled)

=============================================================================
