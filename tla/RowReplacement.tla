--------------------------- MODULE RowReplacement ---------------------------
(***************************************************************************)
(* Edits that replace all the rows under a header row in one transaction:  *)
(* the items of a checklist (src/src/modules/checklists) and the days of   *)
(* an itinerary template (src/src/modules/admin/itinerary-templates).      *)
(*                                                                         *)
(* PostgreSQL runs them at its default isolation, READ COMMITTED.  What a  *)
(* statement deletes is what was committed when it started; it waits for a *)
(* transaction that has deleted one of those rows, and goes on without the *)
(* ones that are then gone.  Inserting a key that another transaction has  *)
(* inserted or deleted waits for its end too.                              *)
(*                                                                         *)
(* A row is the request that wrote it and its number.  Request 0 creates   *)
(* the header with its rows, each of the others edits it once.             *)
(***************************************************************************)
EXTENDS Naturals, FiniteSets

CONSTANTS
    Requests,    \* the edits, from 1 on
    Numbers,     \* of the days; of checklist items, their places
    NotStarted   \* no statement is running

VARIABLES
    kind,        \* "CHECKLIST" or "TEMPLATE"
    plan,        \* the numbers each request writes
    titled,      \* the requests that name a title or a category as well
    active,      \* the requests whose days have activities (templates)
    live,        \* the header exists; a template's is not marked as deleted
    rows,        \* committed
    txn          \* the edits

vars == <<kind, plan, titled, active, live, rows, txn>>

Kinds == {"CHECKLIST", "TEMPLATE"}
Writers == {0} \union Requests
Rows == Writers \X Numbers

RowsOf(q) == {q} \X plan[q]

\* "begin", "header", "activities", "rows" and "insert" are what an edit does next.
Transactions ==
    [pc : {"begin", "header", "activities", "rows", "insert", "ended"},
     seen : {NotStarted} \union SUBSET Rows,   \* what the running statement will delete
     locked : BOOLEAN,                         \* it holds the header
     gone : SUBSET Rows,                       \* what it has deleted
     added : SUBSET Rows]                      \* what it has inserted

Waiting == [pc |-> "begin", seen |-> NotStarted, locked |-> FALSE, gone |-> {}, added |-> {}]
Ended == [Waiting EXCEPT !.pc = "ended"]

TypeOK ==
    /\ kind \in Kinds
    /\ plan \in [Writers -> SUBSET Numbers]
    /\ titled \in SUBSET Requests
    /\ active \in SUBSET Writers
    /\ live \in BOOLEAN
    /\ rows \in SUBSET Rows
    /\ txn \in [Requests -> Transactions]

Init ==
    /\ kind \in Kinds
    /\ plan \in [Writers -> SUBSET Numbers]
    /\ IF kind = "CHECKLIST"
       THEN titled \in SUBSET Requests /\ active = {}
       ELSE titled = {} /\ active \in SUBSET Writers
    /\ live = TRUE
    /\ rows = RowsOf(0)          \* one transaction, of which nobody sees a part
    /\ txn = [s \in Requests |-> Waiting]

-----------------------------------------------------------------------------
Others(s) == Requests \ {s}

Locked(s) == \E o \in Others(s) : txn[o].locked

Continue(s, t) ==
    /\ txn' = [txn EXCEPT ![s] = t]
    /\ UNCHANGED <<kind, plan, titled, active, live, rows>>

\* updateChecklist and updateTemplate read the header before the transaction.
Begin(s) ==
    /\ txn[s].pc = "begin" /\ live
    /\ Continue(s, [txn[s] EXCEPT !.pc = IF kind = "CHECKLIST" THEN "header" ELSE "activities"])

\* The checklist's header comes first.  Prisma writes the row, and updatedAt with it,
\* only when it is given a field to write; otherwise it only looks for it.
updateHeader(s) ==
    /\ txn[s].pc = "header" /\ live
    /\ s \in titled => ~ Locked(s)
    /\ Continue(s, [txn[s] EXCEPT !.pc = "rows", !.locked = s \in titled])

\* A deleteMany starts: of the activities, those of days that have some.
Start(s) ==
    /\ txn[s].pc \in {"activities", "rows"} /\ txn[s].seen = NotStarted
    /\ LET found == {r \in rows \ txn[s].gone : txn[s].pc = "activities" => r[1] \in active}
       IN  Continue(s, [txn[s] EXCEPT !.seen = found])

\* ... and ends, when nobody else holds what it has found.
deleteMany(s) ==
    /\ txn[s].pc \in {"activities", "rows"} /\ txn[s].seen # NotStarted
    /\ \A o \in Others(s) : txn[o].gone \intersect txn[s].seen = {}
    /\ Continue(s, [txn[s] EXCEPT !.pc = IF @ = "activities" THEN "rows" ELSE "insert",
                                  !.gone = @ \union (txn[s].seen \intersect rows),
                                  !.seen = NotStarted])

\* One createMany for the items; there is no item without its checklist.
createItems(s) ==
    /\ kind = "CHECKLIST" /\ txn[s].pc = "insert" /\ live
    /\ txn[s].added # RowsOf(s)
    /\ Continue(s, [txn[s] EXCEPT !.added = RowsOf(s)])

Free_anyNumber(s, n) == TRUE

\* templateId and dayNumber are unique: whose number is taken does not insert.
Free(s, n) ==
    /\ \A o \in Others(s), q \in Writers : <<q, n>> \notin txn[o].added \union (txn[o].gone \intersect rows)
    /\ \A q \in Writers : <<q, n>> \notin rows \ txn[s].gone

createDay(s) ==
    /\ kind = "TEMPLATE" /\ txn[s].pc = "insert"
    /\ \E n \in plan[s] :
          /\ <<s, n>> \notin txn[s].added
          /\ Free(s, n)
          /\ Continue(s, [txn[s] EXCEPT !.added = @ \union {<<s, n>>}])

\* A template's header is written with the commit; that it is marked as deleted does
\* not matter any more.
Commit(s) ==
    /\ txn[s].pc = "insert" /\ txn[s].added = RowsOf(s)
    /\ kind = "TEMPLATE" => ~ Locked(s)
    /\ rows' = (rows \ txn[s].gone) \union txn[s].added
    /\ txn' = [txn EXCEPT ![s] = Ended]
    /\ UNCHANGED <<kind, plan, titled, active, live>>

\* A statement fails: on a header that is gone, a number that is taken, a deadlock that
\* the database breaks, or for any other reason.
Rollback(s) ==
    /\ txn[s].pc # "ended"
    /\ Continue(s, Ended)

\* The checklist goes with its items, once nobody holds it, its items or new ones; the
\* template is only marked.
delete ==
    /\ live
    /\ live' = FALSE
    /\ IF kind = "CHECKLIST"
       THEN /\ \A s \in Requests : /\ ~ txn[s].locked
                                   /\ txn[s].gone = {} /\ txn[s].added = {}
            /\ rows' = {}
       ELSE UNCHANGED rows
    /\ UNCHANGED <<kind, plan, titled, active, txn>>

Next ==
    \/ \E s \in Requests :
          \/ Begin(s) \/ updateHeader(s) \/ Start(s) \/ deleteMany(s)
          \/ createItems(s) \/ createDay(s) \/ Commit(s) \/ Rollback(s)
    \/ delete

Spec == Init /\ [][Next]_vars

-----------------------------------------------------------------------------
(* Properties.                                                             *)

\* However edits overlap, fail and wait for each other, the rows a request leaves are
\* all that it wrote: no part of an edit is visible and none is half replaced.
Entire == \A r \in rows : RowsOf(r[1]) \subseteq rows

\* The rows are those of one request, although two edits at once each delete only what
\* they see: those of a checklist because both write its header first, if they name a
\* title; those of a template because the second finds a number taken, if they share
\* one.  Neither is so of edits in general.
OneRequest ==
    \/ kind = "CHECKLIST" /\ titled # Requests
    \/ kind = "TEMPLATE" /\ \E s, o \in Requests :
          s # o /\ plan[s] # {} /\ plan[o] # {} /\ plan[s] \intersect plan[o] = {}
    \/ \A r, q \in rows : r[1] = q[1]

=============================================================================
