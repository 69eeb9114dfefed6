---------------------------- MODULE TravelRecords ---------------------------
(***************************************************************************)
(* What travellers keep beside the plan of a trip: the link by which it is *)
(* shared (src/src/modules/itineraries), expenses (.../expenses) and       *)
(* journals (.../journals), all of one user here.                          *)
(*                                                                         *)
(* A request reads a row, looks at whose it is, and writes; nothing holds  *)
(* the row in between.  The three share nothing but the itinerary, so the  *)
(* requests of one behaviour are about one of them, its topic.             *)
(*                                                                         *)
(* Left out: texts, currencies, photos; the list of expenses, which is     *)
(* read as that of journals is.                                            *)
(***************************************************************************)
EXTENDS Integers, Sorting, FiniteSetsExt

CONSTANTS
    Owner, Friend, Admin,
    Tokens,                 \* of links: random, never drawn twice
    Expenses, Journals,     \* ids
    Categories, Amounts, Dates,
    limit,                  \* the page size
    Slots,                  \* requests in progress at the same time
    None

VARIABLES
    topic,
    itinerary,
    links,      \* the links the owner has been given; only a property reads it
    clash,      \* two requests have found no link at the same time; likewise
    expense,    \* table expenses
    journal,    \* table travel_journals
    meant,      \* each field of a row as the last request set it that named it; likewise
    inFlight    \* the requests, with what they have read

vars == <<topic, itinerary, links, clash, expense, journal, meant, inFlight>>

Topics == {"link", "expenses", "journals"}
ExpenseRow == [ofTrip : BOOLEAN, category : Categories, amount : Amounts]
JournalRow == [isPublic : BOOLEAN, date : Dates, deleted : BOOLEAN]
Idle == [pc |-> "idle", id |-> None, read |-> None]

TypeOK ==
    /\ topic \in Topics
    /\ itinerary \in [live : BOOLEAN, shareToken : Tokens \union {None}]
    /\ links \subseteq Tokens
    /\ clash \in BOOLEAN
    /\ expense \in [Expenses -> ExpenseRow \union {None}]
    /\ journal \in [Journals -> JournalRow \union {None}]
    /\ \A s \in Slots : inFlight[s] = Idle \/ inFlight[s] \in
           [pc : {"share"}, id : {None}, read : Tokens \union {None}]
           \union [pc : {"create"}, id : {None}, read : {None}]
           \union [pc : {"update", "delete"}, id : Expenses, read : ExpenseRow]
           \union [pc : {"update", "delete"}, id : Journals, read : JournalRow]

Init ==
    /\ topic \in Topics
    /\ itinerary = [live |-> TRUE, shareToken |-> None]
    /\ links = {}
    /\ clash = FALSE
    /\ expense = [e \in Expenses |-> None]
    /\ journal = [j \in Journals |-> None]
    /\ meant = [i \in Expenses \union Journals |-> None]
    /\ inFlight = [s \in Slots |-> Idle]

-----------------------------------------------------------------------------
\* The owner, or an administrator.
MayEdit(u) == u \in {Owner, Admin}

Begin(s, about, pc, id, read) ==
    /\ topic = about
    /\ inFlight[s] = Idle
    /\ inFlight' = [inFlight EXCEPT ![s] = [pc |-> pc, id |-> id, read |-> read]]
    /\ UNCHANGED <<topic, itinerary, expense, journal, meant>>

At(s, about, pc) == topic = about /\ inFlight[s].pc = pc

End(s) == inFlight' = [inFlight EXCEPT ![s] = Idle]

\* A row is set to a value, field by field.  What a request does not name stays as it is
\* in the table.
Named(row, new) == [f \in DOMAIN row |-> IF f \in DOMAIN new THEN new[f] ELSE row[f]]

\* Everything a request may name of these values.
Partly(Values) ==
    UNION {{[f \in fields |-> v[f]] : fields \in SUBSET (DOMAIN v \ {"ofTrip", "deleted"})} :
              v \in Values}

-----------------------------------------------------------------------------
(* The link of an itinerary.                                               *)

generateShareToken(s, u) ==
    /\ itinerary.live /\ MayEdit(u)
    /\ Begin(s, "link", "share", None, itinerary.shareToken)
    /\ clash' = (clash \/ \E o \in Slots : /\ inFlight[o].pc = "share" /\ inFlight[o].read = None
                                           /\ itinerary.shareToken = None)
    /\ UNCHANGED links

\* The one that was read, or a new one.
shareToken(s) == IF inFlight[s].read = None THEN Tokens \ links ELSE {inFlight[s].read}

\* Also of an itinerary that has been deleted meanwhile, which is only marked.
updateMasterData(s) ==
    /\ At(s, "link", "share")
    /\ \E t \in shareToken(s) :
          /\ itinerary' = [itinerary EXCEPT !.shareToken = t]
          /\ links' = links \union {t}
    /\ End(s)
    /\ UNCHANGED <<topic, clash, expense, journal, meant>>

deleteItinerary ==
    /\ topic # "journals" /\ itinerary.live
    /\ itinerary' = [itinerary EXCEPT !.live = FALSE]
    /\ UNCHANGED <<topic, links, clash, expense, journal, meant, inFlight>>

\* For anybody.
getSharedItinerary(t) == itinerary.live /\ itinerary.shareToken = t

-----------------------------------------------------------------------------
(* Expenses.                                                               *)

addItineraryExpense(s, u) ==
    /\ itinerary.live /\ MayEdit(u)
    /\ Begin(s, "expenses", "create", None, None)
    /\ UNCHANGED <<links, clash>>

SetExpense(e, row) ==
    /\ expense' = [expense EXCEPT ![e] = row]
    /\ UNCHANGED <<topic, itinerary, links, clash, journal>>

CreateExpense(e, row) ==
    /\ expense[e] = None /\ \A s \in Slots : inFlight[s].id # e
    /\ SetExpense(e, row)
    /\ meant' = [meant EXCEPT ![e] = row]

\* The itinerary may be deleted by now.
createExpense(s, e) ==
    /\ At(s, "expenses", "create")
    /\ \E row \in ExpenseRow : row.ofTrip /\ CreateExpense(e, row)
    /\ End(s)

createGeneralExpense(e) ==
    /\ topic = "expenses"
    /\ \E row \in ExpenseRow : CreateExpense(e, row)
    /\ UNCHANGED inFlight

EditExpense(s, u, e, pc) ==
    /\ expense[e] # None /\ MayEdit(u)
    /\ Begin(s, "expenses", pc, e, expense[e])
    /\ UNCHANGED <<links, clash>>

\* A row that is gone by now is not written, which is an error.
updateExpense(s) ==
    /\ At(s, "expenses", "update")
    /\ LET e == inFlight[s].id
       IN  \E new \in Partly(ExpenseRow) :
              IF expense[e] = None
              THEN UNCHANGED <<topic, itinerary, links, clash, expense, journal, meant>>
              ELSE /\ SetExpense(e, Named(expense[e], new))
                   /\ meant' = [meant EXCEPT ![e] = Named(@, new)]
    /\ End(s)

deleteExpense(s) ==
    /\ At(s, "expenses", "delete")
    /\ SetExpense(inFlight[s].id, None)
    /\ meant' = [meant EXCEPT ![inFlight[s].id] = None]
    /\ End(s)

\* Math.round of a quotient.
Rounded(a, b) == (2 * a + b) \div (2 * b)

\* getItineraryExpenses: in tenths of a percent.
OfTrip == {e \in Expenses : expense[e] # None /\ expense[e].ofTrip}
amountOf(rows) == FoldSet(LAMBDA e, sum : sum + expense[e].amount, 0, rows)
totalExpense == amountOf(OfTrip)
breakdown ==
    [c \in {expense[e].category : e \in OfTrip} |->
        LET total == amountOf({e \in OfTrip : expense[e].category = c})
        IN  [totalAmount |-> total,
             percentage |-> IF totalExpense > 0 THEN Rounded(1000 * total, totalExpense) ELSE 0]]

-----------------------------------------------------------------------------
(* Journals.                                                               *)

Exists(j) == journal[j] # None /\ ~ journal[j].deleted

SetJournal(j, row) ==
    /\ journal' = [journal EXCEPT ![j] = row]
    /\ UNCHANGED <<topic, itinerary, links, clash, expense>>

createJournal(j) ==
    /\ topic = "journals" /\ journal[j] = None
    /\ \E row \in JournalRow :
          ~ row.deleted /\ SetJournal(j, row) /\ meant' = [meant EXCEPT ![j] = row]
    /\ UNCHANGED inFlight

EditJournal(s, u, j, pc) ==
    /\ Exists(j) /\ MayEdit(u)
    /\ Begin(s, "journals", pc, j, journal[j])
    /\ UNCHANGED <<links, clash>>

\* Also one that has been deleted meanwhile, and stays so.
updateJournal(s) ==
    /\ At(s, "journals", "update")
    /\ LET j == inFlight[s].id
       IN  \E new \in Partly(JournalRow) :
              /\ SetJournal(j, Named(journal[j], new))
              /\ meant' = [meant EXCEPT ![j] = Named(@, new)]
    /\ End(s)

softDeleteJournal(s) ==
    /\ At(s, "journals", "delete")
    /\ LET j == inFlight[s].id
       IN  /\ SetJournal(j, [journal[j] EXCEPT !.deleted = TRUE])
           /\ meant' = [meant EXCEPT ![j].deleted = TRUE]
    /\ End(s)

getJournalById(u, j) == Exists(j) /\ (MayEdit(u) \/ journal[j].isPublic)

\* getJournals, all or only those that are public, latest first; the order of those with
\* one date may be different for every page.
findMany(public) == {j \in Journals : Exists(j) /\ (public => journal[j].isPublic)}
Orders(public) ==
    {o \in [1 .. Cardinality(findMany(public)) -> findMany(public)] :
        /\ IsInjective(o)
        /\ \A a, b \in DOMAIN o : a < b => journal[o[a]].date >= journal[o[b]].date}
\* Pages counted from zero.
Page_fromZero(order, page) == Rows(order, page * limit, limit)
Page(order, page) == Rows(order, (page - 1) * limit, limit)
totalPages(public) == Max({1, (Cardinality(findMany(public)) + limit - 1) \div limit})

Next ==
    \/ \E s \in Slots, u \in {Owner, Friend, Admin} :
          \/ generateShareToken(s, u)
          \/ addItineraryExpense(s, u)
          \/ \E pc \in {"update", "delete"} :
                \/ \E e \in Expenses : EditExpense(s, u, e, pc)
                \/ \E j \in Journals : EditJournal(s, u, j, pc)
    \/ \E s \in Slots :
          \/ updateMasterData(s)
          \/ (\E e \in Expenses : createExpense(s, e)) \/ updateExpense(s) \/ deleteExpense(s)
          \/ updateJournal(s) \/ softDeleteJournal(s)
    \/ deleteItinerary
    \/ \E e \in Expenses : createGeneralExpense(e)
    \/ \E j \in Journals : createJournal(j)

Spec == Init /\ [][Next]_vars

-----------------------------------------------------------------------------
(* Properties.                                                             *)

\* A link that was given opens the itinerary as long as that is there, whoever asks for
\* one again; where two requests have found none at the same time, one link does.
LinksOpen ==
    itinerary.live =>
        /\ ~ clash => \A t \in links : getSharedItinerary(t)
        /\ links # {} => \E t \in links : getSharedItinerary(t)

\* Overlapping edits take nothing of each other back: each field is as the last request
\* set it that named it, and a journal that was deleted during an edit stays deleted.
NothingTakenBack ==
    /\ \A e \in Expenses : topic = "expenses" => expense[e] = meant[e]
    /\ \A j \in Journals : topic = "journals" => journal[j] = meant[j]

\* The categories of a summary add up to its total, and their percentages to a hundred,
\* but for half a tenth each that is lost by rounding.
overAll(field) == FoldSet(LAMBDA c, sum : sum + breakdown[c][field], 0, DOMAIN breakdown)
SummaryAddsUp ==
    LET off == IF totalExpense = 0 THEN 0 ELSE overAll("percentage") - 1000
    IN  /\ overAll("totalAmount") = totalExpense
        /\ 2 * Max({off, - off}) <= Cardinality(DOMAIN breakdown)

\* Going through the pages of a list while nothing changes a reader finds it latest first
\* and, if no two journals have one date, each of them once.
PagesAddUp ==
    \A public \in BOOLEAN : \A orders \in [1 .. totalPages(public) -> Orders(public)] :
        LET page(k) == Page(orders[k], k)
            places == UNION {{k} \X DOMAIN page(k) : k \in DOMAIN orders}
            date(p) == journal[page(p[1])[p[2]]].date
        IN  /\ \A p, q \in places :
                  p[1] < q[1] \/ (p[1] = q[1] /\ p[2] < q[2]) => date(p) >= date(q)
            /\ (\A a, b \in findMany(public) : journal[a].date = journal[b].date => a = b)
                  => \A j \in findMany(public) :
                        Cardinality({p \in places : page(p[1])[p[2]] = j}) = 1

=============================================================================
