------------------------- MODULE TripSessionProofs -------------------------
(* Proofs about TripSession, for any number of itineraries, users,          *)
(* activities, sessions and days: what holds in its states, then what its   *)
(* steps may do (the record of a trip, the order of its rows), and that     *)
(* sessions implement TripLifecycle.                                        *)
EXTENDS TripSession, FiniteSetTheorems, TLAPS

ItemTable == [Activities -> [itin : Itineraries \union {None},
                             day : Nat, idx : Nat, done : BOOLEAN]]
Rows == [Activities -> [status : RowStatus, idx : Nat]]
SessionRecord == [itin : Itineraries \union {None}, status : SessionStatus,
                  ended : BOOLEAN, current : Activities \union {None}]

\* What IInv says of one session, its rows and the itinerary items.
Fits(rec, rows, table) ==
    /\ rec.status = "ACTIVE" =>
          /\ Present(rows) = ItemsOf(table, rec.itin)
          /\ \/ rec.current \in Present(rows)
             \/ rec.current = None /\ Present(rows) = {}
          /\ Present(rows) = {} \/ Unfinished(rows) # {}
          /\ ~ rec.ended
    /\ rec.status = "CANCELLED" => rec.ended /\ rec.current = None

\* A set of activities has a natural number of members.
LEMMA CountType ==
    ASSUME NEW S, S \subseteq Activities
    PROVE  Cardinality(S) \in Nat
<1>1. IsFiniteSet(Activities)
  BY FS_Interval, BoundsAssumption DEF Activities
<1> QED
  BY <1>1, FS_Subset, FS_CardinalityType

\* The places of a listing of activities are natural numbers.
LEMMA ListingType ==
    ASSUME NEW table, NEW P, P \subseteq Activities, NEW r \in Listings(table, P)
    PROVE  \A a \in P : r[a] \in Nat
<1>1. r \in [P -> 0 .. Cardinality(P) - 1]
  BY DEF Listings
<1>2. Cardinality(P) \in Nat
  BY CountType
<1> QED
  BY <1>1, <1>2

\* IInv, one session at a time.
LEMMA IInvBySession ==
    IInv <=> /\ TypeOK
             /\ References
             /\ OneActiveTrip
             /\ \A s \in Sessions : Fits(session[s], progress[s], item)
<1> QED
  BY DEF IInv, ActiveMirrorsPlan, CurrentNotDeleted, NotStranded, EndStamps, Fits

\* A step that makes no session ACTIVE keeps a user to one.
LEMMA FewerActive ==
    ASSUME OneActiveTrip,
           \A s \in Sessions : session'[s].status = "ACTIVE" =>
               session[s].status = "ACTIVE" /\ session'[s].itin = session[s].itin
    PROVE  OneActiveTrip'
BY DEF OneActiveTrip, ActiveOf

\* The empty tables are well-formed and hold no session.
LEMMA InitIInv == Init => IInv
<1> SUFFICES ASSUME Init PROVE IInv
  OBVIOUS
<1>1. TypeOK
  BY BoundsAssumption DEF Init, TypeOK, ItinState, SessionStatus, RowStatus, NoItem, NoRow, NoSession
<1>2. References
  BY DEF Init, References, NoItem, NoSession
<1>3. OneActiveTrip
  BY DEF Init, OneActiveTrip, ActiveOf, NoSession
<1>4. \A s \in Sessions : Fits(session[s], progress[s], item)
  BY DEF Init, Fits, NoSession
<1> QED
  BY <1>1, <1>2, <1>3, <1>4, IInvBySession

-----------------------------------------------------------------------------
(* Reconciliation.                                                         *)

\* An ACTIVE session that follows another itinerary keeps its rows when i is
\* edited: the cascade only reaches rows of items that are gone.
LEMMA CascadeElsewhere ==
    ASSUME IInv, NEW i \in Itineraries, item' \in ItemTable,
           \A a \in Activities, j \in Itineraries :
               j # i => (item'[a].itin = j <=> item[a].itin = j),
           NEW s \in Sessions, session[s].status = "ACTIVE" => session[s].itin # i
    PROVE  /\ CascadeRows(item')[s] \in Rows
           /\ Fits(session[s], CascadeRows(item')[s], item')
<1> DEFINE rows == CascadeRows(item')[s]
<1>1. rows = [a \in Activities |-> IF item'[a].itin = None THEN NoRow ELSE progress[s][a]]
  BY DEF CascadeRows
<1>2. progress[s] \in Rows
  BY DEF IInv, TypeOK, Rows
<1>3. rows \in Rows
  BY <1>1, <1>2 DEF Rows, NoRow, RowStatus
<1>4. CASE session[s].status = "ACTIVE"
  <2> DEFINE j == session[s].itin
  <2>1. j \in Itineraries /\ j # i
    BY <1>4 DEF IInv, TypeOK, References
  <2>2. Present(progress[s]) = ItemsOf(item, j)
    BY <1>4 DEF IInv, ActiveMirrorsPlan
  <2>3. ItemsOf(item, j) = ItemsOf(item', j)
    BY <2>1 DEF ItemsOf
  <2>4. \A a \in Activities : rows[a].status = progress[s][a].status
    BY <1>1, <2>1, <2>2, <2>3, NoneAssumption DEF Present, ItemsOf, NoRow
  <2>5. Present(rows) = Present(progress[s]) /\ Unfinished(rows) = Unfinished(progress[s])
    BY <2>4 DEF Present, Unfinished
  <2>6. Fits(session[s], progress[s], item)
    BY IInvBySession
  <2> QED
    BY <1>3, <1>4, <2>2, <2>3, <2>5, <2>6 DEF Fits
<1>5. CASE session[s].status # "ACTIVE"
  BY <1>3, <1>5, IInvBySession DEF Fits
<1> QED
  BY <1>4, <1>5

\* The rows that steps 1 and 2 of the reconciliation leave are those of the
\* itinerary's items.
LEMMA ReconciledRowsFit ==
    ASSUME NEW rows \in Rows, NEW table \in ItemTable, NEW i \in Itineraries,
           NEW r \in Listings(table, ItemsOf(table, i))
    PROVE  /\ ReconciledRows(rows, table, i, r) \in Rows
           /\ Present(ReconciledRows(rows, table, i, r)) = ItemsOf(table, i)
<1>1. \A a \in ItemsOf(table, i) : r[a] \in Nat
  <2>1. ItemsOf(table, i) \subseteq Activities
    BY DEF ItemsOf
  <2> QED
    BY <2>1, ListingType
<1> QED
  BY <1>1 DEF ReconciledRows, Rows, RowStatus, NoRow, Present, ItemsOf

\* Promoting an unfinished row changes neither which rows are there nor which
\* of them are finished.
LEMMA PromoteUnfinished ==
    ASSUME NEW rows \in Rows, NEW n \in Unfinished(rows) \union {None}
    PROVE  /\ Promote(rows, n) \in Rows
           /\ Present(Promote(rows, n)) = Present(rows)
           /\ Unfinished(Promote(rows, n)) = Unfinished(rows)
<1>1. CASE n = None
  BY <1>1 DEF Promote
<1>2. CASE n # None
  <2>1. Promote(rows, n) = [rows EXCEPT ![n].status = "IN_PROGRESS"]
    BY <1>2 DEF Promote
  <2>2. n \in Activities /\ rows[n].status \in {"NOT_STARTED", "IN_PROGRESS"}
    BY <1>2 DEF Unfinished
  <2>3. Promote(rows, n) \in Rows
    BY <2>1, <2>2 DEF Rows, RowStatus
  <2>4. \A a \in Activities : Promote(rows, n)[a].status =
            IF a = n THEN "IN_PROGRESS" ELSE rows[a].status
    BY <2>1, <2>2 DEF Rows
  <2> QED
    BY <2>2, <2>3, <2>4 DEF Present, Unfinished
<1> QED
  BY <1>1, <1>2

\* What an edit of an itinerary does to the sessions, once reconciled: none
\* begins, none changes its itinerary, and each fits its itinerary's items.
Carried ==
    /\ session' \in [Sessions -> SessionRecord]
    /\ progress' \in [Sessions -> Rows]
    /\ \A s \in Sessions :
          /\ session[s].status = "NONE" => session'[s] = session[s]
          /\ session[s].status # "NONE" => session'[s].status # "NONE"
          /\ session'[s].itin = session[s].itin
          /\ session'[s].status = "ACTIVE" => session[s].status = "ACTIVE"
          /\ Fits(session'[s], progress'[s], item')

\* A reconciliation carries the invariant over an edit.
LEMMA ReconcileCarries ==
    ASSUME IInv, NEW i \in Itineraries, item' \in ItemTable,
           \A a \in Activities, j \in Itineraries :
               j # i => (item'[a].itin = j <=> item[a].itin = j),
           reconcileItineraryChange(i)
    PROVE  Carried
<1>1. session \in [Sessions -> SessionRecord] /\ progress \in [Sessions -> Rows]
  BY DEF IInv, TypeOK, SessionRecord, Rows
<1>2. \A s \in Sessions : ~ (session[s].status = "ACTIVE" /\ session[s].itin = i) =>
          /\ CascadeRows(item')[s] \in Rows
          /\ Fits(session[s], CascadeRows(item')[s], item')
  BY CascadeElsewhere
<1>3. CascadeRows(item') = [s \in Sessions |-> CascadeRows(item')[s]]
  BY DEF CascadeRows
<1>4. CASE ActiveOn(i) = {}
  <2>1. progress' = CascadeRows(item') /\ session' = session
    BY <1>4 DEF reconcileItineraryChange
  <2>2. \A s \in Sessions : ~ (session[s].status = "ACTIVE" /\ session[s].itin = i)
    BY <1>4 DEF ActiveOn
  <2> QED
    BY <1>1, <1>2, <1>3, <2>1, <2>2 DEF Carried
<1>5. CASE ActiveOn(i) # {}
  <2>1. PICK s0 \in Sessions, n \in Activities \union {None},
             r \in Listings(item', ItemsOf(item', i)) :
          LET rows == ReconciledRows(progress[s0], item', i, r)
              kept == session[s0].current \in ItemsOf(item', i)
              next == IF kept THEN session[s0].current ELSE n
          IN  /\ IsNewest(ActiveOn(i), s0)
              /\ IF kept THEN n = None ELSE IsFirst(rows, Unfinished(rows), n)
              /\ progress' = [CascadeRows(item') EXCEPT ![s0] = Promote(rows, n)]
              /\ session' = [session EXCEPT ![s0] =
                    [itin |-> i, current |-> next, ended |-> AllDone(rows),
                     status |-> IF AllDone(rows) THEN "COMPLETED" ELSE "ACTIVE"]]
    BY <1>5 DEF reconcileItineraryChange
  <2> DEFINE rows == ReconciledRows(progress[s0], item', i, r)
             kept == session[s0].current \in ItemsOf(item', i)
             next == IF kept THEN session[s0].current ELSE n
  <2>2. session[s0].status = "ACTIVE" /\ session[s0].itin = i
    BY <2>1 DEF IsNewest, ActiveOn
  <2>3. \A s \in Sessions \ {s0} : ~ (session[s].status = "ACTIVE" /\ session[s].itin = i)
    BY <2>2, OwnerAssumption DEF IInv, OneActiveTrip, ActiveOf
  <2>4. /\ rows \in Rows
        /\ Present(rows) = ItemsOf(item', i)
    BY <1>1, ReconciledRowsFit
  <2>5. n \in Unfinished(rows) \union {None}
    BY <2>1 DEF IsFirst
  <2>6. /\ Promote(rows, n) \in Rows
        /\ Present(Promote(rows, n)) = ItemsOf(item', i)
        /\ Unfinished(Promote(rows, n)) = Unfinished(rows)
    BY <2>4, <2>5, PromoteUnfinished
  <2>7. next \in Activities \union {None}
    BY <1>1, <2>1 DEF SessionRecord
  <2>8. session'[s0] = [itin |-> i, current |-> next, ended |-> AllDone(rows),
                        status |-> IF AllDone(rows) THEN "COMPLETED" ELSE "ACTIVE"]
    BY <1>1, <2>1
  <2>9. progress'[s0] = Promote(rows, n)
    BY <1>3, <2>1
  <2>10. AllDone(rows) \in BOOLEAN
    BY DEF AllDone
  <2>11. /\ session'[s0] \in SessionRecord
         /\ session'[s0].itin = i
         /\ session'[s0].current = next
         /\ session'[s0].status = IF AllDone(rows) THEN "COMPLETED" ELSE "ACTIVE"
         /\ session'[s0].ended = AllDone(rows)
    BY <1>1, <2>2, <2>7, <2>8, <2>10 DEF SessionRecord, SessionStatus
  <2>12. next \in Present(rows) \/ (next = None /\ Unfinished(rows) = {})
    <3>1. CASE kept
      BY <2>4, <3>1
    <3>2. CASE ~ kept
      <4>1. IsFirst(rows, Unfinished(rows), n) /\ next = n
        BY <2>1, <3>2
      <4> QED
        BY <4>1 DEF IsFirst, Unfinished, Present
    <3> QED
      BY <3>1, <3>2
  <2>13. Fits(session'[s0], progress'[s0], item')
    BY <2>4, <2>6, <2>9, <2>11, <2>12 DEF Fits, AllDone
  <2>14. \A s \in Sessions \ {s0} : session'[s] = session[s] /\ progress'[s] = CascadeRows(item')[s]
    BY <1>1, <1>3, <2>1
  <2>15. \A s \in Sessions : session'[s] \in SessionRecord /\ progress'[s] \in Rows
    BY <1>1, <1>2, <2>3, <2>6, <2>9, <2>11, <2>14
  <2>16. session' \in [Sessions -> SessionRecord] /\ progress' \in [Sessions -> Rows]
    <3>1. session' = [s \in Sessions |-> session'[s]] /\ progress' = [s \in Sessions |-> progress'[s]]
      BY <1>1, <1>3, <2>1
    <3> QED
      BY <2>15, <3>1
  <2>17. ASSUME NEW s \in Sessions
         PROVE  /\ session[s].status = "NONE" => session'[s] = session[s]
                /\ session[s].status # "NONE" => session'[s].status # "NONE"
                /\ session'[s].itin = session[s].itin
                /\ session'[s].status = "ACTIVE" => session[s].status = "ACTIVE"
                /\ Fits(session'[s], progress'[s], item')
    BY <1>2, <2>2, <2>3, <2>11, <2>13, <2>14
  <2> QED
    BY <2>16, <2>17 DEF Carried
<1> QED
  BY <1>4, <1>5

-----------------------------------------------------------------------------
(* The steps, one by one.  All but startTrip leave the tables well-formed   *)
(* and carry the sessions along.                                           *)

TablesFit ==
    /\ itin' \in [Itineraries -> [state : ItinState, days : Nat]]
    /\ item' \in ItemTable
    /\ lastItem' \in Nat
    /\ \A i \in Itineraries : Exists(i) => itin'[i].state # "absent"
    /\ \A a \in Activities :
          /\ item'[a].itin # None => itin'[item'[a].itin].state # "absent"
          /\ a > lastItem' => item'[a] = NoItem

\* Such a step preserves the invariant.
LEMMA CarriedIInv ==
    ASSUME IInv, TablesFit, Carried
    PROVE  IInv'
<1>1. TypeOK'
  BY DEF TablesFit, Carried, TypeOK, ItemTable, SessionRecord, Rows
<1>2. References'
  <2>1. ASSUME NEW s \in Sessions
        PROVE  IF session'[s].status = "NONE" THEN session'[s] = NoSession
               ELSE session'[s].itin # None /\ itin'[session'[s].itin].state # "absent"
    <3>1. CASE session[s].status = "NONE"
      BY <3>1 DEF Carried, IInv, References
    <3>2. CASE session[s].status # "NONE"
      <4>1. session[s].itin \in Itineraries /\ Exists(session[s].itin)
        BY <3>2 DEF IInv, TypeOK, References
      <4>2. session'[s].itin = session[s].itin /\ session'[s].status # "NONE"
        BY <3>2 DEF Carried
      <4> QED
        BY <4>1, <4>2, NoneAssumption DEF TablesFit
    <3> QED
      BY <3>1, <3>2
  <2> QED
    BY <2>1 DEF TablesFit, References, Exists
<1>3. OneActiveTrip'
  BY FewerActive DEF Carried, IInv
<1>4. \A s \in Sessions : Fits(session[s], progress[s], item)'
  BY DEF Carried
<1> QED
  BY <1>1, <1>2, <1>3, <1>4
  DEF IInv, ActiveMirrorsPlan, CurrentNotDeleted, NotStranded, EndStamps, Fits

\* A step that leaves sessions alone, or closes some, carries them along when
\* the items of every itinerary stay the same.
LEMMA LeftAlone ==
    ASSUME IInv,
           \A a \in Activities, s \in Sessions :
               session[s].status = "ACTIVE" =>
                   (item'[a].itin = session[s].itin <=> item[a].itin = session[s].itin),
           progress' = progress,
           session' \in [Sessions -> SessionRecord],
           \A s \in Sessions :
               \/ session'[s] = session[s]
               \/ session[s].status # "NONE" /\ \E st \in {"COMPLETED", "CANCELLED"} :
                      session'[s] = CloseSession(s, st)
    PROVE  Carried
<1>1. progress' \in [Sessions -> Rows]
  BY DEF IInv, TypeOK, Rows
<1>2. ASSUME NEW s \in Sessions
      PROVE  /\ session[s].status = "NONE" => session'[s] = session[s]
             /\ session[s].status # "NONE" => session'[s].status # "NONE"
             /\ session'[s].itin = session[s].itin
             /\ session'[s].status = "ACTIVE" => session[s].status = "ACTIVE"
             /\ Fits(session'[s], progress'[s], item')
  <2>1. CASE session'[s] = session[s]
    <3>1. Fits(session[s], progress[s], item)
      BY IInvBySession
    <3>2. session[s].status = "ACTIVE" =>
             ItemsOf(item', session[s].itin) = ItemsOf(item, session[s].itin)
      BY DEF ItemsOf
    <3> QED
      BY <2>1, <3>1, <3>2 DEF Fits
  <2>2. CASE session[s].status # "NONE" /\ \E st \in {"COMPLETED", "CANCELLED"} :
                 session'[s] = CloseSession(s, st)
    BY <2>2 DEF CloseSession, Fits
  <2> QED
    BY <2>1, <2>2
<1> QED
  BY <1>1, <1>2 DEF Carried

\* createWithTransaction keeps it: a new plan has no session yet.
LEMMA create_Step ==
    ASSUME IInv, NEW i \in Itineraries, createWithTransaction(i)
    PROVE  TablesFit /\ Carried
<1>1. PICK n \in 0 .. (MaxActivities - lastItem), d \in 1 .. MaxDays :
        LET new == (lastItem + 1) .. (lastItem + n) IN
        \E dayOf \in [new -> 1 .. d], sent \in [new -> Indices \union {None}],
           completed \in SUBSET new :
          /\ item' = [a \in Activities |->
                IF a \in new
                THEN [itin |-> i, day |-> dayOf[a],
                      idx |-> IF sent[a] # None THEN sent[a]
                              ELSE Cardinality({b \in new : b < a /\ dayOf[b] = dayOf[a]}),
                      done |-> a \in completed]
                ELSE item[a]]
          /\ itin' = [j \in Itineraries |->
                IF j = i THEN [state |-> "live", days |-> d]
                ELSE IF Owner[j] = Owner[i] /\ itin[j].state = "live"
                     THEN [itin[j] EXCEPT !.state = "archived"]
                     ELSE itin[j]]
          /\ lastItem' = lastItem + n
  BY DEF createWithTransaction
<1> DEFINE new == (lastItem + 1) .. (lastItem + n)
<1>2. PICK dayOf \in [new -> 1 .. d], sent \in [new -> Indices \union {None}],
           completed \in SUBSET new :
          /\ item' = [a \in Activities |->
                IF a \in new
                THEN [itin |-> i, day |-> dayOf[a],
                      idx |-> IF sent[a] # None THEN sent[a]
                              ELSE Cardinality({b \in new : b < a /\ dayOf[b] = dayOf[a]}),
                      done |-> a \in completed]
                ELSE item[a]]
          /\ itin' = [j \in Itineraries |->
                IF j = i THEN [state |-> "live", days |-> d]
                ELSE IF Owner[j] = Owner[i] /\ itin[j].state = "live"
                     THEN [itin[j] EXCEPT !.state = "archived"]
                     ELSE itin[j]]
          /\ lastItem' = lastItem + n
  BY <1>1
<1>3. lastItem \in Nat /\ n \in Nat /\ d \in Nat
  BY BoundsAssumption DEF IInv, TypeOK
<1> DEFINE index(a) == IF sent[a] # None THEN sent[a]
                       ELSE Cardinality({b \in new : b < a /\ dayOf[b] = dayOf[a]})
<1>4. \A a \in new : index(a) \in Nat
  <2>1. IsFiniteSet(new)
    BY <1>3, FS_Interval
  <2>2. \A a \in new : Cardinality({b \in new : b < a /\ dayOf[b] = dayOf[a]}) \in Nat
    BY <2>1, FS_Subset, FS_CardinalityType
  <2>3. \A a \in new : sent[a] # None => sent[a] \in Nat
    BY IndicesAssumption
  <2> QED
    BY <2>2, <2>3
<1>5. item' \in ItemTable
  <2>1. ASSUME NEW a \in Activities
        PROVE  item'[a] \in [itin : Itineraries \union {None}, day : Nat, idx : Nat, done : BOOLEAN]
    <3>1. CASE a \in new
      <4>1. item'[a] = [itin |-> i, day |-> dayOf[a], idx |-> index(a), done |-> a \in completed]
        BY <1>2, <3>1
      <4>2. dayOf[a] \in Nat /\ (a \in completed) \in BOOLEAN
        BY <1>3, <3>1
      <4> HIDE DEF index
      <4> QED
        BY <1>4, <3>1, <4>1, <4>2
    <3>2. CASE a \notin new
      BY <1>2, <3>2 DEF IInv, TypeOK
    <3> QED
      BY <3>1, <3>2
  <2> QED
    BY <1>2, <2>1 DEF ItemTable
<1>6. itin' \in [Itineraries -> [state : ItinState, days : Nat]]
  BY <1>2, <1>3 DEF IInv, TypeOK, ItinState
<1>7. \A j \in Itineraries : Exists(j) => itin'[j].state # "absent"
  BY <1>2 DEF Exists, IInv, TypeOK
<1>8. itin'[i].state # "absent"
  BY <1>2
<1>9. TablesFit
  <2>1. ASSUME NEW a \in Activities
        PROVE  /\ item'[a].itin # None => itin'[item'[a].itin].state # "absent"
               /\ a > lastItem' => item'[a] = NoItem
    BY <1>2, <1>3, <1>7, <1>8 DEF IInv, TypeOK, References, Activities
  <2>2. lastItem' \in Nat
    BY <1>2, <1>3
  <2> QED
    BY <1>5, <1>6, <1>7, <2>1, <2>2 DEF TablesFit
<1>10. \A a \in Activities, s \in Sessions :
          session[s].status = "ACTIVE" =>
              (item'[a].itin = session[s].itin <=> item[a].itin = session[s].itin)
  <2> SUFFICES ASSUME NEW a \in Activities, NEW s \in Sessions, session[s].status = "ACTIVE"
               PROVE  item'[a].itin = session[s].itin <=> item[a].itin = session[s].itin
    OBVIOUS
  <2>1. session[s].itin # i /\ session[s].itin # None
    BY DEF IInv, References, createWithTransaction, Exists
  <2>2. CASE a \in new
    BY <1>2, <1>3, <2>1, <2>2 DEF IInv, References, NoItem, Activities
  <2>3. CASE a \notin new
    BY <1>2, <2>3
  <2> QED
    BY <2>2, <2>3
<1>11. Carried
  BY <1>10, LeftAlone DEF createWithTransaction, IInv, TypeOK, SessionRecord
<1> QED
  BY <1>9, <1>11

\* addDay: no activity is added.
LEMMA addDay_Step ==
    ASSUME IInv, NEW i \in Itineraries, addDay(i)
    PROVE  TablesFit /\ Carried
<1>1. itin' \in [Itineraries -> [state : ItinState, days : Nat]]
  <2>1. itin[i].days + 1 \in Nat
    BY DEF IInv, TypeOK
  <2> QED
    BY <2>1 DEF addDay, IInv, TypeOK
<1>2. \A j \in Itineraries : itin'[j].state = itin[j].state
  BY DEF addDay, IInv, TypeOK
<1>3. TablesFit
  BY <1>1, <1>2 DEF addDay, IInv, TypeOK, References, TablesFit, ItemTable, Exists
<1>4. Carried
  BY LeftAlone DEF addDay, IInv, TypeOK, SessionRecord
<1> QED
  BY <1>3, <1>4

\* An edit that keeps every item in its itinerary or removes it.
LEMMA EditFits ==
    ASSUME IInv, NEW i \in Itineraries, Exists(i),
           item' \in ItemTable, UNCHANGED <<itin, lastItem>>,
           \A a \in Activities :
               \/ item'[a].itin = item[a].itin /\ (item[a].itin = None => item'[a] = item[a])
               \/ item[a].itin = i /\ item'[a] = NoItem
    PROVE  /\ TablesFit
           /\ \A a \in Activities, j \in Itineraries :
                  j # i => (item'[a].itin = j <=> item[a].itin = j)
<1>1. \A a \in Activities :
          /\ item'[a].itin # None => itin'[item'[a].itin].state # "absent"
          /\ a > lastItem' => item'[a] = NoItem
  <2> SUFFICES ASSUME NEW a \in Activities
               PROVE  /\ item'[a].itin # None => itin'[item'[a].itin].state # "absent"
                      /\ a > lastItem' => item'[a] = NoItem
    OBVIOUS
  <2>1. /\ item[a].itin # None => Exists(item[a].itin)
        /\ a > lastItem => item[a] = NoItem
    BY DEF IInv, References
  <2>2. NoItem.itin = None
    BY DEF NoItem
  <2>3. a > lastItem' => item'[a] = NoItem
    BY <2>1, <2>2
  <2> QED
    BY <2>1, <2>2, <2>3 DEF Exists
<1>2. TablesFit
  BY <1>1 DEF TablesFit, IInv, TypeOK, Exists
<1>3. \A a \in Activities, j \in Itineraries :
          j # i => (item'[a].itin = j <=> item[a].itin = j)
  BY NoneAssumption DEF NoItem
<1> QED
  BY <1>2, <1>3

\* addActivity: the reconciliation adds the row.
LEMMA addActivity_Step ==
    ASSUME IInv, NEW i \in Itineraries, NEW d \in 1 .. MaxDays, addActivity(i, d)
    PROVE  TablesFit /\ Carried
<1>1. PICK k \in Indices \union {0} \union {item[b].idx + 1 : b \in DayItems(item, i, d)} :
          item' = [item EXCEPT ![lastItem + 1] =
                      [itin |-> i, day |-> d, idx |-> k, done |-> FALSE]]
  BY DEF addActivity
<1>2. lastItem \in Nat /\ lastItem + 1 \in Activities /\ k \in Nat /\ d \in Nat
  <2>1. k \in Nat
    BY IndicesAssumption DEF DayItems, ItemsOf, IInv, TypeOK
  <2> QED
    BY <2>1, BoundsAssumption DEF IInv, TypeOK, addActivity, Activities
<1>3. item[lastItem + 1] = NoItem
  BY <1>2 DEF IInv, References
<1>4. item' \in ItemTable
  BY <1>1, <1>2 DEF IInv, TypeOK, ItemTable
<1>5. \A a \in Activities : a # lastItem + 1 => item'[a] = item[a]
  BY <1>1 DEF IInv, TypeOK
<1>6. item'[lastItem + 1].itin = i
  BY <1>1, <1>2 DEF IInv, TypeOK
<1>7. lastItem' = lastItem + 1 /\ itin' = itin /\ Exists(i)
  BY DEF addActivity
<1>8. \A a \in Activities :
          /\ item'[a].itin # None => itin'[item'[a].itin].state # "absent"
          /\ a > lastItem' => item'[a] = NoItem
  BY <1>2, <1>5, <1>6, <1>7 DEF IInv, References, Exists, Activities
<1>9. TablesFit
  BY <1>2, <1>4, <1>7, <1>8 DEF TablesFit, IInv, TypeOK, Exists
<1>10. \A a \in Activities, j \in Itineraries :
          j # i => (item'[a].itin = j <=> item[a].itin = j)
  BY <1>3, <1>5, <1>6, NoneAssumption DEF NoItem
<1>11. Carried
  BY <1>4, <1>10, ReconcileCarries DEF addActivity
<1> QED
  BY <1>9, <1>11

\* updateActivity: the activity stays where it is.
LEMMA updateActivity_Step ==
    ASSUME IInv, NEW a \in Activities, updateActivity(a)
    PROVE  TablesFit /\ Carried
<1> DEFINE i == item[a].itin
<1>1. i \in Itineraries /\ Exists(i)
  BY DEF IInv, TypeOK, References, updateActivity
<1>0. PICK done \in BOOLEAN : item' = [item EXCEPT ![a].done = done]
  BY DEF updateActivity
<1>2. item' \in ItemTable
  BY <1>0 DEF IInv, TypeOK, ItemTable
<1>3. \A b \in Activities :
          item'[b].itin = item[b].itin /\ (item[b].itin = None => item'[b] = item[b])
  BY <1>0 DEF updateActivity, IInv, TypeOK
<1>4. /\ TablesFit
      /\ \A b \in Activities, j \in Itineraries :
             j # i => (item'[b].itin = j <=> item[b].itin = j)
  <2> HIDE DEF i
  <2> QED
    BY <1>1, <1>2, <1>3, EditFits DEF updateActivity
<1>5. reconcileItineraryChange(i)
  BY DEF updateActivity
<1> HIDE DEF i
<1> QED
  BY <1>1, <1>2, <1>4, <1>5, ReconcileCarries

\* deleteActivity: its rows go with it.
LEMMA deleteActivity_Step ==
    ASSUME IInv, NEW a \in Activities, deleteActivity(a)
    PROVE  TablesFit /\ Carried
<1> DEFINE i == item[a].itin
           rest == DayItems(item, i, item[a].day) \ {a}
<1>1. i \in Itineraries /\ Exists(i)
  BY DEF IInv, TypeOK, References, deleteActivity
<1>2. PICK r \in Listings(item, rest) :
          item' = [b \in Activities |->
            IF b = a THEN NoItem
            ELSE IF b \in rest THEN [item[b] EXCEPT !.idx = r[b]] ELSE item[b]]
  BY DEF deleteActivity
<1>3. \A b \in rest : r[b] \in Nat
  <2>1. rest \subseteq Activities
    BY DEF DayItems, ItemsOf
  <2> QED
    BY <2>1, ListingType
<1>4. \A b \in rest : item[b].itin = i
  BY DEF DayItems, ItemsOf
<1> HIDE DEF i, rest
<1>5. item' \in ItemTable
  BY <1>2, <1>3 DEF IInv, TypeOK, ItemTable, NoItem
<1>6. \A b \in Activities :
          \/ item'[b].itin = item[b].itin /\ (item[b].itin = None => item'[b] = item[b])
          \/ item[b].itin = i /\ item'[b] = NoItem
  BY <1>1, <1>2, <1>4, NoneAssumption DEF i, IInv, TypeOK
<1>7. UNCHANGED <<itin, lastItem>> /\ reconcileItineraryChange(i)
  BY DEF deleteActivity, i
<1> QED
  BY <1>1, <1>5, <1>6, <1>7, EditFits, ReconcileCarries

\* New indices of some activities of an itinerary leave each where it is.
LEMMA ReindexedFits ==
    ASSUME IInv, NEW i \in Itineraries, NEW P, P \subseteq ItemsOf(item, i),
           NEW f, \A a \in P : f[a] \in Nat, item' = Reindexed(P, f),
           UNCHANGED <<itin, lastItem>>, Exists(i), reconcileItineraryChange(i)
    PROVE  TablesFit /\ Carried
<1>1. item' = [a \in Activities |->
          IF a \in P THEN [item[a] EXCEPT !.idx = f[a]] ELSE item[a]]
  BY DEF Reindexed
<1>2. \A a \in P : item[a].itin = i
  BY DEF ItemsOf
<1>3. item' \in ItemTable
  BY <1>1 DEF IInv, TypeOK, ItemTable
<1>4. \A a \in Activities :
          item'[a].itin = item[a].itin /\ (item[a].itin = None => item'[a] = item[a])
  BY <1>1, <1>2, NoneAssumption DEF IInv, TypeOK
<1> QED
  BY <1>3, <1>4, EditFits, ReconcileCarries

\* reorderActivities: indices change, activities do not.
LEMMA reorderActivities_Step ==
    ASSUME IInv, NEW i \in Itineraries, NEW d \in 1 .. MaxDays, reorderActivities(i, d)
    PROVE  TablesFit /\ Carried
<1>1. PICK P \in SUBSET DayItems(item, i, d) \ {{}} :
          \E f \in [P -> Indices] : item' = Reindexed(P, f)
  BY DEF reorderActivities
<1>4. PICK f \in [P -> Indices] : item' = Reindexed(P, f)
  BY <1>1
<1>2. \A a \in P : f[a] \in Nat
  BY IndicesAssumption
<1>3. P \subseteq ItemsOf(item, i)
  BY DEF DayItems
<1> QED
  BY <1>2, <1>3, <1>4, ReindexedFits DEF reorderActivities

\* optimizeRoute: the same for the days it optimizes.
LEMMA optimizeRoute_Step ==
    ASSUME IInv, NEW i \in Itineraries, optimizeRoute(i)
    PROVE  TablesFit /\ Carried
<1>1. PICK D \in {1 .. itin[i].days} \union {{d} : d \in 1 .. itin[i].days},
           P \in SUBSET ItemsOf(item, i) :
          \E f \in [P -> 0 .. Cardinality(P) - 1] : item' = Reindexed(P, f)
  BY DEF optimizeRoute
<1>2. PICK f \in [P -> 0 .. Cardinality(P) - 1] : item' = Reindexed(P, f)
  BY <1>1
<1>3. P \subseteq ItemsOf(item, i) /\ P \subseteq Activities
  BY DEF ItemsOf
<1>4. \A a \in P : f[a] \in Nat
  BY <1>3, CountType
<1>5. Exists(i) /\ UNCHANGED <<itin, lastItem>> /\ reconcileItineraryChange(i)
  BY DEF optimizeRoute, Exists
<1> QED
  BY <1>2, <1>3, <1>4, <1>5, ReindexedFits

\* Cancelling all sessions of an itinerary.
LEMMA CancelSessions ==
    ASSUME IInv, NEW i \in Itineraries, CancelSessionsOf(i)
    PROVE  /\ session' \in [Sessions -> SessionRecord]
           /\ \A s \in Sessions :
                 \/ session'[s] = session[s]
                 \/ session[s].status # "NONE" /\ session'[s] = CloseSession(s, "CANCELLED")
           /\ \A s \in Sessions :
                 session'[s].status = "ACTIVE" => session'[s] = session[s] /\ session[s].itin # i
<1>1. session' = [s \in Sessions |->
          IF s \in ActiveOn(i) THEN CloseSession(s, "CANCELLED") ELSE session[s]]
  BY DEF CancelSessionsOf
<1>2. \A s \in Sessions : CloseSession(s, "CANCELLED") \in SessionRecord
  BY DEF IInv, TypeOK, CloseSession, SessionRecord, SessionStatus
<1>3. session' \in [Sessions -> SessionRecord]
  BY <1>1, <1>2 DEF IInv, TypeOK, SessionRecord
<1>4. \A s \in Sessions : CloseSession(s, "CANCELLED").status = "CANCELLED"
  BY DEF CloseSession
<1> QED
  BY <1>1, <1>3, <1>4 DEF ActiveOn

\* deleteItinerary: its sessions are cancelled first.
LEMMA deleteItinerary_Step ==
    ASSUME IInv, NEW i \in Itineraries, deleteItinerary(i)
    PROVE  TablesFit /\ Carried
<1>1. itin' = [itin EXCEPT ![i].state = "archived"]
  BY DEF deleteItinerary
<1>2. itin' \in [Itineraries -> [state : ItinState, days : Nat]]
  BY <1>1 DEF IInv, TypeOK, ItinState
<1>3. \A j \in Itineraries : itin[j].state # "absent" => itin'[j].state # "absent"
  BY <1>1 DEF IInv, TypeOK
<1>4. TablesFit
  BY <1>2, <1>3 DEF deleteItinerary, IInv, TypeOK, References, TablesFit, ItemTable, Exists
<1>5. Carried
  BY CancelSessions, LeftAlone DEF deleteItinerary
<1> QED
  BY <1>4, <1>5

\* deleteDay: its activities and their rows go with it.
LEMMA deleteDay_Step ==
    ASSUME IInv, NEW i \in Itineraries, NEW d \in 1 .. MaxDays, deleteDay(i, d)
    PROVE  TablesFit /\ Carried
<1>1. item' = [a \in Activities |->
          IF a \in DayItems(item, i, d) THEN NoItem
          ELSE IF item[a].itin = i /\ item[a].day > d
               THEN [item[a] EXCEPT !.day = @ - 1]
               ELSE item[a]]
  BY DEF deleteDay
<1>2. \A a \in Activities : item[a].day > d => item[a].day - 1 \in Nat
  BY BoundsAssumption DEF IInv, TypeOK
<1>3. item' \in ItemTable
  BY <1>1, <1>2 DEF IInv, TypeOK, ItemTable, NoItem
<1>4. \A a \in Activities :
          \/ item'[a].itin = item[a].itin /\ (item[a].itin = None => item'[a] = item[a])
          \/ item[a].itin = i /\ item'[a] = NoItem
  BY <1>1, NoneAssumption DEF IInv, TypeOK, DayItems, ItemsOf
<1>5. \A a \in Activities, j \in Itineraries :
          j # i => (item'[a].itin = j <=> item[a].itin = j)
  BY <1>4, NoneAssumption DEF NoItem
<1>6. \A a \in Activities : a > lastItem => item'[a] = NoItem
  <2>1. \A a \in Activities : a > lastItem => item[a] = NoItem
    BY DEF IInv, References
  <2>2. NoItem.itin = None
    BY DEF NoItem
  <2> QED
    BY <1>4, <2>1, <2>2
<1>7. \A a \in Activities : item'[a].itin # None => item'[a].itin = item[a].itin
  BY <1>4 DEF NoItem
<1>8. lastItem' = lastItem /\ lastItem \in Nat /\ Exists(i)
  BY DEF deleteDay, IInv, TypeOK
<1>9. ASSUME itin' \in [Itineraries -> [state : ItinState, days : Nat]],
             \A j \in Itineraries : itin[j].state # "absent" => itin'[j].state # "absent"
      PROVE  TablesFit
  <2>1. \A a \in Activities : item'[a].itin # None => itin'[item'[a].itin].state # "absent"
    BY <1>7, <1>9 DEF IInv, TypeOK, References, Exists
  <2> QED
    BY <1>3, <1>6, <1>8, <1>9, <2>1 DEF TablesFit, Exists
<1>10. CASE itin[i].days = 1
  <2>1. /\ itin' = [itin EXCEPT ![i] = [state |-> "archived", days |-> 0]]
        /\ CancelSessionsOf(i)
        /\ progress' = CascadeRows(item')
    BY <1>10 DEF deleteDay
  <2>2. TablesFit
    BY <1>9, <2>1 DEF IInv, TypeOK, ItinState
  <2>3. /\ session' \in [Sessions -> SessionRecord]
        /\ \A s \in Sessions :
              \/ session'[s] = session[s]
              \/ session[s].status # "NONE" /\ session'[s] = CloseSession(s, "CANCELLED")
        /\ \A s \in Sessions :
              session'[s].status = "ACTIVE" => session'[s] = session[s] /\ session[s].itin # i
    BY <2>1, CancelSessions
  <2>4. \A s \in Sessions : ~ (session[s].status = "ACTIVE" /\ session[s].itin = i) =>
            CascadeRows(item')[s] \in Rows /\ Fits(session[s], CascadeRows(item')[s], item')
    BY <1>3, <1>5, CascadeElsewhere
  <2>5. progress' \in [Sessions -> Rows]
    <3>1. \A s \in Sessions : CascadeRows(item')[s] \in Rows
      BY DEF CascadeRows, IInv, TypeOK, Rows, NoRow, RowStatus
    <3>2. CascadeRows(item') = [s \in Sessions |-> CascadeRows(item')[s]]
      BY DEF CascadeRows
    <3> QED
      BY <2>1, <3>1, <3>2
  <2>6. ASSUME NEW s \in Sessions
        PROVE  /\ session[s].status = "NONE" => session'[s] = session[s]
               /\ session[s].status # "NONE" => session'[s].status # "NONE"
               /\ session'[s].itin = session[s].itin
               /\ session'[s].status = "ACTIVE" => session[s].status = "ACTIVE"
               /\ Fits(session'[s], progress'[s], item')
    <3>1. CASE session'[s] = session[s]
      <4>1. ~ (session[s].status = "ACTIVE" /\ session[s].itin = i)
        BY <2>3, <3>1
      <4> QED
        BY <2>1, <2>4, <3>1, <4>1
    <3>2. CASE session[s].status # "NONE" /\ session'[s] = CloseSession(s, "CANCELLED")
      BY <3>2 DEF CloseSession, Fits
    <3> QED
      BY <2>3, <3>1, <3>2
  <2> QED
    BY <2>2, <2>3, <2>5, <2>6 DEF Carried
<1>11. CASE itin[i].days # 1
  <2>1. itin' = [itin EXCEPT ![i].days = @ - 1] /\ reconcileItineraryChange(i)
    BY <1>11 DEF deleteDay
  <2>2. itin[i].days - 1 \in Nat
    BY BoundsAssumption DEF deleteDay, IInv, TypeOK
  <2>3. TablesFit
    BY <1>9, <2>1, <2>2 DEF IInv, TypeOK
  <2> QED
    BY <1>3, <1>5, <2>1, <2>3, ReconcileCarries
<1> QED
  BY <1>10, <1>11

\* The requests that follow a trip leave itin and lastItem alone and at most
\* set isCompleted on an item.
LEMMA DoneFits ==
    ASSUME IInv, UNCHANGED <<itin, lastItem>>,
           \/ item' = item
           \/ \E a \in Activities : item[a].itin # None /\ item' = [item EXCEPT ![a].done = TRUE]
    PROVE  /\ TablesFit
           /\ \A i \in Itineraries : ItemsOf(item', i) = ItemsOf(item, i)
<1>1. item' \in ItemTable
  <2>1. item \in ItemTable
    BY DEF IInv, TypeOK, ItemTable
  <2>2. CASE item' = item
    BY <2>1, <2>2
  <2>3. ASSUME NEW a \in Activities, item' = [item EXCEPT ![a].done = TRUE]
        PROVE  item' \in ItemTable
    BY <2>1, <2>3 DEF ItemTable
  <2> QED
    BY <2>2, <2>3
<1>2. \A a \in Activities :
          item'[a].itin = item[a].itin /\ (item[a].itin = None => item'[a] = item[a])
  BY DEF IInv, TypeOK
<1>3. \A a \in Activities : item'[a].itin # None => itin'[item'[a].itin].state # "absent"
  BY <1>2 DEF IInv, References, Exists
<1>4. \A a \in Activities : a > lastItem' => item'[a] = NoItem
  <2>1. \A a \in Activities : a > lastItem => item[a] = NoItem
    BY DEF IInv, References
  <2>2. NoItem.itin = None
    BY DEF NoItem
  <2> QED
    BY <1>2, <2>1, <2>2
<1>5. TablesFit
  BY <1>1, <1>3, <1>4 DEF IInv, TypeOK, TablesFit, Exists
<1>6. \A i \in Itineraries : ItemsOf(item', i) = ItemsOf(item, i)
  BY <1>2 DEF ItemsOf
<1> QED
  BY <1>5, <1>6

\* A request on one session that is not idle.
LEMMA OneSession ==
    ASSUME IInv, NEW s \in Sessions, session[s].status # "NONE",
           \A i \in Itineraries : ItemsOf(item', i) = ItemsOf(item, i),
           NEW rec \in SessionRecord, NEW rows \in Rows,
           session' = [session EXCEPT ![s] = rec],
           progress' = [progress EXCEPT ![s] = rows],
           rec.itin = session[s].itin, rec.status # "NONE",
           rec.status = "ACTIVE" => session[s].status = "ACTIVE",
           Fits(rec, rows, item)
    PROVE  Carried
<1>1. session \in [Sessions -> SessionRecord] /\ progress \in [Sessions -> Rows]
  BY DEF IInv, TypeOK, SessionRecord, Rows
<1>2. session' \in [Sessions -> SessionRecord] /\ progress' \in [Sessions -> Rows]
  BY <1>1
<1>3. \A r, q, t : Fits(r, q, item) /\ (r.status = "ACTIVE" => r.itin \in Itineraries)
          => Fits(r, q, item')
  BY DEF Fits
<1>4. \A t \in Sessions : session[t].status # "NONE" => session[t].itin \in Itineraries
  BY <1>1 DEF IInv, References, SessionRecord
<1>5. \A t \in Sessions : Fits(session[t], progress[t], item)
  BY IInvBySession
<1>6. ASSUME NEW t \in Sessions
      PROVE  /\ session[t].status = "NONE" => session'[t] = session[t]
             /\ session[t].status # "NONE" => session'[t].status # "NONE"
             /\ session'[t].itin = session[t].itin
             /\ session'[t].status = "ACTIVE" => session[t].status = "ACTIVE"
             /\ Fits(session'[t], progress'[t], item')
  <2>1. CASE t = s
    <3>1. session'[t] = rec /\ progress'[t] = rows
      BY <1>1, <2>1
    <3>2. Fits(rec, rows, item')
      BY <1>3, <1>4
    <3> QED
      BY <2>1, <3>1, <3>2
  <2>2. CASE t # s
    <3>1. session'[t] = session[t] /\ progress'[t] = progress[t]
      BY <1>1, <2>2
    <3> QED
      BY <1>3, <1>4, <1>5, <3>1
  <2> QED
    BY <2>1, <2>2
<1> QED
  BY <1>2, <1>6 DEF Carried

\* A session that is closed is well-formed.
LEMMA CloseFits ==
    ASSUME IInv, NEW s \in Sessions, session[s].status # "NONE",
           NEW st \in {"COMPLETED", "CANCELLED"},
           session' = [session EXCEPT ![s] = CloseSession(s, st)],
           UNCHANGED <<itin, item, lastItem, progress>>
    PROVE  TablesFit /\ Carried
<1>1. TablesFit
  BY DoneFits
<1>2. \A t \in Sessions : session'[t] = session[t] \/ (t = s /\ session'[t] = CloseSession(t, st))
  BY DEF IInv, TypeOK
<1>3. CloseSession(s, st) \in SessionRecord
  BY DEF IInv, TypeOK, CloseSession, SessionRecord, SessionStatus
<1>4. session' \in [Sessions -> SessionRecord]
  BY <1>3 DEF IInv, TypeOK, SessionRecord
<1>5. Carried
  BY <1>2, <1>4, LeftAlone
<1> QED
  BY <1>1, <1>5

\* getActiveSession: an orphaned session is healed.
LEMMA getActiveSession_Step ==
    ASSUME IInv, NEW u \in Users, getActiveSession(u)
    PROVE  TablesFit /\ Carried
BY CloseFits DEF getActiveSession, Healed, ActiveOf

\* finishTrip: closes the session, and no row changes.
LEMMA finishTrip_Step ==
    ASSUME IInv, NEW s \in Sessions, finishTrip(s)
    PROVE  TablesFit /\ Carried
BY CloseFits DEF finishTrip

\* cancelTrip: closes it too, whatever its status.
LEMMA cancelTrip_Step ==
    ASSUME IInv, NEW s \in Sessions, cancelTrip(s)
    PROVE  TablesFit /\ Carried
BY CloseFits DEF cancelTrip

\* startActivity: the session has an unfinished row before and after.
LEMMA startActivity_Step ==
    ASSUME IInv, NEW s \in Sessions, NEW a \in Activities, startActivity(s, a)
    PROVE  TablesFit /\ Carried
<1> DEFINE rows == Promote(progress[s], a)
           rec  == [session[s] EXCEPT !.current = a]
<1>1. session[s] \in SessionRecord /\ progress[s] \in Rows /\ progress \in [Sessions -> Rows]
      /\ session \in [Sessions -> SessionRecord]
  BY DEF IInv, TypeOK, SessionRecord, Rows
<1>2. a # None
  BY NoneAssumption DEF Activities
<1>3. /\ session' = [session EXCEPT ![s] = rec]
      /\ progress' = [progress EXCEPT ![s] = rows]
  BY <1>1, <1>2 DEF startActivity, Promote
<1>4. a \in Unfinished(progress[s])
  BY DEF startActivity, Unfinished
<1>5. /\ rows \in Rows
      /\ Present(rows) = Present(progress[s])
      /\ Unfinished(rows) = Unfinished(progress[s])
  BY <1>1, <1>4, PromoteUnfinished
<1>6. /\ rec \in SessionRecord /\ rec.current = a /\ rec.status = "ACTIVE"
      /\ rec.itin = session[s].itin /\ rec.ended = session[s].ended
  BY <1>1 DEF SessionRecord, startActivity
<1>7. Fits(session[s], progress[s], item)
  BY IInvBySession
<1>8. a \in Present(rows)
  BY <1>4, <1>5 DEF Unfinished, Present
<1>9. Fits(rec, rows, item)
  <2> HIDE DEF rec, rows
  <2> QED
    BY <1>4, <1>5, <1>6, <1>7, <1>8 DEF Fits, startActivity
<1>10. /\ TablesFit
       /\ \A i \in Itineraries : ItemsOf(item', i) = ItemsOf(item, i)
  BY DoneFits DEF startActivity
<1>11. session[s].status = "ACTIVE"
  BY DEF startActivity
<1> HIDE DEF rec, rows
<1>12. Carried
  BY <1>3, <1>5, <1>6, <1>9, <1>10, <1>11, OneSession
<1> QED
  BY <1>10, <1>12

\* Completing or skipping a: whatever the next activity turns out to be, the
\* session fits its rows, since it ends when nothing else is unfinished.
LEMMA AdvanceCarries ==
    ASSUME IInv, NEW s \in Sessions, NEW a \in Activities,
           session[s].status = "ACTIVE", progress[s][a].status # "ABSENT",
           NEW st \in {"COMPLETED", "SKIPPED"},
           NEW closes \in BOOLEAN, NothingElseUnfinished(s, a) => closes,
           \A i \in Itineraries : ItemsOf(item', i) = ItemsOf(item, i),
           Advance(s, a, st, closes)
    PROVE  Carried
<1> DEFINE done == [progress[s] EXCEPT ![a].status = st]
<1>1. /\ session[s] \in SessionRecord /\ progress[s] \in Rows
      /\ session \in [Sessions -> SessionRecord]
  BY DEF IInv, TypeOK, SessionRecord, Rows
<1>2. PICK n \in Activities \union {None} :
         /\ IsFirst(done, NotStarted(done) \ {a}, n)
         /\ progress' = [progress EXCEPT ![s] = Promote(done, n)]
         /\ session' = [session EXCEPT ![s] =
               IF n # None THEN [session[s] EXCEPT !.current = n]
               ELSE IF closes THEN CloseSession(s, "COMPLETED") ELSE session[s]]
  BY DEF Advance
<1>3. done \in Rows
  BY <1>1 DEF Rows, RowStatus
<1>4. \A b \in Activities : done[b].status = IF b = a THEN st ELSE progress[s][b].status
  BY <1>1 DEF Rows
<1>5. /\ Present(done) = Present(progress[s])
      /\ Unfinished(done) = Unfinished(progress[s]) \ {a}
  BY <1>4 DEF Present, Unfinished
<1>6. n \in NotStarted(done) \union {None}
  BY <1>2 DEF IsFirst
<1>7. n \in Unfinished(done) \union {None}
  BY <1>6 DEF NotStarted, Unfinished
<1>8. Fits(session[s], progress[s], item)
  BY IInvBySession
<1> DEFINE rows == Promote(done, n)
<1> HIDE DEF done
<1>9. /\ rows \in Rows
      /\ Present(rows) = Present(progress[s])
      /\ Unfinished(rows) = Unfinished(progress[s]) \ {a}
  BY <1>3, <1>5, <1>7, PromoteUnfinished
<1> HIDE DEF rows
<1>10. CASE n # None
  <2> DEFINE rec == [session[s] EXCEPT !.current = n]
  <2>1. /\ rec \in SessionRecord /\ rec.current = n /\ rec.status = "ACTIVE"
        /\ rec.itin = session[s].itin /\ rec.ended = session[s].ended
    BY <1>1, <1>10 DEF SessionRecord
  <2>2. session' = [session EXCEPT ![s] = rec] /\ progress' = [progress EXCEPT ![s] = rows]
    BY <1>2, <1>10 DEF rows
  <2> HIDE DEF rec
  <2>3. n \in Unfinished(rows) /\ n \in Present(rows)
    BY <1>5, <1>7, <1>9, <1>10 DEF Unfinished, Present
  <2>4. Fits(rec, rows, item)
    BY <1>8, <1>9, <2>1, <2>3 DEF Fits
  <2> QED
    BY <1>9, <2>1, <2>2, <2>4, OneSession
<1>11. CASE n = None /\ closes
  <2> DEFINE rec == CloseSession(s, "COMPLETED")
  <2>1. /\ rec \in SessionRecord /\ rec.status = "COMPLETED"
        /\ rec.itin = session[s].itin
    BY <1>1 DEF SessionRecord, SessionStatus, CloseSession
  <2>2. session' = [session EXCEPT ![s] = rec] /\ progress' = [progress EXCEPT ![s] = rows]
    BY <1>2, <1>11 DEF rows
  <2> HIDE DEF rec
  <2>3. Fits(rec, rows, item)
    BY <2>1 DEF Fits
  <2> QED
    BY <1>9, <2>1, <2>2, <2>3, OneSession
<1>12. CASE n = None /\ ~ closes
  <2>1. session' = [session EXCEPT ![s] = session[s]] /\ progress' = [progress EXCEPT ![s] = rows]
    BY <1>2, <1>12 DEF rows
  <2>2. Unfinished(rows) # {}
    BY <1>9, <1>12 DEF NothingElseUnfinished
  <2>3. Fits(session[s], rows, item)
    BY <1>8, <1>9, <2>2 DEF Fits
  <2> QED
    BY <1>1, <1>9, <2>1, <2>3, OneSession
<1> QED
  BY <1>10, <1>11, <1>12

\* The activity of a row of an ACTIVE session is in the itinerary.
LEMMA RowHasItem ==
    ASSUME IInv, NEW s \in Sessions, NEW a \in Activities,
           session[s].status = "ACTIVE", progress[s][a].status # "ABSENT"
    PROVE  item[a].itin # None
<1>1. session[s].itin # None
  BY DEF IInv, References
<1>2. a \in ItemsOf(item, session[s].itin)
  BY DEF IInv, ActiveMirrorsPlan, Present
<1> QED
  BY <1>1, <1>2 DEF ItemsOf

\* completeActivity: what is left decides whether the trip ends.
LEMMA completeActivity_Step ==
    ASSUME IInv, NEW s \in Sessions, NEW a \in Activities, completeActivity(s, a)
    PROVE  TablesFit /\ Carried
<1>1. item[a].itin # None
  BY RowHasItem DEF completeActivity
<1>2. TablesFit /\ \A i \in Itineraries : ItemsOf(item', i) = ItemsOf(item, i)
  BY <1>1, DoneFits DEF completeActivity
<1>3. NothingElseUnfinished(s, a) \in BOOLEAN
  BY DEF NothingElseUnfinished
<1>4. Carried
  BY <1>2, <1>3, AdvanceCarries DEF completeActivity
<1> QED
  BY <1>2, <1>4

\* syncLocation: an arrival closes the session once nothing is NOT_STARTED.
LEMMA syncLocation_Step ==
    ASSUME IInv, NEW s \in Sessions, NEW a \in Activities, syncLocation(s, a)
    PROVE  TablesFit /\ Carried
<1>1. item[a].itin # None
  BY RowHasItem DEF syncLocation
<1>2. TablesFit /\ \A i \in Itineraries : ItemsOf(item', i) = ItemsOf(item, i)
  BY <1>1, DoneFits DEF syncLocation
<1>3. Carried
  BY <1>2, AdvanceCarries DEF syncLocation
<1> QED
  BY <1>2, <1>3

\* skipActivity: as a completion, but that what is completed can be skipped.
LEMMA skipActivity_Step ==
    ASSUME IInv, NEW s \in Sessions, NEW a \in Activities, skipActivity(s, a)
    PROVE  TablesFit /\ Carried
<1>1. TablesFit /\ \A i \in Itineraries : ItemsOf(item', i) = ItemsOf(item, i)
  BY DoneFits DEF skipActivity
<1>2. NothingElseUnfinished(s, a) \in BOOLEAN
  BY DEF NothingElseUnfinished
<1>3. Carried
  BY <1>1, <1>2, AdvanceCarries DEF skipActivity
<1> QED
  BY <1>1, <1>3

-----------------------------------------------------------------------------
(* Starting a trip: the one request that makes a session ACTIVE.            *)

\* What startTrip finds after healing: no ACTIVE session of the user is left.
LEMMA HealedSessions ==
    ASSUME IInv, NEW i \in Itineraries,
           NEW healed \in IF ActiveOf(Owner[i]) = {} THEN {session}
                          ELSE {Healed(s) : s \in {t \in ActiveOf(Owner[i]) :
                                  IsNewest(ActiveOf(Owner[i]), t) /\ Orphaned(t)}}
    PROVE  /\ healed \in [Sessions -> SessionRecord]
           /\ \A t \in Sessions :
                 /\ \/ healed[t] = session[t]
                    \/ session[t].status # "NONE" /\ healed[t] = CloseSession(t, "CANCELLED")
                 /\ healed[t].status = "ACTIVE" =>
                       healed[t] = session[t] /\ Owner[session[t].itin] # Owner[i]
<1>1. session \in [Sessions -> SessionRecord]
  BY DEF IInv, TypeOK, SessionRecord
<1>2. CASE ActiveOf(Owner[i]) = {}
  BY <1>1, <1>2 DEF ActiveOf
<1>3. CASE ActiveOf(Owner[i]) # {}
  <2>1. PICK s \in ActiveOf(Owner[i]) : healed = Healed(s)
    BY <1>3
  <2>2. Owner[i] \in Users
    BY OwnerAssumption
  <2>3. \A t \in ActiveOf(Owner[i]) : t = s
    BY <2>1, <2>2 DEF IInv, OneActiveTrip
  <2>4. s \in Sessions /\ session[s].status = "ACTIVE"
    BY <2>1 DEF ActiveOf
  <2>5. CloseSession(s, "CANCELLED") \in SessionRecord
    BY <1>1, <2>4 DEF CloseSession, SessionRecord, SessionStatus
  <2>6. \A t \in Sessions : healed[t] =
           IF t = s THEN CloseSession(s, "CANCELLED") ELSE session[t]
    BY <1>1, <2>1, <2>4 DEF Healed
  <2>7. healed \in [Sessions -> SessionRecord]
    BY <1>1, <2>1, <2>5 DEF Healed
  <2>8. CloseSession(s, "CANCELLED").status = "CANCELLED"
    BY DEF CloseSession
  <2>9. ASSUME NEW t \in Sessions, healed[t].status = "ACTIVE"
        PROVE  healed[t] = session[t] /\ Owner[session[t].itin] # Owner[i]
    <3>1. t # s
      BY <2>6, <2>8, <2>9
    <3>2. healed[t] = session[t]
      BY <2>6, <3>1
    <3> QED
      BY <2>3, <2>9, <3>1, <3>2 DEF ActiveOf
  <2> QED
    BY <2>4, <2>6, <2>7, <2>9
<1> QED
  BY <1>2, <1>3

\* startTrip: returns the running session, heals it, or begins one.
LEMMA startTrip_Step ==
    ASSUME IInv, NEW i \in Itineraries, startTrip(i)
    PROVE  IInv'
<1> DEFINE open == {a \in ItemsOf(item, i) : ~ item[a].done}
<1>1. PICK healed \in IF ActiveOf(Owner[i]) = {} THEN {session}
                      ELSE {Healed(s) : s \in {t \in ActiveOf(Owner[i]) :
                              IsNewest(ActiveOf(Owner[i]), t) /\ Orphaned(t)}} :
        IF ItemsOf(item, i) = {}
        THEN session' = healed /\ UNCHANGED progress
        ELSE \E s \in NewSession, first \in Activities \union {None},
                r \in Listings(item, ItemsOf(item, i)) :
               /\ IF open = {} THEN first = None
                  ELSE first \in open /\ \A b \in open : r[first] <= r[b]
               /\ session' = [healed EXCEPT ![s] =
                     [itin |-> i, ended |-> FALSE, current |-> first,
                      status |-> IF first = None THEN "COMPLETED" ELSE "ACTIVE"]]
               /\ progress' = [progress EXCEPT ![s] = StartingRows(i, first, r)]
  BY DEF startTrip
<1>2. UNCHANGED <<itin, item, lastItem>> /\ Exists(i)
  BY DEF startTrip, Exists
<1>3. TablesFit
  BY <1>2, DoneFits
<1>4. healed \in [Sessions -> SessionRecord]
  BY HealedSessions
<1>5. ASSUME NEW t \in Sessions
      PROVE  /\ \/ healed[t] = session[t]
                \/ session[t].status # "NONE" /\ healed[t] = CloseSession(t, "CANCELLED")
             /\ healed[t].status = "ACTIVE" =>
                   healed[t] = session[t] /\ Owner[session[t].itin] # Owner[i]
  BY HealedSessions
<1>6. CASE ItemsOf(item, i) = {}
  <2>1. session' = healed /\ progress' = progress
    BY <1>1, <1>6
  <2>2. Carried
    BY <1>2, <1>4, <1>5, <2>1, LeftAlone
  <2> QED
    BY <1>3, <2>2, CarriedIInv
<1>7. CASE ItemsOf(item, i) # {}
  <2>1. PICK s \in NewSession, first \in Activities \union {None},
             r \in Listings(item, ItemsOf(item, i)) :
           /\ IF open = {} THEN first = None
              ELSE first \in open /\ \A b \in open : r[first] <= r[b]
           /\ session' = [healed EXCEPT ![s] =
                 [itin |-> i, ended |-> FALSE, current |-> first,
                  status |-> IF first = None THEN "COMPLETED" ELSE "ACTIVE"]]
           /\ progress' = [progress EXCEPT ![s] = StartingRows(i, first, r)]
    BY <1>1, <1>7
  <2> DEFINE rec  == [itin |-> i, ended |-> FALSE, current |-> first,
                      status |-> IF first = None THEN "COMPLETED" ELSE "ACTIVE"]
             rows == StartingRows(i, first, r)
  <2>2. s \in Sessions
    BY <2>1 DEF NewSession
  <2>3. rec \in SessionRecord
    BY DEF SessionRecord, SessionStatus
  <2>4. \A a \in ItemsOf(item, i) : r[a] \in Nat
    <3>1. ItemsOf(item, i) \subseteq Activities
      BY DEF ItemsOf
    <3> QED
      BY <3>1, ListingType
  <2>5. rows \in Rows
    BY <2>4 DEF StartingRows, Rows, RowStatus, NoRow, ItemsOf
  <2>6. Present(rows) = ItemsOf(item, i)
    BY DEF StartingRows, NoRow, Present, ItemsOf
  <2>7. first # None => first \in Unfinished(rows) /\ first \in Present(rows)
    <3>1. SUFFICES ASSUME first # None PROVE first \in Unfinished(rows) /\ first \in Present(rows)
      OBVIOUS
    <3>2. first \in Activities /\ item[first].itin = i /\ ~ item[first].done
      BY <2>1, <3>1 DEF ItemsOf
    <3>3. rows[first].status = "IN_PROGRESS"
      BY <3>2 DEF StartingRows
    <3> QED
      BY <3>2, <3>3 DEF Unfinished, Present
  <2>8. /\ rec.status = "ACTIVE" => first # None
        /\ rec.status \in {"ACTIVE", "COMPLETED"}
        /\ rec.itin = i /\ ~ rec.ended /\ rec.current = first
    OBVIOUS
  <2>9. session' = [healed EXCEPT ![s] = rec] /\ progress' = [progress EXCEPT ![s] = rows]
    BY <2>1
  <2> HIDE DEF rec, rows
  <2>10. Fits(rec, rows, item)
    BY <2>6, <2>7, <2>8 DEF Fits
  <2>11. /\ progress \in [Sessions -> Rows]
         /\ session \in [Sessions -> SessionRecord]
    BY DEF IInv, TypeOK, Rows, SessionRecord
  <2>12. /\ session' \in [Sessions -> SessionRecord]
         /\ progress' \in [Sessions -> Rows]
    BY <1>4, <2>3, <2>5, <2>9, <2>11
  <2>13. \A t \in Sessions : session'[t] = IF t = s THEN rec ELSE healed[t]
    BY <1>4, <2>9
  <2>14. \A t \in Sessions : progress'[t] = IF t = s THEN rows ELSE progress[t]
    BY <2>9, <2>11
  <2>15. TypeOK'
    BY <1>3, <2>12 DEF TablesFit, TypeOK, ItemTable, SessionRecord, Rows
  <2>16. \A t \in Sessions : Fits(session'[t], progress'[t], item)
    <3>1. \A t \in Sessions : Fits(session[t], progress[t], item)
      BY IInvBySession
    <3>2. \A t \in Sessions : Fits(CloseSession(t, "CANCELLED"), progress[t], item)
      BY DEF CloseSession, Fits
    <3> QED
      BY <1>5, <2>10, <2>13, <2>14, <3>1, <3>2
  <2>17. OneActiveTrip'
    <3>1. ASSUME NEW t \in Sessions, t # s, session'[t].status = "ACTIVE"
          PROVE  /\ session'[t] = session[t] /\ session[t].status = "ACTIVE"
                 /\ Owner[session[t].itin] # Owner[i]
      BY <1>5, <2>13, <3>1
    <3>2. session'[s].itin = i
      BY <2>2, <2>8, <2>13
    <3>3. ASSUME NEW u \in Users, NEW t \in Sessions, NEW v \in Sessions,
                 session'[t].status = "ACTIVE", Owner[session'[t].itin] = u,
                 session'[v].status = "ACTIVE", Owner[session'[v].itin] = u
          PROVE  t = v
      <4>1. CASE t = s
        BY <3>1, <3>2, <3>3, <4>1
      <4>2. CASE v = s
        BY <3>1, <3>2, <3>3, <4>2
      <4>3. CASE t # s /\ v # s
        BY <3>1, <3>3, <4>3 DEF IInv, OneActiveTrip, ActiveOf
      <4> QED
        BY <4>1, <4>2, <4>3
    <3> QED
      BY <3>3 DEF OneActiveTrip, ActiveOf
  <2>18. References'
    <3>1. \A a \in Activities : /\ item'[a].itin # None => itin'[item'[a].itin].state # "absent"
                                /\ a > lastItem' => item'[a] = NoItem
      BY <1>3 DEF TablesFit
    <3>2. ASSUME NEW t \in Sessions
          PROVE  IF session'[t].status = "NONE" THEN session'[t] = NoSession
                 ELSE session'[t].itin # None /\ itin'[session'[t].itin].state # "absent"
      <4>1. CASE t = s
        BY <1>2, <2>8, <2>13, <4>1, NoneAssumption DEF Exists
      <4>2. CASE t # s /\ healed[t] = session[t]
        BY <1>2, <2>13, <4>2 DEF IInv, References, Exists
      <4>3. CASE t # s /\ session[t].status # "NONE" /\ healed[t] = CloseSession(t, "CANCELLED")
        BY <1>2, <2>13, <4>3 DEF IInv, References, Exists, CloseSession
      <4> QED
        BY <1>5, <4>1, <4>2, <4>3
    <3> QED
      BY <3>1, <3>2 DEF References, Exists
  <2> QED
    BY <1>2, <2>15, <2>16, <2>17, <2>18
    DEF IInv, ActiveMirrorsPlan, CurrentNotDeleted, NotStranded, EndStamps, Fits
<1> QED
  BY <1>6, <1>7

-----------------------------------------------------------------------------
(* The theorems.                                                           *)

\* Every request, and a step that changes nothing, preserves IInv.
LEMMA NextIInv ==
    ASSUME IInv, [Next]_vars
    PROVE  IInv'
<1>1. ASSUME NEW i \in Itineraries, EditItinerary(i)
      PROVE  IInv'
  <2>1. CASE createWithTransaction(i)
    BY <2>1, create_Step, CarriedIInv
  <2>2. CASE addDay(i)
    BY <2>2, addDay_Step, CarriedIInv
  <2>3. CASE deleteItinerary(i)
    BY <2>3, deleteItinerary_Step, CarriedIInv
  <2>4. ASSUME NEW d \in 1 .. MaxDays, addActivity(i, d)
        PROVE  IInv'
    BY <2>4, addActivity_Step, CarriedIInv
  <2>5. ASSUME NEW d \in 1 .. MaxDays, reorderActivities(i, d)
        PROVE  IInv'
    BY <2>5, reorderActivities_Step, CarriedIInv
  <2>6. ASSUME NEW d \in 1 .. MaxDays, deleteDay(i, d)
        PROVE  IInv'
    BY <2>6, deleteDay_Step, CarriedIInv
  <2>7. CASE optimizeRoute(i)
    BY <2>7, optimizeRoute_Step, CarriedIInv
  <2> QED
    BY <1>1, <2>1, <2>2, <2>3, <2>4, <2>5, <2>6, <2>7 DEF EditItinerary
<1>2. ASSUME NEW a \in Activities, EditActivity(a)
      PROVE  IInv'
  BY <1>2, updateActivity_Step, deleteActivity_Step, CarriedIInv DEF EditActivity
<1>3. ASSUME NEW u \in Users, getActiveSession(u)
      PROVE  IInv'
  BY <1>3, getActiveSession_Step, CarriedIInv
<1>4. ASSUME NEW s \in Sessions, FollowTrip(s)
      PROVE  IInv'
  <2>1. CASE finishTrip(s)
    BY <2>1, finishTrip_Step, CarriedIInv
  <2>2. CASE cancelTrip(s)
    BY <2>2, cancelTrip_Step, CarriedIInv
  <2>3. ASSUME NEW a \in Activities,
               \/ startActivity(s, a) \/ completeActivity(s, a)
               \/ skipActivity(s, a)  \/ syncLocation(s, a)
        PROVE  IInv'
    BY <2>3, startActivity_Step, completeActivity_Step, skipActivity_Step,
       syncLocation_Step, CarriedIInv
  <2> QED
    BY <1>4, <2>1, <2>2, <2>3 DEF FollowTrip
<1>5. CASE UNCHANGED vars
  BY <1>5 DEF vars, IInv, TypeOK, References, Exists, OneActiveTrip, ActiveOf,
     ActiveMirrorsPlan, CurrentNotDeleted, NotStranded, EndStamps
<1> QED
  BY <1>1, <1>2, <1>3, <1>4, <1>5, startTrip_Step DEF Next

\* IInv is an invariant of the trip sessions: the parts of it below cannot be
\* proved on their own, because the step that keeps one relies on the others.
THEOREM Invariant == Spec => []IInv
<1>1. Init => IInv
  BY InitIInv
<1>2. IInv /\ [Next]_vars => IInv'
  BY NextIInv
<1> QED
  BY <1>1, <1>2, PTL DEF Spec

\* The tables stay well-formed under every sequence of requests.
THEOREM TypeCorrect == Spec => []TypeOK
<1>1. IInv => TypeOK
  BY DEF IInv
<1> QED
  BY <1>1, Invariant, PTL

\* A user never has two ACTIVE sessions, as long as requests do not overlap.
THEOREM OneActiveTripAlways == Spec => []OneActiveTrip
<1>1. IInv => OneActiveTrip
  BY DEF IInv
<1> QED
  BY <1>1, Invariant, PTL

\* An ACTIVE session always has the rows of exactly the itinerary's items.
THEOREM ActiveMirrorsPlanAlways == Spec => []ActiveMirrorsPlan
<1>1. IInv => ActiveMirrorsPlan
  BY DEF IInv
<1> QED
  BY <1>1, Invariant, PTL

\* An ACTIVE session never points at a deleted activity.
THEOREM CurrentNotDeletedAlways == Spec => []CurrentNotDeleted
<1>1. IInv => CurrentNotDeleted
  BY DEF IInv
<1> QED
  BY <1>1, Invariant, PTL

\* An ACTIVE session with activities always has an unfinished one.
THEOREM NotStrandedAlways == Spec => []NotStranded
<1>1. IInv => NotStranded
  BY DEF IInv
<1> QED
  BY <1>1, Invariant, PTL

-----------------------------------------------------------------------------
(* The steps.                                                              *)

\* What a request may do to a row: nothing, take it away with its activity, change it
\* while the session is ACTIVE but not take back what is completed, or write it for a
\* session that begins.
RowStep(s, a) ==
    \/ progress'[s][a] = progress[s][a]
    \/ progress'[s][a] = NoRow /\ item'[a].itin = None
    \/ /\ session[s].status = "ACTIVE"
       /\ progress[s][a].status = "COMPLETED" =>
             progress'[s][a].status \in {"COMPLETED", "SKIPPED", "ABSENT"}
    \/ session[s].status = "NONE" /\ session'[s].status # "NONE"

RowSteps == \A s \in Sessions, a \in Activities : RowStep(s, a)

\* A session that has not begun has no rows.
FreshRows ==
    \A s \in Sessions : session[s].status = "NONE" =>
        \A a \in Activities : progress[s][a] = NoRow

-----------------------------------------------------------------------------
(* The rows.                                                               *)

\* The cascade takes rows away with their activities.
LEMMA CascadeStep ==
    ASSUME NEW s \in Sessions, NEW a \in Activities
    PROVE  \/ CascadeRows(item')[s][a] = progress[s][a]
           \/ CascadeRows(item')[s][a] = NoRow /\ item'[a].itin = None
BY DEF CascadeRows

\* A reconciliation changes rows of an ACTIVE session alone, and keeps what is completed.
LEMMA ReconcileRowSteps ==
    ASSUME IInv, NEW i \in Itineraries, reconcileItineraryChange(i)
    PROVE  RowSteps
<1>1. CASE ActiveOn(i) = {}
  BY <1>1, CascadeStep DEF reconcileItineraryChange, RowSteps, RowStep
<1>2. CASE ActiveOn(i) # {}
  <2>1. PICK s0 \in Sessions, n \in Activities \union {None},
             r \in Listings(item', ItemsOf(item', i)) :
          LET rows == ReconciledRows(progress[s0], item', i, r)
              kept == session[s0].current \in ItemsOf(item', i)
          IN  /\ IsNewest(ActiveOn(i), s0)
              /\ IF kept THEN n = None ELSE IsFirst(rows, Unfinished(rows), n)
              /\ progress' = [CascadeRows(item') EXCEPT ![s0] = Promote(rows, n)]
    BY <1>2 DEF reconcileItineraryChange
  <2> DEFINE rows == ReconciledRows(progress[s0], item', i, r)
  <2>2. session[s0].status = "ACTIVE"
    BY <2>1 DEF IsNewest, ActiveOn
  <2>3. progress'[s0] = Promote(rows, n)
    BY <2>1 DEF CascadeRows
  <2>4. \A s \in Sessions : s # s0 => progress'[s] = CascadeRows(item')[s]
    BY <2>1 DEF CascadeRows
  <2>5. n = None \/ n \in Unfinished(rows)
    BY <2>1 DEF IsFirst
  <2>6. ASSUME NEW a \in Activities, progress[s0][a].status = "COMPLETED"
        PROVE  progress'[s0][a].status \in {"COMPLETED", "ABSENT"}
    <3>1. rows[a].status \in {"COMPLETED", "ABSENT"}
      BY <2>6 DEF ReconciledRows, NoRow
    <3>2. n # a
      BY <2>5, <3>1, NoneAssumption DEF Unfinished, Activities
    <3>3. progress'[s0][a] = rows[a]
      BY <2>3, <3>2 DEF Promote, ReconciledRows
    <3> QED
      BY <3>1, <3>3
  <2>7. ASSUME NEW s \in Sessions, NEW a \in Activities PROVE RowStep(s, a)
    <3>1. CASE s = s0
      BY <2>2, <2>6, <3>1 DEF RowStep
    <3>2. CASE s # s0
      BY <2>4, <3>2, CascadeStep DEF RowStep
    <3> QED
      BY <3>1, <3>2
  <2> QED
    BY <2>7 DEF RowSteps
<1> QED
  BY <1>1, <1>2

\* Going on to the next activity does not take back what is completed: only rows that
\* are NOT_STARTED are promoted.
LEMMA AdvanceRowSteps ==
    ASSUME IInv, NEW s \in Sessions, NEW a \in Activities, NEW st \in {"COMPLETED", "SKIPPED"},
           NEW closes \in BOOLEAN, session[s].status = "ACTIVE", Advance(s, a, st, closes)
    PROVE  RowSteps
<1> DEFINE rows == [progress[s] EXCEPT ![a].status = st]
<1>1. PICK n \in Activities \union {None} :
         /\ IsFirst(rows, NotStarted(rows) \ {a}, n)
         /\ progress' = [progress EXCEPT ![s] = Promote(rows, n)]
  BY DEF Advance
<1>2. progress \in [Sessions -> Rows] /\ progress[s] \in Rows
  BY DEF IInv, TypeOK, Rows
<1>3. progress'[s] = Promote(rows, n) /\ \A t \in Sessions : t # s => progress'[t] = progress[t]
  BY <1>1, <1>2
<1>4. n = None \/ n \in NotStarted(rows)
  BY <1>1 DEF IsFirst
<1>5. ASSUME NEW b \in Activities, progress[s][b].status = "COMPLETED"
      PROVE  progress'[s][b].status \in {"COMPLETED", "SKIPPED"}
  <2>1. rows[b].status \in {"COMPLETED", "SKIPPED"}
    BY <1>2, <1>5 DEF Rows
  <2>2. n # b
    BY <1>4, <2>1, NoneAssumption DEF NotStarted, Activities
  <2>3. progress'[s][b] = rows[b]
    BY <1>2, <1>3, <2>2 DEF Promote, Rows
  <2> QED
    BY <2>1, <2>3
<1> QED
  BY <1>3, <1>5 DEF RowSteps, RowStep

\* Every request does to a row what RowStep says.
LEMMA RequestRowSteps ==
    ASSUME IInv, Next
    PROVE  RowSteps
<1>1. ASSUME progress' = progress PROVE RowSteps
  BY <1>1 DEF RowSteps, RowStep
<1>2. ASSUME NEW i \in Itineraries, EditItinerary(i) PROVE RowSteps
  <2>1. CASE createWithTransaction(i) \/ addDay(i) \/ deleteItinerary(i)
    BY <1>1, <2>1 DEF createWithTransaction, addDay, deleteItinerary
  <2>2. ASSUME NEW d \in 1 .. MaxDays, addActivity(i, d) \/ reorderActivities(i, d)
        PROVE  RowSteps
    BY <2>2, ReconcileRowSteps DEF addActivity, reorderActivities
  <2>3. ASSUME NEW d \in 1 .. MaxDays, deleteDay(i, d) PROVE RowSteps
    <3>1. progress' = CascadeRows(item') \/ reconcileItineraryChange(i)
      BY <2>3 DEF deleteDay
    <3> QED
      BY <3>1, ReconcileRowSteps, CascadeStep DEF RowSteps, RowStep
  <2>4. CASE optimizeRoute(i)
    BY <2>4, ReconcileRowSteps DEF optimizeRoute
  <2> QED
    BY <1>2, <2>1, <2>2, <2>3, <2>4 DEF EditItinerary
<1>3. ASSUME NEW a \in Activities, EditActivity(a) PROVE RowSteps
  <2>1. item[a].itin \in Itineraries /\ reconcileItineraryChange(item[a].itin)
    BY <1>3 DEF EditActivity, updateActivity, deleteActivity, IInv, TypeOK
  <2> QED
    BY <2>1, ReconcileRowSteps
<1>4. ASSUME NEW s \in Sessions, FollowTrip(s) PROVE RowSteps
  <2>1. CASE finishTrip(s) \/ cancelTrip(s)
    BY <1>1, <2>1 DEF finishTrip, cancelTrip
  <2>2. ASSUME NEW a \in Activities, startActivity(s, a) PROVE RowSteps
    <3>1. progress' = [progress EXCEPT ![s][a].status = "IN_PROGRESS"]
      BY <2>2 DEF startActivity
    <3>2. session[s].status = "ACTIVE" /\ progress[s][a].status = "NOT_STARTED"
      BY <2>2 DEF startActivity
    <3>3. \A t \in Sessions, b \in Activities : (t # s \/ b # a) => progress'[t][b] = progress[t][b]
      BY <3>1 DEF IInv, TypeOK
    <3> QED
      BY <3>2, <3>3 DEF RowSteps, RowStep
  <2>3. ASSUME NEW a \in Activities, completeActivity(s, a) PROVE RowSteps
    <3>1. NothingElseUnfinished(s, a) \in BOOLEAN
      BY DEF NothingElseUnfinished
    <3> QED
      BY <2>3, <3>1, AdvanceRowSteps DEF completeActivity
  <2>4. ASSUME NEW a \in Activities, skipActivity(s, a) PROVE RowSteps
    <3>1. NothingElseUnfinished(s, a) \in BOOLEAN
      BY DEF NothingElseUnfinished
    <3> QED
      BY <2>4, <3>1, AdvanceRowSteps DEF skipActivity
  <2>5. ASSUME NEW a \in Activities, syncLocation(s, a) PROVE RowSteps
    BY <2>5, AdvanceRowSteps DEF syncLocation
  <2> QED
    BY <1>4, <2>1, <2>2, <2>3, <2>4, <2>5 DEF FollowTrip
<1>5. ASSUME NEW u \in Users, getActiveSession(u) PROVE RowSteps
  BY <1>1, <1>5 DEF getActiveSession
<1>6. ASSUME NEW i \in Itineraries, startTrip(i) PROVE RowSteps
  <2>1. PICK healed \in IF ActiveOf(Owner[i]) = {} THEN {session}
                        ELSE {Healed(s) : s \in {t \in ActiveOf(Owner[i]) :
                                IsNewest(ActiveOf(Owner[i]), t) /\ Orphaned(t)}} :
          IF ItemsOf(item, i) = {}
          THEN session' = healed /\ UNCHANGED progress
          ELSE \E s \in NewSession, first \in Activities \union {None},
                  r \in Listings(item, ItemsOf(item, i)) :
                 /\ session' = [healed EXCEPT ![s] =
                       [itin |-> i, ended |-> FALSE, current |-> first,
                        status |-> IF first = None THEN "COMPLETED" ELSE "ACTIVE"]]
                 /\ progress' = [progress EXCEPT ![s] = StartingRows(i, first, r)]
    BY <1>6 DEF startTrip
  <2>2. healed \in [Sessions -> SessionRecord] /\ progress \in [Sessions -> Rows]
    BY HealedSessions DEF IInv, TypeOK, Rows
  <2>3. CASE ItemsOf(item, i) = {}
    BY <1>1, <2>1, <2>3
  <2>4. CASE ItemsOf(item, i) # {}
    <3>1. PICK s \in NewSession, first \in Activities \union {None},
               r \in Listings(item, ItemsOf(item, i)) :
                 /\ session' = [healed EXCEPT ![s] =
                       [itin |-> i, ended |-> FALSE, current |-> first,
                        status |-> IF first = None THEN "COMPLETED" ELSE "ACTIVE"]]
                 /\ progress' = [progress EXCEPT ![s] = StartingRows(i, first, r)]
      BY <2>1, <2>4
    <3>2. s \in Sessions /\ session[s].status = "NONE"
      BY DEF NewSession
    <3>3. session'[s].status # "NONE"
      BY <2>2, <3>1, <3>2
    <3>4. \A t \in Sessions : t # s => progress'[t] = progress[t]
      BY <2>2, <3>1
    <3> QED
      BY <3>2, <3>3, <3>4 DEF RowSteps, RowStep
  <2> QED
    BY <2>3, <2>4
<1> QED
  BY <1>2, <1>3, <1>4, <1>5, <1>6 DEF Next

-----------------------------------------------------------------------------
(* The sessions.                                                           *)

\* Every request carries the sessions along, but for the one that starts a trip.
LEMMA RequestCarries ==
    ASSUME IInv, Next
    PROVE  Carried \/ \E i \in Itineraries : startTrip(i)
<1>1. ASSUME NEW i \in Itineraries, EditItinerary(i) PROVE Carried
  BY <1>1, create_Step, addDay_Step, deleteItinerary_Step, addActivity_Step,
     reorderActivities_Step, optimizeRoute_Step, deleteDay_Step DEF EditItinerary
<1>2. ASSUME NEW a \in Activities, EditActivity(a) PROVE Carried
  BY <1>2, updateActivity_Step, deleteActivity_Step DEF EditActivity
<1>3. ASSUME NEW u \in Users, getActiveSession(u) PROVE Carried
  BY <1>3, getActiveSession_Step
<1>4. ASSUME NEW s \in Sessions, FollowTrip(s) PROVE Carried
  BY <1>4, finishTrip_Step, cancelTrip_Step, startActivity_Step, completeActivity_Step,
     skipActivity_Step, syncLocation_Step DEF FollowTrip
<1> QED
  BY <1>1, <1>2, <1>3, <1>4 DEF Next

\* Starting a trip ends the session it heals and begins a new one.
LEMMA StartingSessions ==
    ASSUME IInv, NEW i \in Itineraries, startTrip(i)
    PROVE  \/ \A t \in Sessions :
                IF t \in ActiveOf(Owner[i])
                THEN session'[t] = CloseSession(t, "CANCELLED") ELSE session'[t] = session[t]
           \/ session' = session
           \/ \E s \in NewSession, st \in {"ACTIVE", "COMPLETED"} :
                \A t \in Sessions :
                   IF t = s THEN session'[t].status = st /\ session'[t].itin = i
                   ELSE IF t \in ActiveOf(Owner[i])
                   THEN session'[t] = CloseSession(t, "CANCELLED") ELSE session'[t] = session[t]
<1>1. PICK healed \in IF ActiveOf(Owner[i]) = {} THEN {session}
                      ELSE {Healed(s) : s \in {t \in ActiveOf(Owner[i]) :
                              IsNewest(ActiveOf(Owner[i]), t) /\ Orphaned(t)}} :
        IF ItemsOf(item, i) = {}
        THEN session' = healed
        ELSE \E s \in NewSession, first \in Activities \union {None} :
               session' = [healed EXCEPT ![s] =
                     [itin |-> i, ended |-> FALSE, current |-> first,
                      status |-> IF first = None THEN "COMPLETED" ELSE "ACTIVE"]]
  BY DEF startTrip
<1>2. healed \in [Sessions -> SessionRecord]
  BY HealedSessions
<1>3. ASSUME NEW t \in Sessions
      PROVE  IF t \in ActiveOf(Owner[i]) THEN healed[t] = CloseSession(t, "CANCELLED")
             ELSE healed[t] = session[t]
  <2>1. CASE ActiveOf(Owner[i]) = {}
    BY <1>1, <2>1
  <2>2. CASE ActiveOf(Owner[i]) # {}
    <3>1. PICK q \in ActiveOf(Owner[i]) : healed = Healed(q)
      BY <1>1, <2>2
    <3>2. \A r \in ActiveOf(Owner[i]) : r = q
      BY <3>1, OwnerAssumption DEF IInv, OneActiveTrip
    <3>3. session \in [Sessions -> SessionRecord] /\ q \in Sessions
      BY DEF IInv, TypeOK, SessionRecord, ActiveOf
    <3> QED
      BY <3>1, <3>2, <3>3 DEF Healed
  <2> QED
    BY <2>1, <2>2
<1>4. CASE ItemsOf(item, i) = {}
  BY <1>1, <1>3, <1>4
<1>5. CASE ItemsOf(item, i) # {}
  <2>1. PICK s \in NewSession, first \in Activities \union {None} :
               session' = [healed EXCEPT ![s] =
                     [itin |-> i, ended |-> FALSE, current |-> first,
                      status |-> IF first = None THEN "COMPLETED" ELSE "ACTIVE"]]
    BY <1>1, <1>5
  <2>2. s \in Sessions
    BY DEF NewSession
  <2>3. /\ session'[s].status \in {"ACTIVE", "COMPLETED"}
        /\ session'[s].itin = i
        /\ \A t \in Sessions : t # s => session'[t] = healed[t]
    BY <1>2, <2>1, <2>2
  <2> QED
    BY <1>3, <2>3
<1> QED
  BY <1>4, <1>5

\* A session that has begun stays, and stays with its itinerary.
LEMMA BegunStays ==
    ASSUME IInv, Next, NEW s \in Sessions
    PROVE  session[s].status # "NONE" =>
               session'[s].status # "NONE" /\ session'[s].itin = session[s].itin
<1>1. CASE Carried
  BY <1>1 DEF Carried
<1>2. ASSUME NEW i \in Itineraries, startTrip(i)
      PROVE  session[s].status # "NONE" =>
                session'[s].status # "NONE" /\ session'[s].itin = session[s].itin
  <2>1. \/ session'[s] = session[s]
        \/ session'[s] = CloseSession(s, "CANCELLED")
        \/ session[s].status = "NONE"
    BY <1>2, StartingSessions DEF NewSession
  <2> QED
    BY <2>1 DEF CloseSession
<1> QED
  BY <1>1, <1>2, RequestCarries

-----------------------------------------------------------------------------
(* The theorems about the record of a trip.                                *)

\* No request writes rows for a session that has not begun.
LEMMA FreshRowsNext ==
    ASSUME IInv, FreshRows, [Next]_vars
    PROVE  FreshRows'
<1>1. CASE Next
  BY <1>1, RequestRowSteps, BegunStays DEF FreshRows, RowSteps, RowStep
<1>2. CASE UNCHANGED vars
  BY <1>2 DEF vars, FreshRows
<1> QED
  BY <1>1, <1>2

\* A session that has not begun never has rows.
THEOREM FreshRowsAlways == Spec => []FreshRows
<1>1. Init => FreshRows
  BY DEF Init, FreshRows
<1>2. IInv /\ FreshRows /\ [Next]_vars => FreshRows'
  BY FreshRowsNext
<1> QED
  BY <1>1, <1>2, Invariant, PTL DEF Spec

\* What an edit, a reconciliation or a request does to rows and items, it never changes a
\* row of a session that has ended: the row can only go with its activity.
THEOREM HistoryFrozenAlways == Spec => HistoryFrozen
<1>1. IInv /\ [Next]_vars =>
        [\A s \in Sessions : session[s].status \in {"COMPLETED", "CANCELLED"} =>
            \A a \in Activities :
                \/ progress'[s][a] = progress[s][a]
                \/ progress'[s][a] = NoRow /\ item'[a].itin = None]_vars
  BY RequestRowSteps DEF RowSteps, RowStep
<1> QED
  BY <1>1, Invariant, PTL DEF Spec, HistoryFrozen

\* A row that the user completed is never sent back by anything.
THEOREM CompletedPreservedAlways == Spec => CompletedPreserved
<1>1. IInv /\ FreshRows /\ [Next]_vars =>
        [\A s \in Sessions, a \in Activities : progress[s][a].status = "COMPLETED" =>
            progress'[s][a].status \in {"COMPLETED", "SKIPPED", "ABSENT"}]_vars
  BY RequestRowSteps DEF RowSteps, RowStep, FreshRows, NoRow
<1> QED
  BY <1>1, Invariant, FreshRowsAlways, PTL DEF Spec, CompletedPreserved

-----------------------------------------------------------------------------
(* The sessions implement TripLifecycle.                                   *)

Ends(s) == session[s].status = "ACTIVE" /\ session'[s].status # "ACTIVE"

\* A request ends one session at most.
LEMMA OneEnds ==
    ASSUME IInv, Next, NEW s \in Sessions, NEW t \in Sessions, Ends(s), Ends(t)
    PROVE  s = t
<1> DEFINE Alone == \E q \in Sessions : \A r \in Sessions : r # q => session'[r] = session[r]
<1> session \in [Sessions -> SessionRecord]
  BY DEF IInv, TypeOK, SessionRecord
<1>1. ASSUME Alone PROVE s = t
  BY <1>1 DEF Ends
<1>2. ASSUME session' = session PROVE s = t
  BY <1>2 DEF Ends
<1>3. ASSUME NEW u, \A q \in Sessions : Ends(q) => q \in ActiveOf(u), u \in Users
      PROVE  s = t
  BY <1>3 DEF IInv, OneActiveTrip
<1>4. ASSUME NEW i \in Itineraries, reconcileItineraryChange(i) PROVE s = t
  BY <1>1, <1>2, <1>4 DEF reconcileItineraryChange
<1>5. ASSUME NEW i \in Itineraries, CancelSessionsOf(i) PROVE s = t
  <2>1. \A q \in Sessions : Ends(q) => q \in ActiveOf(Owner[i])
    BY <1>5 DEF CancelSessionsOf, ActiveOn, ActiveOf, Ends
  <2> QED
    BY <1>3, <2>1, OwnerAssumption
<1>6. ASSUME NEW i \in Itineraries, EditItinerary(i) PROVE s = t
  BY <1>2, <1>4, <1>5, <1>6 DEF EditItinerary, createWithTransaction, addDay, deleteItinerary,
     addActivity, reorderActivities, optimizeRoute, deleteDay
<1>7. ASSUME NEW a \in Activities, EditActivity(a) PROVE s = t
  <2>1. item[a].itin \in Itineraries /\ reconcileItineraryChange(item[a].itin)
    BY <1>7 DEF EditActivity, updateActivity, deleteActivity, IInv, TypeOK
  <2> QED
    BY <1>4, <2>1
<1>8. ASSUME NEW u \in Users, getActiveSession(u) PROVE s = t
  BY <1>1, <1>8 DEF getActiveSession, Healed, ActiveOf
<1>9. ASSUME NEW q \in Sessions, FollowTrip(q) PROVE s = t
  <2>1. \A r \in Sessions : r # q => session'[r] = session[r]
    BY <1>9 DEF FollowTrip, finishTrip, cancelTrip, startActivity, completeActivity,
       skipActivity, syncLocation, Advance
  <2> QED
    BY <1>1, <2>1
<1>10. ASSUME NEW i \in Itineraries, startTrip(i) PROVE s = t
  <2>1. \A q \in Sessions : Ends(q) => q \in ActiveOf(Owner[i])
    BY <1>10, StartingSessions DEF Ends, NewSession
  <2> QED
    BY <1>3, <2>1, OwnerAssumption
<1> QED
  BY <1>6, <1>7, <1>8, <1>9, <1>10 DEF Next

\* Of a step that begins no session, the abstract specification sees the end of one, or
\* nothing.
LEMMA CarriedRefines ==
    ASSUME IInv, Next, Carried
    PROVE  [Lifecycle!Next]_(Lifecycle!lifecycle)
<1>1. ASSUME NEW s \in Sessions
      PROVE  /\ session[s].status \in SessionStatus /\ session'[s].status \in SessionStatus
             /\ session[s].status = "NONE" <=> session'[s].status = "NONE"
             /\ session'[s].itin = session[s].itin
             /\ session'[s].status = "ACTIVE" => session[s].status = "ACTIVE"
  BY DEF Carried, IInv, TypeOK, SessionRecord
<1>2. CASE \A s \in Sessions : ~ Ends(s)
  <2>1. \A s \in Sessions : session'[s].status = "ACTIVE" <=> session[s].status = "ACTIVE"
    BY <1>1, <1>2 DEF Ends
  <2>2. openSessions' = openSessions
    BY <1>1, <2>1 DEF openSessions, ActiveOf
  <2>3. overSessions' = overSessions
    BY <1>1, <2>1 DEF overSessions, SessionStatus
  <2> QED
    BY <2>2, <2>3 DEF Lifecycle!lifecycle
<1>3. ASSUME NEW s \in Sessions, Ends(s)
      PROVE  Lifecycle!Next
  <2> DEFINE u == Owner[session[s].itin]
  <2>1. session[s].itin \in Itineraries /\ u \in Users
    BY <1>3, OwnerAssumption DEF Ends, IInv, TypeOK, References
  <2> HIDE DEF u
  <2>2. s \in ActiveOf(u) /\ ActiveOf(u) = {s}
    BY <1>3, <2>1 DEF u, Ends, ActiveOf, IInv, OneActiveTrip
  <2>3. \A t \in Sessions : t # s =>
           (session'[t].status = "ACTIVE" <=> session[t].status = "ACTIVE")
    BY <1>1, <1>3, OneEnds DEF Ends
  <2>4. session'[s].status # "ACTIVE" /\ session[s].status = "ACTIVE"
    BY <1>3 DEF Ends
  <2>5. \A v \in Users : ActiveOf(v)' = IF v = u THEN {} ELSE ActiveOf(v)
    BY <1>1, <2>2, <2>3, <2>4 DEF u, ActiveOf
  <2>6. openSessions' = [openSessions EXCEPT ![u] = {}]
    BY <2>5 DEF openSessions
  <2>7. openSessions[u] = {s}
    BY <2>1, <2>2 DEF openSessions
  <2>8. overSessions' = overSessions \union {s}
    BY <1>1, <2>3, <2>4 DEF overSessions, SessionStatus
  <2>9. Lifecycle!End(u)
    BY <2>6, <2>7, <2>8 DEF Lifecycle!End
  <2> QED
    BY <2>1, <2>9 DEF Lifecycle!Next
<1> QED
  BY <1>2, <1>3

\* Starting a trip is, to the abstract specification, its beginning, together with the
\* end of the trip it displaces; or the end alone, or nothing.
LEMMA StartRefines ==
    ASSUME IInv, NEW i \in Itineraries, startTrip(i)
    PROVE  [Lifecycle!Next]_(Lifecycle!lifecycle)
<1> DEFINE u == Owner[i]
<1> u \in Users
  BY OwnerAssumption
<1> HIDE DEF u
<1>1. ASSUME NEW s \in Sessions, s \in ActiveOf(u)
      PROVE  /\ session[s].status = "ACTIVE"
             /\ CloseSession(s, "CANCELLED").status = "CANCELLED"
             /\ CloseSession(s, "CANCELLED").itin = session[s].itin
  BY <1>1 DEF ActiveOf, CloseSession
<1>2. openSessions[u] = ActiveOf(u)
  BY DEF openSessions
<1>3. \A v \in Users : \A s \in ActiveOf(v) : s \in ActiveOf(u) => v = u
  BY DEF ActiveOf
<1>4. CASE session' = session
  BY <1>4 DEF Lifecycle!lifecycle, openSessions, overSessions, ActiveOf
<1>5. CASE \A t \in Sessions : IF t \in ActiveOf(u)
                THEN session'[t] = CloseSession(t, "CANCELLED") ELSE session'[t] = session[t]
  <2>1. \A v \in Users : ActiveOf(v)' = IF v = u THEN {} ELSE ActiveOf(v)
    BY <1>1, <1>3, <1>5 DEF ActiveOf
  <2>2. openSessions' = [openSessions EXCEPT ![u] = {}]
    BY <2>1 DEF openSessions
  <2>3. overSessions' = overSessions \union ActiveOf(u)
    BY <1>1, <1>5 DEF overSessions, ActiveOf
  <2>4. CASE ActiveOf(u) # {}
    BY <1>2, <2>2, <2>3, <2>4 DEF Lifecycle!End, Lifecycle!Next
  <2>5. CASE ActiveOf(u) = {}
    <3>1. openSessions' = openSessions /\ overSessions' = overSessions
      BY <1>2, <2>2, <2>3, <2>5 DEF openSessions
    <3> QED
      BY <3>1 DEF Lifecycle!lifecycle
  <2> QED
    BY <2>4, <2>5
<1>6. ASSUME NEW s \in NewSession, NEW st \in {"ACTIVE", "COMPLETED"},
             \A t \in Sessions :
                IF t = s THEN session'[t].status = st /\ session'[t].itin = i
                ELSE IF t \in ActiveOf(u)
                THEN session'[t] = CloseSession(t, "CANCELLED") ELSE session'[t] = session[t]
      PROVE  Lifecycle!Next
  <2>1. s \in Sessions /\ session[s].status = "NONE"
    BY DEF NewSession
  <2>2. Lifecycle!Fresh(s)
    BY <2>1 DEF Lifecycle!Fresh, openSessions, overSessions, ActiveOf
  <2>3. \A v \in Users : ActiveOf(v)' =
           IF v # u THEN ActiveOf(v) ELSE IF st = "ACTIVE" THEN {s} ELSE {}
    BY <1>1, <1>3, <1>6, <2>1 DEF ActiveOf, u
  <2>4. overSessions' = overSessions \union ActiveOf(u) \union (IF st = "ACTIVE" THEN {} ELSE {s})
    BY <1>1, <1>6, <2>1 DEF overSessions, ActiveOf
  <2>5. CASE st = "ACTIVE"
    <3>1. openSessions' = [openSessions EXCEPT ![u] = {s}]
      BY <2>3, <2>5 DEF openSessions
    <3>2. Lifecycle!Begin(u, s)
      BY <1>2, <2>2, <2>4, <2>5, <3>1 DEF Lifecycle!Begin
    <3> QED
      BY <2>1, <3>2 DEF Lifecycle!Next
  <2>6. CASE st = "COMPLETED"
    <3>1. openSessions' = [openSessions EXCEPT ![u] = {}]
      BY <2>3, <2>6 DEF openSessions
    <3>2. Lifecycle!BeginDone(u, s)
      BY <1>2, <2>2, <2>4, <2>6, <3>1 DEF Lifecycle!BeginDone
    <3> QED
      BY <2>1, <3>2 DEF Lifecycle!Next
  <2> QED
    BY <2>5, <2>6
<1> QED
  BY <1>4, <1>5, <1>6, StartingSessions DEF u

\* Whatever heals, cascades or reconciles, all that a user can tell of the lifetimes of
\* sessions is what TripLifecycle allows.
THEOREM Refinement == Spec => LifecycleSpec
<1>1. Init => Lifecycle!Init
  BY DEF Init, NoSession, Lifecycle!Init, openSessions, overSessions, ActiveOf
<1>2. IInv /\ [Next]_vars => [Lifecycle!Next]_(Lifecycle!lifecycle)
  <2>1. CASE UNCHANGED vars
    BY <2>1 DEF vars, Lifecycle!lifecycle, openSessions, overSessions, ActiveOf
  <2>2. ASSUME IInv, Next PROVE [Lifecycle!Next]_(Lifecycle!lifecycle)
    BY <2>2, RequestCarries, CarriedRefines, StartRefines
  <2> QED
    BY <2>1, <2>2
<1> QED
  BY <1>1, <1>2, Invariant, PTL DEF Spec, LifecycleSpec, Lifecycle!Spec

-----------------------------------------------------------------------------
(* The rows of an ACTIVE session are in the order of its itinerary.        *)


\* What a step may do to the rows of a session that is ACTIVE after it: leave them and
\* the places of their activities as they are, or number them anew.
Untouched(t) ==
    /\ session[t].status = "ACTIVE"
    /\ \A a \in Present(progress'[t]) :
          /\ a \in Present(progress[t]) /\ progress'[t][a].idx = progress[t][a].idx
          /\ item'[a].day = item[a].day /\ item'[a].idx = item[a].idx

Renumbered(t) ==
    \E i \in Itineraries : \E r \in Listings(item', ItemsOf(item', i)) :
        \A a \in Present(progress'[t]) :
            a \in ItemsOf(item', i) /\ progress'[t][a].idx = r[a]

OrderSteps ==
    \A t \in Sessions : session'[t].status = "ACTIVE" => Untouched(t) \/ Renumbered(t)

\* A step that does to the rows what OrderSteps says keeps them in order.
LEMMA OrderStepsKeep ==
    ASSUME ActiveOrderAgrees, OrderSteps
    PROVE  ActiveOrderAgrees'
<1> SUFFICES ASSUME NEW t \in Sessions, session'[t].status = "ACTIVE",
                    NEW a \in Present(progress'[t]), NEW b \in Present(progress'[t])
             PROVE  /\ Before(item', a, b) => progress'[t][a].idx < progress'[t][b].idx
                    /\ a # b => progress'[t][a].idx # progress'[t][b].idx
  BY DEF ActiveOrderAgrees
<1>1. CASE Untouched(t)
  <2>1. Before(item', a, b) <=> Before(item, a, b)
    BY <1>1 DEF Untouched, Before
  <2> QED
    BY <1>1, <2>1 DEF Untouched, ActiveOrderAgrees
<1>2. CASE Renumbered(t)
  BY <1>2 DEF Renumbered, Listings
<1> QED
  BY <1>1, <1>2 DEF OrderSteps

-----------------------------------------------------------------------------
(* The requests.                                                           *)

\* The cascade leaves the rows of the sessions that follow other itineraries alone.
LEMMA ElsewhereUntouched ==
    ASSUME IInv, NEW i \in Itineraries, NEW t \in Sessions,
           session[t].status = "ACTIVE", session[t].itin # i,
           \A a \in Activities : item[a].itin \notin {i, None} => item'[a] = item[a],
           progress'[t] = CascadeRows(item')[t]
    PROVE  Untouched(t)
<1>1. session[t].itin # None
  BY DEF IInv, References
<1>2. ASSUME NEW a \in Present(progress'[t])
      PROVE  a \in Present(progress[t]) /\ progress'[t][a] = progress[t][a]
  BY <1>2, CascadeStep DEF Present, NoRow
<1>3. \A a \in Present(progress[t]) : item[a].itin = session[t].itin
  BY DEF IInv, ActiveMirrorsPlan, ItemsOf
<1>4. \A a \in Present(progress'[t]) : item'[a] = item[a]
  BY <1>1, <1>2, <1>3 DEF Present
<1> QED
  BY <1>2, <1>4 DEF Untouched

\* A reconciliation numbers the rows of the session that follows the itinerary.
LEMMA ReconcileOrders ==
    ASSUME IInv, NEW i \in Itineraries, item' \in ItemTable,
           \A a \in Activities : item[a].itin \notin {i, None} => item'[a] = item[a],
           reconcileItineraryChange(i)
    PROVE  OrderSteps
<1>1. CASE ActiveOn(i) = {}
  <2>1. session' = session /\ progress' = CascadeRows(item')
    BY <1>1 DEF reconcileItineraryChange
  <2>2. \A t \in Sessions : session[t].status = "ACTIVE" => session[t].itin # i
    BY <1>1 DEF ActiveOn
  <2> QED
    BY <2>1, <2>2, ElsewhereUntouched DEF OrderSteps
<1>2. CASE ActiveOn(i) # {}
  <2>1. PICK s0 \in Sessions, n \in Activities \union {None},
             r \in Listings(item', ItemsOf(item', i)) :
          LET rows == ReconciledRows(progress[s0], item', i, r)
              kept == session[s0].current \in ItemsOf(item', i)
          IN  /\ IsNewest(ActiveOn(i), s0)
              /\ IF kept THEN n = None ELSE IsFirst(rows, Unfinished(rows), n)
              /\ progress' = [CascadeRows(item') EXCEPT ![s0] = Promote(rows, n)]
              /\ \E rec : session' = [session EXCEPT ![s0] = rec]
    BY <1>2 DEF reconcileItineraryChange
  <2> DEFINE rows == ReconciledRows(progress[s0], item', i, r)
  <2>2. session[s0].status = "ACTIVE" /\ session[s0].itin = i
    BY <2>1 DEF IsNewest, ActiveOn
  <2>3. \A t \in Sessions : t # s0 /\ session[t].status = "ACTIVE" => session[t].itin # i
    BY <2>2, OwnerAssumption DEF IInv, OneActiveTrip, ActiveOf
  <2>4. progress'[s0] = Promote(rows, n)
    BY <2>1 DEF CascadeRows
  <2>5. ASSUME NEW t \in Sessions, t # s0
        PROVE  session'[t] = session[t] /\ progress'[t] = CascadeRows(item')[t]
    BY <2>1, <2>5 DEF CascadeRows, IInv, TypeOK
  <2>6. n = None \/ n \in Unfinished(rows)
    BY <2>1 DEF IsFirst
  <2>7. progress[s0] \in Rows
    BY DEF IInv, TypeOK, Rows
  <2>8. rows \in Rows /\ Present(rows) = ItemsOf(item', i)
    BY <2>7, ReconciledRowsFit
  <2>9. Present(Promote(rows, n)) = Present(rows)
    BY <2>6, <2>8, PromoteUnfinished
  <2>10. \A a \in Activities : Promote(rows, n)[a].idx = rows[a].idx
    BY <2>8 DEF Promote, Rows
  <2>11. \A a \in ItemsOf(item', i) : rows[a].idx = r[a]
    BY DEF ReconciledRows, ItemsOf
  <2>12. Renumbered(s0)
    BY <2>4, <2>8, <2>9, <2>10, <2>11 DEF Renumbered, ItemsOf
  <2> QED
    BY <2>3, <2>5, <2>12, ElsewhereUntouched DEF OrderSteps
<1> QED
  BY <1>1, <1>2

\* A request that leaves the places of activities and the numbers of rows alone.
LEMMA SamePlaces ==
    ASSUME IInv, Carried,
           \A t \in Sessions, a \in Activities : session[t].status = "ACTIVE" =>
               /\ progress'[t][a].idx = progress[t][a].idx
               /\ progress'[t][a].status # "ABSENT" => progress[t][a].status # "ABSENT",
           \A a \in Activities : item[a].itin # None =>
               item'[a].day = item[a].day /\ item'[a].idx = item[a].idx
    PROVE  OrderSteps
<1> SUFFICES ASSUME NEW t \in Sessions, session'[t].status = "ACTIVE"
             PROVE  Untouched(t)
  BY DEF OrderSteps
<1>1. session[t].status = "ACTIVE" /\ session[t].itin # None
  BY DEF Carried, IInv, References
<1>2. \A a \in Present(progress[t]) : item[a].itin # None
  BY <1>1 DEF IInv, ActiveMirrorsPlan, ItemsOf
<1> QED
  BY <1>1, <1>2 DEF Untouched, Present

\* Edits of days and of the itinerary keep the rows in order.
LEMMA EditOrders ==
    ASSUME IInv, NEW i \in Itineraries, EditItinerary(i)
    PROVE  OrderSteps
<1>1. CASE createWithTransaction(i)
  <2>1. Carried
    BY <1>1, create_Step
  <2>2. \A a \in Activities : item[a].itin # None => item'[a] = item[a]
    <3>1. \A a \in Activities : item[a].itin # None => ~ (a > lastItem)
      BY DEF IInv, References, NoItem
    <3>2. \A a \in Activities : ~ (a > lastItem) => item'[a] = item[a]
      BY <1>1 DEF createWithTransaction, Activities, IInv, TypeOK
    <3> QED
      BY <3>1, <3>2
  <2>3. progress' = progress
    BY <1>1 DEF createWithTransaction
  <2> QED
    BY <2>1, <2>2, <2>3, SamePlaces
<1>2. CASE addDay(i) \/ deleteItinerary(i)
  <2>1. Carried
    BY <1>2, addDay_Step, deleteItinerary_Step
  <2>2. item' = item /\ progress' = progress
    BY <1>2 DEF addDay, deleteItinerary
  <2> QED
    BY <2>1, <2>2, SamePlaces
<1>3. ASSUME NEW d \in 1 .. MaxDays, addActivity(i, d) PROVE OrderSteps
  <2>1. item' \in ItemTable
    BY <1>3, addActivity_Step DEF TablesFit
  <2>2. \A a \in Activities : a # lastItem + 1 => item'[a] = item[a]
    BY <1>3 DEF addActivity, IInv, TypeOK
  <2>3. item[lastItem + 1].itin = None
    BY <1>3, BoundsAssumption DEF addActivity, IInv, TypeOK, References, NoItem, Activities
  <2>4. reconcileItineraryChange(i)
    BY <1>3 DEF addActivity
  <2> QED
    BY <2>1, <2>2, <2>3, <2>4, ReconcileOrders
<1>4. ASSUME NEW d \in 1 .. MaxDays, reorderActivities(i, d) PROVE OrderSteps
  <2>1. item' \in ItemTable
    BY <1>4, reorderActivities_Step DEF TablesFit
  <2>2. \A a \in Activities : item[a].itin # i => item'[a] = item[a]
    BY <1>4 DEF reorderActivities, Reindexed, DayItems, ItemsOf
  <2>3. reconcileItineraryChange(i)
    BY <1>4 DEF reorderActivities
  <2> QED
    BY <2>1, <2>2, <2>3, ReconcileOrders
<1>5. ASSUME NEW d \in 1 .. MaxDays, deleteDay(i, d) PROVE OrderSteps
  <2>1. item' \in ItemTable /\ Carried
    BY <1>5, deleteDay_Step DEF TablesFit
  <2>2. \A a \in Activities : item[a].itin # i => item'[a] = item[a]
    BY <1>5 DEF deleteDay, DayItems, ItemsOf
  <2>3. CASE reconcileItineraryChange(i)
    BY <2>1, <2>2, <2>3, ReconcileOrders
  <2>4. CASE CancelSessionsOf(i) /\ progress' = CascadeRows(item')
    <3>1. ASSUME NEW t \in Sessions, session'[t].status = "ACTIVE"
          PROVE  session[t].status = "ACTIVE" /\ session[t].itin # i
      BY <2>4, <3>1, CancelSessions
    <3> QED
      BY <2>2, <2>4, <3>1, ElsewhereUntouched DEF OrderSteps
  <2> QED
    BY <1>5, <2>3, <2>4 DEF deleteDay
<1>6. CASE optimizeRoute(i)
  <2>1. item' \in ItemTable
    BY <1>6, optimizeRoute_Step DEF TablesFit
  <2>2. \A a \in Activities : item[a].itin # i => item'[a] = item[a]
    BY <1>6 DEF optimizeRoute, Reindexed, ItemsOf
  <2>3. reconcileItineraryChange(i)
    BY <1>6 DEF optimizeRoute
  <2> QED
    BY <2>1, <2>2, <2>3, ReconcileOrders
<1> QED
  BY <1>1, <1>2, <1>3, <1>4, <1>5, <1>6 DEF EditItinerary

\* So do edits of its activities: each ends in a reconciliation.
LEMMA ActivityOrders ==
    ASSUME IInv, NEW b \in Activities, EditActivity(b)
    PROVE  OrderSteps
<1> DEFINE i == item[b].itin
<1>1. i \in Itineraries /\ reconcileItineraryChange(i)
  BY DEF EditActivity, updateActivity, deleteActivity, IInv, TypeOK
<1>2. item' \in ItemTable
  BY updateActivity_Step, deleteActivity_Step DEF EditActivity, TablesFit
<1>3. ASSUME NEW a \in Activities, item[a].itin # i PROVE item'[a] = item[a]
  <2>1. CASE updateActivity(b)
    BY <1>3, <2>1 DEF updateActivity, IInv, TypeOK
  <2>2. CASE deleteActivity(b)
    BY <1>3, <2>2 DEF deleteActivity, DayItems, ItemsOf
  <2> QED
    BY <2>1, <2>2 DEF EditActivity
<1> HIDE DEF i
<1> QED
  BY <1>1, <1>2, <1>3, ReconcileOrders

\* What a traveller does on the way changes neither places nor numbers.
LEMMA FollowOrders ==
    ASSUME IInv, NEW s \in Sessions, FollowTrip(s)
    PROVE  OrderSteps
<1>1. Carried
  BY finishTrip_Step, cancelTrip_Step, startActivity_Step, completeActivity_Step,
     skipActivity_Step, syncLocation_Step DEF FollowTrip
<1>2. progress \in [Sessions -> Rows] /\ item \in ItemTable
  BY DEF IInv, TypeOK, Rows, ItemTable
<1>3. ASSUME NEW b \in Activities
      PROVE  item'[b].day = item[b].day /\ item'[b].idx = item[b].idx
  <2>1. item' = item \/ \E a \in Activities : item' = [item EXCEPT ![a].done = TRUE]
    BY DEF FollowTrip, finishTrip, cancelTrip, startActivity, completeActivity, skipActivity,
       syncLocation
  <2>2. ASSUME NEW a \in Activities, item' = [item EXCEPT ![a].done = TRUE]
        PROVE  item'[b].day = item[b].day /\ item'[b].idx = item[b].idx
    BY <1>2, <2>2 DEF ItemTable
  <2> QED
    BY <2>1, <2>2
<1>4. ASSUME NEW a \in Activities, NEW st \in {"COMPLETED", "SKIPPED"}, NEW closes,
             progress[s][a].status # "ABSENT", Advance(s, a, st, closes),
             NEW t \in Sessions, NEW b \in Activities
      PROVE  /\ progress'[t][b].idx = progress[t][b].idx
             /\ progress'[t][b].status # "ABSENT" => progress[t][b].status # "ABSENT"
  <2> DEFINE rows == [progress[s] EXCEPT ![a].status = st]
  <2>1. PICK n \in Activities \union {None} :
           /\ IsFirst(rows, NotStarted(rows) \ {a}, n)
           /\ progress' = [progress EXCEPT ![s] = Promote(rows, n)]
    BY <1>4 DEF Advance
  <2>2. rows \in Rows
    BY <1>2 DEF Rows, RowStatus
  <2>3. rows[b].idx = progress[s][b].idx /\ (rows[b].status = "ABSENT" <=> progress[s][b].status = "ABSENT")
    BY <1>2, <1>4 DEF Rows
  <2>4. n = None \/ n \in NotStarted(rows)
    BY <2>1 DEF IsFirst
  <2> HIDE DEF rows
  <2>5. /\ Promote(rows, n)[b].idx = rows[b].idx
        /\ Promote(rows, n)[b].status # "ABSENT" => rows[b].status # "ABSENT"
    BY <2>2, <2>4 DEF Promote, Rows, NotStarted
  <2> QED
    BY <1>2, <2>1, <2>3, <2>5
<1>5. ASSUME NEW t \in Sessions, NEW b \in Activities
      PROVE  /\ progress'[t][b].idx = progress[t][b].idx
             /\ progress'[t][b].status # "ABSENT" => progress[t][b].status # "ABSENT"
  <2>1. CASE finishTrip(s) \/ cancelTrip(s)
    BY <2>1 DEF finishTrip, cancelTrip
  <2>2. ASSUME NEW a \in Activities, startActivity(s, a)
        PROVE  /\ progress'[t][b].idx = progress[t][b].idx
               /\ progress'[t][b].status # "ABSENT" => progress[t][b].status # "ABSENT"
    BY <1>2, <2>2 DEF startActivity, Rows
  <2>3. ASSUME NEW a \in Activities,
               completeActivity(s, a) \/ skipActivity(s, a) \/ syncLocation(s, a)
        PROVE  /\ progress'[t][b].idx = progress[t][b].idx
               /\ progress'[t][b].status # "ABSENT" => progress[t][b].status # "ABSENT"
    BY <1>4, <2>3 DEF completeActivity, skipActivity, syncLocation
  <2> QED
    BY <2>1, <2>2, <2>3 DEF FollowTrip
<1> QED
  BY <1>1, <1>3, <1>5, SamePlaces

\* The rows of a new session are numbered along the itinerary.
LEMMA StartOrders ==
    ASSUME IInv, NEW i \in Itineraries, startTrip(i)
    PROVE  OrderSteps
<1>1. item' = item /\ item' \in ItemTable
  BY DEF startTrip, IInv, TypeOK, ItemTable
<1>2. progress \in [Sessions -> Rows]
  BY DEF IInv, TypeOK, Rows
<1>3. PICK healed \in IF ActiveOf(Owner[i]) = {} THEN {session}
                      ELSE {Healed(s) : s \in {t \in ActiveOf(Owner[i]) :
                              IsNewest(ActiveOf(Owner[i]), t) /\ Orphaned(t)}} :
        IF ItemsOf(item, i) = {}
        THEN session' = healed /\ UNCHANGED progress
        ELSE \E s \in NewSession, first \in Activities \union {None},
                r \in Listings(item, ItemsOf(item, i)) :
               /\ \E rec : session' = [healed EXCEPT ![s] = rec]
               /\ progress' = [progress EXCEPT ![s] = StartingRows(i, first, r)]
  BY DEF startTrip
<1>4. /\ healed \in [Sessions -> SessionRecord]
      /\ \A t \in Sessions : healed[t].status = "ACTIVE" => session[t].status = "ACTIVE"
  BY HealedSessions
<1>5. ASSUME NEW t \in Sessions, session'[t] = healed[t], progress'[t] = progress[t],
             session'[t].status = "ACTIVE"
      PROVE  Untouched(t)
  BY <1>1, <1>4, <1>5 DEF Untouched
<1>6. CASE ItemsOf(item, i) = {}
  BY <1>3, <1>5, <1>6 DEF OrderSteps
<1>7. CASE ItemsOf(item, i) # {}
  <2>1. PICK s \in NewSession, first \in Activities \union {None},
             r \in Listings(item, ItemsOf(item, i)) :
           /\ \E rec : session' = [healed EXCEPT ![s] = rec]
           /\ progress' = [progress EXCEPT ![s] = StartingRows(i, first, r)]
    BY <1>3, <1>7
  <2>2. s \in Sessions
    BY DEF NewSession
  <2>3. \A t \in Sessions : t # s => session'[t] = healed[t] /\ progress'[t] = progress[t]
    BY <1>2, <1>4, <2>1
  <2>4. progress'[s] = StartingRows(i, first, r)
    BY <1>2, <2>1, <2>2
  <2>5. Renumbered(s)
    <3>1. \A a \in Present(progress'[s]) : a \in ItemsOf(item', i) /\ progress'[s][a].idx = r[a]
      BY <1>1, <2>4 DEF StartingRows, Present, ItemsOf, NoRow
    <3>2. r \in Listings(item', ItemsOf(item', i))
      BY <1>1, <2>1
    <3> QED
      BY <3>1, <3>2 DEF Renumbered
  <2> QED
    BY <1>5, <2>2, <2>3, <2>5 DEF OrderSteps
<1> QED
  BY <1>6, <1>7

\* Every request, and a step that changes nothing, keeps the rows in order.
LEMMA NextOrders ==
    ASSUME IInv, ActiveOrderAgrees, [Next]_vars
    PROVE  ActiveOrderAgrees'
<1>1. CASE Next
  <2>1. ASSUME NEW u \in Users, getActiveSession(u) PROVE OrderSteps
    BY <2>1, getActiveSession_Step, SamePlaces DEF getActiveSession
  <2> QED
    BY <1>1, <2>1, EditOrders, ActivityOrders, FollowOrders, StartOrders, OrderStepsKeep DEF Next
<1>2. CASE UNCHANGED vars
  BY <1>2 DEF vars, ActiveOrderAgrees
<1> QED
  BY <1>1, <1>2

\* The rows of an ACTIVE session always have an order of their own, which is one that the
\* days and order indices of the itinerary allow, however it is edited.
THEOREM ActiveOrderAlways == Spec => []ActiveOrderAgrees
<1>1. Init => ActiveOrderAgrees
  BY DEF Init, NoSession, ActiveOrderAgrees
<1>2. IInv /\ ActiveOrderAgrees /\ [Next]_vars => ActiveOrderAgrees'
  BY NextOrders
<1> QED
  BY <1>1, <1>2, Invariant, PTL DEF Spec

=============================================================================
