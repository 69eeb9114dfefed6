----------------------- MODULE TripSessionStepsProofs -----------------------
(* Proofs about TripSessionSteps: however many requests overlap, the mark of *)
(* a completed activity is not lost, as long as no call fails.               *)
EXTENDS TripSessionSteps, FiniteSetTheorems, TLAPS

\* A handler's local variables are those of Idle.
Shaped(r) ==
    /\ DOMAIN r = {"op", "pc", "s", "a", "next", "ends", "seen", "seenDone", "add", "del"}
    /\ r = [x \in DOMAIN r |-> r[x]]

\* The tables that the proof is about.
TablesFit ==
    /\ row \in [Sessions -> [Activities -> RowStatus]]
    /\ req = [p \in Slots |-> req[p]]
    /\ \A p \in Slots : Shaped(req[p])
    /\ failures = 0

\* Rows refer to activities that exist: the foreign key, and its cascade.
RowsRefer == \A s \in Sessions, a \in Activities : row[s][a] # "ABSENT" => a \in items

\* What a request has read as completed stays completed.
SeenStaysDone == \A p \in Slots : req[p].seenDone \subseteq done

\* The inductive invariant behind FlagFollowsRow.
FlagInv == TablesFit /\ RowsRefer /\ SeenStaysDone /\ FlagFollowsRow

\* The mark of a row is there after a step of p that leaves r.
Marked(p, r) ==
    \A s \in Sessions, a \in Activities : row'[s][a] = "COMPLETED" =>
        \/ a \in done'
        \/ r.pc = "flagItem" /\ r.a = a
        \/ row[s][a] = "COMPLETED" /\ ~ (At(p, "flagItem") /\ req[p].a = a)

\* What a step of p has to do to keep the invariant, if it goes on with r.
LEMMA StepKeeps ==
    ASSUME FlagInv, NEW p \in Slots, NEW r, Goto(p, r), Shaped(r),
           failures' = failures,
           row' \in [Sessions -> [Activities -> RowStatus]],
           done \subseteq done', r.seenDone \subseteq done',
           \A s \in Sessions, a \in Activities : row'[s][a] # "ABSENT" => a \in items',
           Marked(p, r)
    PROVE  FlagInv'
<1>1. \A q \in Slots : req'[q] = IF q = p THEN r ELSE req[q]
  BY DEF Goto, FlagInv, TablesFit
<1>2. req' = [q \in Slots |-> req'[q]]
  BY DEF Goto, FlagInv, TablesFit
<1>3. \A q \in Slots : Shaped(req[q])
  BY DEF FlagInv, TablesFit
<1>4. \A q \in Slots : Shaped(req'[q])
  BY <1>1, <1>3
<1>5. TablesFit'
  BY <1>2, <1>4 DEF TablesFit, FlagInv, Shaped
<1>6. RowsRefer' /\ SeenStaysDone'
  BY <1>1 DEF FlagInv, RowsRefer, SeenStaysDone
<1>7. ASSUME NEW s \in Sessions, NEW a \in Activities, row'[s][a] = "COMPLETED"
      PROVE  \/ a \in done'
             \/ \E q \in Slots : req'[q].pc = "flagItem" /\ req'[q].a = a
  <2>1. CASE r.pc = "flagItem" /\ r.a = a
    BY <1>1, <2>1
  <2>2. CASE row[s][a] = "COMPLETED" /\ ~ (At(p, "flagItem") /\ req[p].a = a)
    BY <1>1, <2>2 DEF FlagInv, FlagFollowsRow, At
  <2> QED
    BY <1>7, <2>1, <2>2 DEF Marked
<1>8. FlagFollowsRow'
  BY <1>7 DEF FlagFollowsRow, At
<1> QED
  BY <1>5, <1>6, <1>8 DEF FlagInv

\* A step that changes no row and takes back no mark, and is not the one that sets it.
LEMMA SameRows ==
    ASSUME FlagInv, NEW p \in Slots, NEW r, Goto(p, r), Shaped(r),
           failures' = failures, row' = row, done \subseteq done',
           r.seenDone \subseteq done', items \subseteq items',
           ~ At(p, "flagItem")
    PROVE  FlagInv'
<1>1. row' \in [Sessions -> [Activities -> RowStatus]]
  BY DEF FlagInv, TablesFit
<1>2. \A s \in Sessions, a \in Activities : row'[s][a] # "ABSENT" => a \in items'
  BY DEF FlagInv, RowsRefer
<1>3. Marked(p, r)
  BY DEF Marked
<1> QED
  BY <1>1, <1>2, <1>3, StepKeeps

\* The end of a handler.
LEMMA IdleShaped == Shaped(Idle) /\ Idle.seenDone = {} /\ Idle.pc = "idle"
BY DEF Shaped, Idle

-----------------------------------------------------------------------------
(* Requests that begin.                                                    *)

\* All but a deletion leave rows alone; what startTrip reads as completed is.
LEMMA SubmitKeeps ==
    ASSUME FlagInv, NEW p \in Slots, Submit(p)
    PROVE  FlagInv'
<1>1. At(p, "idle") /\ failures' = failures /\ done' = done
  BY DEF Submit, readTrip, findOrphan, readToDelete, addActivity, deleteActivity, readToClose,
         readSession, Offered, plan
<1>2. ~ At(p, "flagItem")
  BY <1>1 DEF At
<1>3. ASSUME NEW a \in Activities, deleteActivity(p, a)
      PROVE  FlagInv'
  <2> DEFINE on == [Idle EXCEPT !.op = "deleteActivity", !.pc = "findSession"]
  <2>1. Goto(p, on)
    BY <1>3 DEF deleteActivity, Goto
  <2>8. Shaped(on) /\ on.seenDone = {}
    BY DEF Shaped, Idle
  <2>2. /\ items' = items \ {a}
        /\ row' = [s \in Sessions |-> [row[s] EXCEPT ![a] = "ABSENT"]]
    BY <1>3 DEF deleteActivity
  <2>3. row \in [Sessions -> [Activities -> RowStatus]]
    BY DEF FlagInv, TablesFit
  <2>4. row' \in [Sessions -> [Activities -> RowStatus]]
    BY <2>2, <2>3 DEF RowStatus
  <2>5. \A s \in Sessions, b \in Activities :
          row'[s][b] = IF b = a THEN "ABSENT" ELSE row[s][b]
    BY <2>2, <2>3
  <2>6. \A s \in Sessions, b \in Activities : row'[s][b] # "ABSENT" => b \in items'
    BY <2>2, <2>5 DEF FlagInv, RowsRefer
  <2>7. Marked(p, on)
    BY <1>2, <2>5 DEF Marked
  <2> HIDE DEF on
  <2> QED
    BY <1>1, <2>1, <2>4, <2>6, <2>7, <2>8, StepKeeps
<1>4. ASSUME NEW r, Goto(p, r), Shaped(r), r.seenDone \subseteq done, row' = row,
             items \subseteq items'
      PROVE  FlagInv'
  BY <1>1, <1>2, <1>4, SameRows
<1>5. CASE readTrip(p)
  <2> DEFINE on == [Idle EXCEPT !.op = "startTrip", !.pc = "findActive", !.seen = items,
                               !.seenDone = items \intersect done]
  <2>1. Goto(p, on)
    BY <1>5 DEF readTrip, Goto
  <2>3. Shaped(on) /\ on.seenDone \subseteq done
    BY DEF Shaped, Idle
  <2>2. row' = row /\ items' = items
    BY <1>5 DEF readTrip, plan
  <2> HIDE DEF on
  <2> QED
    BY <1>4, <2>1, <2>2, <2>3
<1>6. CASE findOrphan(p)
  <2> DEFINE on == [Idle EXCEPT !.op = "getActiveSession", !.pc = "heal", !.s = ActiveSession]
  <2>1. Goto(p, on)
    BY <1>6 DEF findOrphan, Goto
  <2>3. Shaped(on) /\ on.seenDone \subseteq done
    BY DEF Shaped, Idle
  <2>2. row' = row /\ items' = items
    BY <1>6 DEF findOrphan, plan
  <2> HIDE DEF on
  <2> QED
    BY <1>4, <2>1, <2>2, <2>3
<1>7. CASE readToDelete(p)
  <2> DEFINE on == [Idle EXCEPT !.op = "deleteItinerary", !.pc = "cancelAll"]
  <2>1. Goto(p, on)
    BY <1>7 DEF readToDelete, Goto
  <2>3. Shaped(on) /\ on.seenDone \subseteq done
    BY DEF Shaped, Idle
  <2>2. row' = row /\ items' = items
    BY <1>7 DEF readToDelete, plan
  <2> HIDE DEF on
  <2> QED
    BY <1>4, <2>1, <2>2, <2>3
<1>8. CASE addActivity(p)
  <2> DEFINE on == [Idle EXCEPT !.op = "addActivity", !.pc = "findSession"]
  <2>1. Goto(p, on)
    BY <1>8 DEF addActivity, Goto
  <2>3. Shaped(on) /\ on.seenDone \subseteq done
    BY DEF Shaped, Idle
  <2>2. row' = row /\ items \subseteq items'
    BY <1>8 DEF addActivity
  <2> HIDE DEF on
  <2> QED
    BY <1>4, <2>1, <2>2, <2>3
<1>9. ASSUME NEW s \in Sessions, NEW op \in CloseOps, readToClose(p, op, s)
      PROVE  FlagInv'
  <2> DEFINE on == [Idle EXCEPT !.op = op, !.pc = "close", !.s = s]
  <2>1. Goto(p, on)
    BY <1>9 DEF readToClose, Goto
  <2>3. Shaped(on) /\ on.seenDone \subseteq done
    BY DEF Shaped, Idle
  <2>2. row' = row /\ items' = items
    BY <1>9 DEF readToClose, plan
  <2> HIDE DEF on
  <2> QED
    BY <1>4, <2>1, <2>2, <2>3
<1>10. ASSUME NEW s \in Sessions, NEW op \in FollowOps, NEW a \in Activities,
              readSession(p, op, s, a)
       PROVE  FlagInv'
  <2> DEFINE on == [Idle EXCEPT !.op = op, !.pc = "findProgress", !.s = s, !.a = a]
  <2>1. Goto(p, on)
    BY <1>10 DEF readSession, Goto
  <2>3. Shaped(on) /\ on.seenDone \subseteq done
    BY DEF Shaped, Idle
  <2>2. row' = row /\ items' = items
    BY <1>10 DEF readSession, plan
  <2> HIDE DEF on
  <2> QED
    BY <1>4, <2>1, <2>2, <2>3
<1> QED
  BY <1>3, <1>5, <1>6, <1>7, <1>8, <1>9, <1>10 DEF Submit

-----------------------------------------------------------------------------
(* Requests that go on without writing rows.                               *)

\* Reading, and writing sessions.
LEMMA ReadKeeps ==
    ASSUME FlagInv, NEW p \in Slots,
           \/ findProgress(p) \/ listProgress(p) \/ updateSession(p) \/ close(p)
           \/ findActive(p) \/ heal(p) \/ cancelAll(p) \/ archive(p)
           \/ findSession(p) \/ readItinerary(p) \/ listExisting(p) \/ listRefreshed(p)
           \/ reconcileSession(p)
    PROVE  FlagInv'
<1>1. /\ row' = row /\ items' = items /\ done' = done /\ failures' = failures
      /\ ~ At(p, "flagItem")
  BY DEF findProgress, listProgress, updateSession, close, findActive, heal, cancelAll, archive,
         findSession, readItinerary, listExisting, listRefreshed, reconcileSession, At, plan
<1>2. Shaped(req[p]) /\ req[p].seenDone \subseteq done
  BY DEF FlagInv, TablesFit, SeenStaysDone
<1>3. ASSUME NEW r, Goto(p, r), Shaped(r), r.seenDone \subseteq done
      PROVE  FlagInv'
  BY <1>1, <1>3, SameRows
<1>4. CASE Return(p)
  BY <1>3, <1>4, IdleShaped DEF Return
<1>5. CASE findProgress(p) /\ ~ Return(p)
  <2> DEFINE on == [req[p] EXCEPT !.pc = "updateProgress"]
  <2>1. Goto(p, on)
    BY <1>5 DEF findProgress, Goto
  <2>2. Shaped(on) /\ on.seenDone \subseteq done
    BY <1>2 DEF Shaped
  <2> HIDE DEF on
  <2> QED
    BY <1>3, <2>1, <2>2
<1>6. CASE listProgress(p)
  <2>1. PICK pc, next, ends :
          Goto(p, [req[p] EXCEPT !.pc = pc, !.next = next, !.ends = ends])
    BY <1>6 DEF listProgress, Goto
  <2> DEFINE on == [req[p] EXCEPT !.pc = pc, !.next = next, !.ends = ends]
  <2>2. Shaped(on) /\ on.seenDone \subseteq done
    BY <1>2 DEF Shaped
  <2>3. Goto(p, on)
    BY <2>1
  <2> HIDE DEF on
  <2> QED
    BY <1>3, <2>2, <2>3
<1>7. CASE (findActive(p) \/ heal(p)) /\ ~ Return(p)
  <2> DEFINE create == [req[p] EXCEPT !.pc = "createSession"]
             repair == [req[p] EXCEPT !.pc = "heal", !.s = ActiveSession]
  <2>1. Goto(p, create) \/ Goto(p, repair)
    BY <1>7 DEF findActive, heal, CreateOrReturn, Goto, Return
  <2>2. Shaped(create)
    BY <1>2 DEF Shaped
  <2>3. create.seenDone \subseteq done
    BY <1>2 DEF Shaped
  <2>4. Shaped(repair)
    BY <1>2 DEF Shaped
  <2>5. repair.seenDone \subseteq done
    BY <1>2 DEF Shaped
  <2> HIDE DEF create, repair
  <2> QED
    BY <1>3, <2>1, <2>2, <2>3, <2>4, <2>5
<1>8. CASE cancelAll(p)
  <2> DEFINE on == [req[p] EXCEPT !.pc = "archive"]
  <2>1. Goto(p, on)
    BY <1>8 DEF cancelAll, Goto
  <2>2. Shaped(on) /\ on.seenDone \subseteq done
    BY <1>2 DEF Shaped
  <2> HIDE DEF on
  <2> QED
    BY <1>3, <2>1, <2>2
<1>9. CASE findSession(p) /\ ~ Return(p)
  <2> DEFINE on == [req[p] EXCEPT !.pc = "readItinerary", !.s = ActiveSession,
                        !.next = session[ActiveSession].current]
  <2>1. Goto(p, on)
    BY <1>9 DEF findSession, Goto
  <2>2. Shaped(on) /\ on.seenDone \subseteq done
    BY <1>2 DEF Shaped
  <2> HIDE DEF on
  <2> QED
    BY <1>3, <2>1, <2>2
<1>10. CASE readItinerary(p)
  <2> DEFINE on == [req[p] EXCEPT !.pc = "listExisting", !.seen = items,
                        !.seenDone = items \intersect done]
  <2>1. Goto(p, on)
    BY <1>10 DEF readItinerary, Goto
  <2>2. Shaped(on) /\ on.seenDone \subseteq done
    BY <1>2 DEF Shaped
  <2> HIDE DEF on
  <2> QED
    BY <1>3, <2>1, <2>2
<1>11. CASE listExisting(p)
  <2> DEFINE on == [req[p] EXCEPT !.pc = "repair", !.del = Present(req[p].s) \ req[p].seen,
                        !.add = req[p].seen \ Present(req[p].s)]
  <2>1. Goto(p, on)
    BY <1>11 DEF listExisting, Goto
  <2>2. Shaped(on) /\ on.seenDone \subseteq done
    BY <1>2 DEF Shaped
  <2> HIDE DEF on
  <2> QED
    BY <1>3, <2>1, <2>2
<1>12. CASE listRefreshed(p)
  <2>1. PICK pc, next, ends :
          Goto(p, [req[p] EXCEPT !.pc = pc, !.next = next, !.ends = ends])
    BY <1>12 DEF listRefreshed, Goto
  <2> DEFINE on == [req[p] EXCEPT !.pc = pc, !.next = next, !.ends = ends]
  <2>2. Shaped(on) /\ on.seenDone \subseteq done
    BY <1>2 DEF Shaped
  <2>3. Goto(p, on)
    BY <2>1
  <2> HIDE DEF on
  <2> QED
    BY <1>3, <2>2, <2>3
<1>13. updateSession(p) \/ close(p) \/ archive(p) \/ reconcileSession(p) => Return(p)
  BY DEF updateSession, close, archive, reconcileSession
<1> QED
  BY <1>4, <1>5, <1>6, <1>7, <1>8, <1>9, <1>10, <1>11, <1>12, <1>13

-----------------------------------------------------------------------------
(* Requests that write rows or marks.                                      *)

\* A row that is updated by id is there.
LEMMA RowUpdated ==
    ASSUME FlagInv, NEW s, NEW a, NEW status \in RowStatus,
           row' = [row EXCEPT ![s][a] = status]
    PROVE  /\ row' \in [Sessions -> [Activities -> RowStatus]]
           /\ \A t \in Sessions, b \in Activities :
                 row'[t][b] = IF t = s /\ b = a THEN status ELSE row[t][b]
<1>1. row \in [Sessions -> [Activities -> RowStatus]]
  BY DEF FlagInv, TablesFit
<1> QED
  BY <1>1

\* A completion writes the row and owes the mark.
LEMMA UpdateKeeps ==
    ASSUME FlagInv, NEW p \in Slots, updateProgress(p)
    PROVE  FlagInv'
<1> DEFINE s == req[p].s
           a == req[p].a
<1>1. /\ items' = items /\ done' = done /\ failures' = failures /\ ~ At(p, "flagItem")
  BY DEF updateProgress, At, plan
<1>2. Shaped(req[p]) /\ req[p].seenDone \subseteq done
  BY DEF FlagInv, TablesFit, SeenStaysDone
<1>3. CASE row[s][a] = "ABSENT"
  BY <1>1, <1>3, IdleShaped, SameRows DEF updateProgress, Return
<1>4. CASE row[s][a] # "ABSENT"
  <2>1. row' = [row EXCEPT ![s][a] = Target(req[p].op)] /\ Target(req[p].op) \in RowStatus
    BY <1>4 DEF updateProgress, Target, RowStatus
  <2>2. /\ row' \in [Sessions -> [Activities -> RowStatus]]
        /\ \A t \in Sessions, b \in Activities :
              row'[t][b] = IF t = s /\ b = a THEN Target(req[p].op) ELSE row[t][b]
    BY <2>1, RowUpdated
  <2>3. \A t \in Sessions, b \in Activities : row'[t][b] # "ABSENT" => b \in items'
    BY <1>1, <1>4, <2>2 DEF FlagInv, RowsRefer
  <2>4. PICK r : /\ Goto(p, r) /\ Shaped(r) /\ r.seenDone = req[p].seenDone
                 /\ \/ Target(req[p].op) # "COMPLETED"
                    \/ r.pc = "flagItem" /\ r.a = a
    <3>1. CASE req[p].op = "startActivity"
      <4> DEFINE on == [req[p] EXCEPT !.pc = "updateSession", !.next = a]
      <4>1. Goto(p, on)
        BY <1>4, <3>1 DEF updateProgress, Goto
      <4>2. Shaped(on) /\ on.seenDone = req[p].seenDone
        BY <1>2 DEF Shaped
      <4>3. Target(req[p].op) # "COMPLETED"
        BY <1>2, <3>1 DEF Target
      <4> HIDE DEF on
      <4> QED
        BY <4>1, <4>2, <4>3
    <3>2. CASE req[p].op = "skipActivity"
      <4> DEFINE on == [req[p] EXCEPT !.pc = "listProgress"]
      <4>1. Goto(p, on)
        BY <1>4, <3>2 DEF updateProgress, Goto
      <4>2. Shaped(on) /\ on.seenDone = req[p].seenDone
        BY <1>2 DEF Shaped
      <4>3. Target(req[p].op) # "COMPLETED"
        BY <1>2, <3>2 DEF Target
      <4> HIDE DEF on
      <4> QED
        BY <4>1, <4>2, <4>3
    <3>3. CASE req[p].op \notin {"startActivity", "skipActivity"}
      <4> DEFINE on == [req[p] EXCEPT !.pc = "flagItem"]
      <4>1. Goto(p, on)
        BY <1>4, <3>3 DEF updateProgress, Goto
      <4>2. Shaped(on) /\ on.seenDone = req[p].seenDone
        BY <1>2 DEF Shaped
      <4>3. on.pc = "flagItem" /\ on.a = a
        BY <1>2, <3>3 DEF Shaped
      <4> HIDE DEF on
      <4> QED
        BY <4>1, <4>2, <4>3
    <3> QED
      BY <3>1, <3>2, <3>3
  <2>5. Marked(p, r)
    BY <1>1, <2>2, <2>4 DEF Marked
  <2> QED
    BY <1>1, <1>2, <2>2, <2>3, <2>4, <2>5, StepKeeps
<1> QED
  BY <1>3, <1>4

\* The mark is set; or the activity, and its rows with it, is gone.
LEMMA FlagKeeps ==
    ASSUME FlagInv, NEW p \in Slots, flagItem(p)
    PROVE  FlagInv'
<1>1. row' = row /\ items' = items /\ failures' = failures /\ done \subseteq done'
  BY DEF flagItem
<1>2. row' \in [Sessions -> [Activities -> RowStatus]]
  BY <1>1 DEF FlagInv, TablesFit
<1>3. \A s \in Sessions, a \in Activities : row'[s][a] # "ABSENT" => a \in items'
  BY <1>1 DEF FlagInv, RowsRefer
<1>4. req[p].a \in items => req[p].a \in done'
  BY DEF flagItem
<1>5. PICK r : Goto(p, r) /\ Shaped(r) /\ r.seenDone \subseteq done
  <2>1. Shaped(req[p]) /\ req[p].seenDone \subseteq done
    BY DEF FlagInv, TablesFit, SeenStaysDone
  <2> DEFINE on == [req[p] EXCEPT !.pc = "listProgress"]
  <2>2. Return(p) \/ Goto(p, on)
    BY DEF flagItem, Goto
  <2>3. Shaped(on) /\ on.seenDone \subseteq done
    BY <2>1 DEF Shaped
  <2> HIDE DEF on
  <2> QED
    BY <2>2, <2>3, IdleShaped DEF Return
<1>6. Marked(p, r)
  BY <1>1, <1>3, <1>4 DEF Marked
<1> QED
  BY <1>1, <1>2, <1>3, <1>5, <1>6, StepKeeps

\* What is promoted is not completed.
LEMMA PromoteKeeps ==
    ASSUME FlagInv, NEW p \in Slots, promote(p)
    PROVE  FlagInv'
<1> DEFINE s == req[p].s
           n == req[p].next
<1>1. /\ items' = items /\ done' = done /\ failures' = failures /\ ~ At(p, "flagItem")
  BY DEF promote, At, plan
<1>2. Shaped(req[p]) /\ req[p].seenDone \subseteq done
  BY DEF FlagInv, TablesFit, SeenStaysDone
<1>3. CASE row[s][n] = "ABSENT"
  BY <1>1, <1>3, IdleShaped, SameRows DEF promote, Return
<1>4. CASE row[s][n] # "ABSENT"
  <2>1. row' = [row EXCEPT ![s][n] = "IN_PROGRESS"] /\ "IN_PROGRESS" \in RowStatus
    BY <1>4 DEF promote, RowStatus
  <2>2. /\ row' \in [Sessions -> [Activities -> RowStatus]]
        /\ \A t \in Sessions, b \in Activities :
              row'[t][b] = IF t = s /\ b = n THEN "IN_PROGRESS" ELSE row[t][b]
    BY <2>1, RowUpdated
  <2>3. \A t \in Sessions, b \in Activities : row'[t][b] # "ABSENT" => b \in items'
    BY <1>1, <1>4, <2>2 DEF FlagInv, RowsRefer
  <2>4. PICK r : Goto(p, r) /\ Shaped(r) /\ r.seenDone = req[p].seenDone
    <3>0. PICK pc : Goto(p, [req[p] EXCEPT !.pc = pc])
      BY <1>4 DEF promote, Goto
    <3> DEFINE on == [req[p] EXCEPT !.pc = pc]
    <3>1. Goto(p, on)
      BY <1>4, <3>0 DEF promote, Goto
    <3>2. Shaped(on) /\ on.seenDone = req[p].seenDone
      BY <1>2 DEF Shaped
    <3> HIDE DEF on
    <3> QED
      BY <3>1, <3>2
  <2>5. Marked(p, r)
    BY <1>1, <2>2 DEF Marked
  <2> QED
    BY <1>1, <1>2, <2>2, <2>3, <2>4, <2>5, StepKeeps
<1> QED
  BY <1>3, <1>4

\* The rows of a new session: an activity that was completed when the request read the
\* itinerary is so now.
LEMMA CreateKeeps ==
    ASSUME FlagInv, NEW p \in Slots, createSession(p)
    PROVE  FlagInv'
<1> DEFINE s == Cardinality(Created) + 1
           first == First(req[p].seen \ req[p].seenDone)
           rows == [a \in Activities |->
                      IF a \notin req[p].seen THEN "ABSENT"
                      ELSE IF a \in req[p].seenDone THEN "COMPLETED"
                      ELSE IF a = first THEN "IN_PROGRESS" ELSE "NOT_STARTED"]
<1>1. /\ items' = items /\ done' = done /\ failures' = failures /\ ~ At(p, "flagItem")
      /\ Goto(p, Idle)
  BY DEF createSession, At, plan, Return
<1>2. req[p].seenDone \subseteq done
  BY DEF FlagInv, SeenStaysDone
<1>3. CASE ~ (req[p].seen \subseteq items)
  BY <1>1, <1>3, IdleShaped, SameRows DEF createSession
<1>4. CASE req[p].seen \subseteq items
  <2>1. s \in Sessions /\ row' = [row EXCEPT ![s] = rows]
    BY <1>4 DEF createSession
  <2>2. rows \in [Activities -> RowStatus]
    BY DEF RowStatus
  <2>3. \A a \in Activities : /\ rows[a] # "ABSENT" => a \in items
                              /\ rows[a] = "COMPLETED" => a \in done
    BY <1>2, <1>4
  <2> HIDE DEF rows, s
  <2>4. row \in [Sessions -> [Activities -> RowStatus]]
    BY DEF FlagInv, TablesFit
  <2>5. /\ row' \in [Sessions -> [Activities -> RowStatus]]
        /\ \A t \in Sessions : row'[t] = IF t = s THEN rows ELSE row[t]
    BY <2>1, <2>2, <2>4
  <2>6. \A t \in Sessions, a \in Activities : row'[t][a] # "ABSENT" => a \in items'
    BY <1>1, <2>3, <2>5 DEF FlagInv, RowsRefer
  <2>7. Marked(p, Idle)
    BY <1>1, <2>3, <2>5 DEF Marked
  <2> QED
    BY <1>1, <2>5, <2>6, <2>7, IdleShaped, StepKeeps
<1> QED
  BY <1>3, <1>4

\* The repair of rows: one is deleted, or one is added with the status its activity had.
LEMMA RepairKeeps ==
    ASSUME FlagInv, NEW p \in Slots, deleteProgress(p) \/ upsertProgress(p)
    PROVE  FlagInv'
<1>1. /\ items' = items /\ done' = done /\ failures' = failures /\ ~ At(p, "flagItem")
  BY DEF deleteProgress, upsertProgress, At, plan
<1>2. Shaped(req[p]) /\ req[p].seenDone \subseteq done
  BY DEF FlagInv, TablesFit, SeenStaysDone
<1>3. CASE deleteProgress(p)
  <2> DEFINE s == req[p].s
             a == Min(req[p].del)
  <2>1. row' = [row EXCEPT ![s][a] = "ABSENT"] /\ "ABSENT" \in RowStatus
    BY <1>3 DEF deleteProgress, RowStatus
  <2>2. PICK r : Goto(p, r) /\ Shaped(r) /\ r.seenDone = req[p].seenDone
    <3> DEFINE on == [req[p] EXCEPT !.del = req[p].del \ {a}]
    <3>1. Goto(p, on)
      BY <1>3 DEF deleteProgress, Goto
    <3>2. Shaped(on) /\ on.seenDone = req[p].seenDone
      BY <1>2 DEF Shaped
    <3> HIDE DEF on
    <3> QED
      BY <3>1, <3>2
  <2> HIDE DEF s, a
  <2>3. /\ row' \in [Sessions -> [Activities -> RowStatus]]
        /\ \A t \in Sessions, b \in Activities :
              row'[t][b] = IF t = s /\ b = a THEN "ABSENT" ELSE row[t][b]
    BY <2>1, RowUpdated
  <2>4. \A t \in Sessions, b \in Activities : row'[t][b] # "ABSENT" => b \in items'
    BY <1>1, <2>3 DEF FlagInv, RowsRefer
  <2>5. Marked(p, r)
    BY <1>1, <2>3 DEF Marked
  <2> QED
    BY <1>1, <1>2, <2>2, <2>3, <2>4, <2>5, StepKeeps
<1>4. CASE upsertProgress(p) /\ Min(req[p].add) \notin items
  BY <1>1, <1>4, IdleShaped, SameRows DEF upsertProgress, Return
<1>5. CASE upsertProgress(p) /\ Min(req[p].add) \in items
  <2> DEFINE s == req[p].s
             a == Min(req[p].add)
             new == IF row[s][a] # "ABSENT" THEN row[s][a]
                    ELSE IF a \in req[p].seenDone THEN "COMPLETED" ELSE "NOT_STARTED"
  <2>1. row' = [row EXCEPT ![s][a] = new]
    BY <1>5 DEF upsertProgress
  <2>2. PICK r : Goto(p, r) /\ Shaped(r) /\ r.seenDone = req[p].seenDone
    <3> DEFINE on == [req[p] EXCEPT !.add = req[p].add \ {a}]
    <3>1. Goto(p, on)
      BY <1>5 DEF upsertProgress, Goto
    <3>2. Shaped(on) /\ on.seenDone = req[p].seenDone
      BY <1>2 DEF Shaped
    <3> HIDE DEF on
    <3> QED
      BY <3>1, <3>2
  <2>3. a \in items
    BY <1>5
  <2>4. row \in [Sessions -> [Activities -> RowStatus]]
    BY DEF FlagInv, TablesFit
  <2> HIDE DEF a, s
  <2>5. \A t \in Sessions, b \in Activities :
          row'[t][b] = IF t = s /\ b = a THEN new ELSE row[t][b]
    BY <2>1, <2>4
  <2>6. s \in Sessions /\ a \in Activities => new \in RowStatus
    BY <2>4 DEF RowStatus
  <2>7. row' \in [Sessions -> [Activities -> RowStatus]]
    BY <2>1, <2>4, <2>6
  <2>8. \A t \in Sessions, b \in Activities : row'[t][b] # "ABSENT" => b \in items'
    BY <1>1, <2>3, <2>5 DEF FlagInv, RowsRefer
  <2>9. Marked(p, r)
    BY <1>1, <1>2, <2>5 DEF Marked
  <2> QED
    BY <1>1, <1>2, <2>2, <2>7, <2>8, <2>9, StepKeeps
<1> QED
  BY <1>3, <1>4, <1>5

-----------------------------------------------------------------------------
(* The theorem.                                                            *)

\* At the beginning there are no rows and no requests.
LEMMA InitFlag == Init => FlagInv
<1> SUFFICES ASSUME Init PROVE FlagInv
  OBVIOUS
<1>1. /\ row = [s \in Sessions |-> [a \in Activities |-> "ABSENT"]]
      /\ req = [p \in Slots |-> Idle] /\ failures = 0
  BY DEF Init
<1>2. row \in [Sessions -> [Activities -> RowStatus]]
  BY <1>1 DEF RowStatus
<1>3. \A p \in Slots : req[p] = Idle
  BY <1>1
<1>4. TablesFit
  BY <1>1, <1>2, <1>3, IdleShaped DEF TablesFit
<1>5. \A s \in Sessions, a \in Activities : row[s][a] = "ABSENT"
  BY <1>1
<1>6. RowsRefer /\ FlagFollowsRow
  BY <1>5 DEF RowsRefer, FlagFollowsRow
<1>7. SeenStaysDone
  BY <1>3, IdleShaped DEF SeenStaysDone
<1> QED
  BY <1>4, <1>6, <1>7 DEF FlagInv

\* Every step keeps rows and marks together, if no call fails.
LEMMA NextFlag ==
    ASSUME MaxFailures = 0, FlagInv, [Next]_vars
    PROVE  FlagInv'
<1>1. ASSUME NEW p \in Slots, Continue(p)
      PROVE  FlagInv'
  BY <1>1, ReadKeeps, UpdateKeeps, FlagKeeps, PromoteKeeps, CreateKeeps, RepairKeeps
  DEF Continue
<1>2. ASSUME NEW p \in Slots, Fail(p)
      PROVE  FlagInv'
  BY <1>2 DEF Fail, FlagInv, TablesFit
<1>3. CASE UNCHANGED vars
  BY <1>3 DEF vars, plan, FlagInv, TablesFit, Shaped, RowsRefer, SeenStaysDone, FlagFollowsRow, At
<1> QED
  BY <1>1, <1>2, <1>3, SubmitKeeps DEF Next

\* However many requests of a user overlap at their awaits, of one session or several, and
\* whatever is edited meanwhile: the activity of a COMPLETED row is marked as completed, or
\* the request that will mark it is under way.
THEOREM FlagFollowsRowAlways ==
    ASSUME MaxFailures = 0
    PROVE  Spec => []FlagFollowsRow
<1>1. FlagInv => FlagFollowsRow
  BY DEF FlagInv
<1> QED
  BY <1>1, InitFlag, NextFlag, PTL DEF Spec

-----------------------------------------------------------------------------
(* Types.                                                                  *)

RequestRecord ==
    [op : AllOps \union {"none"}, pc : Labels, s : Sessions \union {0},
     a : Activities \union {0}, next : Activities \union {0}, ends : BOOLEAN,
     seen : SUBSET Activities, seenDone : SUBSET Activities,
     add : SUBSET Activities, del : SUBSET Activities]

SessionRecord == [status : SessionStatus, current : Activities \union {0}]

\* A set of naturals has a least element.
LEMMA LeastNatural ==
    ASSUME NEW S \in SUBSET Nat, S # {}
    PROVE  \E m \in S : \A x \in S : m <= x
<1>1. PICK m \in S : \A x \in S : ~ (<<x, m>> \in OpToRel(<, Nat))
  BY NatLessThanWellFounded, WFMin
<1>2. ASSUME NEW x \in S
      PROVE  m <= x
  <2>1. ~ (x < m)
    BY <1>1 DEF OpToRel
  <2> QED
    BY <2>1
<1> QED
  BY <1>2

\* The least and the greatest of some numbers are among them.
LEMMA MinMember ==
    ASSUME NEW n \in Nat, NEW S \in SUBSET (1 .. n), S # {}
    PROVE  Min(S) \in S /\ \A x \in S : Min(S) <= x
<1>1. \E m \in S : \A x \in S : m <= x
  BY LeastNatural
<1> QED
  BY <1>1 DEF Min

LEMMA MaxMember ==
    ASSUME NEW n \in Nat, NEW S \in SUBSET (1 .. n), S # {}
    PROVE  Max(S) \in S
<1> DEFINE T == {n - x : x \in S}
<1>1. T \in SUBSET Nat
  OBVIOUS
<1>2. T # {}
  OBVIOUS
<1>3. PICK m \in T : \A x \in T : m <= x
  <2> HIDE DEF T
  <2> QED
    BY <1>1, <1>2, LeastNatural
<1>4. PICK y \in S : m = n - y
  BY <1>3
<1>5. \A x \in S : n - y <= n - x
  BY <1>3, <1>4
<1>6. \A x \in S : y >= x
  BY <1>5
<1> QED
  BY <1>6 DEF Max

LEMMA FirstMember ==
    ASSUME NEW S \in SUBSET Activities
    PROVE  /\ First(S) \in Activities \union {0}
           /\ S = {} <=> First(S) = 0
           /\ S # {} => First(S) \in S
<1>1. 0 \notin S
  BY DEF Activities
<1>2. CASE S = {}
  BY <1>2 DEF First
<1>3. CASE S # {}
  <2>1. Min(S) \in S
    BY <1>3, MinMember, BoundsAssumption DEF Activities
  <2>2. First(S) = Min(S)
    BY <1>3 DEF First
  <2> QED
    BY <1>1, <1>3, <2>1, <2>2
<1> QED
  BY <1>2, <1>3

LEMMA ActiveMember == ActiveSession # 0 => ActiveSession \in ActiveSessions
BY MaxMember, BoundsAssumption DEF ActiveSession, ActiveSessions, Sessions

\* The tables stay well-formed.
LEMMA InitType == Init => TypeOK
BY BoundsAssumption
DEF Init, TypeOK, Idle, Activities, Labels, SessionStatus, RowStatus

\* Handlers go on with what has its type.
LEMMA GotoType ==
    ASSUME TypeOK, NEW p \in Slots, NEW r \in RequestRecord, Goto(p, r)
    PROVE  req' \in [Slots -> RequestRecord]
BY DEF Goto, TypeOK, RequestRecord

LEMMA IdleType == Idle \in RequestRecord
BY DEF Idle, RequestRecord, Labels

LEMMA SubmitType ==
    ASSUME TypeOK, NEW p \in Slots, Submit(p)
    PROVE  TypeOK'
<1> USE DEF RequestRecord
<1>1. ASSUME NEW r \in RequestRecord, Goto(p, r)
      PROVE  req' \in [Slots -> RequestRecord]
  BY <1>1, GotoType
<1>2. CASE readTrip(p)
  <2>1. [Idle EXCEPT !.op = "startTrip", !.pc = "findActive", !.seen = items,
                     !.seenDone = items \intersect done] \in RequestRecord
    BY IdleType DEF TypeOK, AllOps, Labels
  <2> QED
    BY <1>1, <1>2, <2>1 DEF readTrip, TypeOK, plan
<1>3. CASE findOrphan(p)
  <2>1. [Idle EXCEPT !.op = "getActiveSession", !.pc = "heal", !.s = ActiveSession]
           \in RequestRecord
    BY <1>3, IdleType, ActiveMember DEF findOrphan, ActiveSessions, AllOps, Labels
  <2> QED
    BY <1>1, <1>3, <2>1 DEF findOrphan, TypeOK, plan
<1>4. CASE readToDelete(p)
  <2>1. [Idle EXCEPT !.op = "deleteItinerary", !.pc = "cancelAll"] \in RequestRecord
    BY IdleType DEF AllOps, Labels
  <2> QED
    BY <1>1, <1>4, <2>1 DEF readToDelete, TypeOK, plan
<1>5. CASE addActivity(p)
  <2>1. [Idle EXCEPT !.op = "addActivity", !.pc = "findSession"] \in RequestRecord
    BY IdleType DEF AllOps, EditOps, Labels
  <2>2. items' \subseteq Activities /\ lastItem' \in 0 .. MaxActivities
    BY <1>5, BoundsAssumption DEF addActivity, TypeOK, Activities
  <2> QED
    BY <1>1, <1>5, <2>1, <2>2 DEF addActivity, TypeOK
<1>6. ASSUME NEW a \in Activities, deleteActivity(p, a)
      PROVE  TypeOK'
  <2>1. [Idle EXCEPT !.op = "deleteActivity", !.pc = "findSession"] \in RequestRecord
    BY IdleType DEF AllOps, EditOps, Labels
  <2>2. row' \in [Sessions -> [Activities -> RowStatus]]
    BY <1>6 DEF deleteActivity, TypeOK, RowStatus
  <2> QED
    BY <1>1, <1>6, <2>1, <2>2 DEF deleteActivity, TypeOK
<1>7. ASSUME NEW s \in Sessions, NEW op \in CloseOps, readToClose(p, op, s)
      PROVE  TypeOK'
  <2>1. [Idle EXCEPT !.op = op, !.pc = "close", !.s = s] \in RequestRecord
    BY IdleType DEF AllOps, Labels
  <2> QED
    BY <1>1, <1>7, <2>1 DEF readToClose, TypeOK, plan
<1>8. ASSUME NEW s \in Sessions, NEW op \in FollowOps, NEW a \in Activities,
             readSession(p, op, s, a)
      PROVE  TypeOK'
  <2>1. [Idle EXCEPT !.op = op, !.pc = "findProgress", !.s = s, !.a = a] \in RequestRecord
    BY IdleType DEF AllOps, Labels
  <2> QED
    BY <1>1, <1>8, <2>1 DEF readSession, TypeOK, plan
<1> QED
  BY <1>2, <1>3, <1>4, <1>5, <1>6, <1>7, <1>8 DEF Submit

\* What a handler goes on with, and what it writes, have their types.
LEMMA ContinueType ==
    ASSUME TypeOK, NEW p \in Slots, Continue(p)
    PROVE  TypeOK'
<1>0. req[p] \in RequestRecord
  BY DEF TypeOK, RequestRecord
<1>a. ASSUME NEW r \in RequestRecord, Goto(p, r)
      PROVE  req' \in [Slots -> RequestRecord]
  BY <1>a, GotoType
<1>b. ASSUME Return(p)
      PROVE  req' \in [Slots -> RequestRecord]
  BY <1>a, <1>b, IdleType DEF Return
<1>c. ASSUME req' \in [Slots -> RequestRecord], UNCHANGED <<plan, session, row, failures>>
      PROVE  TypeOK'
  BY <1>c DEF TypeOK, RequestRecord, plan
<1>d. ASSUME req' \in [Slots -> RequestRecord], UNCHANGED <<plan, row, failures>>,
             session' \in [Sessions -> SessionRecord]
      PROVE  TypeOK'
  BY <1>d DEF TypeOK, RequestRecord, SessionRecord, plan
<1>e. ASSUME req' \in [Slots -> RequestRecord], UNCHANGED <<plan, session, failures>>,
             row' \in [Sessions -> [Activities -> RowStatus]]
      PROVE  TypeOK'
  BY <1>e DEF TypeOK, RequestRecord, plan
<1>f. ASSUME NEW s, NEW v \in SessionRecord, session' = [session EXCEPT ![s] = v]
      PROVE  session' \in [Sessions -> SessionRecord]
  BY <1>f DEF TypeOK, SessionRecord
<1>g. ASSUME NEW s, NEW a, NEW v \in RowStatus, row' = [row EXCEPT ![s][a] = v]
      PROVE  row' \in [Sessions -> [Activities -> RowStatus]]
  BY <1>g DEF TypeOK
<1>h. ASSUME NEW pc \in Labels
      PROVE  [req[p] EXCEPT !.pc = pc] \in RequestRecord
  BY <1>0, <1>h DEF RequestRecord
<1>i. ASSUME NEW pc \in Labels, NEW next \in Activities \union {0}
      PROVE  [req[p] EXCEPT !.pc = pc, !.next = next] \in RequestRecord
  BY <1>0, <1>i DEF RequestRecord
<1>j. ASSUME NEW pc \in Labels, NEW next \in Activities \union {0}, NEW ends \in BOOLEAN
      PROVE  [req[p] EXCEPT !.pc = pc, !.next = next, !.ends = ends] \in RequestRecord
  BY <1>0, <1>j DEF RequestRecord
<1>1. CASE findProgress(p)
  BY <1>1, <1>a, <1>b, <1>c, <1>h DEF findProgress, Labels
<1>2. CASE updateProgress(p)
  <2>1. req' \in [Slots -> RequestRecord]
    <3>1. CASE Return(p)
      BY <3>1, <1>b
    <3>2. CASE row[req[p].s][req[p].a] # "ABSENT" /\ req[p].op = "startActivity"
      <4>1. Goto(p, [req[p] EXCEPT !.pc = "updateSession", !.next = req[p].a])
        BY <1>2, <3>2 DEF updateProgress
      <4>2. req[p].a \in Activities \union {0}
        BY <1>0 DEF RequestRecord
      <4> QED
        BY <1>a, <1>i, <4>1, <4>2 DEF Labels
    <3>3. CASE row[req[p].s][req[p].a] # "ABSENT" /\ req[p].op # "startActivity"
      <4>1. \E pc \in Labels : Goto(p, [req[p] EXCEPT !.pc = pc])
        BY <1>2, <3>3 DEF updateProgress, Labels
      <4> QED
        BY <1>a, <1>h, <4>1
    <3> QED
      BY <1>2, <3>1, <3>2, <3>3 DEF updateProgress
  <2>2. row' \in [Sessions -> [Activities -> RowStatus]]
    <3>1. Target(req[p].op) \in RowStatus
      BY DEF Target, RowStatus
    <3>2. row' = row \/ row' = [row EXCEPT ![req[p].s][req[p].a] = Target(req[p].op)]
      BY <1>2 DEF updateProgress
    <3> QED
      BY <1>g, <3>1, <3>2 DEF TypeOK
  <2> QED
    BY <1>2, <1>e, <2>1, <2>2 DEF updateProgress
<1>3. CASE flagItem(p)
  <2>1. req' \in [Slots -> RequestRecord]
    BY <1>3, <1>a, <1>b, <1>h DEF flagItem, Labels
  <2>2. req[p].a \in items => req[p].a \in Activities
    BY DEF TypeOK
  <2>3. done' \subseteq Activities
    BY <1>3, <2>2 DEF flagItem, TypeOK
  <2> QED
    BY <1>3, <2>1, <2>3 DEF flagItem, TypeOK, RequestRecord
<1>4. CASE listProgress(p)
  <2> DEFINE next == First(NotStarted(req[p].s) \ {req[p].a})
             pc == IF next # 0 THEN "promote" ELSE "updateSession"
             ends == /\ next = 0
                     /\ \/ req[p].op = "syncLocation"
                        \/ Unfinished(req[p].s) \ {req[p].a} = {}
  <2>1. Goto(p, [req[p] EXCEPT !.pc = pc, !.next = next, !.ends = ends])
    BY <1>4 DEF listProgress
  <2>2. next \in Activities \union {0}
    BY FirstMember DEF NotStarted
  <2>3. pc \in Labels /\ ends \in BOOLEAN
    BY DEF Labels
  <2> HIDE DEF next, pc, ends
  <2> QED
    BY <1>4, <1>a, <1>c, <1>j, <2>1, <2>2, <2>3 DEF listProgress
<1>5. CASE promote(p)
  <2>1. req' \in [Slots -> RequestRecord]
    <3>1. Return(p) \/ \E pc \in Labels : Goto(p, [req[p] EXCEPT !.pc = pc])
      BY <1>5 DEF promote, Labels
    <3> QED
      BY <1>a, <1>b, <1>h, <3>1
  <2>2. row' = row \/ row' = [row EXCEPT ![req[p].s][req[p].next] = "IN_PROGRESS"]
    BY <1>5 DEF promote
  <2>3. row' \in [Sessions -> [Activities -> RowStatus]]
    BY <1>g, <2>2 DEF TypeOK, RowStatus
  <2> QED
    BY <1>5, <1>e, <2>1, <2>3 DEF promote
<1>6. CASE updateSession(p)
  <2> DEFINE s == req[p].s
             new == IF req[p].ends THEN [status |-> "COMPLETED", current |-> 0]
                    ELSE IF req[p].next # 0 THEN [session[s] EXCEPT !.current = req[p].next]
                    ELSE session[s]
  <2>1. session' = [session EXCEPT ![s] = new]
    BY <1>6 DEF updateSession
  <2>2. s \in Sessions => new \in SessionRecord
    BY <1>0 DEF TypeOK, SessionRecord, RequestRecord, SessionStatus
  <2> HIDE DEF new, s
  <2>3. session' \in [Sessions -> SessionRecord]
    BY <2>1, <2>2 DEF TypeOK, SessionRecord
  <2> QED
    BY <1>6, <1>b, <1>d, <2>3 DEF updateSession
<1>7. CASE close(p)
  <2>1. [status |-> IF req[p].op = "finishTrip" THEN "COMPLETED" ELSE "CANCELLED",
         current |-> 0] \in SessionRecord
    BY DEF SessionRecord, SessionStatus
  <2> QED
    BY <1>7, <1>b, <1>d, <1>f, <2>1 DEF close
<1>k. CreateOrReturn(p) => req' \in [Slots -> RequestRecord]
  BY <1>a, <1>b, <1>h DEF CreateOrReturn, Labels
<1>8. CASE findActive(p)
  <2>1. CASE Goto(p, [req[p] EXCEPT !.pc = "heal", !.s = ActiveSession]) /\ ActiveSession # 0
    <3>1. [req[p] EXCEPT !.pc = "heal", !.s = ActiveSession] \in RequestRecord
      BY <1>0, <2>1, ActiveMember DEF RequestRecord, Labels, ActiveSessions
    <3> QED
      BY <1>8, <1>a, <1>c, <2>1, <3>1 DEF findActive
  <2> QED
    BY <1>8, <1>b, <1>c, <1>k, <2>1 DEF findActive
<1>9. CASE heal(p)
  <2>1. [status |-> "CANCELLED", current |-> 0] \in SessionRecord
    BY DEF SessionRecord, SessionStatus
  <2> QED
    BY <1>9, <1>b, <1>d, <1>f, <1>k, <2>1 DEF heal
<1>10. CASE createSession(p)
  <2> DEFINE first == First(req[p].seen \ req[p].seenDone)
             rows == [a \in Activities |->
                      IF a \notin req[p].seen THEN "ABSENT"
                      ELSE IF a \in req[p].seenDone THEN "COMPLETED"
                      ELSE IF a = first THEN "IN_PROGRESS" ELSE "NOT_STARTED"]
  <2>1. first \in Activities \union {0}
    BY <1>0, FirstMember DEF RequestRecord
  <2>2. [status |-> IF first = 0 THEN "COMPLETED" ELSE "ACTIVE", current |-> first]
           \in SessionRecord
    BY <2>1 DEF SessionRecord, SessionStatus
  <2>3. rows \in [Activities -> RowStatus]
    BY DEF RowStatus
  <2>4. \/ session' = session /\ row' = row
        \/ \E s : /\ row' = [row EXCEPT ![s] = rows]
                  /\ session' = [session EXCEPT ![s] =
                        [status |-> IF first = 0 THEN "COMPLETED" ELSE "ACTIVE",
                         current |-> first]]
    BY <1>10 DEF createSession
  <2> HIDE DEF rows, first
  <2>5. row' \in [Sessions -> [Activities -> RowStatus]]
    BY <2>3, <2>4 DEF TypeOK
  <2>6. session' \in [Sessions -> SessionRecord]
    BY <1>f, <2>2, <2>4 DEF TypeOK, SessionRecord
  <2>7. req' \in [Slots -> RequestRecord] /\ UNCHANGED <<plan, failures>>
    BY <1>10, <1>b DEF createSession
  <2> QED
    BY <2>5, <2>6, <2>7 DEF TypeOK, RequestRecord, SessionRecord, plan
<1>11. CASE cancelAll(p)
  <2>1. session' \in [Sessions -> SessionRecord]
    BY <1>11 DEF cancelAll, TypeOK, SessionRecord, SessionStatus
  <2> QED
    BY <1>11, <1>a, <1>d, <1>h, <2>1 DEF cancelAll, Labels
<1>12. CASE archive(p)
  <2>1. req' \in [Slots -> RequestRecord]
    BY <1>12, <1>b DEF archive
  <2> QED
    BY <1>12, <2>1 DEF archive, TypeOK, RequestRecord
<1>13. CASE findSession(p)
  <2>1. CASE ActiveSession # 0
    <3>1. [req[p] EXCEPT !.pc = "readItinerary", !.s = ActiveSession,
               !.next = session[ActiveSession].current] \in RequestRecord
      <4>1. ActiveSession \in Sessions
        BY <2>1, ActiveMember DEF ActiveSessions
      <4>2. session[ActiveSession].current \in Activities \union {0}
        BY <4>1 DEF TypeOK
      <4> QED
        BY <1>0, <4>1, <4>2 DEF RequestRecord, Labels
    <3> QED
      BY <1>13, <1>a, <1>c, <2>1, <3>1 DEF findSession
  <2> QED
    BY <1>13, <1>b, <1>c, <2>1 DEF findSession
<1>14. CASE readItinerary(p)
  <2>1. [req[p] EXCEPT !.pc = "listExisting", !.seen = items,
             !.seenDone = items \intersect done] \in RequestRecord
    BY <1>0 DEF RequestRecord, Labels, TypeOK
  <2> QED
    BY <1>14, <1>a, <1>c, <2>1 DEF readItinerary
<1>15. CASE listExisting(p)
  <2>1. [req[p] EXCEPT !.pc = "repair", !.del = Present(req[p].s) \ req[p].seen,
             !.add = req[p].seen \ Present(req[p].s)] \in RequestRecord
    BY <1>0 DEF RequestRecord, Labels, Present
  <2> QED
    BY <1>15, <1>a, <1>c, <2>1 DEF listExisting
<1>16. CASE deleteProgress(p)
  <2>1. [req[p] EXCEPT !.del = req[p].del \ {Min(req[p].del)}] \in RequestRecord
    BY <1>0 DEF RequestRecord
  <2>2. Goto(p, [req[p] EXCEPT !.del = req[p].del \ {Min(req[p].del)}])
    BY <1>16 DEF deleteProgress, Goto
  <2>3. row' \in [Sessions -> [Activities -> RowStatus]]
    BY <1>16, <1>g DEF deleteProgress, RowStatus
  <2> QED
    BY <1>16, <1>a, <1>e, <2>1, <2>2, <2>3 DEF deleteProgress
<1>17. CASE upsertProgress(p)
  <2> DEFINE a == Min(req[p].add)
             on == [req[p] EXCEPT !.add = req[p].add \ {a}]
  <2>1. on \in RequestRecord
    BY <1>0 DEF RequestRecord
  <2>2. Return(p) \/ Goto(p, on)
    BY <1>17 DEF upsertProgress, Goto
  <2>3. req' \in [Slots -> RequestRecord]
    BY <1>a, <1>b, <2>1, <2>2
  <2> DEFINE s == req[p].s
             new == IF row[s][a] # "ABSENT" THEN row[s][a]
                    ELSE IF a \in req[p].seenDone THEN "COMPLETED" ELSE "NOT_STARTED"
  <2>4. row' = row \/ row' = [row EXCEPT ![s][a] = new]
    BY <1>17 DEF upsertProgress
  <2>5. s \in Sessions /\ a \in Activities => new \in RowStatus
    BY DEF TypeOK, RowStatus
  <2>6. row \in [Sessions -> [Activities -> RowStatus]]
    BY DEF TypeOK
  <2> HIDE DEF a, s, on, new
  <2>7. row' \in [Sessions -> [Activities -> RowStatus]]
    <3>1. CASE s \in Sessions /\ a \in Activities
      BY <1>g, <2>4, <2>5, <2>6, <3>1
    <3>2. CASE s \notin Sessions \/ a \notin Activities
      BY <2>4, <2>6, <3>2
    <3> QED
      BY <3>1, <3>2
  <2> QED
    BY <1>17, <1>e, <2>3, <2>7 DEF upsertProgress
<1>18. CASE listRefreshed(p)
  <2> DEFINE kept == req[p].next \in req[p].seen
             next == IF kept THEN req[p].next
                     ELSE First(Unfinished(req[p].s) \intersect req[p].seen)
             fresh == ~ kept /\ next \in NotStarted(req[p].s)
             pc == IF fresh THEN "promote" ELSE "reconcileSession"
             ends == Present(req[p].s) # {} /\ Unfinished(req[p].s) = {}
  <2>1. Goto(p, [req[p] EXCEPT !.pc = pc, !.next = next, !.ends = ends])
    BY <1>18 DEF listRefreshed
  <2>2. next \in Activities \union {0}
    BY <1>0, FirstMember DEF Unfinished, RequestRecord
  <2>3. pc \in Labels /\ ends \in BOOLEAN
    BY DEF Labels
  <2> HIDE DEF kept, next, fresh, pc, ends
  <2> QED
    BY <1>18, <1>a, <1>c, <1>j, <2>1, <2>2, <2>3 DEF listRefreshed
<1>19. CASE reconcileSession(p)
  <2>1. [status |-> IF req[p].ends THEN "COMPLETED" ELSE "ACTIVE", current |-> req[p].next]
           \in SessionRecord
    BY <1>0 DEF SessionRecord, SessionStatus, RequestRecord
  <2> QED
    BY <1>19, <1>b, <1>d, <1>f, <2>1 DEF reconcileSession
<1> QED
  BY <1>1, <1>2, <1>3, <1>4, <1>5, <1>6, <1>7, <1>8, <1>9, <1>10, <1>11, <1>12, <1>13, <1>14,
     <1>15, <1>16, <1>17, <1>18, <1>19 DEF Continue

LEMMA NextType == TypeOK /\ [Next]_vars => TypeOK'
<1> SUFFICES ASSUME TypeOK, [Next]_vars PROVE TypeOK'
  OBVIOUS
<1>1. ASSUME NEW p \in Slots, Fail(p)
      PROVE  TypeOK'
  <2>1. req' \in [Slots -> RequestRecord]
    BY <1>1, IdleType, GotoType DEF Fail, Return
  <2>2. failures' \in 0 .. MaxFailures
    BY <1>1, BoundsAssumption DEF Fail, TypeOK
  <2> QED
    BY <1>1, <2>1, <2>2 DEF Fail, TypeOK, RequestRecord, plan
<1>2. CASE UNCHANGED vars
  BY <1>2 DEF vars, TypeOK
<1> QED
  BY <1>1, <1>2, SubmitType, ContinueType DEF Next

\* The tables and the local variables of the handlers stay well-formed for any number of
\* overlapping requests, of all operations, and failing calls.
THEOREM TypeCorrect == Spec => []TypeOK
BY InitType, NextType, PTL DEF Spec

-----------------------------------------------------------------------------
(* Sessions that have begun.                                               *)

\* Before these awaits a handler has found no session, or needs none any more.
Sessionless == {"idle", "findActive", "createSession", "cancelAll", "archive", "findSession"}

HasSession(r) == r.pc \in Sessionless \/ r.s \in Created

\* Sessions are created one after another, and handlers only know created ones.
CreatedInv ==
    /\ Created = 1 .. Cardinality(Created)
    /\ \A p \in Slots : HasSession(req[p])

\* What a handler goes on with.
LEMMA GotoIs ==
    ASSUME TypeOK, NEW p \in Slots, NEW r, Goto(p, r)
    PROVE  \A q \in Slots : req'[q] = IF q = p THEN r ELSE req[q]
BY DEF Goto, TypeOK

LEMMA ActiveCreated == ActiveSession # 0 => ActiveSession \in Created
BY ActiveMember DEF ActiveSessions, Created

\* A step that creates no session.
LEMMA NoneCreated ==
    ASSUME TypeOK, CreatedInv, NEW p \in Slots, NEW r, Goto(p, r), Created' = Created,
           r.pc \in Sessionless \/ r.s \in Created
    PROVE  CreatedInv'
BY GotoIs DEF CreatedInv, HasSession

\* A step that writes a session that has begun.
LEMMA SessionWritten ==
    ASSUME TypeOK, NEW s \in Created, NEW v, v.status # "NONE",
           session' = [session EXCEPT ![s] = v]
    PROVE  Created' = Created
BY DEF Created, TypeOK

LEMMA CreatedFinite == Cardinality(Created) \in Nat
<1>1. Created \subseteq 1 .. MaxSessions
  BY DEF Created, Sessions
<1>2. IsFiniteSet(1 .. MaxSessions)
  BY BoundsAssumption, FS_Interval
<1>3. IsFiniteSet(Created)
  BY <1>1, <1>2, FS_Subset
<1> QED
  BY <1>3, FS_CardinalityType

LEMMA SubmitCreated ==
    ASSUME TypeOK, CreatedInv, NEW p \in Slots, Submit(p)
    PROVE  CreatedInv'
<1>1. session' = session
  BY DEF Submit, readTrip, findOrphan, readToDelete, addActivity, deleteActivity, readToClose,
         readSession, plan
<1>2. Created' = Created
  BY <1>1 DEF Created
<1>3. ASSUME NEW r, Goto(p, r), r.pc \in Sessionless \/ r.s \in Created
      PROVE  CreatedInv'
  BY <1>2, <1>3, NoneCreated
<1>4. CASE readTrip(p)
  <2>1. Goto(p, [Idle EXCEPT !.op = "startTrip", !.pc = "findActive", !.seen = items,
                             !.seenDone = items \intersect done])
    BY <1>4 DEF readTrip
  <2> QED
    BY <1>3, <2>1 DEF Idle, Sessionless
<1>5. CASE findOrphan(p)
  <2>1. Goto(p, [Idle EXCEPT !.op = "getActiveSession", !.pc = "heal", !.s = ActiveSession])
    BY <1>5 DEF findOrphan
  <2> QED
    BY <1>3, <1>5, <2>1, ActiveCreated DEF Idle, findOrphan
<1>6. CASE readToDelete(p)
  <2>1. Goto(p, [Idle EXCEPT !.op = "deleteItinerary", !.pc = "cancelAll"])
    BY <1>6 DEF readToDelete
  <2> QED
    BY <1>3, <2>1 DEF Idle, Sessionless
<1>7. ASSUME NEW op, Goto(p, [Idle EXCEPT !.op = op, !.pc = "findSession"])
      PROVE  CreatedInv'
  BY <1>3, <1>7 DEF Idle, Sessionless
<1>8. ASSUME NEW s \in Sessions, NEW op \in CloseOps, readToClose(p, op, s)
      PROVE  CreatedInv'
  <2>1. Goto(p, [Idle EXCEPT !.op = op, !.pc = "close", !.s = s]) /\ s \in Created
    BY <1>8 DEF readToClose, Created
  <2> QED
    BY <1>3, <2>1 DEF Idle
<1>9. ASSUME NEW s \in Sessions, NEW op \in FollowOps, NEW a \in Activities,
             readSession(p, op, s, a)
      PROVE  CreatedInv'
  <2>1. /\ Goto(p, [Idle EXCEPT !.op = op, !.pc = "findProgress", !.s = s, !.a = a])
        /\ s \in Created
    BY <1>9 DEF readSession, Created
  <2> QED
    BY <1>3, <2>1 DEF Idle
<1> QED
  BY <1>4, <1>5, <1>6, <1>7, <1>8, <1>9 DEF Submit, addActivity, deleteActivity

LEMMA IdleNone == Idle.pc = "idle" /\ Idle.op = "none" /\ Idle.pc \in Sessionless
BY DEF Idle, Sessionless

\* Whatever a handler goes on to, it keeps its session until it is over.
LEMMA ContinueCreated ==
    ASSUME TypeOK, CreatedInv, NEW p \in Slots, Continue(p)
    PROVE  CreatedInv'
<1>0. req[p] \in RequestRecord /\ session \in [Sessions -> SessionRecord]
  BY DEF TypeOK, RequestRecord, SessionRecord
<1>1. HasSession(req[p])
  BY DEF CreatedInv
<1>a. ASSUME NEW r, Goto(p, r), Created' = Created, r.pc \in Sessionless \/ r.s \in Created
      PROVE  CreatedInv'
  BY <1>a, NoneCreated
<1>b. ASSUME Return(p), Created' = Created
      PROVE  CreatedInv'
  BY <1>a, <1>b, IdleNone DEF Return
<1>c. session' = session => Created' = Created
  BY DEF Created
<1>2. CASE findProgress(p) \/ flagItem(p) \/ promote(p)
  <2>1. session' = session
    BY <1>2 DEF findProgress, flagItem, promote
  <2>2. Return(p) \/ \E pc : Goto(p, [req[p] EXCEPT !.pc = pc])
    BY <1>2 DEF findProgress, flagItem, promote
  <2>3. req[p].s \in Created
    BY <1>1, <1>2 DEF findProgress, flagItem, promote, At, HasSession, Sessionless
  <2>4. \A pc : [req[p] EXCEPT !.pc = pc].s = req[p].s
    BY <1>0 DEF RequestRecord
  <2> QED
    BY <1>a, <1>b, <1>c, <2>1, <2>2, <2>3, <2>4
<1>3. CASE updateProgress(p)
  <2>1. session' = session
    BY <1>3 DEF updateProgress
  <2>2. \/ Return(p)
        \/ Goto(p, [req[p] EXCEPT !.pc = "updateSession", !.next = req[p].a])
        \/ \E pc : Goto(p, [req[p] EXCEPT !.pc = pc])
    BY <1>3 DEF updateProgress
  <2>3. req[p].s \in Created
    BY <1>1, <1>3 DEF updateProgress, At, HasSession, Sessionless
  <2>4. /\ \A pc : [req[p] EXCEPT !.pc = pc].s = req[p].s
        /\ [req[p] EXCEPT !.pc = "updateSession", !.next = req[p].a].s = req[p].s
    BY <1>0 DEF RequestRecord
  <2> QED
    BY <1>a, <1>b, <1>c, <2>1, <2>2, <2>3, <2>4
<1>4. CASE listProgress(p) \/ listRefreshed(p)
  <2>1. session' = session
    BY <1>4 DEF listProgress, listRefreshed
  <2>2. \E pc, next, ends : Goto(p, [req[p] EXCEPT !.pc = pc, !.next = next, !.ends = ends])
    BY <1>4 DEF listProgress, listRefreshed
  <2>3. req[p].s \in Created
    BY <1>1, <1>4 DEF listProgress, listRefreshed, At, HasSession, Sessionless
  <2>4. \A pc, next, ends :
           [req[p] EXCEPT !.pc = pc, !.next = next, !.ends = ends].s = req[p].s
    BY <1>0 DEF RequestRecord
  <2> QED
    BY <1>a, <1>c, <2>1, <2>2, <2>3, <2>4
<1>5. CASE updateSession(p)
  <2> DEFINE s == req[p].s
             new == IF req[p].ends THEN [status |-> "COMPLETED", current |-> 0]
                    ELSE IF req[p].next # 0 THEN [session[s] EXCEPT !.current = req[p].next]
                    ELSE session[s]
  <2>1. session' = [session EXCEPT ![s] = new] /\ Return(p)
    BY <1>5 DEF updateSession
  <2>2. s \in Created
    BY <1>1, <1>5 DEF updateSession, At, HasSession, Sessionless
  <2>3. new.status # "NONE"
    BY <1>0, <2>2 DEF Created, SessionRecord
  <2> HIDE DEF new, s
  <2> QED
    BY <1>b, <2>1, <2>2, <2>3, SessionWritten
<1>6. CASE close(p)
  <2> DEFINE new == [status |-> IF req[p].op = "finishTrip" THEN "COMPLETED" ELSE "CANCELLED",
                     current |-> 0]
  <2>1. session' = [session EXCEPT ![req[p].s] = new] /\ Return(p)
    BY <1>6 DEF close
  <2>2. req[p].s \in Created
    BY <1>1, <1>6 DEF close, At, HasSession, Sessionless
  <2>3. new.status # "NONE"
    OBVIOUS
  <2> HIDE DEF new
  <2> QED
    BY <1>b, <2>1, <2>2, <2>3, SessionWritten
<1>d. CreateOrReturn(p) /\ Created' = Created => CreatedInv'
  <2>1. [req[p] EXCEPT !.pc = "createSession"].pc \in Sessionless
    BY <1>0 DEF RequestRecord, Sessionless
  <2> QED
    BY <1>a, <1>b, <2>1 DEF CreateOrReturn
<1>7. CASE findActive(p)
  <2>1. session' = session
    BY <1>7 DEF findActive
  <2>2. CASE Goto(p, [req[p] EXCEPT !.pc = "heal", !.s = ActiveSession]) /\ ActiveSession # 0
    <3>1. [req[p] EXCEPT !.pc = "heal", !.s = ActiveSession].s = ActiveSession
      BY <1>0 DEF RequestRecord
    <3> QED
      BY <1>a, <1>c, <2>1, <2>2, <3>1, ActiveCreated
  <2> QED
    BY <1>7, <1>b, <1>c, <1>d, <2>1, <2>2 DEF findActive
<1>8. CASE heal(p)
  <2> DEFINE new == [status |-> "CANCELLED", current |-> 0]
  <2>1. session' = [session EXCEPT ![req[p].s] = new] /\ new.status # "NONE"
    BY <1>8 DEF heal
  <2>2. req[p].s \in Created
    BY <1>1, <1>8 DEF heal, At, HasSession, Sessionless
  <2> HIDE DEF new
  <2>3. Created' = Created
    BY <2>1, <2>2, SessionWritten
  <2> QED
    BY <1>8, <1>b, <1>d, <2>3 DEF heal
<1>9. CASE createSession(p)
  <2>1. CASE session' = session
    BY <1>9, <1>b, <1>c, <2>1 DEF createSession
  <2>2. CASE req[p].seen \subseteq items
    <3> DEFINE n == Cardinality(Created)
               first == First(req[p].seen \ req[p].seenDone)
               new == [status |-> IF first = 0 THEN "COMPLETED" ELSE "ACTIVE",
                       current |-> first]
    <3>1. n + 1 \in Sessions /\ session' = [session EXCEPT ![n + 1] = new] /\ Return(p)
      BY <1>9, <2>2 DEF createSession
    <3>2. new.status # "NONE"
      OBVIOUS
    <3>3. n \in Nat
      BY CreatedFinite
    <3>4. Created = 1 .. n
      BY DEF CreatedInv
    <3> HIDE DEF n, new, first
    <3>5. Created' = Created \union {n + 1}
      BY <1>0, <3>1, <3>2 DEF Created
    <3>6. Created' = 1 .. (n + 1)
      BY <3>3, <3>4, <3>5
    <3>7. Cardinality(Created') = n + 1
      BY <3>3, <3>6, FS_Interval
    <3>8. \A q \in Slots : req'[q] = IF q = p THEN Idle ELSE req[q]
      BY <3>1, GotoIs DEF Return
    <3>9. \A q \in Slots : HasSession(req[q])
      BY DEF CreatedInv
    <3>10. \A q \in Slots : HasSession(req[q])'
      BY <3>5, <3>8, <3>9, IdleNone DEF HasSession
    <3> QED
      BY <3>6, <3>7, <3>10 DEF CreatedInv
  <2> QED
    BY <1>9, <2>1, <2>2 DEF createSession
<1>10. CASE cancelAll(p)
  <2>1. Created' = Created
    BY <1>0, <1>10 DEF cancelAll, Created, ActiveSessions
  <2>2. Goto(p, [req[p] EXCEPT !.pc = "archive"])
    BY <1>10 DEF cancelAll
  <2> QED
    BY <1>0, <1>a, <2>1, <2>2 DEF RequestRecord, Sessionless
<1>11. CASE archive(p)
  BY <1>11, <1>b, <1>c DEF archive
<1>12. CASE findSession(p)
  <2>1. CASE ActiveSession # 0
    <3>1. [req[p] EXCEPT !.pc = "readItinerary", !.s = ActiveSession,
               !.next = session[ActiveSession].current].s = ActiveSession
      BY <1>0 DEF RequestRecord
    <3> QED
      BY <1>12, <1>a, <1>c, <2>1, <3>1, ActiveCreated DEF findSession
  <2> QED
    BY <1>12, <1>b, <1>c, <2>1 DEF findSession
<1>13. CASE readItinerary(p) \/ listExisting(p)
  <2>1. session' = session
    BY <1>13 DEF readItinerary, listExisting
  <2>2. req[p].s \in Created
    BY <1>1, <1>13 DEF readItinerary, listExisting, At, HasSession, Sessionless
  <2> DEFINE read == [req[p] EXCEPT !.pc = "listExisting", !.seen = items,
                                    !.seenDone = items \intersect done]
             list == [req[p] EXCEPT !.pc = "repair", !.del = Present(req[p].s) \ req[p].seen,
                                    !.add = req[p].seen \ Present(req[p].s)]
  <2>3. Goto(p, read) \/ Goto(p, list)
    BY <1>13 DEF readItinerary, listExisting
  <2>4. read.s = req[p].s /\ list.s = req[p].s
    BY <1>0 DEF RequestRecord
  <2> HIDE DEF read, list
  <2> QED
    BY <1>a, <1>c, <2>1, <2>2, <2>3, <2>4
<1>14. CASE deleteProgress(p) \/ upsertProgress(p)
  <2>1. session' = session
    BY <1>14 DEF deleteProgress, upsertProgress
  <2>2. req[p].s \in Created
    BY <1>1, <1>14 DEF deleteProgress, upsertProgress, At, HasSession, Sessionless
  <2>3. \/ Return(p)
        \/ Goto(p, [req[p] EXCEPT !.add = req[p].add \ {Min(req[p].add)}])
        \/ Goto(p, [req[p] EXCEPT !.del = req[p].del \ {Min(req[p].del)}])
    BY <1>14 DEF deleteProgress, upsertProgress, Goto
  <2>4. /\ [req[p] EXCEPT !.add = req[p].add \ {Min(req[p].add)}].s = req[p].s
        /\ [req[p] EXCEPT !.del = req[p].del \ {Min(req[p].del)}].s = req[p].s
    BY <1>0 DEF RequestRecord
  <2> QED
    BY <1>a, <1>b, <1>c, <2>1, <2>2, <2>3, <2>4
<1>15. CASE reconcileSession(p)
  <2> DEFINE new == [status |-> IF req[p].ends THEN "COMPLETED" ELSE "ACTIVE",
                     current |-> req[p].next]
  <2>1. session' = [session EXCEPT ![req[p].s] = new] /\ Return(p)
    BY <1>15 DEF reconcileSession
  <2>2. req[p].s \in Created
    BY <1>1, <1>15 DEF reconcileSession, At, HasSession, Sessionless
  <2>3. new.status # "NONE"
    OBVIOUS
  <2> HIDE DEF new
  <2> QED
    BY <1>b, <2>1, <2>2, <2>3, SessionWritten
<1> QED
  BY <1>2, <1>3, <1>4, <1>5, <1>6, <1>7, <1>8, <1>9, <1>10, <1>11, <1>12, <1>13, <1>14, <1>15
  DEF Continue

LEMMA InitCreated == Init => CreatedInv
<1> SUFFICES ASSUME Init PROVE CreatedInv
  OBVIOUS
<1>1. Created = {}
  BY DEF Init, Created
<1>2. Cardinality(Created) = 0 /\ 1 .. 0 = {}
  BY <1>1, FS_EmptySet
<1>3. \A p \in Slots : req[p] = Idle
  BY DEF Init
<1> QED
  BY <1>1, <1>2, <1>3, IdleNone DEF CreatedInv, HasSession

LEMMA NextCreated == TypeOK /\ CreatedInv /\ [Next]_vars => CreatedInv'
<1> SUFFICES ASSUME TypeOK, CreatedInv, [Next]_vars PROVE CreatedInv'
  OBVIOUS
<1>1. ASSUME NEW p \in Slots, Fail(p)
      PROVE  CreatedInv'
  <2>1. Created' = Created /\ Goto(p, Idle)
    BY <1>1 DEF Fail, Return, Created
  <2> QED
    BY <2>1, IdleNone, NoneCreated
<1>2. CASE UNCHANGED vars
  BY <1>2 DEF vars, CreatedInv, HasSession, Created
<1> QED
  BY <1>1, <1>2, SubmitCreated, ContinueCreated DEF Next

-----------------------------------------------------------------------------
(* Without edits.                                                          *)

EditLabels == {"findSession", "readItinerary", "listExisting", "repair", "listRefreshed",
               "reconcileSession"}

Unedited(r) == r.pc \notin EditLabels /\ r.op \notin EditOps

\* No handler is at an edit or at the reconciliation after it.
NoEdits == \A p \in Slots : Unedited(req[p])

LEMMA UneditedStep ==
    ASSUME TypeOK, NoEdits, NEW p \in Slots, NEW r, Goto(p, r), Unedited(r)
    PROVE  NoEdits'
BY GotoIs DEF NoEdits, Unedited

LEMMA IdleUnedited == Unedited(Idle)
BY DEF Unedited, Idle, EditLabels, EditOps

LEMMA SubmitUnedited ==
    ASSUME Ops \intersect EditOps = {}, TypeOK, NoEdits, NEW p \in Slots, Submit(p)
    PROVE  NoEdits'
<1>1. CASE readTrip(p)
  <2> DEFINE on == [Idle EXCEPT !.op = "startTrip", !.pc = "findActive", !.seen = items,
                                !.seenDone = items \intersect done]
  <2>1. Goto(p, on)
    BY <1>1 DEF readTrip
  <2>2. Unedited(on)
    BY DEF Unedited, Idle, EditLabels, EditOps
  <2> HIDE DEF on
  <2> QED
    BY <2>1, <2>2, UneditedStep
<1>2. CASE findOrphan(p)
  <2> DEFINE on == [Idle EXCEPT !.op = "getActiveSession", !.pc = "heal", !.s = ActiveSession]
  <2>1. Goto(p, on)
    BY <1>2 DEF findOrphan
  <2>2. Unedited(on)
    BY DEF Unedited, Idle, EditLabels, EditOps
  <2> HIDE DEF on
  <2> QED
    BY <2>1, <2>2, UneditedStep
<1>3. CASE readToDelete(p)
  <2> DEFINE on == [Idle EXCEPT !.op = "deleteItinerary", !.pc = "cancelAll"]
  <2>1. Goto(p, on)
    BY <1>3 DEF readToDelete
  <2>2. Unedited(on)
    BY DEF Unedited, Idle, EditLabels, EditOps
  <2> HIDE DEF on
  <2> QED
    BY <2>1, <2>2, UneditedStep
<1>4. ASSUME NEW s \in Sessions, NEW op \in CloseOps, readToClose(p, op, s)
      PROVE  NoEdits'
  <2> DEFINE on == [Idle EXCEPT !.op = op, !.pc = "close", !.s = s]
  <2>1. Goto(p, on)
    BY <1>4 DEF readToClose
  <2>2. Unedited(on)
    BY DEF Unedited, Idle, EditLabels, EditOps, CloseOps
  <2> HIDE DEF on
  <2> QED
    BY <2>1, <2>2, UneditedStep
<1>5. ASSUME NEW s \in Sessions, NEW op \in FollowOps, NEW a \in Activities,
             readSession(p, op, s, a)
      PROVE  NoEdits'
  <2> DEFINE on == [Idle EXCEPT !.op = op, !.pc = "findProgress", !.s = s, !.a = a]
  <2>1. Goto(p, on)
    BY <1>5 DEF readSession
  <2>2. Unedited(on)
    BY DEF Unedited, Idle, EditLabels, EditOps, FollowOps
  <2> HIDE DEF on
  <2> QED
    BY <2>1, <2>2, UneditedStep
<1>6. ~ addActivity(p) /\ \A a \in Activities : ~ deleteActivity(p, a)
  BY DEF addActivity, deleteActivity, Offered, EditOps
<1> QED
  BY <1>1, <1>2, <1>3, <1>4, <1>5, <1>6 DEF Submit

\* What a request without edits can go on to, and what it writes, is not an edit's.
LEMMA ContinueUnedited ==
    ASSUME TypeOK, NoEdits, NEW p \in Slots, Continue(p)
    PROVE  NoEdits'
<1>0. req[p] \in RequestRecord /\ Unedited(req[p])
  BY DEF TypeOK, RequestRecord, NoEdits
<1>a. ASSUME Return(p)
      PROVE  NoEdits'
  BY <1>a, IdleUnedited, UneditedStep DEF Return
<1>b. ASSUME NEW pc \in Labels \ EditLabels, Goto(p, [req[p] EXCEPT !.pc = pc])
      PROVE  NoEdits'
  <2>1. Unedited([req[p] EXCEPT !.pc = pc])
    BY <1>0 DEF Unedited, RequestRecord
  <2> QED
    BY <1>b, <2>1, UneditedStep
<1>1. ~ findSession(p) /\ ~ readItinerary(p) /\ ~ listExisting(p) /\ ~ deleteProgress(p)
      /\ ~ upsertProgress(p) /\ ~ listRefreshed(p) /\ ~ reconcileSession(p)
  BY <1>0 DEF findSession, readItinerary, listExisting, deleteProgress, upsertProgress,
     listRefreshed, reconcileSession, At, Unedited, EditLabels
<1>3. CASE findProgress(p) \/ flagItem(p) \/ heal(p) \/ cancelAll(p)
  BY <1>3, <1>a, <1>b DEF findProgress, flagItem, heal, cancelAll, CreateOrReturn, Labels,
     EditLabels
<1>4. CASE updateProgress(p)
  <2>1. CASE Goto(p, [req[p] EXCEPT !.pc = "updateSession", !.next = req[p].a])
    <3>1. Unedited([req[p] EXCEPT !.pc = "updateSession", !.next = req[p].a])
      BY <1>0 DEF Unedited, RequestRecord, EditLabels
    <3> QED
      BY <2>1, <3>1, UneditedStep
  <2> QED
    BY <1>4, <1>a, <1>b, <2>1 DEF updateProgress, Labels, EditLabels
<1>5. CASE listProgress(p)
  <2>1. \E next, ends : \E pc \in {"promote", "updateSession"} :
          Goto(p, [req[p] EXCEPT !.pc = pc, !.next = next, !.ends = ends])
    BY <1>5 DEF listProgress
  <2>2. ASSUME NEW next, NEW ends, NEW pc \in {"promote", "updateSession"}
        PROVE  Unedited([req[p] EXCEPT !.pc = pc, !.next = next, !.ends = ends])
    BY <1>0 DEF Unedited, RequestRecord, EditLabels
  <2> QED
    BY <2>1, <2>2, UneditedStep
<1>6. CASE promote(p)
  <2>1. Return(p) \/ Goto(p, [req[p] EXCEPT !.pc = "updateSession"])
    BY <1>0, <1>6 DEF promote, Unedited
  <2> QED
    BY <1>a, <1>b, <2>1 DEF Labels, EditLabels
<1>7. CASE findActive(p)
  <2>1. CASE Goto(p, [req[p] EXCEPT !.pc = "heal", !.s = ActiveSession])
    <3>1. Unedited([req[p] EXCEPT !.pc = "heal", !.s = ActiveSession])
      BY <1>0 DEF Unedited, RequestRecord, EditLabels
    <3> QED
      BY <2>1, <3>1, UneditedStep
  <2> QED
    BY <1>7, <1>a, <1>b, <2>1 DEF findActive, CreateOrReturn, Labels, EditLabels
<1>8. CASE updateSession(p) \/ close(p) \/ createSession(p) \/ archive(p)
  BY <1>8, <1>a DEF updateSession, close, createSession, archive
<1> QED
  BY <1>1, <1>3, <1>4, <1>5, <1>6, <1>7, <1>8 DEF Continue

LEMMA NextUnedited ==
    ASSUME Ops \intersect EditOps = {}, TypeOK, NoEdits, [Next]_vars
    PROVE  NoEdits'
<1>1. ASSUME NEW p \in Slots, Fail(p)
      PROVE  NoEdits'
  BY <1>1, IdleUnedited, UneditedStep DEF Fail, Return
<1>2. CASE UNCHANGED vars
  BY <1>2 DEF vars, NoEdits, Unedited
<1> QED
  BY <1>1, <1>2, SubmitUnedited, ContinueUnedited DEF Next

LEMMA InitUnedited == Init => NoEdits
BY IdleUnedited DEF Init, NoEdits

-----------------------------------------------------------------------------
(* A session that has ended stays ended.                                   *)

\* Only createSession writes ACTIVE over another status, and to a session that had none.
LEMMA StepStaysEnded ==
    ASSUME TypeOK, CreatedInv, NoEdits, [Next]_vars
    PROVE  StaysEnded
<1>0. session \in [Sessions -> SessionRecord]
  BY DEF TypeOK, SessionRecord
<1>1. ASSUME session' = session
      PROVE  StaysEnded
  BY <1>1 DEF StaysEnded
<1>2. ASSUME NEW t, NEW v, session' = [session EXCEPT ![t] = v],
             v.status = "ACTIVE" => session[t].status \notin {"COMPLETED", "CANCELLED"}
      PROVE  StaysEnded
  BY <1>0, <1>2 DEF StaysEnded
<1>3. ASSUME NEW p \in Slots, Submit(p) \/ Fail(p)
      PROVE  StaysEnded
  BY <1>1, <1>3 DEF Submit, Fail, readTrip, findOrphan, readToDelete, addActivity,
     deleteActivity, readToClose, readSession
<1>4. ASSUME NEW p \in Slots, Continue(p)
      PROVE  StaysEnded
  <2>0. ~ reconcileSession(p)
    BY DEF NoEdits, Unedited, EditLabels, reconcileSession, At
  <2>1. CASE updateSession(p)
    <3> DEFINE s == req[p].s
               new == IF req[p].ends THEN [status |-> "COMPLETED", current |-> 0]
                      ELSE IF req[p].next # 0 THEN [session[s] EXCEPT !.current = req[p].next]
                      ELSE session[s]
    <3>1. session' = [session EXCEPT ![s] = new]
      BY <2>1 DEF updateSession
    <3>2. s \in Sessions => (new.status = "ACTIVE" => session[s].status = "ACTIVE")
      BY <1>0 DEF SessionRecord
    <3>3. s \notin Sessions => session' = session
      BY <1>0, <3>1
    <3> HIDE DEF s, new
    <3> QED
      BY <1>1, <1>2, <3>1, <3>2, <3>3
  <2>2. CASE close(p)
    <3> DEFINE new == [status |-> IF req[p].op = "finishTrip" THEN "COMPLETED" ELSE "CANCELLED",
                       current |-> 0]
    <3>1. session' = [session EXCEPT ![req[p].s] = new]
      BY <2>2 DEF close
    <3>2. new.status # "ACTIVE"
      OBVIOUS
    <3> HIDE DEF new
    <3> QED
      BY <1>2, <3>1, <3>2
  <2>3. CASE heal(p)
    <3> DEFINE new == [status |-> "CANCELLED", current |-> 0]
    <3>1. session' = [session EXCEPT ![req[p].s] = new] /\ new.status # "ACTIVE"
      BY <2>3 DEF heal
    <3> HIDE DEF new
    <3> QED
      BY <1>2, <3>1
  <2>4. CASE createSession(p)
    <3> DEFINE n == Cardinality(Created)
               first == First(req[p].seen \ req[p].seenDone)
               new == [status |-> IF first = 0 THEN "COMPLETED" ELSE "ACTIVE",
                       current |-> first]
    <3>1. \/ session' = session
          \/ n + 1 \in Sessions /\ session' = [session EXCEPT ![n + 1] = new]
      BY <2>4 DEF createSession
    <3>2. n + 1 \in Sessions => n + 1 \notin Created
      BY CreatedFinite DEF CreatedInv
    <3>3. n + 1 \in Sessions => session[n + 1].status = "NONE"
      BY <3>2 DEF Created
    <3> HIDE DEF n, new
    <3> QED
      BY <1>1, <1>2, <3>1, <3>3
  <2>5. CASE cancelAll(p)
    BY <1>0, <2>5 DEF cancelAll, StaysEnded, ActiveSessions
  <2> QED
    BY <1>1, <1>4, <2>0, <2>1, <2>2, <2>3, <2>4, <2>5 DEF Continue, findProgress,
       updateProgress, flagItem, listProgress, promote, findActive, archive, findSession,
       readItinerary, listExisting, deleteProgress, upsertProgress, listRefreshed
<1>5. CASE UNCHANGED vars
  BY <1>1, <1>5 DEF vars
<1> QED
  BY <1>3, <1>4, <1>5 DEF Next

\* However requests overlap, one that found a session ACTIVE does not bring it back after
\* another has ended it, as long as the itinerary is not edited.
THEOREM StaysEndedAlways ==
    ASSUME Ops \intersect EditOps = {}
    PROVE  Spec => NotResurrected
<1>1. Init => TypeOK /\ CreatedInv /\ NoEdits
  BY InitType, InitCreated, InitUnedited
<1>2. TypeOK /\ CreatedInv /\ NoEdits /\ [Next]_vars => (TypeOK /\ CreatedInv /\ NoEdits)'
  BY NextType, NextCreated, NextUnedited
<1>3. TypeOK /\ CreatedInv /\ NoEdits /\ [Next]_vars => [StaysEnded]_vars
  BY StepStaysEnded
<1> QED
  BY <1>1, <1>2, <1>3, PTL DEF Spec, NotResurrected

-----------------------------------------------------------------------------
(* What a request is about.                                                *)

FollowLabels == {"findProgress", "updateProgress", "flagItem", "listProgress"}

Aimed(r) ==
    /\ r.pc \in FollowLabels => r.a \in Activities /\ r.op \in FollowOps
    /\ r.pc = "promote" => r.next \in Activities

\* A request on an activity names one, and so does the promotion that follows it.
AimedInv == \A p \in Slots : Aimed(req[p])

LEMMA AimedStep ==
    ASSUME TypeOK, AimedInv, NEW p \in Slots, NEW r, Goto(p, r), Aimed(r)
    PROVE  AimedInv'
BY GotoIs DEF AimedInv, Aimed

LEMMA ElsewhereAimed ==
    ASSUME NEW r, r.pc \notin FollowLabels, r.pc # "promote"
    PROVE  Aimed(r)
BY DEF Aimed

LEMMA IdleAimed == Aimed(Idle)
BY DEF Aimed, Idle, FollowLabels

\* A request that has been read and accepted.
Begun(r) ==
    \/ r.pc = "findProgress" /\ r.op \in FollowOps /\ r.a \in Activities
    \/ r.pc \in {"findActive", "heal", "cancelAll", "findSession", "close"}

LEMMA Begins ==
    ASSUME NEW p \in Slots, Submit(p)
    PROVE  \E r : Goto(p, r) /\ Begun(r)
<1> USE DEF Begun
<1>1. CASE readTrip(p)
  <2> DEFINE on == [Idle EXCEPT !.op = "startTrip", !.pc = "findActive", !.seen = items,
                                !.seenDone = items \intersect done]
  <2>1. Goto(p, on)
    BY <1>1 DEF readTrip
  <2>2. on.pc = "findActive"
    BY DEF Idle
  <2> HIDE DEF on
  <2> QED
    BY <2>1, <2>2
<1>2. CASE findOrphan(p)
  <2> DEFINE on == [Idle EXCEPT !.op = "getActiveSession", !.pc = "heal", !.s = ActiveSession]
  <2>1. Goto(p, on)
    BY <1>2 DEF findOrphan
  <2>2. on.pc = "heal"
    BY DEF Idle
  <2> HIDE DEF on
  <2> QED
    BY <2>1, <2>2
<1>3. CASE readToDelete(p)
  <2> DEFINE on == [Idle EXCEPT !.op = "deleteItinerary", !.pc = "cancelAll"]
  <2>1. Goto(p, on)
    BY <1>3 DEF readToDelete
  <2>2. on.pc = "cancelAll"
    BY DEF Idle
  <2> HIDE DEF on
  <2> QED
    BY <2>1, <2>2
<1>4. CASE addActivity(p)
  <2> DEFINE on == [Idle EXCEPT !.op = "addActivity", !.pc = "findSession"]
  <2>1. Goto(p, on)
    BY <1>4 DEF addActivity
  <2>2. on.pc = "findSession"
    BY DEF Idle
  <2> HIDE DEF on
  <2> QED
    BY <2>1, <2>2
<1>5. ASSUME NEW a \in Activities, deleteActivity(p, a)
      PROVE  \E r : Goto(p, r) /\ Begun(r)
  <2> DEFINE on == [Idle EXCEPT !.op = "deleteActivity", !.pc = "findSession"]
  <2>1. Goto(p, on)
    BY <1>5 DEF deleteActivity
  <2>2. on.pc = "findSession"
    BY DEF Idle
  <2> HIDE DEF on
  <2> QED
    BY <2>1, <2>2
<1>6. ASSUME NEW s \in Sessions, NEW op \in CloseOps, readToClose(p, op, s)
      PROVE  \E r : Goto(p, r) /\ Begun(r)
  <2> DEFINE on == [Idle EXCEPT !.op = op, !.pc = "close", !.s = s]
  <2>1. Goto(p, on)
    BY <1>6 DEF readToClose
  <2>2. on.pc = "close"
    BY DEF Idle
  <2> HIDE DEF on
  <2> QED
    BY <2>1, <2>2
<1>7. ASSUME NEW s \in Sessions, NEW op \in FollowOps, NEW a \in Activities,
             readSession(p, op, s, a)
      PROVE  \E r : Goto(p, r) /\ Begun(r)
  <2> DEFINE on == [Idle EXCEPT !.op = op, !.pc = "findProgress", !.s = s, !.a = a]
  <2>1. Goto(p, on)
    BY <1>7 DEF readSession
  <2>2. on.pc = "findProgress" /\ on.op = op /\ on.a = a
    BY DEF Idle
  <2> HIDE DEF on
  <2> QED
    BY <2>1, <2>2
<1> QED
  BY <1>1, <1>2, <1>3, <1>4, <1>5, <1>6, <1>7 DEF Submit

LEMMA SubmitAimed ==
    ASSUME TypeOK, AimedInv, NEW p \in Slots, Submit(p)
    PROVE  AimedInv'
<1>1. PICK r : Goto(p, r) /\ Begun(r)
  BY Begins
<1>2. Aimed(r)
  BY <1>1 DEF Aimed, Begun, FollowLabels
<1> QED
  BY <1>1, <1>2, AimedStep

LEMMA ContinueAimed ==
    ASSUME TypeOK, AimedInv, NEW p \in Slots, Continue(p)
    PROVE  AimedInv'
<1>0. req[p] \in RequestRecord /\ Aimed(req[p])
  BY DEF TypeOK, RequestRecord, AimedInv
<1>a. ASSUME Return(p)
      PROVE  AimedInv'
  BY <1>a, IdleAimed, AimedStep DEF Return
<1>b. ASSUME NEW pc, pc \notin FollowLabels, pc # "promote", Goto(p, [req[p] EXCEPT !.pc = pc])
      PROVE  AimedInv'
  <2>1. [req[p] EXCEPT !.pc = pc].pc = pc
    BY <1>0 DEF RequestRecord
  <2> QED
    BY <1>b, <2>1, ElsewhereAimed, AimedStep
<1>c. ASSUME NEW pc \in FollowLabels, req[p].pc \in FollowLabels,
             Goto(p, [req[p] EXCEPT !.pc = pc])
      PROVE  AimedInv'
  <2>1. Aimed([req[p] EXCEPT !.pc = pc])
    BY <1>0, <1>c DEF RequestRecord, Aimed, FollowLabels
  <2> QED
    BY <1>c, <2>1, AimedStep
<1>1. CASE findProgress(p) \/ flagItem(p)
  BY <1>1, <1>a, <1>c DEF findProgress, flagItem, At, FollowLabels
<1>2. CASE updateProgress(p)
  <2>1. CASE Goto(p, [req[p] EXCEPT !.pc = "updateSession", !.next = req[p].a])
    <3>1. [req[p] EXCEPT !.pc = "updateSession", !.next = req[p].a].pc = "updateSession"
      BY <1>0 DEF RequestRecord
    <3> QED
      BY <2>1, <3>1, ElsewhereAimed, AimedStep DEF FollowLabels
  <2> QED
    BY <1>2, <1>a, <1>c, <2>1 DEF updateProgress, At, FollowLabels
<1>3. CASE listProgress(p)
  <2> DEFINE next == First(NotStarted(req[p].s) \ {req[p].a})
             pc == IF next # 0 THEN "promote" ELSE "updateSession"
             ends == /\ next = 0
                     /\ \/ req[p].op = "syncLocation"
                        \/ Unfinished(req[p].s) \ {req[p].a} = {}
             on == [req[p] EXCEPT !.pc = pc, !.next = next, !.ends = ends]
  <2>1. Goto(p, on)
    BY <1>3 DEF listProgress
  <2>2. next \in Activities \union {0}
    BY FirstMember DEF NotStarted
  <2>3. on.pc = pc /\ on.next = next
    BY <1>0 DEF RequestRecord
  <2>4. Aimed(on)
    BY <2>2, <2>3 DEF Aimed, FollowLabels
  <2> HIDE DEF on
  <2> QED
    BY <2>1, <2>4, AimedStep
<1>4. CASE listRefreshed(p)
  <2> DEFINE s == req[p].s
             kept == req[p].next \in req[p].seen
             next == IF kept THEN req[p].next ELSE First(Unfinished(s) \intersect req[p].seen)
             fresh == ~ kept /\ next \in NotStarted(s)
             pc == IF fresh THEN "promote" ELSE "reconcileSession"
             ends == Present(s) # {} /\ Unfinished(s) = {}
             on == [req[p] EXCEPT !.pc = pc, !.next = next, !.ends = ends]
  <2>1. Goto(p, on)
    BY <1>4 DEF listRefreshed
  <2>2. fresh => next \in Activities
    BY DEF NotStarted
  <2>3. on.pc = pc /\ on.next = next
    BY <1>0 DEF RequestRecord
  <2>4. Aimed(on)
    BY <2>2, <2>3 DEF Aimed, FollowLabels
  <2> HIDE DEF on
  <2> QED
    BY <2>1, <2>4, AimedStep
<1>5. CASE promote(p) \/ heal(p) \/ cancelAll(p)
  BY <1>5, <1>a, <1>b DEF promote, heal, CreateOrReturn, cancelAll, FollowLabels
<1>6. CASE findActive(p) \/ findSession(p)
  <2> DEFINE healing == [req[p] EXCEPT !.pc = "heal", !.s = ActiveSession]
             found == [req[p] EXCEPT !.pc = "readItinerary", !.s = ActiveSession,
                                     !.next = session[ActiveSession].current]
  <2>1. \/ Return(p) \/ Goto(p, healing) \/ Goto(p, found)
        \/ Goto(p, [req[p] EXCEPT !.pc = "createSession"])
    BY <1>6 DEF findActive, findSession, CreateOrReturn
  <2>2. healing.pc = "heal" /\ found.pc = "readItinerary"
    BY <1>0 DEF RequestRecord
  <2> HIDE DEF healing, found
  <2>3. Aimed(healing) /\ Aimed(found)
    BY <2>2, ElsewhereAimed DEF FollowLabels
  <2> QED
    BY <1>a, <1>b, <2>1, <2>3, AimedStep DEF FollowLabels
<1>7. CASE readItinerary(p) \/ listExisting(p)
  <2> DEFINE read == [req[p] EXCEPT !.pc = "listExisting", !.seen = items,
                                    !.seenDone = items \intersect done]
             list == [req[p] EXCEPT !.pc = "repair", !.del = Present(req[p].s) \ req[p].seen,
                                    !.add = req[p].seen \ Present(req[p].s)]
  <2>1. Goto(p, read) \/ Goto(p, list)
    BY <1>7 DEF readItinerary, listExisting
  <2>2. read.pc = "listExisting" /\ list.pc = "repair"
    BY <1>0 DEF RequestRecord
  <2> HIDE DEF read, list
  <2>3. Aimed(read) /\ Aimed(list)
    BY <2>2, ElsewhereAimed DEF FollowLabels
  <2> QED
    BY <2>1, <2>3, AimedStep
<1>8. CASE deleteProgress(p) \/ upsertProgress(p)
  <2> DEFINE added == [req[p] EXCEPT !.add = req[p].add \ {Min(req[p].add)}]
             deleted == [req[p] EXCEPT !.del = req[p].del \ {Min(req[p].del)}]
  <2>1. Return(p) \/ Goto(p, added) \/ Goto(p, deleted)
    BY <1>8 DEF deleteProgress, upsertProgress, Goto
  <2>2. added.pc = req[p].pc /\ deleted.pc = req[p].pc /\ req[p].pc = "repair"
    BY <1>0, <1>8 DEF RequestRecord, deleteProgress, upsertProgress, At
  <2> HIDE DEF added, deleted
  <2>3. Aimed(added) /\ Aimed(deleted)
    BY <2>2, ElsewhereAimed DEF FollowLabels
  <2> QED
    BY <1>a, <2>1, <2>3, AimedStep
<1>9. CASE updateSession(p) \/ close(p) \/ createSession(p) \/ archive(p) \/ reconcileSession(p)
  BY <1>9, <1>a DEF updateSession, close, createSession, archive, reconcileSession
<1> QED
  BY <1>1, <1>2, <1>3, <1>4, <1>5, <1>6, <1>7, <1>8, <1>9 DEF Continue

LEMMA InitAimed == Init => AimedInv
BY IdleAimed DEF Init, AimedInv

LEMMA NextAimed == TypeOK /\ AimedInv /\ [Next]_vars => AimedInv'
<1> SUFFICES ASSUME TypeOK, AimedInv, [Next]_vars PROVE AimedInv'
  OBVIOUS
<1>1. ASSUME NEW p \in Slots, Fail(p)
      PROVE  AimedInv'
  BY <1>1, IdleAimed, AimedStep DEF Fail, Return
<1>2. CASE UNCHANGED vars
  BY <1>2 DEF vars, AimedInv, Aimed
<1> QED
  BY <1>1, <1>2, SubmitAimed, ContinueAimed DEF Next

-----------------------------------------------------------------------------
(* Nobody is left with an ACTIVE session in which nothing is left to do.   *)

\* A request that may yet end s: it has written its row, and has not decided or decided so.
Ender(r, s) ==
    /\ r.s = s
    /\ \/ r.pc \in {"flagItem", "listProgress"}
       \/ r.pc = "updateSession" /\ r.ends

Open(s) == Present(s) = {} \/ Unfinished(s) # {} \/ \E p \in Slots : Ender(req[p], s)

\* The request between its two writes finds the activity: nothing is deleted.
FlagFinds == \A p \in Slots : At(p, "flagItem") => req[p].a \in items

StrandInv ==
    /\ FlagInv /\ TypeOK /\ CreatedInv /\ NoEdits /\ AimedInv
    /\ FlagFinds
    /\ \A s \in ActiveSessions : Open(s)

\* A step of p need only look after the sessions that it makes ACTIVE, whose rows it
\* writes, or that it was about to end.
LEMMA OpenStep ==
    ASSUME StrandInv, NEW p \in Slots, NEW r, Goto(p, r), r.pc = "flagItem" => r.a \in items,
           items' = items,
           \A s \in ActiveSessions' :
              \/ s \in ActiveSessions /\ row'[s] = row[s] /\ ~ Ender(req[p], s)
              \/ Unfinished(s)' # {}
              \/ Ender(r, s)
    PROVE  FlagFinds' /\ \A s \in ActiveSessions' : Open(s)'
<1>1. \A q \in Slots : req'[q] = IF q = p THEN r ELSE req[q]
  BY GotoIs DEF StrandInv
<1>2. FlagFinds'
  BY <1>1 DEF FlagFinds, StrandInv, At
<1>3. ASSUME NEW s \in ActiveSessions, row'[s] = row[s], ~ Ender(req[p], s)
      PROVE  Open(s)'
  <2>1. Open(s)
    BY DEF StrandInv
  <2>2. Present(s)' = Present(s) /\ Unfinished(s)' = Unfinished(s)
    BY <1>3 DEF Present, Unfinished
  <2>3. ASSUME NEW q \in Slots, Ender(req[q], s)
        PROVE  Ender(req'[q], s)
    BY <1>1, <1>3, <2>3
  <2> QED
    BY <2>1, <2>2, <2>3 DEF Open
<1>4. ASSUME NEW s, Ender(r, s)
      PROVE  Open(s)'
  BY <1>1, <1>4 DEF Open
<1>5. ASSUME NEW s, Unfinished(s)' # {}
      PROVE  Open(s)'
  BY <1>5 DEF Open
<1>6. ASSUME NEW s \in ActiveSessions'
      PROVE  Open(s)'
  BY <1>3, <1>4, <1>5, <1>6
<1> QED
  BY <1>2, <1>6

\* A step that makes no session ACTIVE and writes no rows.
LEMMA OpenKept ==
    ASSUME StrandInv, NEW p \in Slots, NEW r, Goto(p, r), r.pc = "flagItem" => r.a \in items,
           items' = items, row' = row, ActiveSessions' \subseteq ActiveSessions,
           \A s \in ActiveSessions' : ~ Ender(req[p], s)
    PROVE  FlagFinds' /\ \A s \in ActiveSessions' : Open(s)'
BY OpenStep

LEMMA SubmitOpen ==
    ASSUME Ops \intersect EditOps = {}, StrandInv, NEW p \in Slots, Submit(p)
    PROVE  FlagFinds' /\ \A s \in ActiveSessions' : Open(s)'
<1>1. ~ addActivity(p) /\ \A a \in Activities : ~ deleteActivity(p, a)
  BY DEF addActivity, deleteActivity, Offered, EditOps
<1>2. items' = items /\ row' = row /\ session' = session /\ At(p, "idle")
  BY <1>1 DEF Submit, readTrip, findOrphan, readToDelete, readToClose, readSession, plan, Offered
<1>3. ActiveSessions' = ActiveSessions
  BY <1>2 DEF ActiveSessions
<1>4. \A s : ~ Ender(req[p], s)
  BY <1>2 DEF Ender, At
<1>5. PICK r : Goto(p, r) /\ Begun(r)
  BY Begins
<1> QED
  BY <1>2, <1>3, <1>4, <1>5, OpenKept DEF Begun

LEMMA ContinueOpen ==
    ASSUME StrandInv, NEW p \in Slots, Continue(p)
    PROVE  FlagFinds' /\ \A s \in ActiveSessions' : Open(s)'
<1> DEFINE Kept == FlagFinds' /\ \A s \in ActiveSessions' : Open(s)'
<1> HIDE DEF Kept
<1> SUFFICES Kept
  BY DEF Kept
<1>0. /\ req[p] \in RequestRecord /\ Unedited(req[p])
      /\ session \in [Sessions -> SessionRecord]
      /\ row \in [Sessions -> [Activities -> RowStatus]]
  BY DEF StrandInv, TypeOK, RequestRecord, SessionRecord, NoEdits
<1>1. ~ findSession(p) /\ ~ readItinerary(p) /\ ~ listExisting(p) /\ ~ deleteProgress(p)
      /\ ~ upsertProgress(p) /\ ~ listRefreshed(p) /\ ~ reconcileSession(p)
  BY <1>0 DEF findSession, readItinerary, listExisting, deleteProgress, upsertProgress,
     listRefreshed, reconcileSession, At, Unedited, EditLabels
<1>2. items' = items
  BY <1>1 DEF Continue, findProgress, updateProgress, flagItem, listProgress, promote,
     updateSession, close, findActive, heal, createSession, cancelAll, archive, plan
<1>a. ASSUME NEW r, Goto(p, r), r.pc # "flagItem", row' = row,
             ActiveSessions' \subseteq ActiveSessions, \A s \in ActiveSessions' : ~ Ender(req[p], s)
      PROVE  Kept
  BY <1>2, <1>a, OpenKept DEF Kept
<1>b. ASSUME Return(p), row' = row,
             ActiveSessions' \subseteq ActiveSessions, \A s \in ActiveSessions' : ~ Ender(req[p], s)
      PROVE  Kept
  BY <1>a, <1>b, IdleNone DEF Return
<1>c. ASSUME NEW pc, pc # "flagItem", Goto(p, [req[p] EXCEPT !.pc = pc]), row' = row,
             ActiveSessions' \subseteq ActiveSessions, \A s \in ActiveSessions' : ~ Ender(req[p], s)
      PROVE  Kept
  <2>1. [req[p] EXCEPT !.pc = pc].pc = pc
    BY <1>0 DEF RequestRecord
  <2> QED
    BY <1>a, <1>c, <2>1
<1>d. session' = session => ActiveSessions' = ActiveSessions
  BY DEF ActiveSessions
<1>e. ~ At(p, "flagItem") /\ ~ At(p, "listProgress") /\ ~ At(p, "updateSession")
        => \A s \in ActiveSessions' : ~ Ender(req[p], s)
  BY DEF Ender, At
<1>f. ASSUME NEW s, NEW v, v.status # "ACTIVE", session' = [session EXCEPT ![s] = v]
      PROVE  ActiveSessions' \subseteq ActiveSessions \ {s}
  BY <1>0, <1>f DEF ActiveSessions
<1>3. CASE findProgress(p)
  <2>1. ~ At(p, "flagItem") /\ ~ At(p, "listProgress") /\ ~ At(p, "updateSession")
    BY <1>3 DEF findProgress, At
  <2>2. row' = row /\ session' = session
    BY <1>3 DEF findProgress
  <2>3. Return(p) \/ Goto(p, [req[p] EXCEPT !.pc = "updateProgress"])
    BY <1>3 DEF findProgress
  <2> QED
    BY <1>b, <1>c, <1>d, <1>e, <2>1, <2>2, <2>3
<1>4. CASE updateProgress(p)
  <2>0. PICK s, a : s = req[p].s /\ a = req[p].a
    OBVIOUS
  <2>1. session' = session /\ ActiveSessions' = ActiveSessions
    BY <1>4, <1>d DEF updateProgress
  <2>2. \A t \in ActiveSessions' : ~ Ender(req[p], t)
    BY <1>4, <1>e DEF updateProgress, At
  <2>5. s \in Sessions /\ a \in Activities
    BY <1>4, <2>0 DEF updateProgress, At, StrandInv, CreatedInv, HasSession, Sessionless, Created,
       AimedInv, Aimed, FollowLabels
  <2>3. CASE row[s][a] = "ABSENT"
    BY <1>4, <1>b, <2>0, <2>1, <2>2, <2>3 DEF updateProgress
  <2>4. CASE row[s][a] # "ABSENT"
    <3>1. row' = [row EXCEPT ![s][a] = Target(req[p].op)]
      BY <1>4, <2>0, <2>4 DEF updateProgress
    <3>2. \A t \in Sessions : t # s => row'[t] = row[t]
      BY <1>0, <3>1
    <3>3. ASSUME NEW r, Goto(p, r), r.pc = "flagItem" => r.a \in items,
                 s \in ActiveSessions => Unfinished(s)' # {} \/ Ender(r, s)
          PROVE  Kept
      <4>1. ASSUME NEW t \in ActiveSessions'
            PROVE  \/ t \in ActiveSessions /\ row'[t] = row[t] /\ ~ Ender(req[p], t)
                   \/ Unfinished(t)' # {}
                   \/ Ender(r, t)
        BY <2>1, <2>2, <3>2, <3>3 DEF ActiveSessions
      <4> QED
        BY <1>2, <3>3, <4>1, OpenStep DEF Kept
    <3>4. CASE req[p].op = "startActivity"
      <4> DEFINE on == [req[p] EXCEPT !.pc = "updateSession", !.next = a]
      <4>1. Goto(p, on)
        BY <1>4, <2>0, <2>4, <3>4 DEF updateProgress
      <4>2. on.pc = "updateSession"
        BY <1>0 DEF RequestRecord
      <4>3. s \in ActiveSessions => Unfinished(s)' # {}
        <5> SUFFICES ASSUME s \in ActiveSessions PROVE Unfinished(s)' # {}
          OBVIOUS
        <5>1. s \in Sessions
          BY DEF ActiveSessions
        <5>2. row'[s][a] = "IN_PROGRESS"
          BY <1>0, <2>5, <3>1, <3>4, <5>1 DEF Target
        <5> QED
          BY <2>5, <5>2 DEF Unfinished
      <4> HIDE DEF on
      <4> QED
        BY <3>3, <4>1, <4>2, <4>3
    <3>5. CASE req[p].op = "skipActivity"
      <4> DEFINE on == [req[p] EXCEPT !.pc = "listProgress"]
      <4>1. Goto(p, on)
        BY <1>4, <2>0, <2>4, <3>5 DEF updateProgress
      <4>2. on.pc = "listProgress" /\ on.s = s
        BY <1>0, <2>0 DEF RequestRecord
      <4> HIDE DEF on
      <4> QED
        BY <3>3, <4>1, <4>2 DEF Ender
    <3>6. CASE req[p].op \notin {"startActivity", "skipActivity"}
      <4> DEFINE on == [req[p] EXCEPT !.pc = "flagItem"]
      <4>1. Goto(p, on)
        BY <1>4, <2>0, <2>4, <3>6 DEF updateProgress
      <4>2. on.pc = "flagItem" /\ on.s = s /\ on.a = a
        BY <1>0, <2>0 DEF RequestRecord
      <4>3. a \in items
        BY <2>4, <2>5 DEF StrandInv, FlagInv, RowsRefer
      <4> HIDE DEF on
      <4> QED
        BY <3>3, <4>1, <4>2, <4>3 DEF Ender
    <3> QED
      BY <3>4, <3>5, <3>6
  <2> QED
    BY <2>3, <2>4
<1>5. CASE flagItem(p)
  <2> DEFINE on == [req[p] EXCEPT !.pc = "listProgress"]
  <2>1. Goto(p, on) /\ row' = row /\ ActiveSessions' = ActiveSessions
    BY <1>5, <1>d DEF flagItem, StrandInv, FlagFinds
  <2>2. on.pc = "listProgress" /\ on.s = req[p].s
    BY <1>0 DEF RequestRecord
  <2> HIDE DEF on
  <2>3. \A s \in ActiveSessions : ~ Ender(req[p], s) \/ Ender(on, s)
    BY <2>2 DEF Ender
  <2>4. \A s \in ActiveSessions' :
           \/ s \in ActiveSessions /\ row'[s] = row[s] /\ ~ Ender(req[p], s)
           \/ Unfinished(s)' # {}
           \/ Ender(on, s)
    BY <2>1, <2>3
  <2> QED
    BY <1>2, <2>1, <2>2, <2>4, OpenStep DEF Kept
<1>6. CASE listProgress(p)
  <2>0. PICK s : s = req[p].s
    OBVIOUS
  <2> DEFINE left == NotStarted(s) \ {req[p].a}
             next == First(left)
             pc == IF next # 0 THEN "promote" ELSE "updateSession"
             ends == /\ next = 0
                     /\ \/ req[p].op = "syncLocation"
                        \/ Unfinished(s) \ {req[p].a} = {}
             on == [req[p] EXCEPT !.pc = pc, !.next = next, !.ends = ends]
  <2>1. Goto(p, on) /\ row' = row /\ ActiveSessions' = ActiveSessions
    BY <1>6, <1>d, <2>0 DEF listProgress
  <2>2. on.pc = pc /\ on.s = s /\ on.ends = ends
    BY <1>0, <2>0 DEF RequestRecord
  <2>3. on.pc # "flagItem"
    BY <2>2
  <2>4. ends \/ Unfinished(s)' # {}
    <3>1. left \in SUBSET Activities
      BY DEF NotStarted
    <3>2. next # 0 => left # {}
      <4> HIDE DEF left
      <4> QED
        BY <3>1, FirstMember
    <3>3. left \subseteq Unfinished(s)
      BY DEF NotStarted, Unfinished
    <3>4. Unfinished(s)' = Unfinished(s)
      BY <2>1 DEF Unfinished
    <3> QED
      BY <3>2, <3>3, <3>4
  <2>5. ends => pc = "updateSession"
    OBVIOUS
  <2>6. ends => Ender(on, s)
    BY <2>2, <2>5 DEF Ender
  <2>7. \A t : t # s => ~ Ender(req[p], t)
    BY <2>0 DEF Ender
  <2> HIDE DEF on, ends, pc, next, left
  <2>8. \A t \in ActiveSessions' :
           \/ t \in ActiveSessions /\ row'[t] = row[t] /\ ~ Ender(req[p], t)
           \/ Unfinished(t)' # {}
           \/ Ender(on, t)
    BY <2>1, <2>4, <2>6, <2>7
  <2> QED
    BY <1>2, <2>1, <2>3, <2>8, OpenStep DEF Kept
<1>7. CASE promote(p)
  <2>0. PICK s, n : s = req[p].s /\ n = req[p].next
    OBVIOUS
  <2> DEFINE on == [req[p] EXCEPT !.pc = "updateSession"]
  <2>1. ActiveSessions' = ActiveSessions
    BY <1>7, <1>d DEF promote
  <2>2. \A t \in ActiveSessions' : ~ Ender(req[p], t)
    BY <1>7, <1>e DEF promote, At
  <2>3. CASE row[s][n] = "ABSENT"
    BY <1>7, <1>b, <2>0, <2>1, <2>2, <2>3 DEF promote
  <2>4. CASE row[s][n] # "ABSENT"
    <3>1. row' = [row EXCEPT ![s][n] = "IN_PROGRESS"] /\ Goto(p, on)
      BY <1>0, <1>7, <2>0, <2>4 DEF promote, Unedited
    <3>2. n \in Activities
      BY <1>7, <2>0 DEF promote, At, StrandInv, AimedInv, Aimed
    <3>3. \A t \in Sessions : t # s => row'[t] = row[t]
      BY <1>0, <3>1
    <3>4. s \in Sessions => Unfinished(s)' # {}
      BY <1>0, <3>1, <3>2 DEF Unfinished
    <3>5. on.pc = "updateSession"
      BY <1>0 DEF RequestRecord
    <3> HIDE DEF on
    <3>6. \A t \in ActiveSessions' :
             \/ t \in ActiveSessions /\ row'[t] = row[t] /\ ~ Ender(req[p], t)
             \/ Unfinished(t)' # {}
             \/ Ender(on, t)
      BY <2>1, <2>2, <3>3, <3>4 DEF ActiveSessions
    <3> QED
      BY <1>2, <3>1, <3>5, <3>6, OpenStep DEF Kept
  <2> QED
    BY <2>3, <2>4
<1>8. CASE updateSession(p)
  <2> DEFINE s == req[p].s
             new == IF req[p].ends THEN [status |-> "COMPLETED", current |-> 0]
                    ELSE IF req[p].next # 0 THEN [session[s] EXCEPT !.current = req[p].next]
                    ELSE session[s]
  <2>1. session' = [session EXCEPT ![s] = new] /\ Return(p) /\ row' = row
    BY <1>8 DEF updateSession
  <2>2. CASE req[p].ends
    <3>1. new.status # "ACTIVE"
      BY <2>2
    <3> HIDE DEF new
    <3>2. ActiveSessions' \subseteq ActiveSessions \ {s}
      BY <1>f, <2>1, <3>1
    <3>3. \A t \in ActiveSessions' : ~ Ender(req[p], t)
      BY <3>2 DEF Ender
    <3> QED
      BY <1>b, <2>1, <3>2, <3>3
  <2>3. CASE ~ req[p].ends
    <3>1. s \in Sessions => new.status = session[s].status
      BY <1>0, <2>3 DEF SessionRecord
    <3> HIDE DEF new
    <3>2. ActiveSessions' \subseteq ActiveSessions
      BY <1>0, <2>1, <3>1 DEF ActiveSessions
    <3>3. \A t \in ActiveSessions' : ~ Ender(req[p], t)
      BY <1>8, <2>3 DEF Ender, updateSession, At
    <3> QED
      BY <1>b, <2>1, <3>2, <3>3
  <2> QED
    BY <2>2, <2>3
<1>9. CASE close(p)
  <2> DEFINE new == [status |-> IF req[p].op = "finishTrip" THEN "COMPLETED" ELSE "CANCELLED",
                     current |-> 0]
  <2>1. session' = [session EXCEPT ![req[p].s] = new] /\ Return(p) /\ row' = row
    BY <1>9 DEF close
  <2>2. new.status # "ACTIVE"
    OBVIOUS
  <2> HIDE DEF new
  <2>3. ActiveSessions' \subseteq ActiveSessions
    BY <1>f, <2>1, <2>2
  <2> QED
    BY <1>9, <1>b, <1>e, <2>1, <2>3 DEF close, At
<1>g. ASSUME CreateOrReturn(p), row' = row, ActiveSessions' \subseteq ActiveSessions,
             \A s \in ActiveSessions' : ~ Ender(req[p], s)
      PROVE  Kept
  BY <1>b, <1>c, <1>g DEF CreateOrReturn
<1>10. CASE findActive(p)
  <2>1. row' = row /\ ActiveSessions' = ActiveSessions
    BY <1>10, <1>d DEF findActive
  <2>2. \A s \in ActiveSessions' : ~ Ender(req[p], s)
    BY <1>10, <1>e DEF findActive, At
  <2> DEFINE on == [req[p] EXCEPT !.pc = "heal", !.s = ActiveSession]
  <2>3. CreateOrReturn(p) \/ Return(p) \/ Goto(p, on)
    BY <1>10 DEF findActive
  <2>4. on.pc = "heal"
    BY <1>0 DEF RequestRecord
  <2> HIDE DEF on
  <2> QED
    BY <1>a, <1>b, <1>g, <2>1, <2>2, <2>3, <2>4
<1>11. CASE heal(p)
  <2> DEFINE new == [status |-> "CANCELLED", current |-> 0]
  <2>1. session' = [session EXCEPT ![req[p].s] = new] /\ row' = row /\ new.status # "ACTIVE"
    BY <1>11 DEF heal
  <2> HIDE DEF new
  <2>2. ActiveSessions' \subseteq ActiveSessions
    BY <1>f, <2>1
  <2>3. \A s \in ActiveSessions' : ~ Ender(req[p], s)
    BY <1>11, <1>e DEF heal, At
  <2> QED
    BY <1>11, <1>b, <1>g, <2>1, <2>2, <2>3 DEF heal
<1>12. CASE createSession(p)
  <2> DEFINE left == req[p].seen \ req[p].seenDone
  <2>0. PICK n, first : n = Cardinality(Created) + 1 /\ first = First(left)
    OBVIOUS
  <2> DEFINE new == [status |-> IF first = 0 THEN "COMPLETED" ELSE "ACTIVE", current |-> first]
             rows == [a \in Activities |->
                      IF a \notin req[p].seen THEN "ABSENT"
                      ELSE IF a \in req[p].seenDone THEN "COMPLETED"
                      ELSE IF a = first THEN "IN_PROGRESS" ELSE "NOT_STARTED"]
  <2>1. \A s \in ActiveSessions' : ~ Ender(req[p], s)
    BY <1>12, <1>e DEF createSession, At
  <2>2. CASE session' = session /\ row' = row
    BY <1>12, <1>b, <1>d, <2>1, <2>2 DEF createSession
  <2>3. CASE req[p].seen \subseteq items
    <3>1. /\ n \in Sessions /\ session' = [session EXCEPT ![n] = new]
          /\ row' = [row EXCEPT ![n] = rows] /\ Goto(p, Idle)
      BY <1>12, <2>0, <2>3 DEF createSession, Return
    <3>2. left \in SUBSET Activities
      BY <1>0 DEF RequestRecord
    <3>3. first # 0 => first \in left
      <4> HIDE DEF left
      <4> QED
        BY <2>0, <3>2, FirstMember
    <3>4. first # 0 => first \in Activities /\ rows[first] = "IN_PROGRESS"
      BY <3>2, <3>3
    <3>5. new.status = "ACTIVE" => first # 0
      OBVIOUS
    <3> HIDE DEF left, new, rows
    <3>6. \A t \in Sessions : row'[t] = IF t = n THEN rows ELSE row[t]
      BY <1>0, <3>1
    <3>7. ActiveSessions' \subseteq ActiveSessions \union {n}
      BY <1>0, <3>1 DEF ActiveSessions
    <3>8. n \in ActiveSessions' => Unfinished(n)' # {}
      <4> SUFFICES ASSUME n \in ActiveSessions' PROVE Unfinished(n)' # {}
        OBVIOUS
      <4>1. new.status = "ACTIVE"
        BY <1>0, <3>1 DEF ActiveSessions
      <4>2. row'[n][first] = "IN_PROGRESS" /\ first \in Activities
        BY <3>1, <3>4, <3>5, <3>6, <4>1
      <4> QED
        BY <4>2 DEF Unfinished
    <3>9. ASSUME NEW t \in ActiveSessions'
          PROVE  \/ t \in ActiveSessions /\ row'[t] = row[t] /\ ~ Ender(req[p], t)
                 \/ Unfinished(t)' # {}
                 \/ Ender(Idle, t)
      <4>1. CASE t = n
        BY <3>8, <4>1
      <4>2. CASE t # n
        BY <2>1, <3>6, <3>7, <4>2 DEF ActiveSessions
      <4> QED
        BY <4>1, <4>2
    <3>10. Idle.pc # "flagItem"
      BY IdleNone
    <3> QED
      BY <1>2, <3>1, <3>9, <3>10, OpenStep DEF Kept
  <2> QED
    BY <1>12, <2>2, <2>3 DEF createSession
<1>13. CASE cancelAll(p)
  <2>1. ActiveSessions' = {}
    BY <1>0, <1>13 DEF cancelAll, ActiveSessions
  <2> QED
    BY <1>13, <1>c, <2>1 DEF cancelAll
<1>14. CASE archive(p)
  BY <1>14, <1>b, <1>d, <1>e DEF archive, At
<1> QED
  BY <1>1, <1>3, <1>4, <1>5, <1>6, <1>7, <1>8, <1>9, <1>10, <1>11, <1>12, <1>13, <1>14
  DEF Continue

LEMMA InitStrand == Init => StrandInv
<1> SUFFICES ASSUME Init PROVE StrandInv
  OBVIOUS
<1>1. \A p \in Slots : req[p].pc = "idle"
  BY DEF Init, Idle
<1>2. ActiveSessions = {}
  BY DEF Init, ActiveSessions
<1>3. FlagFinds
  BY <1>1 DEF FlagFinds, At
<1> QED
  BY <1>2, <1>3, InitFlag, InitType, InitCreated, InitUnedited, InitAimed DEF StrandInv

LEMMA NextStrand ==
    ASSUME Ops \intersect EditOps = {}, MaxFailures = 0, StrandInv, [Next]_vars
    PROVE  StrandInv'
<1>1. (FlagInv /\ TypeOK /\ CreatedInv /\ NoEdits /\ AimedInv)'
  BY NextFlag, NextType, NextCreated, NextUnedited, NextAimed DEF StrandInv
<1>2. FlagFinds' /\ \A s \in ActiveSessions' : Open(s)'
  <2>1. ASSUME NEW p \in Slots, Fail(p)
        PROVE  FALSE
    BY <2>1 DEF Fail, StrandInv, TypeOK
  <2>2. CASE UNCHANGED vars
    BY <2>2 DEF vars, plan, StrandInv, FlagFinds, At, ActiveSessions, Open, Present, Unfinished,
       Ender
  <2> QED
    BY <2>1, <2>2, SubmitOpen, ContinueOpen DEF Next
<1> QED
  BY <1>1, <1>2 DEF StrandInv

LEMMA StrandedNot == StrandInv => NotStrandedAtRest
BY DEF StrandInv, NotStrandedAtRest, AtRest, At, Open, Ender

\* However many requests of a user overlap, once all are answered an ACTIVE session has
\* something left to do, as long as nothing is edited and no call fails.
THEOREM NotStrandedAlways ==
    ASSUME Ops \intersect EditOps = {}, MaxFailures = 0
    PROVE  Spec => []NotStrandedAtRest
<1>1. StrandInv /\ [Next]_vars => StrandInv'
  BY NextStrand
<1> QED
  BY <1>1, InitStrand, StrandedNot, PTL DEF Spec

-----------------------------------------------------------------------------
(* Reconciliations that do not overlap.                                    *)

Writes(r) ==
    /\ Present(r.s) = items
    /\ r.next = 0 => Unfinished(r.s) = {}
    /\ r.next # 0 => r.next \in items
    /\ ~ r.ends => Present(r.s) = {} \/ Unfinished(r.s) # {}

\* What a reconciliation knows at each of its awaits.
Reconciles(r) ==
    /\ r.pc = "listExisting" => r.seen = items
    /\ r.pc = "repair" => /\ r.seen = items
                          /\ r.del = Present(r.s) \ items
                          /\ r.add = items \ Present(r.s)
    /\ r.pc = "promote" /\ r.op \in EditOps =>
          Present(r.s) = items /\ r.next \in NotStarted(r.s) /\ ~ r.ends
    /\ r.pc = "reconcileSession" => Writes(r)

RepairInv == TypeOK /\ CreatedInv /\ AimedInv /\ \A p \in Slots : Reconciles(req[p])

ReconcileLabels == {"listExisting", "repair", "promote", "reconcileSession"}

OneAtATime == \A p, q \in Slots : p = q

LEMMA ElsewhereReconciles ==
    ASSUME NEW r, r.pc \notin ReconcileLabels
    PROVE  Reconciles(r)'
BY DEF Reconciles, ReconcileLabels

\* The only request goes on.
LEMMA AloneStep ==
    ASSUME OneAtATime, TypeOK, NEW p \in Slots, NEW r, Goto(p, r), Reconciles(r)'
    PROVE  \A q \in Slots : Reconciles(req[q])'
<1>1. ASSUME NEW q \in Slots
      PROVE  req'[q] = r
  BY GotoIs DEF OneAtATime
<1> QED
  BY <1>1 DEF Reconciles, Writes, Present, NotStarted, Unfinished

LEMMA ElsewhereStep ==
    ASSUME OneAtATime, TypeOK, NEW p \in Slots, NEW r, Goto(p, r), r.pc \notin ReconcileLabels
    PROVE  \A q \in Slots : Reconciles(req[q])'
BY AloneStep, ElsewhereReconciles

LEMMA ContinueReconciles ==
    ASSUME OneAtATime, RepairInv, NEW p \in Slots, Continue(p)
    PROVE  \A q \in Slots : Reconciles(req[q])'
<1> DEFINE Kept == \A q \in Slots : Reconciles(req[q])'
<1> HIDE DEF Kept
<1> SUFFICES Kept
  BY DEF Kept
<1>0. /\ req[p] \in RequestRecord /\ Aimed(req[p]) /\ HasSession(req[p])
      /\ row \in [Sessions -> [Activities -> RowStatus]]
      /\ Reconciles(req[p])
  BY DEF RepairInv, TypeOK, RequestRecord, AimedInv, CreatedInv
<1>a. ASSUME NEW r, Goto(p, r), r.pc \notin ReconcileLabels
      PROVE  Kept
  BY <1>a, ElsewhereStep DEF RepairInv, Kept
<1>b. ASSUME Return(p)
      PROVE  Kept
  <2>1. Idle.pc \notin ReconcileLabels
    BY DEF Idle, ReconcileLabels
  <2> QED
    BY <1>a, <1>b, <2>1 DEF Return
<1>c. ASSUME NEW pc, pc \notin ReconcileLabels, Goto(p, [req[p] EXCEPT !.pc = pc])
      PROVE  Kept
  <2>1. [req[p] EXCEPT !.pc = pc].pc = pc
    BY <1>0 DEF RequestRecord
  <2> QED
    BY <1>a, <1>c, <2>1
<1>d. ASSUME NEW r, Goto(p, r), Reconciles(r)'
      PROVE  Kept
  BY <1>d, AloneStep DEF RepairInv, Kept
<1>1. CASE findProgress(p) \/ flagItem(p) \/ heal(p) \/ cancelAll(p)
  BY <1>1, <1>b, <1>c DEF findProgress, flagItem, heal, CreateOrReturn, cancelAll, ReconcileLabels
<1>2. CASE updateProgress(p)
  <2>1. CASE Goto(p, [req[p] EXCEPT !.pc = "updateSession", !.next = req[p].a])
    <3>1. [req[p] EXCEPT !.pc = "updateSession", !.next = req[p].a].pc = "updateSession"
      BY <1>0 DEF RequestRecord
    <3> QED
      BY <1>a, <2>1, <3>1 DEF ReconcileLabels
  <2> QED
    BY <1>2, <1>b, <1>c, <2>1 DEF updateProgress, ReconcileLabels
<1>3. CASE listProgress(p)
  <2>1. PICK next, pc, ends :
          /\ next = First(NotStarted(req[p].s) \ {req[p].a})
          /\ pc = IF next # 0 THEN "promote" ELSE "updateSession"
          /\ ends = (/\ next = 0
                     /\ \/ req[p].op = "syncLocation"
                        \/ Unfinished(req[p].s) \ {req[p].a} = {})
    OBVIOUS
  <2>2. PICK r : r = [req[p] EXCEPT !.pc = pc, !.next = next, !.ends = ends]
    OBVIOUS
  <2>7. pc \in {"promote", "updateSession"} /\ Goto(p, r)
    BY <1>3, <2>1, <2>2 DEF listProgress
  <2>3. r.pc = pc /\ r.op = req[p].op
    BY <1>0, <2>2 DEF RequestRecord
  <2>4. req[p].op \in FollowOps
    BY <1>0, <1>3 DEF listProgress, At, Aimed, FollowLabels
  <2>5. r.op \notin EditOps
    BY <2>3, <2>4 DEF FollowOps, EditOps
  <2>6. Reconciles(r)'
    BY <2>3, <2>5, <2>7 DEF Reconciles
  <2> QED
    BY <1>d, <2>6, <2>7
<1>4. CASE findActive(p) \/ findSession(p)
  <2> DEFINE healing == [req[p] EXCEPT !.pc = "heal", !.s = ActiveSession]
             found == [req[p] EXCEPT !.pc = "readItinerary", !.s = ActiveSession,
                                     !.next = session[ActiveSession].current]
  <2>1. \/ Return(p) \/ Goto(p, healing) \/ Goto(p, found)
        \/ Goto(p, [req[p] EXCEPT !.pc = "createSession"])
    BY <1>4 DEF findActive, findSession, CreateOrReturn
  <2>2. healing.pc = "heal" /\ found.pc = "readItinerary"
    BY <1>0 DEF RequestRecord
  <2> HIDE DEF healing, found
  <2> QED
    BY <1>a, <1>b, <1>c, <2>1, <2>2 DEF ReconcileLabels
<1>5. CASE readItinerary(p)
  <2>1. PICK r : r = [req[p] EXCEPT !.pc = "listExisting", !.seen = items,
                                    !.seenDone = items \intersect done]
    OBVIOUS
  <2>2. Goto(p, r) /\ items' = items
    BY <1>5, <2>1 DEF readItinerary, plan
  <2>3. r.pc = "listExisting" /\ r.seen = items
    BY <1>0, <2>1 DEF RequestRecord
  <2>4. Reconciles(r)'
    BY <2>2, <2>3 DEF Reconciles
  <2> QED
    BY <1>d, <2>2, <2>4
<1>6. CASE listExisting(p)
  <2>1. PICK r : r = [req[p] EXCEPT !.pc = "repair", !.del = Present(req[p].s) \ req[p].seen,
                                    !.add = req[p].seen \ Present(req[p].s)]
    OBVIOUS
  <2>2. Goto(p, r) /\ items' = items /\ row' = row
    BY <1>6, <2>1 DEF listExisting, plan
  <2>3. req[p].seen = items
    BY <1>0, <1>6 DEF listExisting, At, Reconciles
  <2>4. /\ r.pc = "repair" /\ r.seen = items
        /\ r.del = Present(r.s) \ items /\ r.add = items \ Present(r.s)
    BY <1>0, <2>1, <2>3 DEF RequestRecord
  <2>5. Present(r.s)' = Present(r.s)
    BY <2>2 DEF Present
  <2>6. Reconciles(r)'
    BY <2>2, <2>4, <2>5 DEF Reconciles
  <2> QED
    BY <1>d, <2>2, <2>6
<1>e. ASSUME At(p, "repair")
      PROVE  /\ req[p].s \in Sessions /\ req[p].seen = items
             /\ req[p].del = Present(req[p].s) \ items
             /\ req[p].add = items \ Present(req[p].s)
  BY <1>0, <1>e DEF At, HasSession, Sessionless, Created, Reconciles
<1>7. CASE deleteProgress(p)
  <2>0. PICK s, a : s = req[p].s /\ a = Min(req[p].del)
    OBVIOUS
  <2>1. PICK r : r = [req[p] EXCEPT !.del = req[p].del \ {a}]
    OBVIOUS
  <2>2. Goto(p, r) /\ items' = items /\ row' = [row EXCEPT ![s][a] = "ABSENT"]
    BY <1>7, <2>0, <2>1 DEF deleteProgress, plan, Goto
  <2>3. a \in Present(s) /\ a \notin items /\ s \in Sessions
    <3>1. req[p].del \in SUBSET (1 .. MaxActivities) /\ req[p].del # {}
      BY <1>0, <1>7 DEF RequestRecord, Activities, deleteProgress
    <3>2. a \in req[p].del
      BY <2>0, <3>1, MinMember, BoundsAssumption
    <3> QED
      BY <1>7, <1>e, <2>0, <3>2 DEF deleteProgress
  <2>8. \A b \in Activities : row'[s][b] = IF b = a THEN "ABSENT" ELSE row[s][b]
    BY <1>0, <2>2, <2>3
  <2>4. Present(s)' = Present(s) \ {a}
    BY <2>8 DEF Present
  <2>5. /\ r.pc = "repair" /\ r.s = s /\ r.seen = items
        /\ r.del = (Present(s) \ {a}) \ items /\ r.add = items \ Present(s)
    BY <1>0, <1>7, <1>e, <2>0, <2>1 DEF RequestRecord, deleteProgress, At
  <2>6. r.add = items \ (Present(s) \ {a})
    BY <2>3, <2>5
  <2>7. Reconciles(r)'
    BY <2>2, <2>4, <2>5, <2>6 DEF Reconciles
  <2> QED
    BY <1>d, <2>2, <2>7
<1>8. CASE upsertProgress(p)
  <2>0. PICK s, a : s = req[p].s /\ a = Min(req[p].add)
    OBVIOUS
  <2>1. PICK r : r = [req[p] EXCEPT !.add = req[p].add \ {a}]
    OBVIOUS
  <2>2. a \in items /\ a \notin Present(s) /\ s \in Sessions /\ a \in Activities
    <3>1. req[p].add \in SUBSET (1 .. MaxActivities) /\ req[p].add # {}
      BY <1>0, <1>8 DEF RequestRecord, Activities, upsertProgress
    <3>2. a \in req[p].add
      BY <2>0, <3>1, MinMember, BoundsAssumption
    <3> QED
      BY <1>8, <1>e, <2>0, <3>1, <3>2 DEF upsertProgress, Activities
  <2>3. /\ Goto(p, r) /\ items' = items
        /\ \E v : v # "ABSENT" /\ row' = [row EXCEPT ![s][a] = v]
    <3> DEFINE new == IF row[s][a] # "ABSENT" THEN row[s][a]
                      ELSE IF a \in req[p].seenDone THEN "COMPLETED" ELSE "NOT_STARTED"
    <3>1. Goto(p, r) /\ items' = items /\ row' = [row EXCEPT ![s][a] = new]
      BY <1>8, <2>0, <2>1, <2>2 DEF upsertProgress, plan, Goto
    <3>2. new # "ABSENT"
      OBVIOUS
    <3> HIDE DEF new
    <3> QED
      BY <3>1, <3>2
  <2>8. PICK v : v # "ABSENT" /\ row' = [row EXCEPT ![s][a] = v]
    BY <2>3
  <2>9. \A b \in Activities : row'[s][b] = IF b = a THEN v ELSE row[s][b]
    BY <1>0, <2>2, <2>8
  <2>4. Present(s)' = Present(s) \union {a}
    BY <2>2, <2>8, <2>9 DEF Present
  <2>5. /\ r.pc = "repair" /\ r.s = s /\ r.seen = items
        /\ r.del = Present(s) \ items /\ r.add = (items \ Present(s)) \ {a}
    BY <1>0, <1>8, <1>e, <2>0, <2>1 DEF RequestRecord, upsertProgress, At
  <2>6. r.del = (Present(s) \union {a}) \ items /\ r.add = items \ (Present(s) \union {a})
    BY <2>2, <2>5
  <2>7. Reconciles(r)'
    BY <2>3, <2>4, <2>5, <2>6 DEF Reconciles
  <2> QED
    BY <1>d, <2>3, <2>7
<1>9. CASE listRefreshed(p)
  <2>0. PICK s : s = req[p].s
    OBVIOUS
  <2> DEFINE kept == req[p].next \in req[p].seen
             next == IF kept THEN req[p].next ELSE First(Unfinished(s) \intersect req[p].seen)
             fresh == ~ kept /\ next \in NotStarted(s)
             pc == IF fresh THEN "promote" ELSE "reconcileSession"
             ends == Present(s) # {} /\ Unfinished(s) = {}
  <2>1. PICK r : r = [req[p] EXCEPT !.pc = pc, !.next = next, !.ends = ends]
    OBVIOUS
  <2>2. Goto(p, r) /\ items' = items /\ row' = row
    BY <1>9, <2>0, <2>1 DEF listRefreshed, plan
  <2>3. r.pc = pc /\ r.s = s /\ r.next = next /\ r.ends = ends
    BY <1>0, <2>0, <2>1 DEF RequestRecord
  <2>4. Present(s) = items /\ req[p].seen = items
    <3>1. Present(s) \ items = {} /\ items \ Present(s) = {} /\ req[p].seen = items
      BY <1>9, <1>e, <2>0 DEF listRefreshed
    <3> QED
      BY <3>1
  <2>5. Unfinished(s) \subseteq items /\ NotStarted(s) \subseteq Unfinished(s)
    BY <2>4 DEF Present, Unfinished, NotStarted
  <2>6. 0 \notin items
    BY DEF RepairInv, TypeOK, Activities
  <2>7. /\ next = 0 => Unfinished(s) = {}
        /\ next # 0 => next \in items
    <3>1. CASE kept
      BY <2>4, <2>6, <3>1
    <3>2. CASE ~ kept
      <4>1. next = First(Unfinished(s))
        BY <2>4, <2>5, <3>2
      <4>2. Unfinished(s) \in SUBSET Activities
        BY DEF Unfinished
      <4> HIDE DEF next
      <4> QED
        BY <2>5, <4>1, <4>2, FirstMember
    <3> QED
      BY <3>1, <3>2
  <2>8. fresh => ~ ends /\ next \in NotStarted(s)
    BY <2>5
  <2>9. ~ ends => Present(s) = {} \/ Unfinished(s) # {}
    OBVIOUS
  <2>10. fresh => pc = "promote"
    OBVIOUS
  <2>11. ~ fresh => pc = "reconcileSession"
    OBVIOUS
  <2> HIDE DEF kept, next, fresh, pc, ends
  <2>12. /\ Present(s)' = Present(s) /\ Unfinished(s)' = Unfinished(s)
         /\ NotStarted(s)' = NotStarted(s)
    BY <2>2 DEF Present, Unfinished, NotStarted
  <2>13. Reconciles(r)'
    BY <2>2, <2>3, <2>4, <2>7, <2>8, <2>9, <2>10, <2>11, <2>12 DEF Reconciles, Writes
  <2> QED
    BY <1>d, <2>2, <2>13
<1>10. CASE promote(p)
  <2>0. PICK s, n : s = req[p].s /\ n = req[p].next
    OBVIOUS
  <2>1. CASE ~ (req[p].op \in EditOps)
    BY <1>10, <1>b, <1>c, <2>1 DEF promote, ReconcileLabels
  <2>2. CASE row[s][n] = "ABSENT"
    BY <1>10, <1>b, <2>0, <2>2 DEF promote
  <2>3. CASE req[p].op \in EditOps /\ row[s][n] # "ABSENT"
    <3>1. PICK r : r = [req[p] EXCEPT !.pc = "reconcileSession"]
      OBVIOUS
    <3>2. Goto(p, r) /\ items' = items /\ row' = [row EXCEPT ![s][n] = "IN_PROGRESS"]
      BY <1>10, <2>0, <2>3, <3>1 DEF promote, plan
    <3>3. Present(s) = items /\ n \in NotStarted(s) /\ ~ req[p].ends /\ s \in Sessions
      BY <1>0, <1>10, <2>0, <2>3 DEF promote, At, Reconciles, HasSession, Sessionless, Created
    <3>4. n \in Activities /\ n \in items /\ n # 0
      BY <3>3 DEF NotStarted, Present, Activities
    <3>5. \A b \in Activities : row'[s][b] = IF b = n THEN "IN_PROGRESS" ELSE row[s][b]
      BY <1>0, <3>2, <3>3
    <3>6. Present(s)' = items
      BY <3>3, <3>4, <3>5 DEF Present
    <3>7. Unfinished(s)' # {}
      BY <3>4, <3>5 DEF Unfinished
    <3>8. r.pc = "reconcileSession" /\ r.s = s /\ r.next = n
      BY <1>0, <2>0, <3>1 DEF RequestRecord
    <3>9. Reconciles(r)'
      BY <3>2, <3>4, <3>6, <3>7, <3>8 DEF Reconciles, Writes
    <3> QED
      BY <1>d, <3>2, <3>9
  <2> QED
    BY <2>1, <2>2, <2>3
<1>11. CASE updateSession(p) \/ close(p) \/ createSession(p) \/ archive(p) \/ reconcileSession(p)
  BY <1>11, <1>b DEF updateSession, close, createSession, archive, reconcileSession
<1> QED
  BY <1>1, <1>2, <1>3, <1>4, <1>5, <1>6, <1>7, <1>8, <1>9, <1>10, <1>11 DEF Continue

LEMMA InitRepair == Init => RepairInv
<1>1. Init => \A p \in Slots : Reconciles(req[p])
  BY DEF Init, Idle, Reconciles
<1> QED
  BY <1>1, InitType, InitCreated, InitAimed DEF RepairInv

LEMMA NextRepair ==
    ASSUME OneAtATime, RepairInv, [Next]_vars
    PROVE  RepairInv'
<1>1. (TypeOK /\ CreatedInv /\ AimedInv)'
  BY NextType, NextCreated, NextAimed DEF RepairInv
<1>2. ASSUME NEW p \in Slots, Submit(p)
      PROVE  \A q \in Slots : Reconciles(req[q])'
  <2>1. PICK r : Goto(p, r) /\ Begun(r)
    BY <1>2, Begins
  <2>2. r.pc \notin ReconcileLabels
    BY <2>1 DEF Begun, ReconcileLabels
  <2> QED
    BY <2>1, <2>2, ElsewhereStep DEF RepairInv
<1>3. ASSUME NEW p \in Slots, Fail(p)
      PROVE  \A q \in Slots : Reconciles(req[q])'
  <2>1. Idle.pc \notin ReconcileLabels
    BY DEF Idle, ReconcileLabels
  <2> QED
    BY <1>3, <2>1, ElsewhereStep DEF Fail, Return, RepairInv
<1>4. CASE UNCHANGED vars
  BY <1>1, <1>4 DEF vars, plan, RepairInv, Reconciles, Writes, Present, NotStarted, Unfinished
<1> QED
  BY <1>1, <1>2, <1>3, <1>4, ContinueReconciles DEF Next, RepairInv

LEMMA StepRepairs ==
    ASSUME RepairInv, [Next]_vars
    PROVE  Repairs
<1>1. ASSUME NEW p \in Slots, reconcileSession(p)
      PROVE  LET s == req[p].s IN
             /\ Present(s) = items
             /\ session'[s].current = 0 => Unfinished(s) = {}
             /\ session'[s].current # 0 => session'[s].current \in items
             /\ session'[s].status = "ACTIVE" => Present(s) = {} \/ Unfinished(s) # {}
  <2>1. Writes(req[p]) /\ req[p].s \in Sessions
    BY <1>1 DEF RepairInv, Reconciles, reconcileSession, At, CreatedInv, HasSession, Sessionless,
       Created
  <2>2. session'[req[p].s] = [status |-> IF req[p].ends THEN "COMPLETED" ELSE "ACTIVE",
                              current |-> req[p].next]
    BY <1>1, <2>1 DEF reconcileSession, RepairInv, TypeOK
  <2>3. /\ session'[req[p].s].current = req[p].next
        /\ session'[req[p].s].status = "ACTIVE" => ~ req[p].ends
    BY <2>2
  <2> QED
    BY <2>1, <2>3 DEF Writes
<1> QED
  BY <1>1 DEF Repairs

\* Whatever await earlier requests were abandoned at, and however often calls fail: if
\* requests do not overlap, a reconciliation that runs to its end repairs the session.
THEOREM RepairsAlways ==
    ASSUME OneAtATime
    PROVE  Spec => [][Repairs]_vars
<1>1. RepairInv /\ [Next]_vars => RepairInv'
  BY NextRepair
<1>2. RepairInv /\ [Next]_vars => [Repairs]_vars
  BY StepRepairs
<1> QED
  BY <1>1, <1>2, InitRepair, PTL DEF Spec

=============================================================================
