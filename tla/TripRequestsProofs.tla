------------------------- MODULE TripRequestsProofs -------------------------
(* Proofs about MCTripRequests: what the theorems about overlapping requests *)
(* say of its two parts.  The constants of the part "follow" are any that    *)
(* leave out edits and failures.                                             *)
EXTENDS MCTripRequests, TripSessionStepsProofs

\* The theorems for the part in which calls fail.
CrashProofs == INSTANCE TripSessionStepsProofs WITH
    Slots <- {p3}, InitialItems <- 2, MaxActivities <- 4, MaxSessions <- 1, MaxFailures <- 2,
    Ops <- {"startTrip", "completeActivity", "skipActivity", "addActivity", "deleteActivity"}

-----------------------------------------------------------------------------
(* The part is the instance that the theorems are about.                   *)

LEMMA SameCardinality == \A S : Crash!Cardinality(S) = CrashProofs!Cardinality(S)
BY DEF Crash!Cardinality, CrashProofs!Cardinality

LEMMA SameInit == Crash!Init <=> CrashProofs!Init
BY DEF Crash!Init, CrashProofs!Init, Crash!Idle, CrashProofs!Idle, Crash!Sessions,
    CrashProofs!Sessions, Crash!Activities, CrashProofs!Activities

LEMMA SameNext == Crash!Next <=> CrashProofs!Next
<1>1. \A p :
     Crash!readTrip(p) <=> CrashProofs!readTrip(p)
  BY SameCardinality 
     DEF Crash!readTrip, CrashProofs!readTrip, Crash!Offered, CrashProofs!Offered,
     Crash!Created, CrashProofs!Created, Crash!Goto, CrashProofs!Goto, Crash!Idle,
     CrashProofs!Idle, Crash!plan, CrashProofs!plan, Crash!At, CrashProofs!At,
     Crash!Sessions, CrashProofs!Sessions
<1>2. \A p :
     /\ Crash!findOrphan(p) <=> CrashProofs!findOrphan(p)
     /\ Crash!readToDelete(p) <=> CrashProofs!readToDelete(p)
     /\ Crash!addActivity(p) <=> CrashProofs!addActivity(p)
  BY 
     DEF Crash!findOrphan, CrashProofs!findOrphan, Crash!readToDelete,
     CrashProofs!readToDelete, Crash!addActivity, CrashProofs!addActivity, Crash!Offered,
     CrashProofs!Offered, Crash!ActiveSession, CrashProofs!ActiveSession, Crash!Goto,
     CrashProofs!Goto, Crash!Idle, CrashProofs!Idle, Crash!plan, CrashProofs!plan,
     Crash!At, CrashProofs!At, Crash!ActiveSessions, CrashProofs!ActiveSessions,
     Crash!Max, CrashProofs!Max, Crash!Sessions, CrashProofs!Sessions
<1>3. \A p :
     /\ Crash!findProgress(p) <=> CrashProofs!findProgress(p)
     /\ Crash!updateProgress(p) <=> CrashProofs!updateProgress(p)
     /\ Crash!flagItem(p) <=> CrashProofs!flagItem(p)
  BY 
     DEF Crash!findProgress, CrashProofs!findProgress, Crash!updateProgress,
     CrashProofs!updateProgress, Crash!flagItem, CrashProofs!flagItem, Crash!At,
     CrashProofs!At, Crash!Accepted, CrashProofs!Accepted, Crash!Goto, CrashProofs!Goto,
     Crash!Return, CrashProofs!Return, Crash!plan, CrashProofs!plan, Crash!Target,
     CrashProofs!Target, Crash!Idle, CrashProofs!Idle
<1>4. \A p :
     /\ Crash!listProgress(p) <=> CrashProofs!listProgress(p)
     /\ Crash!promote(p) <=> CrashProofs!promote(p)
  BY 
     DEF Crash!listProgress, CrashProofs!listProgress, Crash!promote, CrashProofs!promote,
     Crash!First, CrashProofs!First, Crash!NotStarted, CrashProofs!NotStarted, Crash!At,
     CrashProofs!At, Crash!Goto, CrashProofs!Goto, Crash!Unfinished,
     CrashProofs!Unfinished, Crash!plan, CrashProofs!plan, Crash!Return,
     CrashProofs!Return, Crash!EditOps, CrashProofs!EditOps, Crash!Min, CrashProofs!Min,
     Crash!Activities, CrashProofs!Activities, Crash!Idle, CrashProofs!Idle
<1>5. \A p :
     /\ Crash!updateSession(p) <=> CrashProofs!updateSession(p)
     /\ Crash!close(p) <=> CrashProofs!close(p)
     /\ Crash!findActive(p) <=> CrashProofs!findActive(p)
     /\ Crash!heal(p) <=> CrashProofs!heal(p)
  BY 
     DEF Crash!updateSession, CrashProofs!updateSession, Crash!close, CrashProofs!close,
     Crash!findActive, CrashProofs!findActive, Crash!heal, CrashProofs!heal, Crash!At,
     CrashProofs!At, Crash!Return, CrashProofs!Return, Crash!plan, CrashProofs!plan,
     Crash!ActiveSession, CrashProofs!ActiveSession, Crash!CreateOrReturn,
     CrashProofs!CreateOrReturn, Crash!Goto, CrashProofs!Goto, Crash!Idle,
     CrashProofs!Idle, Crash!ActiveSessions, CrashProofs!ActiveSessions, Crash!Max,
     CrashProofs!Max, Crash!Sessions, CrashProofs!Sessions
<1>6. \A p :
     Crash!createSession(p) <=> CrashProofs!createSession(p)
  BY SameCardinality 
     DEF Crash!createSession, CrashProofs!createSession, Crash!Created,
     CrashProofs!Created, Crash!First, CrashProofs!First, Crash!At, CrashProofs!At,
     Crash!Sessions, CrashProofs!Sessions, Crash!Activities, CrashProofs!Activities,
     Crash!Return, CrashProofs!Return, Crash!plan, CrashProofs!plan, Crash!Min,
     CrashProofs!Min, Crash!Goto, CrashProofs!Goto, Crash!Idle, CrashProofs!Idle
<1>7. \A p :
     /\ Crash!cancelAll(p) <=> CrashProofs!cancelAll(p)
     /\ Crash!archive(p) <=> CrashProofs!archive(p)
     /\ Crash!findSession(p) <=> CrashProofs!findSession(p)
     /\ Crash!readItinerary(p) <=> CrashProofs!readItinerary(p)
  BY 
     DEF Crash!cancelAll, CrashProofs!cancelAll, Crash!archive, CrashProofs!archive,
     Crash!findSession, CrashProofs!findSession, Crash!readItinerary,
     CrashProofs!readItinerary, Crash!At, CrashProofs!At, Crash!Sessions,
     CrashProofs!Sessions, Crash!ActiveSessions, CrashProofs!ActiveSessions, Crash!Goto,
     CrashProofs!Goto, Crash!plan, CrashProofs!plan, Crash!Return, CrashProofs!Return,
     Crash!ActiveSession, CrashProofs!ActiveSession, Crash!Idle, CrashProofs!Idle,
     Crash!Max, CrashProofs!Max
<1>8. \A p :
     /\ Crash!listExisting(p) <=> CrashProofs!listExisting(p)
     /\ Crash!deleteProgress(p) <=> CrashProofs!deleteProgress(p)
  BY 
     DEF Crash!listExisting, CrashProofs!listExisting, Crash!deleteProgress,
     CrashProofs!deleteProgress, Crash!At, CrashProofs!At, Crash!Goto, CrashProofs!Goto,
     Crash!Present, CrashProofs!Present, Crash!plan, CrashProofs!plan, Crash!Min,
     CrashProofs!Min, Crash!Activities, CrashProofs!Activities
<1>9. \A p :
     /\ Crash!upsertProgress(p) <=> CrashProofs!upsertProgress(p)
     /\ Crash!listRefreshed(p) <=> CrashProofs!listRefreshed(p)
     /\ Crash!reconcileSession(p) <=> CrashProofs!reconcileSession(p)
     /\ Crash!Fail(p) <=> CrashProofs!Fail(p)
  BY 
     DEF Crash!upsertProgress, CrashProofs!upsertProgress, Crash!listRefreshed,
     CrashProofs!listRefreshed, Crash!reconcileSession, CrashProofs!reconcileSession,
     Crash!Fail, CrashProofs!Fail, Crash!Min, CrashProofs!Min, Crash!At, CrashProofs!At,
     Crash!Return, CrashProofs!Return, Crash!Goto, CrashProofs!Goto, Crash!plan,
     CrashProofs!plan, Crash!First, CrashProofs!First, Crash!Unfinished,
     CrashProofs!Unfinished, Crash!NotStarted, CrashProofs!NotStarted, Crash!Present,
     CrashProofs!Present, Crash!Idle, CrashProofs!Idle, Crash!Activities,
     CrashProofs!Activities
<1>10. \A p, a : Crash!deleteActivity(p, a) <=> CrashProofs!deleteActivity(p, a)
  BY
     DEF Crash!deleteActivity, CrashProofs!deleteActivity, Crash!Offered,
     CrashProofs!Offered, Crash!Sessions, CrashProofs!Sessions, Crash!Goto,
     CrashProofs!Goto, Crash!Idle, CrashProofs!Idle, Crash!At, CrashProofs!At
<1>11. \A p, op, s : Crash!readToClose(p, op, s) <=> CrashProofs!readToClose(p, op, s)
  BY
     DEF Crash!readToClose, CrashProofs!readToClose, Crash!Offered, CrashProofs!Offered,
     Crash!Goto, CrashProofs!Goto, Crash!Idle, CrashProofs!Idle, Crash!plan,
     CrashProofs!plan, Crash!At, CrashProofs!At
<1>12. \A p, op, s, a : Crash!readSession(p, op, s, a) <=> CrashProofs!readSession(p, op, s, a)
  BY
     DEF Crash!readSession, CrashProofs!readSession, Crash!Offered, CrashProofs!Offered,
     Crash!Goto, CrashProofs!Goto, Crash!Idle, CrashProofs!Idle, Crash!plan,
     CrashProofs!plan, Crash!At, CrashProofs!At
<1>13. \A p : Crash!Submit(p) <=> CrashProofs!Submit(p)
  BY <1>1, <1>2, <1>10, <1>11, <1>12
     DEF Crash!Submit, CrashProofs!Submit, Crash!Sessions, CrashProofs!Sessions,
     Crash!Activities, CrashProofs!Activities, Crash!CloseOps, CrashProofs!CloseOps,
     Crash!FollowOps, CrashProofs!FollowOps
<1>14. \A p : Crash!Continue(p) <=> CrashProofs!Continue(p)
  BY <1>3, <1>4, <1>5, <1>6, <1>7, <1>8, <1>9
     DEF Crash!Continue, CrashProofs!Continue
<1> QED
  BY <1>9, <1>13, <1>14
     DEF Crash!Next, CrashProofs!Next

LEMMA SameTypes == Crash!TypeOK <=> CrashProofs!TypeOK
BY DEF Crash!TypeOK, CrashProofs!TypeOK, Crash!Activities, CrashProofs!Activities,
    Crash!Sessions, CrashProofs!Sessions, Crash!SessionStatus, CrashProofs!SessionStatus,
    Crash!RowStatus, CrashProofs!RowStatus, Crash!AllOps, CrashProofs!AllOps,
    Crash!FollowOps, CrashProofs!FollowOps, Crash!CloseOps, CrashProofs!CloseOps,
    Crash!EditOps, CrashProofs!EditOps, Crash!Labels, CrashProofs!Labels

LEMMA SameRepairs == Crash!Repairs <=> CrashProofs!Repairs
BY DEF Crash!Repairs, CrashProofs!Repairs, Crash!reconcileSession,
    CrashProofs!reconcileSession, Crash!At, CrashProofs!At, Crash!Goto, CrashProofs!Goto,
    Crash!Return, CrashProofs!Return, Crash!Idle, CrashProofs!Idle, Crash!plan,
    CrashProofs!plan, Crash!Present, CrashProofs!Present, Crash!Unfinished,
    CrashProofs!Unfinished, Crash!Activities, CrashProofs!Activities

-----------------------------------------------------------------------------
(* The invariant of each part.                                             *)

Hypotheses == Ops \intersect EditOps = {} /\ MaxFailures = 0

FollowInv == StrandInv
CrashInv == CrashProofs!RepairInv

PartInv ==
    /\ part \in {"follow", "crash"}
    /\ part = "follow" => FollowInv
    /\ part = "crash" => CrashInv

LEMMA CrashAssumptions ==
    /\ 4 \in Nat /\ 2 \in 0 .. 4 /\ 1 \in Nat /\ 2 \in Nat
    /\ {"startTrip", "completeActivity", "skipActivity", "addActivity", "deleteActivity"}
         \subseteq CrashProofs!AllOps
BY DEF CrashProofs!AllOps, CrashProofs!FollowOps, CrashProofs!EditOps

LEMMA InitPart == SafetyInit => PartInv
<1>1. Crash!Init => CrashInv
  BY SameInit, CrashProofs!InitRepair, CrashAssumptions DEF CrashInv
<1> QED
  BY <1>1, InitStrand DEF SafetyInit, PartInv, FollowInv

LEMMA NextPart ==
    ASSUME Hypotheses, PartInv, [SafetyNext]_partVars
    PROVE  PartInv'
<1>1. CASE part = "follow" /\ Next /\ UNCHANGED part
  BY <1>1, NextStrand DEF PartInv, FollowInv, Hypotheses
<1>2. CASE part = "crash" /\ Crash!Next /\ UNCHANGED part
  <2>1. CrashProofs!OneAtATime
    BY DEF CrashProofs!OneAtATime
  <2>2. [CrashProofs!Next]_(CrashProofs!vars)
    BY <1>2, SameNext
  <2>3. CrashInv'
    BY <1>2, <2>1, <2>2, CrashProofs!NextRepair, CrashAssumptions DEF CrashInv, PartInv
  <2> QED
    BY <1>2, <2>3 DEF PartInv
<1>3. CASE UNCHANGED partVars
  <2>1. UNCHANGED vars /\ UNCHANGED (CrashProofs!vars) /\ UNCHANGED part
    BY <1>3 DEF partVars, vars, CrashProofs!vars
  <2>2. part = "follow" => FollowInv'
    BY <2>1, NextStrand DEF PartInv, FollowInv, Hypotheses
  <2>3. part = "crash" => CrashInv'
    <3>1. CrashProofs!OneAtATime
      BY DEF CrashProofs!OneAtATime
    <3> QED
      BY <2>1, <3>1, CrashProofs!NextRepair, CrashAssumptions DEF PartInv, CrashInv
  <2> QED
    BY <2>1, <2>2, <2>3 DEF PartInv
<1> QED
  BY <1>1, <1>2, <1>3 DEF SafetyNext

-----------------------------------------------------------------------------
(* The properties.                                                         *)

\* Overlapping requests keep the tables and their own variables well-formed and lose no
\* mark of a completed activity; abandoned ones keep them well-formed.
THEOREM StepsInvAlways ==
    ASSUME Hypotheses
    PROVE  SafetySpec => []StepsInv
<1>1. PartInv => StepsInv
  BY SameTypes DEF PartInv, StepsInv, FollowInv, CrashInv, StrandInv, FlagInv,
     CrashProofs!RepairInv
<1>2. PartInv /\ [SafetyNext]_partVars => PartInv'
  BY NextPart
<1> QED
  BY <1>1, <1>2, InitPart, PTL DEF SafetySpec

\* Once all requests are answered, an ACTIVE session has something left to do.
THEOREM NobodyStrandedAlways ==
    ASSUME Hypotheses
    PROVE  SafetySpec => []NobodyStranded
<1>1. PartInv => NobodyStranded
  BY StrandedNot DEF PartInv, NobodyStranded, FollowInv
<1>2. PartInv /\ [SafetyNext]_partVars => PartInv'
  BY NextPart
<1> QED
  BY <1>1, <1>2, InitPart, PTL DEF SafetySpec

\* A request that found a session ACTIVE does not bring it back after another ended it.
THEOREM EndedStaysEndedAlways ==
    ASSUME Hypotheses
    PROVE  SafetySpec => EndedStaysEnded
<1>1. PartInv /\ [SafetyNext]_partVars => [part = "follow" => StaysEnded]_partVars
  <2> SUFFICES ASSUME PartInv, SafetyNext, part = "follow"
               PROVE  StaysEnded
    OBVIOUS
  <2> QED
    BY StepStaysEnded DEF SafetyNext, PartInv, FollowInv, StrandInv
<1>2. PartInv /\ [SafetyNext]_partVars => PartInv'
  BY NextPart
<1> QED
  BY <1>1, <1>2, InitPart, PTL DEF SafetySpec, EndedStaysEnded

\* A reconciliation that runs to its end repairs the session, whatever await earlier
\* requests were abandoned at.
THEOREM CrashRepairedAlways ==
    ASSUME Hypotheses
    PROVE  SafetySpec => CrashRepaired
<1>1. PartInv /\ [SafetyNext]_partVars => [part = "crash" => Crash!Repairs]_partVars
  <2> SUFFICES ASSUME PartInv, SafetyNext, part = "crash"
               PROVE  Crash!Repairs
    OBVIOUS
  <2>1. CrashProofs!Next
    BY SameNext DEF SafetyNext
  <2>2. CrashProofs!Repairs
    BY <2>1, CrashProofs!StepRepairs, CrashAssumptions DEF PartInv, CrashInv
  <2> QED
    BY <2>2, SameRepairs
<1>2. PartInv /\ [SafetyNext]_partVars => PartInv'
  BY NextPart
<1> QED
  BY <1>1, <1>2, InitPart, PTL DEF SafetySpec, CrashRepaired

=============================================================================
