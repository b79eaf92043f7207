-------------------- MODULE DocumentPipeline_timely_proofs --------------------
(***************************************************************************)
(* Theorems about DocumentPipeline when attempts end within their lease,   *)
(* retries and sweeps act on what they read and no answer is lost: at most *)
(* crashes and failing database calls are left.                            *)
(***************************************************************************)
EXTENDS DocumentPipeline_proofs

(***************************************************************************)
(* The strengthening: an attempt and its row agree.  The row an attempt    *)
(* holds is in PROCESSING under a fresh lease, so no claim and no sweep    *)
(* can take it, or in FAILED before the second write of a retry.           *)
(***************************************************************************)
Owns(s) ==
    slot[s].doc # NoDocument =>
      /\ row[slot[s].doc].status \in {"PROCESSING", "FAILED"}
      /\ row[slot[s].doc].attempts = slot[s].attempt
      /\ row[slot[s].doc].status = "PROCESSING" => row[slot[s].doc].lease = "fresh"
      /\ slot[s].pc = "recording" => row[slot[s].doc].status = "PROCESSING"

RetriesWithinBudget(s) == slot[s].pc = "scheduling" => slot[s].attempt < MaxAttempts

Budget(d) == /\ row[d].attempts <= MaxAttempts
             /\ row[d].status \in Waiting => row[d].attempts < MaxAttempts

TimelyInv == /\ \A s \in Slots : Owns(s) /\ RetriesWithinBudget(s)
             /\ OneAttemptAtATime
             /\ \A d \in Documents : Budget(d)

-----------------------------------------------------------------------------

\* A slot that is freed, or that keeps its document while the row keeps what
\* it owns, does no harm.
LEMMA TimelyKept ==
    ASSUME TimelyInv,
           \A s \in Slots :
             \/ slot'[s].doc = NoDocument /\ slot'[s].pc # "scheduling"
             \/ /\ slot'[s].doc = slot[s].doc
                /\ slot'[s].attempt = slot[s].attempt
                /\ slot'[s].pc = "scheduling" => slot[s].attempt < MaxAttempts
                /\ slot[s].doc # NoDocument =>
                     /\ row'[slot[s].doc].status \in {"PROCESSING", "FAILED"}
                     /\ row'[slot[s].doc].attempts = row[slot[s].doc].attempts
                     /\ row'[slot[s].doc].status = "PROCESSING"
                          => row'[slot[s].doc].lease = "fresh"
                     /\ slot'[s].pc = "recording" => row'[slot[s].doc].status = "PROCESSING",
           \A d \in Documents : Budget(d)'
    PROVE  TimelyInv'
  <1>1. ASSUME NEW s \in Slots PROVE (Owns(s) /\ RetriesWithinBudget(s))'
    BY <1>1 DEF TimelyInv, Owns, RetriesWithinBudget
  <1>2. OneAttemptAtATime'
    BY DEF TimelyInv, OneAttemptAtATime
  <1> QED
    BY <1>1, <1>2 DEF TimelyInv

\* Rows that no attempt holds may change, the others not: the attempts stay.
LEMMA TimelyRows ==
    ASSUME TypeInv, TimelyInv, UNCHANGED slot,
           \A d \in Documents :
             \/ row'[d] = row[d]
             \/ ~InHand(d) /\ Budget(d)'
             \/ /\ row'[d].status = row[d].status
                /\ row'[d].attempts = row[d].attempts
                /\ row'[d].lease = row[d].lease
    PROVE  TimelyInv'
  <1>1. ASSUME NEW d \in Documents PROVE Budget(d)'
    BY <1>1 DEF TimelyInv, Budget
  <1>2. ASSUME NEW s \in Slots, slot[s].doc # NoDocument
        PROVE  /\ row'[slot[s].doc].status \in {"PROCESSING", "FAILED"}
               /\ row'[slot[s].doc].attempts = row[slot[s].doc].attempts
               /\ row'[slot[s].doc].status = "PROCESSING" => row'[slot[s].doc].lease = "fresh"
               /\ slot[s].pc = "recording" => row'[slot[s].doc].status = "PROCESSING"
    <2>1. slot[s].doc \in Documents /\ InHand(slot[s].doc)
      BY <1>2 DEF TypeInv, TypeOK, Slot, InHand
    <2>2. Owns(s)
      BY DEF TimelyInv
    <2> QED
      BY <1>2, <2>1, <2>2 DEF Owns
  <1>3. \A s \in Slots : slot[s].pc = "scheduling" => slot[s].attempt < MaxAttempts
    BY DEF TimelyInv, RetriesWithinBudget
  <1> QED
    BY <1>1, <1>2, <1>3, TimelyKept

\* A claimable, expired, absent or resting row is in nobody's hand.
LEMMA FreeRows ==
    ASSUME TypeInv, TimelyInv, NEW d \in Documents,
           \/ row[d].status \notin {"PROCESSING", "FAILED"}
           \/ row[d].lease = "expired" /\ row[d].status = "PROCESSING"
           \/ AtRestFailed(d)
    PROVE  ~InHand(d)
  <1>1. ASSUME NEW s \in Slots, slot[s].doc = d PROVE FALSE
    <2>1. Owns(s) /\ d # NoDocument
      BY NoDocumentAssumption DEF TimelyInv
    <2> QED
      BY <1>1, <2>1 DEF Owns, AtRestFailed, InHand
  <1> QED
    BY <1>1 DEF InHand

\* A write of a slot moves the row it owns and no other; a write that ends the
\* attempt frees the slot, the write before a retry keeps row and attempt.
LEMMA SlotWriteRows ==
    ASSUME TypeInv, TimelyInv, NEW s \in Slots, FinalWrite(s) \/ WriteFailedBeforeRetry(s)
    PROVE  /\ slot[s].doc \in Documents
           /\ \A o \in Documents : o # slot[s].doc => row'[o] = row[o]
           /\ row'[slot[s].doc].attempts = row[slot[s].doc].attempts
           /\ row'[slot[s].doc].status \in Waiting => slot[s].attempt < MaxAttempts
           /\ WriteFailedBeforeRetry(s) =>
                row'[slot[s].doc].status = "FAILED" /\ slot[s].attempt < MaxAttempts
  <1> DEFINE d == slot[s].doc
  <1>1. slot[s].pc # "idle"
    BY DEF FinalWrite, WriteFailedBeforeRetry, WriteProcessed, WriteRejected,
           WriteFailedTerminally, WriteRetryPending
  <1>2. d \in Documents /\ row[d] \in Row /\ row \in [Documents -> Row]
    BY <1>1 DEF TypeInv, TypeOK, BusyHoldsDocument, Slot
  <1>3. ASSUME NEW status, NEW attempt, NEW reason, NEW due, NEW data, NEW errors,
               ApplyTransition(d, status, attempt, reason, due, data, errors)
        PROVE  /\ \A o \in Documents : o # d => row'[o] = row[o]
               /\ row'[d].attempts = row[d].attempts /\ row'[d].status = status
    BY <1>2, <1>3 DEF ApplyTransition, Row
  <1>4. slot[s].pc = "scheduling" => slot[s].attempt < MaxAttempts
    BY DEF TimelyInv, RetriesWithinBudget
  <1>5. CASE WriteProcessed(s)
    BY <1>2, <1>3, <1>5 DEF WriteProcessed, WriteFailedBeforeRetry, Waiting, Fails
  <1>6. CASE WriteRejected(s)
    BY <1>2, <1>3, <1>6 DEF WriteRejected, WriteFailedBeforeRetry, Waiting, Fails
  <1>7. CASE WriteFailedTerminally(s)
    BY <1>2, <1>3, <1>7 DEF WriteFailedTerminally, WriteFailedBeforeRetry, Waiting
  <1>8. CASE WriteRetryPending(s)
    BY <1>2, <1>3, <1>4, <1>8 DEF WriteRetryPending, WriteFailedBeforeRetry
  <1>9. CASE WriteFailedBeforeRetry(s)
    BY <1>2, <1>3, <1>9 DEF WriteFailedBeforeRetry, Waiting, WillRetry
  <1> QED
    BY <1>5, <1>6, <1>7, <1>8, <1>9 DEF FinalWrite

\* The step every theorem of this module rests on.
LEMMA TimelyStep ==
    ASSUME Timely, TypeInv, TypeInv', TimelyInv, [Next]_vars
    PROVE  TimelyInv'
  <1>t. /\ row \in [Documents -> Row] /\ slot \in [Slots -> Slot]
        /\ row' \in [Documents -> Row] /\ slot' \in [Slots -> Slot]
        /\ \A s \in Slots : slot[s].pc # "idle" <=> slot[s].doc # NoDocument
        /\ \A d \in Documents : row[d] \in Row
    BY DEF TypeInv, TypeOK, BusyHoldsDocument
  <1>f. /\ "lostAnswer" \notin Faults /\ "slowAttempt" \notin Faults
        /\ "racingRetry" \notin Faults /\ "racingSweep" \notin Faults
    BY DEF Timely
  <1>b. \A d \in Documents : Budget(d)
    BY DEF TimelyInv
  <1>k. ASSUME UNCHANGED <<row, slot>> PROVE TimelyInv'
    BY <1>k, TimelyRows
  <1>1. CASE UNCHANGED vars
    BY <1>1, <1>k DEF vars
  <1>2. ASSUME NEW d \in Documents, createWithEvent(d) PROVE TimelyInv'
    <2>1. ~InHand(d)
      BY <1>2, FreeRows DEF createWithEvent, Absent
    <2>2. row'[d].status = "UPLOADED" /\ row'[d].attempts = 0
      BY <1>t, <1>2 DEF createWithEvent, NoRow
    <2>3. Budget(d)'
      BY <2>2, MaxAttemptsAssumption DEF Budget
    <2>4. \A o \in Documents : o # d => row'[o] = row[o]
      BY <1>t, <1>2 DEF createWithEvent
    <2> QED
      BY <1>2, <2>1, <2>3, <2>4, TimelyRows DEF createWithEvent
  <1>3. ASSUME NEW d \in Documents, BackoffElapses(d) PROVE TimelyInv'
    <2>1. /\ row'[d].status = row[d].status /\ row'[d].attempts = row[d].attempts
          /\ row'[d].lease = row[d].lease
          /\ \A o \in Documents : o # d => row'[o] = row[o]
      BY <1>t, <1>3 DEF BackoffElapses, Row
    <2> QED
      BY <1>3, <2>1, TimelyRows DEF BackoffElapses
  <1>4. ASSUME NEW d \in Documents, LeaseRunsOut(d) PROVE TimelyInv'
    <2>1. /\ row'[d].status = row[d].status /\ row'[d].attempts = row[d].attempts
          /\ \A o \in Documents : o # d => row'[o] = row[o]
      BY <1>t, <1>4 DEF LeaseRunsOut, Row
    <2>2. ~InHand(d) /\ Budget(d)'
      BY <1>f, <1>b, <1>4, <2>1 DEF LeaseRunsOut, Budget
    <2> QED
      BY <1>4, <2>1, <2>2, TimelyRows DEF LeaseRunsOut
  <1>5. ASSUME NEW s \in Slots, NEW d \in Documents, claimNext(s, d) PROVE TimelyInv'
    <2>1. row[d].status \in Waiting /\ slot[s].doc = NoDocument
      BY <1>t, <1>5 DEF claimNext, Claim, Claimable
    <2>2. ~InHand(d)
      BY <2>1, FreeRows DEF Waiting
    <2>3. /\ row'[d].status = "PROCESSING" /\ row'[d].lease = "fresh"
          /\ row'[d].attempts = row[d].attempts + 1
          /\ \A o \in Documents : o # d => row'[o] = row[o]
      BY <1>t, <1>5 DEF claimNext, Claim, Row
    <2>4. /\ slot'[s].pc = "recording" /\ slot'[s].doc = d
          /\ slot'[s].attempt = row[d].attempts + 1
          /\ \A o \in Slots : o # s => slot'[o] = slot[o]
      BY <1>t, <1>5 DEF claimNext, IdleSlot
    <2>5. ASSUME NEW o \in Documents PROVE Budget(o)'
      BY <1>t, <1>b, <2>1, <2>3, MaxAttemptsAssumption DEF Budget, Waiting, Row
    <2>6. ASSUME NEW o \in Slots PROVE (Owns(o) /\ RetriesWithinBudget(o))'
      <3>1. CASE o = s
        BY <2>3, <2>4, <3>1 DEF Owns, RetriesWithinBudget
      <3>2. CASE o # s
        <4>1. slot[o].doc # d /\ (slot[o].doc # NoDocument => slot[o].doc \in Documents)
          BY <1>t, <2>2 DEF InHand, Slot
        <4>2. Owns(o) /\ RetriesWithinBudget(o)
          BY DEF TimelyInv
        <4> QED
          BY <2>3, <2>4, <3>2, <4>1, <4>2 DEF Owns, RetriesWithinBudget
      <3> QED
        BY <3>1, <3>2
    <2>7. OneAttemptAtATime'
      BY <2>2, <2>4 DEF InHand, OneAttemptAtATime, TimelyInv
    <2> QED
      BY <2>5, <2>6, <2>7 DEF TimelyInv
  <1>d. ASSUME NEW w, ProcessDies(w), UNCHANGED row PROVE TimelyInv'
    <2>1. \A s \in Slots : slot'[s] = IdleSlot \/ slot'[s] = slot[s]
      BY <1>d DEF ProcessDies
    <2>2. \A s \in Slots : Owns(s) /\ RetriesWithinBudget(s)
      BY DEF TimelyInv
    <2>3. \A d \in Documents : Budget(d)'
      BY <1>b, <1>d DEF Budget
    <2> QED
      BY <1>d, <2>1, <2>2, <2>3, TimelyKept DEF Owns, RetriesWithinBudget, IdleSlot
  <1>6. ASSUME NEW s \in Slots,
               \/ recordClaimEvent(s)
               \/ extract(s)
               \/ WriteError(s) /\ slot[s].pc # "recording"
        PROVE  TimelyInv'
    <2>1. UNCHANGED row
      BY <1>6 DEF recordClaimEvent, WriteClaimEvent, extract, WriteError
    <2>2. /\ \A o \in Slots : o # s => slot'[o] = slot[o]
          /\ \/ slot'[s] = IdleSlot
             \/ /\ slot'[s].doc = slot[s].doc /\ slot'[s].attempt = slot[s].attempt
                /\ slot'[s].pc \notin {"scheduling", "recording"}
      <3>0. slot[s] \in Slot
        BY <1>t
      <3>1. CASE recordClaimEvent(s)
        BY <1>t, <3>0, <3>1 DEF recordClaimEvent, Slot
      <3>2. CASE extract(s)
        <4>1. PICK result \in Answers :
                slot' = [slot EXCEPT ![s] = [slot[s] EXCEPT !.pc = "settling",
                                                            !.result = result]]
          BY <3>2 DEF extract
        <4> QED
          BY <1>t, <3>0, <4>1 DEF Slot
      <3>3. CASE WriteError(s) /\ slot[s].pc # "recording"
        <4> DEFINE caught == [slot[s] EXCEPT !.pc = "settling", !.result = Thrown,
                                             !.inCatch = TRUE]
        <4>1. /\ caught.doc = slot[s].doc /\ caught.attempt = slot[s].attempt
              /\ caught.pc = "settling"
          BY <3>0 DEF Slot
        <4>2. slot' = [slot EXCEPT ![s] = IdleSlot] \/ slot' = [slot EXCEPT ![s] = caught]
          BY <3>3 DEF WriteError, AfterException
        <4> HIDE DEF caught
        <4> QED
          BY <1>t, <4>1, <4>2
      <3> QED
        BY <1>6, <3>1, <3>2, <3>3
    <2>3. \A o \in Slots : Owns(o) /\ RetriesWithinBudget(o)
      BY DEF TimelyInv
    <2>4. \A d \in Documents : Budget(d)'
      BY <1>b, <2>1 DEF Budget
    <2> QED
      BY <2>1, <2>2, <2>3, <2>4, TimelyKept DEF Owns, RetriesWithinBudget, IdleSlot
  <1>7. ASSUME NEW s \in Slots, Settle(s) \/ FailBeforeRetry(s) PROVE TimelyInv'
    <2> DEFINE d == slot[s].doc
    <2>1. FinalWrite(s) \/ WriteFailedBeforeRetry(s)
      BY <1>7 DEF Settle, FailBeforeRetry
    <2>2. /\ d \in Documents
          /\ \A o \in Documents : o # d => row'[o] = row[o]
          /\ row'[d].attempts = row[d].attempts
          /\ row'[d].status \in Waiting => slot[s].attempt < MaxAttempts
          /\ WriteFailedBeforeRetry(s) =>
               row'[d].status = "FAILED" /\ slot[s].attempt < MaxAttempts
      BY <2>1, SlotWriteRows
    <2>3. \A o \in Slots : Owns(o) /\ RetriesWithinBudget(o)
      BY DEF TimelyInv
    <2>4. row[d].attempts = slot[s].attempt /\ d # NoDocument
      BY <2>2, <2>3, NoDocumentAssumption DEF Owns
    <2>5. ASSUME NEW o \in Documents PROVE Budget(o)'
      <3>1. CASE o = d
        BY <1>b, <2>2, <2>4, <3>1 DEF Budget
      <3>2. CASE o # d
        BY <1>b, <2>2, <3>2 DEF Budget
      <3> QED
        BY <3>1, <3>2
    <2>6. ASSUME NEW o \in Slots, o # s
          PROVE  /\ slot'[o] = slot[o]
                 /\ slot[o].doc # NoDocument => row'[slot[o].doc] = row[slot[o].doc]
      <3>1. slot'[o] = slot[o]
        BY <1>t, <1>7, <2>6 DEF Settle, FailBeforeRetry
      <3>2. slot[o].doc # NoDocument => slot[o].doc \in Documents /\ slot[o].doc # d
        BY <1>t, <2>4, <2>6 DEF TimelyInv, OneAttemptAtATime, Slot
      <3> QED
        BY <2>2, <3>1, <3>2
    <2>7. \/ slot'[s] = IdleSlot
          \/ /\ slot'[s].doc = d /\ slot'[s].attempt = slot[s].attempt
             /\ slot'[s].pc = "scheduling" /\ WriteFailedBeforeRetry(s)
      BY <1>t, <1>7 DEF Settle, FailBeforeRetry, Slot
    <2> QED
      BY <2>2, <2>3, <2>5, <2>6, <2>7, TimelyKept
         DEF Owns, RetriesWithinBudget, IdleSlot
  <1>8. ASSUME NEW w \in Workers, reclaimExpired(w) PROVE TimelyInv'
    <2>1. ASSUME NEW d \in Documents
          PROVE  \/ row'[d] = row[d]
                 \/ ~InHand(d) /\ Budget(d)'
      <3>1. CASE Reclaimable(d)
        <4>1. ~InHand(d)
          BY <3>1, FreeRows DEF Reclaimable, LeaseExpired
        <4>a. row[d] \in Row
          BY <1>t
        <4>2. row'[d].attempts = row[d].attempts
          BY <4>a, <1>8, <3>1 DEF reclaimExpired, ReclaimRows, Row
        <4> QED
          BY <1>b, <3>1, <4>1, <4>2 DEF Budget, Reclaimable
      <3>2. CASE ~Reclaimable(d)
        BY <1>8, <3>2 DEF reclaimExpired, ReclaimRows
      <3> QED
        BY <3>1, <3>2
    <2> QED
      BY <1>8, <2>1, TimelyRows DEF reclaimExpired
  <1>9. ASSUME NEW w \in Workers, NEW d \in Documents, FailExhausted(w, d) PROVE TimelyInv'
    <2>1. ~InHand(d)
      BY <1>f, <1>9, FreeRows DEF FailExhausted, Exhausted, LeaseExpired
    <2>2. /\ row'[d].status = "FAILED" /\ row'[d].attempts = row[d].attempts
          /\ \A o \in Documents : o # d => row'[o] = row[o]
      BY <1>t, <1>9 DEF FailExhausted, ApplyTransition, Row
    <2>3. Budget(d)'
      BY <1>b, <2>2 DEF Budget, Waiting
    <2> QED
      BY <1>9, <2>1, <2>2, <2>3, TimelyRows DEF FailExhausted
  <1>10. ASSUME NEW q \in Requests, resetForManualRetry(q) PROVE TimelyInv'
    <2>1. PICK d \in Documents : d = request[q].doc
      BY <1>10 DEF resetForManualRetry, TypeInv, RequestHoldsDocument
    <2>2. ~InHand(d)
      BY <1>f, <1>10, <2>1 DEF resetForManualRetry, AtRestFailed
    <2>3. /\ row'[d].status = "RETRY_PENDING" /\ row'[d].attempts = 0
          /\ \A o \in Documents : o # d => row'[o] = row[o]
      BY <1>t, <1>10, <2>1 DEF resetForManualRetry, Row
    <2>4. Budget(d)'
      BY <2>3, MaxAttemptsAssumption DEF Budget
    <2> QED
      BY <1>10, <2>2, <2>3, <2>4, TimelyRows DEF resetForManualRetry
  <1>11. ASSUME NEW w \in Workers, Crash(w) PROVE TimelyInv'
    BY <1>d, <1>11 DEF Crash
  <1>12. CASE Misfortune
    <2>1. ASSUME NEW kind, kind = "lostAnswer", Fault(kind) PROVE FALSE
      BY <1>f, <2>1 DEF Fault
    <2>2. ASSUME NEW w \in Workers, SweepError(w) PROVE TimelyInv'
      BY <1>k, <2>2 DEF SweepError
    <2>3. ASSUME NEW s \in Slots, ClaimError(s) PROVE TimelyInv'
      BY <1>d, <2>3 DEF ClaimError
    <2>4. ASSUME NEW s \in Slots, WriteError(s), slot[s].pc = "recording" PROVE TimelyInv'
      BY <1>d, <2>4 DEF WriteError, AfterException
    <2> QED
      BY <1>6, <1>11, <1>12, <2>1, <2>2, <2>3, <2>4
         DEF Misfortune, ClaimAnswerLost, WriteAnswerLost, ReclaimAnswerLost
  <1>13. ASSUME NEW s \in Slots, SlotStep(s) PROVE TimelyInv'
    BY <1>5, <1>6, <1>7, <1>13 DEF SlotStep
  <1>14. ASSUME NEW w \in Workers, ReaperStep(w) PROVE TimelyInv'
    <2>1. ASSUME NEW d \in Documents, RecordReclaim(w, d) PROVE TimelyInv'
      BY <1>k, <2>1 DEF RecordReclaim
    <2>2. CASE findExhaustedStaleIds(w)
      BY <1>k, <2>2 DEF findExhaustedStaleIds
    <2> QED
      BY <1>8, <1>9, <1>14, <2>1, <2>2 DEF ReaperStep
  <1>15. ASSUME NEW q \in Requests, RequestStep(q) PROVE TimelyInv'
    <2>1. ASSUME NEW d \in Documents, CheckRetry(q, d) PROVE TimelyInv'
      BY <1>k, <2>1 DEF CheckRetry
    <2> QED
      BY <1>10, <1>15, <2>1 DEF RequestStep
  <1> QED
    BY <1>1, <1>2, <1>3, <1>4, <1>12, <1>13, <1>14, <1>15 DEF Next, Clock

THEOREM TimelyCorrect ==
    ASSUME Timely
    PROVE  Spec => []TimelyInv
<1>1. Init => TimelyInv
  <2> SUFFICES ASSUME Init PROVE TimelyInv
    OBVIOUS
  <2>1. \A s \in Slots : Owns(s) /\ RetriesWithinBudget(s)
    BY DEF Init, IdleSlot, Owns, RetriesWithinBudget
  <2>2. OneAttemptAtATime
    BY DEF Init, IdleSlot, OneAttemptAtATime
  <2>3. \A d \in Documents : Budget(d)
    BY MaxAttemptsAssumption DEF Init, NoRow, Absent, Waiting, Budget
  <2> QED
    BY <2>1, <2>2, <2>3 DEF TimelyInv
<1>2. TypeInv /\ TypeInv' /\ TimelyInv /\ [Next]_vars => TimelyInv'
  BY TimelyStep
<1>3. QED
  BY <1>1, <1>2, TypeCorrect, PTL DEF Spec

\* A document is never worked on by two attempts: config/queue.ts hands out a
\* document only when no attempt holds it, through any crash and any failing
\* database call.
THEOREM NoParallelProcessing ==
    ASSUME Timely
    PROVE  Spec => []OneAttemptAtATime
<1>1. TimelyInv => OneAttemptAtATime
  BY DEF TimelyInv
<1>2. QED
  BY <1>1, TimelyCorrect, PTL

\* The attempt count never passes MAX_PROCESSING_ATTEMPTS: finishFailure and
\* reclaimExpired stop in time although claimNext does not check.
THEOREM BudgetIsKept ==
    ASSUME Timely
    PROVE  Spec => []AttemptsWithinBudget
<1>1. TimelyInv => AttemptsWithinBudget
  BY DEF TimelyInv, Budget, AttemptsWithinBudget
<1>2. QED
  BY <1>1, TimelyCorrect, PTL

\* What finishFailure decides from the attempt number it was handed is decided
\* from the row's own number.
THEOREM AttemptsOwnTheirRows ==
    ASSUME Timely
    PROVE  Spec => []AttemptOwnsRow
<1>1. TimelyInv => AttemptOwnsRow
  BY DEF TimelyInv, Owns, AttemptOwnsRow
<1>2. QED
  BY <1>1, TimelyCorrect, PTL

-----------------------------------------------------------------------------
(* A settled outcome is final.                                             *)

\* The step: who may write a row finds it in PROCESSING or FAILED, absent or
\* waiting, and a settled row has no clock left to run out.
LEMMA OutcomeStep ==
    ASSUME Timely, TypeInv, DurableInv, TimelyInv, [Next]_vars,
           NEW d \in Documents, row[d].status \in {"PROCESSED", "VALIDATION_FAILED"}
    PROVE  row'[d] = row[d]
  <1>t. row \in [Documents -> Row] /\ row[d] \in Row
    BY DEF TypeInv, TypeOK
  <1>d. row[d].due = Null /\ row[d].lease = Null
    <2>1. Durable(d) /\ row[d].lease \in {Null, "fresh", "expired"}
      BY <1>t DEF DurableInv, Row
    <2> QED
      BY <2>1 DEF Durable, Terminal
  <1>f. /\ "lostAnswer" \notin Faults
        /\ "racingRetry" \notin Faults /\ "racingSweep" \notin Faults
    BY DEF Timely
  <1>1. ASSUME NEW o \in Documents, createWithEvent(o) \/ Clock(o) PROVE row'[d] = row[d]
    BY <1>t, <1>d, <1>1 DEF createWithEvent, Clock, BackoffElapses, LeaseRunsOut, Absent, Null
  <1>2. ASSUME NEW s \in Slots, SlotStep(s) PROVE row'[d] = row[d]
    <2>1. ASSUME NEW o \in Documents, claimNext(s, o) PROVE row'[d] = row[d]
      BY <1>t, <2>1 DEF claimNext, Claim, Claimable, Waiting
    <2>2. CASE recordClaimEvent(s) \/ extract(s)
      BY <2>2 DEF recordClaimEvent, WriteClaimEvent, extract
    <2>3. CASE FailBeforeRetry(s) \/ Settle(s)
      <3>1. /\ slot[s].doc \in Documents
            /\ \A o \in Documents : o # slot[s].doc => row'[o] = row[o]
        BY <2>3, SlotWriteRows DEF FailBeforeRetry, Settle
      <3>2. row[slot[s].doc].status \in {"PROCESSING", "FAILED"}
        BY <3>1, NoDocumentAssumption DEF TimelyInv, Owns
      <3> QED
        BY <3>1, <3>2
    <2> QED
      BY <1>2, <2>1, <2>2, <2>3 DEF SlotStep
  <1>3. ASSUME NEW w \in Workers, ReaperStep(w) PROVE row'[d] = row[d]
    <2>1. CASE reclaimExpired(w)
      BY <2>1 DEF reclaimExpired, ReclaimRows, Reclaimable, LeaseExpired
    <2>2. ASSUME NEW o \in Documents, RecordReclaim(w, o) PROVE row'[d] = row[d]
      BY <2>2 DEF RecordReclaim
    <2>3. CASE findExhaustedStaleIds(w)
      BY <2>3 DEF findExhaustedStaleIds
    <2>4. ASSUME NEW o \in Documents, FailExhausted(w, o) PROVE row'[d] = row[d]
      BY <1>t, <1>f, <2>4
         DEF FailExhausted, Exhausted, LeaseExpired, AtRestFailed, ApplyTransition
    <2> QED
      BY <1>3, <2>1, <2>2, <2>3, <2>4 DEF ReaperStep
  <1>4. ASSUME NEW q \in Requests, RequestStep(q) PROVE row'[d] = row[d]
    BY <1>t, <1>f, <1>4 DEF RequestStep, CheckRetry, resetForManualRetry, AtRestFailed
  <1>5. CASE Misfortune
    <2>1. \A kind : kind = "lostAnswer" => ~Fault(kind)
      BY <1>f DEF Fault
    <2> QED
      BY <1>5, <2>1 DEF Misfortune, ClaimError, ClaimAnswerLost, WriteError, WriteAnswerLost,
                        ReclaimAnswerLost, SweepError, Crash
  <1> QED
    BY <1>1, <1>2, <1>3, <1>4, <1>5 DEF Next, vars

\* An accepted or rejected document is never touched again, through crashes and
\* failing calls, provided that no attempt outlives its lease, no answer is lost, and
\* no retry or sweep writes a row that has changed since it was read: the code
\* ensures none of the four (Timely), and any one of them could undo an outcome.
THEOREM OutcomesAreFinal ==
    ASSUME Timely
    PROVE  Spec => OutcomeIsFinal
<1>1. TypeInv /\ DurableInv /\ TimelyInv /\ [Next]_vars
        => [\A d \in Documents : row[d].status \in {"PROCESSED", "VALIDATION_FAILED"}
              => row'[d] = row[d]]_vars
  BY OutcomeStep
<1>2. QED
  BY <1>1, TypeCorrect, DurableCorrect, TimelyCorrect, PTL DEF Spec, OutcomeIsFinal

-----------------------------------------------------------------------------
(* The pipeline implements the abstract life of a document.                *)

\* A document that was never uploaded has used nothing of its budget: no write
\* reaches it and no clock runs.
NewIsUntried == \A d \in Documents : row[d].status = Absent => row[d] = NoRow

\* Where a row is in the abstract life, before and after a step.
LEMMA PhaseNow ==
    ASSUME TypeInv, NEW d \in Documents
    PROVE  /\ row[d].status = Absent => Phase[d] = "absent"
           /\ row[d].status \in Waiting => Phase[d] = "waiting"
           /\ row[d].status = "PROCESSING" => Phase[d] = "working"
           /\ row[d].status = "PROCESSED" => Phase[d] = "processed"
           /\ row[d].status = "VALIDATION_FAILED" => Phase[d] = "rejected"
           /\ row[d].status = "FAILED" /\ InHand(d) => Phase[d] = "working"
           /\ row[d].status = "FAILED" /\ ~InHand(d) => Phase[d] = "failed"
  BY DEF Phase, PhaseOf, Absent, Waiting

LEMMA PhaseNext ==
    ASSUME TypeInv', NEW d \in Documents
    PROVE  /\ row'[d].status \in Waiting => Phase'[d] = "waiting"
           /\ row'[d].status = "PROCESSING" => Phase'[d] = "working"
           /\ row'[d].status = "PROCESSED" => Phase'[d] = "processed"
           /\ row'[d].status = "VALIDATION_FAILED" => Phase'[d] = "rejected"
           /\ row'[d].status = "FAILED" /\ InHand(d)' => Phase'[d] = "working"
           /\ row'[d].status = "FAILED" /\ ~InHand(d)' => Phase'[d] = "failed"
  BY DEF Phase, PhaseOf, Absent, Waiting

\* A document whose status stays, and whose hold if that matters, keeps its phase.
LEMMA PhaseKept ==
    ASSUME NEW d \in Documents, row'[d].status = row[d].status,
           row[d].status = "FAILED" => (InHand(d)' <=> InHand(d))
    PROVE  Phase'[d] = Phase[d]
  <1>1. /\ Phase[d] = PhaseOf(row[d].status, InHand(d))
        /\ Phase'[d] = PhaseOf(row[d].status, InHand(d)')
    BY DEF Phase
  <1>2. CASE row[d].status # "FAILED"
    BY <1>1, <1>2 DEF PhaseOf
  <1>3. CASE row[d].status = "FAILED"
    BY <1>1, <1>3 DEF PhaseOf, Absent, Waiting
  <1> QED
    BY <1>2, <1>3

\* Documents that move together, while the others keep their phase.
LEMMA Moved ==
    ASSUME NEW D \in SUBSET Documents, D # {}, NEW from, NEW to,
           \A d \in D : Phase[d] = from /\ Phase'[d] = to,
           \A d \in Documents \ D : Phase'[d] = Phase[d]
    PROVE  Life!Move(D, from, to)
  <1>1. Phase' = [d \in Documents |-> Phase'[d]]
    BY DEF Phase
  <1>2. Phase' = [d \in Documents |-> IF d \in D THEN to ELSE Phase[d]]
    BY <1>1
  <1> QED
    BY <1>2 DEF Life!Move

LEMMA TriesKept ==
    ASSUME \A d \in Documents : row'[d].attempts = row[d].attempts
    PROVE  UNCHANGED Tries
  BY DEF Tries

\* Nothing but the upload writes a row that is not there.
LEMMA NewIsUntriedStep ==
    ASSUME TypeInv, NewIsUntried, [Next]_vars
    PROVE  NewIsUntried'
  <1>t. row \in [Documents -> Row]
    BY DEF TypeInv, TypeOK
  <1> SUFFICES ASSUME NEW d \in Documents, row'[d].status = Absent PROVE row'[d] = row[d]
    BY DEF NewIsUntried
  <1>r. row[d] \in Row
    BY <1>t
  <1>a. ASSUME NEW o, NEW status \in Statuses, NEW attempt, NEW reason, NEW due, NEW data, NEW errors,
               ApplyTransition(o, status, attempt, reason, due, data, errors)
        PROVE  row'[d] = row[d]
    BY <1>t, <1>r, <1>a DEF ApplyTransition, Row, Statuses, Absent
  <1>w. ASSUME NEW s \in Slots, WriteClaimEvent(s) \/ FinalWrite(s) \/ WriteFailedBeforeRetry(s)
        PROVE  row'[d] = row[d]
    BY <1>a, <1>w DEF WriteClaimEvent, FinalWrite, WriteFailedBeforeRetry, WriteProcessed,
       WriteRejected, WriteFailedTerminally, WriteRetryPending, Statuses
  <1>c. ASSUME NEW o \in Documents, Claim(o) PROVE row'[d] = row[d]
    BY <1>t, <1>r, <1>c DEF Claim, Row, Absent
  <1>m. ASSUME ReclaimRows PROVE row'[d] = row[d]
    BY <1>t, <1>r, <1>m DEF ReclaimRows, Row, Absent
  <1>1. ASSUME NEW o \in Documents, createWithEvent(o) PROVE row'[d] = row[d]
    BY <1>t, <1>1 DEF createWithEvent, NoRow, Absent
  <1>2. ASSUME NEW o \in Documents, Clock(o) PROVE row'[d] = row[d]
    <2>1. row[o] \in Row /\ row[o].status = row'[o].status
      BY <1>t, <1>2 DEF Clock, BackoffElapses, LeaseRunsOut, Row
    <2> QED
      BY <1>t, <1>2, <2>1 DEF Clock, BackoffElapses, LeaseRunsOut, NewIsUntried, NoRow, Null
  <1>3. ASSUME NEW s \in Slots, SlotStep(s) PROVE row'[d] = row[d]
    BY <1>w, <1>c, <1>3 DEF SlotStep, claimNext, recordClaimEvent, extract, FailBeforeRetry, Settle
  <1>4. ASSUME NEW w \in Workers, ReaperStep(w) PROVE row'[d] = row[d]
    BY <1>a, <1>m, <1>4
       DEF ReaperStep, reclaimExpired, RecordReclaim, findExhaustedStaleIds, FailExhausted, Statuses
  <1>5. ASSUME NEW q \in Requests, RequestStep(q) PROVE row'[d] = row[d]
    <2>1. ASSUME NEW o \in Documents, CheckRetry(q, o) PROVE row'[d] = row[d]
      BY <2>1 DEF CheckRetry
    <2>2. CASE resetForManualRetry(q)
      <3>1. request[q].doc = d => row'[d].status = "RETRY_PENDING"
        BY <1>t, <1>r, <2>2 DEF resetForManualRetry, Row
      <3>2. request[q].doc # d => row'[d] = row[d]
        BY <1>t, <2>2 DEF resetForManualRetry
      <3> QED
        BY <3>1, <3>2 DEF Absent
    <2> QED
      BY <1>5, <2>1, <2>2 DEF RequestStep
  <1>6. CASE Misfortune
    BY <1>w, <1>c, <1>m, <1>6
       DEF Misfortune, ClaimError, ClaimAnswerLost, WriteError, WriteAnswerLost,
           ReclaimAnswerLost, SweepError, Crash
  <1> QED
    BY <1>1, <1>2, <1>3, <1>4, <1>5, <1>6 DEF Next, vars

\* An exception frees slots and hands out no document.
LEMMA ExceptionLetsGo ==
    ASSUME TypeInv, NEW s \in Slots, AfterException(s)
    PROVE  \A o \in Slots : slot'[o].doc \in {slot[o].doc, NoDocument}
  <1> DEFINE caught == [slot[s] EXCEPT !.pc = "settling", !.result = Thrown, !.inCatch = TRUE]
  <1>1. slot[s] \in Slot /\ slot \in [Slots -> Slot]
    BY DEF TypeInv, TypeOK
  <1>2. caught.doc = slot[s].doc
    BY <1>1 DEF Slot
  <1>3. CASE slot[s].pc = "recording"
    BY <1>3 DEF AfterException, ProcessDies, IdleSlot
  <1>4. CASE slot[s].pc # "recording"
    <2>1. slot' = [slot EXCEPT ![s] = IdleSlot] \/ slot' = [slot EXCEPT ![s] = caught]
      BY <1>4 DEF AfterException
    <2> HIDE DEF caught
    <2> QED
      BY <1>1, <1>2, <2>1 DEF IdleSlot
  <1> QED
    BY <1>3, <1>4

\* Rows stay and slots at most let go: what they let go in FAILED is given up.
LEMMA LettingGo ==
    ASSUME TypeInv, TypeInv', TimelyInv, UNCHANGED row,
           \A d \in Documents : InHand(d)' => InHand(d)
    PROVE  [Life!Next]_Life!vars
  <1> DEFINE D == {d \in Documents : row[d].status = "FAILED" /\ InHand(d) /\ ~InHand(d)'}
  <1>1. UNCHANGED Tries
    BY TriesKept
  <1>2. \A d \in Documents \ D : Phase'[d] = Phase[d]
    BY PhaseKept
  <1>3. \A d \in D : Phase[d] = "working" /\ Phase'[d] = "failed"
    BY PhaseNow, PhaseNext
  <1>4. CASE D = {}
    <2>1. \A d \in Documents : Phase'[d] = Phase[d]
      BY <1>2, <1>4
    <2>2. UNCHANGED Phase
      BY <2>1 DEF Phase
    <2> QED
      BY <1>1, <2>2 DEF Life!vars
  <1>5. CASE D # {}
    <2>1. D \in SUBSET Documents /\ Life!Move(D, "working", "failed")
      BY <1>2, <1>3, <1>5, Moved
    <2> QED
      BY <1>1, <2>1 DEF Life!Next, Life!GiveUp
  <1> QED
    BY <1>4, <1>5

\* Rows whose status and attempts stay, while nobody takes or frees a document.
LEMMA NothingMoved ==
    ASSUME TypeInv, UNCHANGED slot,
           \A d \in Documents :
             row'[d].status = row[d].status /\ row'[d].attempts = row[d].attempts
    PROVE  UNCHANGED Life!vars
  <1>1. \A d \in Documents : Phase'[d] = Phase[d]
    BY PhaseKept DEF InHand
  <1> QED
    BY <1>1, TriesKept DEF Phase, Life!vars

\* No write of a slot leaves its document in PROCESSING.
LEMMA SlotWriteStatus ==
    ASSUME TypeInv, NEW s \in Slots, NEW d \in Documents, d = slot[s].doc,
           FinalWrite(s) \/ WriteFailedBeforeRetry(s)
    PROVE  row'[d].status \in Terminal \cup Waiting
  <1>1. row[d] \in Row /\ row \in [Documents -> Row]
    BY DEF TypeInv, TypeOK
  <1>2. ASSUME NEW status, NEW attempt, NEW reason, NEW due, NEW data, NEW errors,
               ApplyTransition(d, status, attempt, reason, due, data, errors)
        PROVE  row'[d].status = status
    BY <1>1, <1>2 DEF ApplyTransition, Row
  <1> QED
    BY <1>2 DEF FinalWrite, WriteProcessed, WriteRejected, WriteFailedTerminally,
                WriteRetryPending, WriteFailedBeforeRetry, Terminal, Waiting

\* The write that settles a document or schedules its retry moves it out of the
\* working phase, and frees its slot.
LEMMA SettleMoves ==
    ASSUME TypeInv, TypeInv', TimelyInv, NEW s \in Slots, Settle(s)
    PROVE  Life!Next
  <1>0. PICK d \in Documents : d = slot[s].doc
    BY SlotWriteRows DEF Settle
  <1>1. /\ \A o \in Documents : o # d => row'[o] = row[o]
        /\ row'[d].attempts = row[d].attempts
        /\ row'[d].status \in Waiting => slot[s].attempt < MaxAttempts
    BY <1>0, SlotWriteRows DEF Settle
  <1>2. /\ row[d].status \in {"PROCESSING", "FAILED"} /\ row[d].attempts = slot[s].attempt
        /\ InHand(d)
    BY <1>0, NoDocumentAssumption DEF TimelyInv, Owns, InHand
  <1>3. Phase[d] = "working"
    BY <1>1, <1>2, PhaseNow
  <1>4. slot' = [slot EXCEPT ![s] = IdleSlot] /\ slot \in [Slots -> Slot]
    BY DEF Settle, TypeInv, TypeOK
  <1>5. ~InHand(d)'
    <2>1. d # NoDocument
      BY NoDocumentAssumption
    <2>2. ASSUME NEW t \in Slots PROVE slot'[t].doc # d
      <3>1. CASE t = s
        BY <1>4, <2>1, <3>1 DEF IdleSlot
      <3>2. CASE t # s
        BY <1>0, <1>4, <2>1, <3>2 DEF TimelyInv, OneAttemptAtATime
      <3> QED
        BY <3>1, <3>2
    <2> QED
      BY <2>2 DEF InHand
  <1>6. ASSUME NEW o \in Documents \ {d} PROVE Phase'[o] = Phase[o]
    <2>1. InHand(o)' <=> InHand(o)
      BY <1>0, <1>4, NoDocumentAssumption DEF InHand, IdleSlot
    <2> QED
      BY <1>1, <2>1, PhaseKept
  <1>7. UNCHANGED Tries
    BY <1>1, TriesKept
  <1>8. ASSUME NEW to, Phase'[d] = to PROVE Life!Move({d}, "working", to)
    BY <1>1, <1>3, <1>6, <1>8, Moved
  <1>9. CASE row'[d].status = "PROCESSED"
    BY <1>1, <1>7, <1>8, <1>9, PhaseNext DEF Life!Next, Life!Conclude
  <1>10. CASE row'[d].status = "VALIDATION_FAILED"
    BY <1>1, <1>7, <1>8, <1>10, PhaseNext DEF Life!Next, Life!Conclude
  <1>11. CASE row'[d].status = "FAILED"
    <2>0. Phase'[d] = "failed"
      BY <1>1, <1>5, <1>11, PhaseNext
    <2>1. Life!GiveUp({d})
      BY <1>7, <1>8, <2>0 DEF Life!GiveUp
    <2> QED
      BY <1>1, <2>1 DEF Life!Next
  <1>12. CASE row'[d].status \in Waiting
    <2>1. Tries[d] < MaxAttempts
      BY <1>1, <1>2, <1>12 DEF Tries
    <2>2. Life!TryAgain({d})
      BY <1>1, <1>7, <1>8, <1>12, <2>1, PhaseNext DEF Life!TryAgain
    <2> QED
      BY <1>1, <2>2 DEF Life!Next
  <1>13. row'[d].status \in Terminal \cup Waiting
    BY <1>0, SlotWriteStatus DEF Settle
  <1> QED
    BY <1>9, <1>10, <1>11, <1>12, <1>13 DEF Terminal

\* Every step of the pipeline is a step of the abstract life or a stutter.
LEMMA LifeStep ==
    ASSUME Timely, TypeInv, TypeInv', TimelyInv, NewIsUntried, [Next]_vars
    PROVE  [Life!Next]_Life!vars
  <1>t. /\ row \in [Documents -> Row] /\ slot \in [Slots -> Slot]
        /\ \A d \in Documents : row[d] \in Row
        /\ \A s \in Slots : slot[s].pc # "idle" <=> slot[s].doc # NoDocument
    BY DEF TypeInv, TypeOK, BusyHoldsDocument
  <1>f. /\ "lostAnswer" \notin Faults
        /\ "racingRetry" \notin Faults /\ "racingSweep" \notin Faults
    BY DEF Timely
  <1>n. \A d \in Documents : d # NoDocument
    BY NoDocumentAssumption
  \* Statuses of the other documents stay, and so does who holds them.
  <1>o. ASSUME NEW d \in Documents, UNCHANGED slot,
               \A o \in Documents : o # d => row'[o] = row[o]
        PROVE  \A o \in Documents \ {d} : Phase'[o] = Phase[o]
    BY <1>o, PhaseKept DEF InHand
  <1>1. CASE UNCHANGED vars
    BY <1>1, LettingGo DEF vars, InHand
  <1>2. ASSUME NEW d \in Documents, createWithEvent(d) PROVE Life!Next
    <2>1. /\ row[d] = NoRow
          /\ \A o \in Documents : o # d => row'[o] = row[o]
          /\ row'[d].status = "UPLOADED" /\ row'[d].attempts = 0
      BY <1>t, <1>2 DEF createWithEvent, NewIsUntried, NoRow
    <2>2. row[d].status = Absent /\ row[d].attempts = 0
      BY <2>1 DEF NoRow
    <2>3. \A o \in Documents : row'[o].attempts = row[o].attempts
      BY <2>1, <2>2
    <2>4. \A o \in Documents \ {d} : Phase'[o] = Phase[o]
      BY <1>2, <1>o, <2>1 DEF createWithEvent
    <2>5. Phase[d] = "absent" /\ Phase'[d] = "waiting"
      BY <2>1, <2>2, PhaseNow, PhaseNext DEF Waiting
    <2>6. Life!Move({d}, "absent", "waiting")
      BY <2>4, <2>5, Moved
    <2> QED
      BY <2>3, <2>6, TriesKept DEF Life!Next, Life!Submit
  <1>3. ASSUME NEW d \in Documents, Clock(d) PROVE UNCHANGED Life!vars
    <2>1. \A o \in Documents :
            row'[o].status = row[o].status /\ row'[o].attempts = row[o].attempts
      BY <1>t, <1>3 DEF Clock, BackoffElapses, LeaseRunsOut, Row
    <2> QED
      BY <1>3, <2>1, NothingMoved DEF Clock, BackoffElapses, LeaseRunsOut
  <1>4. ASSUME NEW s \in Slots, NEW d \in Documents, claimNext(s, d) PROVE Life!Next
    <2>1. /\ row[d].status \in Waiting /\ slot[s].doc = NoDocument
          /\ row'[d].status = "PROCESSING" /\ row'[d].attempts = row[d].attempts + 1
          /\ \A o \in Documents : o # d => row'[o] = row[o]
      BY <1>t, <1>4 DEF claimNext, Claim, Claimable, Row
    <2>2. slot'[s].doc = d /\ \A o \in Slots : o # s => slot'[o] = slot[o]
      BY <1>t, <1>4 DEF claimNext, IdleSlot
    <2>3. \A o \in Documents \ {d} : Phase'[o] = Phase[o]
      BY <1>n, <2>1, <2>2, PhaseKept DEF InHand
    <2>4. Phase[d] = "waiting" /\ Phase'[d] = "working"
      BY <2>1, PhaseNow, PhaseNext
    <2>5. Life!Move({d}, "waiting", "working")
      BY <2>3, <2>4, Moved
    <2>6. Tries[d] < MaxAttempts
      BY <2>1 DEF Tries, TimelyInv, Budget
    <2>7. Tries' = [Tries EXCEPT ![d] = @ + 1]
      BY <2>1 DEF Tries
    <2> QED
      BY <2>5, <2>6, <2>7 DEF Life!Next, Life!Start
  <1>5. ASSUME NEW s \in Slots, FailBeforeRetry(s) PROVE UNCHANGED Life!vars
    <2>0. PICK d \in Documents : d = slot[s].doc
      BY <1>5, SlotWriteRows DEF FailBeforeRetry
    <2>1. /\ \A o \in Documents : o # d => row'[o] = row[o]
          /\ row'[d].attempts = row[d].attempts /\ row'[d].status = "FAILED"
      BY <1>5, <2>0, SlotWriteRows DEF FailBeforeRetry
    <2>2. row[d].status \in {"PROCESSING", "FAILED"}
      BY <1>n, <2>0 DEF TimelyInv, Owns
    <2>3. \A o \in Slots : slot'[o].doc = slot[o].doc
      BY <1>t, <1>5 DEF FailBeforeRetry, Slot
    <2>4. \A o \in Documents \ {d} : Phase'[o] = Phase[o]
      BY <2>1, <2>3, PhaseKept DEF InHand
    <2>5. InHand(d) /\ InHand(d)'
      BY <2>0, <2>3 DEF InHand
    <2>6. Phase[d] = "working" /\ Phase'[d] = "working"
      BY <2>1, <2>2, <2>5, PhaseNow, PhaseNext
    <2>7. UNCHANGED Phase
      BY <2>4, <2>6 DEF Phase
    <2> QED
      BY <2>1, <2>7, TriesKept DEF Life!vars
  <1>6. ASSUME NEW w \in Workers, reclaimExpired(w) PROVE [Life!Next]_Life!vars
    <2> DEFINE D == {d \in Documents : Reclaimable(d)}
    <2>1. /\ \A d \in D : row'[d].status = "RETRY_PENDING" /\ row'[d].attempts = row[d].attempts
          /\ \A d \in Documents \ D : row'[d] = row[d]
      BY <1>t, <1>6 DEF reclaimExpired, ReclaimRows, Row
    <2>2. \A d \in Documents \ D : Phase'[d] = Phase[d]
      BY <1>6, <2>1, PhaseKept DEF reclaimExpired, InHand
    <2>3. \A d \in D : Phase[d] = "working" /\ Phase'[d] = "waiting"
      BY <2>1, PhaseNow, PhaseNext DEF Reclaimable, LeaseExpired, Waiting
    <2>4. UNCHANGED Tries
      BY <2>1, TriesKept
    <2>5. \A d \in D : Tries[d] < MaxAttempts
      BY DEF Tries, Reclaimable
    <2>6. CASE D = {}
      BY <2>2, <2>4, <2>6 DEF Phase, Life!vars
    <2>7. CASE D # {}
      <3>1. D \in SUBSET Documents /\ Life!Move(D, "working", "waiting")
        BY <2>2, <2>3, <2>7, Moved
      <3>2. Life!TryAgain(D)
        BY <2>4, <2>5, <3>1 DEF Life!TryAgain
      <3> QED
        BY <3>1, <3>2 DEF Life!Next
    <2> QED
      BY <2>6, <2>7
  <1>7. ASSUME NEW w \in Workers, NEW d \in Documents, FailExhausted(w, d)
        PROVE  [Life!Next]_Life!vars
    <2>1. /\ row'[d].status = "FAILED" /\ row'[d].attempts = row[d].attempts
          /\ \A o \in Documents : o # d => row'[o] = row[o]
      BY <1>t, <1>7 DEF FailExhausted, ApplyTransition, Row
    <2>2. ~InHand(d) /\ ~InHand(d)'
      BY <1>f, <1>7, FreeRows DEF FailExhausted, Exhausted, LeaseExpired, InHand
    <2>3. \A o \in Documents \ {d} : Phase'[o] = Phase[o]
      BY <1>7, <1>o, <2>1 DEF FailExhausted
    <2>4. Phase'[d] = "failed"
      BY <2>1, <2>2, PhaseNext
    <2>5. UNCHANGED Tries
      BY <2>1, TriesKept
    <2>6. CASE Exhausted(d)
      <3>1. Phase[d] = "working"
        BY <2>6, PhaseNow DEF Exhausted, LeaseExpired
      <3>2. Life!Move({d}, "working", "failed")
        BY <2>3, <2>4, <3>1, Moved
      <3> QED
        BY <2>5, <3>2 DEF Life!Next, Life!GiveUp
    <2>7. CASE AtRestFailed(d)
      <3>1. Phase[d] = "failed"
        BY <2>7, PhaseNow DEF AtRestFailed
      <3> QED
        BY <2>3, <2>4, <2>5, <3>1 DEF Phase, Life!vars
    <2> QED
      BY <1>f, <1>7, <2>6, <2>7 DEF FailExhausted
  <1>8. ASSUME NEW q \in Requests, resetForManualRetry(q) PROVE Life!Next
    <2>1. PICK d \in Documents : d = request[q].doc
      BY <1>8 DEF resetForManualRetry, TypeInv, RequestHoldsDocument
    <2>2. AtRestFailed(d)
      BY <1>f, <1>8, <2>1 DEF resetForManualRetry
    <2>3. /\ row'[d].status = "RETRY_PENDING" /\ row'[d].attempts = 0
          /\ \A o \in Documents : o # d => row'[o] = row[o]
      BY <1>t, <1>8, <2>1 DEF resetForManualRetry, Row
    <2>4. \A o \in Documents \ {d} : Phase'[o] = Phase[o]
      BY <1>8, <1>o, <2>3 DEF resetForManualRetry
    <2>5. Phase[d] = "failed" /\ Phase'[d] = "waiting"
      BY <2>2, <2>3, PhaseNow, PhaseNext DEF AtRestFailed, Waiting
    <2>6. Life!Move({d}, "failed", "waiting")
      BY <2>4, <2>5, Moved
    <2>7. Tries' = [Tries EXCEPT ![d] = 0]
      BY <2>3 DEF Tries
    <2> QED
      BY <2>6, <2>7 DEF Life!Next, Life!Reopen
  <1>9. ASSUME NEW w, ProcessDies(w), UNCHANGED row PROVE [Life!Next]_Life!vars
    <2>1. \A s \in Slots : slot'[s] = IdleSlot \/ slot'[s] = slot[s]
      BY <1>9 DEF ProcessDies
    <2> QED
      BY <1>9, <1>n, <2>1, LettingGo DEF InHand, IdleSlot
  <1>10. ASSUME NEW s \in Slots, WriteError(s) PROVE [Life!Next]_Life!vars
    <2>1. UNCHANGED row /\ \A o \in Slots : slot'[o].doc \in {slot[o].doc, NoDocument}
      BY <1>10, ExceptionLetsGo DEF WriteError
    <2> QED
      BY <1>n, <2>1, LettingGo DEF InHand
  <1>11. ASSUME NEW s \in Slots, SlotStep(s) PROVE [Life!Next]_Life!vars
    <2>1. CASE recordClaimEvent(s) \/ extract(s)
      <3>1. \A o \in Slots : slot'[o].doc = slot[o].doc
        <4>1. slot[s] \in Slot
          BY <1>t
        <4>2. CASE recordClaimEvent(s)
          BY <1>t, <4>1, <4>2 DEF recordClaimEvent, Slot
        <4>3. CASE extract(s)
          <5>1. PICK result \in Answers :
                  slot' = [slot EXCEPT ![s] = [slot[s] EXCEPT !.pc = "settling",
                                                              !.result = result]]
            BY <4>3 DEF extract
          <5> QED
            BY <1>t, <4>1, <5>1 DEF Slot
        <4> QED
          BY <2>1, <4>2, <4>3
      <3>2. UNCHANGED row
        BY <2>1 DEF recordClaimEvent, WriteClaimEvent, extract
      <3> QED
        BY <3>1, <3>2, LettingGo DEF InHand
    <2> QED
      BY <1>4, <1>5, <1>11, <2>1, SettleMoves DEF SlotStep
  <1>12. ASSUME NEW w \in Workers, ReaperStep(w) PROVE [Life!Next]_Life!vars
    BY <1>6, <1>7, <1>12, LettingGo
       DEF ReaperStep, RecordReclaim, findExhaustedStaleIds, InHand
  <1>13. ASSUME NEW q \in Requests, RequestStep(q) PROVE [Life!Next]_Life!vars
    BY <1>8, <1>13, LettingGo DEF RequestStep, CheckRetry, InHand
  <1>14. CASE Misfortune
    <2>1. \A kind : kind = "lostAnswer" => ~Fault(kind)
      BY <1>f DEF Fault
    <2>2. ASSUME NEW w \in Workers, SweepError(w) PROVE [Life!Next]_Life!vars
      BY <2>2, LettingGo DEF SweepError, InHand
    <2> QED
      BY <1>9, <1>10, <1>14, <2>1, <2>2
         DEF Misfortune, ClaimError, ClaimAnswerLost, WriteAnswerLost, ReclaimAnswerLost, Crash
  <1> QED
    BY <1>1, <1>2, <1>3, <1>11, <1>12, <1>13, <1>14 DEF Next

\* The pipeline implements the abstract life of a document: seen from outside,
\* attempts, sweeps, crashes and manual retries only ever submit, start, conclude,
\* try again within the budget, give up or reopen.
THEOREM LifecycleImplemented ==
    ASSUME Timely
    PROVE  Spec => ImplementsLifecycle
<1>1. Init => NewIsUntried
  BY DEF Init, NewIsUntried
<1>2. Init => Life!Init
  <2> SUFFICES ASSUME Init PROVE Life!Init
    OBVIOUS
  <2>1. \A d \in Documents : row[d].status = Absent /\ row[d].attempts = 0
    BY DEF Init, NoRow
  <2>2. \A d \in Documents : PhaseOf(row[d].status, InHand(d)) = "absent"
    BY <2>1 DEF PhaseOf, Absent, Waiting
  <2> QED
    BY <2>1, <2>2 DEF Life!Init, Phase, Tries
<1>3. TypeInv /\ NewIsUntried /\ [Next]_vars => NewIsUntried'
  BY NewIsUntriedStep
<1>4. TypeInv /\ TypeInv' /\ TimelyInv /\ NewIsUntried /\ [Next]_vars
        => [Life!Next]_Life!vars
  BY LifeStep
<1>5. QED
  BY <1>1, <1>2, <1>3, <1>4, TypeCorrect, TimelyCorrect, PTL
     DEF Spec, ImplementsLifecycle, Life!Spec

-----------------------------------------------------------------------------
(* The attempt numbers of a history, in the order they were written.       *)

\* Since the last manual retry no event is of an attempt later than n.
Within(events, n) ==
    \A i \in 1 .. Len(events) :
      (\A k \in i + 1 .. Len(events) : events[k].reason # "MANUAL_RETRY")
        => events[i].attempt <= n

InOrder(events) ==
    \A i, j \in 1 .. Len(events) :
      (/\ i < j
       /\ events[j].attempt # NoAttempt
       /\ \A k \in i + 1 .. j : events[k].reason # "MANUAL_RETRY")
      => events[i].attempt <= events[j].attempt

(***************************************************************************)
(* The strengthening: the events since the last manual retry are of        *)
(* attempts the row has counted.  A document at rest in FAILED is the      *)
(* exception, since a sweep writes MaxAttempts whatever the row counts;    *)
(* only a manual retry can follow there.                                   *)
(***************************************************************************)
Counted(d) == IF AtRestFailed(d) THEN MaxAttempts ELSE row[d].attempts

Ordered(d) == InOrder(history[d]) /\ Within(history[d], Counted(d))

OrderInv == \A d \in Documents : Ordered(d)

\* What appending an event does to the order.
LEMMA OrderAppend ==
    ASSUME NEW events \in Seq(Event), NEW e \in Event, NEW n \in Nat,
           InOrder(events), Within(events, n),
           \/ e.attempt = NoAttempt
           \/ e.reason = "MANUAL_RETRY"
           \/ n <= e.attempt
    PROVE  InOrder(Append(events, e))
  <1> DEFINE longer == Append(events, e)
  <1>1. /\ Len(longer) = Len(events) + 1 /\ Len(events) \in Nat
        /\ longer[Len(events) + 1] = e
        /\ \A k \in 1 .. Len(events) : longer[k] = events[k] /\ events[k] \in Event
    OBVIOUS
  <1> HIDE DEF longer
  <1>2. SUFFICES ASSUME NEW i \in 1 .. Len(longer), NEW j \in 1 .. Len(longer),
                        i < j, longer[j].attempt # NoAttempt,
                        \A k \in i + 1 .. j : longer[k].reason # "MANUAL_RETRY"
                 PROVE  longer[i].attempt <= longer[j].attempt
    BY DEF InOrder, longer
  <1>3. CASE j \in 1 .. Len(events)
    <2>1. i \in 1 .. Len(events) /\ \A k \in i + 1 .. j : k \in 1 .. Len(events)
      BY <1>1, <1>2, <1>3
    <2> QED
      BY <1>1, <1>2, <1>3, <2>1 DEF InOrder
  <1>4. CASE j = Len(events) + 1
    <2>1. i \in 1 .. Len(events) /\ j \in i + 1 .. j
      BY <1>1, <1>2, <1>4
    <2>2. \A k \in i + 1 .. Len(events) : events[k].reason # "MANUAL_RETRY"
      BY <1>1, <1>2, <1>4, <2>1
    <2>3. events[i].attempt <= n /\ events[i].attempt \in Int
      BY <1>1, <2>1, <2>2 DEF Within, Event, NoAttempt
    <2>4. n <= e.attempt /\ e.attempt \in Int
      BY <1>1, <1>2, <1>4, <2>1 DEF Event, NoAttempt
    <2> QED
      BY <1>1, <1>4, <2>1, <2>3, <2>4
  <1> QED
    BY <1>1, <1>2, <1>3, <1>4

LEMMA WithinAppend ==
    ASSUME NEW events \in Seq(Event), NEW e \in Event, NEW n \in Nat, NEW m \in Nat,
           e.attempt <= m,
           e.reason = "MANUAL_RETRY" \/ (Within(events, n) /\ n <= m)
    PROVE  Within(Append(events, e), m)
  <1> DEFINE longer == Append(events, e)
  <1>1. /\ Len(longer) = Len(events) + 1 /\ Len(events) \in Nat
        /\ longer[Len(events) + 1] = e
        /\ \A k \in 1 .. Len(events) : longer[k] = events[k] /\ events[k] \in Event
    OBVIOUS
  <1> HIDE DEF longer
  <1>2. SUFFICES ASSUME NEW i \in 1 .. Len(longer),
                        \A k \in i + 1 .. Len(longer) : longer[k].reason # "MANUAL_RETRY"
                 PROVE  longer[i].attempt <= m
    BY DEF Within, longer
  <1>3. CASE i = Len(events) + 1
    BY <1>1, <1>3
  <1>4. CASE i \in 1 .. Len(events)
    <2>1. Len(longer) \in i + 1 .. Len(longer)
      BY <1>1, <1>4
    <2>2. Within(events, n) /\ n <= m
      BY <1>1, <1>2, <2>1
    <2>3. \A k \in i + 1 .. Len(events) : events[k].reason # "MANUAL_RETRY"
      BY <1>1, <1>2, <1>4
    <2>4. events[i].attempt <= n /\ events[i].attempt \in Int
      BY <1>1, <1>4, <2>2, <2>3 DEF Within, Event, NoAttempt
    <2> QED
      BY <1>1, <1>4, <2>2, <2>4
  <1> QED
    BY <1>1, <1>2, <1>3, <1>4

LEMMA CountedType ==
    ASSUME TypeInv, TimelyInv, NEW d \in Documents
    PROVE  /\ Counted(d) \in Nat /\ row[d].attempts \in Nat
           /\ row[d].attempts <= Counted(d) /\ Counted(d) <= MaxAttempts
  <1>1. row[d].attempts \in Nat /\ row[d].attempts <= MaxAttempts /\ MaxAttempts \in Nat
    BY MaxAttemptsAssumption DEF TypeInv, TypeOK, Row, TimelyInv, Budget
  <1> QED
    BY <1>1 DEF Counted

\* Nothing is written and the row counts no less.
LEMMA OrderedKept ==
    ASSUME TypeInv, NEW d \in Documents, Ordered(d), history'[d] = history[d],
           Counted(d) \in Nat, Counted(d)' \in Nat, Counted(d) <= Counted(d)'
    PROVE  Ordered(d)'
  <1>1. \A i \in 1 .. Len(history[d]) : history[d][i].attempt \in Int
    <2>1. history[d] \in Seq(Event)
      BY DEF TypeInv, TypeOK
    <2>2. \A i \in 1 .. Len(history[d]) : history[d][i] \in Event
      BY <2>1
    <2> QED
      BY <2>2 DEF Event, NoAttempt
  <1> QED
    BY <1>1 DEF Ordered, Within

\* An event is written that the row counts, or that begins a new budget.
LEMMA OrderedWrite ==
    ASSUME TypeInv, NEW d \in Documents, Ordered(d), NEW e \in Event,
           history'[d] = Append(history[d], e),
           Counted(d) \in Nat, Counted(d)' \in Nat, e.attempt <= Counted(d)',
           \/ e.reason = "MANUAL_RETRY"
           \/ /\ Counted(d) <= Counted(d)'
              /\ e.attempt = NoAttempt \/ Counted(d) <= e.attempt
    PROVE  Ordered(d)'
  <1>1. history[d] \in Seq(Event)
    BY DEF TypeInv, TypeOK
  <1> DEFINE n == Counted(d)
  <1>2. n \in Nat /\ InOrder(history[d]) /\ Within(history[d], n)
    BY DEF Ordered
  <1>3. InOrder(Append(history[d], e))
    BY <1>1, <1>2, OrderAppend
  <1>4. Within(Append(history[d], e), Counted(d)')
    BY <1>1, <1>2, WithinAppend
  <1> QED
    BY <1>3, <1>4 DEF Ordered


\* The event of a slot's own write: of the attempt it runs, in the status it
\* leaves the row in, and in one history only.
LEMMA SlotWriteHistory ==
    ASSUME TypeInv, NEW s \in Slots, NEW d \in Documents, d = slot[s].doc,
           WriteClaimEvent(s) \/ FinalWrite(s) \/ WriteFailedBeforeRetry(s)
    PROVE  /\ \A o \in Documents \ {d} : history'[o] = history[o]
           /\ \E e \in Event :
                /\ history'[d] = Append(history[d], e)
                /\ e.attempt = slot[s].attempt
                /\ e.status = IF WriteClaimEvent(s) THEN "PROCESSING" ELSE row'[d].status
  <1> DEFINE a == slot[s].attempt
  <1>1. TypeOK /\ a \in Nat /\ row[d] \in Row /\ row \in [Documents -> Row]
    BY DEF TypeInv, TypeOK, Slot
  <1>2. CASE WriteClaimEvent(s)
    <2>1. Record(d, "PROCESSING", a, Null)
      BY <1>2 DEF WriteClaimEvent
    <2> QED
      BY <1>1, <1>2, <2>1, RecordOne DEF Statuses
  <1>3. CASE ~WriteClaimEvent(s)
    <2>1. ASSUME NEW status \in Statuses, NEW reason \in Reasons \cup {Null},
                 NEW due, NEW data, NEW errors,
                 ApplyTransition(d, status, a, reason, due, data, errors)
          PROVE  /\ \A o \in Documents \ {d} : history'[o] = history[o]
                 /\ \E e \in Event :
                      /\ history'[d] = Append(history[d], e)
                      /\ e.attempt = a
                      /\ e.status = row'[d].status
      <3>1. row'[d].status = status
        BY <1>1, <2>1 DEF ApplyTransition, Row
      <3>2. Record(d, status, a, reason)
        BY <2>1 DEF ApplyTransition
      <3> DEFINE e == [status |-> status, attempt |-> a, reason |-> reason]
      <3>3. e \in Event /\ e.status = status /\ e.attempt = a
        BY <1>1 DEF Event
      <3>4. history' = [history EXCEPT ![d] = Append(history[d], e)]
        BY <3>2 DEF Record
      <3>5. history \in [Documents -> Seq(Event)]
        BY <1>1 DEF TypeOK
      <3> HIDE DEF e
      <3> QED
        BY <3>1, <3>3, <3>4, <3>5
    <2>2. ClassifiedReason(slot[s].result) \in Reasons
      BY DEF ClassifiedReason, Reasons
    <2>3. \E status \in Statuses, reason \in Reasons \cup {Null} : \E due, data, errors :
            ApplyTransition(d, status, a, reason, due, data, errors)
      BY <1>3, <2>2 DEF FinalWrite, WriteFailedBeforeRetry, WriteProcessed, WriteRejected,
                        WriteFailedTerminally, WriteRetryPending, Statuses, Reasons
    <2> QED
      BY <1>3, <2>1, <2>3
  <1> QED
    BY <1>2, <1>3

\* The first event of a document.
LEMMA UploadHistory ==
    ASSUME TypeInv, NEW d \in Documents, createWithEvent(d)
    PROVE  /\ \A o \in Documents \ {d} : history'[o] = history[o]
           /\ \E e \in Event : /\ e.status = "UPLOADED" /\ e.attempt = NoAttempt
                               /\ history'[d] = Append(history[d], e)
  <1> DEFINE e == [status |-> "UPLOADED", attempt |-> NoAttempt, reason |-> Null]
  <1>1. history \in [Documents -> Seq(Event)]
    BY DEF TypeInv, TypeOK
  <1>2. e \in Event /\ e.status = "UPLOADED" /\ e.attempt = NoAttempt
    BY DEF Event, Statuses
  <1>3. history' = [history EXCEPT ![d] = Append(history[d], e)]
    BY DEF createWithEvent, Record
  <1> HIDE DEF e
  <1> QED
    BY <1>1, <1>2, <1>3

\* The step of AttemptsInOrder.
LEMMA OrderStep ==
    ASSUME Timely, TypeInv, TypeInv', TimelyInv, TimelyInv', NewIsUntried, OrderInv, [Next]_vars
    PROVE  OrderInv'
  <1>t. /\ row \in [Documents -> Row] /\ slot \in [Slots -> Slot] /\ TypeOK
        /\ \A d \in Documents : row[d] \in Row
        /\ \A s \in Slots : slot[s] \in Slot
        /\ \A s \in Slots : slot[s].pc # "idle" <=> slot[s].doc # NoDocument
    BY DEF TypeInv, TypeOK, BusyHoldsDocument
  <1>f. /\ "lostAnswer" \notin Faults
        /\ "racingRetry" \notin Faults /\ "racingSweep" \notin Faults
    BY DEF Timely
  <1>n. \A d \in Documents : d # NoDocument
    BY NoDocumentAssumption
  <1>c. \A d \in Documents :
          /\ Counted(d) \in Nat /\ row[d].attempts \in Nat
          /\ row[d].attempts <= Counted(d) /\ Counted(d) <= MaxAttempts
    BY CountedType
  <1>d. \A d \in Documents :
          /\ Counted(d)' \in Nat /\ row'[d].attempts \in Nat
          /\ row'[d].attempts <= Counted(d)' /\ Counted(d)' <= MaxAttempts
    <2>1. ASSUME NEW d \in Documents
          PROVE  /\ row'[d].attempts \in Nat /\ row'[d].attempts <= MaxAttempts
                 /\ MaxAttempts \in Nat
      BY MaxAttemptsAssumption DEF TypeInv, TypeOK, Row, TimelyInv, Budget
    <2> QED
      BY <2>1 DEF Counted
  <1>o. \A d \in Documents : Ordered(d)
    BY DEF OrderInv
  \* The frame: a document nobody writes about.
  <1>k. ASSUME NEW d \in Documents, history'[d] = history[d],
               row[d].attempts <= row'[d].attempts,
               AtRestFailed(d) => AtRestFailed(d)'
        PROVE  Ordered(d)'
    <2>1. Counted(d) <= Counted(d)'
      BY <1>c, <1>d, <1>k DEF Counted
    <2> QED
      BY <1>c, <1>d, <1>k, <1>o, <2>1, OrderedKept
  <1>l. ASSUME NEW d \in Documents, history'[d] = history[d], row'[d] = row[d],
               InHand(d)' => InHand(d)
        PROVE  Ordered(d)'
    BY <1>c, <1>k, <1>l DEF AtRestFailed
  <1>q. ASSUME UNCHANGED <<row, history>>, \A s \in Slots : slot'[s].doc \in {slot[s].doc, NoDocument}
        PROVE  OrderInv'
    BY <1>l, <1>n, <1>q DEF OrderInv, InHand
  <1>1. CASE UNCHANGED vars
    BY <1>1, <1>q DEF vars
  <1>2. ASSUME NEW d \in Documents, createWithEvent(d) PROVE OrderInv'
    <2>1. /\ row[d] = NoRow
          /\ \A o \in Documents : o # d => row'[o] = row[o]
          /\ row'[d].status = "UPLOADED" /\ row'[d].attempts = 0
      BY <1>t, <1>2 DEF createWithEvent, NewIsUntried, NoRow
    <2>2. PICK e \in Event : e.attempt = NoAttempt /\ history'[d] = Append(history[d], e)
      BY <1>2, UploadHistory
    <2>3. \A o \in Documents \ {d} : history'[o] = history[o]
      BY <1>2, UploadHistory
    <2>4. Counted(d) = 0 /\ Counted(d)' = 0
      BY <2>1 DEF Counted, AtRestFailed, NoRow, Absent
    <2>5. Ordered(d)'
      BY <1>o, <2>2, <2>4, OrderedWrite DEF NoAttempt
    <2>6. \A o \in Documents \ {d} : Ordered(o)'
      BY <1>2, <1>l, <2>1, <2>3 DEF createWithEvent, InHand
    <2> QED
      BY <2>5, <2>6 DEF OrderInv
  <1>3. ASSUME NEW d \in Documents, Clock(d) PROVE OrderInv'
    <2>1. ASSUME NEW o \in Documents
          PROVE  row'[o].status = row[o].status /\ row'[o].attempts = row[o].attempts
      BY <1>t, <1>3 DEF Clock, BackoffElapses, LeaseRunsOut, Row
    <2>2. ASSUME NEW o \in Documents PROVE Ordered(o)'
      BY <1>c, <1>3, <1>k, <2>1 DEF Clock, BackoffElapses, LeaseRunsOut, AtRestFailed, InHand
    <2> QED
      BY <2>2 DEF OrderInv
  <1>4. ASSUME NEW s \in Slots, NEW d \in Documents, claimNext(s, d) PROVE OrderInv'
    <2>1. /\ row[d].status \in Waiting
          /\ row'[d].attempts = row[d].attempts + 1
          /\ \A o \in Documents : o # d => row'[o] = row[o]
          /\ UNCHANGED history
      BY <1>t, <1>4 DEF claimNext, Claim, Claimable, Row
    <2>2. slot'[s].doc = d /\ \A o \in Slots : o # s => slot'[o] = slot[o]
      BY <1>t, <1>4 DEF claimNext, IdleSlot
    <2>3. Ordered(d)'
      BY <1>c, <1>k, <2>1 DEF AtRestFailed, Waiting
    <2>4. \A o \in Documents \ {d} : Ordered(o)'
      BY <1>l, <2>1, <2>2 DEF InHand
    <2> QED
      BY <2>3, <2>4 DEF OrderInv
  <1>5. ASSUME NEW s \in Slots, Settle(s) \/ FailBeforeRetry(s) \/ recordClaimEvent(s)
        PROVE  OrderInv'
    <2>0. PICK d \in Documents : d = slot[s].doc
      BY <1>t, <1>5, SlotWriteRows
         DEF Settle, FailBeforeRetry, recordClaimEvent, WriteClaimEvent, Slot
    <2>1. WriteClaimEvent(s) \/ FinalWrite(s) \/ WriteFailedBeforeRetry(s)
      BY <1>5 DEF Settle, FailBeforeRetry, recordClaimEvent
    <2>2. /\ row'[d].attempts = row[d].attempts
          /\ \A o \in Documents : o # d => row'[o] = row[o]
      BY <2>0, <2>1, SlotWriteRows DEF WriteClaimEvent
    <2>3. \A o \in Documents \ {d} : history'[o] = history[o]
      BY <2>0, <2>1, SlotWriteHistory
    <2>4. PICK e \in Event : e.attempt = slot[s].attempt /\ history'[d] = Append(history[d], e)
      BY <2>0, <2>1, SlotWriteHistory
    <2>5. Counted(d) = slot[s].attempt
      BY <1>n, <2>0 DEF TimelyInv, Owns, Counted, AtRestFailed, InHand
    <2>6. slot[s].attempt <= Counted(d)'
      BY <1>d, <1>n, <2>0, <2>2 DEF TimelyInv, Owns
    <2>7. Ordered(d)'
      BY <1>c, <1>d, <1>o, <2>4, <2>5, <2>6, OrderedWrite
    <2>8. \A o \in Slots : slot'[o].doc \in {slot[o].doc, NoDocument}
      <3>1. slot[s] \in Slot
        BY <1>t
      <3> QED
        BY <1>t, <1>5, <3>1 DEF Settle, FailBeforeRetry, recordClaimEvent, IdleSlot, Slot
    <2>9. \A o \in Documents \ {d} : Ordered(o)'
      BY <1>l, <1>n, <2>2, <2>3, <2>8 DEF InHand
    <2> QED
      BY <2>7, <2>9 DEF OrderInv
  <1>6. ASSUME NEW s \in Slots, extract(s) PROVE OrderInv'
    <2>1. PICK result \in Answers :
            slot' = [slot EXCEPT ![s] = [slot[s] EXCEPT !.pc = "settling", !.result = result]]
      BY <1>6 DEF extract
    <2>2. slot[s] \in Slot
      BY <1>t
    <2>3. \A o \in Slots : slot'[o].doc = slot[o].doc
      BY <1>t, <2>1, <2>2 DEF Slot
    <2> QED
      BY <1>6, <1>q, <2>3 DEF extract
  <1>7. ASSUME NEW w \in Workers, reclaimExpired(w) PROVE OrderInv'
    <2>1. ASSUME NEW d \in Documents PROVE Ordered(d)'
      <3>1. row[d] \in Row
        BY <1>t
      <3>2. /\ row'[d].attempts = row[d].attempts
            /\ AtRestFailed(d) => row'[d] = row[d]
        BY <1>7, <3>1
           DEF reclaimExpired, ReclaimRows, Reclaimable, LeaseExpired, AtRestFailed, Row
      <3> QED
        BY <1>7, <1>c, <1>k, <3>2 DEF reclaimExpired, AtRestFailed, InHand
    <2> QED
      BY <2>1 DEF OrderInv
  <1>8. ASSUME NEW w \in Workers, NEW d \in Documents, RecordReclaim(w, d) PROVE OrderInv'
    <2>1. Record(d, "RETRY_PENDING", NoAttempt, "LEASE_EXPIRED") /\ UNCHANGED <<row, slot>>
      BY <1>8 DEF RecordReclaim
    <2>2. PICK e \in Event : e.attempt = NoAttempt /\ history'[d] = Append(history[d], e)
      BY <1>t, <2>1, RecordOne DEF Statuses, Reasons, NoAttempt
    <2>3. \A o \in Documents \ {d} : history'[o] = history[o]
      BY <1>t, <2>1, RecordOne DEF Statuses, Reasons
    <2>4. Counted(d)' = Counted(d)
      BY <2>1 DEF Counted, AtRestFailed, InHand
    <2>5. Ordered(d)'
      BY <1>c, <1>o, <2>2, <2>4, OrderedWrite DEF NoAttempt
    <2>6. \A o \in Documents \ {d} : Ordered(o)'
      BY <1>l, <2>1, <2>3 DEF InHand
    <2> QED
      BY <2>5, <2>6 DEF OrderInv
  <1>9. ASSUME NEW w \in Workers, NEW d \in Documents, FailExhausted(w, d) PROVE OrderInv'
    <2>1. /\ row'[d].status = "FAILED"
          /\ \A o \in Documents : o # d => row'[o] = row[o]
      BY <1>t, <1>9 DEF FailExhausted, ApplyTransition, Row
    <2>2. ~InHand(d) /\ UNCHANGED slot
      BY <1>f, <1>9, FreeRows DEF FailExhausted, Exhausted, LeaseExpired
    <2>3. Record(d, "FAILED", MaxAttempts, "ATTEMPTS_EXHAUSTED") /\ MaxAttempts \in Nat
      BY <1>9, MaxAttemptsAssumption DEF FailExhausted, ApplyTransition
    <2>4. PICK e \in Event : e.attempt = MaxAttempts /\ history'[d] = Append(history[d], e)
      BY <1>t, <2>3, RecordOne DEF Statuses, Reasons
    <2>5. \A o \in Documents \ {d} : history'[o] = history[o]
      BY <1>t, <2>3, RecordOne DEF Statuses, Reasons
    <2>6. Counted(d)' = MaxAttempts
      BY <2>1, <2>2 DEF Counted, AtRestFailed, InHand
    <2>7. Ordered(d)'
      BY <1>c, <1>d, <1>o, <2>4, <2>6, OrderedWrite
    <2>8. \A o \in Documents \ {d} : Ordered(o)'
      BY <1>l, <2>1, <2>2, <2>5 DEF InHand
    <2> QED
      BY <2>7, <2>8 DEF OrderInv
  <1>10. ASSUME NEW q \in Requests, resetForManualRetry(q) PROVE OrderInv'
    <2>1. PICK d \in Documents : d = request[q].doc
      BY <1>10 DEF resetForManualRetry, TypeInv, RequestHoldsDocument
    <2>2. /\ row'[d].status = "RETRY_PENDING" /\ row'[d].attempts = 0
          /\ \A o \in Documents : o # d => row'[o] = row[o]
          /\ UNCHANGED slot
      BY <1>t, <1>10, <2>1 DEF resetForManualRetry, Row
    <2>3. Record(d, "RETRY_PENDING", 0, "MANUAL_RETRY")
      BY <1>10, <2>1 DEF resetForManualRetry
    <2>4. PICK e \in Event : /\ e.attempt = 0 /\ e.reason = "MANUAL_RETRY"
                             /\ history'[d] = Append(history[d], e)
      BY <1>t, <2>3, RecordOne DEF Statuses, Reasons
    <2>5. \A o \in Documents \ {d} : history'[o] = history[o]
      BY <1>t, <2>3, RecordOne DEF Statuses, Reasons
    <2>6. Ordered(d)'
      BY <1>c, <1>d, <1>o, <2>4, OrderedWrite
    <2>7. \A o \in Documents \ {d} : Ordered(o)'
      BY <1>l, <2>2, <2>5 DEF InHand
    <2> QED
      BY <2>6, <2>7 DEF OrderInv
  <1>11. CASE Misfortune
    <2>1. \A kind : kind = "lostAnswer" => ~Fault(kind)
      BY <1>f DEF Fault
    <2>d. ASSUME NEW w, ProcessDies(w), UNCHANGED <<row, history>> PROVE OrderInv'
      BY <1>q, <2>d DEF ProcessDies, IdleSlot
    <2>2. ASSUME NEW s \in Slots, WriteError(s) PROVE OrderInv'
      BY <1>q, <2>d, <2>2, ExceptionLetsGo DEF WriteError
    <2>3. ASSUME NEW w \in Workers, SweepError(w) PROVE OrderInv'
      BY <1>q, <2>3 DEF SweepError
    <2> QED
      BY <1>11, <2>1, <2>2, <2>3, <2>d
         DEF Misfortune, ClaimError, ClaimAnswerLost, WriteAnswerLost, ReclaimAnswerLost, Crash
  <1>12. ASSUME NEW w \in Workers, findExhaustedStaleIds(w) PROVE OrderInv'
    BY <1>12, <1>q DEF findExhaustedStaleIds
  <1>13. ASSUME NEW q \in Requests, NEW d \in Documents, CheckRetry(q, d) PROVE OrderInv'
    BY <1>13, <1>q DEF CheckRetry
  <1> QED
    BY <1>1, <1>2, <1>3, <1>4, <1>5, <1>6, <1>7, <1>8, <1>9, <1>10, <1>11, <1>12, <1>13
       DEF Next, SlotStep, ReaperStep, RequestStep

\* No event of an attempt is written after one of a later attempt, unless a manual
\* retry lies between: what the sweeps and the claims write late never shows the
\* history a number it has passed.
THEOREM AttemptsAreOrdered ==
    ASSUME Timely
    PROVE  Spec => []AttemptsInOrder
<1>1. Init => NewIsUntried /\ OrderInv
  BY DEF Init, NewIsUntried, OrderInv, Ordered, InOrder, Within
<1>2. TypeInv /\ NewIsUntried /\ [Next]_vars => NewIsUntried'
  BY NewIsUntriedStep
<1>3. TypeInv /\ TypeInv' /\ TimelyInv /\ TimelyInv' /\ NewIsUntried /\ OrderInv /\ [Next]_vars
        => OrderInv'
  BY OrderStep
<1>4. OrderInv => AttemptsInOrder
  BY DEF OrderInv, Ordered, InOrder, AttemptsInOrder
<1>5. QED
  BY <1>1, <1>2, <1>3, <1>4, TypeCorrect, TimelyCorrect, PTL DEF Spec

-----------------------------------------------------------------------------
(* While nothing failed, and after one failure.                            *)

(***************************************************************************)
(* As long as nothing failed, every document in PROCESSING is in somebody's *)
(* hand, so that the sweeps find nothing, and only a claim event may be    *)
(* missing.                                                                *)
(***************************************************************************)
Recording(d) == \E s \in Slots : slot[s].pc = "recording" /\ slot[s].doc = d

Calm(d) == /\ row[d].status = "PROCESSING" => InHand(d)
           /\ Recording(d) \/ LastStatus(d) = row[d].status

CalmInv == faults = <<>> => /\ \A d \in Documents : Calm(d)
                            /\ \A w \in Workers : /\ reaper[w].reclaimed = {}
                                                  /\ reaper[w].exhausted = {}

(***************************************************************************)
(* The catch block is entered by a failed database call only, so the first *)
(* failure finds no attempt in it: the attempt it hits is settled there.   *)
(***************************************************************************)
MendInv ==
    Concurrency = 1 /\ faults \in {<<>>, <<"dbError">>} =>
      /\ FailedOnlyWhenExhausted
      /\ faults = <<>> => \A s \in Slots : ~slot[s].inCatch

LEMMA LastOfAppend ==
    ASSUME TypeInv, NEW d \in Documents, NEW e \in Event,
           history'[d] = Append(history[d], e)
    PROVE  LastStatus(d)' = e.status
  <1> DEFINE events == history[d]
             longer == Append(events, e)
  <1>1. events \in Seq(Event)
    BY DEF TypeInv, TypeOK
  <1>2. longer # <<>> /\ longer[Len(longer)] = e
    BY <1>1
  <1> HIDE DEF longer
  <1>3. history'[d] = longer
    BY DEF longer
  <1> QED
    BY <1>2, <1>3 DEF LastStatus

\* A document whose status and history stay, and that nobody lets go.
LEMMA CalmKept ==
    ASSUME NEW d \in Documents, Calm(d),
           row'[d].status = row[d].status, history'[d] = history[d],
           InHand(d) => InHand(d)', Recording(d) => Recording(d)'
    PROVE  Calm(d)'
  BY DEF Calm, LastStatus

\* A transition that shows its own status.
LEMMA CalmShown ==
    ASSUME TypeInv, NEW d \in Documents, NEW e \in Event,
           history'[d] = Append(history[d], e), row'[d].status = e.status,
           e.status = "PROCESSING" => InHand(d)'
    PROVE  Calm(d)'
  BY LastOfAppend DEF Calm

LEMMA FaultCounts ==
    ASSUME TypeInv, NEW kind, Fault(kind)
    PROVE  /\ faults' # <<>>
           /\ faults' = <<"dbError">> => faults = <<>> /\ kind = "dbError"
  <1>1. faults \in Seq(FaultKinds) /\ kind \in FaultKinds /\ faults' = Append(faults, kind)
    BY FaultsAssumption DEF TypeInv, TypeOK, Fault
  <1> DEFINE longer == Append(faults, kind)
  <1>2. Len(longer) = Len(faults) + 1 /\ longer[Len(faults) + 1] = kind /\ Len(faults) \in Nat
    BY <1>1
  <1>3. longer = <<"dbError">> => Len(longer) = 1 /\ longer[1] = "dbError"
    OBVIOUS
  <1>4. longer = <<>> => Len(longer) = 0
    OBVIOUS
  <1>5. Len(faults) = 0 => faults = <<>>
    BY <1>1
  <1> HIDE DEF longer
  <1>6. faults' = longer
    BY <1>1 DEF longer
  <1> QED
    BY <1>2, <1>3, <1>4, <1>5, <1>6

\* The step of HistoryKeepsUp.
LEMMA CalmStep ==
    ASSUME Timely, TypeInv, TypeInv', TimelyInv, CalmInv, [Next]_vars
    PROVE  CalmInv'
  <1>t. /\ row \in [Documents -> Row] /\ slot \in [Slots -> Slot] /\ TypeOK
        /\ reaper \in [Workers -> Reaper]
        /\ \A d \in Documents : row[d] \in Row
        /\ \A s \in Slots : slot[s] \in Slot
        /\ \A s \in Slots : slot[s].pc # "idle" <=> slot[s].doc # NoDocument
    BY DEF TypeInv, TypeOK, BusyHoldsDocument
  <1>n. \A d \in Documents : d # NoDocument
    BY NoDocumentAssumption
  <1> SUFFICES ASSUME faults' = <<>>
               PROVE  /\ \A d \in Documents : Calm(d)'
                      /\ \A w \in Workers : /\ reaper'[w].reclaimed = {}
                                            /\ reaper'[w].exhausted = {}
    BY DEF CalmInv
  <1>g. \A kind : ~Fault(kind)
    BY FaultCounts
  <1>m. ~Misfortune
    BY <1>g DEF Misfortune, ClaimError, ClaimAnswerLost, WriteError, WriteAnswerLost,
                ReclaimAnswerLost, SweepError, Crash
  <1>f. faults = <<>>
    BY <1>m DEF Next, vars, createWithEvent, Clock, BackoffElapses, LeaseRunsOut, SlotStep,
                claimNext, recordClaimEvent, extract, FailBeforeRetry, Settle, ReaperStep,
                reclaimExpired, RecordReclaim, findExhaustedStaleIds, FailExhausted,
                RequestStep, CheckRetry, resetForManualRetry
  <1>i. /\ \A d \in Documents : Calm(d)
        /\ \A w \in Workers : reaper[w].reclaimed = {} /\ reaper[w].exhausted = {}
    BY <1>f DEF CalmInv
  <1>x. \A d \in Documents : ~LeaseExpired(d)
    BY <1>i, FreeRows DEF LeaseExpired, Calm
  <1>1. CASE UNCHANGED vars
    BY <1>1, <1>i, CalmKept DEF vars, InHand, Recording
  <1>2. ASSUME NEW d \in Documents, createWithEvent(d) PROVE \A o \in Documents : Calm(o)'
    <2>1. /\ \A o \in Documents : o # d => row'[o] = row[o]
          /\ row'[d].status = "UPLOADED"
      BY <1>t, <1>2 DEF createWithEvent, NoRow
    <2>2. PICK e \in Event : e.status = "UPLOADED" /\ history'[d] = Append(history[d], e)
      BY <1>2, UploadHistory
    <2>3. \A o \in Documents \ {d} : history'[o] = history[o]
      BY <1>2, UploadHistory
    <2>4. Calm(d)'
      BY <2>1, <2>2, CalmShown
    <2>5. \A o \in Documents \ {d} : Calm(o)'
      BY <1>2, <1>i, <2>1, <2>3, CalmKept DEF createWithEvent, InHand, Recording
    <2> QED
      BY <2>4, <2>5
  <1>3. ASSUME NEW d \in Documents, Clock(d) PROVE \A o \in Documents : Calm(o)'
    <2>1. \A o \in Documents : row'[o].status = row[o].status
      BY <1>t, <1>3 DEF Clock, BackoffElapses, LeaseRunsOut, Row
    <2> QED
      BY <1>3, <1>i, <2>1, CalmKept DEF Clock, BackoffElapses, LeaseRunsOut, InHand, Recording
  <1>4. ASSUME NEW s \in Slots, NEW d \in Documents, claimNext(s, d)
        PROVE  \A o \in Documents : Calm(o)'
    <2>1. /\ \A o \in Documents : o # d => row'[o] = row[o]
          /\ UNCHANGED history /\ slot[s].doc = NoDocument
      BY <1>t, <1>4 DEF claimNext, Claim
    <2>2. /\ slot'[s].doc = d /\ slot'[s].pc = "recording"
          /\ \A o \in Slots : o # s => slot'[o] = slot[o]
      BY <1>t, <1>4 DEF claimNext, IdleSlot
    <2>3. Calm(d)'
      BY <2>2 DEF Calm, InHand, Recording
    <2>4. ASSUME NEW o \in Documents \ {d} PROVE Calm(o)'
      <3>1. (InHand(o) => InHand(o)') /\ (Recording(o) => Recording(o)')
        BY <1>n, <2>1, <2>2 DEF InHand, Recording
      <3> QED
        BY <1>i, <2>1, <3>1, CalmKept
    <2> QED
      BY <2>3, <2>4
  <1>5. ASSUME NEW s \in Slots, Settle(s) \/ FailBeforeRetry(s) \/ recordClaimEvent(s)
        PROVE  \A o \in Documents : Calm(o)'
    <2>0. PICK d \in Documents : d = slot[s].doc
      BY <1>t, <1>5, SlotWriteRows
         DEF Settle, FailBeforeRetry, recordClaimEvent, WriteClaimEvent, Slot
    <2>1. WriteClaimEvent(s) \/ FinalWrite(s) \/ WriteFailedBeforeRetry(s)
      BY <1>5 DEF Settle, FailBeforeRetry, recordClaimEvent
    <2>2. \A o \in Documents : o # d => row'[o] = row[o]
      BY <2>0, <2>1, SlotWriteRows DEF WriteClaimEvent
    <2>3. \A o \in Documents \ {d} : history'[o] = history[o]
      BY <2>0, <2>1, SlotWriteHistory
    <2>4. PICK e \in Event :
            /\ e.status = IF WriteClaimEvent(s) THEN "PROCESSING" ELSE row'[d].status
            /\ history'[d] = Append(history[d], e)
      BY <2>0, <2>1, SlotWriteHistory
    <2>5. \A o \in Slots : o # s => slot'[o] = slot[o]
      BY <1>t, <1>5 DEF Settle, FailBeforeRetry, recordClaimEvent
    <2>6. ASSUME WriteClaimEvent(s) PROVE Calm(d)'
      <3>1. row'[d].status = "PROCESSING"
        BY <1>n, <2>0, <2>6 DEF WriteClaimEvent, TimelyInv, Owns
      <3>2. recordClaimEvent(s)
        BY <1>5, <2>6 DEF Settle, FailBeforeRetry, FinalWrite, WriteClaimEvent, WriteProcessed,
           WriteRejected, WriteFailedTerminally, WriteRetryPending, WriteFailedBeforeRetry
      <3>a. slot[s] \in Slot
        BY <1>t
      <3>3. slot'[s].doc = d
        BY <1>t, <2>0, <3>a, <3>2 DEF recordClaimEvent, Slot
      <3> QED
        BY <2>4, <2>6, <3>1, <3>3, CalmShown DEF InHand
    <2>7. ASSUME ~WriteClaimEvent(s) PROVE Calm(d)'
      <3>1. row'[d].status # "PROCESSING"
        BY <2>0, <2>1, <2>7, SlotWriteStatus DEF Terminal, Waiting
      <3>2. e.status = row'[d].status
        BY <2>4, <2>7
      <3>3. history'[d] = Append(history[d], e)
        BY <2>4
      <3> QED
        BY <3>1, <3>2, <3>3, CalmShown
    <2>8. ASSUME NEW o \in Documents \ {d} PROVE Calm(o)'
      <3>1. (InHand(o) => InHand(o)') /\ (Recording(o) => Recording(o)')
        BY <2>0, <2>5 DEF InHand, Recording
      <3> QED
        BY <1>i, <2>2, <2>3, <3>1, CalmKept
    <2> QED
      BY <2>6, <2>7, <2>8
  <1>6. ASSUME NEW s \in Slots, extract(s) PROVE \A o \in Documents : Calm(o)'
    <2>1. PICK result \in Answers :
            slot' = [slot EXCEPT ![s] = [slot[s] EXCEPT !.pc = "settling", !.result = result]]
      BY <1>6 DEF extract
    <2>2. slot[s] \in Slot /\ slot[s].pc = "extracting"
      BY <1>t, <1>6 DEF extract
    <2>3. \A o \in Slots : /\ slot'[o].doc = slot[o].doc
                           /\ slot[o].pc = "recording" => slot'[o].pc = "recording"
      BY <1>t, <2>1, <2>2 DEF Slot
    <2> QED
      BY <1>6, <1>i, <2>3, CalmKept DEF extract, InHand, Recording
  <1>7. ASSUME NEW w \in Workers, ReaperStep(w)
        PROVE  /\ UNCHANGED <<row, history, slot>>
               /\ \A v \in Workers : reaper'[v].reclaimed = {} /\ reaper'[v].exhausted = {}
    <2>1. CASE reclaimExpired(w)
      <3>1. /\ \A d \in Documents : ~Reclaimable(d)
            /\ {d \in Documents : Reclaimable(d)} = {}
        BY <1>x DEF Reclaimable
      <3>2. row' = row
        BY <1>t, <2>1, <3>1 DEF reclaimExpired, ReclaimRows
      <3>3. reaper' = [reaper EXCEPT ![w] = [IdleReaper EXCEPT !.pc = "recording",
                                                               !.reclaimed = {}]]
        BY <2>1, <3>1 DEF reclaimExpired
      <3> QED
        BY <1>t, <1>i, <2>1, <3>2, <3>3 DEF reclaimExpired, IdleReaper
    <2>2. CASE findExhaustedStaleIds(w)
      <3>1. {d \in Documents : Exhausted(d)} = {}
        BY <1>x DEF Exhausted
      <3>2. reaper' = [reaper EXCEPT ![w] = IdleReaper]
        BY <2>2, <3>1 DEF findExhaustedStaleIds
      <3>3. IdleReaper.reclaimed = {} /\ IdleReaper.exhausted = {}
        BY DEF IdleReaper
      <3>4. UNCHANGED <<row, history, slot>>
        BY <2>2 DEF findExhaustedStaleIds
      <3> QED
        BY <1>t, <1>i, <3>2, <3>3, <3>4
    <2> QED
      BY <1>7, <1>i, <2>1, <2>2 DEF ReaperStep, RecordReclaim, FailExhausted
  <1>8. ASSUME NEW q \in Requests, NEW d \in Documents, CheckRetry(q, d)
        PROVE  \A o \in Documents : Calm(o)'
    BY <1>8, <1>i, CalmKept DEF CheckRetry, InHand, Recording
  <1>9. ASSUME NEW q \in Requests, resetForManualRetry(q)
        PROVE  \A o \in Documents : Calm(o)'
    <2>1. PICK d \in Documents : d = request[q].doc
      BY <1>9 DEF resetForManualRetry, TypeInv, RequestHoldsDocument
    <2>2. /\ row'[d].status = "RETRY_PENDING"
          /\ \A o \in Documents : o # d => row'[o] = row[o]
          /\ UNCHANGED slot
      BY <1>t, <1>9, <2>1 DEF resetForManualRetry, Row
    <2>3. Record(d, "RETRY_PENDING", 0, "MANUAL_RETRY")
      BY <1>9, <2>1 DEF resetForManualRetry
    <2>4. PICK e \in Event : e.status = "RETRY_PENDING" /\ history'[d] = Append(history[d], e)
      BY <1>t, <2>3, RecordOne DEF Statuses, Reasons
    <2>5. \A o \in Documents \ {d} : history'[o] = history[o]
      BY <1>t, <2>3, RecordOne DEF Statuses, Reasons
    <2>6. Calm(d)'
      BY <2>2, <2>4, CalmShown
    <2>7. \A o \in Documents \ {d} : Calm(o)'
      BY <1>i, <2>2, <2>5, CalmKept DEF InHand, Recording
    <2> QED
      BY <2>6, <2>7
  <1>r. ASSUME UNCHANGED <<row, history, slot>> PROVE \A d \in Documents : Calm(d)'
    BY <1>i, <1>r, CalmKept DEF InHand, Recording
  <1>10. CASE \E w \in Workers : ReaperStep(w)
    BY <1>7, <1>10, <1>r
  <1>11. CASE ~\E w \in Workers : ReaperStep(w)
    <2>1. \A d \in Documents : Calm(d)'
      BY <1>m, <1>1, <1>2, <1>3, <1>4, <1>5, <1>6, <1>8, <1>9, <1>11
         DEF Next, SlotStep, RequestStep
    <2>2. UNCHANGED reaper
      BY <1>m, <1>11
         DEF Next, vars, createWithEvent, Clock, BackoffElapses, LeaseRunsOut, SlotStep,
             claimNext, recordClaimEvent, extract, FailBeforeRetry, Settle,
             RequestStep, CheckRetry, resetForManualRetry
    <2> QED
      BY <1>i, <2>1, <2>2
  <1> QED
    BY <1>10, <1>11

\* As long as no process died and no database call failed, what is written apart
\* catches up: the last event of the history and the row show the same status,
\* unless the claim's event is still to be written.
THEOREM HistoryCatchesUp ==
    ASSUME Timely
    PROVE  Spec => []HistoryKeepsUp
<1>1. Init => CalmInv
  BY DEF Init, CalmInv, Calm, NoRow, LastStatus, IdleReaper, Absent
<1>2. TypeInv /\ TypeInv' /\ TimelyInv /\ CalmInv /\ [Next]_vars => CalmInv'
  BY CalmStep
<1>3. CalmInv => HistoryKeepsUp
  BY DEF CalmInv, Calm, Recording, HistoryKeepsUp, HistoryShowsStatus, EventPending
<1>4. QED
  BY <1>1, <1>2, <1>3, TypeCorrect, TimelyCorrect, PTL DEF Spec

\* A document that was not at rest in FAILED, or whose row keeps why it is.
Mended(d) ==
    AtRestFailed(d) => row[d].attempts = MaxAttempts /\ row[d].reason = "ATTEMPTS_EXHAUSTED"

LEMMA MendedKept ==
    ASSUME NEW d \in Documents, Mended(d),
           row'[d].status = "FAILED" =>
             /\ row[d].status = "FAILED" /\ row'[d].attempts = row[d].attempts
             /\ row'[d].reason = row[d].reason
             /\ InHand(d) => InHand(d)'
    PROVE  Mended(d)'
  BY DEF Mended, AtRestFailed

\* Where a failed database call leaves the slots, with one slot to a process and
\* nobody in a catch block: a document in FAILED stays in the hand it was in.
LEMMA ErrorKeepsHold ==
    ASSUME TypeInv, TimelyInv, Concurrency = 1, NEW s \in Slots,
           \/ WriteError(s) /\ ~slot[s].inCatch
           \/ ClaimError(s)
    PROVE  \A d \in Documents : row[d].status = "FAILED" /\ InHand(d) => InHand(d)'
  <1>t. /\ slot \in [Slots -> Slot] /\ slot[s] \in Slot
        /\ slot[s].pc = "idle" => slot[s].doc = NoDocument
    BY DEF TypeInv, TypeOK, BusyHoldsDocument
  <1>s. ASSUME NEW t \in Slots, t[1] = s[1] PROVE t = s
    BY <1>s DEF Slots
  <1>1. ASSUME NEW d \in Documents, row[d].status = "FAILED", ProcessDies(s[1]),
               slot[s].pc \in {"idle", "recording"}, NEW t \in Slots, slot[t].doc = d
        PROVE  slot'[t].doc = d
    <2>1. t # s
      <3>1. d # NoDocument
        BY NoDocumentAssumption
      <3> QED
        BY <1>t, <1>1, <3>1 DEF TimelyInv, Owns
    <2> QED
      BY <1>1, <1>s, <2>1 DEF ProcessDies
  <1>2. CASE ClaimError(s)
    BY <1>1, <1>2 DEF ClaimError, InHand
  <1>3. CASE WriteError(s) /\ slot[s].pc = "recording"
    BY <1>1, <1>3 DEF WriteError, AfterException, InHand
  <1>4. CASE WriteError(s) /\ slot[s].pc # "recording" /\ ~slot[s].inCatch
    <2>1. slot' = [slot EXCEPT ![s] = [slot[s] EXCEPT !.pc = "settling", !.result = Thrown,
                                                      !.inCatch = TRUE]]
      BY <1>4 DEF WriteError, AfterException
    <2>2. \A t \in Slots : slot'[t].doc = slot[t].doc
      BY <1>t, <2>1 DEF Slot
    <2> QED
      BY <2>2 DEF InHand
  <1> QED
    BY <1>2, <1>3, <1>4

\* The step of OneErrorIsMended.
LEMMA MendStep ==
    ASSUME Timely, TypeInv, TypeInv', TimelyInv, TimelyInv', MendInv, [Next]_vars
    PROVE  MendInv'
  <1>t. /\ row \in [Documents -> Row] /\ slot \in [Slots -> Slot]
        /\ \A d \in Documents : row[d] \in Row
        /\ \A s \in Slots : slot[s] \in Slot
        /\ \A s \in Slots : slot[s].pc # "idle" <=> slot[s].doc # NoDocument
    BY DEF TypeInv, TypeOK, BusyHoldsDocument
  <1>a. "lostAnswer" \notin Faults /\ "racingRetry" \notin Faults /\ "racingSweep" \notin Faults
    BY DEF Timely
  <1>n. \A d \in Documents : d # NoDocument
    BY NoDocumentAssumption
  <1> SUFFICES ASSUME Concurrency = 1, faults' \in {<<>>, <<"dbError">>}
               PROVE  /\ \A d \in Documents : Mended(d)'
                      /\ faults' = <<>> => \A s \in Slots : ~slot'[s].inCatch
    BY DEF MendInv, FailedOnlyWhenExhausted, Mended
  <1>g. ASSUME NEW kind, Fault(kind)
        PROVE  kind = "dbError" /\ faults = <<>> /\ faults' # <<>>
    BY <1>g, FaultCounts
  <1>f. /\ faults \in {<<>>, <<"dbError">>}
        /\ faults' = faults \/ Misfortune
        /\ Misfortune => faults = <<>> /\ faults' # <<>>
    <2>1. Misfortune => faults = <<>> /\ faults' # <<>>
      BY <1>g DEF Misfortune, ClaimError, ClaimAnswerLost, WriteError, WriteAnswerLost,
                  ReclaimAnswerLost, SweepError, Crash
    <2>2. faults' = faults \/ Misfortune
      BY DEF Next, vars, createWithEvent, Clock, BackoffElapses, LeaseRunsOut, SlotStep,
             claimNext, recordClaimEvent, extract, FailBeforeRetry, Settle, ReaperStep,
             reclaimExpired, RecordReclaim, findExhaustedStaleIds, FailExhausted,
             RequestStep, CheckRetry, resetForManualRetry
    <2> QED
      BY <2>1, <2>2
  <1>i. /\ \A d \in Documents : Mended(d)
        /\ faults = <<>> => \A s \in Slots : ~slot[s].inCatch
    BY <1>f DEF MendInv, FailedOnlyWhenExhausted, Mended
  <1>b. \A d \in Documents : row'[d].attempts \in Nat /\ row'[d].attempts <= MaxAttempts
    BY DEF TypeInv, TypeOK, Row, TimelyInv, Budget
  \* The catch blocks.
  <1>1. faults' = <<>> => \A s \in Slots : ~slot'[s].inCatch
    <2> SUFFICES ASSUME faults' = <<>> PROVE \A s \in Slots : ~slot'[s].inCatch
      OBVIOUS
    <2>1. ~Misfortune /\ \A s \in Slots : ~slot[s].inCatch
      BY <1>f, <1>i
    <2>k. CASE UNCHANGED slot
      BY <2>1, <2>k
    <2>2. ASSUME NEW s \in Slots, SlotStep(s) PROVE \A o \in Slots : ~slot'[o].inCatch
      <3>0. slot[s] \in Slot
        BY <1>t
      <3>1. ASSUME NEW d \in Documents, claimNext(s, d) PROVE \A o \in Slots : ~slot'[o].inCatch
        BY <1>t, <2>1, <3>1 DEF claimNext, IdleSlot
      <3>2. CASE recordClaimEvent(s)
        BY <1>t, <2>1, <3>0, <3>2 DEF recordClaimEvent, Slot
      <3>3. CASE extract(s)
        <4>1. PICK result \in Answers :
                slot' = [slot EXCEPT ![s] = [slot[s] EXCEPT !.pc = "settling", !.result = result]]
          BY <3>3 DEF extract
        <4> QED
          BY <1>t, <2>1, <3>0, <4>1 DEF Slot
      <3>4. CASE FailBeforeRetry(s)
        BY <1>t, <2>1, <3>0, <3>4 DEF FailBeforeRetry, Slot
      <3>5. CASE Settle(s)
        BY <1>t, <2>1, <3>5 DEF Settle, IdleSlot
      <3> QED
        BY <2>2, <3>1, <3>2, <3>3, <3>4, <3>5 DEF SlotStep
    <2> QED
      BY <2>1, <2>k, <2>2
         DEF Next, vars, createWithEvent, Clock, BackoffElapses, LeaseRunsOut, ReaperStep,
             reclaimExpired, RecordReclaim, findExhaustedStaleIds, FailExhausted,
             RequestStep, CheckRetry, resetForManualRetry
  \* The documents.
  <1>k. ASSUME UNCHANGED row,
               \A d \in Documents : row[d].status = "FAILED" /\ InHand(d) => InHand(d)'
        PROVE  \A d \in Documents : Mended(d)'
    BY <1>i, <1>k, MendedKept
  <1>q. ASSUME UNCHANGED <<row, slot>> PROVE \A d \in Documents : Mended(d)'
    BY <1>k, <1>q DEF InHand
  <1>2. ASSUME NEW d \in Documents, createWithEvent(d) PROVE \A o \in Documents : Mended(o)'
    <2>1. row'[d].status = "UPLOADED" /\ \A o \in Documents : o # d => row'[o] = row[o]
      BY <1>t, <1>2 DEF createWithEvent, NoRow
    <2> QED
      BY <1>i, <1>2, <2>1, MendedKept DEF createWithEvent, InHand
  <1>3. ASSUME NEW d \in Documents, Clock(d) PROVE \A o \in Documents : Mended(o)'
    <2>1. \A o \in Documents : /\ row'[o].status = row[o].status
                               /\ row'[o].attempts = row[o].attempts
                               /\ row'[o].reason = row[o].reason
      BY <1>t, <1>3 DEF Clock, BackoffElapses, LeaseRunsOut, Row
    <2> QED
      BY <1>3, <1>i, <2>1, MendedKept DEF Clock, BackoffElapses, LeaseRunsOut, InHand
  <1>4. ASSUME NEW s \in Slots, NEW d \in Documents, claimNext(s, d)
        PROVE  \A o \in Documents : Mended(o)'
    <2>1. /\ row'[d].status = "PROCESSING" /\ slot[s].doc = NoDocument
          /\ \A o \in Documents : o # d => row'[o] = row[o]
      BY <1>t, <1>4 DEF claimNext, Claim, Row
    <2>2. \A o \in Slots : o # s => slot'[o] = slot[o]
      BY <1>t, <1>4 DEF claimNext
    <2>3. \A o \in Documents : InHand(o) => InHand(o)'
      BY <1>n, <2>1, <2>2 DEF InHand
    <2> QED
      BY <1>i, <2>1, <2>3, MendedKept
  <1>5. ASSUME NEW s \in Slots, Settle(s) \/ FailBeforeRetry(s)
        PROVE  \A o \in Documents : Mended(o)'
    <2>0. PICK d \in Documents : d = slot[s].doc
      BY <1>5, SlotWriteRows DEF Settle, FailBeforeRetry
    <2>1. /\ \A o \in Documents : o # d => row'[o] = row[o]
          /\ row'[d].attempts = slot[s].attempt
      BY <1>5, <1>n, <2>0, SlotWriteRows DEF Settle, FailBeforeRetry, TimelyInv, Owns
    <2>2. \A o \in Slots : o # s => slot'[o] = slot[o]
      BY <1>t, <1>5 DEF Settle, FailBeforeRetry
    <2>3. ASSUME NEW o \in Documents \ {d} PROVE Mended(o)'
      BY <1>i, <2>0, <2>1, <2>2, MendedKept DEF InHand
    <2>4. CASE FailBeforeRetry(s)
      <3>1. slot[s] \in Slot
        BY <1>t
      <3>2. slot'[s].doc = d
        BY <1>t, <2>0, <2>4, <3>1 DEF FailBeforeRetry, Slot
      <3> QED
        BY <2>3, <3>2 DEF Mended, AtRestFailed, InHand
    <2>5. CASE Settle(s)
      <3>1. row[d] \in Row
        BY <1>t
      <3>2. ASSUME NEW status, NEW attempt, NEW reason, NEW due, NEW data, NEW errors,
                   ApplyTransition(d, status, attempt, reason, due, data, errors)
            PROVE  row'[d].status = status /\ row'[d].reason = reason
        BY <1>t, <3>1, <3>2 DEF ApplyTransition, Row
      <3>3. row'[d].status = "FAILED" => WriteFailedTerminally(s)
        BY <2>0, <2>5, <3>2 DEF Settle, FinalWrite, WriteProcessed, WriteRejected, WriteRetryPending
      <3>4. ASSUME WriteFailedTerminally(s)
            PROVE  row'[d].reason = "ATTEMPTS_EXHAUSTED" /\ row'[d].attempts = MaxAttempts
        <4>1. row'[d].reason = "ATTEMPTS_EXHAUSTED" /\ ~(slot[s].attempt < MaxAttempts)
          BY <2>0, <3>2, <3>4 DEF WriteFailedTerminally, WillRetry
        <4> QED
          BY <1>b, <2>1, <4>1, MaxAttemptsAssumption
      <3> QED
        BY <2>3, <3>3, <3>4 DEF Mended, AtRestFailed
    <2> QED
      BY <1>5, <2>4, <2>5
  <1>6. ASSUME NEW s \in Slots, recordClaimEvent(s) \/ extract(s)
        PROVE  \A o \in Documents : Mended(o)'
    <2>0. slot[s] \in Slot
      BY <1>t
    <2>1. CASE recordClaimEvent(s)
      <3>1. \A o \in Slots : slot'[o].doc = slot[o].doc
        BY <1>t, <2>0, <2>1 DEF recordClaimEvent, Slot
      <3> QED
        BY <1>k, <2>1, <3>1 DEF recordClaimEvent, WriteClaimEvent, InHand
    <2>2. CASE extract(s)
      <3>1. PICK result \in Answers :
              slot' = [slot EXCEPT ![s] = [slot[s] EXCEPT !.pc = "settling", !.result = result]]
        BY <2>2 DEF extract
      <3>2. \A o \in Slots : slot'[o].doc = slot[o].doc
        BY <1>t, <2>0, <3>1 DEF Slot
      <3> QED
        BY <1>k, <2>2, <3>2 DEF extract, InHand
    <2> QED
      BY <1>6, <2>1, <2>2
  <1>7. ASSUME NEW w \in Workers, reclaimExpired(w) PROVE \A o \in Documents : Mended(o)'
    <2>1. ASSUME NEW o \in Documents PROVE row'[o] = row[o] \/ row'[o].status = "RETRY_PENDING"
      <3>1. row[o] \in Row
        BY <1>t
      <3> QED
        BY <1>7, <3>1 DEF reclaimExpired, ReclaimRows, Row
    <2> QED
      BY <1>7, <1>i, <2>1, MendedKept DEF reclaimExpired, InHand
  <1>8. ASSUME NEW w \in Workers, NEW d \in Documents, FailExhausted(w, d)
        PROVE  \A o \in Documents : Mended(o)'
    <2>1. /\ row'[d].reason = "ATTEMPTS_EXHAUSTED" /\ row'[d].attempts = row[d].attempts
          /\ \A o \in Documents : o # d => row'[o] = row[o]
          /\ UNCHANGED slot
      BY <1>t, <1>8 DEF FailExhausted, ApplyTransition, Row
    <2>2. row'[d].attempts = MaxAttempts
      <3>1. row[d].attempts >= MaxAttempts \/ AtRestFailed(d)
        BY <1>a, <1>8 DEF FailExhausted, Exhausted
      <3> QED
        BY <1>b, <1>i, <2>1, <3>1, MaxAttemptsAssumption DEF Mended
    <2>3. Mended(d)'
      BY <2>1, <2>2 DEF Mended
    <2>4. \A o \in Documents \ {d} : Mended(o)'
      BY <1>i, <2>1, MendedKept DEF InHand
    <2> QED
      BY <2>3, <2>4
  <1>9. ASSUME NEW q \in Requests, resetForManualRetry(q) PROVE \A o \in Documents : Mended(o)'
    <2>1. PICK d \in Documents : d = request[q].doc
      BY <1>9 DEF resetForManualRetry, TypeInv, RequestHoldsDocument
    <2>2. /\ row'[d].status = "RETRY_PENDING"
          /\ \A o \in Documents : o # d => row'[o] = row[o]
          /\ UNCHANGED slot
      BY <1>t, <1>9, <2>1 DEF resetForManualRetry, Row
    <2> QED
      BY <1>i, <2>2, MendedKept DEF InHand
  <1>10. ASSUME Misfortune PROVE \A o \in Documents : Mended(o)'
    <2>1. \A s \in Slots : ~slot[s].inCatch
      BY <1>f, <1>i, <1>10
    <2>2. \A kind : Fault(kind) => kind = "dbError"
      BY <1>g
    <2>3. ASSUME NEW s \in Slots, WriteError(s) \/ ClaimError(s)
          PROVE  \A o \in Documents : Mended(o)'
      BY <1>k, <2>1, <2>3, ErrorKeepsHold DEF WriteError, ClaimError
    <2>4. ASSUME NEW w \in Workers, SweepError(w) PROVE \A o \in Documents : Mended(o)'
      BY <1>q, <2>4 DEF SweepError
    <2> QED
      BY <1>10, <2>2, <2>3, <2>4
         DEF Misfortune, ClaimAnswerLost, WriteAnswerLost, ReclaimAnswerLost, Crash
  <1>11. \A d \in Documents : Mended(d)'
    BY <1>q, <1>2, <1>3, <1>4, <1>5, <1>6, <1>7, <1>8, <1>9, <1>10
       DEF Next, vars, SlotStep, ReaperStep, RecordReclaim, findExhaustedStaleIds,
           RequestStep, CheckRetry
  <1> QED
    BY <1>1, <1>11

\* With one slot to a process, one failed database call strands no document: the
\* catch block of processNextDocument settles the attempt it hits, and the reaper
\* finds a claim it cut short.
THEOREM OneErrorMended ==
    ASSUME Timely
    PROVE  Spec => []OneErrorIsMended
<1>1. Init => MendInv
  BY DEF Init, MendInv, FailedOnlyWhenExhausted, AtRestFailed, NoRow, IdleSlot, Absent
<1>2. TypeInv /\ TypeInv' /\ TimelyInv /\ TimelyInv' /\ MendInv /\ [Next]_vars => MendInv'
  BY MendStep
<1>3. MendInv => OneErrorIsMended
  BY DEF MendInv, OneErrorIsMended
<1>4. QED
  BY <1>1, <1>2, <1>3, TypeCorrect, TimelyCorrect, PTL DEF Spec

-----------------------------------------------------------------------------
(* An attempt whose row rests in FAILED is between its two writes.         *)

\* Unless a database call failed: the catch block then settles a row that may be
\* FAILED already.
BetweenWrites(s) ==
    slot[s].doc # NoDocument /\ row[slot[s].doc].status = "FAILED" => slot[s].pc = "scheduling"

\* A slot that stays as it is, or is freed, while its row does not come to FAILED.
LEMMA BetweenKept ==
    ASSUME \A s \in Slots : BetweenWrites(s),
           \A s \in Slots :
             \/ slot'[s].doc = NoDocument
             \/ slot'[s] = slot[s] /\ (slot[s].doc # NoDocument =>
                  (row'[slot[s].doc].status = "FAILED" => row[slot[s].doc].status = "FAILED"))
    PROVE  \A s \in Slots : BetweenWrites(s)'
  BY DEF BetweenWrites

\* Rows move under attempts only by the attempts' own writes.
LEMMA BetweenStep ==
    ASSUME Timely, "dbError" \notin Faults, TypeInv, TimelyInv,
           \A s \in Slots : BetweenWrites(s), [Next]_vars
    PROVE  \A s \in Slots : BetweenWrites(s)'
  <1>t. /\ row \in [Documents -> Row] /\ slot \in [Slots -> Slot]
        /\ \A s \in Slots : slot[s] \in Slot
        /\ \A s \in Slots : slot[s].pc # "idle" <=> slot[s].doc # NoDocument
        /\ \A d \in Documents : row[d] \in Row
    BY DEF TypeInv, TypeOK, BusyHoldsDocument
  <1>f. /\ "lostAnswer" \notin Faults
        /\ "racingRetry" \notin Faults /\ "racingSweep" \notin Faults
    BY DEF Timely
  <1>o. \A s \in Slots : slot[s].doc # NoDocument =>
          slot[s].doc \in Documents /\ InHand(slot[s].doc) /\ Owns(s)
    BY <1>t DEF TimelyInv, InHand, Slot
  \* The frame: the slots stay, and no held row comes to FAILED.
  <1>k. ASSUME UNCHANGED slot,
               \A d \in Documents : InHand(d) =>
                 (row'[d].status = "FAILED" => row[d].status = "FAILED")
        PROVE  \A s \in Slots : BetweenWrites(s)'
    BY <1>k, <1>o, BetweenKept
  <1>q. ASSUME UNCHANGED <<row, slot>> PROVE \A s \in Slots : BetweenWrites(s)'
    BY <1>k, <1>q
  <1>1. CASE UNCHANGED vars
    BY <1>1, <1>q DEF vars
  <1>2. ASSUME NEW d \in Documents, createWithEvent(d)
        PROVE  \A s \in Slots : BetweenWrites(s)'
    BY <1>t, <1>2, <1>k DEF createWithEvent, NoRow
  <1>3. ASSUME NEW d \in Documents, Clock(d)
        PROVE  \A s \in Slots : BetweenWrites(s)'
    <2>1. \A o \in Documents : row'[o].status = row[o].status
      BY <1>t, <1>3 DEF Clock, BackoffElapses, LeaseRunsOut, Row
    <2> QED
      BY <1>3, <1>k, <2>1 DEF Clock, BackoffElapses, LeaseRunsOut
  <1>4. ASSUME NEW s \in Slots, NEW d \in Documents, claimNext(s, d)
        PROVE  \A o \in Slots : BetweenWrites(o)'
    <2>1. /\ row'[d].status = "PROCESSING" /\ slot'[s].doc = d
          /\ \A e \in Documents \ {d} : row'[e] = row[e]
          /\ \A o \in Slots \ {s} : slot'[o] = slot[o]
      BY <1>t, <1>4 DEF claimNext, Claim, Row, IdleSlot
    <2>2. ASSUME NEW o \in Slots PROVE BetweenWrites(o)'
      <3>1. CASE o = s
        BY <2>1, <3>1 DEF BetweenWrites
      <3>2. CASE o # s
        <4>1. slot'[o] = slot[o] /\ BetweenWrites(o)
          BY <2>1, <3>2
        <4>2. slot[o].doc # NoDocument => slot[o].doc \in Documents
          BY <1>o
        <4> QED
          BY <2>1, <4>1, <4>2 DEF BetweenWrites
      <3> QED
        BY <3>1, <3>2
    <2> QED
      BY <2>2
  <1>5. ASSUME NEW s \in Slots, recordClaimEvent(s) \/ extract(s)
        PROVE  \A o \in Slots : BetweenWrites(o)'
    <2>1. UNCHANGED row /\ slot[s].pc \in {"recording", "extracting"}
      BY <1>5 DEF recordClaimEvent, WriteClaimEvent, extract
    <2>2. slot[s].doc # NoDocument /\ row[slot[s].doc].status # "FAILED"
      BY <1>t, <2>1 DEF BetweenWrites
    <2>3. slot'[s].doc = slot[s].doc /\ \A o \in Slots \ {s} : slot'[o] = slot[o]
      <3>0. slot[s] \in Slot
        BY <1>t
      <3>1. CASE recordClaimEvent(s)
        BY <1>t, <3>0, <3>1 DEF recordClaimEvent, Slot
      <3>2. CASE extract(s)
        <4>1. PICK result \in Answers :
                slot' = [slot EXCEPT ![s] = [slot[s] EXCEPT !.pc = "settling",
                                                            !.result = result]]
          BY <3>2 DEF extract
        <4> QED
          BY <1>t, <3>0, <4>1 DEF Slot
      <3> QED
        BY <1>5, <3>1, <3>2
    <2> QED
      BY <2>1, <2>2, <2>3 DEF BetweenWrites
  <1>6. ASSUME NEW s \in Slots, Settle(s) \/ FailBeforeRetry(s)
        PROVE  \A o \in Slots : BetweenWrites(o)'
    <2>1. FinalWrite(s) \/ WriteFailedBeforeRetry(s)
      BY <1>6 DEF Settle, FailBeforeRetry
    <2>2. slot[s].doc \in Documents /\ \A o \in Documents : o # slot[s].doc => row'[o] = row[o]
      BY <2>1, SlotWriteRows
    <2>3. /\ slot'[s].doc = NoDocument \/ slot'[s].pc = "scheduling"
          /\ \A o \in Slots \ {s} : slot'[o] = slot[o]
      BY <1>t, <1>6 DEF Settle, FailBeforeRetry, IdleSlot, Slot
    <2>4. ASSUME NEW o \in Slots PROVE BetweenWrites(o)'
      <3>1. CASE o = s
        BY <2>3, <3>1 DEF BetweenWrites
      <3>2. CASE o # s
        <4>1. slot'[o] = slot[o] /\ BetweenWrites(o)
          BY <2>3, <3>2
        <4>2. slot[o].doc # NoDocument =>
                slot[o].doc \in Documents /\ slot[o].doc # slot[s].doc
          BY <1>o, <2>2, <3>2, NoDocumentAssumption DEF TimelyInv, OneAttemptAtATime
        <4> QED
          BY <2>2, <4>1, <4>2 DEF BetweenWrites
      <3> QED
        BY <3>1, <3>2
    <2> QED
      BY <2>4
  <1>7. ASSUME NEW w \in Workers, ReaperStep(w)
        PROVE  \A s \in Slots : BetweenWrites(s)'
    <2>1. CASE reclaimExpired(w)
      <3>1. \A d \in Documents : row'[d].status = "FAILED" => row[d].status = "FAILED"
        BY <1>t, <2>1 DEF reclaimExpired, ReclaimRows, Row
      <3> QED
        BY <1>k, <2>1, <3>1 DEF reclaimExpired
    <2>2. ASSUME NEW d \in Documents, FailExhausted(w, d)
          PROVE  \A s \in Slots : BetweenWrites(s)'
      <3>1. ~InHand(d)
        BY <1>f, <2>2, FreeRows DEF FailExhausted, Exhausted, LeaseExpired
      <3>2. \A o \in Documents : o # d => row'[o] = row[o]
        BY <1>t, <2>2 DEF FailExhausted, ApplyTransition
      <3>3. UNCHANGED slot
        BY <2>2 DEF FailExhausted
      <3> QED
        BY <1>k, <3>1, <3>2, <3>3
    <2> QED
      BY <1>7, <1>q, <2>1, <2>2 DEF ReaperStep, RecordReclaim, findExhaustedStaleIds
  <1>8. ASSUME NEW q \in Requests, RequestStep(q)
        PROVE  \A s \in Slots : BetweenWrites(s)'
    <2>1. CASE resetForManualRetry(q)
      <3>1. \A d \in Documents : row'[d].status = "FAILED" => row[d].status = "FAILED"
        BY <1>t, <2>1 DEF resetForManualRetry, Row
      <3> QED
        BY <1>k, <2>1, <3>1 DEF resetForManualRetry
    <2> QED
      BY <1>8, <1>q, <2>1 DEF RequestStep, CheckRetry
  <1>9. CASE Misfortune
    <2>1. \E w \in Workers : Crash(w)
      BY <1>f, <1>9 DEF Misfortune, Fault, ClaimError, ClaimAnswerLost, WriteError,
                        WriteAnswerLost, ReclaimAnswerLost, SweepError
    <2>2. /\ \A s \in Slots : slot'[s].doc = NoDocument \/ slot'[s] = slot[s]
          /\ UNCHANGED row
      BY <2>1 DEF Crash, ProcessDies, IdleSlot
    <2> QED
      BY <2>2, BetweenKept
  <1> QED
    BY <1>1, <1>2, <1>3, <1>4, <1>5, <1>6, <1>7, <1>8, <1>9 DEF Next, SlotStep

\* As long as no database call fails, a failure in hand is one whose retry is about to
\* be scheduled.
THEOREM FailuresInHand ==
    ASSUME Timely, "dbError" \notin Faults
    PROVE  Spec => [](\A s \in Slots : BetweenWrites(s))
<1>1. Init => \A s \in Slots : BetweenWrites(s)
  BY DEF Init, IdleSlot, BetweenWrites
<1>2. TypeInv /\ TimelyInv /\ (\A s \in Slots : BetweenWrites(s)) /\ [Next]_vars =>
        (\A s \in Slots : BetweenWrites(s))'
  <2> SUFFICES ASSUME TypeInv, TimelyInv, \A s \in Slots : BetweenWrites(s), [Next]_vars
               PROVE  \A s \in Slots : BetweenWrites(s)'
    OBVIOUS
  <2> QED
    BY BetweenStep
<1> QED
  BY <1>1, <1>2, TypeCorrect, TimelyCorrect, PTL DEF Spec

=============================================================================
