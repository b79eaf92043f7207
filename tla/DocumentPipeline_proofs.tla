------------------------ MODULE DocumentPipeline_proofs ------------------------
(***************************************************************************)
(* Theorems about DocumentPipeline for every set of documents, workers and *)
(* requests, every budget and every bound.                                 *)
(***************************************************************************)
EXTENDS DocumentPipeline, TLAPS

-----------------------------------------------------------------------------
(* What the two writers of events and rows do to the types.                *)

LEMMA RecordType ==
    ASSUME history \in [Documents -> Seq(Event)],
           NEW d \in Documents, NEW status \in Statuses,
           NEW attempt \in Nat \cup {NoAttempt}, NEW reason \in Reasons \cup {Null},
           Record(d, status, attempt, reason)
    PROVE  history' \in [Documents -> Seq(Event)]
  <1> DEFINE e == [status |-> status, attempt |-> attempt, reason |-> reason]
  <1>1. e \in Event
    BY DEF Event
  <1>2. Append(history[d], e) \in Seq(Event)
    BY <1>1
  <1>3. history' = [history EXCEPT ![d] = Append(history[d], e)]
    BY DEF Record
  <1> HIDE DEF e
  <1> QED
    BY <1>2, <1>3

LEMMA ApplyTransitionType ==
    ASSUME row \in [Documents -> Row], history \in [Documents -> Seq(Event)],
           NEW d \in Documents, NEW status \in Statuses, NEW attempt \in Nat,
           NEW reason \in Reasons \cup {Null}, NEW due \in {Null, "future", "due"},
           NEW data \in {"valid", "invalid", Keep},
           NEW errors \in {Null, "issues", Keep},
           ApplyTransition(d, status, attempt, reason, due, data, errors)
    PROVE  row' \in [Documents -> Row] /\ history' \in [Documents -> Seq(Event)]
  <1> DEFINE r == [row[d] EXCEPT !.status = status, !.due = due, !.lease = Null,
                                 !.reason = reason,
                                 !.data = Written(row[d].data, data),
                                 !.errors = Written(row[d].errors, errors)]
  <1>a. row[d] \in Row
    OBVIOUS
  <1>b. Written(row[d].data, data) \in {Null, "valid", "invalid"}
    BY <1>a DEF Row, Written
  <1>c. Written(row[d].errors, errors) \in {Null, "issues"}
    BY <1>a DEF Row, Written
  <1>d. r \in Row
    BY <1>a, <1>b, <1>c DEF Row
  <1>1. row' \in [Documents -> Row]
    BY <1>d DEF ApplyTransition
  <1>2. history' \in [Documents -> Seq(Event)]
    BY RecordType DEF ApplyTransition
  <1> QED
    BY <1>1, <1>2

-----------------------------------------------------------------------------
(* Type correctness.  A slot that is not idle holds a document, without    *)
(* which its writes would have no row.                                     *)

BusyHoldsDocument == \A s \in Slots : slot[s].pc # "idle" <=> slot[s].doc # NoDocument

RequestHoldsDocument == \A q \in Requests : request[q].pc # "new" => request[q].doc \in Documents

TypeInv == TypeOK /\ BusyHoldsDocument /\ RequestHoldsDocument

LEMMA IdleSlotType == IdleSlot \in Slot
  BY DEF IdleSlot, Slot

LEMMA IdleReaperType == IdleReaper \in Reaper
  BY DEF IdleReaper, Reaper

LEMMA ClaimType ==
    ASSUME TypeOK, NEW d \in Documents, Claim(d)
    PROVE  row' \in [Documents -> Row]
  <1> DEFINE r == [row[d] EXCEPT !.status = "PROCESSING", !.lease = "fresh",
                                 !.attempts = row[d].attempts + 1]
  <1>1. row[d] \in Row
    BY DEF TypeOK
  <1>2. row[d].attempts + 1 \in Nat
    BY <1>1 DEF Row
  <1>3. r \in Row
    BY <1>1, <1>2 DEF Row, Statuses
  <1> QED
    BY <1>3 DEF Claim, TypeOK

LEMMA SlotWriteType ==
    ASSUME TypeInv, NEW s \in Slots,
           WriteClaimEvent(s) \/ FinalWrite(s) \/ WriteFailedBeforeRetry(s)
    PROVE  row' \in [Documents -> Row] /\ history' \in [Documents -> Seq(Event)]
  <1> DEFINE d == slot[s].doc
             a == slot[s].attempt
  <1>1. slot[s].pc # "idle"
    BY DEF WriteClaimEvent, FinalWrite, WriteFailedBeforeRetry, WriteProcessed,
           WriteRejected, WriteFailedTerminally, WriteRetryPending
  <1>2. d \in Documents /\ a \in Nat
    BY <1>1 DEF TypeInv, TypeOK, BusyHoldsDocument, Slot
  <1>3. row \in [Documents -> Row] /\ history \in [Documents -> Seq(Event)]
    BY DEF TypeInv, TypeOK
  <1>4. CASE WriteClaimEvent(s)
    <2>1. Record(d, "PROCESSING", a, Null) /\ row' = row
      BY <1>4 DEF WriteClaimEvent
    <2> QED
      BY <2>1, <1>2, <1>3, RecordType DEF Statuses
  <1>5. ASSUME NEW status \in Statuses, NEW reason \in Reasons \cup {Null},
               NEW due \in {Null, "future", "due"},
               NEW data \in {"valid", "invalid", Keep}, NEW errors \in {Null, "issues", Keep},
               ApplyTransition(d, status, a, reason, due, data, errors)
        PROVE  row' \in [Documents -> Row] /\ history' \in [Documents -> Seq(Event)]
    BY <1>2, <1>3, <1>5, ApplyTransitionType
  <1>6. ClassifiedReason(slot[s].result) \in Reasons
    BY DEF ClassifiedReason, Reasons
  <1>7. CASE WriteProcessed(s)
    BY <1>5, <1>7 DEF WriteProcessed, Statuses
  <1>8. CASE WriteRejected(s)
    BY <1>5, <1>8 DEF WriteRejected, Statuses, Reasons
  <1>9. CASE WriteFailedTerminally(s)
    BY <1>5, <1>9 DEF WriteFailedTerminally, Statuses, Reasons
  <1>10. CASE WriteRetryPending(s)
    BY <1>5, <1>6, <1>10 DEF WriteRetryPending, Statuses
  <1>11. CASE WriteFailedBeforeRetry(s)
    BY <1>5, <1>6, <1>11 DEF WriteFailedBeforeRetry, Statuses
  <1> QED
    BY <1>4, <1>7, <1>8, <1>9, <1>10, <1>11 DEF FinalWrite

LEMMA ReclaimRowsType ==
    ASSUME TypeOK, ReclaimRows
    PROVE  row' \in [Documents -> Row]
  <1>1. ASSUME NEW d \in Documents
        PROVE  [row[d] EXCEPT !.status = "RETRY_PENDING", !.lease = Null, !.due = "due"] \in Row
    <2>1. row[d] \in Row
      BY DEF TypeOK
    <2> QED
      BY <2>1 DEF Row, Statuses
  <1> QED
    BY <1>1 DEF ReclaimRows, TypeOK

LEMMA ProcessDiesType ==
    ASSUME TypeInv, NEW w, ProcessDies(w)
    PROVE  /\ slot' \in [Slots -> Slot]
           /\ reaper' \in [Workers -> Reaper]
           /\ BusyHoldsDocument'
  <1>1. slot' \in [Slots -> Slot] /\ reaper' \in [Workers -> Reaper]
    BY IdleSlotType, IdleReaperType DEF ProcessDies, TypeInv, TypeOK
  <1>2. \A s \in Slots : slot'[s] = slot[s] \/ slot'[s] = IdleSlot
    BY DEF ProcessDies
  <1>3. BusyHoldsDocument'
    BY <1>2 DEF TypeInv, BusyHoldsDocument, IdleSlot
  <1> QED
    BY <1>1, <1>3

LEMMA AfterExceptionType ==
    ASSUME TypeInv, NEW s \in Slots, slot[s].pc # "idle", AfterException(s)
    PROVE  /\ slot' \in [Slots -> Slot]
           /\ reaper' \in [Workers -> Reaper]
           /\ BusyHoldsDocument'
  <1> DEFINE caught == [slot[s] EXCEPT !.pc = "settling", !.result = Thrown, !.inCatch = TRUE]
  <1>1. slot[s] \in Slot /\ slot[s].doc # NoDocument
    BY DEF TypeInv, TypeOK, BusyHoldsDocument
  <1>2. caught \in Slot /\ caught.pc = "settling" /\ caught.doc = slot[s].doc
    BY <1>1 DEF Slot, Results, Thrown
  <1>3. CASE slot[s].pc = "recording"
    BY <1>3, ProcessDiesType DEF AfterException
  <1>4. CASE slot[s].pc # "recording"
    <2>1. /\ \/ slot' = [slot EXCEPT ![s] = IdleSlot]
             \/ slot' = [slot EXCEPT ![s] = caught]
          /\ reaper' = reaper
      BY <1>4 DEF AfterException
    <2> HIDE DEF caught
    <2>2. slot' \in [Slots -> Slot] /\ reaper' \in [Workers -> Reaper]
      BY <1>2, <2>1, IdleSlotType DEF TypeInv, TypeOK
    <2>3. BusyHoldsDocument'
      BY <1>1, <1>2, <2>1 DEF TypeInv, TypeOK, BusyHoldsDocument, IdleSlot
    <2> QED
      BY <2>2, <2>3
  <1> QED
    BY <1>3, <1>4

THEOREM TypeCorrect == Spec => []TypeInv
<1>1. Init => TypeInv
  <2> SUFFICES ASSUME Init PROVE TypeInv
    OBVIOUS
  <2>1. NoRow \in Row
    BY DEF NoRow, Row
  <2>2. TypeOK
    BY <2>1, IdleSlotType, IdleReaperType DEF Init, TypeOK, Request
  <2>3. BusyHoldsDocument /\ RequestHoldsDocument
    BY DEF Init, BusyHoldsDocument, RequestHoldsDocument, IdleSlot
  <2> QED
    BY <2>2, <2>3 DEF TypeInv
<1>2. TypeInv /\ [Next]_vars => TypeInv'
  <2> SUFFICES ASSUME TypeInv, [Next]_vars PROVE TypeInv'
    OBVIOUS
  <2> USE DEF TypeInv
  <2>1. CASE UNCHANGED vars
    BY <2>1 DEF vars, TypeOK, BusyHoldsDocument, RequestHoldsDocument
  <2>2. ASSUME NEW d \in Documents, createWithEvent(d) PROVE TypeInv'
    <3>1. [NoRow EXCEPT !.status = "UPLOADED", !.due = "due"] \in Row
      BY DEF NoRow, Row, Statuses
    <3>2. row' \in [Documents -> Row]
      BY <2>2, <3>1 DEF createWithEvent, TypeOK
    <3>3. history' \in [Documents -> Seq(Event)]
      BY <2>2, RecordType DEF createWithEvent, TypeOK, Statuses
    <3> QED
      BY <2>2, <3>2, <3>3 DEF createWithEvent, TypeOK, BusyHoldsDocument, RequestHoldsDocument
  <2>3. ASSUME NEW d \in Documents, Clock(d) PROVE TypeInv'
    <3>1. row[d] \in Row
      BY DEF TypeOK
    <3>a. /\ [row[d] EXCEPT !.due = "due"] \in Row
          /\ [row[d] EXCEPT !.lease = "expired"] \in Row
      BY <3>1 DEF Row
    <3>2. row' \in [Documents -> Row]
      BY <2>3, <3>a DEF Clock, BackoffElapses, LeaseRunsOut, TypeOK
    <3> QED
      BY <2>3, <3>2 DEF Clock, BackoffElapses, LeaseRunsOut, TypeOK, BusyHoldsDocument,
                        RequestHoldsDocument
  <2>4. ASSUME NEW s \in Slots, NEW d \in Documents, claimNext(s, d) PROVE TypeInv'
    <3>1. row' \in [Documents -> Row]
      BY <2>4, ClaimType DEF claimNext
    <3>2. row[d].attempts + 1 \in Nat
      BY DEF TypeOK, Row
    <3> DEFINE claimed == [IdleSlot EXCEPT !.pc = "recording", !.doc = d,
                                           !.attempt = row[d].attempts + 1]
    <3>3. claimed \in Slot /\ claimed.pc = "recording" /\ claimed.doc = d
      BY <3>2 DEF IdleSlot, Slot
    <3>4. slot' = [slot EXCEPT ![s] = claimed]
      BY <2>4 DEF claimNext
    <3>5. d # NoDocument
      BY NoDocumentAssumption
    <3> HIDE DEF claimed
    <3> QED
      BY <2>4, <3>1, <3>3, <3>4, <3>5 DEF claimNext, Claim, TypeOK, BusyHoldsDocument,
                                          RequestHoldsDocument
  <2>5. ASSUME NEW s \in Slots, recordClaimEvent(s) PROVE TypeInv'
    <3>1. history' \in [Documents -> Seq(Event)] /\ row' \in [Documents -> Row]
      BY <2>5, SlotWriteType DEF recordClaimEvent
    <3>2. slot[s] \in Slot /\ slot[s].doc # NoDocument
      BY <2>5 DEF recordClaimEvent, WriteClaimEvent, TypeOK, BusyHoldsDocument
    <3>3. slot' \in [Slots -> Slot]
      BY <2>5, <3>2 DEF recordClaimEvent, TypeOK, Slot
    <3>4. BusyHoldsDocument'
      BY <2>5, <3>2 DEF recordClaimEvent, TypeOK, BusyHoldsDocument, Slot
    <3> QED
      BY <2>5, <3>1, <3>3, <3>4 DEF recordClaimEvent, TypeOK, RequestHoldsDocument
  <2>6. ASSUME NEW s \in Slots, extract(s) PROVE TypeInv'
    <3>1. slot[s] \in Slot /\ slot[s].doc # NoDocument
      BY <2>6 DEF extract, TypeOK, BusyHoldsDocument
    <3>a. PICK result \in Answers :
            slot' = [slot EXCEPT ![s] = [slot[s] EXCEPT !.pc = "settling", !.result = result]]
      BY <2>6 DEF extract
    <3>b. [slot[s] EXCEPT !.pc = "settling", !.result = result] \in Slot
      BY <3>1, <3>a, AnswersAssumption DEF Slot
    <3>2. slot' \in [Slots -> Slot]
      BY <3>a, <3>b DEF TypeOK
    <3>3. BusyHoldsDocument'
      BY <2>6, <3>1 DEF extract, TypeOK, BusyHoldsDocument, Slot
    <3> QED
      BY <2>6, <3>2, <3>3 DEF extract, TypeOK, RequestHoldsDocument
  <2>7. ASSUME NEW s \in Slots, FailBeforeRetry(s) PROVE TypeInv'
    <3>1. history' \in [Documents -> Seq(Event)] /\ row' \in [Documents -> Row]
      BY <2>7, SlotWriteType DEF FailBeforeRetry
    <3>2. slot[s] \in Slot /\ slot[s].doc # NoDocument
      BY <2>7 DEF FailBeforeRetry, WriteFailedBeforeRetry, TypeOK, BusyHoldsDocument
    <3>3. slot' \in [Slots -> Slot]
      BY <2>7, <3>2 DEF FailBeforeRetry, TypeOK, Slot
    <3>4. BusyHoldsDocument'
      BY <2>7, <3>2 DEF FailBeforeRetry, TypeOK, BusyHoldsDocument, Slot
    <3> QED
      BY <2>7, <3>1, <3>3, <3>4 DEF FailBeforeRetry, TypeOK, RequestHoldsDocument
  <2>8. ASSUME NEW s \in Slots, Settle(s) PROVE TypeInv'
    <3>1. history' \in [Documents -> Seq(Event)] /\ row' \in [Documents -> Row]
      BY <2>8, SlotWriteType DEF Settle
    <3>2. slot' \in [Slots -> Slot]
      BY <2>8, IdleSlotType DEF Settle, TypeOK
    <3>3. BusyHoldsDocument'
      BY <2>8 DEF Settle, TypeOK, BusyHoldsDocument, IdleSlot
    <3> QED
      BY <2>8, <3>1, <3>2, <3>3 DEF Settle, TypeOK, RequestHoldsDocument
  <2>9. ASSUME NEW w \in Workers, ReaperStep(w) PROVE TypeInv'
    <3>1. CASE reclaimExpired(w)
      <4>1. [IdleReaper EXCEPT !.pc = "recording",
               !.reclaimed = {d \in Documents : Reclaimable(d)}] \in Reaper
        BY DEF IdleReaper, Reaper
      <4>2. reaper' \in [Workers -> Reaper]
        BY <3>1, <4>1 DEF reclaimExpired, TypeOK
      <4>3. row' \in [Documents -> Row]
        BY <3>1, ReclaimRowsType DEF reclaimExpired
      <4> QED
        BY <3>1, <4>2, <4>3 DEF reclaimExpired, TypeOK, BusyHoldsDocument, RequestHoldsDocument
    <3>2. ASSUME NEW d \in Documents, RecordReclaim(w, d) PROVE TypeInv'
      <4>1. [reaper[w] EXCEPT !.reclaimed = reaper[w].reclaimed \ {d}] \in Reaper
        BY DEF TypeOK, Reaper
      <4>2. reaper' \in [Workers -> Reaper]
        BY <3>2, <4>1 DEF RecordReclaim, TypeOK
      <4>3. history' \in [Documents -> Seq(Event)]
        BY <3>2, RecordType DEF RecordReclaim, TypeOK, Statuses, Reasons
      <4> QED
        BY <3>2, <4>2, <4>3 DEF RecordReclaim, TypeOK, BusyHoldsDocument, RequestHoldsDocument
    <3>3. CASE findExhaustedStaleIds(w)
      <4>1. [IdleReaper EXCEPT !.pc = "failing",
               !.exhausted = {d \in Documents : Exhausted(d)}] \in Reaper
        BY DEF IdleReaper, Reaper
      <4>2. reaper' \in [Workers -> Reaper]
        BY <3>3, <4>1, IdleReaperType DEF findExhaustedStaleIds, TypeOK
      <4> QED
        BY <3>3, <4>2 DEF findExhaustedStaleIds, TypeOK, BusyHoldsDocument, RequestHoldsDocument
    <3>4. ASSUME NEW d \in Documents, FailExhausted(w, d) PROVE TypeInv'
      <4>1. [reaper[w] EXCEPT !.exhausted = reaper[w].exhausted \ {d}] \in Reaper
        BY DEF TypeOK, Reaper
      <4>2. reaper' \in [Workers -> Reaper]
        BY <3>4, <4>1, IdleReaperType DEF FailExhausted, TypeOK
      <4>3. row' \in [Documents -> Row] /\ history' \in [Documents -> Seq(Event)]
        BY <3>4, ApplyTransitionType, MaxAttemptsAssumption
           DEF FailExhausted, TypeOK, Statuses, Reasons
      <4> QED
        BY <3>4, <4>2, <4>3 DEF FailExhausted, TypeOK, BusyHoldsDocument, RequestHoldsDocument
    <3> QED
      BY <2>9, <3>1, <3>2, <3>3, <3>4 DEF ReaperStep
  <2>10. ASSUME NEW q \in Requests, RequestStep(q) PROVE TypeInv'
    <3>1. ASSUME NEW d \in Documents, CheckRetry(q, d) PROVE TypeInv'
      <4>1. request' \in [Requests -> Request]
        BY <3>1 DEF CheckRetry, TypeOK, Request
      <4> QED
        BY <3>1, <4>1 DEF CheckRetry, TypeOK, BusyHoldsDocument, RequestHoldsDocument
    <3>2. CASE resetForManualRetry(q)
      <4> DEFINE d == request[q].doc
                 r == [row[d] EXCEPT !.status = "RETRY_PENDING", !.attempts = 0,
                                     !.reason = Null, !.errors = Null,
                                     !.due = "due", !.lease = Null]
      <4>1. d \in Documents
        BY <3>2 DEF resetForManualRetry, RequestHoldsDocument
      <4>2. row[d] \in Row
        BY <4>1 DEF TypeOK
      <4>3. r \in Row
        BY <4>2 DEF Row, Statuses
      <4>4. row' = [row EXCEPT ![d] = r]
        BY <3>2 DEF resetForManualRetry
      <4>5. row' \in [Documents -> Row]
        BY <4>3, <4>4 DEF TypeOK
      <4>6. history' \in [Documents -> Seq(Event)]
        BY <3>2, <4>1, RecordType DEF resetForManualRetry, TypeOK, Statuses, Reasons
      <4>7. [request[q] EXCEPT !.pc = "done"] \in Request
        BY DEF TypeOK, Request
      <4>8. request' \in [Requests -> Request] /\ RequestHoldsDocument'
        BY <3>2, <4>1, <4>7 DEF resetForManualRetry, TypeOK, RequestHoldsDocument, Request
      <4> QED
        BY <3>2, <4>5, <4>6, <4>8 DEF resetForManualRetry, TypeOK, BusyHoldsDocument
    <3> QED
      BY <2>10, <3>1, <3>2 DEF RequestStep
  <2>11. CASE Misfortune
    <3>f. ASSUME NEW kind, Fault(kind) PROVE faults' \in Seq(FaultKinds)
      BY <3>f, FaultsAssumption DEF Fault, TypeOK
    <3>1. ASSUME NEW s \in Slots, NEW d \in Documents, ClaimAnswerLost(s, d) PROVE TypeInv'
      BY <3>1, <3>f, ClaimType, ProcessDiesType
         DEF ClaimAnswerLost, Claim, TypeOK, RequestHoldsDocument
    <3>2. ASSUME NEW s \in Slots, WriteError(s) PROVE TypeInv'
      BY <3>2, <3>f, AfterExceptionType
         DEF WriteError, WritingPCs, TypeOK, RequestHoldsDocument
    <3>3. ASSUME NEW s \in Slots, WriteAnswerLost(s) PROVE TypeInv'
      <4>1. slot[s].pc # "idle"
        BY <3>3 DEF WriteAnswerLost, WriteClaimEvent, FinalWrite, WriteFailedBeforeRetry,
                    WriteProcessed, WriteRejected, WriteFailedTerminally, WriteRetryPending
      <4> QED
        BY <3>3, <3>f, <4>1, AfterExceptionType, SlotWriteType
           DEF WriteAnswerLost, TypeOK, RequestHoldsDocument
    <3>4. ASSUME NEW w \in Workers, ReclaimAnswerLost(w) PROVE TypeInv'
      BY <3>4, <3>f, ReclaimRowsType
         DEF ReclaimAnswerLost, TypeOK, BusyHoldsDocument, RequestHoldsDocument
    <3>5. ASSUME NEW w \in Workers, SweepError(w) PROVE TypeInv'
      BY <3>5, <3>f, IdleReaperType
         DEF SweepError, TypeOK, BusyHoldsDocument, RequestHoldsDocument
    <3>6. ASSUME NEW w \in Workers, Crash(w) PROVE TypeInv'
      BY <3>6, <3>f, ProcessDiesType
         DEF Crash, TypeOK, RequestHoldsDocument
    <3>7. ASSUME NEW s \in Slots, ClaimError(s) PROVE TypeInv'
      BY <3>7, <3>f, ProcessDiesType DEF ClaimError, TypeOK, RequestHoldsDocument
    <3> QED
      BY <2>11, <3>1, <3>2, <3>3, <3>4, <3>5, <3>6, <3>7 DEF Misfortune
  <2> QED
    BY <2>1, <2>2, <2>3, <2>4, <2>5, <2>6, <2>7, <2>8, <2>9, <2>10, <2>11 DEF Next, SlotStep
<1>3. QED
  BY <1>1, <1>2, PTL DEF Spec

\* Every variable keeps its type, for every instance: what the other proofs
\* and the domains of the tables rest on.
THEOREM TypeSafe == Spec => []TypeOK
  BY TypeCorrect, PTL DEF TypeInv

-----------------------------------------------------------------------------
(* What holds whatever goes wrong: no hypothesis on Faults.                *)

Durable(d) ==
    /\ row[d].status \in Waiting => row[d].due # Null
    /\ row[d].status = "PROCESSING" <=> row[d].lease # Null
    /\ row[d].status = "PROCESSED" =>
         row[d].data = "valid" /\ row[d].errors = Null /\ row[d].reason = Null
    /\ row[d].status = "VALIDATION_FAILED" =>
         row[d].data = "invalid" /\ row[d].errors = "issues"
    /\ row[d].status \in Terminal =>
         row[d].due = Null /\ Tells(history[d], row[d].status, row[d].reason)

DurableInv == \A d \in Documents : Durable(d)

\* An event written apart leaves what the history tells.
LEMMA TellsAfterApart ==
    ASSUME NEW events \in Seq(Event), NEW e \in Event, WrittenApart(e),
           NEW status, NEW reason, Tells(events, status, reason)
    PROVE  Tells(Append(events, e), status, reason)
  <1>1. PICK i \in 1 .. Len(events) :
          /\ events[i].status = status
          /\ events[i].reason = reason
          /\ \A j \in i + 1 .. Len(events) : WrittenApart(events[j])
    BY DEF Tells
  <1> DEFINE longer == Append(events, e)
  <1>2. /\ Len(longer) = Len(events) + 1 /\ Len(events) \in Nat
        /\ longer[Len(events) + 1] = e
        /\ \A j \in 1 .. Len(events) : longer[j] = events[j]
    OBVIOUS
  <1> HIDE DEF longer
  <1>3. \A j \in i + 1 .. Len(longer) : WrittenApart(longer[j])
    <2> TAKE j \in i + 1 .. Len(longer)
    <2>1. CASE j = Len(events) + 1
      BY <1>2, <2>1
    <2>2. CASE j \in 1 .. Len(events)
      BY <1>1, <1>2, <2>2
    <2> QED
      BY <1>1, <1>2, <2>1, <2>2
  <1>4. i \in 1 .. Len(longer) /\ longer[i] = events[i]
    BY <1>1, <1>2
  <1>5. Tells(longer, status, reason)
    BY <1>1, <1>3, <1>4 DEF Tells
  <1> QED
    BY <1>5 DEF longer

\* An event just written is what the history tells.
LEMMA TellsAfterOutcome ==
    ASSUME NEW events \in Seq(Event), NEW e \in Event
    PROVE  Tells(Append(events, e), e.status, e.reason)
  <1> DEFINE longer == Append(events, e)
  <1>1. Len(longer) = Len(events) + 1 /\ Len(events) \in Nat /\ longer[Len(events) + 1] = e
    OBVIOUS
  <1> HIDE DEF longer
  <1>2. \A j \in Len(longer) + 1 .. Len(longer) : WrittenApart(longer[j])
    BY <1>1
  <1>3. Tells(longer, e.status, e.reason)
    BY <1>1, <1>2 DEF Tells
  <1> QED
    BY <1>3 DEF longer

\* A document whose row is kept and whose history is kept, or extended by an
\* event written apart, stays as durable as it was.
LEMMA DurableKept ==
    ASSUME TypeOK, NEW d \in Documents, Durable(d), row'[d] = row[d],
           \/ history'[d] = history[d]
           \/ \E e \in Event : WrittenApart(e) /\ history'[d] = Append(history[d], e)
    PROVE  Durable(d)'
  <1>1. history[d] \in Seq(Event)
    BY DEF TypeOK
  <1>2. Tells(history[d], row[d].status, row[d].reason)
          => Tells(history'[d], row[d].status, row[d].reason)
    <2>1. CASE history'[d] = history[d]
      BY <2>1
    <2>2. CASE \E e \in Event : WrittenApart(e) /\ history'[d] = Append(history[d], e)
      BY <1>1, <2>2, TellsAfterApart
    <2> QED
      BY <2>1, <2>2
  <1> QED
    BY <1>2 DEF Durable

\* The events of Record are events, and it touches one history.
LEMMA RecordOne ==
    ASSUME TypeOK, NEW d \in Documents, NEW status \in Statuses,
           NEW attempt \in Nat \cup {NoAttempt}, NEW reason \in Reasons \cup {Null},
           Record(d, status, attempt, reason)
    PROVE  /\ \E e \in Event : /\ e.status = status /\ e.reason = reason
                               /\ e.attempt = attempt
                               /\ history'[d] = Append(history[d], e)
           /\ \A o \in Documents \ {d} : history'[o] = history[o]
  <1> DEFINE e == [status |-> status, attempt |-> attempt, reason |-> reason]
  <1>1. e \in Event /\ e.status = status /\ e.reason = reason /\ e.attempt = attempt
    BY DEF Event
  <1>2. history' = [history EXCEPT ![d] = Append(history[d], e)]
    BY DEF Record
  <1>3. history \in [Documents -> Seq(Event)]
    BY DEF TypeOK
  <1> HIDE DEF e
  <1> QED
    BY <1>1, <1>2, <1>3

\* A transition with consistent columns makes its document durable.
LEMMA DurableTransition ==
    ASSUME TypeOK, DurableInv,
           NEW d \in Documents, NEW status \in Terminal \cup {"RETRY_PENDING"},
           NEW attempt \in Nat, NEW reason \in Reasons \cup {Null},
           NEW due \in {Null, "future", "due"},
           NEW data \in {"valid", "invalid", Keep}, NEW errors \in {Null, "issues", Keep},
           ApplyTransition(d, status, attempt, reason, due, data, errors),
           status = "RETRY_PENDING" <=> due # Null,
           status = "PROCESSED" => data = "valid" /\ errors = Null /\ reason = Null,
           status = "VALIDATION_FAILED" => data = "invalid" /\ errors = "issues"
    PROVE  DurableInv'
  <1>1. row \in [Documents -> Row] /\ history \in [Documents -> Seq(Event)] /\ row[d] \in Row
    BY DEF TypeOK
  <1>2. Record(d, status, attempt, reason) /\ status \in Statuses
    BY DEF ApplyTransition, Terminal, Statuses
  <1>3. PICK e \in Event : /\ e.status = status /\ e.reason = reason
                           /\ history'[d] = Append(history[d], e)
    BY <1>2, RecordOne
  <1>4. Tells(history'[d], status, reason)
    BY <1>1, <1>3, TellsAfterOutcome
  <1>5. /\ row'[d].status = status /\ row'[d].due = due /\ row'[d].lease = Null
        /\ row'[d].reason = reason
        /\ row'[d].data = Written(row[d].data, data)
        /\ row'[d].errors = Written(row[d].errors, errors)
    BY <1>1 DEF ApplyTransition, Row
  <1>6. Durable(d)'
    BY <1>4, <1>5 DEF Durable, Written, Waiting, Terminal, Keep, Null
  <1>7. ASSUME NEW o \in Documents \ {d} PROVE Durable(o)'
    <2>1. row'[o] = row[o]
      BY <1>1 DEF ApplyTransition
    <2>2. history'[o] = history[o]
      BY <1>2, RecordOne
    <2> QED
      BY <2>1, <2>2, DurableKept DEF DurableInv
  <1> QED
    BY <1>6, <1>7 DEF DurableInv

\* The writes of a slot.
LEMMA DurableSlotWrite ==
    ASSUME TypeInv, DurableInv, NEW s \in Slots,
           WriteClaimEvent(s) \/ FinalWrite(s) \/ WriteFailedBeforeRetry(s)
    PROVE  DurableInv'
  <1> DEFINE d == slot[s].doc
             a == slot[s].attempt
  <1>1. slot[s].pc # "idle"
    BY DEF WriteClaimEvent, FinalWrite, WriteFailedBeforeRetry, WriteProcessed,
           WriteRejected, WriteFailedTerminally, WriteRetryPending
  <1>2. d \in Documents /\ a \in Nat
    BY <1>1 DEF TypeInv, TypeOK, BusyHoldsDocument, Slot
  <1>3. TypeOK
    BY DEF TypeInv
  <1>4. ClassifiedReason(slot[s].result) \in Reasons
    BY DEF ClassifiedReason, Reasons
  <1>5. CASE WriteClaimEvent(s)
    <2>1. Record(d, "PROCESSING", a, Null) /\ row' = row
      BY <1>5 DEF WriteClaimEvent
    <2>2. ASSUME NEW o \in Documents
          PROVE  \/ history'[o] = history[o]
                 \/ \E e \in Event : WrittenApart(e) /\ history'[o] = Append(history[o], e)
      BY <1>2, <1>3, <2>1, RecordOne DEF WrittenApart, Statuses
    <2> QED
      BY <1>3, <2>1, <2>2, DurableKept DEF DurableInv
  <1>6. CASE WriteProcessed(s)
    BY <1>2, <1>3, <1>6, DurableTransition DEF WriteProcessed, Terminal
  <1>7. CASE WriteRejected(s)
    BY <1>2, <1>3, <1>7, DurableTransition DEF WriteRejected, Terminal, Reasons
  <1>8. CASE WriteFailedTerminally(s)
    BY <1>2, <1>3, <1>8, DurableTransition DEF WriteFailedTerminally, Terminal, Reasons
  <1>9. CASE WriteRetryPending(s)
    BY <1>2, <1>3, <1>4, <1>9, DurableTransition DEF WriteRetryPending, Terminal, Null
  <1>10. CASE WriteFailedBeforeRetry(s)
    BY <1>2, <1>3, <1>4, <1>10, DurableTransition DEF WriteFailedBeforeRetry, Terminal
  <1> QED
    BY <1>5, <1>6, <1>7, <1>8, <1>9, <1>10 DEF FinalWrite

\* The writes that move rows without an event of their own.
LEMMA DurableRowWrite ==
    ASSUME TypeOK, DurableInv, UNCHANGED history,
           \/ \E d \in Documents : Claim(d)
           \/ ReclaimRows
           \/ \E d \in Documents : Clock(d)
    PROVE  DurableInv'
  <1>1. row \in [Documents -> Row]
    BY DEF TypeOK
  <1>2. ASSUME NEW o \in Documents PROVE Durable(o)'
    <2>0. row[o] \in Row /\ Durable(o)
      BY <1>1 DEF DurableInv
    <2>1. ASSUME NEW d \in Documents, Claim(d) PROVE Durable(o)'
      <3>1. CASE o = d
        <4>1. /\ row'[o].status = "PROCESSING" /\ row'[o].lease = "fresh"
          BY <1>1, <2>0, <2>1, <3>1 DEF Claim, Row
        <4> QED
          BY <4>1 DEF Durable, Waiting, Terminal, Null
      <3>2. CASE o # d
        BY <1>1, <2>0, <2>1, <3>2, DurableKept DEF Claim
      <3> QED
        BY <3>1, <3>2
    <2>2. ASSUME ReclaimRows PROVE Durable(o)'
      <3>1. CASE Reclaimable(o)
        <4>1. /\ row'[o].status = "RETRY_PENDING" /\ row'[o].lease = Null
              /\ row'[o].due = "due"
          BY <2>0, <2>2, <3>1 DEF ReclaimRows, Row
        <4> QED
          BY <4>1 DEF Durable, Waiting, Terminal, Null
      <3>2. CASE ~Reclaimable(o)
        BY <2>0, <2>2, <3>2, DurableKept DEF ReclaimRows
      <3> QED
        BY <3>1, <3>2
    <2>3. ASSUME NEW d \in Documents, Clock(d) PROVE Durable(o)'
      <3>1. CASE o = d
        <4>1. /\ row'[o].status = row[o].status /\ row'[o].reason = row[o].reason
              /\ row'[o].data = row[o].data /\ row'[o].errors = row[o].errors
              /\ row'[o].due # Null <=> row[o].due # Null
              /\ row'[o].lease # Null <=> row[o].lease # Null
          BY <1>1, <2>0, <2>3, <3>1 DEF Clock, BackoffElapses, LeaseRunsOut, Row, Null
        <4> QED
          BY <2>0, <4>1 DEF Durable
      <3>2. CASE o # d
        BY <1>1, <2>0, <2>3, <3>2, DurableKept DEF Clock, BackoffElapses, LeaseRunsOut
      <3> QED
        BY <3>1, <3>2
    <2> QED
      BY <2>1, <2>2, <2>3
  <1> QED
    BY <1>2 DEF DurableInv

THEOREM DurableCorrect == Spec => []DurableInv
<1>1. Init => DurableInv
  BY DEF Init, DurableInv, Durable, NoRow, Absent, Waiting, Terminal, Null
<1>2. TypeInv /\ DurableInv /\ [Next]_vars => DurableInv'
  <2> SUFFICES ASSUME TypeInv, DurableInv, [Next]_vars PROVE DurableInv'
    OBVIOUS
  <2>t. /\ TypeOK
        /\ row \in [Documents -> Row] /\ history \in [Documents -> Seq(Event)]
    BY DEF TypeInv, TypeOK
  <2>k. ASSUME UNCHANGED <<row, history>> PROVE DurableInv'
    BY <2>k DEF DurableInv, Durable
  <2>1. CASE UNCHANGED vars
    BY <2>1, <2>k DEF vars
  <2>2. ASSUME NEW d \in Documents, createWithEvent(d) PROVE DurableInv'
    <3>1. row'[d].status = "UPLOADED" /\ row'[d].due = "due" /\ row'[d].lease = Null
      BY <2>t, <2>2 DEF createWithEvent, NoRow
    <3>2. Durable(d)'
      BY <3>1 DEF Durable, Waiting, Terminal, Null
    <3>3. ASSUME NEW o \in Documents \ {d} PROVE Durable(o)'
      <4>1. row'[o] = row[o]
        BY <2>t, <2>2 DEF createWithEvent
      <4>2. history'[o] = history[o]
        BY <2>t, <2>2 DEF createWithEvent, Record
      <4> QED
        BY <2>t, <4>1, <4>2, DurableKept DEF DurableInv
    <3> QED
      BY <3>2, <3>3 DEF DurableInv
  <2>3. ASSUME NEW d \in Documents, Clock(d) PROVE DurableInv'
    BY <2>t, <2>3, DurableRowWrite DEF Clock, BackoffElapses, LeaseRunsOut
  <2>4. ASSUME NEW s \in Slots, SlotStep(s) PROVE DurableInv'
    <3>1. ASSUME NEW d \in Documents, claimNext(s, d) PROVE DurableInv'
      BY <2>t, <3>1, DurableRowWrite DEF claimNext, Claim
    <3>2. CASE recordClaimEvent(s)
      BY <3>2, DurableSlotWrite DEF recordClaimEvent
    <3>3. CASE extract(s)
      BY <2>k, <3>3 DEF extract
    <3>4. CASE FailBeforeRetry(s)
      BY <3>4, DurableSlotWrite DEF FailBeforeRetry
    <3>5. CASE Settle(s)
      BY <3>5, DurableSlotWrite DEF Settle
    <3> QED
      BY <2>4, <3>1, <3>2, <3>3, <3>4, <3>5 DEF SlotStep
  <2>5. ASSUME NEW w \in Workers, ReaperStep(w) PROVE DurableInv'
    <3>1. CASE reclaimExpired(w)
      BY <2>t, <3>1, DurableRowWrite DEF reclaimExpired
    <3>2. ASSUME NEW d \in Documents, RecordReclaim(w, d) PROVE DurableInv'
      <4>1. Record(d, "RETRY_PENDING", NoAttempt, "LEASE_EXPIRED") /\ row' = row
        BY <3>2 DEF RecordReclaim
      <4>a. /\ \E e \in Event : /\ e.status = "RETRY_PENDING" /\ e.reason = "LEASE_EXPIRED"
                              /\ e.attempt = NoAttempt
                              /\ history'[d] = Append(history[d], e)
            /\ \A o \in Documents \ {d} : history'[o] = history[o]
        BY <2>t, <4>1, RecordOne DEF Statuses, Reasons, NoAttempt
      <4>2. ASSUME NEW o \in Documents
            PROVE  \/ history'[o] = history[o]
                   \/ \E e \in Event : WrittenApart(e) /\ history'[o] = Append(history[o], e)
        BY <4>a DEF WrittenApart
      <4> QED
        BY <2>t, <4>1, <4>2, DurableKept DEF DurableInv
    <3>3. CASE findExhaustedStaleIds(w)
      BY <2>k, <3>3 DEF findExhaustedStaleIds
    <3>4. ASSUME NEW d \in Documents, FailExhausted(w, d) PROVE DurableInv'
      BY <2>t, <3>4, DurableTransition, MaxAttemptsAssumption DEF FailExhausted, Terminal, Reasons
    <3> QED
      BY <2>5, <3>1, <3>2, <3>3, <3>4 DEF ReaperStep
  <2>6. ASSUME NEW q \in Requests, RequestStep(q) PROVE DurableInv'
    <3>1. ASSUME NEW d \in Documents, CheckRetry(q, d) PROVE DurableInv'
      BY <2>k, <3>1 DEF CheckRetry
    <3>2. CASE resetForManualRetry(q)
      <4>1. PICK d \in Documents : d = request[q].doc
        BY <3>2 DEF resetForManualRetry, TypeInv, RequestHoldsDocument
      <4>2. row'[d].status = "RETRY_PENDING" /\ row'[d].due = "due" /\ row'[d].lease = Null
        BY <2>t, <3>2, <4>1 DEF resetForManualRetry, Row
      <4>3. Durable(d)'
        BY <4>2 DEF Durable, Waiting, Terminal, Null
      <4>4. Record(d, "RETRY_PENDING", 0, "MANUAL_RETRY")
        BY <3>2, <4>1 DEF resetForManualRetry
      <4>5. ASSUME NEW o \in Documents \ {d} PROVE Durable(o)'
        <5>1. row'[o] = row[o]
          BY <2>t, <3>2, <4>1 DEF resetForManualRetry
        <5>2. history'[o] = history[o]
          BY <2>t, <4>1, <4>4, RecordOne DEF Statuses, Reasons
        <5> QED
          BY <2>t, <5>1, <5>2, DurableKept DEF DurableInv
      <4> QED
        BY <4>3, <4>5 DEF DurableInv
    <3> QED
      BY <2>6, <3>1, <3>2 DEF RequestStep
  <2>7. CASE Misfortune
    <3>1. ASSUME NEW s \in Slots, NEW d \in Documents, ClaimAnswerLost(s, d) PROVE DurableInv'
      BY <2>t, <3>1, DurableRowWrite DEF ClaimAnswerLost, Claim
    <3>2. ASSUME NEW s \in Slots, WriteError(s) PROVE DurableInv'
      BY <2>k, <3>2 DEF WriteError
    <3>3. ASSUME NEW s \in Slots, WriteAnswerLost(s) PROVE DurableInv'
      BY <3>3, DurableSlotWrite DEF WriteAnswerLost
    <3>4. ASSUME NEW w \in Workers, ReclaimAnswerLost(w) PROVE DurableInv'
      BY <2>t, <3>4, DurableRowWrite DEF ReclaimAnswerLost
    <3>5. ASSUME NEW w \in Workers, SweepError(w) PROVE DurableInv'
      BY <2>k, <3>5 DEF SweepError
    <3>6. ASSUME NEW w \in Workers, Crash(w) PROVE DurableInv'
      BY <2>k, <3>6 DEF Crash
    <3>7. ASSUME NEW s \in Slots, ClaimError(s) PROVE DurableInv'
      BY <2>k, <3>7 DEF ClaimError
    <3> QED
      BY <2>7, <3>1, <3>2, <3>3, <3>4, <3>5, <3>6, <3>7 DEF Misfortune
  <2> QED
    BY <2>1, <2>2, <2>3, <2>4, <2>5, <2>6, <2>7 DEF Next
<1>3. QED
  BY <1>1, <1>2, TypeCorrect, PTL DEF Spec

\* Whatever goes wrong, an unsettled document stays in view of the queue query
\* or of the reaper: config/queue.ts never leaves a row neither can select.
THEOREM NothingOutOfView == Spec => []SeenByQueueOrReaper
<1>1. DurableInv => SeenByQueueOrReaper
  BY DEF DurableInv, Durable, SeenByQueueOrReaper
<1>2. QED
  BY <1>1, DurableCorrect, PTL

\* Whatever goes wrong, accepted data is shown only after it passed validation.
THEOREM ResultsAreConsistent == Spec => []ResultMatchesStatus
<1>1. DurableInv => ResultMatchesStatus
  BY DEF DurableInv, Durable, ResultMatchesStatus
<1>2. QED
  BY <1>1, DurableCorrect, PTL

\* Whatever goes wrong, the outcome a document shows can be read in its history.
THEOREM OutcomesAreExplained == Spec => []OutcomeIsInHistory
<1>1. DurableInv => OutcomeIsInHistory
  BY DEF DurableInv, Durable, OutcomeIsInHistory
<1>2. QED
  BY <1>1, DurableCorrect, PTL

=============================================================================
