--------------------------- MODULE DocumentPipeline ---------------------------
(***************************************************************************)
(* The processing pipeline of the backend: the documents table used as a   *)
(* queue (config/queue.ts), one processing attempt and its transactions    *)
(* (services/processing.service.ts, repositories/documents.repo.ts), the   *)
(* reaper of every worker process (worker.ts) and the manual retry of the  *)
(* API (services/documents.service.ts).                                    *)
(*                                                                         *)
(* One step is one statement or one transaction of the database, or one    *)
(* call of the processor: what runs between two awaits.  Everything else   *)
(* may happen in between.                                                  *)
(*                                                                         *)
(* Time is abstract: next_attempt_at is unset, in the future or due;       *)
(* locked_at is unset, within the lease or past it.                        *)
(***************************************************************************)
EXTENDS Integers, Sequences, FiniteSets

CONSTANTS
    Documents,      \* the documents that may be uploaded
    NoDocument,     \* what an idle slot or a new request holds
    Workers,        \* the worker processes, each with its slots and its reaper
    Concurrency,    \* WORKER_CONCURRENCY: slots of each process
    Requests,       \* the manual-retry requests of the API, each made once
    MaxAttempts,    \* MAX_PROCESSING_ATTEMPTS
    Answers,        \* what extract() may answer in this instance
    Faults,         \* the misfortunes this instance admits, a subset of FaultKinds
    MaxFaults       \* bound on crashes, database errors and lost answers

(***************************************************************************)
(* crash         a worker process is killed between two steps              *)
(* dbError       a database call throws and has written nothing            *)
(* lostAnswer    a database call throws although its write was committed   *)
(* slowAttempt   the lease runs out under an attempt that is still alive   *)
(* racingRetry   a manual retry is written although the document is no     *)
(*               longer at rest in FAILED                                  *)
(* racingSweep   a sweep fails a document that was revived since the sweep *)
(*               read it                                                   *)
(***************************************************************************)
FaultKinds == {"crash", "dbError", "lostAnswer",
               "slowAttempt", "racingRetry", "racingSweep"}

ASSUME NoDocumentAssumption == NoDocument \notin Documents
ASSUME MaxAttemptsAssumption == MaxAttempts \in Nat \ {0}
ASSUME ConcurrencyAssumption == Concurrency \in Nat \ {0}
ASSUME FaultsAssumption == Faults \subseteq FaultKinds /\ MaxFaults \in Nat

-----------------------------------------------------------------------------
(* The columns of a row, the events and what the processor answers.        *)

Statuses == {"UPLOADED", "PROCESSING", "RETRY_PENDING",
             "PROCESSED", "VALIDATION_FAILED", "FAILED"}
Terminal == {"PROCESSED", "VALIDATION_FAILED", "FAILED"}
Waiting == {"UPLOADED", "RETRY_PENDING"}

Null == "null"              \* a NULL column
Absent == "ABSENT"          \* the status of a document without a row
NoAttempt == -1             \* an event written without an attempt number
Keep == "undefined"         \* an argument left out: the column keeps its value

Reasons == {"PROCESSOR_TIMEOUT", "PROCESSOR_ERROR", "EXTRACTED_DATA_INVALID",
            "ATTEMPTS_EXHAUSTED", "LEASE_EXPIRED", "MANUAL_RETRY"}

Row == [status  : Statuses \cup {Absent},
        attempts: Nat,
        due     : {Null, "future", "due"},
        lease   : {Null, "fresh", "expired"},
        reason  : Reasons \cup {Null},
        data    : {Null, "valid", "invalid"},
        errors  : {Null, "issues"}]

NoRow == [status |-> Absent, attempts |-> 0, due |-> Null, lease |-> Null,
          reason |-> Null, data |-> Null, errors |-> Null]

Event == [status : Statuses, attempt : Nat \cup {NoAttempt}, reason : Reasons \cup {Null}]

(***************************************************************************)
(* What an attempt learns from extract().  SUCCESS and INVALID_RESULT are  *)
(* handled alike: the validator decides, so what counts is whether the     *)
(* data is valid.  TIMEOUT and ERROR carry no data.  A thrown exception is *)
(* classified exactly as ERROR, so it is that answer here.                 *)
(***************************************************************************)
Results == {"valid", "invalid", "TIMEOUT", "ERROR"}
Thrown == "ERROR"

ASSUME AnswersAssumption == Answers \subseteq Results

Slots == Workers \X (1 .. Concurrency)

\* The program counter of a slot names the step it takes next.
Slot == [pc      : {"idle", "recording", "extracting", "settling", "scheduling"},
         doc     : Documents \cup {NoDocument},
         attempt : Nat,
         result  : Results \cup {Null},
         inCatch : BOOLEAN]

IdleSlot == [pc |-> "idle", doc |-> NoDocument, attempt |-> 0,
             result |-> Null, inCatch |-> FALSE]

Reaper == [pc : {"idle", "recording", "failing"},
           reclaimed : SUBSET Documents, exhausted : SUBSET Documents]

IdleReaper == [pc |-> "idle", reclaimed |-> {}, exhausted |-> {}]

Request == [pc : {"new", "checked", "done"}, doc : Documents \cup {NoDocument}]

VARIABLES
    row,        \* documents: the row of each document
    history,    \* document_events: the events of each document, oldest first
    slot,       \* the attempt each worker slot is running
    reaper,     \* the sweep each worker process is running
    request,    \* the manual retries
    faults      \* the crashes, errors and lost answers so far

vars == <<row, history, slot, reaper, request, faults>>

Init == /\ row = [d \in Documents |-> NoRow]
        /\ history = [d \in Documents |-> <<>>]
        /\ slot = [s \in Slots |-> IdleSlot]
        /\ reaper = [w \in Workers |-> IdleReaper]
        /\ request = [q \in Requests |-> [pc |-> "new", doc |-> NoDocument]]
        /\ faults = <<>>

-----------------------------------------------------------------------------
(* Helpers.                                                                *)

\* Some live attempt holds the document.
InHand(d) == \E s \in Slots : slot[s].doc = d

\* Bug: the claim query skips settled rows but not the ones being processed.
Claimable_StatusUnchecked(d) == row[d].status \notin Terminal /\ row[d].due = "due"

Claimable(d) == row[d].status \in Waiting /\ row[d].due = "due"

\* Bug: the cutoff on locked_at is missing.
LeaseExpired_NoCutoff(d) == row[d].status = "PROCESSING" /\ row[d].lease # Null

LeaseExpired(d) == row[d].status = "PROCESSING" /\ row[d].lease = "expired"

\* Bug: the attempt budget is not looked at.
Reclaimable_NoBudget(d) == LeaseExpired(d)

Reclaimable(d) == LeaseExpired(d) /\ row[d].attempts < MaxAttempts

\* Bug: > for >=.
Exhausted_OffByOne(d) == LeaseExpired(d) /\ row[d].attempts > MaxAttempts

Exhausted(d) == LeaseExpired(d) /\ row[d].attempts >= MaxAttempts

\* The document rests in FAILED: no attempt is between its two writes.
AtRestFailed(d) == row[d].status = "FAILED" /\ ~InHand(d)

Fault(kind) == /\ kind \in Faults
               /\ Len(faults) < MaxFaults
               /\ faults' = Append(faults, kind)

\* A worker process is gone, with its slots and its sweep; the database stays.
\* The process is restarted and starts idle.
ProcessDies(w) ==
    /\ slot' = [s \in Slots |-> IF s[1] = w THEN IdleSlot ELSE slot[s]]
    /\ reaper' = [reaper EXCEPT ![w] = IdleReaper]

\* The process has something to lose.
Running(w) == \/ reaper[w].pc # "idle"
              \/ \E i \in 1 .. Concurrency : slot[<<w, i>>].pc # "idle"

Record(d, status, attempt, reason) ==
    history' = [history EXCEPT ![d] =
                  Append(history[d], [status |-> status, attempt |-> attempt,
                                      reason |-> reason])]

Written(old, new) == IF new = Keep THEN old ELSE new

\* The row and its event, in one transaction.  Nothing checks what the row
\* held before, and the lease is always cleared.
ApplyTransition(d, status, attempt, reason, due, data, errors) ==
    /\ row' = [row EXCEPT ![d] =
                 [row[d] EXCEPT !.status = status,
                                !.due = due,
                                !.lease = Null,
                                !.reason = reason,
                                !.data = Written(row[d].data, data),
                                !.errors = Written(row[d].errors, errors)]]
    /\ Record(d, status, attempt, reason)

\* Bug: the outcome is stored in place of the stable reason code.
ClassifiedReason_RawOutcome(result) == result

\* classify and classifyThrown for the answers without data: each is retryable
\* and ends in FAILED.
ClassifiedReason(result) ==
    IF result = "TIMEOUT" THEN "PROCESSOR_TIMEOUT" ELSE "PROCESSOR_ERROR"

Fails(result) == result \in {"TIMEOUT", "ERROR"}

WillRetry(s) == slot[s].attempt < MaxAttempts

-----------------------------------------------------------------------------
(* Upload, as the pipeline sees it: the row and its first event.           *)

createWithEvent(d) ==
    /\ row[d].status = Absent
    /\ row' = [row EXCEPT ![d] = [NoRow EXCEPT !.status = "UPLOADED", !.due = "due"]]
    /\ Record(d, "UPLOADED", NoAttempt, Null)
    /\ UNCHANGED <<slot, reaper, request, faults>>

-----------------------------------------------------------------------------
(* One attempt of a worker slot.                                           *)

\* The claim is one UPDATE: status, lease and attempt count together.  The
\* attempt budget is not looked at, and next_attempt_at keeps its value.
Claim(d) ==
    /\ Claimable(d)
    /\ row' = [row EXCEPT ![d] =
                 [row[d] EXCEPT !.status = "PROCESSING",
                                !.lease = "fresh",
                                !.attempts = row[d].attempts + 1]]
    /\ UNCHANGED <<history, request>>

claimNext(s, d) ==
    /\ slot[s].pc = "idle"
    /\ Claim(d)
    /\ slot' = [slot EXCEPT ![s] = [IdleSlot EXCEPT !.pc = "recording", !.doc = d,
                                      !.attempt = row[d].attempts + 1]]
    /\ UNCHANGED <<reaper, faults>>

\* Nothing catches an error of the claim: the promise that track() derives from
\* the slot is rejected unhandled, which ends the process and all its slots.
ClaimError(s) ==
    /\ slot[s].pc = "idle" /\ Running(s[1])
    /\ Fault("dbError")
    /\ ProcessDies(s[1])
    /\ UNCHANGED <<row, history, request>>

\* The claim is committed but the worker never learns which row it got.
ClaimAnswerLost(s, d) ==
    /\ slot[s].pc = "idle"
    /\ Claim(d)
    /\ Fault("lostAnswer")
    /\ ProcessDies(s[1])

\* The event of the claim is written by a statement of its own.
WriteClaimEvent(s) ==
    /\ slot[s].pc = "recording"
    /\ Record(slot[s].doc, "PROCESSING", slot[s].attempt, Null)
    /\ UNCHANGED row

recordClaimEvent(s) ==
    /\ WriteClaimEvent(s)
    /\ slot' = [slot EXCEPT ![s] = [slot[s] EXCEPT !.pc = "extracting"]]
    /\ UNCHANGED <<reaper, request, faults>>

\* The processor answers, or throws: a thrown error is a retryable failure.
extract(s) ==
    /\ slot[s].pc = "extracting"
    /\ \E result \in Answers :
          slot' = [slot EXCEPT ![s] = [slot[s] EXCEPT !.pc = "settling", !.result = result]]
    /\ UNCHANGED <<row, history, reaper, request, faults>>

\* Bug: validationErrors is left out, so an older attempt's issues stay.
WriteProcessed_KeepsIssues(s) ==
    /\ slot[s].pc = "settling" /\ slot[s].result = "valid"
    /\ ApplyTransition(slot[s].doc, "PROCESSED", slot[s].attempt, Null, Null, "valid", Keep)

\* The writes of processDocument and finishFailure, by what was extracted.
WriteProcessed(s) ==
    /\ slot[s].pc = "settling" /\ slot[s].result = "valid"
    /\ ApplyTransition(slot[s].doc, "PROCESSED", slot[s].attempt, Null, Null, "valid", Null)

WriteRejected(s) ==
    /\ slot[s].pc = "settling" /\ slot[s].result = "invalid"
    /\ ApplyTransition(slot[s].doc, "VALIDATION_FAILED", slot[s].attempt,
                       "EXTRACTED_DATA_INVALID", Null, "invalid", "issues")

WriteFailedBeforeRetry(s) ==
    /\ slot[s].pc = "settling" /\ Fails(slot[s].result) /\ WillRetry(s)
    /\ ApplyTransition(slot[s].doc, "FAILED", slot[s].attempt,
                       ClassifiedReason(slot[s].result), Null, Keep, Keep)

WriteFailedTerminally(s) ==
    /\ slot[s].pc = "settling" /\ Fails(slot[s].result) /\ ~WillRetry(s)
    /\ ApplyTransition(slot[s].doc, "FAILED", slot[s].attempt,
                       "ATTEMPTS_EXHAUSTED", Null, Keep, Keep)

\* Bug: the time of the next attempt is forgotten.
WriteRetryPending_NotScheduled(s) ==
    /\ slot[s].pc = "scheduling"
    /\ ApplyTransition(slot[s].doc, "RETRY_PENDING", slot[s].attempt,
                       ClassifiedReason(slot[s].result), Null, Keep, Keep)

\* Bug: the row is updated without its event.
WriteRetryPending_NoEvent(s) ==
    /\ slot[s].pc = "scheduling"
    /\ row' = [row EXCEPT ![slot[s].doc] =
                 [@ EXCEPT !.status = "RETRY_PENDING", !.due = "future", !.lease = Null,
                           !.reason = ClassifiedReason(slot[s].result)]]
    /\ UNCHANGED history

WriteRetryPending(s) ==
    /\ slot[s].pc = "scheduling"
    /\ ApplyTransition(slot[s].doc, "RETRY_PENDING", slot[s].attempt,
                       ClassifiedReason(slot[s].result), "future", Keep, Keep)

\* A write that ends the attempt.
FinalWrite(s) == \/ WriteProcessed(s)
                 \/ WriteRejected(s)
                 \/ WriteFailedTerminally(s)
                 \/ WriteRetryPending(s)

Settle(s) ==
    /\ FinalWrite(s)
    /\ slot' = [slot EXCEPT ![s] = IdleSlot]
    /\ UNCHANGED <<reaper, request, faults>>

\* The first of the two transactions of a failure that will be retried.
FailBeforeRetry(s) ==
    /\ WriteFailedBeforeRetry(s)
    /\ slot' = [slot EXCEPT ![s] = [slot[s] EXCEPT !.pc = "scheduling"]]
    /\ UNCHANGED <<reaper, request, faults>>

\* Bug: the catch block does not settle the document.
AfterException_NotSettled(s) ==
    slot' = [slot EXCEPT ![s] = IdleSlot] /\ UNCHANGED reaper

\* Where an exception leaves the worker.  The claim event is written outside the
\* try block, so its error ends the process, as one of the claim does; an error
\* of processDocument is settled as a failure once; an error of that settling is
\* only logged.
AfterException(s) ==
    IF slot[s].pc = "recording"
      THEN ProcessDies(s[1])
      ELSE /\ slot' = [slot EXCEPT ![s] =
                          IF slot[s].inCatch
                            THEN IdleSlot
                            ELSE [slot[s] EXCEPT !.pc = "settling", !.result = Thrown,
                                                 !.inCatch = TRUE]]
           /\ UNCHANGED reaper

WritingPCs == {"recording", "settling", "scheduling"}

WriteError(s) ==
    /\ slot[s].pc \in WritingPCs
    /\ Fault("dbError")
    /\ AfterException(s)
    /\ UNCHANGED <<row, history, request>>

WriteAnswerLost(s) ==
    /\ WriteClaimEvent(s) \/ FinalWrite(s) \/ WriteFailedBeforeRetry(s)
    /\ Fault("lostAnswer")
    /\ AfterException(s)
    /\ UNCHANGED request

-----------------------------------------------------------------------------
(* One sweep of a reaper.                                                  *)

\* One UPDATE takes every expired lease that has attempts left.
ReclaimRows ==
    row' = [d \in Documents |->
              IF Reclaimable(d)
                THEN [row[d] EXCEPT !.status = "RETRY_PENDING", !.lease = Null, !.due = "due"]
                ELSE row[d]]

reclaimExpired(w) ==
    /\ reaper[w].pc = "idle"
    /\ ReclaimRows
    /\ reaper' = [reaper EXCEPT ![w] = [IdleReaper EXCEPT !.pc = "recording",
                     !.reclaimed = {d \in Documents : Reclaimable(d)}]]
    /\ UNCHANGED <<history, slot, request, faults>>

ReclaimAnswerLost(w) ==
    /\ reaper[w].pc = "idle"
    /\ \E d \in Documents : Reclaimable(d)
    /\ ReclaimRows
    /\ Fault("lostAnswer")
    /\ UNCHANGED <<history, slot, reaper, request>>

\* The events of the reclaimed rows follow one by one, without an attempt number.
RecordReclaim(w, d) ==
    /\ reaper[w].pc = "recording" /\ d \in reaper[w].reclaimed
    /\ Record(d, "RETRY_PENDING", NoAttempt, "LEASE_EXPIRED")
    /\ reaper' = [reaper EXCEPT ![w] =
                    [reaper[w] EXCEPT !.reclaimed = reaper[w].reclaimed \ {d}]]
    /\ UNCHANGED <<row, slot, request, faults>>

findExhaustedStaleIds(w) ==
    LET found == {d \in Documents : Exhausted(d)}
    IN  /\ reaper[w].pc = "recording" /\ reaper[w].reclaimed = {}
        /\ reaper' = [reaper EXCEPT ![w] =
                        IF found = {} THEN IdleReaper
                                      ELSE [IdleReaper EXCEPT !.pc = "failing",
                                                              !.exhausted = found]]
        /\ UNCHANGED <<row, history, slot, request, faults>>

\* Bug: the sweep updates the row and leaves the history out.
FailExhausted_NoEvent(w, d) ==
    LET rest == reaper[w].exhausted \ {d}
    IN  /\ reaper[w].pc = "failing" /\ d \in reaper[w].exhausted
        /\ "racingSweep" \in Faults \/ Exhausted(d) \/ AtRestFailed(d)
        /\ row' = [row EXCEPT ![d] =
                     [@ EXCEPT !.status = "FAILED", !.reason = "ATTEMPTS_EXHAUSTED",
                               !.due = Null, !.lease = Null]]
        /\ reaper' = [reaper EXCEPT ![w] =
                        IF rest = {} THEN IdleReaper
                                     ELSE [reaper[w] EXCEPT !.exhausted = rest]]
        /\ UNCHANGED <<history, slot, request, faults>>

FailExhausted(w, d) ==
    LET rest == reaper[w].exhausted \ {d}
    IN  /\ reaper[w].pc = "failing" /\ d \in reaper[w].exhausted
        /\ "racingSweep" \in Faults \/ Exhausted(d) \/ AtRestFailed(d)
        /\ ApplyTransition(d, "FAILED", MaxAttempts, "ATTEMPTS_EXHAUSTED", Null, Keep, Keep)
        /\ reaper' = [reaper EXCEPT ![w] =
                        IF rest = {} THEN IdleReaper
                                     ELSE [reaper[w] EXCEPT !.exhausted = rest]]
        /\ UNCHANGED <<slot, request, faults>>

\* An error, before or after the write, ends the sweep; the next one starts over.
SweepError(w) ==
    /\ reaper[w].pc # "idle"
    /\ Fault("dbError") \/ Fault("lostAnswer")
    /\ reaper' = [reaper EXCEPT ![w] = IdleReaper]
    /\ UNCHANGED <<row, history, slot, request>>

-----------------------------------------------------------------------------
(* A worker process dies between two steps.                                *)

Crash(w) ==
    /\ Running(w)
    /\ Fault("crash")
    /\ ProcessDies(w)
    /\ UNCHANGED <<row, history, request>>

-----------------------------------------------------------------------------
(* Manual retry: the status is read first and the row reset afterwards, in *)
(* two database calls.                                                     *)

CheckRetry(q, d) ==
    /\ request[q].pc = "new"
    /\ request' = [request EXCEPT ![q] =
                     [pc |-> IF row[d].status = "FAILED" THEN "checked" ELSE "done", doc |-> d]]
    /\ UNCHANGED <<row, history, slot, reaper, faults>>

\* Bug: the attempts of the old budget still count.
resetForManualRetry_KeepsAttempts(q) ==
    LET d == request[q].doc
    IN  /\ request[q].pc = "checked"
        /\ "racingRetry" \in Faults \/ AtRestFailed(d)
        /\ row' = [row EXCEPT ![d] =
                     [row[d] EXCEPT !.status = "RETRY_PENDING", !.reason = Null,
                                    !.errors = Null, !.due = "due", !.lease = Null]]
        /\ Record(d, "RETRY_PENDING", 0, "MANUAL_RETRY")
        /\ request' = [request EXCEPT ![q] = [request[q] EXCEPT !.pc = "done"]]
        /\ UNCHANGED <<slot, reaper, faults>>

resetForManualRetry(q) ==
    LET d == request[q].doc
    IN  /\ request[q].pc = "checked"
        /\ "racingRetry" \in Faults \/ AtRestFailed(d)
        /\ row' = [row EXCEPT ![d] =
                     [row[d] EXCEPT !.status = "RETRY_PENDING",
                                    !.attempts = 0,
                                    !.reason = Null,
                                    !.errors = Null,
                                    !.due = "due",
                                    !.lease = Null]]
        /\ Record(d, "RETRY_PENDING", 0, "MANUAL_RETRY")
        /\ request' = [request EXCEPT ![q] = [request[q] EXCEPT !.pc = "done"]]
        /\ UNCHANGED <<slot, reaper, faults>>

-----------------------------------------------------------------------------
(* The clock.                                                              *)

BackoffElapses(d) ==
    /\ row[d].due = "future"
    /\ row' = [row EXCEPT ![d] = [row[d] EXCEPT !.due = "due"]]
    /\ UNCHANGED <<history, slot, reaper, request, faults>>

LeaseRunsOut(d) ==
    /\ row[d].lease = "fresh"
    /\ "slowAttempt" \in Faults \/ ~InHand(d)
    /\ row' = [row EXCEPT ![d] = [row[d] EXCEPT !.lease = "expired"]]
    /\ UNCHANGED <<history, slot, reaper, request, faults>>

-----------------------------------------------------------------------------

SlotStep(s) == \/ \E d \in Documents : claimNext(s, d)
               \/ recordClaimEvent(s)
               \/ extract(s)
               \/ FailBeforeRetry(s)
               \/ Settle(s)

ReaperStep(w) == \/ reclaimExpired(w)
                 \/ \E d \in Documents : RecordReclaim(w, d)
                 \/ findExhaustedStaleIds(w)
                 \/ \E d \in Documents : FailExhausted(w, d)

RequestStep(q) == \/ \E d \in Documents : CheckRetry(q, d)
                  \/ resetForManualRetry(q)

Misfortune == \/ \E s \in Slots : \/ ClaimError(s)
                                 \/ \E d \in Documents : ClaimAnswerLost(s, d)
                                 \/ WriteError(s)
                                 \/ WriteAnswerLost(s)
              \/ \E w \in Workers : ReclaimAnswerLost(w) \/ SweepError(w) \/ Crash(w)

Clock(d) == BackoffElapses(d) \/ LeaseRunsOut(d)

Next == \/ \E d \in Documents : createWithEvent(d) \/ Clock(d)
        \/ \E s \in Slots : SlotStep(s)
        \/ \E w \in Workers : ReaperStep(w)
        \/ \E q \in Requests : RequestStep(q)
        \/ Misfortune

(***************************************************************************)
(* Time passes; a running worker polls, finishes what it started (the      *)
(* processor always answers) and sweeps on a timer.  Nobody has to upload  *)
(* or to ask for a retry.                                                  *)
(***************************************************************************)
Fairness == /\ \A d \in Documents : WF_vars(BackoffElapses(d)) /\ WF_vars(LeaseRunsOut(d))
            /\ \A s \in Slots : WF_vars(SlotStep(s))
            /\ \A w \in Workers : WF_vars(ReaperStep(w))

Spec == Init /\ [][Next]_vars /\ Fairness

-----------------------------------------------------------------------------
(* Properties.                                                             *)

TypeOK == /\ row \in [Documents -> Row]
          /\ history \in [Documents -> Seq(Event)]
          /\ slot \in [Slots -> Slot]
          /\ reaper \in [Workers -> Reaper]
          /\ request \in [Requests -> Request]
          /\ faults \in Seq(FaultKinds)

\* Whatever goes wrong, a document that is not settled is visible to one of the
\* two loops of the worker: the queue query (which skips rows whose
\* next_attempt_at is NULL) or the reaper (which skips rows whose locked_at is
\* NULL).  No write of any actor leaves a row in between.
SeenByQueueOrReaper ==
    \A d \in Documents :
      /\ row[d].status \in Waiting => row[d].due # Null
      /\ row[d].status = "PROCESSING" <=> row[d].lease # Null

\* Whatever goes wrong, a document is shown as PROCESSED only with data that
\* passed validation and no issues beside it, and as VALIDATION_FAILED only with
\* the rejected data and its issues, even when writes of several attempts and
\* retries have overwritten one another.
ResultMatchesStatus ==
    \A d \in Documents :
      /\ row[d].status = "PROCESSED" =>
            row[d].data = "valid" /\ row[d].errors = Null /\ row[d].reason = Null
      /\ row[d].status = "VALIDATION_FAILED" =>
            row[d].data = "invalid" /\ row[d].errors = "issues"

\* An event that can follow a settlement without the row having moved: those two
\* are written by a statement of their own.
WrittenApart(event) ==
    event.status = "PROCESSING" \/ event.reason = "LEASE_EXPIRED"

\* The events tell this outcome, and after it only what was written apart.
Tells(events, status, reason) ==
    \E i \in 1 .. Len(events) :
      /\ events[i].status = status
      /\ events[i].reason = reason
      /\ \A j \in i + 1 .. Len(events) : WrittenApart(events[j])

\* Whatever goes wrong, the outcome a settled row shows is the one its history
\* tells: there is an event with that status and reason, and after it only
\* events that claims and sweeps wrote late.
OutcomeIsInHistory ==
    \A d \in Documents : row[d].status \in Terminal =>
      Tells(history[d], row[d].status, row[d].reason)

\* Attempts end within their lease, retries and sweeps find what they read, and
\* no answer of the database is lost.  The code ensures none of these, and each is
\* needed for OutcomeIsFinal.  Workers may still die and writes may fail.
Timely == Faults \subseteq {"crash", "dbError"}

\* No document is processed by two attempts at once.  Holds when Timely.
OneAttemptAtATime ==
    \A s, t \in Slots : slot[s].doc = slot[t].doc /\ slot[s].doc # NoDocument => s = t

\* The automatic attempts of a document never exceed the budget, although the
\* claim does not look at it.  Holds when Timely.
AttemptsWithinBudget == \A d \in Documents : row[d].attempts <= MaxAttempts

\* While an attempt lives, the row is the one it claimed: its attempt number is
\* the row's, and no other actor has moved the row on.  Holds when Timely.
AttemptOwnsRow ==
    \A s \in Slots : slot[s].doc # NoDocument =>
      LET r == row[slot[s].doc]
      IN  /\ r.status \in {"PROCESSING", "FAILED"}
          /\ r.attempts = slot[s].attempt

\* A document processed or rejected keeps that outcome for ever.  Holds when Timely,
\* where sweeps and retries write only rows that still are as they were read; a slow
\* attempt, a lost answer, a late retry or a late sweep would each overwrite one.
OutcomeIsFinal ==
    [][\A d \in Documents : row[d].status \in {"PROCESSED", "VALIDATION_FAILED"}
          => row'[d] = row[d]]_vars

\* The attempt numbers in a history never go back, except at a manual retry:
\* an event of an attempt is never written after one of a later attempt.  Holds
\* when Timely.
AttemptsInOrder ==
    \A d \in Documents : \A i, j \in 1 .. Len(history[d]) :
      (/\ i < j
       /\ history[d][j].attempt # NoAttempt
       /\ \A k \in i + 1 .. j : history[d][k].reason # "MANUAL_RETRY")
      => history[d][i].attempt <= history[d][j].attempt

\* FAILED at rest means what it says: every attempt was used.
FailedOnlyWhenExhausted ==
    \A d \in Documents : AtRestFailed(d) =>
      row[d].attempts = MaxAttempts /\ row[d].reason = "ATTEMPTS_EXHAUSTED"

\* With one slot to a process, one failed database call strands no document: the
\* catch block of processNextDocument mends a retry that was half written, and the
\* reaper a claim.
OneErrorIsMended ==
    Concurrency = 1 /\ faults \in {<<>>, <<"dbError">>} => FailedOnlyWhenExhausted

\* Someone is about to write an event of the document.
EventPending(d) == \/ \E s \in Slots : slot[s].pc = "recording" /\ slot[s].doc = d
                   \/ \E w \in Workers : d \in reaper[w].reclaimed

LastStatus(d) == IF history[d] = <<>> THEN Absent ELSE history[d][Len(history[d])].status

\* The documents say of every transition that row and history cannot disagree:
\* unless an event is still to be written, the last event of the history and the
\* row show the same status.
HistoryShowsStatus ==
    \A d \in Documents : EventPending(d) \/ LastStatus(d) = row[d].status

\* As long as no process died and no database call failed, the last event and the
\* row agree: what is written apart catches up.
HistoryKeepsUp == faults = <<>> => HistoryShowsStatus

\* As long as nobody kills the process, an attempt waiting for the processor gets
\* its answer: an error in one slot does not abandon the others.
NoAttemptAbandoned ==
    [][\A s \in Slots : slot[s].pc = "extracting" =>
         slot'[s].pc \in {"extracting", "settling"}]_vars

\* Every uploaded document ends settled, whatever crashes, errors and lost answers
\* it meets on the way: the worker polls, and a dead worker's lease runs out.
EventuallySettled ==
    \A d \in Documents : <>[](row[d].status \in Terminal \cup {Absent})

-----------------------------------------------------------------------------
(* The abstract life of a document this pipeline implements.  A failure    *)
(* that will be retried is written as FAILED and then as RETRY_PENDING;    *)
(* between the two the attempt still works on the document.                *)

PhaseOf(status, held) ==
    CASE status = Absent -> "absent"
      [] status \in Waiting -> "waiting"
      [] status = "PROCESSING" -> "working"
      [] status = "PROCESSED" -> "processed"
      [] status = "VALIDATION_FAILED" -> "rejected"
      [] status = "FAILED" -> IF held THEN "working" ELSE "failed"

Phase == [d \in Documents |-> PhaseOf(row[d].status, InHand(d))]

Tries == [d \in Documents |-> row[d].attempts]

Life == INSTANCE Lifecycle WITH phase <- Phase, tries <- Tries

\* The pipeline implements the abstract life of a document: every step of a
\* worker, a sweep, a crash or a request is a step of it or leaves it alone.
ImplementsLifecycle == Life!Spec

=============================================================================
