# Verification of the document scanner

The repository is a web application that accepts PDF invoices, extracts their data with a
(mock) processor in background workers, validates the data, and shows the progress in a
browser.  This directory holds TLA+ models of the parts that have state and concurrency,
the TLC configurations that check them on small instances, and theorems about them that
TLAPS proves for every value of the constants.

Paths below are relative to `src/backend/src/` (backend) and `src/frontend/` unless they
start with `src/`.

## 1. The system

| Component | State it keeps | Operations | Modelled by |
|---|---|---|---|
| Documents table as a queue (`config/queue.ts`) | one row per document: `status`, `attempt_count`, `next_attempt_at`, `locked_at` | `claimNext`, `reclaimExpired`, `findExhaustedStaleIds` | `DocumentPipeline` |
| Transitions and events (`repositories/documents.repo.ts`) | the row and its `document_events` | `createWithEvent`, `applyTransition`, `recordClaimEvent`, `resetForManualRetry` | `DocumentPipeline` |
| One processing attempt (`services/processing.service.ts`) | local variables of a worker slot | `processNextDocument`, `processDocument`, `finishFailure` | `DocumentPipeline` |
| Manual retry (`services/documents.service.ts`) | the request | `retryDocument` | `DocumentPipeline` |
| Worker (`worker.ts`) | slots, flags, timers, the sweep | `drain`, `tick`, `reap`, `startWorker`, `stopWorker` | `WorkerLoop`; the writes of a sweep: `DocumentPipeline` |
| API server process (`server.ts`) | its worker, if it hosts one | start, `shutdown` | `WorkerLoop` (`hosted`), partly |
| Mock processor, validator, classifier, backoff (`processing/`) | none | `extract`, `validateExtractedData`, `classify`, `backoffMs` | `Extraction` |
| Upload (`services/documents.service.ts`) | the request, the unique `content_hash` | `uploadDocument` | `DocumentUpload` |
| File storage (`storage/file-storage.ts`) | files on disk | `save`, `read`, `delete` | `DocumentUpload` |
| Upload page (`app/upload/page.tsx`) | chosen file, submission, banner, error | choose, submit | `UploadForm`, partly |
| Errors (`common/errors.ts`, `middleware/error-handler.ts`, `lib/api.ts`) | none | classify, answer, quote | `ApiErrors`, used by `UploadForm` |
| Polling hook (`lib/usePolledResource.ts`) | effects, timer, data, error, loading | mount, poll, cancel, refresh | `PolledResource` |
| Detail page (`app/documents/[id]/page.tsx`) | the hook, the retry in flight | read document and history, retry | `DetailPage`, composed in `Browser` |
| Dashboard and its counts (`app/page.tsx`, `getStats`) | the hook | read counts and recent documents, follow a tile or a row | `Dashboard`, composed in `Browser` |
| List page, filters, list query (`app/documents/page.tsx`, `components/Filters.tsx`, `listDocuments`) | URL, search box, debounce timer, the hook | filter, search, page, back, reset, poll | `DocumentsPage` |
| Health check, configuration, presentation | none | probes, formatting, rendering | not modelled (section 12) |

The API process writes UPLOADED rows and manual retries; worker processes poll the table,
claim a row by setting PROCESSING and a lease (`locked_at`), and write the outcome by id.
The reaper in each worker process returns rows whose lease is too old to the queue, or
fails them when their attempts are used.  There is no broker: the row *is* the queue entry,
the lock and the result.  The browser reads rows and histories by polling.  PostgreSQL is
the only synchronisation; the code holds no lock across an `await`.

What is hard here, and what correctness means:

- **Leases.** Nobody renews or checks a lease, writes of an attempt go by id whatever the
  row holds by then, and the attempt budget is not compared at the claim.  Right means: no
  row falls out of sight, at most one attempt at a time, at most `MAX_PROCESSING_ATTEMPTS`
  attempts, an outcome stays.
- **Several writes.** The claim and its event, the reclaim and its events, and the FAILED
  and RETRY_PENDING halves of a failed attempt are separate database calls; a process may
  die, or a call fail, between any two.  Right means: the document is settled anyway and
  its history tells why.
- **Two stores.** The upload writes a file, then a row; two uploads of equal bytes race to
  a unique index.  Right means: one document per content, and its file is there.
- **Stale reads.** The retry checks a status and resets later; the sweep reads ids and
  fails them later; the page shows answers that arrive late.
- **Two reads.** The detail page and the dashboard each show the answers of two requests,
  read at different moments, and decide by one of them whether to go on.
- **Progress.** Everything that is uploaded ends settled, and the page ends up showing it,
  unless a processor hangs, which nothing in the code limits.

`PROJECT.json` lists each hazard at its line with the properties that cover it.

## 2. Plan

1. `DocumentPipeline` with its abstract specification `Lifecycle`; proofs of the type
   invariant and the safety invariants.  *Done.*
2. `DocumentUpload` with `FindOrCreate`; its refinement proved.  *Done.*
3. `DetailPage`, over the running pipeline.  *Done.*
4. `WorkerLoop`: `drain` with its shared `queueEmpty` flag, ticks, `startWorker`,
   `stopWorker`, the worker hosted by the API server; proofs.  *Done.*
5. `Extraction`: the mock processor's choice, the validator's rules, the backoff.  *Done.*
6. `DocumentsPage`: the list with filters, search and pages; proofs.  *Done.*
7. `UploadForm`, over the uploads; proofs.  *Done.*
8. `PolledResource`, `Dashboard` and `Browser`: the hook on its own, the counts by status,
   and a tab that moves between dashboard and detail page; proofs.  *Done.*
9. A processor that hangs, in `WorkerLoop`; what becomes of errors (`ApiErrors`), under
   `UploadForm`; proofs.  *Done.*
10. Proofs of `OutcomeIsFinal`, `AttemptsInOrder` and `ImplementsLifecycle` when timely, of
    what holds while little went wrong, and of `NoNewWork`.  *Done.*
11. The rules of `Extraction` against their definitions, and its backoff.  *Done.*
12. The counts of the dashboard, what they say of the pipeline, and `LoneChoicesAreKept`.
    *Done.*
13. An attempt that cannot be settled, in `WorkerLoop`, and what a stop leaves behind.  *Done.*

Composition: `Browser` EXTENDS `DetailPage` and `Dashboard`, which both EXTEND
`DocumentPipeline` and `PolledResource`; `UploadForm` EXTENDS `DocumentUpload` and
`ApiErrors`.  Each adds the browser's variables to a running backend.  `WorkerLoop`
stands around the attempts, which it abstracts to one step; `DocumentsPage` sees the
pipeline as statuses that change; `Extraction` fills in what `DocumentPipeline` leaves open
(the answer of an attempt and the length of a wait).

## 3. DocumentPipeline

**State.** `row` is the table, `history` the events of each document, `slot` the local
state of each concurrent attempt of each worker process, `reaper` the sweep of each
process, `request` the manual retries, `faults` the sequence of the misfortunes so far.

**Steps.** One step is one statement or transaction, or one call of the processor.

| Action | Code |
|---|---|
| `createWithEvent` | insert of the row with its UPLOADED event |
| `claimNext`, `recordClaimEvent` | the claiming UPDATE, then the PROCESSING event |
| `extract` | the processor answers (data, TIMEOUT, ERROR) or throws |
| `Settle` | `WriteProcessed`, `WriteRejected`, `WriteFailedTerminally`, `WriteRetryPending`: the transactions that end an attempt |
| `FailBeforeRetry` | the FAILED transaction that precedes RETRY_PENDING |
| `WriteError`, `WriteAnswerLost`, `AfterException` | what `processNextDocument` does when a call throws inside its `try` or in the `catch` |
| `ClaimError`, `ClaimAnswerLost`, and the same for the claim event | a call throws outside the `try`: the process dies |
| `reclaimExpired`, `RecordReclaim`, `findExhaustedStaleIds`, `FailExhausted`, `SweepError` | one sweep of `reap`, its per-document writes one by one |
| `Crash` | a worker process is killed with its slots and its sweep |
| `CheckRetry`, `resetForManualRetry` | the two halves of `retryDocument` |
| `BackoffElapses`, `LeaseRunsOut` | the clock passes `next_attempt_at` or the lease cutoff |

**Abstractions.** A timestamp is unset, ahead or behind (`due`: null, future, due; `lease`:
null, fresh, expired).  Any due row may be claimed, so `ORDER BY next_attempt_at` is left
open.  `ProcessDies` returns all slots of a process and its sweep to idle and leaves the
rows as they are.  An error of the claim or of its event is such a death: `track` in
`worker.ts:30-33` derives a promise from the slot's with `finally` and hands it to nobody,
and Node ends a process on an unhandled rejection.  `SKIP LOCKED` makes claims
atomic.  SUCCESS and INVALID_RESULT are handled by the same code, which lets the validator
decide, so an answer with data is `valid` or `invalid`; that both carry data is the contract of
`mock-processor.ts:25`.  An exception of the processor is
classified as ERROR is.  Messages, counts of pages and confidence are left out.

**Faults.** The constant `Faults` says which misfortunes an instance admits; the last three
are not failures of a component but orders of events that the code does not exclude:

| Fault | Meaning |
|---|---|
| `crash` | a worker process dies between two steps |
| `dbError` | a call throws and wrote nothing |
| `lostAnswer` | a call throws although its write was committed |
| `slowAttempt` | the lease runs out under an attempt that is alive |
| `racingRetry` | the reset is written although the document no longer rests in FAILED |
| `racingSweep` | the sweep fails a document revived since it was read |

`Timely` means that only `crash` and `dbError` occur: besides slow attempts it rules out lost
answers and the two races, in which `resetForManualRetry` and `FailExhausted` write a row that
changed since it was read.  The code looks at the row again in neither (`documents.service.ts:191`,
`worker.ts:105-120`), so `Timely` is a condition on what happens, which the code does not ensure.
It is no stronger than `OutcomeIsFinal` needs: `slowAttempt`, `lostAnswer` and `racingRetry` alone,
and `racingSweep` after a crash, each let TLC overwrite an outcome.  What holds when:

| Property | Whatever happens | Timely | Weaker |
|---|---|---|---|
| `TypeOK`, `SeenByQueueOrReaper`, `ResultMatchesStatus`, `OutcomeIsInHistory` | yes, proved | | |
| `OneAttemptAtATime`, `AttemptsWithinBudget`, `AttemptOwnsRow` | no | yes, proved | |
| `AttemptsInOrder`, `OutcomeIsFinal`, `ImplementsLifecycle` | no | yes, proved | |
| `FailedOnlyWhenExhausted` | no | no: a crash refutes it | after one `dbError` with one slot (`OneErrorIsMended`), proved |
| `HistoryShowsStatus` | no | no: a crash refutes it | without faults (`HistoryKeepsUp`), proved |
| `NoAttemptAbandoned` | no | no: an error in another slot refutes it | |
| `EventuallySettled` | | | `crash`, `dbError`, `lostAnswer`, twice |

**Lifecycle** is the promise about a document seen from outside: absent, waiting, working,
processed, rejected or failed, with a number of tries that never exceeds the budget; only
an operator reopens a failed document, and processed and rejected are for ever.  The
refinement mapping reads the phase off the row, except that FAILED while an attempt still
holds the document is `working`: it is the first half of a retry.

**Fairness.** `claimNext`, the steps of an attempt and the sweep are weakly fair per slot
and process: `startWorker` polls and sweeps by timers for as long as it runs, the process
manager restarts a dead one, and the processor is assumed to answer (`extract` has no time
limit of its own; what a processor that hangs does is `WorkerLoop`'s subject, section 7).
The clock is fair.  Uploads, retries and misfortunes are not.  The claims of a slot are fair
as a whole, not per document; in the run for liveness there is one document, so starvation
by claim order, which `ORDER BY next_attempt_at` prevents, does not arise.

## 4. DocumentUpload

`owner` is the documents table by its unique hash, `file` the store by key, `upload` the
handler's position, `answer` what it returned.  `findByContentHash`, `save`,
`createWithEvent` or `UniqueViolation`, `findWinner`, `delete` are the calls of
`uploadDocument` in order, and `FindError`, `SaveError`, `CreateError`, `CreateAnswerLost`,
`DeleteError`, `Crash` the ways they fail; `delete` hides its error, as the code does.
A key is the request's own, so a request is identified with the document it would create.
`FindOrCreate` is the abstract promise: one atomic step finds or creates.  `struck`
remembers which misfortunes happened, because the two file properties name the ones they
except: a lost answer deletes the file of a document that exists, and every misfortune but
a failed transaction may leave a file nobody refers to.  A request without a PDF is refused
(`Refuse`) before anything is written.  `getDocumentFile` reads the file of a document as
the preview does: what is absent counts as not found, what was cut short is served, so
`EveryDocumentHasItsFile` asks for the whole file.  The module has no fairness of its
own; it is checked under the upload page, and requests end, so that run does not check
deadlock.

## 5. UploadForm

Some of the requests of `DocumentUpload` come from one upload page, the others from
elsewhere.  `chosen`, `submitting`, `outcome` and `error` are the states of the page's
component; `sent` is the file a request carries; `choices` bounds choosing.

| Action | Code |
|---|---|
| `selectFile`, `selectWrongFile`, `selectNothing`, `chooseDifferent` | `selectFile` by its early returns, and the button that forgets the file |
| `onSubmit` | the handler up to its `await`; the file input stays usable |
| `uploadDocument`, `uploadRejected` | the answer: banner and empty form, or message |
| `NetworkFails` | `fetch` throws, whatever becomes of the request |
| `HandleForm` | the server: the file dropped by its declared type or refused by its bytes, or else the handler of section 4 |

The document type, the metadata rows and the drag feedback are left out; a file is its
content and whether its declared type is a PDF's.

`error` is the message on the screen with the request it answers.  What the API threw
(`Thrown`: a file dropped or refused, or anything the service did not mean to throw) becomes
a status and a text in `normalise`, the terminal error handler, and the text is quoted or
replaced in `toApiError`, the browser's client; both are in `ApiErrors`, where a text is
named after the error it was written for.  `MessageIsTrue` ties the end of that chain to its
beginning: the text blames the file only of a request that was refused for it, and the
server only if something went wrong there.  It excepts the client's own
messages.  **Fairness**: requests are handled, answers arrive, and the connection to a dead
server breaks (`ServerDied`).

## 6. Browser: PolledResource, DetailPage, Dashboard

`PolledResource` is the hook.  `effect` holds one record per run of its effect (each mount
and each refresh starts one and cancels the last), `screen` its `data`, `error` and
`loading`.  A page reads in parts, `effect[e].read` is what has been answered so far.

| Action | Code |
|---|---|
| `Mount`, `refresh`, `StartEffect`, `Cancelled` | a page is mounted blank, or `tick` changes: the effect of before is cleaned up, a new one fetches |
| `Answer` | one of the requests of the fetcher is answered |
| `FetchSucceeds` | the code after its `await`: data, no error, and a timer if `intervalMs` says so |
| `FetchFails` | the `catch` block: the error is shown and no timer set; of a cancelled effect nobody hears |
| `TimerFires` | the next round |

`DetailPage` reads a document and its history (`ReadDocument`, `ReadHistory`), goes on while
the status is not terminal (`DetailPolls`), and has the retry button: `ClickRetry` is the first
half of the pipeline's `CheckRetry`, `RetryAnswered` or `RetryFails` its answer.  A granted
retry refreshes, a refused one does not.  A history only grows, so what was read of it is its
length; `retry.seen` is its length when the last granted retry was answered, and `RetryIsSeen`
says that all the page renders afterwards is at least that new.

`Dashboard` reads the counts and the recent documents (`ReadStats`, `ReadRecent`) and goes on
while the counts show work (`DashboardPolls`).  `countByStatus` groups the rows, `Stats` fills
in the zeros and sums, `TileValues` are the numbers on the tiles and `TileLinks` the
statuses in their addresses.  `TilesCountWhatTheyLink` relates three lists of statuses that
are written apart (the backend's sum, the page's sums, the page's addresses);
`NothingMovesUncounted` relates the counts to the pipeline: when they end the polling, the
only attempts under way are those between the two writes of a failure that will be retried, as
long as no database call fails (`Page_Updates` admits no faults).

`Browser` composes them with the pipeline: the tab shows the dashboard or a document, `Open`
goes from one to the other (from the dashboard only along a row it shows), `ClickRefresh` is
the button of the error message, `Fetched` is `Promise.all`.  The list, whose rows and
addresses lead to documents too, has a module of its own (section 8).  A navigation, its
unmount and its first effect are one step, as React flushes them before the next event.

**Fairness**: `BrowserFairness` says that requests are answered and timers fire; it does not
ask that a request succeed, and users owe nothing.  Only the latest effect has requests that
are answered or a timer, so one condition for all effects is enough.

## 7. WorkerLoop

One worker, either a process of its own or, when `hosted`, inside the API process.  `stage`
is the process (down, connecting, up, stopping), `running` and `queueEmpty` the flags,
`tick` the poll loop and `sweep` the reaper's, `slot` the slots of the current drain, `doc`
the documents with their attempts.  `doc[d].struck` is a history variable: a misfortune struck
the present attempt of `d` (its process was killed or died of an error, it hung, or it could not
be settled).

| Action | Code |
|---|---|
| `Boot`, `startWorker` | the two halves of `startWorker` around the connection; the first tick and sweep |
| `StartDrain`, `LoopHead`, `StopsRefilling` | `drain`: the flag, the slots, the `while` condition |
| `claimNext`, `FindsNothing`, `recordClaimEvent`, `processDocument` | `processNextDocument`, the attempt itself in one step |
| `Throws` | a rejected slot ends the process (section 3) |
| `CannotSettle` | a write of the attempt fails, and so does the one that the `catch` block makes to settle it; that is logged, the slot goes on, and the document is left to the lease |
| `Hangs` | `extract` never answers: the slot neither ends nor goes on, and its document is left to the lease |
| `DrainEnds`, `Poll`; `reap`, `ReapFails`, `ReaperTimer` | `tick` and `reaperTick`, each rescheduled only when done and only while `running` |
| `Signal`, `Exit` | `stopWorker` and its wait for the slots in flight; for a hosted worker the shutdown of `server.ts`, which does not call it |
| `Kill` | death at any moment; its documents are stranded until their lease runs out |

A sweep is atomic and leases run out only when no live slot holds the document: what
happens otherwise is `DocumentPipeline`'s subject.  **Fairness**: the process is started
again, timers fire, attempts end but for those that hang; nobody has to kill a process that
hangs.  **Bound**: `MaxStops` counts signals, kills, uncaught errors, failed sweeps, attempts that
cannot be settled and attempts that hang together.

`StopStrandsNothing` is what `worker.ts:168-171` promises of a stop, as far as it is true: a
worker of its own may leave documents in PROCESSING, also one that is alive or exits by itself,
but only such as were struck themselves.  A slot already at its claim when the signal comes
still claims, and is waited for (`NoNewWork` says only that no slot returns to the queue).

An attempt that hangs is never given up: `drain` waits for its slot, so the process claims
nothing more, and `EveryDocumentSettles` is stated of behaviours in which no attempt hangs from some
time on.  What is left is that the reaper has a timer of its own: `ExpiredLeasesAreTakenUp`
holds with a slot hung for good.  It excepts a worker of its own that has been told to stop:
`stopWorker` has ended both loops and waits for the attempt, for ever unless someone kills it.
The system really stops there, so the run does not check deadlock.

## 8. DocumentsPage

`url` is the address bar, `past` the back stack, `navigation` where the router is heading,
`search` the search box, `timer` the debounce timer with the URL of the render that set it;
`requests`, `data`, `error`, `loading` and `poll` are the hook.  `wanted` and `lone` are
history variables: what the user last chose, and whether choices ever overlapped.

| Action | Code |
|---|---|
| `Type`, `DebounceEnds`, `toggle`, `onReset`, `onPage` | the controls, and `apply` that builds the next query string |
| `Navigated`, `Back`, `Arrive` | the router reaches a URL: render, effect that follows the URL's search, effect of the hook |
| `StartEffect`, `Refresh`, `PollTimer` | a request for the URL, the one before aborted |
| `FindMany`, `Count`, `Answered`, `Refused`, `RequestFails` | rows and total as two queries, and the answer; a search for blanks is refused after trimming |
| `Upload`, `Settles`, `Retried` | what the pipeline does to rows meanwhile |

**Assumptions.** The router takes its time, and a later push replaces one under way; the
render and the effects of an arrival are one step, as React flushes them before the next
event.  Document types and dates behave like the status chips, the sort order like one more
filter; they are left out.  The aborted request of a cancelled effect is no longer waited
for, so it is removed: the mutant that keeps it is what the `cancelled` flag prevents.
**Fairness**: answers, timers, the router, and attempts that end.  **Bound**: `MaxEvents`
counts the user's actions, failed requests and retries.

## 9. Extraction

Pure functions in a machine of one document: `Read` is an attempt, which either asks the
mock (`resolveOutcome`: mode, then hint words in the filename, then the hash) or takes a
reading any other processor might return; the outcome then follows as in
`processDocument`.  Data is as fine as the rules see it; values
of a wrong JSON type are left out.  `MockMeansWhatItSays`
relates mock and validator, which are written apart; `EveryBrokenRuleOnce` compares the
issues with a definition of what is broken (proved for every reading); `WaitsGrow` relates
successive backoffs, whose jitter is drawn from `Draws`.

## 10. What the runs show

| Run | Instance | Shows | States |
|---|---|---|---|
| `Pipeline_AllFaults` | 1 document, 2 slots, 1 retry, 2 attempts, all faults | the invariants that hold whatever happens | 1,109,000 |
| `Pipeline_Timely` | 2 documents, 2 processes, 1 retry, 2 attempts, crash and error | exclusion, budget, ownership, order, finality, `Lifecycle`; what one error leaves intact | 114,000 |
| `Pipeline_Settles` | 1 document, 2 slots, 1 retry, 2 faults | every document ends settled | 239,000 |
| `Upload_Form` | 3 requests, 2 of them from one page, 2 contents, 1 fault, 2 choices | atomic find-or-create, files kept, nothing left behind, a true banner, true messages, submissions that end | 169,000 |
| `Page_Updates` | dashboard and 1 document, 2 effects, 1 retry, 2 attempts | neither page stops silently, each goes on to the end, a retry is not followed by its failure, counts agree with pipeline and links | 309,000 |
| `Worker_Loop` | 2 documents, 2 slots, 2 attempts, 2 stops, hosted or not | drains do not overlap, a stop by itself strands nothing, everything settles, expired leases are taken up beside a hung attempt | 49,300 |
| `Extraction_Outcomes` | 432 hashes in every mode and 5 kinds of names, 324 readings, 4 attempts | mock, validator and backoff agree with one another | 233,000 |
| `List_Filters` | 2 documents, pages of 1, 1 chip, 3 texts, 3 events | tables belong to their URL, lone choices are kept, pages to their filters, rows catch up | 375,000 |

**Bounds.** Two slots are enough for two attempts to meet on one document; a third actor is
the reaper, a fourth the manual retry.  Two attempts give a first, a last, and a budget that
a slow attempt could exceed.  One misfortune per behaviour puts it between any two steps;
the liveness run admits two, so that the second may strike the recovery from the first. Two
documents in `Pipeline_Timely` let a sweep or a crash move both at once.
`Pipeline_AllFaults` alone bounds the history: `ShortHistory` drops states with more than
`MaxEvents` = 7 events, because slow attempts could go on for ever; there the theorems cover
the rest.  Three uploads of two contents give a race with a bystander.  `MaxEffects` = 2 is
a page and one navigation, whose older answer may be in flight, or one refresh or granted retry; a
third would only repeat this, as a cancelled effect can do nothing but fail.  Two stops let
a worker die while it recovers from an earlier death, and be told to stop while an attempt
hangs.  Three events are a choice, a second one that overlaps it, and going back or
failing.  The seeds of `Extraction_Outcomes` lie at the edges of every range the mock draws
from, and its dates on both sides of every rule.  Runs with liveness use no symmetry and no
constraint, but those whose bound counts steps say so above: their properties ask only that
what has begun ends.

### Divergences found

Each of these has a run that TLC refutes by a behaviour of the code:

- `Finding_HistoryGap`: a crash between the claim and its event leaves PROCESSING in the row
  and UPLOADED as the last event, although `TECHNICAL.md:989` says they can never disagree.
- `Finding_LostRetry`: a crash between the FAILED and the RETRY_PENDING transactions leaves
  the document FAILED for good with attempts unused; nothing looks at it again.
- `Finding_AbandonedAttempt`: a failed claim in one slot ends the process and the attempts
  of its other slots, against the comment at `worker.ts:65`.
- `Finding_LostFilter`: a chip set within 350 ms of typing is undone by the debounce timer,
  which pushes the filters of its own render (`components/Filters.tsx:40`).

Met on the way and given no run of their own:

- An attempt slower than `JOB_LEASE_TIMEOUT_MS` is reclaimed under its feet
  (`queue.ts:128`), so that the document is processed in parallel, which `TECHNICAL.md:971`
  rules out; its claims can then exceed the budget (`queue.ts:87` compares nothing).
- A manual retry passes the check of `documents.service.ts:191` in the window between FAILED
  and RETRY_PENDING and resets a document its worker still owns; the comment above says such
  documents are excluded "because the worker owns it".
- The detail page reads document and history by two requests and stops polling on a terminal
  status, so it may rest on an outcome its own history does not show; and it stops too when
  it polls in the FAILED window of an automatic retry: `lib/types.ts:20` calls FAILED a
  status "from which no further automatic transition occurs".  The dashboard stops in the same
  window, although its comment says "once everything is settled" (`app/page.tsx:35`).
- A retry refused because the document has moved on leaves the failure and its button on the
  screen: only a granted retry refreshes (`app/documents/[id]/page.tsx:63`).
- The dashboard's "Live — updating automatically" is drawn from the last counts
  (`app/page.tsx:42`), and stays beside an error that has ended the polling; its "Refreshing
  automatically while documents are processing" (line 269) is drawn from the list, while the
  counts, read at another moment, decide whether it does.
- "We could not upload your document" (`app/upload/page.tsx:116`) is also the title of a lost
  connection, after which the server may go on and create it.
- A lost answer of the settling transaction makes the catch block overwrite a PROCESSED row
  (`processing.service.ts:248`); a lost answer of the upload's transaction deletes the file
  of the document it created (`documents.service.ts:98`).
- "Both processes also handle `SIGTERM` gracefully, finishing in-flight work"
  (`TECHNICAL.md:993`): the API process closes its connections and exits without
  stopping the worker it hosts (`server.ts:31`), whose attempts are cut off.  The lease
  brings their documents back.
- A PDF whose type the browser does not declare is let through by the upload page, which
  says that the backend checks "by magic bytes rather than name", and dropped by
  `middleware/upload.ts:26` before its bytes are looked at.  The comment there promises "a
  clean 415"; the request is answered as one without a file.
- The rows and the total of the list are two queries; a page number may be offered that
  was empty when the rows were read.  The next poll or visit corrects it.

## 11. What is proved

The proofs assume only the named assumptions on the constants (and `Timely` where said);
the sets of documents, workers, requests, filters and contents are arbitrary, and no bound
on misfortunes or user actions has a particular value.  Beyond the types of the constants,
the assumptions say that a value for "nothing" is none of the values it stands beside
(`NoneAssumption`, `MissingAssumption`) and that the table is finite (`DocumentsFinite`).

`DocumentPipeline_proofs`: `TypeSafe`, `NothingOutOfView`, `ResultsAreConsistent`,
`OutcomesAreExplained`, for every combination of faults.  Three of the four rest on one
inductive invariant, `DurableInv`: the conjunction is needed because a writer that leaves
columns alone (`Keep`) relies on what the row held, and `OutcomeIsInHistory` needs that a
slot that records a claim event, or a sweep that records a reclaim, appends only events that
do not hide an outcome.  The lemmas about `Tells` say what an append does to it.

`DocumentPipeline_timely_proofs`: `NoParallelProcessing`, `BudgetIsKept`,
`AttemptsOwnTheirRows`, under `Timely`.  None of them is inductive: that a claim exceeds
no budget needs that waiting rows have attempts left, which needs that a row in a slot's
hands carries the slot's number and an unexpired lease, which needs that no two slots hold
the same document.  `TimelyInv` says these together with what a sweep or a request knows
about the rows it has read.  Every theorem of this module assumes `Timely`, and with it that no
answer is lost and no retry or sweep acts on a row that has changed (section 3).

From `TimelyInv` follow the rest of what holds when `Timely`:

- `OutcomesAreFinal`: whoever writes a row holds it or finds it waiting, FAILED or expired, which
  each of the four excluded faults makes false.
- `LifecycleImplemented`, the refinement, action by action.  It also needs that a document
  never uploaded has an empty row (`NewIsUntried`), or its first claim could exceed the budget
  of the abstract document.  `PhaseOf` is the mapping for one row, so that a step that leaves a
  row and its holder alone leaves its phase alone.
- `AttemptsAreOrdered`, from `OrderInv`: the events are in order, and none is of an attempt
  after the one the row counts.  A document at rest in FAILED counts as exhausted, because
  the reaper may write its event without an attempt.
- `HistoryCatchesUp`, from `CalmInv`: before anything went wrong, a document in PROCESSING is in
  a slot's hands, so no sweep finds work, and the last event is that of the row or about to be
  written.
- `OneErrorMended`, from `MendInv`: the catch block is entered by a failed call only, so the
  first failure finds no attempt in it, and the attempt it strikes is mended there.
- `FailuresInHand`: without failed calls an attempt whose row rests in FAILED stands between
  the two writes of a retry (`BetweenWrites`).

`DocumentUpload_proofs`: `FilesAreKept`, `NothingIsLeftBehind`, and the refinement
`UploadIsAtomic`, from the invariant that ties a request's position to the row and the file
it has written, and a found winner to the owner of the content.

`UploadForm_proofs`: `FormUploadsOnly` (seen without its page the form only uploads, so the
theorems before hold under it), `BannerNamesItsDocument` and `MessagesAreTrue`.  The invariant
adds that a request carries the content it was submitted with, whatever is chosen later,
that an answer names the row of its content, and that rows keep their content (`Kept`); for
the messages also that whoever owns a row was told so unless an answer was lost, that a
request is refused only for its file, and that errors do not come without a misfortune
(`TruthInv`).

`WorkerLoop_proofs`: `DrainsDoNotOverlap`, `DocumentsAreHeldOnce`, `StopIsClean`, from
`LoopInv`: slots run only during a drain, a drain exists only in a process that is up, and a
slot holds a document exactly between its claim and the end of its attempt, or its hanging.
`StopIsClean` adds `StopStrandsNothing`, which is inductive with it (`StopKept`): a worker of its own
exits with its slots at rest and so without a document, whatever failed before.
`LoopTypeCorrect` adds that a due document has attempts left, without which the type of `tries`
is not inductive.  `StopTakesNoNewWork` needs that a worker of its own which was told to stop has
neither its flag up nor its timer set (`StopInv`).

`Browser_proofs`: `BrowserOnlyReads` (every step of the browser is a step of the pipeline or
leaves it alone, so the theorems before hold under it), `PollingEndsForAReason` and
`RetriesAreSeen`.  `BrowserInv` says that only the latest effect is not cancelled, that what
it has read belongs to its page, that a page which neither fetches nor waits for a timer
shows what told it to stop, and that whatever the latest effect and the screen hold of a history is
as long as the granted retry demands, or the page is loading; it rests on histories that only grow.
`PageTypes` is the type of what was read, page by page (`ReadInv`): a page of a document is only
opened for one that was uploaded, and no row is ever deleted, so a read always finds a status.
`TilesAgreeWithLists` follows from the finite table: counts of disjoint sets add up (`CountsAddUp`).
`CountsStopTheDashboard` adds `FailuresInHand`.  It needs `Timely` and that no database call fails: the catch
block may find the row FAILED already, and its attempt is then alive without being counted.

`DocumentsPage_proofs`: `ListTypes`, `TableFollowsUrl`, `FiltersStartAtPageOne`, from two
facts: every request still waited for was made for the URL, and whatever the router heads
for is a first page or keeps the choices of the URL.  `LoneChoicesKept` has an invariant of its
own (`ChoiceInv`): as long as every choice was alone, the latest is in the timer, or where the
router is heading, or in the URL, and a page turned while the timer runs takes nothing from it.

`Extraction_proofs`: `MockAndValidatorAgree` and `BrokenRulesReportedOnce`, for every content hash,
filename, mode and reading.  Each field has rules of its own, of which at most one reports
(`OneRulePerField`), so fields and issues are in one-to-one correspondence (`RulesReportOnce`);
what the mock builds breaks no rule, or one (`BuiltToBeAccepted`, `BuiltToBeRejected`).  That a
result is the verdict on its document, and the status follows from it, is `ResultInv`.
`WaitsAlwaysGrow`: a wait lies between three and five quarters of its base and the base doubles
(`WaitsInv`).  That 2^(n+1) = 2 * 2^n is beyond the provers' arithmetic; `PowersDouble` derives it
from the library's theorem on the number of subsets.

Model-checked only: `EventuallySettled`, `SubmissionsEnd`, `PageUpdates`, `EveryDocumentSettles`,
`RowsCatchUp` and `ExpiredLeasesAreTakenUp`, which are liveness under fairness and out of the
prover's reach here.  Every safety property of a passing run is proved.

## 12. What is not modelled, and why

- The health check: a read-only probe that keeps no state and that nothing waits for.
- HTTP parsing, logging, correlation ids, configuration, presentation: stateless, wording or
  rendering.  Of the error handler, the path of an answer already begun (`headersSent`).
- The upload page's document type, metadata rows and drag feedback; the list's document types,
  dates and sort order (section 8).
- The resolution of storage keys to paths: keys are generated, one per document.
- The order in which due rows are claimed, and time itself (section 3).
- PostgreSQL, Prisma, React and the file system are modelled by how the code uses them.
