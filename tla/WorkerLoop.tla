------------------------------ MODULE WorkerLoop ------------------------------
(***************************************************************************)
(* The process around the attempts: the poll loop, the reaper's timer,     *)
(* start and stop of worker.ts, either as a process of its own or inside   *)
(* the API process of server.ts.  What an attempt does to its document is  *)
(* abstract here (DocumentPipeline has it): it settles the document,       *)
(* leaves it for later, or fails to write either.                          *)
(*                                                                         *)
(* The process is single-threaded.  One step is what it does between two   *)
(* awaits, together with the database call it then waits for; the answer   *)
(* "the queue is empty" is handled in a step of its own, because the other *)
(* slots go on in between.                                                 *)
(***************************************************************************)
EXTENDS Integers

CONSTANTS
    Documents,      \* the documents that may be uploaded
    NoDocument,     \* what a slot without a document holds
    Concurrency,    \* WORKER_CONCURRENCY
    MaxAttempts,    \* MAX_PROCESSING_ATTEMPTS
    MaxStops        \* bound on signals, kills, errors, failed writes and sweeps, hung attempts

ASSUME NoDocumentAssumption == NoDocument \notin Documents
ASSUME ConcurrencyAssumption == Concurrency \in Nat \ {0}
ASSUME MaxAttemptsAssumption == MaxAttempts \in Nat \ {0}
ASSUME MaxStopsAssumption == MaxStops \in Nat

Slots == 1 .. Concurrency

VARIABLES
    hosted,         \* RUN_WORKER_IN_PROCESS: the worker lives in the API process
    stage,          \* of the process
    running,        \* the flag of worker.ts
    tick,           \* the poll loop: draining, waiting for its timer, or ended
    queueEmpty,     \* the flag the slots of one drain share
    slot,           \* the slots of the current drain; a slot not "off" is in flight
    sweep,          \* the reaper loop
    doc,            \* the documents, their attempts, and whether the last one was struck
    stops           \* how often something stopped, failed or hung so far

vars == <<hosted, stage, running, tick, queueEmpty, slot, sweep, doc, stops>>

States == {"absent", "due", "held", "stranded", "expired", "later", "settled"}

Off == [pc |-> "off", doc |-> NoDocument]
AllOff == \A i \in Slots : slot[i] = Off

Init == /\ hosted \in BOOLEAN
        /\ stage = "down" /\ running = FALSE
        /\ tick = "ended" /\ sweep = "ended" /\ queueEmpty = FALSE
        /\ slot = [i \in Slots |-> Off]
        /\ doc = [d \in Documents |-> [state |-> "absent", tries |-> 0, struck |-> FALSE]]
        /\ stops = 0

-----------------------------------------------------------------------------

Stop == stops < MaxStops /\ stops' = stops + 1

Becomes(d, state) == doc' = [doc EXCEPT ![d].state = state]

\* A misfortune leaves the document in PROCESSING with nobody at work on it.
Strikes(d) == doc' = [doc EXCEPT ![d].state = "stranded", ![d].struck = TRUE]

\* Bug: the flag outlives the drain that set it.
StartDrain_StaleFlag ==
    /\ tick' = "draining" /\ UNCHANGED queueEmpty
    /\ slot' = [i \in Slots |-> IF queueEmpty THEN Off ELSE [Off EXCEPT !.pc = "claiming"]]

\* Every slot of a drain begins with a claim, before the first await.
StartDrain == /\ tick' = "draining" /\ queueEmpty' = FALSE
              /\ slot' = [i \in Slots |-> [Off EXCEPT !.pc = "claiming"]]

\* Bug: the loop does not look at the running flag.
LoopHead_IgnoresStop == IF ~ queueEmpty THEN [Off EXCEPT !.pc = "claiming"] ELSE Off

\* The condition of the slot's while loop.
LoopHead == IF running /\ ~ queueEmpty THEN [Off EXCEPT !.pc = "claiming"] ELSE Off

\* The process is gone; what its slots held is held by nobody.
Gone(struck) ==
        /\ stage' = "down" /\ running' = FALSE
        /\ tick' = "ended" /\ sweep' = "ended" /\ queueEmpty' = FALSE
        /\ slot' = [i \in Slots |-> Off]
        /\ doc' = [d \in Documents |->
                     IF doc[d].state # "held" THEN doc[d]
                     ELSE [doc[d] EXCEPT !.state = "stranded", !.struck = struck]]

-----------------------------------------------------------------------------
(* Start, stop and death of the process.                                   *)

\* Up to the first await: the flag is set, the connection is being made.
Boot == /\ stage = "down"
        /\ stage' = "connecting" /\ running' = TRUE
        /\ UNCHANGED <<hosted, tick, queueEmpty, slot, sweep, doc, stops>>

startWorker == /\ stage = "connecting"
               /\ stage' = "up" /\ StartDrain /\ sweep' = "sweeping"
               /\ UNCHANGED <<hosted, running, doc, stops>>

\* stopWorker, up to its await: the timers are cleared.  The API process takes the
\* signal only once it is up, and leaves its worker alone.
Signal == /\ stage = "up" \/ (stage = "connecting" /\ ~ hosted)
          /\ Stop
          /\ stage' = "stopping"
          /\ IF hosted
               THEN UNCHANGED <<running, tick, sweep>>
               ELSE /\ running' = FALSE
                    /\ tick' = IF tick = "timer" THEN "ended" ELSE tick
                    /\ sweep' = IF sweep = "timer" THEN "ended" ELSE sweep
          /\ UNCHANGED <<hosted, queueEmpty, slot, doc>>

\* Bug: the slots are not in the set that stopWorker waits for.
Exit_Untracked == stage = "stopping" /\ Gone(FALSE) /\ UNCHANGED <<hosted, stops>>

\* A worker of its own waits for the slots in flight, the API process for its
\* connections, or 15 seconds.  Neither waits for a sweep.
Exit == /\ stage = "stopping"
        /\ hosted \/ AllOff
        /\ Gone(FALSE)
        /\ UNCHANGED <<hosted, stops>>

Kill == stage # "down" /\ Stop /\ Gone(TRUE) /\ UNCHANGED hosted

-----------------------------------------------------------------------------
(* The slots of a drain.                                                   *)

Claimed(d) == [state |-> "held", tries |-> doc[d].tries + 1, struck |-> FALSE]

\* Bug: the claim neither locks the row nor looks at its status again.
claimNext_Unlocked(i, d) ==
    /\ slot[i].pc = "claiming" /\ doc[d].state \in {"due", "held"}
    /\ doc' = [doc EXCEPT ![d] = Claimed(d)]
    /\ slot' = [slot EXCEPT ![i] = [pc |-> "recording", doc |-> d]]
    /\ UNCHANGED <<hosted, stage, running, tick, queueEmpty, sweep, stops>>

claimNext(i, d) ==
    /\ slot[i].pc = "claiming" /\ doc[d].state = "due"
    /\ doc' = [doc EXCEPT ![d] = Claimed(d)]
    /\ slot' = [slot EXCEPT ![i] = [pc |-> "recording", doc |-> d]]
    /\ UNCHANGED <<hosted, stage, running, tick, queueEmpty, sweep, stops>>

FindsNothing(i) ==
    /\ slot[i].pc = "claiming" /\ \A d \in Documents : doc[d].state # "due"
    /\ slot' = [slot EXCEPT ![i].pc = "empty"]
    /\ UNCHANGED <<hosted, stage, running, tick, queueEmpty, sweep, doc, stops>>

StopsRefilling(i) ==
    /\ slot[i].pc = "empty"
    /\ queueEmpty' = TRUE
    /\ slot' = [slot EXCEPT ![i] = Off]
    /\ UNCHANGED <<hosted, stage, running, tick, sweep, doc, stops>>

recordClaimEvent(i) ==
    /\ slot[i].pc = "recording"
    /\ slot' = [slot EXCEPT ![i].pc = "working"]
    /\ UNCHANGED <<hosted, stage, running, tick, queueEmpty, sweep, doc, stops>>

\* An error of the claim or of its event rejects the slot's promise, and with it the
\* one track() derives from it, which nobody handles: the process dies.
Throws(i) ==
    /\ slot[i].pc \in {"claiming", "recording"}
    /\ Stop /\ Gone(TRUE)
    /\ UNCHANGED hosted

\* The attempt ends, and the slot decides at once whether to go on.
processDocument(i) ==
    LET d == slot[i].doc
    IN  /\ slot[i].pc = "working"
        /\ \/ Becomes(d, "settled")
           \/ doc[d].tries < MaxAttempts /\ Becomes(d, "later")
        /\ slot' = [slot EXCEPT ![i] = LoopHead]
        /\ UNCHANGED <<hosted, stage, running, tick, queueEmpty, sweep, stops>>

\* A write of the attempt fails, and so does the one that should settle it: that is
\* only logged.  The slot goes on, and the document is left to its lease.
CannotSettle(i) ==
    /\ slot[i].pc = "working"
    /\ Stop
    /\ Strikes(slot[i].doc)
    /\ slot' = [slot EXCEPT ![i] = LoopHead]
    /\ UNCHANGED <<hosted, stage, running, tick, queueEmpty, sweep>>

\* The processor never answers.  extract() has no time limit: the slot is lost to the
\* drain, and the document is left to its lease.
Hangs(i) ==
    /\ slot[i].pc = "working"
    /\ Stop
    /\ Strikes(slot[i].doc)
    /\ slot' = [slot EXCEPT ![i] = [pc |-> "hung", doc |-> NoDocument]]
    /\ UNCHANGED <<hosted, stage, running, tick, queueEmpty, sweep>>

Hung == \E i \in Slots : slot[i].pc = "hung"

-----------------------------------------------------------------------------
(* The two loops.                                                          *)

\* What a loop does after its work: wait for the next turn, unless stopped.
Rest == IF running THEN "timer" ELSE "ended"

\* Bug: the tick ends with the first slot instead of the last.
DrainEnds_FirstSlot == /\ tick = "draining" /\ \E i \in Slots : slot[i] = Off
                       /\ tick' = Rest
                       /\ UNCHANGED <<hosted, stage, running, queueEmpty, slot, sweep, doc, stops>>

DrainEnds == /\ tick = "draining" /\ AllOff
             /\ tick' = Rest
             /\ UNCHANGED <<hosted, stage, running, queueEmpty, slot, sweep, doc, stops>>

Poll == /\ tick = "timer"
        /\ StartDrain
        /\ UNCHANGED <<hosted, stage, running, sweep, doc, stops>>

\* Bug: the sweep does not look at the attempts.
reap_NoBudget ==
    /\ sweep = "sweeping"
    /\ sweep' = Rest
    /\ doc' = [d \in Documents |-> IF doc[d].state = "expired" THEN [doc[d] EXCEPT !.state = "due"]
                                                              ELSE doc[d]]
    /\ UNCHANGED <<hosted, stage, running, tick, queueEmpty, slot, stops>>

\* Documents whose lease ran out go back to the queue or, without attempts left, fail.
reap == /\ sweep = "sweeping"
        /\ sweep' = Rest
        /\ doc' = [d \in Documents |->
                     IF doc[d].state # "expired" THEN doc[d]
                     ELSE [doc[d] EXCEPT !.state =
                             IF doc[d].tries < MaxAttempts THEN "due" ELSE "settled"]]
        /\ UNCHANGED <<hosted, stage, running, tick, queueEmpty, slot, stops>>

\* The sweep catches its own errors.
ReapFails == /\ sweep = "sweeping"
             /\ Stop
             /\ sweep' = Rest
             /\ UNCHANGED <<hosted, stage, running, tick, queueEmpty, slot, doc>>

\* Bug: the sweep is taken at the end of a tick instead of by a timer of its own.
ReaperTimer_AfterTick ==
    /\ sweep = "timer" /\ tick = "timer"
    /\ sweep' = "sweeping"
    /\ UNCHANGED <<hosted, stage, running, tick, queueEmpty, slot, doc, stops>>

ReaperTimer == /\ sweep = "timer"
               /\ sweep' = "sweeping"
               /\ UNCHANGED <<hosted, stage, running, tick, queueEmpty, slot, doc, stops>>

-----------------------------------------------------------------------------
(* What happens to documents outside the process.                          *)

Elsewhere(d, from, to) ==
    /\ doc[d].state = from /\ Becomes(d, to)
    /\ UNCHANGED <<hosted, stage, running, tick, queueEmpty, slot, sweep, stops>>

Upload(d) == Elsewhere(d, "absent", "due")
BackoffElapses(d) == Elsewhere(d, "later", "due")
LeaseRunsOut(d) == Elsewhere(d, "stranded", "expired")

-----------------------------------------------------------------------------

SlotStep(i) == \/ \E d \in Documents : claimNext(i, d)
               \/ FindsNothing(i)
               \/ StopsRefilling(i)
               \/ recordClaimEvent(i)
               \/ processDocument(i)

Process == Boot \/ startWorker \/ Exit
Loops == DrainEnds \/ Poll
ReaperLoop == reap \/ ReaperTimer

Next == \/ Process \/ Loops \/ ReaperLoop
        \/ Signal \/ Kill \/ ReapFails
        \/ \E i \in Slots : SlotStep(i) \/ Throws(i) \/ CannotSettle(i) \/ Hangs(i)
        \/ \E d \in Documents : Upload(d) \/ BackoffElapses(d) \/ LeaseRunsOut(d)

(***************************************************************************)
(* Whoever runs the process starts it again; timers fire, calls return and *)
(* every attempt ends, but for one that hangs.  Nobody has to kill a hung  *)
(* process.                                                                *)
(***************************************************************************)
Fairness == /\ WF_vars(Process) /\ WF_vars(Loops) /\ WF_vars(ReaperLoop)
            /\ \A i \in Slots : WF_vars(SlotStep(i))
            /\ \A d \in Documents : WF_vars(BackoffElapses(d)) /\ WF_vars(LeaseRunsOut(d))

Spec == Init /\ [][Next]_vars /\ Fairness

-----------------------------------------------------------------------------
(* Properties.                                                             *)

TypeOK ==
    /\ hosted \in BOOLEAN /\ running \in BOOLEAN /\ queueEmpty \in BOOLEAN
    /\ stage \in {"down", "connecting", "up", "stopping"}
    /\ tick \in {"draining", "timer", "ended"} /\ sweep \in {"sweeping", "timer", "ended"}
    /\ slot \in [Slots -> [pc : {"off", "claiming", "empty", "recording", "working", "hung"},
                           doc : Documents \cup {NoDocument}]]
    /\ doc \in [Documents -> [state : States, tries : 0 .. MaxAttempts, struck : BOOLEAN]]
    /\ stops \in 0 .. MaxStops

\* Two drains never overlap, however late the last slot of one ends: at most
\* Concurrency attempts run, and no slot sees the queueEmpty flag of another drain.
SlotsRestBetweenTicks == tick # "draining" => AllOff

\* A claimed document is one live slot's until its attempt ends or is struck (in
\* PROCESSING it may stay longer): no path of starting, draining and dying forgets
\* one or hands it to two slots.
HeldBySlots ==
    /\ \A d \in Documents : doc[d].state = "held" <=> \E i \in Slots : slot[i].doc = d
    /\ \A i, j \in Slots : slot[i].doc = slot[j].doc /\ slot[i].doc # NoDocument => i = j

\* A slot of a worker told to stop does not return to the queue; one that was
\* already at its claim still claims.
NoNewWork ==
    [][stage = "stopping" /\ ~ hosted =>
         \A i \in Slots : slot'[i].pc = "claiming" => slot[i].pc = "claiming"]_vars

\* However often it is told to stop and started again, a worker of its own leaves a
\* document in PROCESSING only if a misfortune struck that document's last attempt:
\* its process was killed or died of an error, it hung, or it could not be settled.
StopStrandsNothing ==
    ~ hosted => \A d \in Documents :
                  doc[d].state \in {"stranded", "expired"} => doc[d].struck

\* Every uploaded document ends settled: the drains go on, whatever order slots
\* find the queue empty in, and every restart sweeps.  An attempt that hangs for ever
\* takes that away: its drain does not end, so the process polls no more.
EveryDocumentSettles ==
    []<>~ Hung => \A d \in Documents : doc[d].state # "absent" ~> doc[d].state = "settled"

\* An expired lease is taken up, also by a process whose poll loop waits for a hung
\* attempt: the reaper has a timer of its own.  Only a worker that waits for the hung
\* attempt in its shutdown sweeps no more.
ExpiredLeasesAreTakenUp ==
    \A d \in Documents :
      doc[d].state = "expired" ~> doc[d].state # "expired" \/ (stage = "stopping" /\ Hung)

=============================================================================
