--------------------------- MODULE WorkerLoop_proofs ---------------------------
(***************************************************************************)
(* Theorems about WorkerLoop: drains do not overlap, documents are held by *)
(* exactly the live slots, and a worker of its own strands none by itself. *)
(***************************************************************************)
EXTENDS WorkerLoop, TLAPS

Slot == [pc : {"off", "claiming", "empty", "recording", "working", "hung"},
         doc : Documents \cup {NoDocument}]

Doc == [state : States, tries : Nat, struck : BOOLEAN]

(***************************************************************************)
(* The strengthening.  A slot holds a document exactly between its claim   *)
(* and the end of its attempt; slots run only while a drain does; and a    *)
(* drain is under way or scheduled only by the process that is up, so that *)
(* a new one starts when the last one is over.                             *)
(***************************************************************************)
Types == /\ slot \in [Slots -> Slot]
         /\ doc \in [Documents -> Doc]
         /\ stops \in Nat

Busy == \A i \in Slots : /\ slot[i].pc \in {"recording", "working"} <=> slot[i].doc # NoDocument
                         /\ slot[i].pc = "off" => slot[i] = Off

Quiet == stage \in {"down", "connecting"} => tick = "ended"

LoopInv == Types /\ Busy /\ Quiet /\ SlotsRestBetweenTicks /\ HeldBySlots

-----------------------------------------------------------------------------

LEMMA OffIsSlot == Off \in Slot /\ [Off EXCEPT !.pc = "claiming"] \in Slot
  BY DEF Off, Slot

\* The end of a process releases every slot and every held document.
LEMMA GoneInv ==
    ASSUME LoopInv, NEW struck \in BOOLEAN, Gone(struck), stops' \in Nat PROVE LoopInv'
  <1>1. /\ \A i \in Slots : slot'[i] = Off
        /\ stage' = "down" /\ tick' = "ended"
        /\ slot' \in [Slots -> Slot]
    BY OffIsSlot DEF Gone
  <1>2. ASSUME NEW d \in Documents
        PROVE  doc'[d] \in Doc /\ doc'[d].state # "held"
    <2>1. doc[d] \in Doc
      BY DEF LoopInv, Types
    <2> QED
      BY <2>1 DEF Gone, States, Doc
  <1>3. doc' \in [Documents -> Doc]
    BY <1>2 DEF Gone
  <1>4. Types' /\ Busy' /\ Quiet' /\ SlotsRestBetweenTicks'
    BY <1>1, <1>3 DEF Types, Busy, Quiet, SlotsRestBetweenTicks, AllOff, Off
  <1>5. HeldBySlots'
    BY <1>1, <1>2, NoDocumentAssumption DEF HeldBySlots, Off
  <1> QED
    BY <1>4, <1>5 DEF LoopInv

\* A drain starts with every slot at the queue and none with a document.
LEMMA StartDrainInv ==
    ASSUME LoopInv, StartDrain, AllOff, UNCHANGED doc, stops' = stops,
           stage' \notin {"down", "connecting"}
    PROVE  LoopInv'
  <1>1. /\ \A i \in Slots : slot'[i].pc = "claiming" /\ slot'[i].doc = NoDocument
        /\ slot' \in [Slots -> Slot] /\ tick' = "draining"
    BY OffIsSlot DEF StartDrain, Off
  <1>2. \A i \in Slots : slot[i].doc = NoDocument
    BY DEF AllOff, Off
  <1>3. HeldBySlots'
    BY <1>1, <1>2, NoDocumentAssumption DEF LoopInv, HeldBySlots
  <1>4. Types' /\ Busy' /\ Quiet' /\ SlotsRestBetweenTicks'
    BY <1>1 DEF LoopInv, Types, Busy, Quiet, SlotsRestBetweenTicks
  <1> QED
    BY <1>3, <1>4 DEF LoopInv

\* One slot moves within a drain and keeps the document it has.
LEMMA SlotMovesInv ==
    ASSUME LoopInv, NEW i \in Slots, NEW s \in Slot,
           slot[i].pc # "off",
           slot' = [slot EXCEPT ![i] = s],
           s.doc = slot[i].doc,
           s.pc \in {"recording", "working"} <=> s.doc # NoDocument,
           s.pc = "off" => s = Off,
           UNCHANGED <<doc, stage, tick, stops>>
    PROVE  LoopInv'
  <1>1. /\ slot' \in [Slots -> Slot]
        /\ \A j \in Slots : slot'[j].doc = slot[j].doc
        /\ \A j \in Slots : slot'[j] = slot[j] \/ (j = i /\ slot'[j] = s)
    BY DEF LoopInv, Types
  <1>2. tick = "draining"
    BY DEF LoopInv, SlotsRestBetweenTicks, AllOff, Off
  <1>3. Types' /\ Busy'
    BY <1>1 DEF LoopInv, Types, Busy
  <1>4. Quiet' /\ SlotsRestBetweenTicks'
    BY <1>2 DEF LoopInv, Quiet, SlotsRestBetweenTicks
  <1>5. HeldBySlots'
    BY <1>1 DEF LoopInv, HeldBySlots
  <1> QED
    BY <1>3, <1>4, <1>5 DEF LoopInv

\* Documents nobody holds move from state to state without the process.
LEMMA DocumentsMoveInv ==
    ASSUME LoopInv, UNCHANGED <<slot, stage>>, stops' \in Nat,
           tick' = tick \/ (tick' # "draining" /\ AllOff /\ Quiet'),
           doc' \in [Documents -> Doc],
           \A d \in Documents : doc'[d].state = "held" <=> doc[d].state = "held"
    PROVE  LoopInv'
  BY DEF LoopInv, Types, Busy, Quiet, SlotsRestBetweenTicks, AllOff, HeldBySlots

THEOREM LoopCorrect == Spec => []LoopInv
<1>1. Init => LoopInv
  BY OffIsSlot, NoDocumentAssumption
     DEF Init, LoopInv, Types, Busy, Quiet, SlotsRestBetweenTicks, HeldBySlots, AllOff, Off, States,
         Doc
<1>2. LoopInv /\ [Next]_vars => LoopInv'
  <2> SUFFICES ASSUME LoopInv, [Next]_vars PROVE LoopInv'
    OBVIOUS
  <2>t. Types /\ Busy /\ Quiet /\ SlotsRestBetweenTicks /\ HeldBySlots
    BY DEF LoopInv
  <2>1. CASE UNCHANGED vars
    BY <2>1 DEF vars, LoopInv, Types, Busy, Quiet, SlotsRestBetweenTicks, AllOff, HeldBySlots
  <2>2. CASE Process
    <3>1. CASE Boot
      BY <2>t, <3>1 DEF Boot, LoopInv, Types, Busy, Quiet, SlotsRestBetweenTicks, AllOff, HeldBySlots
    <3>2. CASE startWorker
      <4>1. AllOff
        BY <2>t, <3>2 DEF startWorker, Quiet, SlotsRestBetweenTicks
      <4> QED
        BY <3>2, <4>1, StartDrainInv DEF startWorker
    <3>3. CASE Exit
      BY <2>t, <3>3, GoneInv DEF Exit, Types
    <3> QED
      BY <2>2, <3>1, <3>2, <3>3 DEF Process
  <2>3. CASE Loops
    <3>1. CASE DrainEnds
      BY <2>t, <3>1 DEF DrainEnds, Rest, LoopInv, Types, Busy, Quiet, SlotsRestBetweenTicks,
                        AllOff, HeldBySlots
    <3>2. CASE Poll
      <4>1. AllOff /\ stage \notin {"down", "connecting"}
        BY <2>t, <3>2 DEF Poll, Quiet, SlotsRestBetweenTicks
      <4> QED
        BY <3>2, <4>1, StartDrainInv DEF Poll
    <3> QED
      BY <2>3, <3>1, <3>2 DEF Loops
  <2>4. CASE ReaperLoop
    <3>1. CASE reap
      <4>1. ASSUME NEW d \in Documents
            PROVE  /\ doc'[d] \in Doc
                   /\ doc'[d].state = "held" <=> doc[d].state = "held"
        <5>1. doc[d] \in Doc
          BY <2>t DEF Types
        <5> QED
          BY <3>1, <5>1 DEF reap, States, Doc
      <4>2. doc' \in [Documents -> Doc]
        BY <3>1, <4>1 DEF reap
      <4> QED
        BY <2>t, <3>1, <4>1, <4>2, DocumentsMoveInv DEF reap, Types
    <3>2. CASE ReaperTimer
      BY <2>t, <3>2, DocumentsMoveInv DEF ReaperTimer, Types
    <3> QED
      BY <2>4, <3>1, <3>2 DEF ReaperLoop
  <2>5. CASE Signal
    BY <2>t, <2>5 DEF Signal, Stop, LoopInv, Types, Busy, Quiet, SlotsRestBetweenTicks, AllOff,
                      HeldBySlots
  <2>6. CASE Kill
    <3>1. Gone(TRUE)
      BY <2>6 DEF Kill
    <3>2. stops' \in Nat
      BY <2>t, <2>6 DEF Kill, Stop, Types
    <3> QED
      BY <3>1, <3>2, GoneInv
  <2>7. CASE ReapFails
    BY <2>t, <2>7, DocumentsMoveInv DEF ReapFails, Stop, Types
  <2>8. ASSUME NEW i \in Slots, SlotStep(i) PROVE LoopInv'
    <3>0. slot[i] \in Slot /\ slot \in [Slots -> Slot]
      BY <2>t DEF Types
    <3>1. ASSUME NEW d \in Documents, claimNext(i, d) PROVE LoopInv'
      <4>1. /\ slot'[i] = [pc |-> "recording", doc |-> d]
            /\ \A j \in Slots : j # i => slot'[j] = slot[j]
            /\ slot' \in [Slots -> Slot]
        BY <3>0, <3>1 DEF claimNext, Slot
      <4>2. doc[d] \in Doc /\ doc[d].state = "due"
        BY <2>t, <3>1 DEF Types, claimNext
      <4>3. /\ doc' \in [Documents -> Doc]
            /\ doc'[d].state = "held"
            /\ \A o \in Documents : o # d => doc'[o] = doc[o]
        BY <2>t, <3>1, <4>2 DEF Types, claimNext, Claimed, States, Doc
      <4>4. \A j \in Slots : slot[j].doc # d
        BY <2>t, <4>2 DEF HeldBySlots
      <4>5. tick = "draining"
        BY <2>t, <3>1 DEF claimNext, SlotsRestBetweenTicks, AllOff, Off
      <4>6. slot[i].doc = NoDocument
        BY <2>t, <3>1 DEF Busy, claimNext
      <4>7. Types' /\ Busy' /\ Quiet' /\ SlotsRestBetweenTicks'
        BY <2>t, <3>1, <4>1, <4>3, <4>5, NoDocumentAssumption
           DEF claimNext, Types, Busy, Quiet, SlotsRestBetweenTicks
      <4>8. HeldBySlots'
        BY <2>t, <4>1, <4>3, <4>4, <4>6, NoDocumentAssumption DEF HeldBySlots
      <4> QED
        BY <4>7, <4>8 DEF LoopInv
    <3>2. CASE FindsNothing(i)
      <4> DEFINE s == [slot[i] EXCEPT !.pc = "empty"]
      <4>1. s \in Slot /\ s.pc = "empty" /\ s.doc = slot[i].doc /\ s.doc = NoDocument
        BY <2>t, <3>0, <3>2 DEF Slot, Busy, FindsNothing
      <4>2. slot' = [slot EXCEPT ![i] = s] /\ slot[i].pc # "off"
        BY <3>0, <3>2 DEF FindsNothing
      <4> HIDE DEF s
      <4> QED
        BY <3>2, <4>1, <4>2, SlotMovesInv DEF FindsNothing
    <3>3. CASE StopsRefilling(i)
      BY <2>t, <3>0, <3>3, OffIsSlot, SlotMovesInv DEF StopsRefilling, Busy, Off
    <3>4. CASE recordClaimEvent(i)
      <4> DEFINE s == [slot[i] EXCEPT !.pc = "working"]
      <4>1. s \in Slot /\ s.pc = "working" /\ s.doc = slot[i].doc /\ s.doc # NoDocument
        BY <2>t, <3>0, <3>4 DEF Slot, Busy, recordClaimEvent
      <4>2. slot' = [slot EXCEPT ![i] = s] /\ slot[i].pc # "off"
        BY <3>0, <3>4 DEF recordClaimEvent
      <4> HIDE DEF s
      <4> QED
        BY <3>4, <4>1, <4>2, SlotMovesInv DEF recordClaimEvent
    <3>5. CASE processDocument(i)
      <4> DEFINE d == slot[i].doc
      <4>1. d \in Documents
        BY <2>t, <3>0, <3>5 DEF processDocument, Busy, Slot
      <4>2. doc[d] \in Doc
        BY <2>t, <4>1 DEF Types
      <4>3. /\ doc' \in [Documents -> Doc]
            /\ doc'[d].state # "held"
            /\ \A o \in Documents : o # d => doc'[o] = doc[o]
        BY <2>t, <3>5, <4>1, <4>2 DEF Types, processDocument, Becomes, States, Doc
      <4>4. LoopHead \in Slot /\ LoopHead.doc = NoDocument
            /\ LoopHead.pc \in {"claiming", "off"} /\ (LoopHead.pc = "off" => LoopHead = Off)
        BY OffIsSlot DEF LoopHead, Off
      <4>5. /\ slot'[i] = LoopHead
            /\ \A j \in Slots : j # i => slot'[j] = slot[j] /\ slot[j].doc # d
            /\ slot' \in [Slots -> Slot]
        BY <2>t, <3>0, <3>5, <4>1, <4>4, NoDocumentAssumption DEF processDocument, HeldBySlots
      <4>6. tick = "draining"
        BY <2>t, <3>5 DEF processDocument, SlotsRestBetweenTicks, AllOff, Off
      <4>7. Types' /\ Busy' /\ Quiet' /\ SlotsRestBetweenTicks'
        BY <2>t, <3>5, <4>3, <4>4, <4>5, <4>6
           DEF processDocument, Types, Busy, Quiet, SlotsRestBetweenTicks
      <4>8. HeldBySlots'
        BY <2>t, <4>1, <4>3, <4>4, <4>5, NoDocumentAssumption DEF HeldBySlots
      <4> QED
        BY <4>7, <4>8 DEF LoopInv
    <3> QED
      BY <2>8, <3>1, <3>2, <3>3, <3>4, <3>5 DEF SlotStep
  <2>9. ASSUME NEW i \in Slots, Throws(i) PROVE LoopInv'
    <3>1. Gone(TRUE)
      BY <2>9 DEF Throws
    <3>2. stops' \in Nat
      BY <2>t, <2>9 DEF Throws, Stop, Types
    <3> QED
      BY <3>1, <3>2, GoneInv
  <2>9a. ASSUME NEW i \in Slots, NEW s \in Slot, slot[i].pc = "working",
                Strikes(slot[i].doc), slot' = [slot EXCEPT ![i] = s],
                s.doc = NoDocument, s.pc \in {"hung", "claiming", "off"},
                s.pc = "off" => s = Off,
                UNCHANGED <<stage, tick>>, stops' \in Nat
         PROVE  LoopInv'
    <3> DEFINE d == slot[i].doc
    <3>0. slot[i] \in Slot /\ slot \in [Slots -> Slot] /\ d \in Documents
      BY <2>t, <2>9a DEF Types, Busy, Slot
    <3>1. /\ doc' \in [Documents -> Doc]
          /\ doc'[d].state # "held"
          /\ \A o \in Documents : o # d => doc'[o] = doc[o]
      <4>1. doc[d] \in Doc
        BY <2>t, <3>0 DEF Types
      <4> QED
        BY <2>t, <2>9a, <3>0, <4>1 DEF Types, Strikes, States, Doc
    <3>2. /\ slot'[i] = s
          /\ \A j \in Slots : j # i => slot'[j] = slot[j] /\ slot[j].doc # d
          /\ slot' \in [Slots -> Slot]
      BY <2>t, <2>9a, <3>0, NoDocumentAssumption DEF HeldBySlots
    <3>3. tick = "draining"
      BY <2>t, <2>9a DEF SlotsRestBetweenTicks, AllOff, Off
    <3>4. Types' /\ Busy' /\ Quiet' /\ SlotsRestBetweenTicks'
      BY <2>t, <2>9a, <3>1, <3>2, <3>3 DEF Types, Busy, Quiet, SlotsRestBetweenTicks
    <3>5. HeldBySlots'
      BY <2>t, <2>9a, <3>0, <3>1, <3>2, NoDocumentAssumption DEF HeldBySlots
    <3> QED
      BY <3>4, <3>5 DEF LoopInv
  <2>9b. ASSUME NEW i \in Slots, CannotSettle(i) \/ Hangs(i) PROVE LoopInv'
    <3>1. LoopHead \in Slot /\ LoopHead.doc = NoDocument
          /\ LoopHead.pc \in {"claiming", "off"} /\ (LoopHead.pc = "off" => LoopHead = Off)
      BY OffIsSlot DEF LoopHead, Off
    <3>2. [pc |-> "hung", doc |-> NoDocument] \in Slot
      BY DEF Slot
    <3> QED
      BY <2>t, <2>9b, <2>9a, <3>1, <3>2 DEF CannotSettle, Hangs, Stop, Types
  <2>10. ASSUME NEW d \in Documents, Upload(d) \/ BackoffElapses(d) \/ LeaseRunsOut(d)
         PROVE  LoopInv'
    <3>1. PICK from \in States \ {"held"}, to \in States \ {"held"} : Elsewhere(d, from, to)
      BY <2>10 DEF Upload, BackoffElapses, LeaseRunsOut, States
    <3>2. doc[d] \in Doc
      BY <2>t DEF Types
    <3>3. /\ doc' \in [Documents -> Doc]
          /\ \A o \in Documents : doc'[o].state = "held" <=> doc[o].state = "held"
      BY <2>t, <3>1, <3>2 DEF Types, Elsewhere, Becomes, Doc
    <3> QED
      BY <2>t, <3>1, <3>3, DocumentsMoveInv DEF Elsewhere, Types
  <2> QED
    BY <2>1, <2>2, <2>3, <2>4, <2>5, <2>6, <2>7, <2>8, <2>9, <2>9b, <2>10 DEF Next
<1>3. QED
  BY <1>1, <1>2, PTL DEF Spec

\* Drains never overlap: tick sets its timer only when the last slot has ended, so
\* no more than WORKER_CONCURRENCY attempts run in a process.
THEOREM DrainsDoNotOverlap == Spec => []SlotsRestBetweenTicks
  BY LoopCorrect, PTL DEF LoopInv

\* A claimed document has one live slot, and one only, until its attempt ends or a
\* misfortune strikes it; left in PROCESSING by one, it has none.
THEOREM DocumentsAreHeldOnce == Spec => []HeldBySlots
  BY LoopCorrect, PTL DEF LoopInv

(***************************************************************************)
(* Stopping.  A document that nobody works on was struck itself: a worker  *)
(* of its own exits with all its slots at rest, so that by LoopInv it      *)
(* holds no document, and a document starts each attempt unstruck.         *)
(***************************************************************************)
LEMMA StopKept == ASSUME LoopInv, StopStrandsNothing, [Next]_vars PROVE StopStrandsNothing'
<1> USE DEF StopStrandsNothing
<1>t. doc \in [Documents -> Doc] /\ \A d \in Documents : doc[d] \in Doc
  BY DEF LoopInv, Types
<1>1. CASE UNCHANGED <<doc, hosted>>
  BY <1>1
<1>2. CASE Gone(TRUE) /\ UNCHANGED hosted
  BY <1>2, <1>t DEF Gone, Doc
<1>3. CASE Exit
  <2>1. ~ hosted => \A d \in Documents : doc[d].state # "held"
    BY <1>3, NoDocumentAssumption DEF Exit, AllOff, Off, LoopInv, HeldBySlots
  <2> QED
    BY <1>3, <1>t, <2>1 DEF Exit, Gone, Doc
<1>4. CASE reap
  BY <1>4, <1>t DEF reap, Doc
<1>5. ASSUME NEW i \in Slots, NEW d \in Documents, claimNext(i, d) PROVE StopStrandsNothing'
  BY <1>5, <1>t DEF claimNext, Claimed
<1>6. ASSUME NEW i \in Slots, slot[i].pc = "working" PROVE slot[i].doc \in Documents
  BY <1>6 DEF LoopInv, Types, Slot, Busy
<1>7. ASSUME NEW i \in Slots, processDocument(i) PROVE StopStrandsNothing'
  BY <1>t, <1>6, <1>7 DEF processDocument, Becomes, Doc
<1>8. ASSUME NEW i \in Slots, CannotSettle(i) \/ Hangs(i) PROVE StopStrandsNothing'
  BY <1>t, <1>6, <1>8 DEF CannotSettle, Hangs, Strikes, Doc
<1>9. ASSUME NEW d \in Documents, Upload(d) \/ BackoffElapses(d) \/ LeaseRunsOut(d)
      PROVE  StopStrandsNothing'
  BY <1>t, <1>9 DEF Upload, BackoffElapses, LeaseRunsOut, Elsewhere, Becomes, Doc
<1> QED
  BY <1>1, <1>2, <1>3, <1>4, <1>5, <1>7, <1>8, <1>9
     DEF Next, vars, Process, Loops, ReaperLoop, Boot, startWorker, DrainEnds, Poll, ReaperTimer,
         Signal, Kill, ReapFails, SlotStep, FindsNothing, StopsRefilling, recordClaimEvent, Throws

\* stopWorker waits for the attempts in flight: a worker of its own leaves a document
\* in PROCESSING only by a misfortune of that document's last attempt, never by being
\* told to stop.
THEOREM StopIsClean == Spec => []StopStrandsNothing
<1>1. Init => StopStrandsNothing
  BY DEF Init, StopStrandsNothing
<1>2. LoopInv /\ StopStrandsNothing /\ [Next]_vars => StopStrandsNothing'
  BY StopKept
<1>3. QED
  BY <1>1, <1>2, LoopCorrect, PTL DEF Spec

-----------------------------------------------------------------------------
(***************************************************************************)
(* Types, with the budget: a document that can be claimed has an attempt   *)
(* left, which is why the claim need not look.                             *)
(***************************************************************************)
Budget == \A d \in Documents :
            /\ doc[d].tries <= MaxAttempts
            /\ doc[d].state \in {"absent", "due", "later"} => doc[d].tries < MaxAttempts

Flags == /\ hosted \in BOOLEAN /\ running \in BOOLEAN /\ queueEmpty \in BOOLEAN
         /\ stage \in {"down", "connecting", "up", "stopping"}
         /\ tick \in {"draining", "timer", "ended"} /\ sweep \in {"sweeping", "timer", "ended"}
         /\ stops \in 0 .. MaxStops

\* Every step leaves the flags in their range.
LEMMA FlagsKept == ASSUME Flags, [Next]_vars PROVE Flags'
<1>1. CASE UNCHANGED vars
  BY <1>1 DEF Flags, vars
<1>2. CASE Process \/ Loops \/ ReaperLoop
  BY <1>2 DEF Flags, Process, Loops, ReaperLoop, Boot, startWorker, StartDrain, Exit, Gone,
              DrainEnds, Poll, Rest, reap, ReaperTimer
<1>3. CASE Signal \/ Kill \/ ReapFails
  <2>1. stops' \in 0 .. MaxStops
    <3>1. Stop
      BY <1>3 DEF Signal, Kill, ReapFails
    <3> QED
      BY <3>1, MaxStopsAssumption DEF Flags, Stop
  <2>2. CASE Signal
    BY <2>1, <2>2 DEF Flags, Signal
  <2>3. CASE Kill
    BY <2>1, <2>3 DEF Flags, Kill, Gone
  <2>4. CASE ReapFails
    BY <2>1, <2>4 DEF Flags, ReapFails, Rest
  <2> QED
    BY <1>3, <2>2, <2>3, <2>4
<1>4. ASSUME NEW i \in Slots, SlotStep(i) \/ Throws(i) \/ CannotSettle(i) \/ Hangs(i)
      PROVE  Flags'
  <2>1. CASE Throws(i)
    <3>1. Stop /\ Gone(TRUE) /\ UNCHANGED hosted
      BY <2>1 DEF Throws
    <3>2. stops' \in 0 .. MaxStops
      BY <3>1, MaxStopsAssumption DEF Flags, Stop
    <3>3. hosted' \in BOOLEAN
      BY <3>1 DEF Flags
    <3> QED
      BY <3>1, <3>2, <3>3 DEF Flags, Gone
  <2>2. CASE CannotSettle(i) \/ Hangs(i)
    BY <2>2, MaxStopsAssumption DEF Flags, CannotSettle, Hangs, Stop
  <2>3. CASE SlotStep(i)
    <3>1. ASSUME NEW d \in Documents, claimNext(i, d) PROVE Flags'
      BY <3>1 DEF Flags, claimNext
    <3>2. CASE FindsNothing(i) \/ StopsRefilling(i) \/ recordClaimEvent(i)
      BY <3>2 DEF Flags, FindsNothing, StopsRefilling, recordClaimEvent
    <3>3. CASE processDocument(i)
      BY <3>3 DEF Flags, processDocument
    <3> QED
      BY <2>3, <3>1, <3>2, <3>3 DEF SlotStep
  <2> QED
    BY <1>4, <2>1, <2>2, <2>3
<1>5. ASSUME NEW d \in Documents, Upload(d) \/ BackoffElapses(d) \/ LeaseRunsOut(d) PROVE Flags'
  BY <1>5 DEF Flags, Upload, BackoffElapses, LeaseRunsOut, Elsewhere
<1> QED
  BY <1>1, <1>2, <1>3, <1>4, <1>5 DEF Next

\* No document gets more attempts than its budget.
LEMMA BudgetKept == ASSUME LoopInv, Budget, [Next]_vars PROVE Budget'
<1>t. /\ \A d \in Documents : doc[d] \in Doc
      /\ doc \in [Documents -> Doc]
  BY DEF LoopInv, Types
<1>1. CASE UNCHANGED doc
  BY <1>1 DEF Budget
<1>2. ASSUME NEW struck \in BOOLEAN, Gone(struck) PROVE Budget'
  BY <1>2, <1>t, MaxAttemptsAssumption DEF Gone, Budget, States, Doc
<1>3. CASE reap
  BY <1>3, <1>t, MaxAttemptsAssumption DEF reap, Budget, States, Doc
<1>4. ASSUME NEW d \in Documents, NEW state \in States, Becomes(d, state),
             state \in {"due", "later"} => doc[d].tries < MaxAttempts,
             state # "absent"
      PROVE  Budget'
  BY <1>4, <1>t DEF Becomes, Budget, States, Doc
<1>5. ASSUME NEW i \in Slots, NEW d \in Documents, claimNext(i, d) PROVE Budget'
  BY <1>5, <1>t, MaxAttemptsAssumption DEF claimNext, Claimed, Budget, Doc
<1>6. ASSUME NEW i \in Slots, processDocument(i) \/ CannotSettle(i) \/ Hangs(i) PROVE Budget'
  <2>1. slot[i].doc \in Documents
    BY <1>6 DEF LoopInv, Types, Slot, Busy, processDocument, CannotSettle, Hangs
  <2>2. CASE processDocument(i)
    BY <1>4, <2>1, <2>2 DEF processDocument, States
  <2>3. CASE CannotSettle(i) \/ Hangs(i)
    BY <1>t, <2>1, <2>3 DEF CannotSettle, Hangs, Strikes, Budget, Doc
  <2> QED
    BY <1>6, <2>2, <2>3
<1>7. ASSUME NEW d \in Documents, Upload(d) \/ BackoffElapses(d) \/ LeaseRunsOut(d) PROVE Budget'
  BY <1>4, <1>7 DEF Upload, BackoffElapses, LeaseRunsOut, Elsewhere, Budget, States
<1> QED
  BY <1>1, <1>2, <1>3, <1>5, <1>6, <1>7
     DEF Next, vars, Process, Loops, ReaperLoop, Boot, startWorker, Exit, DrainEnds, Poll,
         ReaperTimer, Signal, Kill, ReapFails, SlotStep, FindsNothing, StopsRefilling,
         recordClaimEvent, Throws

\* Every variable keeps its type; in particular no document gets more attempts than
\* MAX_PROCESSING_ATTEMPTS, although the claim does not look at the budget.
THEOREM LoopTypeCorrect == Spec => []TypeOK
<1>1. Init => Flags /\ Budget
  <2>1. Init => Flags
    <3>1. Init => stops \in 0 .. MaxStops
      BY MaxStopsAssumption DEF Init
    <3> QED
      BY <3>1 DEF Init, Flags
  <2>2. Init => Budget
    <3> SUFFICES ASSUME Init, NEW d \in Documents
                 PROVE  doc[d].tries <= MaxAttempts /\ doc[d].tries < MaxAttempts
      BY DEF Budget
    <3>1. doc[d].tries = 0
      BY DEF Init
    <3> QED
      BY <3>1, MaxAttemptsAssumption
  <2> QED
    BY <2>1, <2>2
<1>2. LoopInv /\ Flags /\ Budget /\ [Next]_vars => (Flags /\ Budget)'
  BY FlagsKept, BudgetKept
<1>3. LoopInv /\ Flags /\ Budget => TypeOK
  <2> SUFFICES ASSUME LoopInv, Flags, Budget PROVE TypeOK
    OBVIOUS
  <2>1. doc \in [Documents -> [state : States, tries : 0 .. MaxAttempts, struck : BOOLEAN]]
    <3>1. doc \in [Documents -> Doc]
      BY DEF LoopInv, Types
    <3>2. ASSUME NEW d \in Documents
          PROVE  doc[d] \in [state : States, tries : 0 .. MaxAttempts, struck : BOOLEAN]
      BY <3>1, MaxAttemptsAssumption DEF Budget, Doc
    <3> QED
      BY <3>1, <3>2
  <2> QED
    BY <2>1 DEF LoopInv, Types, Slot, Flags, TypeOK
<1> QED
  BY <1>1, <1>2, <1>3, LoopCorrect, PTL DEF Spec

-----------------------------------------------------------------------------
(***************************************************************************)
(* A worker of its own that was told to stop: its flag is down and its     *)
(* poll timer is cleared, so neither a slot nor a tick goes back to the    *)
(* queue.                                                                  *)
(***************************************************************************)
StopInv == stage = "stopping" /\ ~ hosted => ~ running /\ tick # "timer"

LEMMA StopInvKept == ASSUME StopInv, [Next]_vars PROVE StopInv'
<1>1. CASE UNCHANGED vars \/ UNCHANGED <<hosted, stage, running, tick>>
  BY <1>1 DEF StopInv, vars
<1>2. CASE Process \/ Loops \/ ReaperLoop
  BY <1>2 DEF StopInv, Process, Loops, ReaperLoop, Boot, startWorker, Exit, Gone, DrainEnds, Poll,
              StartDrain, Rest, reap, ReaperTimer
<1>3. CASE Signal
  BY <1>3 DEF StopInv, Signal
<1>4. ASSUME NEW struck, Gone(struck) PROVE StopInv'
  BY <1>4 DEF StopInv, Gone
<1> QED
  BY <1>1, <1>2, <1>3, <1>4
     DEF Next, Kill, ReapFails, SlotStep, claimNext, FindsNothing, StopsRefilling, recordClaimEvent,
         processDocument, Throws, CannotSettle, Hangs, Upload, BackoffElapses, LeaseRunsOut,
         Elsewhere

\* stopWorker clears the flag and the timer: a slot that is not already at its claim
\* does not return to the queue, however its attempt ends.
THEOREM StopTakesNoNewWork == Spec => NoNewWork
<1>1. LoopInv /\ StopInv /\ [Next]_vars
        => [stage = "stopping" /\ ~ hosted =>
              \A i \in Slots : slot'[i].pc = "claiming" => slot[i].pc = "claiming"]_vars
  <2> SUFFICES ASSUME LoopInv, StopInv, [Next]_vars, stage = "stopping", ~ hosted,
                      NEW j \in Slots, slot'[j].pc = "claiming"
               PROVE  slot[j].pc = "claiming"
    OBVIOUS
  <2>t. /\ ~ running /\ tick # "timer"
        /\ slot \in [Slots -> Slot] /\ \A i \in Slots : slot[i] \in Slot
    BY DEF StopInv, LoopInv, Types
  <2>1. CASE UNCHANGED slot
    BY <2>1
  <2>2. ASSUME NEW struck, Gone(struck) PROVE slot[j].pc = "claiming"
    BY <2>2 DEF Gone, Off
  <2>3. ASSUME NEW i \in Slots, SlotStep(i) \/ CannotSettle(i) \/ Hangs(i)
        PROVE  slot[j].pc = "claiming"
    <3>0. slot[i] \in Slot
      BY <2>t
    <3>1. LoopHead = Off /\ Off.pc = "off"
      BY <2>t DEF LoopHead, Off
    <3>2. slot'[i].pc # "claiming"
      <4>1. ASSUME NEW d \in Documents, claimNext(i, d) PROVE slot'[i].pc # "claiming"
        BY <2>t, <4>1 DEF claimNext
      <4>2. CASE FindsNothing(i) \/ recordClaimEvent(i)
        BY <2>t, <3>0, <4>2 DEF FindsNothing, recordClaimEvent, Slot
      <4>3. CASE StopsRefilling(i) \/ processDocument(i) \/ CannotSettle(i)
        BY <2>t, <3>1, <4>3 DEF StopsRefilling, processDocument, CannotSettle
      <4>4. CASE Hangs(i)
        BY <2>t, <4>4 DEF Hangs
      <4> QED
        BY <2>3, <4>1, <4>2, <4>3, <4>4 DEF SlotStep
    <3>3. \A k \in Slots : k # i => slot'[k] = slot[k]
      BY <2>t, <2>3 DEF SlotStep, claimNext, FindsNothing, StopsRefilling, recordClaimEvent,
                        processDocument, CannotSettle, Hangs
    <3> QED
      BY <3>2, <3>3
  <2> QED
    BY <2>t, <2>1, <2>2, <2>3
       DEF Next, vars, Process, Loops, ReaperLoop, Boot, startWorker, Exit, DrainEnds, Poll, reap,
           ReaperTimer, Signal, Kill, ReapFails, Throws, Upload, BackoffElapses, LeaseRunsOut,
           Elsewhere
<1>2. Init => StopInv
  BY DEF Init, StopInv
<1>3. QED
  BY <1>1, <1>2, StopInvKept, LoopCorrect, PTL DEF Spec, NoNewWork

=============================================================================
