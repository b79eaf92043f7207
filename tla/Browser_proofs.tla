---------------------------- MODULE Browser_proofs ----------------------------
(***************************************************************************)
(* What is proved of the browser, for every set of documents, workers and  *)
(* requests and every number of mounts and refreshes: that the pages only  *)
(* read and retry, so that every theorem about the pipeline holds under    *)
(* them; that polling never ends in silence; that a granted retry is seen; *)
(* that what is read is of its page and of its type; that a tile counts    *)
(* what its link lists; and that counts at rest mean a pipeline at rest.   *)
(*                                                                         *)
(* The theorems about polling rest on the latest effect being the only one *)
(* that is heard of: an effect that was cancelled holds nothing it could   *)
(* show.  Those about the counts rest on a table that is finite.           *)
(***************************************************************************)
EXTENDS Browser, DocumentPipeline_timely_proofs, FiniteSetTheorems

-----------------------------------------------------------------------------
(* Types.  Polling needs only the form of the counts; that they are numbers *)
(* is PageTypes, further down.                                             *)

AllParts == DetailParts \cup DashboardParts

Counts == {0} \cup {Cardinality(S) : S \in SUBSET Documents}
AnyStats == {Stats(byStatus) : byStatus \in [Statuses -> Counts]}
Values == Statuses \cup {Absent} \cup Nat \cup AnyStats \cup SUBSET Documents

Reads == UNION {[parts -> Values] : parts \in SUBSET AllParts}

Effect == [pc : EffectPCs, page : Pages \cup {NoPage}, cancelled : BOOLEAN, read : Reads]
Screen == [read : Reads, error : BOOLEAN, loading : BOOLEAN]

BrowserTypes == /\ current \in 0 .. MaxEffects
                /\ effect \in [Effects -> Effect]
                /\ screen \in Screen
                /\ retry \in Retry

\* An effect before the latest is cancelled and holds nothing; none follows it.
LatestOnly ==
    \A e \in Effects :
      /\ e < current => effect[e].cancelled /\ effect[e].read = Unread /\ effect[e].pc # "timer"
      /\ e = current => /\ ~ effect[e].cancelled /\ effect[e].pc # "none"
                        /\ effect[e].page \in Pages
                        /\ DOMAIN effect[e].read \subseteq Parts(effect[e].page)
      /\ e > current => effect[e].pc = "none"

ScreenIsOfPage == /\ current = 0 => screen.read = Unread
                  /\ DOMAIN screen.read \in {{}, Parts(page)}

Fresh(read) == "history" \in DOMAIN read => read["history"] >= retry.seen

\* What was read since the last granted retry is as long as the history was then.
ReadsAreFresh ==
    /\ retry.request # NoRequest \/ retry.seen # 0 => OnDetail
    /\ OnDetail => /\ retry.seen <= getHistory(page)
                   /\ Fresh(effect[current].read)
                   /\ ~ screen.error /\ ~ screen.loading => Fresh(screen.read)

BrowserInv == /\ BrowserTypes /\ LatestOnly /\ ScreenIsOfPage
              /\ NeverStopsSilently /\ ReadsAreFresh

-----------------------------------------------------------------------------
(* Seen without its pages, the browser is the pipeline.                    *)

LEMMA PipelineView ==
    ASSUME [PipelineStep \/ BrowserStep]_allVars
    PROVE  [Next]_vars
<1>1. CASE \/ \E p \in Pages : Open(p)
           \/ ClickRefresh \/ RetryAnswered \/ RetryFails
  BY <1>1 DEF Open, ClickRefresh, RetryAnswered, RetryFails
<1>2. CASE \E e \in Effects : EffectStep(e) \/ EffectFails(e)
  BY <1>2 DEF EffectStep, EffectFails, EffectTimer, Fetched, Read, ReadDocument, ReadHistory
<1>3. CASE \E q \in Requests : ClickRetry(q)
  <2>1. PICK q \in Requests : ClickRetry(q)
    BY <1>3
  <2>2. page \in Documents /\ CheckRetry(q, page)
    BY <2>1 DEF ClickRetry, Shows, Rendered, OnDetail
  <2> QED
    BY <2>2 DEF Next, RequestStep
<1>4. CASE PipelineStep \/ UNCHANGED allVars
  BY <1>4 DEF PipelineStep, allVars
<1> QED
  BY <1>1, <1>2, <1>3, <1>4 DEF BrowserStep

\* The pages read and retry, and nothing else: every property of the pipeline holds
\* under them.
THEOREM BrowserOnlyReads == BrowserSpec => Spec
<1>1. [PipelineStep \/ BrowserStep]_allVars => [Next]_vars
  BY PipelineView
<1> QED
  BY <1>1, PTL DEF BrowserSpec, Spec

\* An event is never taken out of a history.
LEMMA HistoryGrows ==
    ASSUME TypeInv, [Next]_vars, NEW d \in Documents
    PROVE  /\ getHistory(d) \in Nat /\ getHistory(d)' \in Nat
           /\ getHistory(d) <= getHistory(d)'
<1> USE DEF TypeInv, TypeOK, getHistory
<1>1. \/ history' = history
      \/ \E o, status, attempt, reason : Record(o, status, attempt, reason)
  <2>1. CASE \E o \in Documents : createWithEvent(o) \/ Clock(o)
    BY <2>1 DEF createWithEvent, Clock, BackoffElapses, LeaseRunsOut
  <2>2. CASE \E s \in Slots : SlotStep(s)
    BY <2>2 DEF SlotStep, claimNext, Claim, recordClaimEvent, WriteClaimEvent, extract,
                FailBeforeRetry, WriteFailedBeforeRetry, Settle, FinalWrite, WriteProcessed,
                WriteRejected, WriteFailedTerminally, WriteRetryPending, ApplyTransition
  <2>3. CASE \E w \in Workers : ReaperStep(w)
    BY <2>3 DEF ReaperStep, reclaimExpired, RecordReclaim, findExhaustedStaleIds,
                FailExhausted, ApplyTransition
  <2>4. CASE \E q \in Requests : RequestStep(q)
    BY <2>4 DEF RequestStep, CheckRetry, resetForManualRetry
  <2>5. CASE Misfortune
    BY <2>5 DEF Misfortune, ClaimError, ClaimAnswerLost, Claim, WriteError, WriteAnswerLost,
                WriteClaimEvent, FinalWrite, WriteFailedBeforeRetry, WriteProcessed,
                WriteRejected, WriteFailedTerminally, WriteRetryPending, ApplyTransition,
                ReclaimAnswerLost, SweepError, Crash
  <2>6. CASE UNCHANGED vars
    BY <2>6 DEF vars
  <2> QED
    BY <2>1, <2>2, <2>3, <2>4, <2>5, <2>6 DEF Next
<1>2. history'[d] = history[d] \/ \E e : history'[d] = Append(history[d], e)
  BY <1>1 DEF Record
<1>3. history[d] \in Seq(Event)
  OBVIOUS
<1>4. \A e : Len(Append(history[d], e)) = Len(history[d]) + 1
  BY <1>3
<1> QED
  BY <1>2, <1>3, <1>4

-----------------------------------------------------------------------------
(* What is read.                                                           *)

LEMMA UnreadIsRead == Unread \in Reads /\ DOMAIN Unread = {}
<1>1. Unread \in [{} -> Values]
  BY DEF Unread
<1> QED
  BY <1>1 DEF Reads, Unread

LEMMA NothingRead ==
    ASSUME NEW read \in Reads, DOMAIN read = {}
    PROVE  read = Unread
BY DEF Reads, Unread

\* One more part is read.
LEMMA ReadMore ==
    ASSUME NEW read \in Reads, NEW part \in AllParts, NEW value \in Values
    PROVE  [q \in DOMAIN read \cup {part} |-> IF q = part THEN value ELSE read[q]] \in Reads
<1>1. PICK parts \in SUBSET AllParts : read \in [parts -> Values]
  BY DEF Reads
<1>2. [q \in DOMAIN read \cup {part} |-> IF q = part THEN value ELSE read[q]]
        \in [parts \cup {part} -> Values]
  BY <1>1
<1> QED
  BY <1>1, <1>2 DEF Reads

\* The parts of a page: two of its own.
LEMMA PartsOfPages ==
    ASSUME NEW p \in Pages
    PROVE  /\ Parts(p) \subseteq AllParts /\ Parts(p) # {}
           /\ p \in Documents => Parts(p) = DetailParts
           /\ p = DashboardPage => Parts(p) = DashboardParts
           /\ p # NoPage
BY PagesAssumption DEF Parts, AllParts, DetailParts, DashboardParts, Pages

-----------------------------------------------------------------------------
(* The steps of the hook.                                                  *)

\* A new effect is the latest, has read nothing, and no earlier one can show anything.
LEMMA Started ==
    ASSUME BrowserTypes, LatestOnly, NEW p \in Pages, StartEffect(p)
    PROVE  /\ current' \in 0 .. MaxEffects /\ current' # 0
           /\ effect' \in [Effects -> Effect]
           /\ effect'[current'].pc = "fetching" /\ effect'[current'].read = Unread
           /\ page' = p /\ LatestOnly'
<1> USE MaxEffectsAssumption DEF Effects
<1>1. current' = current + 1 /\ current' \in Effects /\ current \in Nat
  BY DEF StartEffect, BrowserTypes
<1>2. NoEffect \in Effect
  BY UnreadIsRead DEF NoEffect, Effect, EffectPCs
<1> DEFINE new == [NoEffect EXCEPT !.pc = "fetching", !.page = p]
<1>3. /\ new \in Effect /\ new.pc = "fetching" /\ new.page = p
      /\ ~ new.cancelled /\ new.read = Unread
  BY <1>2 DEF NoEffect, Effect, EffectPCs
<1>4. ASSUME NEW e \in Effects
      PROVE  /\ Cancelled(e) \in Effect
             /\ Cancelled(e).cancelled /\ Cancelled(e).read = Unread
             /\ Cancelled(e).pc # "timer"
  <2>1. effect[e] \in Effect
    BY DEF BrowserTypes
  <2> QED
    BY <2>1, UnreadIsRead DEF Cancelled, Effect, EffectPCs
<1>5. \A e \in Effects : effect'[e] = CASE e = current     -> Cancelled(e)
                                        [] e = current + 1 -> new
                                        [] OTHER           -> effect[e]
  BY DEF StartEffect
<1> HIDE DEF new
<1>6. effect'[current'] = new
  BY <1>1, <1>5
<1>7. ASSUME NEW e \in Effects
      PROVE  effect'[e] \in Effect
  <2>1. CASE e = current
    BY <1>4, <1>5, <2>1
  <2>2. CASE e = current + 1
    BY <1>1, <1>3, <1>6, <2>2
  <2>3. CASE e # current /\ e # current + 1
    BY <1>5, <2>3 DEF BrowserTypes
  <2> QED
    BY <2>1, <2>2, <2>3
<1>8. effect' \in [Effects -> Effect]
  BY <1>7 DEF StartEffect
<1>9. LatestOnly'
  <2> SUFFICES ASSUME NEW e \in Effects
               PROVE  /\ e < current' => /\ effect'[e].cancelled /\ effect'[e].read = Unread
                                         /\ effect'[e].pc # "timer"
                      /\ e = current' => /\ ~ effect'[e].cancelled /\ effect'[e].pc # "none"
                                         /\ effect'[e].page \in Pages
                                         /\ DOMAIN effect'[e].read \subseteq Parts(effect'[e].page)
                      /\ e > current' => effect'[e].pc = "none"
    BY DEF LatestOnly
  <2>1. CASE e = current
    BY <1>1, <1>4, <1>5, <2>1
  <2>2. CASE e = current + 1
    BY <1>1, <1>3, <1>6, <2>2, UnreadIsRead
  <2>3. CASE e < current \/ e > current + 1
    BY <1>1, <1>5, <2>3 DEF LatestOnly
  <2> QED
    BY <1>1, <2>1, <2>2, <2>3
<1>10. page' = p
  BY <1>1, <1>3, <1>6 DEF page
<1> QED
  BY <1>1, <1>3, <1>6, <1>8, <1>9, <1>10

\* The latest effect goes on.
LEMMA EffectKept ==
    ASSUME BrowserTypes, LatestOnly, current \in Effects,
           NEW changed \in Effect, changed.page = effect[current].page, ~ changed.cancelled,
           changed.pc # "none", DOMAIN changed.read \subseteq Parts(changed.page),
           effect' = [effect EXCEPT ![current] = changed], current' = current
    PROVE  /\ effect' \in [Effects -> Effect] /\ LatestOnly' /\ page' = page
           /\ effect'[current] = changed
<1>1. effect'[current] = changed /\ \A f \in Effects \ {current} : effect'[f] = effect[f]
  BY DEF BrowserTypes
<1>2. effect' \in [Effects -> Effect]
  BY DEF BrowserTypes
<1>3. LatestOnly'
  BY <1>1 DEF LatestOnly
<1>4. page' = page
  BY <1>1 DEF page
<1> QED
  BY <1>1, <1>2, <1>3, <1>4

-----------------------------------------------------------------------------
(* The steps of the browser keep the invariant.                            *)

LEMMA PageOfLatest ==
    ASSUME BrowserTypes, LatestOnly
    PROVE  /\ current = 0 <=> page = NoPage
           /\ current # 0 => current \in Effects /\ page \in Pages /\ page = effect[current].page
<1>1. current # 0 => current \in Effects
  BY MaxEffectsAssumption DEF BrowserTypes, Effects
<1>2. current # 0 => page = effect[current].page /\ page \in Pages
  BY <1>1 DEF page, LatestOnly
<1> QED
  BY <1>1, <1>2, PartsOfPages DEF page

\* A mount or a refresh: nothing read before is shown until the new effect has read.
LEMMA Restarted ==
    ASSUME BrowserInv, NEW p \in Pages, StartEffect(p),
           screen' \in Screen, screen'.loading, DOMAIN screen'.read \in {{}, Parts(p)},
           retry' \in Retry, retry'.request # NoRequest \/ retry'.seen # 0 => p \in Documents,
           p \in Documents => retry'.seen <= getHistory(p)'
    PROVE  BrowserInv'
<1>1. /\ current' \in 0 .. MaxEffects /\ current' # 0
      /\ effect' \in [Effects -> Effect]
      /\ effect'[current'].pc = "fetching" /\ effect'[current'].read = Unread
      /\ page' = p /\ LatestOnly'
  BY Started DEF BrowserInv
<1>2. BrowserTypes' /\ ScreenIsOfPage' /\ NeverStopsSilently'
  BY <1>1 DEF BrowserTypes, ScreenIsOfPage, NeverStopsSilently
<1>3. ReadsAreFresh'
  BY <1>1, UnreadIsRead DEF ReadsAreFresh, Fresh, OnDetail, getHistory
<1> QED
  BY <1>1, <1>2, <1>3 DEF BrowserInv

\* What the pipeline does meanwhile can only lengthen the history.
LEMMA PipelineKeeps ==
    ASSUME BrowserInv, TypeInv, [Next]_vars, UNCHANGED hookVars,
           retry' \in Retry, retry'.seen = retry.seen,
           retry'.request # NoRequest => OnDetail
    PROVE  BrowserInv'
<1>1. UNCHANGED <<current, effect, screen>> /\ page' = page
  BY DEF hookVars, page
<1>2. BrowserTypes' /\ LatestOnly' /\ ScreenIsOfPage'
  BY <1>1 DEF BrowserInv, BrowserTypes, LatestOnly, ScreenIsOfPage
<1>3. NeverStopsSilently'
  BY <1>1 DEF BrowserInv, NeverStopsSilently
<1>4. OnDetail => getHistory(page) <= getHistory(page)' /\ getHistory(page) \in Nat
                  /\ getHistory(page)' \in Nat
  <2>1. \A d \in Documents : /\ getHistory(d) <= getHistory(d)' /\ getHistory(d) \in Nat
                              /\ getHistory(d)' \in Nat
    BY HistoryGrows
  <2>2. \A d \in Documents : page = d => getHistory(page)' = getHistory(d)'
    BY <1>1 DEF getHistory
  <2> QED
    BY <2>1, <2>2 DEF OnDetail
<1>5. ReadsAreFresh'
  <2>1. retry.seen \in Nat
    BY DEF BrowserInv, BrowserTypes, Retry
  <2>2. OnDetail => retry.seen <= getHistory(page)'
    BY <1>4, <2>1 DEF BrowserInv, ReadsAreFresh
  <2>3. OnDetail' = OnDetail
    BY <1>1 DEF OnDetail
  <2>4. OnDetail' => /\ Fresh(effect[current].read)'
                     /\ ~ screen'.error /\ ~ screen'.loading => Fresh(screen.read)'
    BY <1>1, <2>3 DEF BrowserInv, ReadsAreFresh, Fresh
  <2>5. retry'.request # NoRequest \/ retry'.seen # 0 => OnDetail'
    BY <2>3 DEF BrowserInv, ReadsAreFresh
  <2> QED
    BY <1>1, <2>2, <2>3, <2>4, <2>5 DEF ReadsAreFresh
<1> QED
  BY <1>2, <1>3, <1>5 DEF BrowserInv

\* A part read of the mounted page is a value, and a history as long as any retry
\* answered before it.
LEMMA ReadKeeps ==
    ASSUME BrowserInv, TypeInv, NEW e \in Effects, Read(e)
    PROVE  BrowserInv'
<1>1. PICK part, value : /\ Answer(e, part, value) /\ UNCHANGED <<vars, retry>>
                         /\ \/ /\ effect[e].page \in Documents
                               /\ \/ part = "document" /\ value = getDocument(effect[e].page)
                                  \/ part = "history" /\ value = getHistory(effect[e].page)
                            \/ /\ effect[e].page = DashboardPage
                               /\ \/ part = "stats" /\ value = getStats
                                  \/ part = "recent" /\ value = recentDocuments
  BY DEF Read, ReadDocument, ReadHistory, ReadStats, ReadRecent
<1>2. e = current /\ effect[e].page = page /\ page \in Pages /\ effect[e] \in Effect
  <2>1. e = current
    BY <1>1 DEF Answer, Fetching, BrowserInv, BrowserTypes, LatestOnly, Effects
  <2> QED
    BY <2>1, PageOfLatest DEF BrowserInv, BrowserTypes, Effects
<1>3. part \in Parts(page)
  BY <1>1, <1>2, PartsOfPages DEF DetailParts, DashboardParts
<1>4. value \in Values
  <2>1. CASE part = "document" /\ page \in Documents /\ value = row[page].status
    <3>1. row[page].status \in Statuses \cup {Absent}
      BY <2>1 DEF TypeInv, TypeOK, Row
    <3> QED
      BY <2>1, <3>1 DEF Values
  <2>2. CASE page \in Documents /\ value = getHistory(page)
    BY <2>2 DEF TypeInv, TypeOK, getHistory, Values
  <2>3. CASE value = getStats
    <3> DEFINE number == [status \in Statuses |->
                            IF status \in DOMAIN countByStatus THEN countByStatus[status] ELSE 0]
    <3>1. number \in [Statuses -> Counts]
      BY DEF countByStatus, Counts
    <3>2. getStats = Stats(number)
      BY DEF getStats
    <3> QED
      BY <2>3, <3>1, <3>2 DEF AnyStats, Values
  <2>4. CASE value = recentDocuments
    BY <2>4 DEF recentDocuments, Uploaded, Values
  <2> QED
    BY <1>1, <1>2, <2>1, <2>2, <2>3, <2>4 DEF getDocument
<1> DEFINE grown == [q \in DOMAIN effect[e].read \cup {part} |->
                       IF q = part THEN value ELSE effect[e].read[q]]
           changed == [effect[e] EXCEPT !.read = grown]
<1>5. grown \in Reads /\ DOMAIN grown \subseteq Parts(page)
  <2>1. effect[e].read \in Reads /\ DOMAIN effect[e].read \subseteq Parts(page)
    BY <1>2 DEF Effect, BrowserInv, LatestOnly
  <2> QED
    BY <1>2, <1>3, <1>4, <2>1, ReadMore, PartsOfPages
<1>6. page \in Documents => Fresh(grown)
  <2> SUFFICES ASSUME page \in Documents, "history" \in DOMAIN grown
               PROVE  grown["history"] >= retry.seen
    BY DEF Fresh
  <2>1. retry.seen <= getHistory(page) /\ Fresh(effect[e].read)
    BY <1>2 DEF BrowserInv, ReadsAreFresh, OnDetail
  <2>2. retry.seen \in Nat /\ getHistory(page) \in Nat
    BY DEF BrowserInv, BrowserTypes, Retry, TypeInv, TypeOK, getHistory
  <2>3. CASE part = "history"
    BY <1>1, <1>2, <2>1, <2>2, <2>3, PagesAssumption
  <2>4. CASE part # "history"
    BY <2>1, <2>4 DEF Fresh
  <2> QED
    BY <2>3, <2>4
<1> HIDE DEF grown
<1>7. /\ changed \in Effect /\ changed.pc = effect[e].pc /\ changed.page = effect[e].page
      /\ changed.read = grown /\ ~ changed.cancelled
  BY <1>1, <1>2, <1>5 DEF Effect, Answer
<1>8. effect' = [effect EXCEPT ![e] = changed] /\ UNCHANGED <<current, screen, retry, vars>>
  BY <1>1 DEF Answer, grown
<1>9. effect[e].pc = "fetching"
  BY <1>1 DEF Answer, Fetching
<1> HIDE DEF changed
<1>10. /\ effect' \in [Effects -> Effect] /\ LatestOnly' /\ page' = page
       /\ effect'[current] = changed
  BY <1>2, <1>5, <1>7, <1>8, <1>9, EffectKept DEF BrowserInv
<1>11. BrowserTypes' /\ ScreenIsOfPage'
  BY <1>8, <1>10 DEF BrowserInv, BrowserTypes, ScreenIsOfPage
<1>12. NeverStopsSilently'
  BY <1>7, <1>8, <1>9, <1>10, <1>2 DEF NeverStopsSilently
<1>13. ReadsAreFresh'
  BY <1>6, <1>7, <1>8, <1>10
     DEF BrowserInv, ReadsAreFresh, OnDetail, Fresh, getHistory, vars
<1> QED
  BY <1>10, <1>11, <1>12, <1>13 DEF BrowserInv

\* A round that is over shows what it read, and polls on if that asks for it.
LEMMA FetchedKeeps ==
    ASSUME BrowserInv, NEW e \in Effects, Fetched(e)
    PROVE  BrowserInv'
<1> DEFINE polls == Polls(effect[e].page, effect[e].read)
           pc == IF polls THEN "timer" ELSE "ended"
           changed == [effect[e] EXCEPT !.pc = pc, !.read = Unread]
<1>1. /\ effect[e].pc = "fetching" /\ DOMAIN effect[e].read = Parts(effect[e].page)
      /\ screen' = [read |-> effect[e].read, error |-> FALSE, loading |-> FALSE]
      /\ UNCHANGED <<current, vars, retry>>
  BY DEF Fetched, FetchSucceeds, Fetching
<1>2. effect[e] \in Effect /\ effect[e].page \in Pages \cup {NoPage}
  BY DEF BrowserInv, BrowserTypes, Effect
<1>3. e = current
  <2>1. e < current => effect[e].read = Unread /\ effect[e].cancelled
    BY DEF BrowserInv, LatestOnly
  <2>2. e > current => effect[e].pc = "none"
    BY DEF BrowserInv, LatestOnly
  <2>3. Parts(effect[e].page) # {}
    BY DEF Parts, DetailParts, DashboardParts
  <2>4. current \in Nat /\ e \in Nat
    BY DEF BrowserInv, BrowserTypes, Effects
  <2> QED
    BY <1>1, <2>1, <2>2, <2>3, <2>4, UnreadIsRead
<1>4. /\ changed \in Effect /\ changed.pc = pc /\ changed.page = effect[e].page
      /\ changed.read = Unread /\ ~ changed.cancelled
  <2>1. ~ effect[e].cancelled
    BY <1>3 DEF BrowserInv, LatestOnly
  <2> QED
    BY <1>2, <2>1, UnreadIsRead DEF Effect, EffectPCs
<1>5. effect' = [effect EXCEPT ![e] = changed]
  <2>1. effect' = [effect EXCEPT ![e].pc = pc, ![e].read = Unread]
    BY DEF Fetched, FetchSucceeds, Over
  <2> QED
    BY <1>2, <2>1 DEF BrowserInv, BrowserTypes, Effect
<1>6. page = effect[e].page /\ page \in Pages
  BY <1>3, PageOfLatest DEF BrowserInv, Effects
<1>7. /\ screen'.read = effect[e].read /\ ~ screen'.error /\ ~ screen'.loading
      /\ screen' \in Screen
  BY <1>1, <1>2 DEF Screen, Effect
<1> HIDE DEF changed
<1>8. /\ effect' \in [Effects -> Effect] /\ LatestOnly' /\ page' = page
      /\ effect'[current] = changed
  BY <1>1, <1>3, <1>4, <1>5, UnreadIsRead, EffectKept DEF BrowserInv
<1>9. BrowserTypes' /\ ScreenIsOfPage'
  BY <1>1, <1>3, <1>6, <1>7, <1>8 DEF BrowserInv, BrowserTypes, ScreenIsOfPage, Effects
<1>10. NeverStopsSilently'
  <2>1. pc = "ended" => ~ polls
    OBVIOUS
  <2>2. polls = Polls(page, effect[e].read)
    BY <1>6
  <2>3. Polls(page, screen.read)' = Polls(page, effect[e].read)
    BY <1>6, <1>7, <1>8 DEF Polls, DashboardPolls, DetailPolls, isTerminal
  <2> QED
    BY <1>1, <1>4, <1>6, <1>7, <1>8, <2>1, <2>2, <2>3 DEF NeverStopsSilently
<1>11. ReadsAreFresh'
  <2>1. OnDetail => Fresh(effect[e].read)
    BY <1>3 DEF BrowserInv, ReadsAreFresh
  <2> QED
    BY <1>1, <1>4, <1>7, <1>8, <2>1, UnreadIsRead
       DEF BrowserInv, ReadsAreFresh, OnDetail, Fresh, getHistory, vars
<1> QED
  BY <1>8, <1>9, <1>10, <1>11 DEF BrowserInv

\* A failure is shown, unless its effect was cancelled.
LEMMA FailsKeeps ==
    ASSUME BrowserInv, NEW e \in Effects, EffectFails(e)
    PROVE  BrowserInv'
<1> DEFINE changed == [effect[e] EXCEPT !.pc = "ended", !.read = Unread]
<1>1. /\ effect[e].pc = "fetching" /\ UNCHANGED <<current, vars, retry>>
      /\ effect' = [effect EXCEPT ![e].pc = "ended", ![e].read = Unread]
      /\ screen' = IF effect[e].cancelled THEN screen
                   ELSE [screen EXCEPT !.error = TRUE, !.loading = FALSE]
  BY DEF EffectFails, FetchFails, Fetching, Over
<1>2. effect[e] \in Effect
  BY DEF BrowserInv, BrowserTypes
<1>3. /\ changed \in Effect /\ changed.pc = "ended" /\ changed.page = effect[e].page
      /\ changed.read = Unread
      /\ IF effect[e].cancelled THEN changed.cancelled ELSE ~ changed.cancelled
  BY <1>2, UnreadIsRead DEF Effect, EffectPCs
<1>4. effect' = [effect EXCEPT ![e] = changed]
  BY <1>1, <1>2 DEF BrowserInv, BrowserTypes, Effect
<1> HIDE DEF changed
<1>5. CASE e = current
  <2>1. ~ effect[e].cancelled
    BY <1>5 DEF BrowserInv, LatestOnly
  <2>2. screen' \in Screen /\ screen'.error /\ ~ screen'.loading /\ screen'.read = screen.read
    BY <1>1, <2>1 DEF BrowserInv, BrowserTypes, Screen
  <2>3. /\ effect' \in [Effects -> Effect] /\ LatestOnly' /\ page' = page
        /\ effect'[current] = changed
    BY <1>1, <1>3, <1>4, <1>5, <2>1, UnreadIsRead, EffectKept DEF BrowserInv
  <2>4. BrowserTypes' /\ ScreenIsOfPage' /\ NeverStopsSilently'
    BY <1>1, <2>2, <2>3 DEF BrowserInv, BrowserTypes, ScreenIsOfPage, NeverStopsSilently
  <2>5. ReadsAreFresh'
    BY <1>1, <1>3, <2>2, <2>3, UnreadIsRead
       DEF BrowserInv, ReadsAreFresh, OnDetail, Fresh, getHistory, vars
  <2> QED
    BY <2>3, <2>4, <2>5 DEF BrowserInv
<1>6. CASE e # current
  <2>1. e < current /\ effect[e].cancelled
    <3>1. e \in Nat /\ current \in Nat
      BY DEF BrowserInv, BrowserTypes, Effects
    <3>2. e > current => effect[e].pc = "none"
      BY DEF BrowserInv, LatestOnly
    <3>3. e < current
      BY <1>1, <1>6, <3>1, <3>2
    <3> QED
      BY <3>3 DEF BrowserInv, LatestOnly
  <2>2. screen' = screen /\ current' = current
    BY <1>1, <2>1
  <2>3. /\ effect'[e] = changed /\ effect' \in [Effects -> Effect]
        /\ \A f \in Effects \ {e} : effect'[f] = effect[f]
    BY <1>3, <1>4 DEF BrowserInv, BrowserTypes
  <2>4. current # 0 => effect'[current] = effect[current]
    BY <1>6, <2>3, PageOfLatest DEF BrowserInv
  <2>5. page' = page
    BY <2>2, <2>4 DEF page
  <2>6. LatestOnly'
    <3>1. /\ changed.cancelled /\ changed.read = Unread /\ changed.pc # "timer"
          /\ ~ (e = current) /\ ~ (e > current)
      BY <1>3, <2>1 DEF BrowserInv, BrowserTypes, Effects
    <3> QED
      BY <2>2, <2>3, <3>1 DEF BrowserInv, LatestOnly
  <2>7. BrowserTypes' /\ ScreenIsOfPage'
    BY <1>1, <2>2, <2>3, <2>5 DEF BrowserInv, BrowserTypes, ScreenIsOfPage
  <2>7a. NeverStopsSilently'
    <3>1. current' > 0 => current # 0
      BY <2>2
    <3> QED
      BY <2>2, <2>4, <2>5, <3>1
         DEF BrowserInv, NeverStopsSilently, Polls, DashboardPolls, DetailPolls, isTerminal
  <2>8. OnDetail => current # 0
    BY PageOfLatest, PagesAssumption DEF BrowserInv, OnDetail, Pages
  <2>9. ReadsAreFresh'
    BY <1>1, <2>2, <2>4, <2>5, <2>8
       DEF BrowserInv, ReadsAreFresh, OnDetail, Fresh, getHistory, vars
  <2> QED
    BY <2>3, <2>6, <2>7, <2>7a, <2>9 DEF BrowserInv
<1> QED
  BY <1>5, <1>6

LEMMA TimerKeeps ==
    ASSUME BrowserInv, NEW e \in Effects, EffectTimer(e)
    PROVE  BrowserInv'
<1> DEFINE changed == [effect[e] EXCEPT !.pc = "fetching"]
<1>1. /\ effect[e].pc = "timer" /\ UNCHANGED <<current, screen, vars, retry>>
      /\ effect' = [effect EXCEPT ![e].pc = "fetching"]
  BY DEF EffectTimer, TimerFires
<1>2. e = current /\ effect[e] \in Effect /\ ~ effect[e].cancelled
  BY <1>1 DEF BrowserInv, BrowserTypes, LatestOnly, Effects
<1>3. /\ changed \in Effect /\ changed.pc = "fetching" /\ changed.page = effect[e].page
      /\ changed.read = effect[e].read /\ ~ changed.cancelled
  BY <1>2 DEF Effect, EffectPCs
<1>4. effect' = [effect EXCEPT ![e] = changed]
  BY <1>1, <1>2
<1> HIDE DEF changed
<1>5. DOMAIN effect[e].read \subseteq Parts(effect[e].page)
  BY <1>2 DEF BrowserInv, LatestOnly
<1>6. /\ effect' \in [Effects -> Effect] /\ LatestOnly' /\ page' = page
      /\ effect'[current] = changed
  BY <1>1, <1>2, <1>3, <1>4, <1>5, EffectKept DEF BrowserInv
<1>7. BrowserTypes' /\ ScreenIsOfPage' /\ NeverStopsSilently'
  BY <1>1, <1>3, <1>6 DEF BrowserInv, BrowserTypes, ScreenIsOfPage, NeverStopsSilently
<1>8. ReadsAreFresh'
  BY <1>1, <1>2, <1>3, <1>6
     DEF BrowserInv, ReadsAreFresh, OnDetail, Fresh, getHistory, vars
<1> QED
  BY <1>6, <1>7, <1>8 DEF BrowserInv

\* The clicks and their answers.
LEMMA ClicksKeep ==
    ASSUME BrowserInv, TypeInv, [Next]_vars,
           \/ \E p \in Pages : Open(p)
           \/ ClickRefresh
           \/ \E q \in Requests : ClickRetry(q)
           \/ RetryAnswered
           \/ RetryFails
    PROVE  BrowserInv'
<1>1. \A d \in Documents : getHistory(d) \in Nat
  BY DEF TypeInv, TypeOK, getHistory
<1>2. retry \in Retry /\ screen \in Screen /\ NoRetry \in Retry
  BY DEF BrowserInv, BrowserTypes, NoRetry, Retry
<1>3. CASE \E p \in Pages : Open(p)
  <2>1. PICK p \in Pages : Open(p)
    BY <1>3
  <2>2. screen' = Blank /\ retry' = NoRetry /\ StartEffect(p) /\ UNCHANGED vars
    BY <2>1 DEF Open, Mount
  <2>3. Blank \in Screen /\ Blank.loading /\ Blank.read = Unread
    BY UnreadIsRead DEF Blank, Screen
  <2>4. NoRetry.request = NoRequest /\ NoRetry.seen = 0
    BY DEF NoRetry
  <2>5. p \in Documents => retry'.seen <= getHistory(p)'
    BY <1>1, <2>2, <2>4 DEF getHistory, vars
  <2> QED
    BY <1>2, <2>2, <2>3, <2>4, <2>5, UnreadIsRead, Restarted
<1>4. CASE ClickRefresh
  <2>1. /\ page \in Pages /\ StartEffect(page) /\ UNCHANGED <<vars, retry>>
        /\ screen' = [screen EXCEPT !.loading = TRUE]
    BY <1>4, PageOfLatest DEF ClickRefresh, refresh, BrowserInv
  <2>2. screen' \in Screen /\ screen'.loading /\ screen'.read = screen.read
    BY <1>2, <2>1 DEF Screen
  <2>3. DOMAIN screen'.read \in {{}, Parts(page)}
    BY <2>2 DEF BrowserInv, ScreenIsOfPage
  <2>4. retry'.request # NoRequest \/ retry'.seen # 0 => page \in Documents
    BY <2>1 DEF BrowserInv, ReadsAreFresh, OnDetail
  <2>5. page \in Documents => retry'.seen <= getHistory(page)
    BY <2>1 DEF BrowserInv, ReadsAreFresh, OnDetail
  <2>6. \A d \in Documents : getHistory(d)' = getHistory(d)
    BY <2>1 DEF getHistory, vars
  <2>7. \A p \in Pages : p = page => (p \in Documents => retry'.seen <= getHistory(p)')
    BY <2>5, <2>6
  <2>8. PICK p \in Pages : p = page
    BY <2>1
  <2> QED
    BY <1>2, <2>1, <2>2, <2>3, <2>4, <2>7, <2>8, Restarted
<1>5. CASE \E q \in Requests : ClickRetry(q)
  <2>1. PICK q \in Requests : ClickRetry(q)
    BY <1>5
  <2>2. /\ OnDetail /\ UNCHANGED hookVars
        /\ retry' = [retry EXCEPT !.request = q, !.granted = request'[q].pc = "checked"]
    BY <2>1 DEF ClickRetry, Shows, Rendered
  <2>3. retry' \in Retry /\ retry'.seen = retry.seen
    BY <1>2, <2>2 DEF Retry
  <2> QED
    BY <2>2, <2>3, PipelineKeeps
<1>6. CASE RetryFails \/ (RetryAnswered /\ ~ retry.granted)
  <2>1. /\ UNCHANGED hookVars
        /\ \/ retry' = [retry EXCEPT !.request = NoRequest, !.granted = FALSE]
           \/ retry' = [retry EXCEPT !.request = NoRequest]
    BY <1>6 DEF RetryFails, RetryAnswered
  <2>2. retry' \in Retry /\ retry'.seen = retry.seen /\ retry'.request = NoRequest
    BY <1>2, <2>1 DEF Retry
  <2> QED
    BY <2>1, <2>2, PipelineKeeps
<1>7. CASE RetryAnswered /\ retry.granted
  <2>1. /\ StartEffect(page) /\ screen' = [screen EXCEPT !.loading = TRUE]
        /\ retry' = [NoRetry EXCEPT !.seen = getHistory(page)]
        /\ retry.request # NoRequest /\ UNCHANGED vars
    BY <1>7 DEF RetryAnswered, refresh
  <2>2. page \in Documents /\ page \in Pages
    BY <2>1 DEF BrowserInv, ReadsAreFresh, OnDetail, Pages
  <2>3. retry' \in Retry /\ retry'.seen = getHistory(page)
    BY <1>1, <1>2, <2>1, <2>2 DEF Retry, NoRetry
  <2>4. screen' \in Screen /\ screen'.loading /\ screen'.read = screen.read
    BY <1>2, <2>1 DEF Screen
  <2>5. DOMAIN screen'.read \in {{}, Parts(page)}
    BY <2>4 DEF BrowserInv, ScreenIsOfPage
  <2>6. PICK p \in Pages : p = page
    BY <2>2
  <2>7. retry'.seen <= getHistory(p)'
    BY <1>1, <2>1, <2>2, <2>3, <2>6 DEF getHistory, vars
  <2> QED
    BY <2>1, <2>2, <2>3, <2>4, <2>5, <2>6, <2>7, Restarted
<1> QED
  BY <1>3, <1>4, <1>5, <1>6, <1>7

\* The invariant of the browser over the pipeline.
THEOREM BrowserCorrect == BrowserSpec => []BrowserInv
<1>1. Init /\ BrowserInit /\ TypeInv => BrowserInv
  <2> SUFFICES ASSUME BrowserInit PROVE BrowserInv
    OBVIOUS
  <2>1. NoEffect \in Effect /\ NoEffect.pc = "none"
    BY UnreadIsRead DEF NoEffect, Effect, EffectPCs
  <2>2. Blank \in Screen /\ Blank.read = Unread
    BY UnreadIsRead DEF Blank, Screen
  <2>3. BrowserTypes
    BY <2>1, <2>2, MaxEffectsAssumption DEF BrowserInit, HookInit, BrowserTypes, NoRetry, Retry
  <2>4. LatestOnly
    BY <2>1 DEF BrowserInit, HookInit, LatestOnly, Effects
  <2>5. ScreenIsOfPage /\ NeverStopsSilently
    BY <2>2, UnreadIsRead DEF BrowserInit, HookInit, ScreenIsOfPage, NeverStopsSilently
  <2>6. ReadsAreFresh
    BY PagesAssumption
       DEF BrowserInit, HookInit, ReadsAreFresh, NoRetry, OnDetail, page, Pages
  <2> QED
    BY <2>3, <2>4, <2>5, <2>6 DEF BrowserInv
<1>2. ASSUME BrowserInv, TypeInv, [PipelineStep \/ BrowserStep]_allVars
      PROVE  BrowserInv'
  <2>1. [Next]_vars
    BY <1>2, PipelineView
  <2>2. CASE \E e \in Effects : EffectStep(e) \/ EffectFails(e)
    BY <1>2, <2>2, ReadKeeps, FetchedKeeps, TimerKeeps, FailsKeeps DEF EffectStep
  <2>3. CASE \/ \E p \in Pages : Open(p)
             \/ ClickRefresh
             \/ \E q \in Requests : ClickRetry(q)
             \/ RetryAnswered
             \/ RetryFails
    BY <1>2, <2>1, <2>3, ClicksKeep
  <2>4. CASE PipelineStep \/ UNCHANGED allVars
    <3>1. UNCHANGED hookVars /\ UNCHANGED retry
      BY <2>4 DEF PipelineStep, allVars, browserVars
    <3>2. retry' \in Retry /\ retry'.seen = retry.seen /\ (retry'.request # NoRequest => OnDetail)
      BY <1>2, <3>1 DEF BrowserInv, BrowserTypes, ReadsAreFresh
    <3> QED
      BY <1>2, <2>1, <3>1, <3>2, PipelineKeeps
  <2> QED
    BY <1>2, <2>2, <2>3, <2>4 DEF BrowserStep
<1> QED
  BY <1>1, <1>2, BrowserOnlyReads, TypeCorrect, PTL DEF BrowserSpec

\* Polling never ends in silence, on either page and however effects are started and
\* cancelled: it goes on, or what is shown is settled, or there is an error.
THEOREM PollingEndsForAReason == BrowserSpec => []NeverStopsSilently
<1>1. BrowserInv => NeverStopsSilently
  BY DEF BrowserInv
<1> QED
  BY <1>1, BrowserCorrect, PTL

\* After a granted retry the page renders nothing it read before.
THEOREM RetriesAreSeen == BrowserSpec => []RetryIsSeen
<1>1. BrowserInv => RetryIsSeen
  <2> SUFFICES ASSUME BrowserInv, OnDetail, Ready
               PROVE  screen.read["history"] >= retry.seen
    BY DEF RetryIsSeen, Rendered
  <2>1. screen.read \in Reads
    BY DEF BrowserInv, BrowserTypes, Screen
  <2>2. DOMAIN screen.read = Parts(page)
    BY <2>1, NothingRead DEF BrowserInv, ScreenIsOfPage, Ready
  <2>3. "history" \in DOMAIN screen.read
    BY <2>2, PartsOfPages DEF OnDetail, Pages, DetailParts
  <2> QED
    BY <2>3 DEF BrowserInv, ReadsAreFresh, Ready, Fresh
<1> QED
  BY <1>1, BrowserCorrect, PTL

-----------------------------------------------------------------------------
(* The counts.  getStats adds up what a grouped query counts; as no row is *)
(* in two statuses, its sums are the sizes of the lists the tiles link to. *)

With(statuses) == {d \in Documents : row[d].status \in statuses}

\* Documents in different statuses are counted apart.
LEMMA CountsAddUp ==
    ASSUME NEW S, NEW T, S \cap T = {}
    PROVE  /\ Cardinality(With(S)) \in Nat
           /\ Cardinality(With(S \cup T)) = Cardinality(With(S)) + Cardinality(With(T))
<1>1. ASSUME NEW statuses
      PROVE  IsFiniteSet(With(statuses)) /\ Cardinality(With(statuses)) \in Nat
  <2>1. With(statuses) \in SUBSET Documents
    BY DEF With
  <2> QED
    BY <2>1, DocumentsFinite, FS_Subset, FS_CardinalityType
<1>2. With(S \cup T) = With(S) \cup With(T) /\ With(S) \cap With(T) = {}
  BY DEF With
<1>3. Cardinality(With(S) \cup With(T))
        = Cardinality(With(S)) + Cardinality(With(T)) - Cardinality(With(S) \cap With(T))
  BY <1>1, FS_Union
<1>4. Cardinality(With(S) \cap With(T)) = 0
  BY <1>2, FS_EmptySet
<1>5. Cardinality(With(S)) \in Nat /\ Cardinality(With(T)) \in Nat
  BY <1>1
<1>6. Cardinality(With(S \cup T)) = Cardinality(With(S) \cup With(T))
  BY <1>2
<1> QED
  BY <1>3, <1>4, <1>5, <1>6

\* What the grouped query leaves out counts zero, so each status has its number.
LEMMA StatusCounts ==
    ASSUME NEW status \in Statuses
    PROVE  getStats.byStatus[status] = Cardinality(With({status}))
<1>1. getStats.byStatus[status] = IF status \in DOMAIN countByStatus
                                    THEN countByStatus[status] ELSE 0
  BY DEF getStats, Stats
<1>2. With({status}) = {d \in Documents : row[d].status = status}
  BY DEF With
<1>3. CASE status \in DOMAIN countByStatus
  BY <1>1, <1>2, <1>3 DEF countByStatus
<1>4. CASE status \notin DOMAIN countByStatus
  <2>1. With({status}) = {}
    BY <1>2, <1>4 DEF countByStatus, Uploaded, Statuses, Absent
  <2> QED
    BY <1>1, <1>4, <2>1, FS_EmptySet
<1> QED
  BY <1>3, <1>4

\* The work in progress, and all that was ever uploaded.
LEMMA StatsCount ==
    ASSUME TypeInv
    PROVE  /\ getStats.inProgress = Cardinality(With({"UPLOADED", "RETRY_PENDING", "PROCESSING"}))
           /\ getStats.byStatus["FAILED"] + getStats.byStatus["VALIDATION_FAILED"]
                = Cardinality(With({"FAILED", "VALIDATION_FAILED"}))
           /\ getStats.total = Cardinality(Uploaded)
<1> DEFINE n(status) == Cardinality(With({status}))
           waiting == {"UPLOADED"} \cup {"RETRY_PENDING"}
           active == waiting \cup {"PROCESSING"}
           failed == {"FAILED"} \cup {"VALIDATION_FAILED"}
           settled == {"PROCESSED"} \cup failed
<1>1. /\ Cardinality(With(waiting)) = n("UPLOADED") + n("RETRY_PENDING")
      /\ Cardinality(With(active)) = Cardinality(With(waiting)) + n("PROCESSING")
      /\ Cardinality(With(failed)) = n("FAILED") + n("VALIDATION_FAILED")
      /\ Cardinality(With(settled)) = n("PROCESSED") + Cardinality(With(failed))
      /\ Cardinality(With(active \cup settled))
           = Cardinality(With(active)) + Cardinality(With(settled))
  <2>1. /\ {"UPLOADED"} \cap {"RETRY_PENDING"} = {} /\ waiting \cap {"PROCESSING"} = {}
        /\ {"FAILED"} \cap {"VALIDATION_FAILED"} = {} /\ {"PROCESSED"} \cap failed = {}
        /\ active \cap settled = {}
    OBVIOUS
  <2> HIDE DEF waiting, active, failed, settled
  <2>2. Cardinality(With({"UPLOADED"} \cup {"RETRY_PENDING"})) = n("UPLOADED") + n("RETRY_PENDING")
    BY <2>1, CountsAddUp
  <2>3. Cardinality(With(waiting \cup {"PROCESSING"}))
          = Cardinality(With(waiting)) + n("PROCESSING")
    BY <2>1, CountsAddUp
  <2>4. Cardinality(With({"FAILED"} \cup {"VALIDATION_FAILED"})) = n("FAILED") + n("VALIDATION_FAILED")
    BY <2>1, CountsAddUp
  <2>5. Cardinality(With({"PROCESSED"} \cup failed)) = n("PROCESSED") + Cardinality(With(failed))
    BY <2>1, CountsAddUp
  <2>6. Cardinality(With(active \cup settled))
          = Cardinality(With(active)) + Cardinality(With(settled))
    BY <2>1, CountsAddUp
  <2> QED
    BY <2>2, <2>3, <2>4, <2>5, <2>6 DEF waiting, active, failed, settled
<1>2. ASSUME NEW status \in Statuses PROVE n(status) \in Nat
  <2>1. {status} \cap {} = {}
    OBVIOUS
  <2> QED
    BY <2>1, CountsAddUp
<1>3. \A status \in Statuses : getStats.byStatus[status] = n(status)
  BY StatusCounts
<1>4. /\ getStats.inProgress = getStats.byStatus["UPLOADED"] + getStats.byStatus["RETRY_PENDING"]
                                 + getStats.byStatus["PROCESSING"]
      /\ getStats.total = Total(getStats.byStatus)
  BY DEF getStats, Stats
<1>5. Uploaded = With(active \cup settled)
  BY DEF Uploaded, With, TypeInv, TypeOK, Row, Statuses, Absent
<1>6. active = {"UPLOADED", "RETRY_PENDING", "PROCESSING"} /\ failed = {"FAILED", "VALIDATION_FAILED"}
  OBVIOUS
<1> HIDE DEF n, waiting, active, failed, settled
<1>7. getStats.inProgress = Cardinality(With(active))
  BY <1>1, <1>2, <1>3, <1>4 DEF Statuses
<1>8. getStats.byStatus["FAILED"] + getStats.byStatus["VALIDATION_FAILED"] = Cardinality(With(failed))
  BY <1>1, <1>3 DEF Statuses
<1>9. getStats.total = Cardinality(Uploaded)
  BY <1>1, <1>2, <1>3, <1>4, <1>5 DEF Total, Statuses
<1> QED
  BY <1>6, <1>7, <1>8, <1>9

\* Every tile of the dashboard counts what its link lists: the sums of getStats and
\* the filters of the links take the same statuses together.
THEOREM TilesAgreeWithLists == BrowserSpec => []TilesCountWhatTheyLink
<1>1. TypeInv => TilesCountWhatTheyLink
  <2> SUFFICES ASSUME TypeInv, NEW tile \in DOMAIN TileLinks
               PROVE  TileValues(getStats)[tile] = Cardinality(Listed(TileLinks[tile]))
    BY DEF TilesCountWhatTheyLink
  <2>1. /\ Listed({}) = Uploaded
        /\ \A statuses \in SUBSET Statuses :
             statuses # {} => Listed(statuses) = With(statuses)
    BY DEF Listed, Uploaded, With, Statuses, Absent
  <2>2. tile \in {"total", "progress", "processed", "attention"}
    BY DEF TileLinks
  <2>3. CASE tile = "total"
    BY <2>1, <2>3, StatsCount DEF TileLinks, TileValues
  <2>4. CASE tile = "progress"
    BY <2>1, <2>4, StatsCount DEF TileLinks, TileValues, Statuses
  <2>5. CASE tile = "processed"
    <3>1. getStats.byStatus["PROCESSED"] = Cardinality(With({"PROCESSED"}))
      BY StatusCounts DEF Statuses
    <3>2. Listed({"PROCESSED"}) = With({"PROCESSED"})
      BY <2>1 DEF Statuses
    <3> QED
      BY <2>5, <3>1, <3>2 DEF TileLinks, TileValues
  <2>6. CASE tile = "attention"
    BY <2>1, <2>6, StatsCount DEF TileLinks, TileValues, Statuses
  <2> QED
    BY <2>2, <2>3, <2>4, <2>5, <2>6
<1> QED
  BY <1>1, BrowserOnlyReads, TypeCorrect, PTL

-----------------------------------------------------------------------------
(* What is read of a page is of that page.                                 *)

ReadInv ==
    /\ \A e \in Effects : /\ ReadOf(effect[e].page, effect[e].read)
                          /\ effect[e].page \in Documents => effect[e].page \in Uploaded
    /\ ReadOf(page, screen.read)

\* Nothing was read.
LEMMA UnreadIsOfAnyPage == \A p : ReadOf(p, Unread)
  BY UnreadIsRead DEF ReadOf

\* No row is ever deleted.
LEMMA UploadedStays ==
    ASSUME TypeInv, [Next]_vars, NEW d \in Uploaded
    PROVE  d \in Uploaded'
<1>t. /\ d \in Documents /\ row[d].status \in Statuses
      /\ row \in [Documents -> Row] /\ \A o \in Documents : row[o] \in Row
  BY DEF Uploaded, TypeInv, TypeOK, Row
<1>s. \A status \in Statuses : status # Absent
  BY DEF Statuses, Absent
<1> SUFFICES row'[d].status \in Statuses
  BY <1>s, <1>t DEF Uploaded
<1>k. ASSUME UNCHANGED row PROVE row'[d].status \in Statuses
  BY <1>k, <1>t
<1>a. ASSUME NEW o, NEW status \in Statuses, NEW attempt, NEW reason, NEW due, NEW data,
             NEW errors, ApplyTransition(o, status, attempt, reason, due, data, errors)
      PROVE  row'[d].status \in Statuses
  BY <1>t, <1>a DEF ApplyTransition, Row
<1>c. ASSUME NEW o, Claim(o) PROVE row'[d].status \in Statuses
  BY <1>t, <1>c DEF Claim, Row, Statuses
<1>w. ASSUME NEW s \in Slots, WriteClaimEvent(s) \/ FinalWrite(s) \/ WriteFailedBeforeRetry(s)
      PROVE  row'[d].status \in Statuses
  <2>1. /\ "PROCESSED" \in Statuses /\ "VALIDATION_FAILED" \in Statuses
        /\ "FAILED" \in Statuses /\ "RETRY_PENDING" \in Statuses
    BY DEF Statuses
  <2> QED
    BY <1>a, <1>k, <1>w, <2>1
       DEF WriteClaimEvent, FinalWrite, WriteFailedBeforeRetry, WriteProcessed, WriteRejected,
           WriteFailedTerminally, WriteRetryPending
<1>r. ASSUME ReclaimRows PROVE row'[d].status \in Statuses
  BY <1>t, <1>r DEF ReclaimRows, Row, Statuses
<1>1. CASE \E o \in Documents : createWithEvent(o) \/ Clock(o)
  <2>1. PICK o \in Documents : createWithEvent(o) \/ Clock(o)
    BY <1>1
  <2>2. CASE createWithEvent(o)
    BY <1>t, <2>2 DEF createWithEvent, NoRow, Statuses
  <2>3. CASE Clock(o)
    BY <1>t, <2>3 DEF Clock, BackoffElapses, LeaseRunsOut, Row
  <2> QED
    BY <2>1, <2>2, <2>3
<1>2. CASE \E s \in Slots : SlotStep(s)
  BY <1>2, <1>c, <1>k, <1>w DEF SlotStep, claimNext, recordClaimEvent, extract,
                                FailBeforeRetry, Settle
<1>3. CASE \E w \in Workers : ReaperStep(w)
  <2>1. "FAILED" \in Statuses
    BY DEF Statuses
  <2> QED
    BY <1>3, <1>a, <1>k, <1>r, <2>1 DEF ReaperStep, reclaimExpired, RecordReclaim,
                                        findExhaustedStaleIds, FailExhausted
<1>4. CASE \E q \in Requests : RequestStep(q)
  <2>1. CASE \E q \in Requests : resetForManualRetry(q)
    BY <1>t, <2>1 DEF resetForManualRetry, Row, Statuses
  <2> QED
    BY <1>4, <1>k, <2>1 DEF RequestStep, CheckRetry
<1>5. CASE Misfortune
  BY <1>5, <1>c, <1>k, <1>r, <1>w
     DEF Misfortune, ClaimError, ClaimAnswerLost, WriteError, WriteAnswerLost,
         ReclaimAnswerLost, SweepError, Crash
<1>6. CASE UNCHANGED vars
  BY <1>6, <1>k DEF vars
<1> QED
  BY <1>1, <1>2, <1>3, <1>4, <1>5, <1>6 DEF Next

\* An effect that keeps what it read, or drops it, reads of its page still.
LEMMA ReadKept ==
    ASSUME TypeInv, [Next]_vars, ReadInv,
           \A e \in Effects : /\ effect'[e].page = effect[e].page
                              /\ effect'[e].read = effect[e].read \/ effect'[e].read = Unread,
           ReadOf(page', screen'.read)
    PROVE  ReadInv'
<1>1. ASSUME NEW e \in Effects
      PROVE  /\ ReadOf(effect'[e].page, effect'[e].read)
             /\ effect'[e].page \in Documents => effect'[e].page \in Uploaded'
  BY UnreadIsOfAnyPage, UploadedStays DEF ReadInv
<1> QED
  BY <1>1 DEF ReadInv

\* A mount or a refresh of a page that is there.
LEMMA ReadRestarted ==
    ASSUME BrowserInv, TypeInv, [Next]_vars, ReadInv, NEW p \in Pages, StartEffect(p),
           p \in Documents => p \in Uploaded, ReadOf(p, screen'.read)
    PROVE  ReadInv'
<1>1. page' = p /\ current \in Nat
  BY Started DEF BrowserInv, BrowserTypes
<1> DEFINE new == [NoEffect EXCEPT !.pc = "fetching", !.page = p]
<1>a. new.page = p /\ new.read = Unread
  BY DEF NoEffect
<1>b. ASSUME NEW e \in Effects
      PROVE  Cancelled(e).page = effect[e].page /\ Cancelled(e).read = Unread
  <2>1. effect[e] \in Effect
    BY DEF BrowserInv, BrowserTypes
  <2> QED
    BY <2>1 DEF Cancelled, Effect
<1>c. \A e \in Effects : effect'[e] = CASE e = current     -> Cancelled(e)
                                        [] e = current + 1 -> new
                                        [] OTHER           -> effect[e]
  BY DEF StartEffect
<1> HIDE DEF new
<1>2. ASSUME NEW e \in Effects
      PROVE  \/ effect'[e].page = p /\ effect'[e].read = Unread
             \/ /\ effect'[e].page = effect[e].page
                /\ effect'[e].read = effect[e].read \/ effect'[e].read = Unread
  <2>1. CASE e = current
    <3>1. Cancelled(e).page = effect[e].page /\ Cancelled(e).read = Unread
      BY <1>b
    <3>2. effect'[e] = CASE e = current     -> Cancelled(e)
                         [] e = current + 1 -> new
                         [] OTHER           -> effect[e]
      BY <1>c
    <3>3. e # current + 1
      BY <1>1, <2>1
    <3>4. effect'[e] = Cancelled(e)
      BY <2>1, <3>2, <3>3
    <3> QED
      BY <3>1, <3>4
  <2>2. CASE e = current + 1
    BY <1>1, <1>a, <1>c, <2>2
  <2>3. CASE e # current /\ e # current + 1
    BY <1>c, <2>3
  <2> QED
    BY <2>1, <2>2, <2>3
<1>3. ASSUME NEW e \in Effects
      PROVE  /\ ReadOf(effect'[e].page, effect'[e].read)
             /\ effect'[e].page \in Documents => effect'[e].page \in Uploaded'
  BY <1>2, UnreadIsOfAnyPage, UploadedStays DEF ReadInv
<1> QED
  BY <1>1, <1>3 DEF ReadInv

\* The counts are numbers.
LEMMA StatsAreNumbers ==
    ASSUME TypeInv
    PROVE  getStats \in StatsType
<1>1. ASSUME NEW statuses
      PROVE  Cardinality(With(statuses)) \in Nat
  <2>1. statuses \cap {} = {}
    OBVIOUS
  <2> QED
    BY <2>1, CountsAddUp
<1>2. getStats.inProgress \in Nat
  BY <1>1, StatsCount
<1>3. getStats.total \in Nat
  <2>1. Uploaded = With(Statuses)
    BY DEF Uploaded, With, TypeInv, TypeOK, Row, Statuses, Absent
  <2> QED
    BY <1>1, <2>1, StatsCount
<1>4. getStats.byStatus \in [Statuses -> Nat]
  <2>1. \A status \in Statuses : getStats.byStatus[status] \in Nat
    BY <1>1, StatusCounts
  <2>2. getStats.byStatus = [status \in Statuses |-> getStats.byStatus[status]]
    BY DEF getStats, Stats
  <2> QED
    BY <2>1, <2>2
<1>5. getStats = [byStatus |-> getStats.byStatus, total |-> getStats.total,
                  inProgress |-> getStats.inProgress]
  BY DEF getStats, Stats
<1> QED
  BY <1>2, <1>3, <1>4, <1>5 DEF StatsType

\* Each part is read of what it names.
LEMMA PartRead ==
    ASSUME BrowserInv, TypeInv, [Next]_vars, ReadInv, NEW e \in Effects, Read(e)
    PROVE  ReadInv'
<1> DEFINE p == effect[e].page
           old == effect[e].read
<1>1. PICK part, value : /\ Answer(e, part, value) /\ UNCHANGED <<vars, retry>>
                         /\ \/ /\ p \in Documents
                               /\ \/ part = "document" /\ value = row[p].status
                                  \/ part = "history" /\ value = getHistory(p)
                            \/ /\ p = DashboardPage
                               /\ \/ part = "stats" /\ value = getStats
                                  \/ part = "recent" /\ value = Uploaded
  BY DEF Read, ReadDocument, ReadHistory, ReadStats, ReadRecent, getDocument, recentDocuments
<1> DEFINE new == [q \in DOMAIN old \cup {part} |-> IF q = part THEN value ELSE old[q]]
           changed == [effect[e] EXCEPT !.read = new]
<1>2. effect[e] \in Effect
  BY DEF BrowserInv, BrowserTypes
<1>3. effect' = [effect EXCEPT ![e] = changed] /\ UNCHANGED <<current, screen>>
  BY <1>1 DEF Answer
<1>4. changed.page = p /\ changed.read = new
  BY <1>2 DEF Effect
<1>5. ReadOf(p, old) /\ (p \in Documents => p \in Uploaded)
  BY DEF ReadInv
<1>6. part \in Parts(p)
  BY <1>1, PagesAssumption DEF Parts, DetailParts, DashboardParts
<1>7. /\ part = "document" => value \in Statuses
      /\ part = "history" => value \in Nat
      /\ part = "stats" => value \in StatsType
      /\ part = "recent" => value \subseteq Documents
  <2>1. CASE part = "document"
    BY <1>1, <1>5, <2>1 DEF Uploaded, TypeInv, TypeOK, Row
  <2>2. CASE part = "history"
    BY <1>1, <2>2 DEF TypeInv, TypeOK, getHistory
  <2>3. CASE part = "stats"
    BY <1>1, <2>3, StatsAreNumbers
  <2>4. CASE part = "recent"
    BY <1>1, <2>4 DEF Uploaded
  <2> QED
    BY <1>1, <2>1, <2>2, <2>3, <2>4
<1>8. ReadOf(p, new)
  <2>1. DOMAIN new = DOMAIN old \cup {part}
    OBVIOUS
  <2>2. new[part] = value /\ \A q \in DOMAIN old : q # part => new[q] = old[q]
    OBVIOUS
  <2> HIDE DEF new
  <2> QED
    BY <1>5, <1>6, <1>7, <2>1, <2>2 DEF ReadOf
<1> HIDE DEF new, changed
<1>9. page' = page
  <2>1. \A f \in Effects : effect'[f].page = effect[f].page
    BY <1>3, <1>4 DEF BrowserInv, BrowserTypes
  <2> QED
    BY <1>3, <2>1, PageOfLatest DEF page, BrowserInv
<1>10. ASSUME NEW f \in Effects
       PROVE  /\ ReadOf(effect'[f].page, effect'[f].read)
              /\ effect'[f].page \in Documents => effect'[f].page \in Uploaded'
  <2>1. Uploaded' = Uploaded
    BY <1>1 DEF vars, Uploaded
  <2>2. effect'[f] = IF f = e THEN changed ELSE effect[f]
    BY <1>3 DEF BrowserInv, BrowserTypes
  <2>3. CASE f = e
    BY <1>4, <1>5, <1>8, <2>1, <2>2, <2>3
  <2>4. CASE f # e
    BY <2>1, <2>2, <2>4 DEF ReadInv
  <2> QED
    BY <2>3, <2>4
<1> QED
  BY <1>3, <1>9, <1>10 DEF ReadInv

\* The step of the types.
LEMMA ReadStep ==
    ASSUME BrowserInv, BrowserInv', TypeInv, ReadInv, [PipelineStep \/ BrowserStep]_allVars
    PROVE  ReadInv'
<1>n. [Next]_vars
  BY PipelineView
<1>p. /\ current = 0 <=> page = NoPage
      /\ current # 0 => current \in Effects /\ page \in Pages /\ page = effect[current].page
  BY PageOfLatest DEF BrowserInv
<1>q. page \in Documents => page \in Uploaded
  BY <1>p, PagesAssumption DEF ReadInv, Pages
<1>1. CASE \E p \in Pages : Open(p)
  <2>1. PICK p \in Pages : Open(p)
    BY <1>1
  <2>2. StartEffect(p) /\ screen' = Blank /\ (p \in Documents => p \in Uploaded)
    BY <2>1 DEF Open, Mount
  <2>3. ReadOf(p, screen'.read)
    BY <2>2, UnreadIsOfAnyPage DEF Blank
  <2> QED
    BY <1>n, <2>2, <2>3, ReadRestarted
<1>2. CASE ClickRefresh \/ (RetryAnswered /\ retry.granted)
  <2>1. StartEffect(page) /\ screen' = [screen EXCEPT !.loading = TRUE] /\ page # NoPage
    <3>1. page # NoPage
      BY <1>2, PagesAssumption DEF ClickRefresh, RetryAnswered, BrowserInv, ReadsAreFresh,
                                   OnDetail, Pages
    <3> QED
      BY <1>2, <3>1 DEF ClickRefresh, RetryAnswered, refresh
  <2>2. screen'.read = screen.read
    BY <2>1 DEF BrowserInv, BrowserTypes, Screen
  <2>3. PICK p \in Pages : p = page
    BY <1>p, <2>1
  <2>4. ReadOf(p, screen'.read)
    BY <2>2, <2>3 DEF ReadInv
  <2> QED
    BY <1>n, <1>q, <2>1, <2>3, <2>4, ReadRestarted
<1>3. CASE UNCHANGED hookVars
  <2>1. UNCHANGED <<current, effect, screen>> /\ page' = page
    BY <1>3 DEF hookVars, page
  <2> QED
    BY <1>n, <2>1, ReadKept DEF ReadInv
<1>4. ASSUME NEW e \in Effects, Read(e) PROVE ReadInv'
  BY <1>4, <1>n, PartRead
<1>5. ASSUME NEW e \in Effects, Fetched(e) \/ EffectFails(e) \/ EffectTimer(e) PROVE ReadInv'
  <2>0. /\ effect \in [Effects -> Effect] /\ screen \in Screen
        /\ \A f \in Effects : effect[f] \in Effect
    BY DEF BrowserInv, BrowserTypes
  <2>1. /\ current' = current
        /\ (\E pc : Over(e, pc)) \/ effect' = [effect EXCEPT ![e].pc = "fetching"]
        /\ \/ screen'.read = screen.read
           \/ screen'.read = effect[e].read /\ Fetched(e)
    <3>1. CASE Fetched(e)
      BY <3>1 DEF Fetched, FetchSucceeds
    <3>2. CASE EffectFails(e)
      BY <2>0, <3>2 DEF EffectFails, FetchFails, Screen
    <3>3. CASE EffectTimer(e)
      BY <3>3 DEF EffectTimer, TimerFires
    <3> QED
      BY <1>5, <3>1, <3>2, <3>3
  <2>2. ASSUME NEW f \in Effects
        PROVE  /\ effect'[f].page = effect[f].page
               /\ effect'[f].read = effect[f].read \/ effect'[f].read = Unread
    <3>1. CASE effect' = [effect EXCEPT ![e].pc = "fetching"]
      BY <2>0, <3>1 DEF Effect
    <3>2. ASSUME NEW pc, Over(e, pc)
          PROVE  /\ effect'[f].page = effect[f].page
                 /\ effect'[f].read = effect[f].read \/ effect'[f].read = Unread
      <4> DEFINE changed == [effect[e] EXCEPT !.pc = pc, !.read = Unread]
      <4>1. changed.page = effect[e].page /\ changed.read = Unread
        BY <2>0 DEF Effect
      <4>2. effect' = [effect EXCEPT ![e] = changed]
        BY <2>0, <3>2 DEF Over
      <4> HIDE DEF changed
      <4> QED
        BY <2>0, <4>1, <4>2
    <3> QED
      BY <2>1, <3>1, <3>2
  <2>3. page' = page
    BY <1>p, <2>1, <2>2 DEF page
  <2>4. ASSUME Fetched(e) PROVE e = current
    <3>1. DOMAIN effect[e].read # {} /\ effect[e].pc = "fetching"
      BY <2>4 DEF Fetched, Fetching, Parts, DetailParts, DashboardParts
    <3>2. e \in Nat /\ current \in Nat
      BY DEF BrowserInv, BrowserTypes, Effects
    <3> QED
      BY <3>1, <3>2, UnreadIsRead DEF BrowserInv, LatestOnly
  <2>5. ReadOf(page', screen'.read)
    <3>1. CASE screen'.read = screen.read
      BY <2>3, <3>1 DEF ReadInv
    <3>2. CASE screen'.read = effect[e].read /\ Fetched(e)
      <4>1. page = effect[e].page
        BY <1>p, <2>4, <3>2 DEF Effects
      <4> QED
        BY <2>3, <3>2, <4>1 DEF ReadInv
    <3> QED
      BY <2>1, <3>1, <3>2
  <2> QED
    BY <1>n, <2>2, <2>5, ReadKept
<1>6. CASE (\E q \in Requests : ClickRetry(q)) \/ (RetryAnswered /\ ~ retry.granted) \/ RetryFails
  BY <1>3, <1>6 DEF ClickRetry, RetryAnswered, RetryFails
<1>7. CASE PipelineStep \/ UNCHANGED allVars
  BY <1>3, <1>7 DEF PipelineStep, allVars, browserVars
<1> QED
  BY <1>1, <1>2, <1>4, <1>5, <1>6, <1>7 DEF BrowserStep, EffectStep

\* The types of the pages: what an effect holds and the page shows is, part by part,
\* what the requests of that page answer.
THEOREM PageTypes == BrowserSpec => []PageTypeOK
<1>1. BrowserInit => ReadInv
  <2>1. NoEffect.page \notin Documents /\ NoEffect.read = Unread /\ Blank.read = Unread
    BY PagesAssumption DEF NoEffect, Blank, Pages
  <2> QED
    BY <2>1, UnreadIsOfAnyPage DEF BrowserInit, HookInit, ReadInv
<1>2. BrowserInv /\ BrowserInv' /\ TypeInv /\ ReadInv
        /\ [PipelineStep \/ BrowserStep]_allVars => ReadInv'
  BY ReadStep
<1>3. BrowserInv /\ ReadInv => PageTypeOK
  <2> SUFFICES ASSUME BrowserInv, ReadInv PROVE PageTypeOK
    OBVIOUS
  <2>1. ASSUME NEW e \in Effects
        PROVE  /\ effect[e].pc \in EffectPCs /\ effect[e].cancelled \in BOOLEAN
               /\ effect[e].page \in Pages \cup {NoPage}
               /\ ReadOf(effect[e].page, effect[e].read)
    BY DEF BrowserInv, BrowserTypes, Effect, ReadInv
  <2>2. screen \in Screen /\ ReadOf(page, screen.read)
    BY DEF BrowserInv, BrowserTypes, ReadInv
  <2>3. current \in 0 .. MaxEffects /\ retry \in Retry
    BY DEF BrowserInv, BrowserTypes
  <2> QED
    BY <2>1, <2>2, <2>3 DEF PageTypeOK, Screen
<1> QED
  BY <1>1, <1>2, <1>3, BrowserCorrect, BrowserOnlyReads, TypeCorrect, PTL DEF BrowserSpec

-----------------------------------------------------------------------------
(* When the counts stop the dashboard.                                     *)

\* Counts without work in progress leave nothing waiting and nothing being processed;
\* what is still in hand then is a failure between the two writes of its retry,
\* provided that no database call fails and, beyond that, Timely holds.
THEOREM CountsStopTheDashboard ==
    ASSUME Timely, "dbError" \notin Faults
    PROVE  BrowserSpec => []NothingMovesUncounted
<1>1. TypeInv /\ TimelyInv /\ (\A s \in Slots : BetweenWrites(s)) => NothingMovesUncounted
  <2> SUFFICES ASSUME TypeInv, TimelyInv, \A s \in Slots : BetweenWrites(s),
                      getStats.inProgress = 0,
                      NEW d \in Documents, row[d].status \in Waiting \/ InHand(d)
               PROVE  \E s \in Slots : slot[s].doc = d /\ slot[s].pc = "scheduling"
    BY DEF NothingMovesUncounted
  <2> DEFINE active == {"UPLOADED", "RETRY_PENDING", "PROCESSING"}
  <2>1. With(active) = {}
    <3>1. Cardinality(With(active)) = 0
      BY StatsCount
    <3>2. With(active) \in SUBSET Documents
      BY DEF With
    <3>3. IsFiniteSet(With(active))
      BY <3>2, DocumentsFinite, FS_Subset
    <3> QED
      BY <3>1, <3>3, FS_EmptySet
  <2>2. row[d].status \notin active
    BY <2>1 DEF With
  <2>3. PICK s \in Slots : slot[s].doc = d
    BY <2>2 DEF InHand, Waiting
  <2>4. row[d].status = "FAILED"
    BY <2>2, <2>3, NoDocumentAssumption DEF TimelyInv, Owns
  <2> QED
    BY <2>3, <2>4, NoDocumentAssumption DEF BetweenWrites
<1> QED
  BY <1>1, BrowserOnlyReads, TypeCorrect, TimelyCorrect, FailuresInHand, PTL

================================================================================
