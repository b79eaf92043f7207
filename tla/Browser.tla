------------------------------- MODULE Browser --------------------------------
(***************************************************************************)
(* A browser over the running pipeline: one tab, in which the dashboard    *)
(* or the page of a document is mounted, and the user goes from one to the *)
(* other.  The list has a module of its own (DocumentsPage).               *)
(***************************************************************************)
EXTENDS DetailPage, Dashboard

Pages == Documents \cup {DashboardPage}

ASSUME PagesAssumption == DashboardPage \notin Documents /\ NoPage \notin Pages

browserVars == <<hookVars, retry>>
allVars == <<vars, browserVars>>

BrowserInit == HookInit /\ retry = NoRetry

-----------------------------------------------------------------------------

Parts(p) == IF p = DashboardPage THEN DashboardParts ELSE DetailParts

Polls(p, read) == IF p = DashboardPage THEN DashboardPolls(read) ELSE DetailPolls(read)

\* The user goes to another page: to the dashboard by the navigation bar, to a
\* document by its row or its address.  A retry under way goes on without a page.
Open(p) == /\ p # page
           /\ p \in Documents => p \in Uploaded /\ (OnDashboard => p \in Rows)
           /\ Mount(p)
           /\ retry' = NoRetry
           /\ UNCHANGED vars

\* The button of the error message.  The detail page hides it while it loads.
ClickRefresh == /\ page # NoPage /\ screen.error
                /\ OnDetail => ~ screen.loading
                /\ refresh
                /\ UNCHANGED <<vars, retry>>

Read(e) == \/ ReadDocument(e)
           \/ ReadHistory(e)
           \/ (ReadStats(e) \/ ReadRecent(e)) /\ UNCHANGED <<vars, retry>>

\* Promise.all: both requests are answered.
Fetched(e) ==
    LET f == effect[e]
    IN  /\ Fetching(e) /\ DOMAIN f.read = Parts(f.page)
        /\ FetchSucceeds(e, Polls(f.page, f.read))
        /\ UNCHANGED <<vars, retry>>

EffectFails(e) == FetchFails(e) /\ UNCHANGED <<vars, retry>>

EffectTimer(e) == TimerFires(e) /\ UNCHANGED <<vars, retry>>

EffectStep(e) == Read(e) \/ Fetched(e) \/ EffectTimer(e)

BrowserStep == \/ \E p \in Pages : Open(p)
               \/ ClickRefresh
               \/ \E e \in Effects : EffectStep(e) \/ EffectFails(e)
               \/ \E q \in Requests : ClickRetry(q)
               \/ RetryAnswered
               \/ RetryFails

PipelineStep == Next /\ UNCHANGED browserVars

\* Requests are answered, or fail, and timers fire.  Only the latest effect has any.
BrowserFairness == WF_allVars(\E e \in Effects : EffectStep(e))

BrowserSpec == /\ Init /\ BrowserInit
               /\ [][PipelineStep \/ BrowserStep]_allVars
               /\ Fairness /\ BrowserFairness

-----------------------------------------------------------------------------
(* Properties.                                                             *)

StatsType == [byStatus : [Statuses -> Nat], total : Nat, inProgress : Nat]

\* What is read of a page, as far as it is answered.
ReadOf(p, read) ==
    /\ DOMAIN read \subseteq Parts(p)
    /\ "document" \in DOMAIN read => read["document"] \in Statuses
    /\ "history" \in DOMAIN read => read["history"] \in Nat
    /\ "stats" \in DOMAIN read => read["stats"] \in StatsType
    /\ "recent" \in DOMAIN read => read["recent"] \subseteq Documents

PageTypeOK ==
    /\ current \in 0 .. MaxEffects
    /\ \A e \in Effects :
         /\ effect[e].pc \in EffectPCs /\ effect[e].cancelled \in BOOLEAN
         /\ effect[e].page \in Pages \cup {NoPage}
         /\ ReadOf(effect[e].page, effect[e].read)
    /\ screen.error \in BOOLEAN /\ screen.loading \in BOOLEAN /\ ReadOf(page, screen.read)
    /\ retry \in Retry

\* What the page shows asks for another round.
ShowsWork == Ready /\ Polls(page, screen.read)

\* Polling never ends in silence: on either page it goes on, or what is shown is
\* settled, or there is an error with its button.
NeverStopsSilently ==
    current > 0 /\ effect[current].pc = "ended" /\ ~ screen.error =>
      /\ DOMAIN screen.read = Parts(page)
      /\ ~ Polls(page, screen.read)

\* A page that shows work under way does not stay so: "the page updates
\* automatically" until it shows something settled, an error or another page.
PageUpdates == ShowsWork ~> ~ ShowsWork

\* After a granted retry the failure it was asked to mend is not shown again: all
\* the page renders from then on was read after the retry was recorded.
RetryIsSeen == Rendered => screen.read["history"] >= retry.seen

\* "Refresh while anything is still moving; stop once everything is settled": when
\* the counts tell the dashboard to stop, nothing waits and the only attempts alive
\* stand between the two writes of a failure that will be retried.  Holds when Timely
\* and as long as no database call fails: the catch block may find the row FAILED.
NothingMovesUncounted ==
    getStats.inProgress = 0 =>
      \A d \in Documents : row[d].status \in Waiting \/ InHand(d) =>
        \E s \in Slots : slot[s].doc = d /\ slot[s].pc = "scheduling"

\* Every tile counts what its link lists.
TilesCountWhatTheyLink ==
    LET values == TileValues(getStats)
    IN  \A tile \in DOMAIN TileLinks : values[tile] = Cardinality(Listed(TileLinks[tile]))

=============================================================================
