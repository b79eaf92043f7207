---------------------------- MODULE DocumentsPage ----------------------------
(***************************************************************************)
(* The list of documents in the browser: app/documents/page.tsx with its   *)
(* filters (components/Filters.tsx), pagination and polling, over          *)
(* GET /documents, whose rows and whose total are two queries.             *)
(*                                                                         *)
(* The URL holds the filters.  A control pushes a new URL, and the router  *)
(* takes its time to get there, a later push replacing one that is still   *)
(* under way; the search box waits until the user stops typing before it   *)
(* pushes.  One step is one event: a click, a timer, an arrival of the     *)
(* router with the render and the effects it causes, one query, or one     *)
(* answer.  Document types and dates are filters like the status chips,    *)
(* and the sort order is one more: they are left out.                      *)
(***************************************************************************)
EXTENDS Integers, Sequences, FiniteSets

CONSTANTS
    NumDocuments,   \* documents 1, 2, ... in the order of their upload
    Chips,          \* the statuses that can be filtered for
    Texts,          \* what may stand in the search box
    NoText,         \* nothing
    Blank,          \* only spaces, which the API refuses to search for
    Hits,           \* for each text, the documents whose filename contains it
    PageSize,
    None,           \* no navigation, timer, answer or data
    MaxEvents       \* bound on user's actions, failed requests and retries

Documents == 1 .. NumDocuments
Statuses == {"absent", "active", "final"}

ASSUME NumDocumentsAssumption == NumDocuments \in Nat
ASSUME PageSizeAssumption == PageSize \in Nat \ {0}
ASSUME ChipsAssumption == Chips \subseteq Statuses \ {"absent"}
ASSUME TextsAssumption == {NoText, Blank} \subseteq Texts /\ Hits \in [Texts -> SUBSET Documents]
ASSUME MaxEventsAssumption == MaxEvents \in Nat

Urls == [chips : SUBSET Chips, search : Texts, page : Nat \ {0}]

ASSUME NoneAssumption == None \notin Urls \cup [text : Texts, base : Urls]

VARIABLES
    doc,            \* the status of each document
    url,            \* the filters and the page in the address bar
    past,           \* the URLs behind the back button
    navigation,     \* the URL the router is on its way to
    search,         \* the text in the search box
    timer,          \* the debounce timer: the text, and the URL of its render
    requests,       \* the requests whose answers the page still waits for
    data,           \* what the hook holds: rows and total, and for which URL
    error, loading, poll,
    events,         \* how much of the bound is used
    wanted,         \* history: what the user last chose in each control
    lone            \* history: no choice was made while an earlier one was on its way

browser == <<url, past, navigation, search, timer>>
hook == <<requests, data, error, loading, poll>>
history == <<wanted, lone>>
vars == <<doc, browser, hook, events, history>>

Home == [chips |-> {}, search |-> NoText, page |-> 1]
Choices(q) == [chips |-> q.chips, search |-> q.search]

Fetch(q) == [url |-> q, rows |-> None, total |-> None]

Init == /\ doc = [d \in Documents |-> "absent"]
        /\ url = Home /\ past = <<>> /\ navigation = None
        /\ search = NoText /\ timer = None
        /\ requests = {Fetch(Home)} /\ data = None
        /\ error = FALSE /\ loading = TRUE /\ poll = FALSE
        /\ events = 0
        /\ wanted = Choices(Home) /\ lone = TRUE

Event == events < MaxEvents /\ events' = events + 1

-----------------------------------------------------------------------------
(* The two queries of documents.repo.ts.                                   *)

\* buildWhere
Matching(q) ==
    {d \in Documents : /\ doc[d] # "absent"
                       /\ q.chips # {} => doc[d] \in q.chips
                       /\ q.search # NoText => d \in Hits[q.search]}

\* Newest first: the rows that skip and take leave of the matching documents.
RowsOf(q) ==
    LET newer(d) == Cardinality({e \in Matching(q) : e > d})
    IN  {d \in Matching(q) : newer(d) \div PageSize = q.page - 1}

totalPages(total) == (total + PageSize - 1) \div PageSize

-----------------------------------------------------------------------------
(* The polling hook.                                                       *)

\* Bug: the effect of the URL before is not cancelled.
StartEffect_Uncancelled(q) ==
    /\ requests' = requests \cup {Fetch(q)}
    /\ loading' = TRUE /\ poll' = FALSE
    /\ UNCHANGED <<data, error>>

\* The old effect's request is aborted and its timer cleared; data and error stay.
StartEffect(q) ==
    /\ requests' = {Fetch(q)}
    /\ loading' = TRUE /\ poll' = FALSE
    /\ UNCHANGED <<data, error>>

Refresh == /\ error
           /\ Event /\ StartEffect(url)
           /\ UNCHANGED <<doc, browser, history>>

FindMany(r) ==
    /\ r.rows = None /\ r.url.search # Blank
    /\ requests' = (requests \ {r})
                     \cup {[r EXCEPT !.rows = [d \in RowsOf(r.url) |-> doc[d]]]}
    /\ UNCHANGED <<doc, browser, data, error, loading, poll, events, history>>

Count(r) ==
    /\ r.total = None /\ r.url.search # Blank
    /\ requests' = (requests \ {r})
                     \cup {[r EXCEPT !.total = Cardinality(Matching(r.url))]}
    /\ UNCHANGED <<doc, browser, data, error, loading, poll, events, history>>

\* Bug: only the first answer for a URL sets the timer.
Answered_PollsOnce(r) ==
    /\ r.rows # None /\ r.total # None
    /\ requests' = requests \ {r}
    /\ data' = r /\ error' = FALSE /\ loading' = FALSE
    /\ poll' = (loading /\ \E d \in DOMAIN r.rows : r.rows[d] = "active")
    /\ UNCHANGED <<doc, browser, events, history>>

\* The page polls while a row of it is not terminal.
Answered(r) ==
    /\ r.rows # None /\ r.total # None
    /\ requests' = requests \ {r}
    /\ data' = r /\ error' = FALSE /\ loading' = FALSE
    /\ poll' = \E d \in DOMAIN r.rows : r.rows[d] = "active"
    /\ UNCHANGED <<doc, browser, events, history>>

FailsWith(r) == /\ requests' = requests \ {r}
                /\ error' = TRUE /\ loading' = FALSE
                /\ UNCHANGED <<doc, browser, data, poll, history>>

\* The API refuses a search for spaces, after trimming it.
Refused(r) == r.url.search = Blank /\ FailsWith(r) /\ UNCHANGED events

RequestFails(r) == r.url.search # Blank /\ FailsWith(r) /\ Event

PollTimer == /\ poll
             /\ requests' = {Fetch(url)} /\ poll' = FALSE
             /\ UNCHANGED <<doc, browser, data, error, loading, events, history>>

-----------------------------------------------------------------------------
(* The filters and the router.                                             *)

\* Bug: the page is kept when a filter changes.
apply_KeepsPage(base, chips, text) == navigation' = [base EXCEPT !.chips = chips, !.search = text]

\* apply, called for a filter: the other filters are those of the URL it was made for.
apply(base, chips, text) == navigation' = [chips |-> chips, search |-> text, page |-> 1]

\* A choice is alone if the ones before have reached the URL.
Chooses(choice, alone) == wanted' = choice /\ lone' = (lone /\ alone)

AtRest == navigation = None /\ timer = None

\* Every keystroke restarts the timer, which keeps the apply of its own render.
Type(text) ==
    /\ text # search
    /\ Event
    /\ search' = text
    /\ timer' = IF text = url.search THEN None ELSE [text |-> text, base |-> url]
    /\ Chooses([wanted EXCEPT !.search = text], navigation = None)
    /\ UNCHANGED <<doc, url, past, navigation, hook>>

DebounceEnds ==
    /\ timer # None
    /\ apply(timer.base, timer.base.chips, timer.text)
    /\ timer' = None
    /\ UNCHANGED <<doc, url, past, search, hook, events, history>>

Flip(set, chip) == IF chip \in set THEN set \ {chip} ELSE set \cup {chip}

toggle(chip) ==
    /\ Event
    /\ apply(url, Flip(url.chips, chip), url.search)
    /\ Chooses([wanted EXCEPT !.chips = IF chip \in url.chips THEN @ \ {chip}
                                                              ELSE @ \cup {chip}], AtRest)
    /\ UNCHANGED <<doc, url, past, search, timer, hook>>

onReset ==
    /\ url.chips # {} \/ url.search # NoText
    /\ Event
    /\ navigation' = Home
    /\ Chooses(Choices(Home), AtRest)
    /\ UNCHANGED <<doc, url, past, search, timer, hook>>

\* Bug: the last page has a button for the one after it.
onPage_Unchecked(page) ==
    /\ ~ error /\ ~ loading /\ DOMAIN data.rows # {}
    /\ page \in {data.url.page - 1, data.url.page + 1}
    /\ Event
    /\ navigation' = [url EXCEPT !.page = page]
    /\ Chooses(wanted, navigation = None)
    /\ UNCHANGED <<doc, url, past, search, timer, hook>>

\* Pagination: the table is there and, by the total, has more than one page.  The rows
\* may be those of a page beyond the last, which still has a button for the one before.
onPage(page) ==
    /\ ~ error /\ ~ loading /\ DOMAIN data.rows # {} /\ totalPages(data.total) > 1
    /\ \/ page = data.url.page - 1 /\ data.url.page > 1
       \/ page = data.url.page + 1 /\ data.url.page < totalPages(data.total)
    /\ Event
    /\ navigation' = [url EXCEPT !.page = page]
    /\ Chooses(wanted, navigation = None)
    /\ UNCHANGED <<doc, url, past, search, timer, hook>>

\* The render of a new URL: the search box follows it, which clears a timer for
\* another text, and the hook starts over.
Arrive(q) ==
    /\ url' = q /\ navigation' = None
    /\ IF q.search # url.search
         THEN /\ search' = q.search
              /\ timer' = IF search = q.search THEN timer ELSE None
         ELSE UNCHANGED <<search, timer>>
    /\ IF q # url THEN StartEffect(q) ELSE UNCHANGED hook

\* Bug: the search box is not told of the new URL.
Navigated_BoxKept ==
    /\ navigation # None
    /\ url' = navigation /\ navigation' = None
    /\ UNCHANGED <<search, timer>>
    /\ IF navigation # url THEN StartEffect(navigation) ELSE UNCHANGED hook
    /\ past' = IF navigation = url THEN past ELSE Append(past, url)
    /\ UNCHANGED <<doc, events, history>>

Navigated ==
    /\ navigation # None
    /\ Arrive(navigation)
    /\ past' = IF navigation = url THEN past ELSE Append(past, url)
    /\ UNCHANGED <<doc, events, history>>

Back ==
    /\ past # <<>>
    /\ Event
    /\ Arrive(past[Len(past)])
    /\ past' = SubSeq(past, 1, Len(past) - 1)
    /\ Chooses(Choices(past[Len(past)]), AtRest)
    /\ UNCHANGED doc

-----------------------------------------------------------------------------
(* The pipeline, seen from here.                                           *)

Becomes(d, from, to) == /\ doc[d] = from
                        /\ doc' = [doc EXCEPT ![d] = to]
                        /\ UNCHANGED <<browser, hook, history>>

Upload(d) == /\ d > 1 => doc[d - 1] # "absent"
             /\ Becomes(d, "absent", "active") /\ UNCHANGED events

Settles(d) == Becomes(d, "active", "final") /\ UNCHANGED events
Retried(d) == Becomes(d, "final", "active") /\ Event

-----------------------------------------------------------------------------

Answers == \E r \in requests : FindMany(r) \/ Count(r) \/ Answered(r) \/ Refused(r)

User == \/ \E text \in Texts : Type(text)
        \/ \E chip \in Chips : toggle(chip)
        \/ \E page \in 0 .. NumDocuments + 1 : onPage(page)
        \/ onReset \/ Back \/ Refresh

Next == \/ Answers \/ PollTimer \/ DebounceEnds \/ Navigated
        \/ User
        \/ \E r \in requests : RequestFails(r)
        \/ \E d \in Documents : Upload(d) \/ Settles(d) \/ Retried(d)

\* Requests are answered, timers fire, the router arrives and attempts end.
Fairness == /\ WF_vars(Answers) /\ WF_vars(PollTimer)
            /\ WF_vars(DebounceEnds) /\ WF_vars(Navigated)
            /\ \A d \in Documents : WF_vars(Settles(d))

Spec == Init /\ [][Next]_vars /\ Fairness

-----------------------------------------------------------------------------
(* Properties.                                                             *)

TypeOK ==
    /\ doc \in [Documents -> Statuses]
    /\ url \in Urls /\ navigation \in Urls \cup {None}
    /\ search \in Texts /\ (timer # None => timer.text \in Texts /\ timer.base \in Urls)
    /\ \A r \in requests \cup ({data} \ {None}) :
         r.url \in Urls /\ (r.total # None => r.total \in 0 .. NumDocuments)
    /\ error \in BOOLEAN /\ loading \in BOOLEAN /\ poll \in BOOLEAN
    /\ events \in 0 .. MaxEvents
    /\ wanted \in [chips : SUBSET Chips, search : Texts] /\ lone \in BOOLEAN

\* However fast the user goes from filter to filter and back, a table is the answer
\* for the URL that is in the address bar.
TableIsForUrl == ~ error /\ ~ loading => data.url = url

\* No timer, navigation or click takes the user to a later page of other filters
\* than those the page was a page of.
NewFiltersStartAtPageOne ==
    [][Len(past') > Len(past) /\ Choices(url') # Choices(url) => url'.page = 1]_vars

\* Choices made one after the other, each when the one before is in the URL, are all
\* kept, and the search box shows what the list is filtered by.
LoneChoicesAreKept == lone /\ AtRest => Choices(url) = wanted /\ search = url.search

\* No choice undoes another: a chip the user has set stays set in the URL, whatever
\* else is chosen after it.
ChipsAreKept == AtRest => url.chips = wanted.chips

Shown(d, status) == ~ error /\ ~ loading /\ d \in DOMAIN data.rows /\ data.rows[d] = status

\* A row shown as in progress does not stay so: the table polls until it has changed,
\* gone to another page, or an error takes its place.
RowsCatchUp == \A d \in Documents : Shown(d, "active") ~> ~ Shown(d, "active")

=============================================================================
