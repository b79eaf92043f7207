------------------------- MODULE DocumentsPage_proofs -------------------------
(***************************************************************************)
(* What is proved of the list of documents, for every number of documents, *)
(* page size, set of filters and search texts: its types, that a table is  *)
(* the answer for the URL in the address bar, and that filters never lead  *)
(* to a later page of other filters.                                       *)
(*                                                                         *)
(* The table follows from two facts.  Every request still waited for was   *)
(* made for the URL, because the effect of another URL is cancelled with   *)
(* its request; and whatever the hook shows came from such a request.  For *)
(* the pages: whatever the router is on its way to is a first page, or     *)
(* keeps the choices of the URL it was made from, which cannot change      *)
(* without the navigation ending.                                          *)
(***************************************************************************)
EXTENDS DocumentsPage, FiniteSetTheorems, TLAPS

IsRequest(r) == /\ r = [url |-> r.url, rows |-> r.rows, total |-> r.total]
                /\ r.url \in Urls
                /\ r.total # None => r.total \in 0 .. NumDocuments

AnyChoices == [chips : SUBSET Chips, search : Texts]

BrowserTypes == /\ url \in Urls
                /\ past \in Seq(Urls)
                /\ navigation \in Urls \cup {None}
                /\ search \in Texts
                /\ timer # None => timer.text \in Texts /\ timer.base \in Urls

FlagTypes == /\ error \in BOOLEAN /\ loading \in BOOLEAN /\ poll \in BOOLEAN
             /\ events \in 0 .. MaxEvents
             /\ wanted \in AnyChoices /\ lone \in BOOLEAN

DocTypes == doc \in [Documents -> Statuses]

RequestsAreForUrl == \A r \in requests : IsRequest(r) /\ r.url = url

DataIsForUrl == /\ data # None => IsRequest(data)
                /\ ~ error /\ ~ loading =>
                     IsRequest(data) /\ data.total # None /\ data.url = url

NavigationIsFirstPage ==
    navigation # None => navigation.page = 1 \/ Choices(navigation) = Choices(url)

Inv == /\ DocTypes /\ BrowserTypes /\ FlagTypes
       /\ RequestsAreForUrl /\ DataIsForUrl /\ NavigationIsFirstPage

-----------------------------------------------------------------------------
(* The operators.                                                          *)

\* A count is a number of documents.
LEMMA CountBounds ==
    ASSUME NEW q
    PROVE  Cardinality(Matching(q)) \in 0 .. NumDocuments
<1>1. IsFiniteSet(Documents) /\ Cardinality(Documents) = NumDocuments
  BY FS_Interval, NumDocumentsAssumption DEF Documents
<1>2. Matching(q) \subseteq Documents
  BY DEF Matching
<1>3. /\ Cardinality(Matching(q)) \in Nat
      /\ Cardinality(Matching(q)) <= Cardinality(Documents)
  BY <1>1, <1>2, FS_Subset, FS_CardinalityType
<1> QED
  BY <1>1, <1>3, NumDocumentsAssumption

\* The first page of any choice of filters is a URL.
LEMMA FirstPages ==
    ASSUME NEW chips \in SUBSET Chips, NEW text \in Texts
    PROVE  LET q == [chips |-> chips, search |-> text, page |-> 1]
           IN  q \in Urls /\ q.page = 1
  BY DEF Urls

\* Home among them.
LEMMA HomeIsUrl == Home \in Urls /\ Home.page = 1 /\ Choices(Home) \in AnyChoices
  BY TextsAssumption DEF Home, Urls, Choices, AnyChoices

\* The choices of a URL.
LEMMA ChoicesOfUrl ==
    ASSUME NEW q \in Urls
    PROVE  Choices(q) \in AnyChoices
  BY DEF Urls, Choices, AnyChoices

\* A fresh request is one for its URL, whose answer has not been counted.
LEMMA FetchIsRequest ==
    ASSUME NEW q \in Urls
    PROVE  IsRequest(Fetch(q)) /\ Fetch(q).url = q
  BY DEF IsRequest, Fetch

\* Starting over waits for a request of the new URL alone and shows nothing yet.
LEMMA Starting ==
    ASSUME NEW q \in Urls, url' = q, StartEffect(q),
           data # None => IsRequest(data), error \in BOOLEAN
    PROVE  /\ RequestsAreForUrl' /\ DataIsForUrl'
           /\ error' \in BOOLEAN /\ loading' \in BOOLEAN /\ poll' \in BOOLEAN
<1>1. requests' = {Fetch(q)} /\ loading' = TRUE /\ poll' = FALSE /\ data' = data
      /\ error' = error
  BY DEF StartEffect
<1>2. RequestsAreForUrl'
  BY <1>1, FetchIsRequest DEF RequestsAreForUrl, IsRequest
<1>3. DataIsForUrl'
  BY <1>1 DEF DataIsForUrl, IsRequest
<1> QED
  BY <1>1, <1>2, <1>3

\* The bound on events is kept.
LEMMA EventStep ==
    ASSUME Event, events \in 0 .. MaxEvents
    PROVE  events' \in 0 .. MaxEvents
  BY MaxEventsAssumption DEF Event

-----------------------------------------------------------------------------
(* The invariant.                                                          *)

\* It holds at first.
LEMMA InitInv == Init => Inv
<1> SUFFICES ASSUME Init PROVE Inv
  OBVIOUS
<1>1. DocTypes
  BY DEF Init, DocTypes, Statuses
<1>2. BrowserTypes
  BY HomeIsUrl, TextsAssumption DEF Init, BrowserTypes
<1>3. FlagTypes
  <2>1. events \in 0 .. MaxEvents
    BY MaxEventsAssumption DEF Init
  <2> QED
    BY <2>1, HomeIsUrl DEF Init, FlagTypes
<1>4. RequestsAreForUrl
  BY HomeIsUrl, FetchIsRequest DEF Init, RequestsAreForUrl
<1>5. DataIsForUrl /\ NavigationIsFirstPage
  BY DEF Init, DataIsForUrl, NavigationIsFirstPage
<1> QED
  BY <1>1, <1>2, <1>3, <1>4, <1>5 DEF Inv

\* Whatever the router brings, it is taken in with its render and its effects.
LEMMA Arriving ==
    ASSUME Inv, NEW q \in Urls, Arrive(q)
    PROVE  /\ url' = q /\ navigation' = None /\ search' \in Texts
           /\ timer' # None => timer'.text \in Texts /\ timer'.base \in Urls
           /\ RequestsAreForUrl' /\ DataIsForUrl' /\ NavigationIsFirstPage'
           /\ error' \in BOOLEAN /\ loading' \in BOOLEAN /\ poll' \in BOOLEAN
<1>1. url' = q /\ navigation' = None
  BY DEF Arrive
<1>2. search' \in Texts /\ timer' \in {timer, None}
  BY DEF Arrive, Urls, Inv, BrowserTypes
<1>3. CASE q # url
  <2>1. StartEffect(q)
    BY <1>3 DEF Arrive
  <2> QED
    BY <1>1, <1>2, <2>1, Starting
       DEF Inv, BrowserTypes, FlagTypes, DataIsForUrl, NavigationIsFirstPage
<1>4. CASE q = url
  <2>1. UNCHANGED hook
    BY <1>4 DEF Arrive
  <2> QED
    BY <1>1, <1>2, <1>4, <2>1
       DEF hook, Inv, BrowserTypes, FlagTypes, RequestsAreForUrl, DataIsForUrl,
           NavigationIsFirstPage, IsRequest
<1> QED
  BY <1>3, <1>4

\* Every step preserves it.
LEMMA StepInv == Inv /\ [Next]_vars => Inv'
<1> SUFFICES ASSUME Inv, [Next]_vars PROVE Inv'
  OBVIOUS
<1> USE DEF Inv
<1>1. CASE \E r \in requests : FindMany(r) \/ Count(r)
  <2>1. PICK r \in requests : FindMany(r) \/ Count(r)
    BY <1>1
  <2> DEFINE found == [r EXCEPT !.rows = [d \in RowsOf(r.url) |-> doc[d]]]
             counted == [r EXCEPT !.total = Cardinality(Matching(r.url))]
  <2>2. /\ IsRequest(found) /\ found.url = url
        /\ IsRequest(counted) /\ counted.url = url
    BY CountBounds DEF RequestsAreForUrl, IsRequest
  <2>3. requests' \subseteq requests \cup {found, counted}
    BY <2>1 DEF FindMany, Count
  <2>4. UNCHANGED <<doc, browser, data, error, loading, poll, events, history>>
    BY <2>1 DEF FindMany, Count
  <2>5. RequestsAreForUrl'
    BY <2>2, <2>3, <2>4 DEF browser, RequestsAreForUrl, IsRequest
  <2> QED
    BY <2>4, <2>5
       DEF browser, history, DocTypes, BrowserTypes, FlagTypes, DataIsForUrl,
           NavigationIsFirstPage, IsRequest
<1>2. CASE \E r \in requests : Answered(r)
  <2>1. PICK r \in requests : Answered(r)
    BY <1>2
  <2>2. IsRequest(r) /\ r.url = url /\ r.total # None
    BY <2>1 DEF Answered, RequestsAreForUrl
  <2>3. /\ requests' = requests \ {r} /\ data' = r /\ error' = FALSE /\ loading' = FALSE
        /\ poll' \in BOOLEAN
        /\ UNCHANGED <<doc, browser, events, history>>
    BY <2>1 DEF Answered
  <2> QED
    BY <2>2, <2>3
       DEF browser, history, DocTypes, BrowserTypes, FlagTypes, RequestsAreForUrl,
           DataIsForUrl, NavigationIsFirstPage, IsRequest
<1>3. CASE \E r \in requests : Refused(r) \/ RequestFails(r)
  <2>1. PICK r \in requests : FailsWith(r) /\ events' \in 0 .. MaxEvents
    BY <1>3, EventStep DEF Refused, RequestFails, FlagTypes
  <2> QED
    BY <2>1
       DEF FailsWith, browser, history, DocTypes, BrowserTypes, FlagTypes, RequestsAreForUrl,
           DataIsForUrl, NavigationIsFirstPage, IsRequest
<1>4. CASE PollTimer
  <2>1. requests' = {Fetch(url)} /\ poll' = FALSE
        /\ UNCHANGED <<doc, browser, data, error, loading, events, history>>
    BY <1>4 DEF PollTimer
  <2>2. RequestsAreForUrl'
    BY <2>1, FetchIsRequest DEF browser, BrowserTypes, RequestsAreForUrl, IsRequest
  <2> QED
    BY <2>1, <2>2
       DEF browser, history, DocTypes, BrowserTypes, FlagTypes, DataIsForUrl,
           NavigationIsFirstPage, IsRequest
<1>5. CASE Refresh
  <2>1. /\ StartEffect(url) /\ events' \in 0 .. MaxEvents
        /\ UNCHANGED <<doc, browser, history>>
    BY <1>5, EventStep DEF Refresh, FlagTypes
  <2>2. url \in Urls /\ url' = url /\ error \in BOOLEAN /\ (data # None => IsRequest(data))
    BY <2>1 DEF browser, BrowserTypes, FlagTypes, DataIsForUrl
  <2>3. /\ RequestsAreForUrl' /\ DataIsForUrl'
        /\ error' \in BOOLEAN /\ loading' \in BOOLEAN /\ poll' \in BOOLEAN
    BY <2>1, <2>2, Starting
  <2> QED
    BY <2>1, <2>3
       DEF browser, history, DocTypes, BrowserTypes, FlagTypes, NavigationIsFirstPage
<1>6. CASE DebounceEnds
  <2>1. /\ timer # None /\ apply(timer.base, timer.base.chips, timer.text) /\ timer' = None
        /\ UNCHANGED <<doc, url, past, search, hook, events, history>>
    BY <1>6 DEF DebounceEnds
  <2>2. navigation' \in Urls /\ navigation'.page = 1
    BY <2>1, FirstPages DEF apply, BrowserTypes, Urls
  <2> QED
    BY <2>1, <2>2
       DEF hook, history, DocTypes, BrowserTypes, FlagTypes, RequestsAreForUrl,
           DataIsForUrl, NavigationIsFirstPage, IsRequest
<1>7. CASE \E text \in Texts : Type(text)
  <2>1. PICK text \in Texts : Type(text)
    BY <1>7
  <2>2. /\ search' = text /\ UNCHANGED <<doc, url, past, navigation, hook>>
        /\ events' \in 0 .. MaxEvents
    BY <2>1, EventStep DEF Type, FlagTypes
  <2>3. timer' # None => timer'.text \in Texts /\ timer'.base \in Urls
    BY <2>1 DEF Type, BrowserTypes
  <2>4. wanted' \in AnyChoices /\ lone' \in BOOLEAN
    BY <2>1 DEF Type, Chooses, FlagTypes, AnyChoices
  <2> QED
    BY <2>2, <2>3, <2>4
       DEF hook, DocTypes, BrowserTypes, FlagTypes, RequestsAreForUrl,
           DataIsForUrl, NavigationIsFirstPage, IsRequest
<1>8. CASE \E chip \in Chips : toggle(chip)
  <2>1. PICK chip \in Chips : toggle(chip)
    BY <1>8
  <2>2. /\ UNCHANGED <<doc, url, past, search, timer, hook>> /\ events' \in 0 .. MaxEvents
    BY <2>1, EventStep DEF toggle, FlagTypes
  <2>3. Flip(url.chips, chip) \in SUBSET Chips /\ url.search \in Texts
    BY DEF Flip, BrowserTypes, Urls
  <2>4. navigation' \in Urls /\ navigation'.page = 1
    BY <2>1, <2>3, FirstPages DEF toggle, apply
  <2>5. wanted' \in AnyChoices /\ lone' \in BOOLEAN
    BY <2>1 DEF toggle, Chooses, AtRest, FlagTypes, AnyChoices
  <2> QED
    BY <2>2, <2>4, <2>5
       DEF hook, DocTypes, BrowserTypes, FlagTypes, RequestsAreForUrl,
           DataIsForUrl, NavigationIsFirstPage, IsRequest
<1>9. CASE onReset
  <2>1. /\ navigation' = Home /\ UNCHANGED <<doc, url, past, search, timer, hook>>
        /\ events' \in 0 .. MaxEvents
    BY <1>9, EventStep DEF onReset, FlagTypes
  <2>2. wanted' \in AnyChoices /\ lone' \in BOOLEAN
    BY <1>9, HomeIsUrl DEF onReset, Chooses, AtRest, FlagTypes
  <2> QED
    BY <2>1, <2>2, HomeIsUrl
       DEF hook, DocTypes, BrowserTypes, FlagTypes, RequestsAreForUrl,
           DataIsForUrl, NavigationIsFirstPage, IsRequest
<1>10. CASE \E page \in 0 .. NumDocuments + 1 : onPage(page)
  <2>1. PICK page \in 0 .. NumDocuments + 1 : onPage(page)
    BY <1>10
  <2>2. /\ navigation' = [url EXCEPT !.page = page]
        /\ UNCHANGED <<doc, url, past, search, timer, hook>>
        /\ events' \in 0 .. MaxEvents
    BY <2>1, EventStep DEF onPage, FlagTypes
  <2>3. data.url.page \in Nat
    BY <2>1 DEF onPage, DataIsForUrl, BrowserTypes, Urls
  <2>4. page \in Nat \ {0}
    BY <2>1, <2>3, NumDocumentsAssumption DEF onPage
  <2>5. navigation' \in Urls /\ Choices(navigation') = Choices(url')
    BY <2>2, <2>4 DEF BrowserTypes, Urls, Choices
  <2>6. wanted' \in AnyChoices /\ lone' \in BOOLEAN
    BY <2>1 DEF onPage, Chooses, FlagTypes
  <2> QED
    BY <2>2, <2>5, <2>6
       DEF hook, DocTypes, BrowserTypes, FlagTypes, RequestsAreForUrl,
           DataIsForUrl, NavigationIsFirstPage, IsRequest
<1>11. CASE Navigated
  <2>1. /\ navigation \in Urls /\ Arrive(navigation)
        /\ past' \in {past, Append(past, url)}
        /\ UNCHANGED <<doc, events, history>>
    BY <1>11 DEF Navigated, BrowserTypes
  <2>2. past' \in Seq(Urls)
    BY <2>1 DEF BrowserTypes
  <2> QED
    BY <2>1, <2>2, Arriving DEF history, DocTypes, BrowserTypes, FlagTypes
<1>12. CASE Back
  <2>1. /\ past # <<>> /\ Arrive(past[Len(past)])
        /\ past' = SubSeq(past, 1, Len(past) - 1)
        /\ Chooses(Choices(past[Len(past)]), AtRest)
        /\ UNCHANGED doc /\ events' \in 0 .. MaxEvents
    BY <1>12, EventStep DEF Back, FlagTypes
  <2>2. past[Len(past)] \in Urls /\ past' \in Seq(Urls)
    BY <2>1 DEF BrowserTypes
  <2>3. wanted' \in AnyChoices /\ lone' \in BOOLEAN
    BY <2>1, <2>2, ChoicesOfUrl DEF Chooses, AtRest, FlagTypes
  <2> QED
    BY <2>1, <2>2, <2>3, Arriving DEF DocTypes, BrowserTypes, FlagTypes
<1>13. CASE \E d \in Documents : Upload(d) \/ Settles(d) \/ Retried(d)
  <2>1. PICK d \in Documents, to \in {"active", "final"} :
          doc' = [doc EXCEPT ![d] = to] /\ UNCHANGED <<browser, hook, history>>
    BY <1>13 DEF Upload, Settles, Retried, Becomes
  <2>2. events' \in 0 .. MaxEvents
    BY <1>13, EventStep DEF Upload, Settles, Retried, FlagTypes
  <2>3. DocTypes'
    BY <2>1 DEF DocTypes, Statuses
  <2> QED
    BY <2>1, <2>2, <2>3
       DEF browser, hook, history, BrowserTypes, FlagTypes, RequestsAreForUrl,
           DataIsForUrl, NavigationIsFirstPage, IsRequest
<1>14. CASE UNCHANGED vars
  BY <1>14
     DEF vars, browser, hook, history, DocTypes, BrowserTypes, FlagTypes, RequestsAreForUrl,
         DataIsForUrl, NavigationIsFirstPage, IsRequest
<1> QED
  BY <1>1, <1>2, <1>3, <1>4, <1>5, <1>6, <1>7, <1>8, <1>9, <1>10, <1>11, <1>12, <1>13, <1>14
     DEF Next, Answers, User

\* The invariant of every behaviour.
THEOREM Invariance == Spec => []Inv
  BY InitInv, StepInv, PTL DEF Spec

-----------------------------------------------------------------------------
(* What it shows.                                                          *)

\* The state of the page has its types, whatever the user does and the API answers.
THEOREM ListTypes == Spec => []TypeOK
<1>1. Inv => TypeOK
  BY DEF Inv, DocTypes, BrowserTypes, FlagTypes, RequestsAreForUrl, DataIsForUrl, IsRequest,
         TypeOK, AnyChoices
<1> QED
  BY <1>1, Invariance, PTL

\* A table is the answer for the URL in the address bar: answers for URLs the user
\* has left never reach it.
THEOREM TableFollowsUrl == Spec => []TableIsForUrl
<1>1. Inv => TableIsForUrl
  BY DEF Inv, DataIsForUrl, TableIsForUrl
<1> QED
  BY <1>1, Invariance, PTL

\* Other filters start at their first page: apply leaves the page out, and buttons
\* of the pages keep the filters.
THEOREM FiltersStartAtPageOne == Spec => NewFiltersStartAtPageOne
<1>1. ASSUME Inv, [Next]_vars, Len(past') > Len(past), Choices(url') # Choices(url)
      PROVE  url'.page = 1
  <2>1. CASE Navigated
    BY <1>1, <2>1 DEF Navigated, Arrive, Inv, NavigationIsFirstPage
  <2>2. CASE Back
    <3>1. Len(past') = Len(past) - 1
      BY <2>2, <1>1 DEF Back, Inv, BrowserTypes
    <3> QED
      BY <3>1, <1>1 DEF Inv, BrowserTypes
  <2>3. CASE UNCHANGED url
    BY <1>1, <2>3 DEF Choices
  <2>4. Navigated \/ Back \/ UNCHANGED url
    BY <1>1
       DEF Next, Answers, User, vars, browser, FindMany, Count, Answered, Refused,
           RequestFails, FailsWith, PollTimer, DebounceEnds, Type, toggle, onPage,
           onReset, Refresh, Upload, Settles, Retried, Becomes
  <2> QED
    BY <2>1, <2>2, <2>3, <2>4
<1>2. Inv /\ [Next]_vars =>
        [Len(past') > Len(past) /\ Choices(url') # Choices(url) => url'.page = 1]_vars
  BY <1>1
<1> QED
  BY <1>2, Invariance, PTL DEF Spec, NewFiltersStartAtPageOne

-----------------------------------------------------------------------------
(* The user's choices.                                                     *)

\* While every choice was alone: a choice waits in the timer, or is where the router
\* is going, or has arrived.  A page may be turned while the timer runs; it keeps the
\* filters of the URL, so it takes nothing from what the timer will add to them.
Chosen ==
    /\ timer # None =>
         /\ timer.text = search /\ timer.base.chips = url.chips
         /\ wanted = [chips |-> url.chips, search |-> search]
         /\ navigation # None => Choices(navigation) = Choices(url)
    /\ timer = None /\ navigation # None =>
         Choices(navigation) = wanted /\ search \in {url.search, navigation.search}
    /\ AtRest => Choices(url) = wanted /\ search = url.search

ChoiceInv == lone => Chosen

\* A URL is told apart by its fields, and is not None.
LEMMA UrlFields ==
    ASSUME NEW q \in Urls
    PROVE  /\ q # None
           /\ q.chips \in SUBSET Chips /\ q.search \in Texts
           /\ Choices(q).chips = q.chips /\ Choices(q).search = q.search
           /\ Choices(q) = [chips |-> q.chips, search |-> q.search]
  BY NoneAssumption DEF Urls, Choices

\* Every step keeps a lone choice on its way.
LEMMA ChoiceStep == Inv /\ ChoiceInv /\ [Next]_vars => ChoiceInv'
<1> SUFFICES ASSUME Inv, ChoiceInv, [Next]_vars, lone' PROVE Chosen'
  BY DEF ChoiceInv
<1>u. /\ url \in Urls /\ wanted \in AnyChoices /\ search \in Texts
      /\ navigation # None => navigation \in Urls
      /\ timer # None => timer.text \in Texts /\ timer.base \in Urls
      /\ past \in Seq(Urls)
  BY DEF Inv, BrowserTypes, FlagTypes
<1>l. ASSUME NEW choice, NEW alone, Chooses(choice, alone)
      PROVE  lone /\ alone /\ wanted' = choice /\ Chosen
  BY <1>l DEF Chooses, ChoiceInv, Inv, FlagTypes
<1>1. CASE UNCHANGED <<browser, history>>
  BY <1>1 DEF browser, history, ChoiceInv, Chosen, AtRest
<1>2. CASE DebounceEnds
  <2>1. /\ timer # None /\ timer' = None /\ lone /\ Chosen
        /\ navigation' = [chips |-> timer.base.chips, search |-> timer.text, page |-> 1]
        /\ UNCHANGED <<url, search, wanted>>
    BY <1>2 DEF DebounceEnds, apply, history, ChoiceInv
  <2>2. /\ navigation' \in Urls /\ navigation'.search = search
        /\ Choices(navigation') = wanted
    BY <1>u, <2>1, FirstPages DEF Chosen, Urls, Choices
  <2>3. navigation' # None
    BY <2>2, UrlFields
  <2> QED
    BY <2>1, <2>2, <2>3 DEF Chosen, AtRest, Choices
<1>3. ASSUME NEW text \in Texts, Type(text) PROVE Chosen'
  <2>1. /\ navigation = None /\ navigation' = None /\ url' = url /\ search' = text /\ Chosen
        /\ wanted' = [wanted EXCEPT !.search = text]
        /\ timer' = IF text = url.search THEN None ELSE [text |-> text, base |-> url]
    BY <1>3, <1>l DEF Type
  <2>2. wanted.chips = url.chips
    BY <1>u, <2>1, UrlFields DEF Chosen, AtRest
  <2>3. wanted' = [chips |-> url.chips, search |-> text]
    BY <1>u, <2>1, <2>2 DEF AnyChoices
  <2>4. CASE text = url.search
    BY <1>u, <2>1, <2>3, <2>4, UrlFields DEF Chosen, AtRest, Choices
  <2>5. CASE text # url.search
    <3>1. timer' \in [text : Texts, base : Urls] /\ timer'.text = text /\ timer'.base = url
      BY <1>u, <2>1, <2>5
    <3>2. timer' # None
      BY <3>1, NoneAssumption
    <3> QED
      BY <2>1, <2>3, <3>1, <3>2 DEF Chosen, AtRest
  <2> QED
    BY <2>4, <2>5
<1>4. ASSUME NEW chip \in Chips, toggle(chip) PROVE Chosen'
  <2>1. /\ AtRest /\ Chosen /\ UNCHANGED <<url, search, timer>>
        /\ wanted' = [wanted EXCEPT !.chips = Flip(url.chips, chip)]
        /\ navigation' = [chips |-> Flip(url.chips, chip), search |-> url.search, page |-> 1]
    BY <1>4, <1>l DEF toggle, apply, Flip, Choices, Chosen
  <2>2. wanted = [chips |-> url.chips, search |-> url.search] /\ search = url.search
    BY <1>u, <2>1, UrlFields DEF Chosen
  <2>3. Flip(url.chips, chip) \in SUBSET Chips
    BY <1>u, UrlFields DEF Flip
  <2>4. navigation' \in Urls /\ Choices(navigation') = wanted'
    BY <1>u, <2>1, <2>2, <2>3, UrlFields, FirstPages DEF Choices
  <2>5. navigation' # None
    BY <2>4, UrlFields
  <2> QED
    BY <2>1, <2>2, <2>4, <2>5 DEF Chosen, AtRest
<1>5. CASE onReset
  <2>1. /\ AtRest /\ Chosen /\ UNCHANGED <<url, search, timer>>
        /\ wanted' = Choices(Home) /\ navigation' = Home
    BY <1>5, <1>l DEF onReset
  <2>2. navigation' # None
    BY <2>1, HomeIsUrl, UrlFields
  <2> QED
    BY <2>1, <2>2 DEF Chosen, AtRest
<1>6. ASSUME NEW page \in 0 .. NumDocuments + 1, onPage(page) PROVE Chosen'
  <2>1. /\ navigation = None /\ Chosen /\ wanted' = wanted
        /\ UNCHANGED <<url, search, timer>>
        /\ navigation' = [url EXCEPT !.page = page]
    BY <1>6, <1>l DEF onPage
  <2>2. Choices(navigation') = Choices(url) /\ navigation'.search = url.search
    BY <1>u, <2>1 DEF Choices, Urls
  <2>3. data.url.page = url.page /\ url.page \in Nat \ {0}
    BY <1>6, <1>u DEF onPage, Inv, DataIsForUrl, Urls
  <2>4. page \in Nat \ {0}
    BY <1>6, <2>3 DEF onPage
  <2>5. navigation' # None
    BY <1>u, <2>1, <2>4, UrlFields DEF Urls
  <2> QED
    BY <2>1, <2>2, <2>5 DEF Chosen, AtRest
<1>7. CASE Navigated
  <2>1. /\ navigation \in Urls /\ lone /\ Chosen /\ wanted' = wanted
        /\ url' = navigation /\ navigation' = None
        /\ IF navigation.search # url.search
             THEN /\ search' = navigation.search
                  /\ timer' = IF search = navigation.search THEN timer ELSE None
             ELSE UNCHANGED <<search, timer>>
    BY <1>7, <1>u DEF Navigated, Arrive, history, ChoiceInv
  <2>2. CASE timer # None
    <3>1. Choices(navigation) = Choices(url) /\ url'.chips = url.chips
      BY <1>u, <2>1, <2>2, UrlFields DEF Chosen
    <3>2. UNCHANGED <<search, timer>>
      BY <1>u, <2>1, <3>1, UrlFields
    <3> QED
      BY <2>1, <2>2, <3>1, <3>2 DEF Chosen, AtRest
  <2>3. CASE timer = None
    <3>1. /\ Choices(url') = wanted' /\ timer' = None
          /\ search \in {url.search, navigation.search}
      BY <1>u, <2>1, <2>3, UrlFields DEF Chosen
    <3>2. search' = url'.search
      BY <2>1, <3>1
    <3> QED
      BY <2>1, <3>1, <3>2 DEF Chosen, AtRest
  <2> QED
    BY <2>2, <2>3
<1>8. CASE Back
  <2> DEFINE q == past[Len(past)]
  <2>1. q \in Urls
    BY <1>8, <1>u DEF Back
  <2>2. /\ AtRest /\ Chosen /\ wanted' = Choices(q) /\ Arrive(q)
    BY <1>8, <1>l DEF Back
  <2>3. url' = q /\ navigation' = None /\ timer' = None /\ search' = q.search
    BY <2>2 DEF Arrive, AtRest, Chosen
  <2> QED
    BY <2>2, <2>3 DEF Chosen, AtRest
<1>9. \/ UNCHANGED <<browser, history>>
      \/ DebounceEnds \/ onReset \/ Navigated \/ Back
      \/ \E text \in Texts : Type(text)
      \/ \E chip \in Chips : toggle(chip)
      \/ \E page \in 0 .. NumDocuments + 1 : onPage(page)
  BY DEF Next, Answers, User, vars, FindMany, Count, Answered, Refused, RequestFails,
         FailsWith, PollTimer, Refresh, Upload, Settles, Retried, Becomes
<1> QED
  BY <1>1, <1>2, <1>3, <1>4, <1>5, <1>6, <1>7, <1>8, <1>9

\* Choices made one after the other are all kept: none is lost between the timer and
\* the router, with pages turned in between, and the search box agrees with the URL.
THEOREM LoneChoicesKept == Spec => []LoneChoicesAreKept
<1>1. Init => ChoiceInv
  BY DEF Init, ChoiceInv, Chosen, AtRest, Choices, Home
<1>2. Inv /\ ChoiceInv => LoneChoicesAreKept
  BY DEF ChoiceInv, Chosen, LoneChoicesAreKept
<1> QED
  BY <1>1, <1>2, ChoiceStep, Invariance, PTL DEF Spec

=============================================================================
