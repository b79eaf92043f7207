------------------------------ MODULE DetailPage ------------------------------
(***************************************************************************)
(* The detail page of a document, app/documents/[id]/page.tsx: it polls    *)
(* the document and its history by two requests that are answered          *)
(* independently, and it has the retry button.                             *)
(***************************************************************************)
EXTENDS DocumentPipeline, PolledResource

CONSTANT NoRequest      \* no retry under way

ASSUME NoRequestAssumption == NoRequest \notin Requests

VARIABLE retry          \* of the mounted page: the request of its retry button

\* Whether the request is granted, and the length of the history when the last
\* granted one was answered.
Retry == [request : Requests \cup {NoRequest}, granted : BOOLEAN, seen : Nat]

NoRetry == [request |-> NoRequest, granted |-> FALSE, seen |-> 0]

-----------------------------------------------------------------------------

isTerminal(status) == status \in Terminal

OnDetail == page \in Documents

\* What the page renders: a skeleton while loading, then an error or the data.
Rendered == OnDetail /\ Ready

Shows(status) == Rendered /\ screen.read["document"] = status

getDocument(d) == row[d].status

\* A history only grows, so what a read of it returned is its length.
getHistory(d) == Len(history[d])

\* Bug: a document fetched before is answered from the browser's cache.
ReadDocument_Cached(e) ==
    LET d == effect[e].page
    IN  /\ d \in Documents
        /\ Answer(e, "document", IF d = page /\ "document" \in DOMAIN screen.read
                                   THEN screen.read["document"] ELSE getDocument(d))
        /\ UNCHANGED <<vars, retry>>

ReadDocument(e) ==
    /\ effect[e].page \in Documents
    /\ Answer(e, "document", getDocument(effect[e].page))
    /\ UNCHANGED <<vars, retry>>

ReadHistory(e) ==
    /\ effect[e].page \in Documents
    /\ Answer(e, "history", getHistory(effect[e].page))
    /\ UNCHANGED <<vars, retry>>

DetailParts == {"document", "history"}

\* intervalMs: poll only while this document can still change on its own.
DetailPolls(read) == ~ isTerminal(read["document"])

\* Bug: the click shows a status of the page's own before the answer is there.
ClickRetry_Optimistic(q) ==
    /\ Shows("FAILED") /\ retry.request = NoRequest
    /\ CheckRetry(q, page)
    /\ retry' = [retry EXCEPT !.request = q, !.granted = request'[q].pc = "checked"]
    /\ screen' = [screen EXCEPT !.read["document"] = "QUEUED"]
    /\ UNCHANGED <<current, effect>>

\* The retry button is offered for a document shown as FAILED.
ClickRetry(q) ==
    /\ Shows("FAILED") /\ retry.request = NoRequest
    /\ CheckRetry(q, page)
    /\ retry' = [retry EXCEPT !.request = q, !.granted = request'[q].pc = "checked"]
    /\ UNCHANGED hookVars

\* Bug: the page is not fetched again after a retry.
RetryAnswered_NoRefresh ==
    /\ retry.request # NoRequest /\ request[retry.request].pc = "done"
    /\ retry' = IF retry.granted THEN [NoRetry EXCEPT !.seen = getHistory(page)]
                                 ELSE [retry EXCEPT !.request = NoRequest]
    /\ UNCHANGED <<vars, hookVars>>

\* The answer of the retry: the page refreshes.  After a refusal it does not, and
\* goes on showing the failure.
RetryAnswered ==
    /\ retry.request # NoRequest /\ request[retry.request].pc = "done"
    /\ IF retry.granted
         THEN refresh /\ retry' = [NoRetry EXCEPT !.seen = getHistory(page)]
         ELSE UNCHANGED hookVars /\ retry' = [retry EXCEPT !.request = NoRequest]
    /\ UNCHANGED vars

\* The answer does not arrive, whatever the server did; the page only says so.
RetryFails ==
    /\ retry.request # NoRequest
    /\ retry' = [retry EXCEPT !.request = NoRequest, !.granted = FALSE]
    /\ UNCHANGED <<vars, hookVars>>

=============================================================================
