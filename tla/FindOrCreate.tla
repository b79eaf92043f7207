----------------------------- MODULE FindOrCreate -----------------------------
(***************************************************************************)
(* What an upload promises: as if one atomic step looked for a document    *)
(* with the same content and created it only if there was none.            *)
(***************************************************************************)

CONSTANTS
    Uploads,        \* the upload requests, each naming the document it would create
    Contents,       \* the byte contents of files
    NoUpload        \* no document

VARIABLES
    owner,          \* the document of each content
    answer          \* what each request was told

vars == <<owner, answer>>

None == [kind |-> "none", doc |-> NoUpload]

Init == /\ owner = [c \in Contents |-> NoUpload]
        /\ answer = [u \in Uploads |-> None]

Answer(u, kind, doc) == /\ answer[u] = None
                        /\ answer' = [answer EXCEPT ![u] = [kind |-> kind, doc |-> doc]]

Own(u, c) == /\ owner[c] = NoUpload
             /\ \A e \in Contents : owner[e] # u
             /\ owner' = [owner EXCEPT ![c] = u]

Create(u, c) == Own(u, c) /\ Answer(u, "created", u)

\* The document is there but the request was not told so; it will fail.
CreateUnnoticed(u, c) == Own(u, c) /\ answer[u] = None /\ UNCHANGED answer

Find(u, c) == /\ owner[c] # NoUpload
              /\ Answer(u, "duplicate", owner[c])
              /\ UNCHANGED owner

\* A refused request has created nothing.
Refuse(u) == /\ \A c \in Contents : owner[c] # u
             /\ Answer(u, "refused", NoUpload)
             /\ UNCHANGED owner

Fail(u) == Answer(u, "error", NoUpload) /\ UNCHANGED owner

Next == \E u \in Uploads :
          \/ \E c \in Contents : Create(u, c) \/ CreateUnnoticed(u, c) \/ Find(u, c)
          \/ Refuse(u) \/ Fail(u)

Spec == Init /\ [][Next]_vars

=============================================================================
