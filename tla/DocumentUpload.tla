---------------------------- MODULE DocumentUpload ----------------------------
(***************************************************************************)
(* Uploading: services/documents.service.ts (uploadDocument), the file     *)
(* store of storage/file-storage.ts and the documents table with its       *)
(* unique content_hash.  The file and the row are written one after the    *)
(* other, in two stores no transaction covers.                             *)
(*                                                                         *)
(* One step is one database or file system call.  A request is identified  *)
(* with the document id and the storage key it generates.  The answer is   *)
(* what the handler returns, "refused" for a ValidationError or an         *)
(* UnsupportedFileTypeError and "error" for what the service did not mean  *)
(* to throw; whether it reaches the browser is left out.                   *)
(***************************************************************************)
EXTENDS Integers

CONSTANTS
    Uploads,        \* the upload requests
    Contents,       \* the byte contents of files; equal content, equal hash
    NoUpload,       \* no request, no document
    MaxFaults       \* bound on the misfortunes of a behaviour

ASSUME NoUploadAssumption == NoUpload \notin Uploads
ASSUME MaxFaultsAssumption == MaxFaults \in Nat

(***************************************************************************)
(* crash         the API process dies with its running requests            *)
(* saveError     the file cannot be written, or not to its end             *)
(* findError     a lookup throws                                           *)
(* createError   the transaction throws and has written nothing            *)
(* deleteError   the file cannot be deleted; delete() hides that           *)
(* lostAnswer    the transaction throws although it was committed          *)
(***************************************************************************)
FaultKinds == {"crash", "saveError", "findError", "createError", "deleteError", "lostAnswer"}

PCs == {"new", "saving", "creating", "resolving", "discarding", "done"}

Kinds == {"none", "created", "duplicate", "refused", "error"}

VARIABLES
    owner,          \* documents, by content_hash: whose row holds the content
    file,           \* the file store: what is kept under each request's key
    upload,         \* the requests: next step, content, and the row found instead
    answer,         \* what each request returned
    struck,         \* the kinds of misfortune so far
    faults          \* and their number

vars == <<owner, file, upload, answer, struck, faults>>

None == [kind |-> "none", doc |-> NoUpload]

Init == /\ owner = [c \in Contents |-> NoUpload]
        /\ file = [u \in Uploads |-> "absent"]
        /\ \E content \in [Uploads -> Contents] :
              upload = [u \in Uploads |->
                          [pc |-> "new", content |-> content[u], winner |-> NoUpload]]
        /\ answer = [u \in Uploads |-> None]
        /\ struck = {}
        /\ faults = 0

-----------------------------------------------------------------------------

Content(u) == upload[u].content

Fault(kind) == /\ faults < MaxFaults
               /\ faults' = faults + 1
               /\ struck' = struck \cup {kind}

Fine == UNCHANGED <<struck, faults>>

Goto(u, pc) == /\ upload' = [upload EXCEPT ![u] = [upload[u] EXCEPT !.pc = pc]]
               /\ UNCHANGED answer

Discards(u, winner) ==
    /\ upload' = [upload EXCEPT ![u] = [upload[u] EXCEPT !.pc = "discarding",
                                                         !.winner = winner]]
    /\ UNCHANGED answer

Returns(u, kind, doc) ==
    /\ upload' = [upload EXCEPT ![u] = [upload[u] EXCEPT !.pc = "done"]]
    /\ answer' = [answer EXCEPT ![u] = [kind |-> kind, doc |-> doc]]

Throws(u) == Returns(u, "error", NoUpload)

\* No file, or not a PDF.
Refuse(u) ==
    /\ upload[u].pc = "new"
    /\ Returns(u, "refused", NoUpload) /\ Fine
    /\ UNCHANGED <<owner, file>>

\* The fast path: the content is already there.
findByContentHash(u) ==
    /\ upload[u].pc = "new"
    /\ IF owner[Content(u)] # NoUpload THEN Returns(u, "duplicate", owner[Content(u)])
                                       ELSE Goto(u, "saving")
    /\ UNCHANGED <<owner, file>> /\ Fine

save(u) ==
    /\ upload[u].pc = "saving"
    /\ file' = [file EXCEPT ![u] = "whole"]
    /\ Goto(u, "creating") /\ Fine
    /\ UNCHANGED owner

\* Bug: content_hash is not unique.
createWithEvent_NotUnique(u) ==
    /\ upload[u].pc = "creating"
    /\ owner' = [owner EXCEPT ![Content(u)] = u]
    /\ Returns(u, "created", u) /\ Fine
    /\ UNCHANGED file

\* The row is inserted, unless its content_hash is taken.
createWithEvent(u) ==
    /\ upload[u].pc = "creating" /\ owner[Content(u)] = NoUpload
    /\ owner' = [owner EXCEPT ![Content(u)] = u]
    /\ Returns(u, "created", u) /\ Fine
    /\ UNCHANGED file

UniqueViolation(u) ==
    /\ upload[u].pc = "creating" /\ owner[Content(u)] # NoUpload
    /\ Goto(u, "resolving") /\ Fine
    /\ UNCHANGED <<owner, file>>

findWinner(u) ==
    /\ upload[u].pc = "resolving"
    /\ Discards(u, owner[Content(u)]) /\ Fine
    /\ UNCHANGED <<owner, file>>

\* What a request that created nothing returns.
Resolved(u) == IF upload[u].winner = NoUpload THEN Throws(u)
                                              ELSE Returns(u, "duplicate", upload[u].winner)

\* Bug: the key of the document found is deleted instead of the request's own.
delete_WinnersFile(u) ==
    /\ upload[u].pc = "discarding"
    /\ file' = [v \in Uploads |-> IF v \in {u, upload[u].winner} THEN "absent" ELSE file[v]]
    /\ Resolved(u) /\ Fine
    /\ UNCHANGED owner

delete(u) ==
    /\ upload[u].pc = "discarding"
    /\ file' = [file EXCEPT ![u] = "absent"]
    /\ Resolved(u) /\ Fine
    /\ UNCHANGED owner

-----------------------------------------------------------------------------
(* What may go wrong.                                                      *)

\* A lookup is outside every try block; the second one leaves the file behind.
FindError(u) ==
    /\ upload[u].pc \in {"new", "resolving"}
    /\ Fault("findError") /\ Throws(u)
    /\ UNCHANGED <<owner, file>>

\* Saving is outside the try block: what was written stays.
SaveError(u) ==
    /\ upload[u].pc = "saving"
    /\ file' \in {file, [file EXCEPT ![u] = "partial"]}
    /\ Fault("saveError") /\ Throws(u)
    /\ UNCHANGED owner

\* Bug: the catch block rethrows without deleting the file.
CreateError_FileKept(u) ==
    /\ upload[u].pc = "creating"
    /\ Fault("createError") /\ Throws(u)
    /\ UNCHANGED <<owner, file>>

CreateError(u) ==
    /\ upload[u].pc = "creating"
    /\ Fault("createError") /\ Discards(u, NoUpload)
    /\ UNCHANGED <<owner, file>>

CreateAnswerLost(u) ==
    /\ upload[u].pc = "creating" /\ owner[Content(u)] = NoUpload
    /\ owner' = [owner EXCEPT ![Content(u)] = u]
    /\ Fault("lostAnswer") /\ Discards(u, NoUpload)
    /\ UNCHANGED file

DeleteError(u) ==
    /\ upload[u].pc = "discarding"
    /\ Fault("deleteError") /\ Resolved(u)
    /\ UNCHANGED <<owner, file>>

\* The process dies; a file being written may be left cut short.
Crash ==
    /\ \E u \in Uploads : upload[u].pc \notin {"new", "done"}
    /\ upload' = [u \in Uploads |->
                    IF upload[u].pc = "new" THEN upload[u]
                                            ELSE [upload[u] EXCEPT !.pc = "done"]]
    /\ \E torn \in SUBSET {u \in Uploads : upload[u].pc = "saving"} :
          file' = [u \in Uploads |-> IF u \in torn THEN "partial" ELSE file[u]]
    /\ Fault("crash")
    /\ UNCHANGED <<owner, answer>>

-----------------------------------------------------------------------------

\* The handler of a request with a PDF.
Process(u) == \/ findByContentHash(u)
              \/ save(u)
              \/ createWithEvent(u)
              \/ UniqueViolation(u)
              \/ findWinner(u)
              \/ delete(u)

Handle(u) == Refuse(u) \/ Process(u)

Misfortune(u) == \/ FindError(u)
                 \/ SaveError(u)
                 \/ CreateError(u)
                 \/ CreateAnswerLost(u)
                 \/ DeleteError(u)

Next == \/ \E u \in Uploads : Handle(u) \/ Misfortune(u)
        \/ Crash

Spec == Init /\ [][Next]_vars

-----------------------------------------------------------------------------
(* Reading a document's file.                                              *)

\* What cannot be read counts as not found.
read(key) == IF file[key] = "absent" THEN "NotFoundError" ELSE file[key]

getDocumentFile(c) == IF owner[c] = NoUpload THEN "NotFoundError" ELSE read(owner[c])

-----------------------------------------------------------------------------
(* Properties.                                                             *)

TypeOK == /\ owner \in [Contents -> Uploads \cup {NoUpload}]
          /\ file \in [Uploads -> {"absent", "partial", "whole"}]
          /\ upload \in [Uploads -> [pc : PCs, content : Contents,
                                     winner : Uploads \cup {NoUpload}]]
          /\ answer \in [Uploads -> [kind : Kinds, doc : Uploads \cup {NoUpload}]]
          /\ struck \subseteq FaultKinds
          /\ faults \in Nat

\* The file of every document is there, in full: no loser of a race, failure or
\* crash takes it away.  Only a lost answer can, because the catch block then
\* cleans up after a row that was written.
EveryDocumentHasItsFile ==
    "lostAnswer" \notin struck =>
      \A c \in Contents : owner[c] # NoUpload => getDocumentFile(c) = "whole"

\* A file belongs to a document or to a request still running: the catch block
\* cleans up after lost races and failed transactions.  Every other misfortune may
\* leave a file nobody refers to.
NoOrphanFiles ==
    struck \subseteq {"createError"} =>
      \A u \in Uploads :
        file[u] # "absent" => upload[u].pc # "done" \/ owner[Content(u)] = u

\* However requests race and fail, each behaves as one atomic find-or-create:
\* one document per content, and whoever is told a document is told that one.
Atomic == INSTANCE FindOrCreate
ActsAtomically == Atomic!Spec

=============================================================================
