------------------------------ MODULE UploadForm ------------------------------
(***************************************************************************)
(* The upload page (app/upload/page.tsx) over the upload of the backend:   *)
(* choosing a file, submitting it, and what the page says about it.  Some  *)
(* of the requests come from this page, the others from elsewhere.         *)
(*                                                                         *)
(* The user may choose another file while one is being uploaded, and the   *)
(* connection may break while the server goes on.  The document type and   *)
(* the metadata the page sends are always well-formed and left out.        *)
(***************************************************************************)
EXTENDS DocumentUpload, ApiErrors

CONSTANTS
    FormUploads,    \* the requests of this page
    Pdfs,           \* the contents that begin with %PDF-
    NoFile,         \* nothing chosen, nothing sent
    NoOutcome,      \* no banner
    MaxChoices      \* bound on choosing files

ASSUME FormAssumption == FormUploads \subseteq Uploads /\ Pdfs \subseteq Contents
ASSUME MaxChoicesAssumption == MaxChoices \in Nat

\* The files the page takes: named .pdf or declared to be one by the browser, which
\* need not know the type of what is named .pdf.
FormFiles == [content : Contents, declared : BOOLEAN]

VARIABLES
    chosen,         \* the file ready to upload
    submitting,     \* the request the page waits for
    outcome,        \* the banner, with the content whose filename it names
    error,          \* the message shown, and the request it answers
    sent,           \* the file each request of the page carries
    choices         \* how often a file was chosen

Message(says, of) == [says |-> says, of |-> of]
NoMessage == Message("nothing", NoUpload)

page == <<chosen, submitting, outcome, error, sent, choices>>
formVars == <<vars, page>>

FormInit == /\ Init
            /\ chosen = NoFile /\ submitting = NoUpload
            /\ outcome = NoOutcome /\ error = NoMessage
            /\ sent = [u \in FormUploads |-> NoFile]
            /\ choices = 0

-----------------------------------------------------------------------------
(* The page.                                                               *)

Choice == choices < MaxChoices /\ choices' = choices + 1

selectFile(f) == /\ Choice
                 /\ chosen' = f /\ error' = NoMessage /\ outcome' = NoOutcome
                 /\ UNCHANGED <<vars, submitting, sent>>

\* Neither named nor declared as a PDF, or too large.
selectWrongFile == /\ Choice
                   /\ chosen' = NoFile /\ outcome' = NoOutcome
                   /\ error' = Message("wrongFile", NoUpload)
                   /\ UNCHANGED <<vars, submitting, sent>>

\* The file dialog was closed without a file.
selectNothing == /\ outcome # NoOutcome
                 /\ outcome' = NoOutcome
                 /\ UNCHANGED <<vars, chosen, submitting, error, sent, choices>>

chooseDifferent == /\ chosen # NoFile
                   /\ chosen' = NoFile
                   /\ UNCHANGED <<vars, submitting, outcome, error, sent, choices>>

onSubmit(u) ==
    /\ chosen # NoFile /\ submitting = NoUpload
    /\ sent[u] = NoFile /\ Content(u) = chosen.content
    /\ sent' = [sent EXCEPT ![u] = chosen]
    /\ submitting' = u /\ error' = NoMessage /\ outcome' = NoOutcome
    /\ UNCHANGED <<vars, chosen, choices>>

\* Bug: the banner names the file chosen now instead of the one submitted.
uploadDocument_CurrentFile ==
    LET u == submitting
        named == IF chosen = NoFile THEN sent[u] ELSE chosen
    IN  /\ u # NoUpload /\ answer[u].kind \in {"created", "duplicate"}
        /\ outcome' = [kind |-> answer[u].kind, doc |-> answer[u].doc, content |-> named.content]
        /\ chosen' = NoFile /\ submitting' = NoUpload
        /\ UNCHANGED <<vars, error, sent, choices>>

\* The answer is a document.  The form is emptied, whatever it holds by now.
uploadDocument ==
    LET u == submitting
    IN  /\ u # NoUpload /\ answer[u].kind \in {"created", "duplicate"}
        /\ outcome' = [kind |-> answer[u].kind, doc |-> answer[u].doc, content |-> sent[u].content]
        /\ chosen' = NoFile /\ submitting' = NoUpload
        /\ UNCHANGED <<vars, error, sent, choices>>

\* What the API threw: multer drops a file by its declared type, and the service
\* then misses it.
Dropped(u) == ~ sent[u].declared
Thrown(u) == IF answer[u].kind = "error" THEN "unknown"
             ELSE IF Dropped(u) THEN "ValidationError" ELSE "UnsupportedFileTypeError"

Failed(u) == u # NoUpload /\ answer[u].kind \in {"refused", "error"}

\* Bug: the button stays disabled after an error.
uploadRejected_StaysBusy ==
    /\ Failed(submitting)
    /\ error' = Message(toApiError(normalise(Thrown(submitting))), submitting)
    /\ UNCHANGED <<vars, chosen, submitting, outcome, sent, choices>>

\* The message is shown with whatever file is chosen by now.
uploadRejected ==
    /\ Failed(submitting)
    /\ error' = Message(toApiError(normalise(Thrown(submitting))), submitting)
    /\ submitting' = NoUpload
    /\ UNCHANGED <<vars, chosen, outcome, sent, choices>>

\* fetch throws: the server goes on with the request, or is no longer there.
NetworkFails ==
    /\ submitting # NoUpload
    /\ error' = Message("network", NoUpload) /\ submitting' = NoUpload
    /\ UNCHANGED <<vars, chosen, outcome, sent, choices>>

ServerDied == NetworkFails /\ upload[submitting].pc = "done" /\ answer[submitting] = None

-----------------------------------------------------------------------------
(* The server.  The file of a request is dropped by its declared type, then*)
(* refused by its bytes.                                                   *)

isPdf(u) == sent[u].content \in Pdfs
Accepted(u) == sent[u] # NoFile /\ ~ Dropped(u) /\ isPdf(u)

HandleForm(u) == /\ sent[u] # NoFile
                 /\ IF Accepted(u) THEN Process(u) ELSE Refuse(u)
                 /\ UNCHANGED page

Elsewhere == Uploads \ FormUploads

ServerStep == /\ \/ \E u \in Elsewhere : Handle(u) \/ Misfortune(u)
                 \/ \E u \in FormUploads : Accepted(u) /\ Misfortune(u)
                 \/ Crash
              /\ UNCHANGED page

PageStep == \/ \E f \in FormFiles : selectFile(f)
            \/ selectWrongFile \/ selectNothing \/ chooseDifferent
            \/ \E u \in FormUploads : onSubmit(u)
            \/ uploadDocument \/ uploadRejected \/ NetworkFails

FormNext == PageStep \/ ServerStep \/ \E u \in FormUploads : HandleForm(u)

\* Requests are handled, answers arrive, and a dead server's connections break.
FormFairness == /\ WF_formVars(uploadDocument) /\ WF_formVars(uploadRejected)
                /\ WF_formVars(ServerDied)
                /\ \A u \in FormUploads : WF_formVars(HandleForm(u))

FormSpec == FormInit /\ [][FormNext]_formVars /\ FormFairness

-----------------------------------------------------------------------------
(* Properties.                                                             *)

\* The banner names the document that holds the submitted content, however files
\* were chosen and requests raced meanwhile, and says "created" only of a document
\* that a request of this page created.
BannerIsTrue ==
    outcome # NoOutcome =>
      /\ owner[outcome.content] = outcome.doc
      /\ outcome.kind = "created" => outcome.doc \in FormUploads /\ sent[outcome.doc] # NoFile

\* A message of the server is true of the request it answers: it speaks of the file
\* only if that file was not a PDF declared as one, of itself only if something went
\* wrong there, and says that the upload failed only if it created no document,
\* unless the database's own answer was lost.
MessageIsTrue ==
    error.of # NoUpload =>
      /\ error.says # "generic" => ~ Accepted(error.of)
      /\ error.says = "generic" => struck # {}
      /\ "lostAnswer" \notin struck => \A c \in Contents : owner[c] # error.of

\* The page never stays busy: each submission ends in a banner or a message.
SubmissionsEnd == submitting # NoUpload ~> submitting = NoUpload

=============================================================================
