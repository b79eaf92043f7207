-------------------------- MODULE UploadForm_proofs --------------------------
(***************************************************************************)
(* What is proved of the upload page, for every number of requests,        *)
(* contents, choices and misfortunes: that it only uploads, so that every  *)
(* theorem about uploads holds under it, and that its banner is true.      *)
(*                                                                         *)
(* The banner needs three facts.  A request carries the file that was      *)
(* chosen when it was submitted, whatever is chosen later; an answer names *)
(* the row that holds the content of its request; and a row never loses    *)
(* its content to another.                                                 *)
(***************************************************************************)
EXTENDS UploadForm, DocumentUpload_proofs

Answered == {"created", "duplicate"}

\* An answer names the row that holds the content, and a created one is its own.
Told == \A u \in Uploads :
          answer[u].kind \in Answered =>
            /\ owner[Content(u)] = answer[u].doc /\ answer[u].doc # NoUpload
            /\ answer[u].kind = "created" => answer[u].doc = u

PageTypes == /\ chosen \in FormFiles \cup {NoFile}
             /\ submitting \in FormUploads \cup {NoUpload}
             /\ sent \in [FormUploads -> FormFiles \cup {NoFile}]

SentAsChosen == \A u \in FormUploads : sent[u] # NoFile => sent[u].content = Content(u)

Waits == submitting # NoUpload => sent[submitting] # NoFile

Banner == outcome # NoOutcome =>
            /\ outcome.content \in Contents /\ outcome.doc # NoUpload
            /\ owner[outcome.content] = outcome.doc
            /\ outcome.kind = "created" => outcome.doc \in FormUploads /\ sent[outcome.doc] # NoFile

FormInv == Inv /\ Told /\ PageTypes /\ SentAsChosen /\ Waits /\ Banner

\* What no step takes away: the row of a content, and the content of a request.
Kept == /\ \A c \in Contents : owner[c] # NoUpload => owner'[c] = owner[c]
        /\ \A u \in Uploads : Content(u)' = Content(u)

-----------------------------------------------------------------------------

\* Seen without its page, a step of the page is a step of the uploads, or nothing.
LEMMA ServerView ==
    ASSUME [FormNext]_formVars
    PROVE  [Next]_vars
<1>1. CASE PageStep
  BY <1>1 DEF PageStep, selectFile, selectWrongFile, selectNothing, chooseDifferent, onSubmit,
              uploadDocument, uploadRejected, NetworkFails
<1>2. CASE ServerStep
  BY <1>2, FormAssumption DEF ServerStep, Elsewhere, Next
<1>3. CASE \E u \in FormUploads : HandleForm(u)
  BY <1>3, FormAssumption DEF HandleForm, Handle, Next
<1>4. CASE UNCHANGED formVars
  BY <1>4 DEF formVars
<1> QED
  BY <1>1, <1>2, <1>3, <1>4 DEF FormNext

\* The page uploads, and nothing else: every property of uploads holds under it.
THEOREM FormUploadsOnly == FormSpec => Spec
<1>1. FormInit => Init
  BY DEF FormInit
<1>2. [FormNext]_formVars => [Next]_vars
  BY ServerView
<1> QED
  BY <1>1, <1>2, PTL DEF FormSpec, Spec

\* Rows and contents are kept by every step of a request.
LEMMA KeptStep ==
    ASSUME Inv, NEW u \in Uploads, Handle(u) \/ Misfortune(u)
    PROVE  Kept
<1> USE DEF Inv, TypeOK, Content
<1>1. \A v \in Uploads : upload'[v].content = upload[v].content
  <2>1. \/ \E pc \in PCs : Goto(u, pc)
        \/ \E winner : Discards(u, winner)
        \/ \E kind, doc : Returns(u, kind, doc)
    <3>1. CASE Refuse(u) \/ findByContentHash(u) \/ save(u)
      BY <3>1 DEF Refuse, findByContentHash, save, Throws, PCs
    <3>2. CASE createWithEvent(u) \/ UniqueViolation(u) \/ findWinner(u)
      BY <3>2 DEF createWithEvent, UniqueViolation, findWinner, PCs
    <3>3. CASE delete(u) \/ DeleteError(u)
      BY <3>3 DEF delete, DeleteError, Resolved, Throws
    <3>4. CASE FindError(u) \/ SaveError(u) \/ CreateError(u) \/ CreateAnswerLost(u)
      BY <3>4 DEF FindError, SaveError, CreateError, CreateAnswerLost, Throws
    <3> QED
      BY <3>1, <3>2, <3>3, <3>4 DEF Handle, Process, Misfortune
  <2>2. upload[u] \in Request
    BY DEF Request
  <2>3. CASE \E pc \in PCs : Goto(u, pc)
    BY <2>2, <2>3 DEF Goto, Request
  <2>4. CASE \E winner : Discards(u, winner)
    BY <2>2, <2>4 DEF Discards, Request
  <2>5. CASE \E kind, doc : Returns(u, kind, doc)
    BY <2>2, <2>5 DEF Returns, Request
  <2> QED
    BY <2>1, <2>3, <2>4, <2>5
<1>2. owner' = owner \/ (owner[Content(u)] = NoUpload /\ owner' = [owner EXCEPT ![Content(u)] = u])
  BY DEF Handle, Process, Misfortune, Refuse, findByContentHash, save, createWithEvent,
         UniqueViolation, findWinner, delete, FindError, SaveError, CreateError,
         CreateAnswerLost, DeleteError
<1> QED
  BY <1>1, <1>2 DEF Kept

\* An answer is given once, and names the row of its content.
LEMMA ToldStep ==
    ASSUME Inv, Told, NEW u \in Uploads, Handle(u) \/ Misfortune(u)
    PROVE  Told'
<1> USE DEF Answered, Inv, TypeOK
<1>1. Kept
  BY KeptStep
<1>2. \A v \in Uploads : Content(v) \in Contents
  BY DEF Content
<1>3. ASSUME answer' = answer
      PROVE  Told'
  BY <1>1, <1>2, <1>3 DEF Told, Kept
<1>4. ASSUME NEW kind \in {"created", "duplicate"}, NEW doc \in Uploads,
             Returns(u, kind, doc), owner'[Content(u)] = doc,
             kind = "created" => doc = u
      PROVE  Told'
  <2>1. \A v \in Uploads : answer'[v] = IF v = u THEN [kind |-> kind, doc |-> doc] ELSE answer[v]
    BY <1>4 DEF Returns
  <2> QED
    BY <1>1, <1>2, <1>4, <2>1, NoUploadAssumption DEF Told, Kept
<1>5. ASSUME NEW kind \in {"error", "refused"}, Returns(u, kind, NoUpload)
      PROVE  Told'
  <2>1. \A v \in Uploads : answer'[v] = IF v = u THEN [kind |-> kind, doc |-> NoUpload] ELSE answer[v]
    BY <1>5 DEF Returns
  <2> QED
    BY <1>1, <1>2, <2>1 DEF Told, Kept
<1>6. CASE Refuse(u) \/ FindError(u) \/ SaveError(u)
  BY <1>5, <1>6 DEF Refuse, FindError, SaveError, Throws
<1>7. CASE findByContentHash(u)
  BY <1>2, <1>3, <1>4, <1>7 DEF findByContentHash, Goto
<1>8. CASE createWithEvent(u)
  BY <1>2, <1>4, <1>8 DEF createWithEvent
<1>9. CASE delete(u) \/ DeleteError(u)
  <2>1. upload[u].pc = "discarding" /\ Resolved(u) /\ owner' = owner
    BY <1>9 DEF delete, DeleteError
  <2>2. CASE upload[u].winner = NoUpload
    BY <1>5, <2>1, <2>2 DEF Resolved, Throws
  <2>3. CASE upload[u].winner # NoUpload
    BY <1>4, <2>1, <2>3 DEF Resolved, Winners
  <2> QED
    BY <2>2, <2>3
<1>10. CASE save(u) \/ UniqueViolation(u) \/ findWinner(u) \/ CreateError(u) \/ CreateAnswerLost(u)
  BY <1>3, <1>10
     DEF save, UniqueViolation, findWinner, CreateError, CreateAnswerLost, Goto, Discards
<1> QED
  BY <1>6, <1>7, <1>8, <1>9, <1>10 DEF Handle, Process, Misfortune

\* Whatever happens to the uploads, the page keeps its part of the invariant.
LEMMA UploadStep ==
    ASSUME FormInv, [Next]_vars, UNCHANGED page
    PROVE  Told' /\ PageTypes' /\ SentAsChosen' /\ Waits' /\ Banner'
<1>1. Told' /\ Kept
  <2>1. CASE \E u \in Uploads : Handle(u) \/ Misfortune(u)
    BY <2>1, KeptStep, ToldStep DEF FormInv
  <2>2. CASE Crash
    <3>1. \A u \in Uploads : upload'[u].content = upload[u].content
      BY <2>2 DEF Crash, FormInv, Inv, TypeOK
    <3>2. owner' = owner /\ answer' = answer
      BY <2>2 DEF Crash
    <3> QED
      BY <3>1, <3>2 DEF FormInv, Told, Kept, Content
  <2>3. CASE UNCHANGED vars
    BY <2>3 DEF vars, FormInv, Told, Kept, Content
  <2> QED
    BY <2>1, <2>2, <2>3 DEF Next
<1>2. PageTypes' /\ Waits' /\ Banner'
  BY <1>1 DEF page, FormInv, PageTypes, Waits, Banner, Kept
<1>3. SentAsChosen'
  BY <1>1, FormAssumption DEF page, FormInv, SentAsChosen, Kept
<1> QED
  BY <1>1, <1>2, <1>3

\* A step of the page.
LEMMA PageKeeps ==
    ASSUME FormInv, PageStep
    PROVE  FormInv'
<1> USE DEF FormInv
<1>1. UNCHANGED vars
  BY DEF PageStep, selectFile, selectWrongFile, selectNothing, chooseDifferent, onSubmit,
         uploadDocument, uploadRejected, NetworkFails
<1>2. Inv' /\ Told'
  BY <1>1 DEF vars, Inv, TypeOK, Rows, Files, Winners, Unanswered, NoOrphanFiles, Told, Content
<1>3. CASE \/ \E f \in FormFiles : selectFile(f)
           \/ selectWrongFile \/ selectNothing \/ chooseDifferent
           \/ uploadRejected \/ NetworkFails
  BY <1>1, <1>2, <1>3
     DEF vars, selectFile, selectWrongFile, selectNothing, chooseDifferent, uploadRejected,
         NetworkFails, Choice, PageTypes, SentAsChosen, Waits, Banner, Content
<1>4. CASE \E u \in FormUploads : onSubmit(u)
  <2>1. PICK u \in FormUploads : onSubmit(u)
    BY <1>4
  <2>2. PageTypes' /\ Waits' /\ Banner'
    BY <2>1 DEF onSubmit, PageTypes, Waits, Banner
  <2>3. SentAsChosen'
    BY <1>1, <2>1 DEF vars, onSubmit, PageTypes, SentAsChosen, Content
  <2> QED
    BY <1>2, <2>2, <2>3
<1>5. CASE uploadDocument
  <2>1. /\ submitting \in FormUploads /\ answer[submitting].kind \in Answered
        /\ sent[submitting] # NoFile
        /\ outcome' = [kind |-> answer[submitting].kind, doc |-> answer[submitting].doc,
                       content |-> sent[submitting].content]
        /\ chosen' = NoFile /\ submitting' = NoUpload /\ sent' = sent
    BY <1>5 DEF uploadDocument, PageTypes, Waits, Answered
  <2>2. /\ sent[submitting].content = Content(submitting)
        /\ sent[submitting].content \in Contents
    BY <2>1 DEF SentAsChosen, PageTypes, FormFiles
  <2>3. /\ owner[Content(submitting)] = answer[submitting].doc
        /\ answer[submitting].doc # NoUpload
        /\ answer[submitting].kind = "created" => answer[submitting].doc = submitting
    BY <2>1, FormAssumption DEF Told
  <2>4. Banner'
    BY <1>1, <2>1, <2>2, <2>3 DEF vars, Banner
  <2> QED
    BY <1>1, <1>2, <2>1, <2>4 DEF vars, PageTypes, SentAsChosen, Waits, Content
<1> QED
  BY <1>3, <1>4, <1>5 DEF PageStep

\* The invariant of the page over the uploads.
THEOREM FormCorrect == FormSpec => []FormInv
<1>1. FormInit => FormInv
  BY InitInv
     DEF FormInit, FormInv, Init, None, Answered, Told, PageTypes, SentAsChosen, Waits, Banner
<1>2. ASSUME FormInv, Inv', [FormNext]_formVars
      PROVE  FormInv'
  <2>1. CASE PageStep
    BY <1>2, <2>1, PageKeeps
  <2>2. CASE UNCHANGED page
    BY <1>2, <2>2, ServerView, UploadStep DEF FormInv
  <2> QED
    BY <1>2, <2>1, <2>2 DEF FormNext, ServerStep, HandleForm, formVars
<1> QED
  BY <1>1, <1>2, UploadCorrect, FormUploadsOnly, PTL DEF FormSpec

\* The banner names the document that holds the submitted content, and says
\* "created" only of a document of this page, however requests race and fail and
\* whatever files are chosen meanwhile.
THEOREM BannerNamesItsDocument == FormSpec => []BannerIsTrue
<1>1. FormInv => BannerIsTrue
  BY DEF FormInv, Banner, BannerIsTrue
<1> QED
  BY <1>1, FormCorrect, PTL

-----------------------------------------------------------------------------
(***************************************************************************)
(* That the server's messages are true takes three more facts: a row, once *)
(* no answer is lost, was answered "created"; a request of the page is     *)
(* refused only for its file; and it fails only after a misfortune, the    *)
(* rows it lost to being there for ever.                                   *)
(***************************************************************************)

OwnersAreTold ==
    "lostAnswer" \notin struck =>
      \A c \in Contents : owner[c] # NoUpload => answer[owner[c]].kind = "created"

RefusedForTheirFile ==
    \A u \in FormUploads : answer[u].kind = "refused" => sent[u] # NoFile /\ ~ Accepted(u)

FailedByMisfortune ==
    \A u \in Uploads :
      /\ upload[u].pc = "resolving" => owner[Content(u)] # NoUpload
      /\ upload[u].pc = "discarding" /\ upload[u].winner = NoUpload => struck # {}
      /\ answer[u].kind = "error" => struck # {}

\* The message speaks of a request that was answered so.
Spoken == error.of # NoUpload =>
            /\ error.of \in FormUploads /\ answer[error.of].kind \in {"refused", "error"}
            /\ error.says = toApiError(normalise(Thrown(error.of)))

TruthInv == OwnersAreTold /\ RefusedForTheirFile /\ FailedByMisfortune /\ Spoken

\* What a step of one request does to its answer.
LEMMA AnswerStep ==
    ASSUME Inv, NEW u \in Uploads, Handle(u) \/ Misfortune(u)
    PROVE  /\ answer[u].kind # "none" => answer' = answer
           /\ \A v \in Uploads \ {u} : answer'[v] = answer[v]
           /\ answer'[u].kind = "refused" => Refuse(u) \/ answer'[u] = answer[u]
           /\ struck \subseteq struck'
<1> USE DEF Inv, TypeOK
<1>1. answer' = answer \/ (upload[u].pc # "done" /\ \E kind, doc : Returns(u, kind, doc))
  <2>1. CASE Refuse(u) \/ findByContentHash(u) \/ save(u) \/ createWithEvent(u)
    BY <2>1 DEF Refuse, findByContentHash, save, createWithEvent, Goto
  <2>2. CASE UniqueViolation(u) \/ findWinner(u) \/ CreateError(u) \/ CreateAnswerLost(u)
    BY <2>2 DEF UniqueViolation, findWinner, CreateError, CreateAnswerLost, Goto, Discards
  <2>3. CASE delete(u) \/ DeleteError(u)
    BY <2>3 DEF delete, DeleteError, Resolved, Throws
  <2>4. CASE FindError(u) \/ SaveError(u)
    BY <2>4 DEF FindError, SaveError, Throws
  <2> QED
    BY <2>1, <2>2, <2>3, <2>4 DEF Handle, Process, Misfortune
<1>2. answer[u].kind # "none" => answer' = answer
  BY <1>1 DEF Unanswered, None
<1>3. \A v \in Uploads \ {u} : answer'[v] = answer[v]
  BY <1>1 DEF Returns
<1>4. answer'[u].kind = "refused" => Refuse(u) \/ answer'[u] = answer[u]
  <2>1. CASE Refuse(u) \/ answer' = answer
    BY <2>1
  <2>2. CASE \E kind \in {"created", "duplicate", "error"} : \E doc : Returns(u, kind, doc)
    BY <2>2 DEF Returns
  <2>3. ~ Refuse(u) => \/ answer' = answer
                      \/ \E kind \in {"created", "duplicate", "error"} : \E doc : Returns(u, kind, doc)
    BY DEF Handle, Process, Misfortune, findByContentHash, save, createWithEvent,
           UniqueViolation, findWinner, delete, FindError, SaveError, CreateError,
           CreateAnswerLost, DeleteError, Resolved, Throws, Goto, Discards
  <2> QED
    BY <2>1, <2>2, <2>3
<1>5. struck \subseteq struck'
  BY DEF Handle, Process, Misfortune, Refuse, findByContentHash, save, createWithEvent,
         UniqueViolation, findWinner, delete, FindError, SaveError, CreateError,
         CreateAnswerLost, DeleteError, Fine, Fault
<1> QED
  BY <1>2, <1>3, <1>4, <1>5

\* A row that appears is answered "created", unless that answer is lost.
LEMMA OwnersStep ==
    ASSUME Inv, OwnersAreTold, NEW u \in Uploads, Handle(u) \/ Misfortune(u)
    PROVE  OwnersAreTold'
<1> USE DEF Inv, TypeOK
<1> SUFFICES ASSUME "lostAnswer" \notin struck', NEW c \in Contents, owner'[c] # NoUpload
             PROVE  answer'[owner'[c]].kind = "created"
  BY DEF OwnersAreTold
<1>1. "lostAnswer" \notin struck
  BY AnswerStep
<1>2. CASE owner[c] # NoUpload
  <2>1. owner'[c] = owner[c] /\ answer[owner[c]].kind = "created" /\ owner[c] \in Uploads
    BY <1>1, <1>2, KeptStep DEF OwnersAreTold, Kept
  <2> QED
    BY <2>1, AnswerStep
<1>3. CASE owner[c] = NoUpload
  <2>1. CASE createWithEvent(u)
    <3>1. owner'[c] = u
      BY <1>3, <2>1 DEF createWithEvent
    <3>2. answer'[u].kind = "created"
      BY <2>1 DEF createWithEvent, Returns
    <3> QED
      BY <3>1, <3>2
  <2>2. CASE CreateAnswerLost(u)
    BY <2>2 DEF CreateAnswerLost, Fault
  <2>3. createWithEvent(u) \/ CreateAnswerLost(u)
    BY <1>3 DEF Handle, Process, Misfortune, Refuse, findByContentHash, save,
           UniqueViolation, findWinner, delete, FindError, SaveError, CreateError, DeleteError
  <2> QED
    BY <2>1, <2>2, <2>3
<1> QED
  BY <1>2, <1>3

\* A request fails only after a misfortune.
LEMMA FailureStep ==
    ASSUME Inv, FailedByMisfortune, NEW u \in Uploads, Handle(u) \/ Misfortune(u)
    PROVE  FailedByMisfortune'
<1> USE DEF Inv, TypeOK
<1>1. Kept /\ struck \subseteq struck'
  BY KeptStep, AnswerStep
<1>2. \A v \in Uploads : Content(v) \in Contents
  BY DEF Content
<1>3. \A v \in Uploads \ {u} : upload'[v] = upload[v] /\ answer'[v] = answer[v]
  BY DEF Handle, Process, Misfortune, Refuse, findByContentHash, save, createWithEvent,
         UniqueViolation, findWinner, delete, FindError, SaveError, CreateError,
         CreateAnswerLost, DeleteError, Goto, Discards, Resolved, Throws, Returns
<1>3a. /\ \A pc : Goto(u, pc) => upload'[u].pc = pc
       /\ \A winner : Discards(u, winner) => upload'[u].pc = "discarding"
       /\ \A kind, doc : Returns(u, kind, doc) => upload'[u].pc = "done"
  <2>1. upload[u] \in Request
    BY DEF Request
  <2>2. \A pc : Goto(u, pc) => upload'[u].pc = pc
    BY <2>1 DEF Goto, Request
  <2>3. \A winner : Discards(u, winner) => upload'[u].pc = "discarding"
    BY <2>1 DEF Discards, Request
  <2>4. \A kind, doc : Returns(u, kind, doc) => upload'[u].pc = "done"
    BY <2>1 DEF Returns, Request
  <2> QED
    BY <2>2, <2>3, <2>4
<1>4. upload'[u].pc = "resolving" => owner'[Content(u)] # NoUpload
  <2>1. upload'[u].pc = "resolving" => UniqueViolation(u)
    BY <1>3a
       DEF Handle, Process, Misfortune, Refuse, findByContentHash, save, createWithEvent,
           findWinner, delete, FindError, SaveError, CreateError,
           CreateAnswerLost, DeleteError, Resolved, Throws
  <2> QED
    BY <2>1 DEF UniqueViolation
<1>5. upload'[u].pc = "discarding" /\ upload'[u].winner = NoUpload => struck' # {}
  <2>1. upload'[u].pc = "discarding" => findWinner(u) \/ CreateError(u) \/ CreateAnswerLost(u)
    BY <1>3a
       DEF Handle, Process, Misfortune, Refuse, findByContentHash, save, createWithEvent,
           UniqueViolation, delete, FindError, SaveError, DeleteError, Resolved, Throws
  <2>2. CASE findWinner(u)
    BY <2>2 DEF findWinner, Discards, FailedByMisfortune
  <2>3. CASE CreateError(u) \/ CreateAnswerLost(u)
    BY <2>3 DEF CreateError, CreateAnswerLost, Fault
  <2> QED
    BY <2>1, <2>2, <2>3
<1>6. answer'[u].kind = "error" => struck' # {}
  <2>1. CASE answer' = answer
    BY <1>1, <2>1 DEF FailedByMisfortune
  <2>2. CASE FindError(u) \/ SaveError(u) \/ DeleteError(u)
    BY <2>2 DEF FindError, SaveError, DeleteError, Fault
  <2>3. CASE delete(u) /\ upload[u].winner = NoUpload
    BY <1>1, <2>3 DEF delete, FailedByMisfortune
  <2>4. CASE \E kind \in {"created", "duplicate", "refused"} : \E doc : Returns(u, kind, doc)
    BY <2>4 DEF Returns
  <2> QED
    BY <2>1, <2>2, <2>3, <2>4
       DEF Handle, Process, Misfortune, Refuse, findByContentHash, save, createWithEvent,
           UniqueViolation, findWinner, delete, CreateError, CreateAnswerLost,
           Goto, Discards, Resolved
<1>7. \A v \in Uploads : Content(v)' = Content(v)
  BY <1>1 DEF Kept
<1> QED
  BY <1>1, <1>2, <1>3, <1>4, <1>5, <1>6, <1>7 DEF FailedByMisfortune, Kept

\* A request of the page is refused by HandleForm alone.
LEMMA RefusalStep ==
    ASSUME FormInv, RefusedForTheirFile, ServerStep \/ \E u \in FormUploads : HandleForm(u)
    PROVE  RefusedForTheirFile'
<1> USE FormAssumption DEF FormInv
<1>1. sent' = sent /\ UNCHANGED page
  BY DEF ServerStep, HandleForm, page
<1>2. ASSUME NEW v \in FormUploads, answer'[v].kind = "refused"
      PROVE  answer'[v] = answer[v] \/ (HandleForm(v) /\ Refuse(v))
  <2>1. CASE \E u \in Elsewhere : Handle(u) \/ Misfortune(u)
    BY <2>1, AnswerStep DEF Elsewhere
  <2>2. CASE \E u \in FormUploads : Accepted(u) /\ Misfortune(u)
    <3>1. PICK u \in FormUploads : Misfortune(u)
      BY <2>2
    <3>2. ~ (Refuse(u) /\ answer'[u].kind = "refused")
      BY <3>1 DEF Misfortune, Refuse, FindError, SaveError, CreateError, CreateAnswerLost,
                  DeleteError, Throws, Returns, Inv, TypeOK
    <3> QED
      BY <1>2, <3>1, <3>2, AnswerStep
  <2>3. CASE Crash
    BY <2>3 DEF Crash
  <2>4. CASE \E u \in FormUploads : HandleForm(u)
    <3>1. PICK u \in FormUploads : HandleForm(u)
      BY <2>4
    <3>2. Handle(u)
      BY <3>1 DEF HandleForm, Handle
    <3> QED
      BY <1>2, <3>1, <3>2, AnswerStep
  <2> QED
    BY <2>1, <2>2, <2>3, <2>4 DEF ServerStep
<1>3. ASSUME NEW v \in FormUploads, HandleForm(v), Refuse(v), answer'[v].kind = "refused"
      PROVE  sent[v] # NoFile /\ ~ Accepted(v)
  <2>1. ~ Process(v)
    BY <1>3 DEF Refuse, Process, Returns, findByContentHash, save, createWithEvent,
           UniqueViolation, findWinner, delete, Goto, Inv, TypeOK
  <2> QED
    BY <1>3, <2>1 DEF HandleForm
<1>4. \A v \in FormUploads : Accepted(v)' = Accepted(v)
  BY <1>1 DEF Accepted, Dropped, isPdf
<1> QED
  BY <1>1, <1>2, <1>3, <1>4 DEF RefusedForTheirFile

\* Whatever the server does, what was said stays said.
LEMMA ServerTells ==
    ASSUME FormInv, TruthInv, ServerStep \/ \E u \in FormUploads : HandleForm(u)
    PROVE  TruthInv'
<1> USE FormAssumption DEF FormInv, TruthInv
<1>1. RefusedForTheirFile'
  BY RefusalStep
<1>2. UNCHANGED page /\ (Crash \/ \E u \in Uploads : Handle(u) \/ Misfortune(u))
  BY DEF ServerStep, HandleForm, Elsewhere, Handle
<1>3. CASE Crash
  <2>1. /\ UNCHANGED <<owner, answer>> /\ struck' = struck \cup {"crash"}
        /\ \A u \in Uploads : /\ upload'[u].pc \in {upload[u].pc, "done"}
                             /\ upload'[u].content = upload[u].content
                             /\ upload'[u].winner = upload[u].winner
    BY <1>3 DEF Crash, Fault, Inv, TypeOK
  <2>2. OwnersAreTold' /\ FailedByMisfortune'
    BY <2>1 DEF OwnersAreTold, FailedByMisfortune, Content
  <2>3. Spoken'
    BY <1>2, <2>1 DEF page, Spoken, Thrown, Dropped
  <2> QED
    BY <1>1, <2>2, <2>3
<1>4. CASE \E u \in Uploads : Handle(u) \/ Misfortune(u)
  <2>1. OwnersAreTold' /\ FailedByMisfortune'
    BY <1>4, OwnersStep, FailureStep
  <2>2. error.of # NoUpload => answer'[error.of] = answer[error.of]
    BY <1>4, AnswerStep DEF Spoken
  <2>3. Spoken'
    BY <1>2, <2>2 DEF page, Spoken, Thrown, Dropped
  <2> QED
    BY <1>1, <2>1, <2>3
<1> QED
  BY <1>2, <1>3, <1>4

\* A step of the page repeats what the server said, of the request it waited for.
LEMMA PageTells ==
    ASSUME FormInv, TruthInv, PageStep
    PROVE  TruthInv'
<1> USE DEF FormInv, TruthInv
<1>1. UNCHANGED vars
  BY DEF PageStep, selectFile, selectWrongFile, selectNothing, chooseDifferent, onSubmit,
         uploadDocument, uploadRejected, NetworkFails
<1>2. OwnersAreTold' /\ FailedByMisfortune'
  BY <1>1 DEF vars, OwnersAreTold, FailedByMisfortune, Content
<1>3. \A u \in FormUploads : sent[u] # NoFile => sent'[u] = sent[u]
  BY DEF PageStep, selectFile, selectWrongFile, selectNothing, chooseDifferent, onSubmit,
         uploadDocument, uploadRejected, NetworkFails, PageTypes
<1>4. RefusedForTheirFile'
  BY <1>1, <1>3 DEF vars, RefusedForTheirFile, Accepted, Dropped, isPdf
<1>5. Spoken'
  <2>1. CASE \/ \E f \in FormFiles : selectFile(f)
             \/ selectWrongFile \/ NetworkFails
             \/ \E u \in FormUploads : onSubmit(u)
    BY <2>1 DEF selectFile, selectWrongFile, NetworkFails, onSubmit, NoMessage, Message, Spoken
  <2>2. CASE selectNothing \/ chooseDifferent \/ uploadDocument
    BY <1>1, <2>2 DEF vars, selectNothing, chooseDifferent, uploadDocument, Spoken, Thrown, Dropped
  <2>3. CASE uploadRejected
    BY <1>1, <2>3 DEF vars, uploadRejected, Failed, Message, PageTypes, Spoken, Thrown, Dropped
  <2> QED
    BY <2>1, <2>2, <2>3 DEF PageStep
<1> QED
  BY <1>2, <1>4, <1>5

\* Only a refusal is quoted, and only the rest is said to be the server's fault.
LEMMA Quoted ==
    ASSUME NEW err
    PROVE  /\ err = "unknown" => toApiError(normalise(err)) = "generic"
           /\ err \in {"ValidationError", "UnsupportedFileTypeError"} =>
                toApiError(normalise(err)) = err
<1>1. /\ AppError = {"ValidationError", "NotFoundError", "ConflictError",
                     "FileTooLargeError", "UnsupportedFileTypeError"}
      /\ DOMAIN wrapped = {"ZodError", "MulterError", "LIMIT_FILE_SIZE"}
      /\ statusCode["ValidationError"] = 400 /\ statusCode["UnsupportedFileTypeError"] = 415
  BY DEF AppError, statusCode, wrapped
<1> QED
  BY <1>1 DEF normalise, toApiError, ErrorBody

\* What the page says a server answered is true: it blames the file only of a file at
\* fault, itself only after a misfortune, and reports as failed only what created
\* nothing, unless the database's answer was lost.
THEOREM MessagesAreTrue == FormSpec => []MessageIsTrue
<1>1. FormInit => TruthInv
  <2> SUFFICES ASSUME FormInit PROVE TruthInv
    OBVIOUS
  <2>1. PICK content \in [Uploads -> Contents] :
          upload = [u \in Uploads |->
                      [pc |-> "new", content |-> content[u], winner |-> NoUpload]]
    BY DEF FormInit, Init
  <2>2. OwnersAreTold /\ Spoken
    BY DEF FormInit, Init, NoMessage, Message, OwnersAreTold, Spoken
  <2>3. RefusedForTheirFile /\ FailedByMisfortune
    BY <2>1, FormAssumption DEF FormInit, Init, None, RefusedForTheirFile, FailedByMisfortune
  <2> QED
    BY <2>2, <2>3 DEF TruthInv
<1>2. ASSUME FormInv, TruthInv, [FormNext]_formVars
      PROVE  TruthInv'
  <2>1. CASE PageStep
    BY <1>2, <2>1, PageTells
  <2>2. CASE ServerStep \/ \E u \in FormUploads : HandleForm(u)
    BY <1>2, <2>2, ServerTells
  <2>3. CASE UNCHANGED formVars
    BY <1>2, <2>3
       DEF formVars, vars, page, TruthInv, OwnersAreTold, RefusedForTheirFile, Accepted,
           Dropped, isPdf, FailedByMisfortune, Spoken, Thrown, Content
  <2> QED
    BY <1>2, <2>1, <2>2, <2>3 DEF FormNext
<1>3. FormInv /\ TruthInv => MessageIsTrue
  <2> SUFFICES ASSUME FormInv, TruthInv, error.of # NoUpload
               PROVE  /\ error.says # "generic" => ~ Accepted(error.of)
                      /\ error.says = "generic" => struck # {}
                      /\ "lostAnswer" \notin struck => \A c \in Contents : owner[c] # error.of
    BY DEF MessageIsTrue
  <2>1. /\ error.of \in FormUploads /\ answer[error.of].kind \in {"refused", "error"}
        /\ error.says = toApiError(normalise(Thrown(error.of)))
    BY DEF TruthInv, Spoken
  <2>2. CASE answer[error.of].kind = "error"
    BY <2>1, <2>2, Quoted, FormAssumption
       DEF Thrown, TruthInv, FailedByMisfortune, OwnersAreTold
  <2>3. CASE answer[error.of].kind = "refused"
    <3>1. Thrown(error.of) \in {"ValidationError", "UnsupportedFileTypeError"}
      BY <2>3 DEF Thrown
    <3>2. error.says # "generic"
      BY <2>1, <3>1, Quoted
    <3> QED
      BY <2>1, <2>3, <3>2 DEF TruthInv, RefusedForTheirFile, OwnersAreTold
  <2> QED
    BY <2>1, <2>2, <2>3
<1> QED
  BY <1>1, <1>2, <1>3, FormCorrect, PTL DEF FormSpec

=============================================================================
