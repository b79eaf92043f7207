------------------------- MODULE DocumentUpload_proofs -------------------------
(* Theorems about uploads, for every number of requests and contents.      *)
EXTENDS DocumentUpload, TLAPS

Request == [pc : PCs, content : Contents, winner : Uploads \cup {NoUpload}]

-----------------------------------------------------------------------------
(* The inductive invariant: what each step of a request may rely on.       *)

\* A row belongs to a request that has passed its transaction; unless an answer
\* was lost it is done, so nobody will discard its file.
Rows == \A c \in Contents : owner[c] # NoUpload =>
          /\ Content(owner[c]) = c
          /\ upload[owner[c]].pc \in {"discarding", "done"}
          /\ "lostAnswer" \notin struck =>
                upload[owner[c]].pc = "done" /\ file[owner[c]] = "whole"

\* The file is complete before the transaction and absent before it is saved.
Files == \A u \in Uploads :
           /\ upload[u].pc = "creating" => file[u] = "whole"
           /\ upload[u].pc \in {"new", "saving"} => file[u] = "absent"

\* A request that lost the race has found the row it lost to.
Winners == \A u \in Uploads :
             upload[u].pc = "discarding" /\ upload[u].winner # NoUpload =>
               owner[Content(u)] = upload[u].winner

Unanswered == \A u \in Uploads : upload[u].pc # "done" => answer[u] = None

Inv == TypeOK /\ Rows /\ Files /\ Winners /\ Unanswered /\ NoOrphanFiles

-----------------------------------------------------------------------------

LEMMA InitInv == Init => Inv
  <1> SUFFICES ASSUME Init PROVE Inv
    OBVIOUS
  <1>1. PICK content \in [Uploads -> Contents] :
          upload = [u \in Uploads |->
                      [pc |-> "new", content |-> content[u], winner |-> NoUpload]]
    BY DEF Init
  <1>2. TypeOK
    BY <1>1 DEF Init, TypeOK, PCs, Kinds, None
  <1>3. Rows /\ Files /\ Winners /\ Unanswered /\ NoOrphanFiles
    BY <1>1, NoUploadAssumption DEF Init, Rows, Files, Winners, Unanswered, NoOrphanFiles, None
  <1> QED BY <1>2, <1>3 DEF Inv

\* The steps of one request keep the types.
LEMMA TypeStep ==
  ASSUME TypeOK, NEW u \in Uploads, Handle(u) \/ Misfortune(u)
  PROVE  TypeOK'
  <1> USE DEF TypeOK, PCs, Kinds, FaultKinds
  <1>0. upload[u] \in Request /\ owner[Content(u)] \in Uploads \cup {NoUpload}
    BY DEF Request, Content
  <1>1. CASE Refuse(u) \/ findByContentHash(u)
    BY <1>0, <1>1 DEF Request, Refuse, findByContentHash, Throws, Returns, Goto, Fine
  <1>2. CASE save(u) \/ createWithEvent(u) \/ UniqueViolation(u)
    BY <1>0, <1>2 DEF Request, save, createWithEvent, UniqueViolation, Returns, Goto, Fine, Content
  <1>3. CASE findWinner(u)
    BY <1>0, <1>3 DEF Request, findWinner, Discards, Fine
  <1>3a. ASSUME Resolved(u) \/ Throws(u)
        PROVE  /\ upload' \in [Uploads -> Request]
               /\ answer' \in [Uploads -> [kind : Kinds, doc : Uploads \cup {NoUpload}]]
    <2>1. PICK kind \in Kinds, doc \in Uploads \cup {NoUpload} : Returns(u, kind, doc)
      BY <1>0, <1>3a DEF Request, Resolved, Throws
    <2> QED BY <1>0, <2>1 DEF Request, Returns
  <1>4. CASE delete(u)
    BY <1>3a, <1>4 DEF Request, delete, Fine
  <1>5. CASE FindError(u)
    BY <1>3a, <1>5, MaxFaultsAssumption DEF Request, FindError, Fault
  <1>5a. CASE DeleteError(u)
    BY <1>3a, <1>5a, MaxFaultsAssumption DEF Request, DeleteError, Fault
  <1>6. CASE SaveError(u)
    <2>1. file' \in [Uploads -> {"absent", "partial", "whole"}]
      BY <1>6 DEF SaveError
    <2> QED BY <1>3a, <1>6, <2>1, MaxFaultsAssumption DEF Request, SaveError, Fault
  <1>7. CASE CreateError(u) \/ CreateAnswerLost(u)
    <2>1. Discards(u, NoUpload) /\ file' = file
      BY <1>7 DEF CreateError, CreateAnswerLost
    <2>2. upload' \in [Uploads -> Request] /\ answer' = answer
      BY <1>0, <2>1 DEF Request, Discards
    <2>3. owner' \in [Contents -> Uploads \cup {NoUpload}]
      BY <1>7 DEF CreateError, CreateAnswerLost
    <2>4. \E kind \in FaultKinds : Fault(kind)
      BY <1>7 DEF CreateError, CreateAnswerLost
    <2>5. struck' \subseteq FaultKinds /\ faults' \in Nat
      BY <2>4, MaxFaultsAssumption DEF Fault
    <2> QED BY <2>1, <2>2, <2>3, <2>5 DEF Request
  <1> QED BY <1>1, <1>2, <1>3, <1>4, <1>5, <1>5a, <1>6, <1>7 DEF Handle, Process, Misfortune

LEMMA TypeCrash ==
  ASSUME TypeOK, Crash
  PROVE  TypeOK'
  BY MaxFaultsAssumption DEF TypeOK, Crash, Fault, PCs, Kinds, FaultKinds

\* A request that ends without touching the rows or another request's file.
LEMMA Ending ==
  ASSUME Inv, NEW u \in Uploads, upload[u].pc # "done", NEW told,
         upload' = [upload EXCEPT ![u] = [upload[u] EXCEPT !.pc = "done"]],
         answer' = [answer EXCEPT ![u] = told],
         owner' = owner, struck \subseteq struck',
         \A v \in Uploads \ {u} : file'[v] = file[v]
  PROVE  Rows' /\ Files' /\ Winners' /\ Unanswered'
  <1> USE NoUploadAssumption DEF Inv, TypeOK, Content
  <1>1. \A v \in Uploads : /\ upload'[v].pc = IF v = u THEN "done" ELSE upload[v].pc
                          /\ upload'[v].content = upload[v].content
                          /\ upload'[v].winner = upload[v].winner
                          /\ v # u => answer'[v] = answer[v]
    OBVIOUS
  <1>2. Rows'
    BY <1>1 DEF Rows
  <1>3. Files'
    BY <1>1 DEF Files
  <1>4. Winners'
    BY <1>1 DEF Winners
  <1>5. Unanswered'
    BY <1>1 DEF Unanswered
  <1> QED BY <1>2, <1>3, <1>4, <1>5

\* A request that goes on, before its transaction or from a lost race.
LEMMA Proceeding ==
  ASSUME Inv, NEW u \in Uploads, upload[u].pc \in {"new", "saving", "creating"},
         NEW pc \in {"saving", "creating", "resolving"},
         Goto(u, pc), owner' = owner, struck' = struck,
         pc = "creating" => file'[u] = "whole",
         pc = "saving" => file'[u] = "absent",
         \A v \in Uploads \ {u} : file'[v] = file[v]
  PROVE  Rows' /\ Files' /\ Winners' /\ Unanswered'
  <1> USE NoUploadAssumption DEF Inv, TypeOK, Content
  <1>1. \A v \in Uploads : /\ upload'[v].pc = IF v = u THEN pc ELSE upload[v].pc
                          /\ upload'[v].content = upload[v].content
                          /\ upload'[v].winner = upload[v].winner
    BY DEF Goto
  <1>2. Rows'
    BY <1>1 DEF Rows
  <1>3. Files'
    BY <1>1 DEF Files
  <1>4. Winners'
    BY <1>1 DEF Winners
  <1>5. Unanswered'
    BY <1>1 DEF Unanswered, Goto
  <1> QED BY <1>2, <1>3, <1>4, <1>5

\* The steps of one request keep what the requests rely on.
LEMMA StepInv ==
  ASSUME Inv, NEW u \in Uploads, Handle(u) \/ Misfortune(u)
  PROVE  Rows' /\ Files' /\ Winners' /\ Unanswered'
  <1> USE NoUploadAssumption
  <1>1. CASE Refuse(u)
    BY <1>1, Ending DEF Refuse, Returns, Fine
  <1>2. CASE findByContentHash(u)
    <2>1. CASE owner[Content(u)] # NoUpload
      BY <1>2, <2>1, Ending DEF findByContentHash, Returns, Fine
    <2>2. CASE owner[Content(u)] = NoUpload
      <3>1. Goto(u, "saving") /\ upload[u].pc = "new"
        BY <1>2, <2>2 DEF findByContentHash
      <3>2. UNCHANGED <<owner, file, struck>>
        BY <1>2 DEF findByContentHash, Fine
      <3>3. file[u] = "absent"
        BY <3>1 DEF Inv, Files
      <3> QED BY <3>1, <3>2, <3>3, Proceeding
    <2> QED BY <2>1, <2>2
  <1>3. CASE save(u)
    <2>1. file'[u] = "whole" /\ \A v \in Uploads \ {u} : file'[v] = file[v]
      BY <1>3 DEF save, Inv, TypeOK
    <2> QED BY <1>3, <2>1, Proceeding DEF save, Fine
  <1>4. CASE createWithEvent(u)
    BY <1>4 DEF createWithEvent, Returns, Fine, Inv, TypeOK, Rows, Files, Winners, Unanswered, Content
  <1>5. CASE UniqueViolation(u)
    BY <1>5, Proceeding DEF UniqueViolation, Fine
  <1>6. CASE findWinner(u)
    BY <1>6 DEF findWinner, Discards, Fine, Inv, TypeOK, Rows, Files, Winners, Unanswered, Content
  <1>7. CASE delete(u)
    <2>1. \A v \in Uploads \ {u} : file'[v] = file[v]
      BY <1>7 DEF delete, Inv, TypeOK
    <2> QED BY <1>7, <2>1, Ending DEF delete, Resolved, Throws, Returns, Fine
  <1>8. CASE FindError(u)
    BY <1>8, Ending DEF FindError, Throws, Returns, Fault
  <1>9. CASE SaveError(u)
    <2>1. \A v \in Uploads \ {u} : file'[v] = file[v]
      BY <1>9 DEF SaveError, Inv, TypeOK
    <2> QED BY <1>9, <2>1, Ending DEF SaveError, Throws, Returns, Fault
  <1>10. CASE CreateError(u)
    BY <1>10 DEF CreateError, Discards, Fault, Inv, TypeOK, Rows, Files, Winners, Unanswered, Content
  <1>11. CASE CreateAnswerLost(u)
    BY <1>11 DEF CreateAnswerLost, Discards, Fault, Inv, TypeOK, Rows, Files, Winners, Unanswered, Content
  <1>12. CASE DeleteError(u)
    BY <1>12, Ending DEF DeleteError, Resolved, Throws, Returns, Fault
  <1> QED BY <1>1, <1>2, <1>3, <1>4, <1>5, <1>6, <1>7, <1>8, <1>9, <1>10, <1>11, <1>12
          DEF Handle, Process, Misfortune

\* No step of a request leaves a file behind unless some other misfortune struck.
LEMMA OrphanStep ==
  ASSUME Inv, NEW u \in Uploads, Handle(u) \/ Misfortune(u)
  PROVE  NoOrphanFiles'
  <1> SUFFICES ASSUME struck' \subseteq {"createError"} PROVE NoOrphanFiles'
    BY DEF NoOrphanFiles
  <1> USE NoUploadAssumption DEF Inv, TypeOK, NoOrphanFiles, Content
  <1>1. CASE Refuse(u)
    BY <1>1 DEF Refuse, Returns, Fine, Files
  <1>2. CASE findByContentHash(u)
    BY <1>2 DEF findByContentHash, Returns, Goto, Fine, Files
  <1>3. CASE save(u)
    BY <1>3 DEF save, Goto, Fine
  <1>4. CASE createWithEvent(u)
    BY <1>4 DEF createWithEvent, Returns, Fine
  <1>5. CASE UniqueViolation(u)
    BY <1>5 DEF UniqueViolation, Goto, Fine
  <1>6. CASE findWinner(u)
    BY <1>6 DEF findWinner, Discards, Fine
  <1>7. CASE delete(u)
    BY <1>7 DEF delete, Resolved, Throws, Returns, Fine
  <1>8. CASE CreateError(u)
    BY <1>8 DEF CreateError, Discards, Fault
  <1>9. ~ (FindError(u) \/ SaveError(u) \/ CreateAnswerLost(u) \/ DeleteError(u))
    BY DEF FindError, SaveError, CreateAnswerLost, DeleteError, Fault
  <1> QED BY <1>1, <1>2, <1>3, <1>4, <1>5, <1>6, <1>7, <1>8, <1>9 DEF Handle, Process, Misfortune

LEMMA CrashInv ==
  ASSUME Inv, Crash
  PROVE  (Rows /\ Files /\ Winners /\ Unanswered /\ NoOrphanFiles)'
  <1> USE NoUploadAssumption DEF Inv, TypeOK, Content
  <1>1. /\ UNCHANGED <<owner, answer>>
        /\ struck' = struck \cup {"crash"}
        /\ upload' = [u \in Uploads |->
                        IF upload[u].pc = "new" THEN upload[u]
                                                ELSE [upload[u] EXCEPT !.pc = "done"]]
    BY DEF Crash, Fault
  <1>2. \A u \in Uploads : upload[u].pc # "saving" => file'[u] = file[u]
    BY DEF Crash
  <1>3. \A u \in Uploads : /\ upload'[u].content = upload[u].content
                          /\ upload'[u].pc = IF upload[u].pc = "new" THEN "new" ELSE "done"
    BY <1>1
  <1>4. Rows'
    BY <1>1, <1>2, <1>3 DEF Rows
  <1>5. Files'
    BY <1>2, <1>3 DEF Files
  <1>6. Winners'
    BY <1>3 DEF Winners
  <1>7. Unanswered'
    BY <1>1, <1>3 DEF Unanswered
  <1>8. NoOrphanFiles'
    BY <1>1 DEF NoOrphanFiles
  <1> QED BY <1>4, <1>5, <1>6, <1>7, <1>8

\* The invariant holds for ever.
THEOREM UploadCorrect == Spec => []Inv
  <1>1. ASSUME Inv, [Next]_vars PROVE Inv'
    <2>1. CASE \E u \in Uploads : Handle(u) \/ Misfortune(u)
      BY <1>1, <2>1, TypeStep, StepInv, OrphanStep DEF Inv
    <2>2. CASE Crash
      BY <1>1, <2>2, TypeCrash, CrashInv DEF Inv
    <2>3. CASE UNCHANGED vars
      BY <1>1, <2>3 DEF vars, Inv, TypeOK, Rows, Files, Winners, Unanswered, NoOrphanFiles, Content
    <2> QED BY <1>1, <2>1, <2>2, <2>3 DEF Next
  <1> QED BY InitInv, <1>1, PTL DEF Spec

-----------------------------------------------------------------------------

\* Whatever races and fails, short of a lost answer, the file of every document is
\* kept in full.
THEOREM FilesAreKept == Spec => []EveryDocumentHasItsFile
  <1>1. Inv => EveryDocumentHasItsFile
    BY DEF Inv, Rows, EveryDocumentHasItsFile, getDocumentFile, read
  <1> QED BY <1>1, UploadCorrect, PTL

\* Lost races and failed transactions leave no file behind.
THEOREM NothingIsLeftBehind == Spec => []NoOrphanFiles
  <1>1. Inv => NoOrphanFiles
    BY DEF Inv
  <1> QED BY <1>1, UploadCorrect, PTL

\* Seen by the rows and the answers alone, a step of a request is a step of an
\* atomic find-or-create, or nothing.
LEMMA AtomicStep ==
  ASSUME Inv, NEW u \in Uploads, Handle(u) \/ Misfortune(u)
  PROVE  Atomic!Next \/ UNCHANGED <<owner, answer>>
  <1> USE DEF None
  <1>1. Content(u) \in Contents
    BY DEF Inv, TypeOK, Content
  <1>2. ASSUME upload[u].pc # "done", Throws(u), owner' = owner
        PROVE  Atomic!Next
    <2>1. Atomic!Fail(u)
      BY <1>2 DEF Inv, Unanswered, Throws, Returns, Atomic!Fail, Atomic!Answer, Atomic!None
    <2> QED BY <2>1 DEF Atomic!Next
  <1>3. ASSUME upload[u].pc # "done", owner[Content(u)] # NoUpload,
               Returns(u, "duplicate", owner[Content(u)]), owner' = owner
        PROVE  Atomic!Next
    <2>1. Atomic!Find(u, Content(u))
      BY <1>3 DEF Inv, Unanswered, Returns, Atomic!Find, Atomic!Answer, Atomic!None
    <2> QED BY <1>1, <2>1 DEF Atomic!Next
  <1>4. ASSUME upload[u].pc = "creating", owner[Content(u)] = NoUpload,
               owner' = [owner EXCEPT ![Content(u)] = u]
        PROVE  Atomic!Own(u, Content(u)) /\ answer[u] = None
    BY <1>4, NoUploadAssumption DEF Inv, Rows, Unanswered, Atomic!Own
  <1>5. CASE Refuse(u)
    <2>1. Atomic!Refuse(u)
      BY <1>5, NoUploadAssumption
         DEF Inv, Rows, Unanswered, Refuse, Returns, Atomic!Refuse, Atomic!Answer, Atomic!None
    <2> QED BY <2>1 DEF Atomic!Next
  <1>5a. CASE FindError(u) \/ SaveError(u)
    BY <1>5a, <1>2 DEF FindError, SaveError
  <1>6. CASE findByContentHash(u)
    BY <1>6, <1>3 DEF findByContentHash, Goto
  <1>7. CASE createWithEvent(u)
    <2>1. Atomic!Create(u, Content(u))
      BY <1>7, <1>4 DEF createWithEvent, Returns, Atomic!Create, Atomic!Answer, Atomic!None
    <2> QED BY <1>1, <2>1 DEF Atomic!Next
  <1>8. CASE CreateAnswerLost(u)
    <2>1. Atomic!CreateUnnoticed(u, Content(u))
      BY <1>8, <1>4 DEF CreateAnswerLost, Discards, Atomic!CreateUnnoticed, Atomic!None
    <2> QED BY <1>1, <2>1 DEF Atomic!Next
  <1>9. CASE delete(u) \/ DeleteError(u)
    <2>1. upload[u].pc = "discarding" /\ Resolved(u) /\ owner' = owner
      BY <1>9 DEF delete, DeleteError
    <2>2. CASE upload[u].winner = NoUpload
      BY <1>2, <2>1, <2>2 DEF Resolved
    <2>3. CASE upload[u].winner # NoUpload
      BY <1>3, <2>1, <2>3 DEF Resolved, Inv, Winners
    <2> QED BY <2>2, <2>3
  <1>10. CASE save(u) \/ UniqueViolation(u) \/ findWinner(u) \/ CreateError(u)
    BY <1>10 DEF save, UniqueViolation, findWinner, CreateError, Goto, Discards
  <1> QED BY <1>5, <1>5a, <1>6, <1>7, <1>8, <1>9, <1>10 DEF Handle, Process, Misfortune

\* Uploading implements the atomic find-or-create: one document per content, and
\* everybody who is told a document is told that one.
THEOREM UploadIsAtomic == Spec => ActsAtomically
  <1>1. Init => Atomic!Init
    BY DEF Init, Atomic!Init, None, Atomic!None
  <1>2. ASSUME Inv, [Next]_vars PROVE [Atomic!Next]_Atomic!vars
    <2>1. CASE \E u \in Uploads : Handle(u) \/ Misfortune(u)
      BY <1>2, <2>1, AtomicStep DEF Atomic!vars
    <2>2. CASE Crash \/ UNCHANGED vars
      BY <2>2 DEF Crash, vars, Atomic!vars
    <2> QED BY <1>2, <2>1, <2>2 DEF Next
  <1> QED BY <1>1, <1>2, UploadCorrect, PTL DEF Spec, ActsAtomically, Atomic!Spec

=============================================================================
