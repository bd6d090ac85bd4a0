--------------------------- MODULE Upload_proofs ---------------------------
(***************************************************************************)
(* Proofs about Upload for every set of requests, documents, contents and  *)
(* keys.                                                                   *)
(***************************************************************************)
EXTENDS Upload, TLAPS

USE UploadAssumption

\* The first state is well typed.
LEMMA UploadInitType == UploadInit => UploadTypeOK
BY DEF UploadInit, UploadTypeOK, Step, Running, Numbered, Inserted, Locking, Refusals

\* A row that a numbered request inserts is a version.
LEMMA NewRowType ==
    ASSUME UploadTypeOK, NEW r \in Request, pc[r] \in Numbered
    PROVE  NewRow(r) \in Version
BY DEF UploadTypeOK, Numbered, NewRow, Version

\* Time, a slow upload and the sweep, as far as only the staging area changes.
StagingStep(r) == WriteChunk(r) \/ Age(r) \/ Sweep(r)

\* Every step of a request, a member or a worker keeps the types.
LEMMA UploadTypeStep == UploadTypeOK /\ [UploadNext]_uploadVars => UploadTypeOK'
<1> SUFFICES ASSUME UploadTypeOK, [UploadNext]_uploadVars
             PROVE  UploadTypeOK'
    OBVIOUS
<1> USE DEF UploadTypeOK, Step, Running, Numbered, Inserted, Locking, Refusals, Goto, Answer,
            Unstage, requestVars, rowVars, storeVars
<1>1. ASSUME NEW r \in Request, NEW i \in Input, Replay(r, i) PROVE UploadTypeOK'
    BY <1>1 DEF Replay, Committed
<1>2. ASSUME NEW r \in Request, NEW i \in Input, Open(r, i) PROVE UploadTypeOK'
    BY <1>2 DEF Open
<1>3. ASSUME NEW r \in Request, Proceed(r) PROVE UploadTypeOK'
    <2>1. CASE Admit(r) \/ OverQuota(r) \/ FileGone(r) \/ NotFound(r) \/ Flush(r)
        BY <2>1 DEF Admit, OverQuota, FileGone, NotFound, Flush, Raise
    <2>2. CASE ReserveNew(r)
        BY <2>2 DEF ReserveNew
    <2>3. CASE Reserve(r)
        BY <2>3 DEF Reserve, LockDocument, Follows, RowsOf, Rows, Committed, Version
    <2>4. CASE Duplicate(r)
        BY <2>4 DEF Duplicate, LockDocument
    <2>5. CASE Move(r)
        BY <2>5 DEF Move
    <2>6. CASE SetContext(r)
        BY <2>6 DEF SetContext
    <2>7. CASE IntegrityError(r)
        BY <2>7 DEF IntegrityError, RollBack, Released
    <2>8. CASE Commit(r)
        BY <2>8, NewRowType DEF Commit, Insert, Released
    <2>9. CASE Unwind(r)
        BY <2>9 DEF Unwind, Released
    <2>10. CASE Withdraw(r)
        BY <2>10 DEF Withdraw, Released
    <2>11. QED
        BY <1>3, <2>1, <2>2, <2>3, <2>4, <2>5, <2>6, <2>7, <2>8, <2>9, <2>10 DEF Proceed
<1>4. ASSUME NEW r \in Request, Disturb(r) PROVE UploadTypeOK'
    <2>1. CASE WriteRefused(r) \/ StepFailed(r) \/ MoveLate(r) \/ ContextLost(r)
        BY <2>1 DEF WriteRefused, StepFailed, MoveLate, ContextLost, Raise
    <2>2. CASE CommitFailed(r)
        BY <2>2 DEF CommitFailed, RollBack, Released
    <2>3. CASE CommitUnconfirmed(r)
        BY <2>3, NewRowType DEF CommitUnconfirmed, Insert, RollBack, Released
    <2>4. CASE Die(r)
        BY <2>4 DEF Die, Released
    <2>5. CASE RollbackFailed(r) \/ CleanupFailed(r)
        BY <2>5 DEF RollbackFailed, CleanupFailed, Released
    <2>6. QED
        BY <1>4, <2>1, <2>2, <2>3, <2>4, <2>5 DEF Disturb
<1>5. ASSUME NEW r \in Request, EraseObject(r) \/ StagingStep(r) PROVE UploadTypeOK'
    BY <1>5 DEF EraseObject, StagingStep, WriteChunk, Age, Sweep
<1>6. ASSUME NEW d \in Document, DeleteDocument(d) PROVE UploadTypeOK'
    BY <1>6 DEF DeleteDocument
<1>7. CASE UNCHANGED uploadVars
    BY <1>7 DEF uploadVars
<1>8. QED
    BY <1>1, <1>2, <1>3, <1>4, <1>5, <1>6, <1>7 DEF UploadNext, StagingStep

\* Requests, rows, locks and files keep their types in every behaviour.
THEOREM UploadTypeCorrect == UploadSpec => []UploadTypeOK
<1>1. QED
    BY UploadInitType, UploadTypeStep, PTL DEF UploadSpec

---------------------------------------------------------------------------
(* What a request relies on between its document check and its commit. *)

InTransaction == {"reserved", "moved", "flushed"}
Uploading == {"writing", "admitted"} \cup InTransaction

\* A request that has not committed has no row; after the commit the row is its own.
RowOfRequest ==
    \A r \in Request :
        /\ pc[r] \in Uploading \cup {"idle"} => row[r] = NoRow
        /\ pc[r] = "committed" => row[r] # NoRow
        /\ row[r] # NoRow => row[r].key = input[r].key

\* A document that a request is about to create is not known to anybody else.
NewDocumentsApart ==
    \A r \in Request : pc[r] \in Uploading /\ input[r].new =>
        /\ docs[input[r].doc] = "unknown"
        /\ \A s \in Request \ {r} :
              pc[s] \in Uploading /\ input[s].new => input[s].doc # input[r].doc

\* A document with versions has been inserted.
RowsHaveDocuments == \A v \in Rows : docs[v.doc] # "unknown"

\* An existing document stays locked, and live, until the version commits.
DocumentHeld ==
    \A r \in Request : pc[r] \in InTransaction /\ ~input[r].new =>
        lock[input[r].doc] = r /\ docs[input[r].doc] = "live"

\* The number and the content that were checked are still free.
ReservationValid ==
    \A r \in Request : pc[r] \in InTransaction =>
        /\ Follows(input[r].doc, draft[r])
        /\ \A v \in RowsOf(input[r].doc) : v.content # input[r].content

\* Flushed rows collide neither with committed rows nor with each other.
FlushedFit ==
    \A r \in Request : pc[r] = "flushed" =>
        /\ \A v \in Rows : ~Collide(NewRow(r), v)
        /\ \A s \in Request \ {r} : pc[s] = "flushed" => ~Collide(NewRow(r), NewRow(s))

UInv ==
    /\ UploadTypeOK
    /\ RowOfRequest
    /\ NewDocumentsApart
    /\ RowsHaveDocuments
    /\ DocumentHeld
    /\ ReservationValid
    /\ FlushedFit

\* Nothing is known of a request that has not arrived.
LEMMA UInvInit == UploadInit => UInv
BY UploadInitType
   DEF UploadInit, UInv, RowOfRequest, NewDocumentsApart, RowsHaveDocuments, DocumentHeld,
       ReservationValid, FlushedFit, Uploading, InTransaction, Rows, Committed

\* What is computed from the rows changes with them only.
LEMMA RowsFrame ==
    ASSUME UNCHANGED row
    PROVE  /\ Committed' = Committed
           /\ Rows' = Rows
           /\ \A d \in Document : RowsOf(d)' = RowsOf(d)
           /\ \A d \in Document : \A n \in Nat : Follows(d, n)' <=> Follows(d, n)
<1>1. Committed' = Committed
    BY DEF Committed
<1>2. Rows' = Rows
    BY <1>1 DEF Rows
<1>3. \A d \in Document : RowsOf(d)' = RowsOf(d)
    BY <1>2 DEF RowsOf
<1>4. QED
    BY <1>1, <1>2, <1>3 DEF Follows

LEMMA RowsType == UploadTypeOK => \A v \in Rows : v \in Version /\ v.doc \in Document
<1> SUFFICES ASSUME UploadTypeOK, NEW v \in Rows
             PROVE  v \in Version /\ v.doc \in Document
    OBVIOUS
<1>1. v \in Version
    BY DEF UploadTypeOK, Rows, Committed
<1>2. QED
    BY <1>1 DEF Version

\* A step within r's request that changes no rows and no documents, takes nobody
\* else's lock and brings r no further into its upload.
Retreat(r) ==
    /\ UNCHANGED <<input, draft, row, docs>>
    /\ Goto(r, pc'[r])
    /\ pc[r] # "idle" /\ pc'[r] # "idle"
    /\ pc'[r] \in Uploading => pc[r] \in Uploading
    /\ pc'[r] \in InTransaction => pc[r] \in InTransaction /\ UNCHANGED lock
    /\ pc'[r] # "flushed"
    /\ pc'[r] # "committed"
    /\ \A d \in Document : lock[d] \in Request \ {r} => lock'[d] = lock[d]

LEMMA RetreatKeeps ==
    ASSUME UInv, UploadTypeOK', NEW r \in Request, Retreat(r)
    PROVE  UInv'
<1> USE DEF Retreat, Goto, UploadTypeOK, Uploading, InTransaction
<1>1. RowOfRequest'
    BY DEF UInv, RowOfRequest
<1>2. NewDocumentsApart'
    BY DEF UInv, NewDocumentsApart
<1>3. RowsHaveDocuments'
    BY RowsFrame DEF UInv, RowsHaveDocuments
<1>4. DocumentHeld'
    BY DEF UInv, DocumentHeld
<1>5. ReservationValid'
    BY RowsFrame DEF UInv, ReservationValid
<1>6. FlushedFit'
    BY RowsFrame DEF UInv, FlushedFit, NewRow
<1>7. QED
    BY <1>1, <1>2, <1>3, <1>4, <1>5, <1>6 DEF UInv

\* Most steps of a request are of that form.
LEMMA Retreats ==
    ASSUME UploadTypeOK, UploadTypeOK', NEW r \in Request,
           \/ Admit(r) \/ OverQuota(r) \/ FileGone(r) \/ Duplicate(r) \/ NotFound(r)
           \/ Move(r) \/ IntegrityError(r) \/ SetContext(r) \/ Unwind(r) \/ Withdraw(r)
           \/ WriteRefused(r) \/ StepFailed(r) \/ MoveLate(r) \/ CommitFailed(r)
           \/ ContextLost(r) \/ RollbackFailed(r) \/ CleanupFailed(r) \/ Die(r)
    PROVE  Retreat(r)
<1> USE DEF Retreat, Goto, Uploading, InTransaction, UploadTypeOK, rowVars
<1>1. CASE Admit(r) \/ OverQuota(r) \/ FileGone(r) \/ NotFound(r) \/ WriteRefused(r)
              \/ StepFailed(r)
    BY <1>1 DEF Admit, OverQuota, FileGone, NotFound, WriteRefused, StepFailed, Raise
<1>2. CASE Duplicate(r)
    BY <1>2 DEF Duplicate, LockDocument, Lockable
<1>3. CASE Move(r) \/ MoveLate(r) \/ SetContext(r) \/ ContextLost(r) \/ RollbackFailed(r)
    BY <1>3 DEF Move, MoveLate, SetContext, ContextLost, RollbackFailed
<1>4. CASE IntegrityError(r) \/ CommitFailed(r)
    BY <1>4 DEF IntegrityError, CommitFailed, RollBack, Released
<1>5. CASE Unwind(r) \/ Withdraw(r) \/ CleanupFailed(r) \/ Die(r)
    BY <1>5 DEF Unwind, Withdraw, CleanupFailed, Die, Released, Running, Step
<1>6. QED
    BY <1>1, <1>2, <1>3, <1>4, <1>5

\* A request that arrives has no version, number or lock yet.
LEMMA ArrivalKeeps ==
    ASSUME UInv, UploadTypeOK', NEW r \in Request, NEW i \in Input, Replay(r, i) \/ Open(r, i)
    PROVE  UInv'
<1> USE DEF Replay, Open, Goto, UploadTypeOK, Uploading, InTransaction, rowVars
<1>0. UNCHANGED row
    OBVIOUS
<1>1. RowOfRequest'
    BY DEF UInv, RowOfRequest
<1>2. NewDocumentsApart'
    BY DEF UInv, NewDocumentsApart, Unused
<1>3. RowsHaveDocuments'
    BY <1>0, RowsFrame DEF UInv, RowsHaveDocuments
<1>4. DocumentHeld'
    BY DEF UInv, DocumentHeld
<1>5. ReservationValid'
    <2>1. \A s \in Request : pc'[s] \in InTransaction =>
             pc[s] \in InTransaction /\ input'[s] = input[s] /\ draft'[s] = draft[s]
        OBVIOUS
    <2>2. Rows' = Rows
        BY <1>0, RowsFrame
    <2>3. QED
        BY <2>1, <2>2 DEF UInv, ReservationValid, RowsOf, Follows
<1>6. FlushedFit'
    <2>1. \A s \in Request : pc'[s] = "flushed" =>
             pc[s] = "flushed" /\ input'[s] = input[s] /\ draft'[s] = draft[s]
        OBVIOUS
    <2>2. \A s \in Request : pc'[s] = "flushed" => NewRow(s)' = NewRow(s)
        BY <2>1 DEF NewRow
    <2>3. Rows' = Rows
        BY <1>0, RowsFrame
    <2>4. QED
        BY <2>1, <2>2, <2>3 DEF UInv, FlushedFit
<1>7. QED
    BY <1>1, <1>2, <1>3, <1>4, <1>5, <1>6 DEF UInv

\* The document check leaves a number and a content that are free.
LEMMA ReserveKeeps ==
    ASSUME UInv, UploadTypeOK', NEW r \in Request, Reserve(r) \/ ReserveNew(r)
    PROVE  UInv'
<1> USE DEF Goto, UploadTypeOK, Uploading, InTransaction, rowVars
<1>1. CASE Reserve(r)
    <2> USE <1>1 DEF Reserve, LockDocument, Lockable
    <2>1. Rows' = Rows
        BY RowsFrame
    <2>2. RowOfRequest'
        BY DEF UInv, RowOfRequest
    <2>3. NewDocumentsApart'
        BY DEF UInv, NewDocumentsApart
    <2>4. RowsHaveDocuments'
        BY <2>1 DEF UInv, RowsHaveDocuments
    <2>5. DocumentHeld'
        BY DEF UInv, DocumentHeld
    <2>6. \A s \in Request \ {r} : pc'[s] = pc[s] /\ draft'[s] = draft[s]
        OBVIOUS
    <2>7. Follows(input[r].doc, draft'[r])
        BY DEF UInv
    <2>8. ReservationValid'
        BY <2>1, <2>6, <2>7 DEF UInv, ReservationValid, RowsOf, Follows
    <2>9. \A s \in Request : pc'[s] = "flushed" => pc[s] = "flushed" /\ NewRow(s)' = NewRow(s)
        BY <2>6 DEF NewRow, UInv
    <2>10. FlushedFit'
        BY <2>1, <2>9 DEF UInv, FlushedFit
    <2>11. QED
        BY <2>2, <2>3, <2>4, <2>5, <2>8, <2>10 DEF UInv
<1>2. CASE ReserveNew(r)
    <2> USE <1>2 DEF ReserveNew
    <2>1. Rows' = Rows
        BY RowsFrame
    <2>2. RowOfRequest'
        BY DEF UInv, RowOfRequest
    <2>3. NewDocumentsApart'
        BY DEF UInv, NewDocumentsApart
    <2>4. RowsHaveDocuments'
        BY <2>1 DEF UInv, RowsHaveDocuments
    <2>5. DocumentHeld'
        BY DEF UInv, DocumentHeld
    <2>6. RowsOf(input[r].doc) = {}
        BY DEF UInv, RowsHaveDocuments, NewDocumentsApart, RowsOf
    <2>7. ReservationValid'
        BY <2>1, <2>6 DEF UInv, ReservationValid, RowsOf, Follows
    <2>8. \A s \in Request : pc'[s] = "flushed" => pc[s] = "flushed" /\ NewRow(s)' = NewRow(s)
        BY DEF NewRow
    <2>9. FlushedFit'
        BY <2>1, <2>8 DEF UInv, FlushedFit
    <2>10. QED
        BY <2>2, <2>3, <2>4, <2>5, <2>7, <2>9 DEF UInv
<1>3. QED
    BY <1>1, <1>2

\* An insert passes only when it fits the committed and the flushed rows.
LEMMA FlushKeeps ==
    ASSUME UInv, UploadTypeOK', NEW r \in Request, Flush(r)
    PROVE  UInv'
<1> USE DEF Flush, Goto, UploadTypeOK, Uploading, InTransaction, rowVars
<1>1. Rows' = Rows
    BY RowsFrame
<1>2. RowOfRequest' /\ NewDocumentsApart' /\ DocumentHeld'
    BY DEF UInv, RowOfRequest, NewDocumentsApart, DocumentHeld
<1>3. RowsHaveDocuments'
    BY <1>1 DEF UInv, RowsHaveDocuments
<1>4. ReservationValid'
    BY <1>1 DEF UInv, ReservationValid, RowsOf, Follows
<1>5. \A s \in Request : NewRow(s)' = NewRow(s)
    BY DEF NewRow
<1>6. \A s \in Request \ {r} : pc[s] = "flushed" =>
          ~Collide(NewRow(r), NewRow(s)) /\ ~Collide(NewRow(s), NewRow(r))
    BY DEF Unhindered, Inserted, Collide, SameJob, SameVersion
<1>7. FlushedFit'
    <2>1. \A s \in Request : pc'[s] = "flushed" => s = r \/ pc[s] = "flushed"
        BY DEF UInv
    <2>2. QED
        BY <1>1, <1>5, <1>6, <2>1 DEF UInv, FlushedFit
<1>8. QED
    BY <1>2, <1>3, <1>4, <1>7 DEF UInv

\* Two uploads between check and commit are at different documents.
LEMMA TransactionsApart ==
    ASSUME UInv, NEW r \in Request, NEW s \in Request, r # s,
           pc[r] \in InTransaction, pc[s] \in InTransaction
    PROVE  input[r].doc # input[s].doc
BY DEF UInv, NewDocumentsApart, DocumentHeld, Uploading, InTransaction

\* The effect of a commit, acknowledged or not.
LEMMA InsertKeeps ==
    ASSUME UInv, UploadTypeOK', NEW r \in Request, Commit(r) \/ CommitUnconfirmed(r)
    PROVE  UInv'
<1> USE DEF UploadTypeOK
<1>1. /\ pc[r] = "flushed"
      /\ UNCHANGED <<input, draft>>
      /\ pc' = [pc EXCEPT ![r] = pc'[r]]
      /\ pc'[r] \in {"committed", "withdraw"}
      /\ lock' = Released(r)
      /\ row' = [row EXCEPT ![r] = NewRow(r)]
      /\ docs' = IF input[r].new THEN [docs EXCEPT ![input[r].doc] = "live"] ELSE docs
    BY DEF Commit, CommitUnconfirmed, Insert, RollBack, Goto
<1>2. NewRow(r) \in Version /\ NewRow(r).doc = input[r].doc /\ NewRow(r).key = input[r].key
    BY <1>1, NewRowType DEF NewRow, Numbered, UInv
<1>3. Rows' = Rows \cup {NewRow(r)}
    BY <1>1, <1>2 DEF UInv, RowOfRequest, Uploading, InTransaction, Rows, Committed
<1>4. RowOfRequest'
    BY <1>1, <1>2 DEF UInv, RowOfRequest, Uploading, InTransaction
<1>5. NewDocumentsApart'
    BY <1>1 DEF UInv, NewDocumentsApart, Uploading, InTransaction
<1>6. RowsHaveDocuments'
    <2>1. docs'[input[r].doc] # "unknown"
        BY <1>1 DEF UInv, DocumentHeld, InTransaction
    <2>2. \A v \in Rows : v.doc \in Document
        BY RowsType DEF UInv
    <2>3. QED
        BY <1>1, <1>2, <1>3, <2>1, <2>2 DEF UInv, RowsHaveDocuments
<1>7. DocumentHeld'
    BY <1>1 DEF UInv, DocumentHeld, InTransaction, Released
<1>8. \A s \in Request : pc'[s] \in InTransaction =>
          s # r /\ pc[s] \in InTransaction /\ NewRow(s)' = NewRow(s)
    BY <1>1 DEF InTransaction, NewRow
<1>9. ReservationValid'
    <2>1. \A s \in Request : pc'[s] \in InTransaction => input[s].doc # input[r].doc
        BY <1>1, <1>8, TransactionsApart DEF InTransaction
    <2>2. \A s \in Request : pc'[s] \in InTransaction =>
              {v \in Rows' : v.doc = input[s].doc} = RowsOf(input[s].doc)
        BY <1>2, <1>3, <2>1 DEF RowsOf
    <2>3. QED
        BY <1>1, <1>8, <2>2 DEF UInv, ReservationValid, RowsOf, Follows
<1>10. FlushedFit'
    <2>1. \A s \in Request : pc'[s] = "flushed" =>
              s # r /\ pc[s] = "flushed" /\ NewRow(s)' = NewRow(s)
        BY <1>1, <1>8 DEF InTransaction
    <2>2. QED
        BY <1>1, <1>3, <2>1 DEF UInv, FlushedFit
<1>11. QED
    BY <1>4, <1>5, <1>6, <1>7, <1>9, <1>10 DEF UInv

\* A document that is deleted is not being uploaded to, and the store is not
\* mentioned.
LEMMA OthersKeep ==
    ASSUME UInv, UploadTypeOK',
           \/ \E d \in Document : DeleteDocument(d)
           \/ \E r \in Request : EraseObject(r) \/ StagingStep(r)
           \/ UNCHANGED uploadVars
    PROVE  UInv'
<1>1. UNCHANGED <<pc, input, draft, lock, row>>
    BY DEF DeleteDocument, EraseObject, StagingStep,
           WriteChunk, Age, Sweep, Unstage, uploadVars, requestVars, rowVars
<1>2. \/ UNCHANGED docs
      \/ \E d \in Document : DeleteDocument(d)
    BY DEF EraseObject, StagingStep, WriteChunk, Age, Sweep, uploadVars, rowVars
<1>3. \A d \in Document : docs'[d] # docs[d] =>
          docs[d] = "live" /\ docs'[d] = "deleted" /\ lock[d] = Nobody
    BY <1>2 DEF DeleteDocument, Lockable, UploadTypeOK, UInv
<1> USE DEF UploadTypeOK, Uploading, InTransaction
<1>4. RowOfRequest'
    BY <1>1 DEF UInv, RowOfRequest
<1>5. NewDocumentsApart'
    BY <1>1, <1>3 DEF UInv, NewDocumentsApart
<1>6. Rows' = Rows
    BY <1>1, RowsFrame
<1>7. RowsHaveDocuments'
    BY <1>3, <1>6, RowsType DEF UInv, RowsHaveDocuments
<1>8. DocumentHeld'
    BY <1>1, <1>3 DEF UInv, DocumentHeld
<1>9. ReservationValid'
    BY <1>1, <1>6 DEF UInv, ReservationValid, RowsOf, Follows
<1>10. FlushedFit'
    BY <1>1, <1>6 DEF UInv, FlushedFit, NewRow
<1>11. QED
    BY <1>4, <1>5, <1>7, <1>8, <1>9, <1>10 DEF UInv

\* Every step keeps it.
LEMMA UInvStep == UInv /\ UploadTypeOK' /\ [UploadNext]_uploadVars => UInv'
<1> SUFFICES ASSUME UInv, UploadTypeOK', [UploadNext]_uploadVars
             PROVE  UInv'
    OBVIOUS
<1>0. UploadTypeOK
    BY DEF UInv
<1>1. ASSUME NEW r \in Request, NEW i \in Input, Replay(r, i) \/ Open(r, i) PROVE UInv'
    BY <1>1, ArrivalKeeps
<1>2. ASSUME NEW r \in Request, Proceed(r) PROVE UInv'
    BY <1>0, <1>2, Retreats, RetreatKeeps, ReserveKeeps, FlushKeeps, InsertKeeps DEF Proceed
<1>3. ASSUME NEW r \in Request, Disturb(r) PROVE UInv'
    BY <1>0, <1>3, Retreats, RetreatKeeps, InsertKeeps DEF Disturb
<1>4. CASE \/ \E d \in Document : DeleteDocument(d)
           \/ \E r \in Request : EraseObject(r) \/ StagingStep(r)
           \/ UNCHANGED uploadVars
    BY <1>4, OthersKeep
<1>5. QED
    BY <1>1, <1>2, <1>3, <1>4 DEF UploadNext, StagingStep

\* The checks a request made before its commit hold until then.
THEOREM UInvCorrect == UploadSpec => []UInv
<1>1. UInv /\ [UploadNext]_uploadVars => UInv'
    BY UploadTypeStep, UInvStep DEF UInv
<1>2. QED
    BY UInvInit, <1>1, PTL DEF UploadSpec

---------------------------------------------------------------------------
(* What requests are answered. *)

\* Only the commit of a flushed request changes the rows, and only its own.
LEMMA RowSteps ==
    ASSUME [UploadNext]_uploadVars
    PROVE  \/ UNCHANGED row
           \/ \E r \in Request : pc[r] = "flushed" /\ row' = [row EXCEPT ![r] = NewRow(r)]
<1>1. ASSUME NEW r \in Request, NEW i \in Input, Replay(r, i) \/ Open(r, i) PROVE UNCHANGED row
    BY <1>1 DEF Replay, Open, rowVars
<1>2. ASSUME NEW r \in Request, Proceed(r)
      PROVE  UNCHANGED row \/ (pc[r] = "flushed" /\ row' = [row EXCEPT ![r] = NewRow(r)])
    BY <1>2 DEF Proceed, Admit, OverQuota, FileGone, ReserveNew, Reserve, Duplicate, NotFound,
                Move, Flush, IntegrityError, Commit, SetContext, Unwind, Withdraw, Raise,
                RollBack, Insert, rowVars
<1>3. ASSUME NEW r \in Request, Disturb(r)
      PROVE  UNCHANGED row \/ (pc[r] = "flushed" /\ row' = [row EXCEPT ![r] = NewRow(r)])
    BY <1>3 DEF Disturb, WriteRefused, StepFailed, MoveLate, CommitFailed, CommitUnconfirmed,
                ContextLost, RollbackFailed, CleanupFailed, Die, Raise, RollBack, Insert, rowVars
<1>4. CASE \/ \E d \in Document : DeleteDocument(d)
           \/ \E r \in Request : EraseObject(r) \/ StagingStep(r)
           \/ UNCHANGED uploadVars
    BY <1>4 DEF DeleteDocument, EraseObject, StagingStep, WriteChunk, Age, Sweep, Unstage,
                 uploadVars, rowVars
<1>5. QED
    BY <1>1, <1>2, <1>3, <1>4 DEF UploadNext, StagingStep

\* A committed version is never changed or lost.
LEMMA RowsStay ==
    ASSUME UInv, [UploadNext]_uploadVars
    PROVE  \A s \in Committed : s \in Committed' /\ row'[s] = row[s]
BY RowSteps DEF UInv, RowOfRequest, UploadTypeOK, Uploading, InTransaction, Committed

\* A request asks for one thing.
LEMMA InputSteps ==
    ASSUME UploadTypeOK, [UploadNext]_uploadVars
    PROVE  \A s \in Request : pc[s] # "idle" => input'[s] = input[s] /\ pc'[s] # "idle"
<1> USE DEF UploadTypeOK, Goto, requestVars
<1>1. ASSUME NEW r \in Request, NEW i \in Input, Replay(r, i) \/ Open(r, i)
      PROVE  \A s \in Request : pc[s] # "idle" => input'[s] = input[s] /\ pc'[s] # "idle"
    BY <1>1 DEF Replay, Open
<1>2. ASSUME NEW r \in Request, Proceed(r)
      PROVE  \A s \in Request : pc[s] # "idle" => input'[s] = input[s] /\ pc'[s] # "idle"
    BY <1>2 DEF Proceed, Admit, OverQuota, FileGone, ReserveNew, Reserve, Duplicate, NotFound,
                Move, Flush, IntegrityError, Commit, SetContext, Unwind, Withdraw, Raise, RollBack
<1>3. ASSUME NEW r \in Request, Disturb(r)
      PROVE  \A s \in Request : pc[s] # "idle" => input'[s] = input[s] /\ pc'[s] # "idle"
    BY <1>3 DEF Disturb, WriteRefused, StepFailed, MoveLate, CommitFailed, CommitUnconfirmed,
                ContextLost, RollbackFailed, CleanupFailed, Die, Raise, RollBack
<1>4. CASE \/ \E d \in Document : DeleteDocument(d)
           \/ \E r \in Request : EraseObject(r) \/ StagingStep(r)
           \/ UNCHANGED uploadVars
    BY <1>4 DEF DeleteDocument, EraseObject, StagingStep, WriteChunk, Age, Sweep, Unstage,
                 uploadVars
<1>5. QED
    BY <1>1, <1>2, <1>3, <1>4 DEF UploadNext, StagingStep

\* Every answer is given by one of these steps.
Answered(s) ==
    \/ answer'[s] = answer[s]
    \/ answer'[s] = "error"
    \/ \E i \in Input : Replay(s, i)
    \/ Duplicate(s) \/ IntegrityError(s) \/ SetContext(s)

LEMMA AnswerSteps ==
    ASSUME UploadTypeOK, [UploadNext]_uploadVars
    PROVE  \A s \in Request : Answered(s)
<1> USE DEF UploadTypeOK, Answer, requestVars, Answered
<1>1. ASSUME NEW r \in Request, NEW i \in Input, Replay(r, i) \/ Open(r, i)
      PROVE  \A s \in Request : Answered(s)
    BY <1>1 DEF Replay, Open
<1>2. ASSUME NEW r \in Request, Proceed(r) PROVE \A s \in Request : Answered(s)
    <2>1. CASE Duplicate(r) \/ IntegrityError(r) \/ SetContext(r)
        <3>1. \A s \in Request \ {r} : answer'[s] = answer[s]
            BY <2>1 DEF Duplicate, IntegrityError, SetContext, RollBack
        <3>2. QED
            BY <2>1, <3>1
    <2>2. CASE ~(Duplicate(r) \/ IntegrityError(r) \/ SetContext(r))
        BY <1>2, <2>2 DEF Proceed, Admit, OverQuota, FileGone, ReserveNew, Reserve, NotFound,
                          Move, Flush, Commit, Unwind, Withdraw, Raise
    <2>3. QED
        BY <2>1, <2>2
<1>3. ASSUME NEW r \in Request, Disturb(r) PROVE \A s \in Request : Answered(s)
    BY <1>3 DEF Disturb, WriteRefused, StepFailed, MoveLate, CommitFailed, CommitUnconfirmed,
                ContextLost, RollbackFailed, CleanupFailed, Die, Raise, RollBack
<1>4. CASE \/ \E d \in Document : DeleteDocument(d)
           \/ \E r \in Request : EraseObject(r) \/ StagingStep(r)
           \/ UNCHANGED uploadVars
    BY <1>4 DEF DeleteDocument, EraseObject, StagingStep, WriteChunk, Age, Sweep, Unstage,
                 uploadVars
<1>5. QED
    BY <1>1, <1>2, <1>3, <1>4 DEF UploadNext, StagingStep

\* Nobody is answered before asking.
UnaskedUnanswered == \A r \in Request : pc[r] = "idle" => answer[r] = "none"

AnswerInv == UInv /\ UnaskedUnanswered /\ OneVersionPerKey /\ ConflictJustified

LEMMA AnswerInvInit == UploadInit => AnswerInv
BY UInvInit
   DEF UploadInit, AnswerInv, UnaskedUnanswered, OneVersionPerKey, ConflictJustified, Committed,
       Refusals

LEMMA UnaskedStep ==
    ASSUME AnswerInv, [UploadNext]_uploadVars
    PROVE  UnaskedUnanswered'
<1>1. UploadTypeOK
    BY DEF AnswerInv, UInv
<1>2. \A s \in Request : pc'[s] = "idle" => pc[s] = "idle"
    BY <1>1, InputSteps
<1>3. ASSUME NEW r \in Request, NEW i \in Input, Replay(r, i) \/ Open(r, i)
      PROVE  UnaskedUnanswered'
    BY <1>1, <1>2, <1>3 DEF Replay, Open, Goto, Answer, AnswerInv, UnaskedUnanswered, UploadTypeOK
<1>4. ASSUME NEW r \in Request, Proceed(r) \/ Disturb(r)
      PROVE  pc[r] # "idle" /\ \A s \in Request \ {r} : answer'[s] = answer[s]
    BY <1>1, <1>4
       DEF Proceed, Admit, OverQuota, FileGone, ReserveNew, Reserve, Duplicate, NotFound, Move,
           Flush, IntegrityError, Commit, SetContext, Unwind, Withdraw, Disturb, WriteRefused,
           StepFailed, MoveLate, CommitFailed, CommitUnconfirmed, ContextLost, RollbackFailed,
           CleanupFailed, Die, Raise, RollBack, LockDocument, Running, Step, Answer, UploadTypeOK
<1>5. ASSUME NEW r \in Request, Proceed(r) \/ Disturb(r) PROVE UnaskedUnanswered'
    BY <1>2, <1>4, <1>5 DEF AnswerInv, UnaskedUnanswered
<1>6. CASE \/ \E d \in Document : DeleteDocument(d)
           \/ \E r \in Request : EraseObject(r) \/ StagingStep(r)
           \/ UNCHANGED uploadVars
    BY <1>2, <1>6
       DEF AnswerInv, UnaskedUnanswered, DeleteDocument, EraseObject, StagingStep,
           WriteChunk, Age, Sweep, Unstage, uploadVars, requestVars
<1>7. QED
    BY <1>3, <1>5, <1>6 DEF UploadNext, StagingStep

LEMMA OneVersionPerKeyStep ==
    ASSUME AnswerInv, [UploadNext]_uploadVars
    PROVE  OneVersionPerKey'
<1>1. UInv /\ UploadTypeOK
    BY DEF AnswerInv, UInv
<1>2. \A r, s \in Committed' : row'[r].key = row'[s].key => r = s
    <2>1. CASE UNCHANGED row
        BY <2>1, RowsFrame DEF AnswerInv, OneVersionPerKey
    <2>2. ASSUME NEW r \in Request, pc[r] = "flushed", row' = [row EXCEPT ![r] = NewRow(r)]
          PROVE  \A s, t \in Committed' : row'[s].key = row'[t].key => s = t
        <3>1. row'[r] = NewRow(r) /\ \A s \in Request \ {r} : row'[s] = row[s]
            BY <1>1, <2>2 DEF UploadTypeOK
        <3>2. Committed' \subseteq Committed \cup {r} /\ Committed \subseteq Request
            BY <3>1 DEF Committed
        <3>3. \A s \in Committed : row[s].key # NewRow(r).key
            BY <1>1, <2>2 DEF UInv, FlushedFit, Collide, SameJob, Rows
        <3>4. QED
            BY <3>1, <3>2, <3>3 DEF AnswerInv, OneVersionPerKey
    <2>3. QED
        BY <2>1, <2>2, RowSteps
<1>3. ASSUME NEW s \in Request, answer'[s] \in Request
      PROVE  answer'[s] \in Committed' /\ row'[answer'[s]].key = input'[s].key
    <2>1. Answered(s)
        BY <1>1, AnswerSteps
    <2>2. answer'[s] \notin Refusals
        BY <1>3, UploadAssumption
    <2>3. CASE answer'[s] = answer[s]
        <3>1. pc[s] # "idle"
            BY <1>3, <2>2, <2>3 DEF AnswerInv, UnaskedUnanswered, Refusals
        <3>2. answer[s] \in Committed /\ row[answer[s]].key = input[s].key
            BY <1>3, <2>3 DEF AnswerInv, OneVersionPerKey
        <3>3. QED
            BY <1>1, <2>3, <3>1, <3>2, RowsStay, InputSteps
    <2>4. ASSUME NEW i \in Input, Replay(s, i)
          PROVE  answer'[s] \in Committed' /\ row'[answer'[s]].key = input'[s].key
        <3>1. input'[s] = i
            BY <1>1, <2>4 DEF Replay, UploadTypeOK
        <3>2. PICK t \in Committed : row[t].key = i.key /\ answer' = [answer EXCEPT ![s] = t]
            BY <2>4 DEF Replay, Answer
        <3>3. answer'[s] = t
            BY <1>1, <3>2 DEF UploadTypeOK
        <3>4. QED
            BY <1>1, <3>1, <3>2, <3>3, RowsStay
    <2>5. CASE Duplicate(s) \/ IntegrityError(s)
        BY <1>1, <2>2, <2>5
           DEF Duplicate, IntegrityError, RollBack, Answer, UploadTypeOK, Refusals
    <2>6. CASE SetContext(s)
        <3>1. answer'[s] = s /\ pc[s] = "committed" /\ input'[s] = input[s]
            BY <1>1, <2>6 DEF SetContext, Answer, UploadTypeOK
        <3>2. s \in Committed /\ row[s].key = input[s].key
            BY <1>1, <3>1 DEF UInv, RowOfRequest, Committed
        <3>3. QED
            BY <1>1, <3>1, <3>2, RowsStay
    <2>7. QED
        BY <2>1, <2>2, <2>3, <2>4, <2>5, <2>6 DEF Answered, Refusals
<1>4. QED
    BY <1>2, <1>3 DEF OneVersionPerKey

\* Why r may be told of a conflict.
Justified(r) ==
    \E s \in Committed \ {r} :
        \/ row[s].key = input[r].key
        \/ row[s].doc = input[r].doc /\ row[s].content = input[r].content

LEMMA ConflictJustifiedStep ==
    ASSUME AnswerInv, [UploadNext]_uploadVars
    PROVE  ConflictJustified'
<1>1. UInv /\ UploadTypeOK
    BY DEF AnswerInv, UInv
<1>2. ASSUME NEW r \in Request, pc[r] # "idle", Justified(r) PROVE Justified(r)'
    <2>1. input'[r] = input[r]
        BY <1>1, <1>2, InputSteps
    <2>2. PICK s \in Committed \ {r} :
              \/ row[s].key = input[r].key
              \/ row[s].doc = input[r].doc /\ row[s].content = input[r].content
        BY <1>2 DEF Justified
    <2>3. s \in Committed' /\ row'[s] = row[s]
        BY <1>1, <2>2, RowsStay
    <2>4. QED
        BY <2>1, <2>2, <2>3 DEF Justified
<1>3. ASSUME NEW r \in Request, answer'[r] = "conflict" PROVE Justified(r)'
    <2>1. Answered(r)
        BY <1>1, AnswerSteps
    <2>2. CASE answer'[r] = answer[r]
        <3>1. pc[r] # "idle"
            BY <1>3, <2>2 DEF AnswerInv, UnaskedUnanswered
        <3>2. Justified(r)
            BY <1>3, <2>2 DEF AnswerInv, ConflictJustified, Justified
        <3>3. QED
            BY <1>2, <3>1, <3>2
    <2>3. ASSUME NEW i \in Input, Replay(r, i) PROVE FALSE
        BY <1>1, <1>3, <2>3 DEF Replay, Answer, Committed, UploadTypeOK, Refusals
    <2>4. CASE Duplicate(r)
        <3>1. pc[r] = "admitted"
            BY <2>4 DEF Duplicate, LockDocument
        <3>2. r \notin Committed
            BY <1>1, <3>1 DEF UInv, RowOfRequest, Uploading, Committed
        <3>3. PICK v \in Rows : v.doc = input[r].doc /\ v.content = input[r].content
            BY <2>4 DEF Duplicate, RowsOf
        <3>4. Justified(r)
            BY <3>2, <3>3 DEF Justified, Rows
        <3>5. QED
            BY <1>2, <3>1, <3>4
    <2>5. CASE IntegrityError(r)
        <3>1. pc[r] = "moved"
            BY <2>5 DEF IntegrityError
        <3>2. r \notin Committed
            BY <1>1, <3>1 DEF UInv, RowOfRequest, Uploading, InTransaction, Committed
        <3>3. PICK v \in Rows : Collide(NewRow(r), v)
            BY <2>5 DEF IntegrityError
        <3>4. v.doc = input[r].doc => v.number # draft[r]
            <4>1. v \in Version /\ draft[r] \in Nat
                BY <1>1, RowsType DEF UploadTypeOK
            <4>2. v.number \in Nat
                BY <4>1 DEF Version
            <4>3. v.doc = input[r].doc => v.number < draft[r]
                BY <1>1, <3>1 DEF UInv, ReservationValid, InTransaction, Follows, RowsOf
            <4>4. QED
                BY <4>1, <4>2, <4>3
        <3>5. \/ v.key = input[r].key
              \/ v.doc = input[r].doc /\ v.content = input[r].content
            BY <3>3, <3>4 DEF Collide, SameJob, SameVersion, NewRow
        <3>6. Justified(r)
            BY <3>2, <3>5 DEF Justified, Rows
        <3>7. QED
            BY <1>2, <3>1, <3>6
    <2>6. CASE SetContext(r)
        BY <1>1, <1>3, <2>6 DEF SetContext, Answer, UploadTypeOK, Refusals
    <2>7. QED
        BY <1>3, <2>1, <2>2, <2>3, <2>4, <2>5, <2>6 DEF Answered
<1>4. QED
    BY <1>3 DEF ConflictJustified, Justified

\* What requests are answered stays true in every behaviour.
THEOREM AnswerInvCorrect == UploadSpec => []AnswerInv
<1>1. AnswerInv /\ [UploadNext]_uploadVars => AnswerInv'
    BY UploadTypeStep, UInvStep, UnaskedStep, OneVersionPerKeyStep, ConflictJustifiedStep
       DEF AnswerInv, UInv
<1>2. QED
    BY AnswerInvInit, <1>1, PTL DEF UploadSpec

\* However requests with one key race and are repeated, and whatever fails, the key
\* belongs to one version, and who is told of a version is told of the right one.
THEOREM OneVersionPerKeyCorrect == UploadSpec => []OneVersionPerKey
<1>1. AnswerInv => OneVersionPerKey
    BY DEF AnswerInv
<1>2. QED
    BY AnswerInvCorrect, <1>1, PTL

\* No upload is refused because of another upload's version number.
THEOREM ConflictJustifiedCorrect == UploadSpec => []ConflictJustified
<1>1. AnswerInv => ConflictJustified
    BY DEF AnswerInv
<1>2. QED
    BY AnswerInvCorrect, <1>1, PTL

---------------------------------------------------------------------------
(* Versions and their objects.  The two faults after which a committed     *)
(* version loses its bytes are excluded: the code takes an exception of    *)
(* the commit, or of the statement after it, for a failed commit.          *)

CommitsAnswered == Faults \cap {"lost_ack", "lost_context"} = {}

\* The exception handlers run, or have run.
Leaving == {"unwind", "aborting", "withdraw", "failed"}

\* Only a request without a version cleans up.
CleanupHasNoRow ==
    \A r \in Request : pc[r] \in Leaving => row[r] = NoRow

\* A version is committed when its file is at its final key.
FileBeforeRow == \A r \in Request : pc[r] \in {"moved", "flushed"} => r \in final

ObjectInv == CleanupHasNoRow /\ FileBeforeRow /\ CommittedVersionHasObject

LEMMA ObjectInvInit == UploadInit => ObjectInv
BY DEF UploadInit, ObjectInv, CleanupHasNoRow, Leaving, FileBeforeRow,
       CommittedVersionHasObject, Committed

\* A step of r that leaves rows and documents alone, loses no file of a version and
\* starts no cleanup of one.
LEMMA ObjectKeeps ==
    ASSUME UploadTypeOK, ObjectInv, NEW r \in Request, UNCHANGED <<row, docs>>,
           Goto(r, pc'[r]) \/ UNCHANGED pc,
           \A s \in Request : row[s] = NoRow /\ s # r => (s \in final => s \in final'),
           \A s \in Committed : s \in final => s \in final',
           pc'[r] \in Leaving => row[r] = NoRow,
           pc'[r] \in {"moved", "flushed"} => r \in final'
    PROVE  ObjectInv'
BY DEF ObjectInv, CleanupHasNoRow, Leaving, FileBeforeRow, CommittedVersionHasObject, Committed,
       UploadTypeOK, Goto

LEMMA ObjectInvStep ==
    ASSUME CommitsAnswered, UInv, ObjectInv, [UploadNext]_uploadVars
    PROVE  ObjectInv'
<1>1. UploadTypeOK
    BY DEF UInv
<1>2. \A r \in Request : pc[r] \in Uploading \cup {"idle"} => row[r] = NoRow
    BY DEF UInv, RowOfRequest
<1>3. ASSUME NEW r \in Request, NEW i \in Input, Replay(r, i) \/ Open(r, i) PROVE ObjectInv'
    <2>1. /\ UNCHANGED <<row, docs, final>>
          /\ Goto(r, pc'[r]) /\ pc'[r] \in {"writing", "done"}
        BY <1>1, <1>3 DEF Replay, Open, Goto, rowVars, storeVars, UploadTypeOK
    <2>2. QED
        BY <1>1, <2>1, ObjectKeeps DEF Committed, Leaving
<1>4. ASSUME NEW r \in Request,
             \/ Admit(r) \/ OverQuota(r) \/ FileGone(r) \/ ReserveNew(r) \/ Reserve(r)
             \/ Duplicate(r) \/ NotFound(r) \/ Flush(r) \/ IntegrityError(r) \/ SetContext(r)
             \/ Unwind(r) \/ WriteRefused(r) \/ StepFailed(r) \/ CommitFailed(r)
             \/ RollbackFailed(r) \/ CleanupFailed(r) \/ Die(r)
      PROVE  ObjectInv'
    <2>1. /\ UNCHANGED <<row, docs, final>>
          /\ Goto(r, pc'[r])
          /\ pc'[r] \notin {"moved"}
          /\ pc'[r] = "flushed" => pc[r] = "moved"
          /\ pc'[r] \in Leaving =>
                pc[r] \in Uploading \cup Leaving
        BY <1>1, <1>4
           DEF Admit, OverQuota, FileGone, ReserveNew, Reserve, Duplicate, NotFound, Flush,
               IntegrityError, SetContext, Unwind, WriteRefused, StepFailed, CommitFailed,
               RollbackFailed, CleanupFailed, Die, Leaving, Raise, RollBack, LockDocument, Goto,
               rowVars, storeVars, UploadTypeOK, Uploading, InTransaction
    <2>2. pc'[r] \in Leaving => row[r] = NoRow
        BY <1>2, <2>1 DEF ObjectInv, CleanupHasNoRow
    <2>3. pc'[r] = "flushed" => r \in final
        BY <2>1 DEF ObjectInv, FileBeforeRow
    <2>4. QED
        BY <1>1, <2>1, <2>2, <2>3, ObjectKeeps DEF Committed
<1>5. ASSUME NEW r \in Request, Move(r) \/ MoveLate(r) PROVE ObjectInv'
    <2>1. /\ UNCHANGED <<row, docs>>
          /\ Goto(r, pc'[r])
          /\ final' = final \cup {r}
          /\ pc[r] = "reserved"
        BY <1>1, <1>5 DEF Move, MoveLate, Goto, rowVars, UploadTypeOK
    <2>2. QED
        BY <1>1, <1>2, <2>1, ObjectKeeps DEF Committed, Uploading, InTransaction
<1>6. ASSUME NEW r \in Request, Withdraw(r) PROVE ObjectInv'
    <2>1. /\ UNCHANGED <<row, docs>>
          /\ Goto(r, "failed") /\ pc'[r] = "failed"
          /\ final' = final \ {r}
          /\ row[r] = NoRow
        BY <1>1, <1>6 DEF Withdraw, Goto, rowVars, UploadTypeOK, ObjectInv, CleanupHasNoRow, Leaving
    <2>2. QED
        BY <1>1, <2>1, ObjectKeeps DEF Committed
<1>7. ASSUME NEW r \in Request, Commit(r) PROVE ObjectInv'
    <2>1. /\ pc[r] = "flushed"
          /\ pc' = [pc EXCEPT ![r] = "committed"]
          /\ row' = [row EXCEPT ![r] = NewRow(r)]
          /\ docs' = IF input[r].new THEN [docs EXCEPT ![input[r].doc] = "live"] ELSE docs
          /\ final' = final
        BY <1>7 DEF Commit, Insert, Goto, storeVars
    <2>2. CleanupHasNoRow' /\ FileBeforeRow'
        BY <1>1, <2>1 DEF ObjectInv, CleanupHasNoRow, Leaving, FileBeforeRow, UploadTypeOK
    <2>3. ASSUME NEW s \in Committed', docs'[row'[s].doc] = "live" PROVE s \in final'
        <3>1. CASE s = r
            BY <2>1, <3>1 DEF ObjectInv, FileBeforeRow
        <3>2. CASE s # r
            <4>1. s \in Committed /\ row'[s] = row[s]
                BY <1>1, <2>1, <3>2 DEF Committed, UploadTypeOK
            <4>2. row[s].doc \in Document /\ docs[row[s].doc] # "unknown"
                BY <1>1, <4>1, RowsType DEF UInv, RowsHaveDocuments, Rows
            <4>3. input[r].new => docs[input[r].doc] = "unknown"
                BY <2>1 DEF UInv, NewDocumentsApart, Uploading, InTransaction
            <4>4. docs[row[s].doc] = "live"
                BY <1>1, <2>1, <2>3, <4>1, <4>2, <4>3 DEF UploadTypeOK
            <4>5. QED
                BY <2>1, <4>1, <4>4 DEF ObjectInv, CommittedVersionHasObject
        <3>3. QED
            BY <3>1, <3>2
    <2>4. QED
        BY <2>2, <2>3 DEF ObjectInv, CommittedVersionHasObject
<1>8. ASSUME NEW r \in Request, CommitUnconfirmed(r) \/ ContextLost(r) PROVE FALSE
    BY <1>8 DEF CommitUnconfirmed, ContextLost, CommitsAnswered
<1>9. ASSUME NEW r \in Request, EraseObject(r) PROVE ObjectInv'
    BY <1>9 DEF EraseObject, ObjectInv, CleanupHasNoRow, FileBeforeRow,
                CommittedVersionHasObject, Committed, UInv, RowOfRequest, Uploading,
                InTransaction, requestVars, rowVars
<1>10. ASSUME NEW r \in Request, StagingStep(r) PROVE ObjectInv'
    BY <1>10 DEF StagingStep, WriteChunk, Age, Sweep, ObjectInv, CleanupHasNoRow, FileBeforeRow,
                 CommittedVersionHasObject, Committed, requestVars, rowVars
<1>11. ASSUME NEW d \in Document, DeleteDocument(d) PROVE ObjectInv'
    <2>1. /\ UNCHANGED <<pc, row, final>>
          /\ docs' = [docs EXCEPT ![d] = "deleted"]
        BY <1>11 DEF DeleteDocument, requestVars, storeVars
    <2>2. \A s \in Committed : row[s].doc \in Document
        BY <1>1, RowsType DEF Rows
    <2>3. CommittedVersionHasObject'
        BY <1>1, <2>1, <2>2 DEF ObjectInv, CommittedVersionHasObject, Committed, UploadTypeOK
    <2>4. QED
        BY <2>1, <2>3 DEF ObjectInv, CleanupHasNoRow, FileBeforeRow
<1>12. CASE UNCHANGED uploadVars
    BY <1>12 DEF ObjectInv, CleanupHasNoRow, FileBeforeRow, CommittedVersionHasObject,
                 Committed, uploadVars, requestVars, rowVars, storeVars
<1>13. QED
    BY <1>3, <1>4, <1>5, <1>6, <1>7, <1>8, <1>9, <1>10, <1>11, <1>12
       DEF UploadNext, Proceed, Disturb, StagingStep

\* Without the two faults, every version of a live document keeps its bytes.
THEOREM CommittedVersionHasObjectCorrect ==
    ASSUME CommitsAnswered
    PROVE  UploadSpec => []CommittedVersionHasObject
<1>1. UInv /\ ObjectInv /\ [UploadNext]_uploadVars => ObjectInv'
    BY ObjectInvStep
<1>2. ObjectInv => CommittedVersionHasObject
    BY DEF ObjectInv
<1>3. QED
    BY UInvCorrect, ObjectInvInit, <1>1, <1>2, PTL DEF UploadSpec

---------------------------------------------------------------------------
(* The contract.  A commit is its Accept; every other step of a request    *)
(* is invisible.                                                           *)

LEMMA ContractStart == UploadInit => Promise!ContractInit
BY DEF UploadInit, Promise!ContractInit, StoredBar, Committed

\* A step that changes neither rows nor documents, nor a file of a version.
LEMMA Invisible ==
    ASSUME UNCHANGED <<row, docs>>, final' \cap Committed = final \cap Committed
    PROVE  UNCHANGED Promise!contractVars
BY RowsFrame DEF Promise!contractVars, StoredBar

LEMMA CommitAccepts ==
    ASSUME UInv, ObjectInv, NEW r \in Request, Commit(r)
    PROVE  Promise!Accept(r, NewRow(r)) /\ NewRow(r) \in Promise!Version
<1> USE DEF UploadTypeOK, InTransaction, Uploading
<1>1. /\ UploadTypeOK
      /\ pc[r] = "flushed"
      /\ row' = [row EXCEPT ![r] = NewRow(r)]
      /\ docs' = IF input[r].new THEN [docs EXCEPT ![input[r].doc] = "live"] ELSE docs
      /\ final' = final
    BY DEF UInv, Commit, Insert, storeVars
<1>2. NewRow(r) \in Version
    BY <1>1, NewRowType DEF Numbered
<1>3. /\ NewRow(r).doc = input[r].doc /\ NewRow(r).content = input[r].content
      /\ NewRow(r).number = draft[r]
    BY DEF NewRow
<1>4. Promise!Rows = Rows
    BY DEF Promise!Rows, Rows, Committed
<1>5. row[r] = NoRow
    BY <1>1 DEF UInv, RowOfRequest
<1>6. docs[input[r].doc] # "deleted" /\ docs' = [docs EXCEPT ![input[r].doc] = "live"]
    <2>1. CASE input[r].new
        BY <1>1, <2>1 DEF UInv, NewDocumentsApart
    <2>2. CASE ~input[r].new
        <3>1. docs[input[r].doc] = "live"
            BY <1>1, <2>2 DEF UInv, DocumentHeld
        <3>2. docs = [docs EXCEPT ![input[r].doc] = "live"]
            BY <1>1, <3>1
        <3>3. QED
            BY <1>1, <2>2, <3>1, <3>2
    <2>3. QED
        BY <2>1, <2>2
<1>7. \A u \in Rows : u.key # NewRow(r).key
    BY <1>1 DEF UInv, FlushedFit, Collide, SameJob
<1>8. /\ Follows(input[r].doc, draft[r])
      /\ \A u \in RowsOf(input[r].doc) : u.content # input[r].content
    BY <1>1 DEF UInv, ReservationValid
<1>9. Promise!RowsOf(input[r].doc) = RowsOf(input[r].doc)
    BY <1>4 DEF Promise!RowsOf, RowsOf
<1>10. StoredBar' = StoredBar \cup {r}
    <2>1. Committed' = Committed \cup {r}
        BY <1>1, <1>2, UploadAssumption DEF Committed
    <2>2. r \in final
        BY <1>1 DEF ObjectInv, FileBeforeRow
    <2>3. QED
        BY <1>1, <2>1, <2>2 DEF StoredBar
<1>11. draft[r] > 1 => \E u \in RowsOf(input[r].doc) : u.number = draft[r] - 1
    BY <1>8 DEF Follows
<1>12. \A u \in RowsOf(input[r].doc) : u.number < draft[r]
    BY <1>8 DEF Follows
<1>13. NewRow(r) \in Promise!Version
    BY <1>2 DEF Promise!Version, Version
<1>14. /\ \A u \in Promise!Rows : u.key # NewRow(r).key
       /\ \A u \in Promise!RowsOf(NewRow(r).doc) :
             u.content # NewRow(r).content /\ u.number < NewRow(r).number
       /\ NewRow(r).number > 1 =>
             \E u \in Promise!RowsOf(NewRow(r).doc) : u.number = NewRow(r).number - 1
    BY <1>3, <1>4, <1>7, <1>8, <1>9, <1>11, <1>12
<1>15. /\ docs[NewRow(r).doc] # "deleted"
       /\ docs' = [docs EXCEPT ![NewRow(r).doc] = "live"]
    BY <1>3, <1>6
<1>16. QED
    BY <1>1, <1>5, <1>10, <1>13, <1>14, <1>15 DEF Promise!Accept

LEMMA ContractStep ==
    ASSUME CommitsAnswered, UInv, ObjectInv, [UploadNext]_uploadVars
    PROVE  [Promise!ContractNext]_Promise!contractVars
<1>1. \A r \in Request : pc[r] \in Uploading \cup Leaving => r \notin Committed
    BY DEF UInv, RowOfRequest, ObjectInv, CleanupHasNoRow, Committed
<1>2. ASSUME NEW r \in Request,
             \/ \E i \in Input : Replay(r, i) \/ Open(r, i)
             \/ Admit(r) \/ OverQuota(r) \/ FileGone(r) \/ ReserveNew(r) \/ Reserve(r)
             \/ Duplicate(r) \/ NotFound(r) \/ Flush(r) \/ IntegrityError(r) \/ SetContext(r)
             \/ Unwind(r) \/ WriteRefused(r) \/ StepFailed(r) \/ CommitFailed(r)
             \/ RollbackFailed(r) \/ CleanupFailed(r) \/ Die(r) \/ StagingStep(r)
      PROVE  UNCHANGED Promise!contractVars
    <2>1. UNCHANGED <<row, docs, final>>
        BY <1>2
           DEF Replay, Open, Admit, OverQuota, FileGone, ReserveNew, Reserve, Duplicate, NotFound,
               Flush, IntegrityError, SetContext, Unwind, WriteRefused, StepFailed, CommitFailed,
               RollbackFailed, CleanupFailed, Die, StagingStep, WriteChunk, Age, Sweep, Raise,
               RollBack, rowVars, storeVars
    <2>2. QED
        BY <2>1, Invisible
<1>3. ASSUME NEW r \in Request, Move(r) \/ MoveLate(r) \/ Withdraw(r)
      PROVE  UNCHANGED Promise!contractVars
    <2>1. /\ UNCHANGED <<row, docs>>
          /\ pc[r] \in Uploading \cup Leaving
          /\ final' \in {final \cup {r}, final \ {r}}
        BY <1>3 DEF Move, MoveLate, Withdraw, rowVars, Uploading, InTransaction, Leaving
    <2>2. final' \cap Committed = final \cap Committed
        BY <1>1, <2>1
    <2>3. QED
        BY <2>1, <2>2, Invisible
<1>4. ASSUME NEW r \in Request, Commit(r) PROVE Promise!ContractNext
    BY <1>4, CommitAccepts DEF Promise!ContractNext
<1>5. ASSUME NEW r \in Request, CommitUnconfirmed(r) \/ ContextLost(r) PROVE FALSE
    BY <1>5 DEF CommitUnconfirmed, ContextLost, CommitsAnswered
<1>6. ASSUME NEW r \in Request, EraseObject(r) PROVE Promise!ContractNext
    <2>1. /\ row[r] # NoRow /\ docs[row[r].doc] = "deleted"
          /\ UNCHANGED <<row, docs>>
          /\ final' = final \ {r}
        BY <1>6 DEF EraseObject, rowVars, Committed
    <2>2. StoredBar' = StoredBar \ {r}
        BY <2>1, RowsFrame DEF StoredBar
    <2>3. Promise!Erase(r)
        BY <2>1, <2>2 DEF Promise!Erase
    <2>4. QED
        BY <2>3 DEF Promise!ContractNext
<1>7. ASSUME NEW d \in Document, DeleteDocument(d) PROVE Promise!ContractNext
    <2>1. /\ docs[d] = "live"
          /\ docs' = [docs EXCEPT ![d] = "deleted"]
          /\ UNCHANGED <<row, final>>
        BY <1>7 DEF DeleteDocument, storeVars
    <2>2. StoredBar' = StoredBar
        BY <2>1, RowsFrame DEF StoredBar
    <2>3. QED
        BY <2>1, <2>2 DEF Promise!Delete, Promise!ContractNext
<1>8. CASE UNCHANGED uploadVars
    BY <1>8, Invisible DEF uploadVars, rowVars, storeVars
<1>9. QED
    BY <1>2, <1>3, <1>4, <1>5, <1>6, <1>7, <1>8 DEF UploadNext, Proceed, Disturb, StagingStep

\* Without the two faults, an upload is all or nothing to whoever reads versions and
\* objects: the interleaved steps implement the contract.
THEOREM UploadImplementsContract ==
    ASSUME CommitsAnswered
    PROVE  UploadSpec => ImplementsContract
<1>1. UInv /\ ObjectInv /\ [UploadNext]_uploadVars => ObjectInv'
    BY ObjectInvStep
<1>2. UInv /\ ObjectInv /\ [UploadNext]_uploadVars => [Promise!ContractNext]_Promise!contractVars
    BY ContractStep
<1>3. QED
    BY UInvCorrect, ObjectInvInit, ContractStart, <1>1, <1>2, PTL
       DEF UploadSpec, ImplementsContract, Promise!Contract

---------------------------------------------------------------------------
(* What a failed request leaves.  A rename that outlives the request is    *)
(* excluded too, because nobody knows of its file, and a cleanup that      *)
(* fails itself.                                                           *)

CleanupWorks == Faults \cap {"late_move", "cleanup"} = {}

\* No file is at its final key before the move, or after the cleanup.
FinalWithMove ==
    \A r \in Request :
        pc[r] \in {"idle", "writing", "admitted", "reserved", "unwind", "failed"} => r \notin final

FailedSwept == \A r \in Request : pc[r] = "failed" => r \notin staging

CleanupInv == FinalWithMove /\ FailedSwept

LEMMA CleanupInvStep ==
    ASSUME CleanupWorks, UploadTypeOK, CleanupInv, [UploadNext]_uploadVars
    PROVE  CleanupInv'
<1> USE DEF CleanupWorks, Unstage, UploadTypeOK, CleanupInv, FinalWithMove, FailedSwept,
            Goto, storeVars, requestVars
<1>1. ASSUME NEW r \in Request, NEW i \in Input, Replay(r, i) \/ Open(r, i) PROVE CleanupInv'
    BY <1>1 DEF Replay, Open
<1>2. ASSUME NEW r \in Request, Proceed(r) PROVE CleanupInv'
    BY <1>2 DEF Proceed, Admit, OverQuota, FileGone, ReserveNew, Reserve, Duplicate, NotFound,
                Move, Flush, IntegrityError, Commit, SetContext, Unwind, Withdraw, Raise,
                RollBack, LockDocument
<1>3. ASSUME NEW r \in Request, Disturb(r) PROVE CleanupInv'
    BY <1>3 DEF Disturb, WriteRefused, StepFailed, MoveLate, CommitFailed, CommitUnconfirmed,
                ContextLost, RollbackFailed, CleanupFailed, Die, Raise, RollBack
<1>4. CASE \/ \E d \in Document : DeleteDocument(d)
           \/ \E r \in Request : EraseObject(r) \/ StagingStep(r)
           \/ UNCHANGED uploadVars
    BY <1>4 DEF DeleteDocument, EraseObject, StagingStep, WriteChunk, Age, Sweep, Unstage,
                 uploadVars
<1>5. QED
    BY <1>1, <1>2, <1>3, <1>4 DEF UploadNext, StagingStep

\* When the outcome of every commit is known, no rename outlives its request and the
\* exception handlers themselves succeed, a request that was answered with an error has
\* left neither a file nor a version behind.
THEOREM FailedLeavesNothingCorrect ==
    ASSUME CommitsAnswered, CleanupWorks
    PROVE  UploadSpec => []FailedLeavesNothing
<1>1. UploadInit => CleanupInv
    BY DEF UploadInit, CleanupInv, FinalWithMove, FailedSwept
<1>2. UploadTypeOK /\ CleanupInv /\ [UploadNext]_uploadVars => CleanupInv'
    BY CleanupInvStep
<1>3. UInv /\ ObjectInv /\ [UploadNext]_uploadVars => ObjectInv'
    BY ObjectInvStep
<1>4. ObjectInv /\ CleanupInv => FailedLeavesNothing
    BY DEF ObjectInv, CleanupHasNoRow, Leaving, CleanupInv, FinalWithMove, FailedSwept,
           FailedLeavesNothing, Committed
<1>5. QED
    BY UploadTypeCorrect, UInvCorrect, ObjectInvInit, <1>1, <1>2, <1>3, <1>4, PTL DEF UploadSpec
=============================================================================
