------------------------------- MODULE Upload -------------------------------
(***************************************************************************)
(* upload_document_version (packages/documents/service.py), step by step:  *)
(* concurrent requests write to the staging area of the object store,      *)
(* check the quota, lock the document, move the file to its final key and  *)
(* commit the version with its job; on an exception they clean up.  Beside *)
(* them members delete documents, workers erase what was deleted and sweep *)
(* the staging area, and the API process may die.                          *)
(*                                                                         *)
(* The database runs at READ COMMITTED: a query sees the rows committed    *)
(* when it starts, FOR UPDATE waits for the lock, and an insert waits for  *)
(* an uncommitted row it may collide with.                                 *)
(*                                                                         *)
(* A request adds at most one version, whose id (and with it both keys of  *)
(* its object) is drawn for the request: the model names versions and      *)
(* objects by their request.  Every file has size 1.                       *)
(***************************************************************************)
EXTENDS Integers, FiniteSets

CONSTANTS
    Request,     \* the upload requests
    Document,    \* document ids
    Content,     \* file contents (their SHA-256 digests)
    Key,         \* idempotency keys
    Input,       \* bound: what a request may ask for
    Quota,       \* settings.max_workspace_storage_bytes
    MaxNumber,   \* bound: version numbers
    MaxStale,    \* bound: files in the staging area that are an hour old
    Faults,      \* the faults the environment may cause, see FaultKinds
    Nobody,      \* no request holds the lock
    NoRow,       \* the request has added no version
    NoInput      \* the request has not arrived

\* "death": the API process dies.  "late_move": the request is cancelled while
\* the file is renamed.  "lost_ack": the commit takes effect and an exception is
\* raised.  "lost_context": the first statement after the commit raises.
\* "cleanup": an exception handler raises or is cancelled itself.
FaultKinds == {"death", "late_move", "lost_ack", "lost_context", "cleanup"}

Version == [doc : Document, content : Content, key : Key, number : 1 .. MaxNumber]
Refusals == {"none", "conflict", "error"}

ASSUME UploadAssumption ==
    /\ Input \subseteq [doc : Document, content : Content, key : Key, new : BOOLEAN]
    /\ Quota \in Nat
    /\ MaxNumber \in Nat \ {0}
    /\ MaxStale \in Nat
    /\ Faults \subseteq FaultKinds
    /\ Nobody \notin Request
    /\ Request \cap Refusals = {}
    /\ NoInput \notin Input
    /\ NoRow \notin Version

VARIABLES
    pc,        \* pc[r]: where request r is
    input,     \* input[r]: what it asks for
    draft,     \* draft[r]: the version number it computed, 0 before
    lock,      \* lock[d]: the request that holds the row lock of document d
    row,       \* row[r]: the version row it committed, NoRow if none
    docs,      \* docs[d]: "unknown" until a commit inserts it, "live", "deleted"
    staging,   \* the requests whose file is under its staging key
    stale,     \* those whose staging file was last written more than an hour ago
    final,     \* the requests whose file is under its final key
    answer     \* answer[r]: the response, a conflict or any other exception

rowVars == <<row, docs>>
storeVars == <<staging, stale, final>>
requestVars == <<pc, input, draft, answer>>
uploadVars == <<requestVars, lock, rowVars, storeVars>>

Step == {"idle", "writing", "admitted", "reserved", "moved", "flushed",
         "committed", "unwind", "aborting", "withdraw", "failed", "done", "dead"}
Running == Step \ {"idle", "failed", "done", "dead"}
Numbered == {"reserved", "moved", "flushed", "committed"}
Inserted == {"flushed", "aborting"}
Locking == {"reserved", "moved", "unwind"} \cup Inserted

Committed == {r \in Request : row[r] # NoRow}
Rows == {row[r] : r \in Committed}
RowsOf(d) == {v \in Rows : v.doc = d}

\* The version and job rows that r inserts.
NewRow(r) == [doc |-> input[r].doc, content |-> input[r].content,
              key |-> input[r].key, number |-> draft[r]]

UploadInit ==
    /\ pc = [r \in Request |-> "idle"]
    /\ input = [r \in Request |-> NoInput]
    /\ draft = [r \in Request |-> 0]
    /\ lock = [d \in Document |-> Nobody]
    /\ row = [r \in Request |-> NoRow]
    /\ docs = [d \in Document |-> "unknown"]
    /\ staging = {}
    /\ stale = {}
    /\ final = {}
    /\ answer = [r \in Request |-> "none"]

Goto(r, step) == pc' = [pc EXCEPT ![r] = step]
Answer(r, a) == answer' = [answer EXCEPT ![r] = a]

\* The file leaves the staging area, if it is there.
Unstage(r) ==
    /\ staging' = staging \ {r}
    /\ stale' = stale \ {r}

---------------------------------------------------------------------------
(* Conditions.  A name that ends in Mutant is a plausible defect of the    *)
(* definition that follows it; some run is known to reject it.             *)

LockableMutant(d) == TRUE   \* the document is read without FOR UPDATE
Lockable(d) == lock[d] = Nobody

\* The rollback or commit of r's transaction gives up its locks.
ReleasedMutant(r) == lock
Released(r) == [d \in Document |-> IF lock[d] = r THEN Nobody ELSE lock[d]]

\* n follows the highest version number of document d.
Follows(d, n) ==
    /\ \A v \in RowsOf(d) : v.number < n
    /\ n = 1 \/ \E v \in RowsOf(d) : v.number = n - 1

\* Two job rows, or two version rows, violate a unique constraint together.
SameJob(u, v) == u.key = v.key
SameVersion(u, v) == u.doc = v.doc /\ (u.content = v.content \/ u.number = v.number)
CollideMutant(u, v) == SameVersion(u, v)   \* job_idempotency is missing
Collide(u, v) == SameJob(u, v) \/ SameVersion(u, v)

---------------------------------------------------------------------------
(* The request. *)

\* A new document gets an id nobody else has.
Unused(d) == /\ docs[d] = "unknown"
             /\ \A r \in Request : pc[r] # "idle" /\ input[r].new => input[r].doc # d

\* The key is looked up; an earlier upload with this key is the answer.
Replay(r, i) ==
    /\ pc[r] = "idle"
    /\ \E s \in Committed : row[s].key = i.key /\ Answer(r, s)
    /\ input' = [input EXCEPT ![r] = i]
    /\ Goto(r, "done")
    /\ UNCHANGED <<draft, lock, rowVars, storeVars>>

\* No upload has the key yet: store.write creates the staging file.
Open(r, i) ==
    /\ pc[r] = "idle"
    /\ \A v \in Rows : v.key # i.key
    /\ i.new => Unused(i.doc)
    /\ input' = [input EXCEPT ![r] = i]
    /\ staging' = staging \cup {r}
    /\ Goto(r, "writing")
    /\ UNCHANGED <<draft, lock, rowVars, stale, final, answer>>

\* A chunk is written; it may come late.
WriteChunk(r) ==
    /\ pc[r] = "writing"
    /\ stale' = stale \ {r}
    /\ UNCHANGED <<requestVars, lock, rowVars, staging, final>>

\* An exception before the file is at its final key: promoted_key is None.
Raise(r, a) ==
    /\ Goto(r, "unwind")
    /\ Answer(r, a)
    /\ UNCHANGED <<input, draft, lock, rowVars, storeVars>>

\* Too large, empty, of another type than declared, infected, or an I/O error.
WriteRefused(r) == pc[r] = "writing" /\ Raise(r, "error")

\* The staging file was swept away: its metadata cannot be read, or it cannot be
\* moved.
FileGone(r) ==
    /\ pc[r] \in {"writing", "reserved"}
    /\ r \notin staging
    /\ Raise(r, "error")

\* The file is written and acceptable; the quota counts what is committed when its
\* query runs.
Admit(r) ==
    /\ pc[r] = "writing"
    /\ r \in staging
    /\ Cardinality(Committed) + 1 <= Quota
    /\ Goto(r, "admitted")
    /\ UNCHANGED <<input, draft, lock, rowVars, storeVars, answer>>

OverQuota(r) ==
    /\ pc[r] = "writing"
    /\ r \in staging
    /\ Cardinality(Committed) + 1 > Quota
    /\ Raise(r, "error")

\* The document of the version: a new one is number 1, an existing one is locked.
\* Nobody else writes versions of a locked document, so its highest number and the
\* search for a duplicate are one step.
ReserveNew(r) ==
    /\ pc[r] = "admitted"
    /\ input[r].new
    /\ draft' = [draft EXCEPT ![r] = 1]
    /\ Goto(r, "reserved")
    /\ UNCHANGED <<input, lock, rowVars, storeVars, answer>>

LockDocument(r) ==
    /\ pc[r] = "admitted"
    /\ ~input[r].new
    /\ docs[input[r].doc] = "live"
    /\ Lockable(input[r].doc)
    /\ lock' = [lock EXCEPT ![input[r].doc] = r]

Reserve(r) ==
    /\ LockDocument(r)
    /\ \A v \in RowsOf(input[r].doc) : v.content # input[r].content
    /\ \E n \in 0 .. MaxNumber : /\ Follows(input[r].doc, n)
                                 /\ draft' = [draft EXCEPT ![r] = n]
    /\ Goto(r, "reserved")
    /\ UNCHANGED <<input, rowVars, storeVars, answer>>

Duplicate(r) ==
    /\ LockDocument(r)
    /\ \E v \in RowsOf(input[r].doc) : v.content = input[r].content
    /\ Goto(r, "unwind")
    /\ Answer(r, "conflict")
    /\ UNCHANGED <<input, draft, rowVars, storeVars>>

NotFound(r) ==
    /\ pc[r] = "admitted"
    /\ ~input[r].new
    /\ docs[input[r].doc] # "live"
    /\ Raise(r, "error")

\* store.move
Move(r) ==
    /\ pc[r] = "reserved"
    /\ r \in staging
    /\ Unstage(r)
    /\ final' = final \cup {r}
    /\ Goto(r, "moved")
    /\ UNCHANGED <<input, draft, lock, rowVars, answer>>

\* A query, the wait for the lock or store.move raises.
StepFailed(r) == pc[r] \in {"admitted", "reserved"} /\ Raise(r, "error")

\* The thread renames the file although the awaiting request was cancelled.
MoveLate(r) ==
    /\ "late_move" \in Faults
    /\ pc[r] = "reserved"
    /\ r \in staging
    /\ Unstage(r)
    /\ final' = final \cup {r}
    /\ Goto(r, "unwind")
    /\ Answer(r, "error")
    /\ UNCHANGED <<input, draft, lock, rowVars>>

\* session.flush inserts the rows, once no uncommitted row collides with them.
Unhindered(r) ==
    \A s \in Request \ {r} : pc[s] \in Inserted => ~Collide(NewRow(r), NewRow(s))

Flush(r) ==
    /\ pc[r] = "moved"
    /\ Unhindered(r)
    /\ \A v \in Rows : ~Collide(NewRow(r), v)
    /\ Goto(r, "flushed")
    /\ UNCHANGED <<input, draft, lock, rowVars, storeVars, answer>>

\* An exception of flush or commit: the session is rolled back first.
RollBack(r, a) ==
    /\ lock' = Released(r)
    /\ Goto(r, "withdraw")
    /\ Answer(r, a)
    /\ UNCHANGED <<input, draft, storeVars>>

IntegrityError(r) ==
    /\ pc[r] = "moved"
    /\ Unhindered(r)
    /\ \E v \in Rows : Collide(NewRow(r), v)
    /\ RollBack(r, "conflict")
    /\ UNCHANGED rowVars

CommitFailed(r) ==
    /\ pc[r] \in {"moved", "flushed"}
    /\ RollBack(r, "error")
    /\ UNCHANGED rowVars

\* session.rollback raises too: the transaction lives until the session is closed.
RollbackFailed(r) ==
    /\ "cleanup" \in Faults
    /\ pc[r] \in {"moved", "flushed"}
    /\ Goto(r, "aborting")
    /\ Answer(r, "error")
    /\ UNCHANGED <<input, draft, lock, rowVars, storeVars>>

\* The effect of the commit.
Insert(r) ==
    /\ row' = [row EXCEPT ![r] = NewRow(r)]
    /\ docs' = IF input[r].new THEN [docs EXCEPT ![input[r].doc] = "live"] ELSE docs

Commit(r) ==
    /\ pc[r] = "flushed"
    /\ Insert(r)
    /\ lock' = Released(r)
    /\ Goto(r, "committed")
    /\ UNCHANGED <<input, draft, storeVars, answer>>

CommitUnconfirmed(r) ==
    /\ "lost_ack" \in Faults
    /\ pc[r] = "flushed"
    /\ Insert(r)
    /\ RollBack(r, "error")

\* set_tenant_context for the reads of the response.
SetContext(r) ==
    /\ pc[r] = "committed"
    /\ Goto(r, "done")
    /\ Answer(r, r)
    /\ UNCHANGED <<input, draft, lock, rowVars, storeVars>>

ContextLost(r) ==
    /\ "lost_context" \in Faults
    /\ pc[r] = "committed"
    /\ Goto(r, "withdraw")
    /\ Answer(r, "error")
    /\ UNCHANGED <<input, draft, lock, rowVars, storeVars>>

\* The outer handler: the staging file goes, the session is rolled back after it.
Unwind(r) ==
    /\ pc[r] = "unwind"
    /\ Unstage(r)
    /\ lock' = Released(r)
    /\ Goto(r, "failed")
    /\ UNCHANGED <<input, draft, rowVars, final, answer>>

WithdrawMutant(r) ==   \* only the staging file
    /\ pc[r] \in {"withdraw", "aborting"}
    /\ Unstage(r)
    /\ lock' = Released(r)
    /\ Goto(r, "failed")
    /\ UNCHANGED <<input, draft, rowVars, final, answer>>

\* Both handlers together, once promoted_key was set.
Withdraw(r) ==
    /\ pc[r] \in {"withdraw", "aborting"}
    /\ Unstage(r)
    /\ final' = final \ {r}
    /\ lock' = Released(r)
    /\ Goto(r, "failed")
    /\ UNCHANGED <<input, draft, rowVars, answer>>

\* A handler fails before it has removed the file; the session is closed all the same.
CleanupFailed(r) ==
    /\ "cleanup" \in Faults
    /\ pc[r] \in {"unwind", "withdraw", "aborting"}
    /\ lock' = Released(r)
    /\ Goto(r, "failed")
    /\ UNCHANGED <<input, draft, rowVars, storeVars, answer>>

\* The API process dies: the database rolls back, files stay.
Die(r) ==
    /\ "death" \in Faults
    /\ pc[r] \in Running
    /\ lock' = Released(r)
    /\ Goto(r, "dead")
    /\ UNCHANGED <<input, draft, rowVars, storeVars, answer>>

---------------------------------------------------------------------------
(* Members and workers. *)

DeleteDocument(d) ==
    /\ docs[d] = "live"
    /\ Lockable(d)
    /\ docs' = [docs EXCEPT ![d] = "deleted"]
    /\ UNCHANGED <<requestVars, lock, row, storeVars>>

\* The deletion job removes the object of one version (DocumentPipeline has its
\* steps).
EraseObject(r) ==
    /\ r \in Committed \cap final
    /\ docs[row[r].doc] = "deleted"
    /\ final' = final \ {r}
    /\ UNCHANGED <<requestVars, lock, rowVars, staging, stale>>

\* An hour passes without a write to the file.
Age(r) ==
    /\ r \in staging
    /\ Cardinality(stale) < MaxStale
    /\ stale' = stale \cup {r}
    /\ UNCHANGED <<requestVars, lock, rowVars, staging, final>>

\* delete_stale_staging goes by the age of the file alone: its request may have ended
\* without removing it, or be slow.
Sweep(r) ==
    /\ r \in stale
    /\ Unstage(r)
    /\ UNCHANGED <<requestVars, lock, rowVars, final>>

---------------------------------------------------------------------------

\* What the code does by itself, and what happens to it.
Proceed(r) ==
    \/ Admit(r) \/ OverQuota(r) \/ FileGone(r)
    \/ ReserveNew(r) \/ Reserve(r) \/ Duplicate(r) \/ NotFound(r)
    \/ Move(r) \/ Flush(r) \/ IntegrityError(r) \/ Commit(r) \/ SetContext(r)
    \/ Unwind(r) \/ Withdraw(r)

Disturb(r) ==
    \/ WriteRefused(r) \/ StepFailed(r) \/ MoveLate(r)
    \/ CommitFailed(r) \/ CommitUnconfirmed(r) \/ ContextLost(r)
    \/ RollbackFailed(r) \/ CleanupFailed(r) \/ Die(r)

UploadNext ==
    \/ \E r \in Request : \/ \E i \in Input : Replay(r, i) \/ Open(r, i)
                          \/ Proceed(r)
                          \/ Disturb(r)
                          \/ WriteChunk(r)
                          \/ EraseObject(r)
                          \/ Age(r) \/ Sweep(r)
    \/ \E d \in Document : DeleteDocument(d)

UploadSpec == UploadInit /\ [][UploadNext]_uploadVars

\* A running request proceeds when it can; neither a disturbance nor a sweep has to
\* come to its help.
UploadFairness == \A r \in Request : WF_uploadVars(Proceed(r))

FairUploadSpec == UploadSpec /\ UploadFairness

---------------------------------------------------------------------------
(* Correctness. *)

\* Requests, rows, locks and files keep their types; a request that passed the
\* document check has a number, and only a request that has not yet committed or
\* rolled back holds a lock, on its own document.
UploadTypeOK ==
    /\ pc \in [Request -> Step]
    /\ input \in [Request -> Input \cup {NoInput}]
    /\ draft \in [Request -> 0 .. MaxNumber]
    /\ lock \in [Document -> Request \cup {Nobody}]
    /\ row \in [Request -> Version \cup {NoRow}]
    /\ docs \in [Document -> {"unknown", "live", "deleted"}]
    /\ staging \subseteq Request
    /\ stale \subseteq staging
    /\ final \subseteq Request
    /\ answer \in [Request -> Request \cup Refusals]
    /\ \A r \in Request : /\ pc[r] # "idle" => input[r] \in Input
                          /\ pc[r] \in Numbered => draft[r] # 0
    /\ \A d \in Document :
          lock[d] # Nobody => pc[lock[d]] \in Locking /\ input[lock[d]].doc = d

\* A key belongs to at most one version, and a request that is told of a version
\* is told of one with its own key, however requests with that key race and are
\* repeated.
OneVersionPerKey ==
    /\ \A r, s \in Committed : row[r].key = row[s].key => r = s
    /\ \A r \in Request :
          answer[r] \in Request => /\ answer[r] \in Committed
                                   /\ row[answer[r]].key = input[r].key

\* An upload is answered with a conflict only when its key or its content was
\* uploaded before: two uploads to one document never trip over each other's
\* version number.
ConflictJustified ==
    \A r \in Request :
        answer[r] = "conflict" =>
            \E s \in Committed \ {r} :
                \/ row[s].key = input[r].key
                \/ /\ row[s].doc = input[r].doc
                   /\ row[s].content = input[r].content

\* A request that was answered with an error has left neither a file nor a
\* version behind, unless its cleanup failed as well.
FailedLeavesNothing ==
    \A r \in Request : pc[r] = "failed" => r \notin staging \cup final \cup Committed

\* The bytes of every version of a live document are in the store
\* (docs/week-2-preview-plan.md: "Object-storage and database failures do not
\* leave a user-visible partial version").
CommittedVersionHasObject ==
    \A r \in Committed : docs[row[r].doc] = "live" => r \in final

\* The bytes of all versions stay within the quota (docs/threat-model.md: "hard
\* per-file and workspace byte limits").
WithinQuota == Cardinality(Committed) <= Quota

\* Nobody waits for a lock or a uniqueness check forever.
EveryRequestEnds ==
    \A r \in Request : pc[r] \in Running ~> pc[r] \notin Running

---------------------------------------------------------------------------
(* The contract this code implements. *)

StoredBar == Committed \cap final

Promise == INSTANCE UploadContract WITH stored <- StoredBar

\* An upload is all or nothing: version, number, key and bytes appear in one step
\* of a document that is not deleted.
ImplementsContract == Promise!Contract
=============================================================================
