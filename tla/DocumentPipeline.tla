-------------------------- MODULE DocumentPipeline --------------------------
(***************************************************************************)
(* The document lifecycle from upload to deletion: the routes that create  *)
(* jobs (apps/api/routes/documents.py, packages/documents/service.py), the *)
(* worker program that executes them (apps/worker/main.py), the document   *)
(* and version rows, the chunk index and the object store.                 *)
(*                                                                         *)
(* A worker runs one job at a time from the batch it claimed.  Every       *)
(* database transaction of the worker is one action; between two of them   *)
(* leases run out, other workers claim, members delete documents and       *)
(* retry jobs, and the process may die.  An exception anywhere in a job    *)
(* leads to fail_job; an exception in fail_job is only logged.             *)
(*                                                                         *)
(* A version is <<d, n>>: version_number n of document d.  It is also the  *)
(* name of its processing job; <<d, 0>> is the deletion job of document d  *)
(* (the idempotency key `delete:<d>' makes it unique).                     *)
(***************************************************************************)
EXTENDS JobQueue

CONSTANTS
    Document,     \* the documents that may be uploaded
    MaxVersion,   \* bound: versions per document
    MaxDeletable, \* bound: members delete a document with at most that many versions
    MaxRaised,    \* bound: uploads that see an exception after their commit
    NoJob         \* a worker between two jobs

Version == Document \X (1 .. MaxVersion)
VersionsOf(d) == {d} \X (1 .. MaxVersion)
DeleteJob(d) == <<d, 0>>

ASSUME PipelineAssumption ==
    /\ MaxVersion \in Nat \ {0}
    /\ Job = Document \X (0 .. MaxVersion)
    /\ MaxDeletable \in Nat
    /\ MaxRaised \in Nat
    /\ NoJob \notin Job

VARIABLES
    deleted,    \* deleted[d]: deleted_at is set
    active,     \* active[d]: the number of the active version, 0 for NULL
    vstatus,    \* vstatus[v]: the version's status, "none" before its upload
    chunks,     \* the versions whose chunks are in the index
    objects,    \* the versions whose bytes are in the object store
    raised,     \* the versions committed by a request that then saw an exception
    pc,         \* pc[w]: where worker w is in its program
    todo,       \* todo[w]: the jobs of its batch it has not started
    job,        \* job[w]: the job it executes
    keys        \* keys[w]: the objects its deletion job has yet to remove

docVars == <<deleted, active, vstatus, chunks, objects, raised>>
workerVars == <<pc, todo, job, keys>>
pipelineVars == <<queueVars, docVars, workerVars>>

VersionStatus == {"none", "queued", "processing", "active", "failed"}
Stage == {"poll", "next", "load", "fetch", "index", "list", "remove", "fail"}

Uploaded(d) == {v \in VersionsOf(d) : vstatus[v] # "none"}

PipelineInit ==
    /\ QueueInit
    /\ deleted = [d \in Document |-> FALSE]
    /\ active = [d \in Document |-> 0]
    /\ vstatus = [v \in Version |-> "none"]
    /\ chunks = {}
    /\ objects = {}
    /\ raised = {}
    /\ pc = [w \in Worker |-> "poll"]
    /\ todo = [w \in Worker |-> {}]
    /\ job = [w \in Worker |-> NoJob]
    /\ keys = [w \in Worker |-> {}]

---------------------------------------------------------------------------
(* Members, through the API.  As in JobQueue, a name that ends in Mutant is a *)
(* plausible defect of the definition that follows it.                      *)

\* upload_document_version commits: the object is in place, the version row has
\* the next number of its document, and its job is queued.  The request may still
\* see an exception (the acknowledgement is lost, the request is cancelled, the
\* tenant context cannot be set again).
Upload(d, n) ==
    /\ ~deleted[d]
    /\ \A m \in 1 .. MaxVersion : vstatus[<<d, m>>] # "none" <=> m < n
    /\ vstatus' = [vstatus EXCEPT ![<<d, n>>] = "queued"]
    /\ objects' = objects \cup {<<d, n>>}
    /\ raised' \in {R \in {raised, raised \cup {<<d, n>>}} : Cardinality(R) <= MaxRaised}
    /\ Enqueue(<<d, n>>)
    /\ UNCHANGED <<deleted, active, chunks, workerVars>>

\* The handlers of that exception take the commit for undone and delete the object
\* under its final key, unless they fail too: the worker may have started by then.
Withdraw(v) ==
    /\ v \in raised \cap objects
    /\ objects' = objects \ {v}
    /\ UNCHANGED <<queueVars, deleted, active, vstatus, chunks, raised, workerVars>>

\* delete_document: the row disappears from every read at once, and the job that
\* removes its objects and chunks is queued.
DeleteDocument(d) ==
    /\ Cardinality(Uploaded(d)) \in 1 .. MaxDeletable
    /\ ~deleted[d]
    /\ deleted' = [deleted EXCEPT ![d] = TRUE]
    /\ active' = [active EXCEPT ![d] = 0]
    /\ Enqueue(DeleteJob(d))
    /\ UNCHANGED <<vstatus, chunks, objects, raised, workerVars>>

RetryDocumentJob(j) ==
    /\ RetryJob(j)
    /\ UNCHANGED <<docVars, workerVars>>

---------------------------------------------------------------------------
(* The worker program. *)

Goto(w, stage) == pc' = [pc EXCEPT ![w] = stage]

\* process_job returns: the loop goes on with the batch or polls again.
EndJob(w) ==
    /\ Goto(w, IF todo[w] = {} THEN "poll" ELSE "next")
    /\ job' = [job EXCEPT ![w] = NoJob]
    /\ keys' = [keys EXCEPT ![w] = {}]
    /\ UNCHANGED todo

\* An exception reaches process_job: fail_job runs next.
Raise(w) ==
    /\ Goto(w, "fail")
    /\ UNCHANGED <<todo, job, keys>>

\* The transaction rolled back and raised.
Abort(w) == Raise(w) /\ UNCHANGED <<queueVars, docVars>>

\* The transaction of a job's last step committed; the worker may still see an
\* exception when the acknowledgement is lost.
Finished(w) == EndJob(w) \/ Raise(w)

\* The status of the version a processing job belongs to.
SetStatus(j, status) ==
    vstatus' = IF j \in Version THEN [vstatus EXCEPT ![j] = status] ELSE vstatus

Poll(w, S) ==
    /\ pc[w] = "poll"
    /\ Claim(w, S)
    /\ Goto(w, "next")
    /\ todo' = [todo EXCEPT ![w] = S]
    /\ UNCHANGED <<docVars, job, keys>>

\* begin_processing, for the next job of the batch.  It raises when the job is no
\* longer owned (its lease ran out behind the jobs before it) or the database
\* fails.
Begin(w, j) ==
    /\ pc[w] = "next"
    /\ j \in todo[w]
    /\ todo' = [todo EXCEPT ![w] = todo[w] \ {j}]
    /\ job' = [job EXCEPT ![w] = j]
    /\ UNCHANGED keys
    /\ \/ /\ MarkProcessing(w, j)
          /\ SetStatus(j, "processing")
          /\ Goto(w, IF j \in Version THEN "load" ELSE "list")
          /\ UNCHANGED <<deleted, active, chunks, objects, raised>>
       \/ /\ Goto(w, "fail")
          /\ UNCHANGED <<queueVars, docVars>>

\* finish_document_job, first transaction: the document must not be deleted.
Load(w) ==
    /\ pc[w] = "load"
    /\ ~deleted[job[w][1]]
    /\ Goto(w, "fetch")
    /\ UNCHANGED <<queueVars, docVars, todo, job, keys>>

LoadRefused(w) ==
    /\ pc[w] = "load"
    /\ deleted[job[w][1]]
    /\ Abort(w)

\* store.stat and store.read: the object must still be there.
Fetch(w) ==
    /\ pc[w] = "fetch"
    /\ job[w] \in objects
    /\ Goto(w, "index")
    /\ UNCHANGED <<queueVars, docVars, todo, job, keys>>

FetchMissing(w) ==
    /\ pc[w] = "fetch"
    /\ job[w] \notin objects
    /\ Abort(w)

\* While the indexer runs, renew_document_lease renews from time to time.  The
\* indexing itself changes nothing shared: it ends when the last transaction runs.
Renew(w) ==
    /\ pc[w] = "index"
    /\ RenewLease(w, job[w])
    /\ UNCHANGED <<docVars, workerVars>>

\* finish_document_job, last transaction: with the version and document rows
\* locked it replaces the chunks, activates the version and completes the job.
Publish(v) ==
    /\ chunks' = chunks \cup {v}
    /\ vstatus' = [vstatus EXCEPT ![v] = "active"]
    /\ active' = [active EXCEPT ![v[1]] = v[2]]
    /\ UNCHANGED <<deleted, objects, raised>>

CommitMutant(w) ==   \* relies on the check Load made
    /\ pc[w] = "index"
    /\ MarkCompleted(w, job[w])
    /\ Publish(job[w])
    /\ Finished(w)

Commit(w) ==
    /\ pc[w] = "index"
    /\ ~deleted[job[w][1]]
    /\ MarkCompleted(w, job[w])
    /\ Publish(job[w])
    /\ Finished(w)

\* A renewal that raised is raised again when the indexing ends; otherwise the
\* last transaction itself finds the document deleted or the lease gone.
CommitRefused(w) ==
    /\ pc[w] = "index"
    /\ deleted[job[w][1]] \/ ~Owned(w, job[w])
    /\ Abort(w)

\* finish_delete_job, first transaction: the keys of all versions.
DeletionKeys(d) == Uploaded(d)

List(w) ==
    /\ pc[w] = "list"
    /\ keys' = [keys EXCEPT ![w] = DeletionKeys(job[w][1])]
    /\ Goto(w, "remove")
    /\ UNCHANGED <<queueVars, docVars, todo, job>>

\* store.delete, which ignores a missing object.
Remove(w, v) ==
    /\ pc[w] = "remove"
    /\ v \in keys[w]
    /\ objects' = objects \ {v}
    /\ keys' = [keys EXCEPT ![w] = keys[w] \ {v}]
    /\ UNCHANGED <<queueVars, deleted, active, vstatus, chunks, raised, pc, todo, job>>

PurgeMutant(w) ==   \* the job is not completed
    /\ pc[w] = "remove"
    /\ keys[w] = {}
    /\ Owned(w, job[w])
    /\ chunks' = chunks \ VersionsOf(job[w][1])
    /\ Finished(w)
    /\ UNCHANGED <<queueVars, deleted, active, vstatus, objects, raised>>

\* finish_delete_job, last transaction.
Purge(w) ==
    /\ pc[w] = "remove"
    /\ keys[w] = {}
    /\ MarkCompleted(w, job[w])
    /\ chunks' = chunks \ VersionsOf(job[w][1])
    /\ Finished(w)
    /\ UNCHANGED <<deleted, active, vstatus, objects, raised>>

PurgeRefused(w) ==
    /\ pc[w] = "remove"
    /\ keys[w] = {}
    /\ ~Owned(w, job[w])
    /\ Abort(w)

\* Any other exception: the database or the file system is unreachable, the
\* content cannot be parsed or digested, a transaction is chosen as a deadlock
\* victim.
Fault(w) ==
    /\ pc[w] \in Stage \ {"poll", "next", "fail"}
    /\ Abort(w)

\* fail_job: the attempt failed, and a version goes back to queued or to failed.
AfterFailureMutant(j) == "queued"
AfterFailure(j) == IF state'[j] \in Parked THEN "failed" ELSE "queued"

FailureEffectsDisplaceMutant(j) ==   \* a failed version takes the served one with it
    /\ SetStatus(j, AfterFailure(j))
    /\ active' = [active EXCEPT ![j[1]] = 0]
    /\ UNCHANGED <<deleted, chunks, objects, raised>>
FailureEffectsRemoveMutant(j) ==   \* the bytes of a failed version are removed
    /\ SetStatus(j, AfterFailure(j))
    /\ objects' = objects \ {j}
    /\ UNCHANGED <<deleted, active, chunks, raised>>
FailureEffects(j) ==
    /\ SetStatus(j, AfterFailure(j))
    /\ UNCHANGED <<deleted, active, chunks, objects, raised>>

Fail(w) ==
    /\ pc[w] = "fail"
    /\ MarkFailed(w, job[w], TRUE)
    /\ FailureEffects(job[w])
    /\ EndJob(w)

\* fail_job raises (the job is no longer owned, or the database is unreachable)
\* and the failure is only logged.
FailUnrecorded(w) ==
    /\ pc[w] = "fail"
    /\ EndJob(w)
    /\ UNCHANGED <<queueVars, docVars>>

\* The process stops or dies; it starts again with an empty batch.  Its rows and
\* objects stay as they are.
WorkerCrash(w) ==
    /\ Crash(w)
    /\ pc' = [pc EXCEPT ![w] = "poll"]
    /\ todo' = [todo EXCEPT ![w] = {}]
    /\ job' = [job EXCEPT ![w] = NoJob]
    /\ keys' = [keys EXCEPT ![w] = {}]
    /\ UNCHANGED docVars

Pass == Tick /\ UNCHANGED <<docVars, workerVars>>

---------------------------------------------------------------------------

MemberStep ==
    \/ \E d \in Document : (\E n \in 1 .. MaxVersion : Upload(d, n)) \/ DeleteDocument(d)
    \/ \E j \in Job : RetryDocumentJob(j)
    \/ \E v \in Version : Withdraw(v)

\* One step of the program that processes a claimed job.
ProcessStep(w) ==
    \/ \E j \in todo[w] : Begin(w, j)
    \/ Load(w) \/ LoadRefused(w)
    \/ Fetch(w) \/ FetchMissing(w)
    \/ Commit(w) \/ CommitRefused(w)
    \/ List(w) \/ (\E v \in keys[w] : Remove(w, v))
    \/ Purge(w) \/ PurgeRefused(w)
    \/ Fault(w)
    \/ Fail(w) \/ FailUnrecorded(w)

PipelineNext ==
    \/ MemberStep
    \/ \E w \in Worker : \/ \E S \in SUBSET Job : Poll(w, S)
                         \/ ProcessStep(w)
                         \/ Renew(w)
                         \/ WorkerCrash(w)
    \/ Pass

PipelineSpec == PipelineInit /\ [][PipelineNext]_pipelineVars

\* The worker loop keeps running, the clock too, and the claim query orders by
\* available_at: a job that is claimable whenever a worker polls gets its turn.
PipelineFairness ==
    /\ WF_pipelineVars(Pass)
    /\ \A w \in Worker : WF_pipelineVars(ProcessStep(w))
    /\ \A j \in Job :
          SF_pipelineVars(\E w \in Worker, S \in SUBSET Job : j \in S /\ Poll(w, S))

FairPipelineSpec == PipelineSpec /\ PipelineFairness

---------------------------------------------------------------------------
(* Correctness. *)

\* Rows, index, store and worker programs keep their types.
PipelineTypeOK ==
    /\ TypeOK
    /\ deleted \in [Document -> BOOLEAN]
    /\ active \in [Document -> 0 .. MaxVersion]
    /\ vstatus \in [Version -> VersionStatus]
    /\ chunks \subseteq Version
    /\ objects \subseteq Version
    /\ raised \subseteq Version
    /\ pc \in [Worker -> Stage]
    /\ todo \in [Worker -> SUBSET Job]
    /\ job \in [Worker -> Job \cup {NoJob}]
    /\ keys \in [Worker -> SUBSET Version]

\* The status members see follows the job that drives it: a version is active
\* exactly when its job completed, processing only while a worker has (or had,
\* until it died) the job, and failed only until the job is started again.
StatusFollowsJob ==
    \A v \in Version :
        /\ vstatus[v] = "none" <=> state[v] = "absent"
        /\ vstatus[v] = "active" <=> state[v] = "completed"
        /\ vstatus[v] = "processing" => state[v] \in Leased
        /\ state[v] = "processing" => vstatus[v] = "processing"
        /\ state[v] \in Parked => vstatus[v] = "failed"

\* What retrieval serves is complete and current: the active version of a
\* document is fully indexed, a deleted document serves nothing, and once a
\* version was activated only deletion leaves the document without one, however
\* later versions fail, crash or overtake each other.
ServedVersionSound ==
    \A d \in Document :
        /\ active[d] # 0 => /\ ~deleted[d]
                            /\ vstatus[<<d, active[d]>>] = "active"
                            /\ <<d, active[d]>> \in chunks
        /\ (\E v \in VersionsOf(d) : vstatus[v] = "active") /\ ~deleted[d]
             => active[d] # 0

\* When the deletion job is completed nothing of the document is left in the
\* index or in the store, and nothing comes back, although processing jobs of
\* its versions may still be running or be retried.
DeletionLeavesNothing ==
    \A d \in Document :
        state[DeleteJob(d)] = "completed"
            => (chunks \cup objects) \cap VersionsOf(d) = {}

\* The bytes of a version disappear only after its document was deleted or its
\* own request was answered with an error; a version whose upload succeeded keeps
\* them through every failure, crash and retry of its job.
LiveObjectsKept ==
    \A d \in Document : ~deleted[d] => Uploaded(d) \ raised \subseteq objects

\* Chunks appear or disappear and pointers move only in a transaction of the
\* worker whose own claim or renewal of that job has not run out: a stale worker
\* publishes nothing, even if nobody took the job over.
PublishNeedsTrust ==
    \A v \in Version :
        /\ v \in chunks' \ chunks
             => \E w \in Worker : job[w] = v /\ trust[w][v] > 0
        /\ v \in chunks \ chunks'
             => \E w \in Worker : /\ job[w] = DeleteJob(v[1])
                                  /\ trust[w][DeleteJob(v[1])] > 0
        /\ v[2] = active'[v[1]] /\ active[v[1]] # v[2]
             => \E w \in Worker : job[w] = v /\ trust[w][v] > 0
OnlyHolderPublishes == [][PublishNeedsTrust]_pipelineVars

\* From some point on no worker dies, none lets the lease of a job it has in hand
\* expire, and fail_job is recorded when the job is still owned.
InHand(j) == \E w \in Worker : j \in todo[w] \cup {job[w]}
CalmStep ==
    /\ \A w \in Worker : ~WorkerCrash(w)
    /\ \A w \in Worker : FailUnrecorded(w) => ~Owned(w, job[w])
    /\ \A j \in Job : InHand(j) /\ lease[j] > 0 /\ state'[j] \in Leased
                         => lease'[j] > 0
Calm == <>[][CalmStep]_pipelineVars

\* Once the system is calm every version that waits is activated or failed, also
\* when it was left half processed by a dead worker.
VersionsSettle ==
    Calm => \A v \in Version :
               vstatus[v] \in {"queued", "processing"} ~> vstatus[v] \in {"active", "failed"}

\* Once the system is calm every deletion is carried out or given up visibly.
DeletionsSettle ==
    Calm => \A d \in Document :
               deleted[d] ~> state[DeleteJob(d)] \in {"completed", "dead_letter"}
=============================================================================
