---------------------- MODULE DocumentPipeline_proofs ----------------------
(***************************************************************************)
(* Proofs about DocumentPipeline for every set of workers and documents    *)
(* and every value of the other constants.  Every step of the pipeline is  *)
(* one of JobQueue or leaves the job rows alone, which transfers the       *)
(* theorems of JobQueue_proofs; the deletion theorem has an inductive      *)
(* invariant of its own.                                                   *)
(***************************************************************************)
EXTENDS DocumentPipeline, JobQueue_proofs

USE PipelineAssumption

---------------------------------------------------------------------------
(* The pipeline changes job rows only through the job service. *)

\* What the job service does for members and workers: every step of the queue except
\* the death of a worker.
QueueWork ==
    \/ \E j \in Job : Enqueue(j) \/ RetryJob(j)
    \/ \E w \in Worker, S \in SUBSET Job : Claim(w, S)
    \/ \E w \in Worker, j \in Job :
          \/ MarkProcessing(w, j)
          \/ RenewLease(w, j)
          \/ MarkCompleted(w, j)
          \/ \E retryable \in BOOLEAN : MarkFailed(w, j, retryable)
    \/ Tick

\* Members reach the queue through an upload, a deletion and a retry.
LEMMA MemberUsesQueue == MemberStep => [QueueWork]_queueVars
<1>1. ASSUME NEW d \in Document, NEW n \in 1 .. MaxVersion, Upload(d, n)
      PROVE  \E j \in Job : Enqueue(j)
    <2>1. <<d, n>> \in Job
        OBVIOUS
    <2>2. QED
        BY <1>1, <2>1 DEF Upload
<1>2. ASSUME NEW d \in Document, DeleteDocument(d)
      PROVE  \E j \in Job : Enqueue(j)
    <2>1. DeleteJob(d) \in Job
        BY DEF DeleteJob
    <2>2. QED
        BY <1>2, <2>1 DEF DeleteDocument
<1>3. ASSUME NEW j \in Job, RetryDocumentJob(j) PROVE RetryJob(j)
    BY <1>3 DEF RetryDocumentJob
<1>4. ASSUME NEW v \in Version, Withdraw(v) PROVE UNCHANGED queueVars
    BY <1>4 DEF Withdraw
<1>5. QED
    BY <1>1, <1>2, <1>3, <1>4 DEF MemberStep, QueueWork

\* What the worker program needs to name a job of the queue.
WorkerTypeOK ==
    /\ todo \in [Worker -> SUBSET Job]
    /\ job \in [Worker -> Job \cup {NoJob}]
    /\ pc \in [Worker -> Stage]
    /\ \A w \in Worker : pc[w] \notin {"poll", "next"} => job[w] \in Job

LEMMA WorkerTypeInit == PipelineInit => WorkerTypeOK
BY DEF PipelineInit, WorkerTypeOK, Stage

\* A worker in the middle of a job has a job.
LEMMA WorkerTypeStep ==
    WorkerTypeOK /\ [PipelineNext]_pipelineVars => WorkerTypeOK'
<1> SUFFICES ASSUME WorkerTypeOK, [PipelineNext]_pipelineVars
             PROVE  WorkerTypeOK'
    OBVIOUS
<1> USE DEF WorkerTypeOK, Stage
<1>1. CASE MemberStep
    BY <1>1 DEF MemberStep, Upload, Withdraw, DeleteDocument, RetryDocumentJob, workerVars
<1>2. ASSUME NEW w \in Worker, NEW S \in SUBSET Job, Poll(w, S) PROVE WorkerTypeOK'
    BY <1>2 DEF Poll, Goto
<1>3. ASSUME NEW w \in Worker, NEW j \in todo[w], Begin(w, j) PROVE WorkerTypeOK'
    BY <1>3 DEF Begin, Goto
<1>4. ASSUME NEW w \in Worker, Abort(w), job[w] \in Job PROVE WorkerTypeOK'
    BY <1>4 DEF Abort, Raise, Goto
<1>5. ASSUME NEW w \in Worker, Finished(w), job[w] \in Job PROVE WorkerTypeOK'
    BY <1>5 DEF Finished, EndJob, Raise, Goto
<1>6. ASSUME NEW w \in Worker, Load(w) \/ Fetch(w) \/ List(w) PROVE WorkerTypeOK'
    BY <1>6 DEF Load, Fetch, List, Goto
<1>7. ASSUME NEW w \in Worker, NEW v \in keys[w], Remove(w, v) PROVE WorkerTypeOK'
    BY <1>7 DEF Remove
<1>8. ASSUME NEW w \in Worker, Renew(w) PROVE WorkerTypeOK'
    BY <1>8 DEF Renew, workerVars
<1>9. ASSUME NEW w \in Worker, WorkerCrash(w) PROVE WorkerTypeOK'
    BY <1>9 DEF WorkerCrash
<1>10. CASE Pass
    BY <1>10 DEF Pass, workerVars
<1>11. ASSUME NEW w \in Worker, ProcessStep(w) PROVE WorkerTypeOK'
    <2>1. CASE LoadRefused(w) \/ FetchMissing(w) \/ CommitRefused(w)
               \/ PurgeRefused(w) \/ Fault(w)
        BY <2>1, <1>4 DEF LoadRefused, FetchMissing, CommitRefused, PurgeRefused, Fault
    <2>2. CASE Commit(w) \/ Purge(w)
        BY <2>2, <1>5 DEF Commit, Purge
    <2>3. CASE Fail(w) \/ FailUnrecorded(w)
        BY <2>3, <1>5 DEF Fail, FailUnrecorded, Finished
    <2>4. QED
        BY <1>3, <1>6, <1>7, <1>11, <2>1, <2>2, <2>3 DEF ProcessStep
<1>12. CASE UNCHANGED pipelineVars
    BY <1>12 DEF pipelineVars, workerVars
<1>13. QED
    BY <1>1, <1>2, <1>8, <1>9, <1>10, <1>11, <1>12 DEF PipelineNext

\* Every step of the worker program is a function of the job service or leaves
\* the job rows alone.
LEMMA WorkerUsesQueue ==
    ASSUME WorkerTypeOK, NEW w \in Worker, ProcessStep(w)
    PROVE  [QueueWork]_queueVars
<1>1. ASSUME NEW j \in todo[w], Begin(w, j) PROVE [QueueWork]_queueVars
    BY <1>1 DEF Begin, QueueWork, WorkerTypeOK
<1>2. CASE Commit(w) \/ Purge(w)
    BY <1>2 DEF Commit, Purge, QueueWork, WorkerTypeOK
<1>3. CASE Fail(w)
    BY <1>3 DEF Fail, QueueWork, WorkerTypeOK
<1>4. CASE LoadRefused(w) \/ FetchMissing(w) \/ CommitRefused(w)
           \/ PurgeRefused(w) \/ Fault(w)
    BY <1>4 DEF LoadRefused, FetchMissing, CommitRefused, PurgeRefused, Fault, Abort
<1>5. CASE Load(w) \/ Fetch(w) \/ List(w) \/ FailUnrecorded(w)
    BY <1>5 DEF Load, Fetch, List, FailUnrecorded
<1>6. ASSUME NEW v \in keys[w], Remove(w, v) PROVE [QueueWork]_queueVars
    BY <1>6 DEF Remove
<1>7. QED
    BY <1>1, <1>2, <1>3, <1>4, <1>5, <1>6 DEF ProcessStep

\* Every step of the pipeline is work of the queue, or a worker dies.
LEMMA QueueWorkStep ==
    ASSUME WorkerTypeOK, [PipelineNext]_pipelineVars
    PROVE  [QueueWork]_queueVars \/ \E w \in Worker : WorkerCrash(w)
<1>1. ASSUME NEW w \in Worker, NEW S \in SUBSET Job, Poll(w, S)
      PROVE  QueueWork
    BY <1>1 DEF Poll, QueueWork
<1>2. ASSUME NEW w \in Worker, Renew(w) PROVE QueueWork
    BY <1>2 DEF Renew, QueueWork, WorkerTypeOK, Stage
<1>3. CASE Pass
    BY <1>3 DEF Pass, QueueWork
<1>4. CASE UNCHANGED pipelineVars
    BY <1>4 DEF pipelineVars
<1>5. QED
    BY MemberUsesQueue, WorkerUsesQueue, <1>1, <1>2, <1>3, <1>4 DEF PipelineNext

\* Every step of the pipeline is a step of the queue.
LEMMA QueueStep == WorkerTypeOK /\ [PipelineNext]_pipelineVars => [Next]_queueVars
<1>1. QueueWork => Next
    BY DEF QueueWork, Next
<1>2. (\E w \in Worker : WorkerCrash(w)) => Next
    BY DEF WorkerCrash, Next
<1>3. QED
    BY <1>1, <1>2, QueueWorkStep

\* Every behaviour of the pipeline is one of the queue: the actions of the pipeline are
\* written with those of the queue, so what is proved of the queue carries over.
LEMMA PipelineIsQueue == PipelineSpec => Spec
<1>1. PipelineInit => QueueInit
    BY DEF PipelineInit
<1>2. QED
    BY <1>1, QueueStep, WorkerTypeInit, WorkerTypeStep, PTL
       DEF PipelineSpec, Spec

\* In the running system too, no two workers hold a valid lease on one job and
\* attempt_count agrees with the state.
THEOREM PipelineKeepsQueueInvariants == PipelineSpec => [](LeaseExclusion /\ AttemptLedger)
BY PipelineIsQueue, LeaseExclusionCorrect, AttemptLedgerCorrect, PTL

---------------------------------------------------------------------------
(* A completed deletion leaves nothing behind. *)

\* Types of the rows the deletion argument reads.
RowTypeOK ==
    /\ state \in [Job -> JobState]
    /\ deleted \in [Document -> BOOLEAN]
    /\ vstatus \in [Version -> VersionStatus]
    /\ keys \in [Worker -> SUBSET Version]
    /\ chunks \subseteq Version
    /\ objects \subseteq Version
    /\ raised \subseteq Version

\* Only uploaded versions have bytes, and a document is deleted exactly when its
\* deletion job exists (delete_document does both in one transaction).
RowsAgree ==
    /\ \A v \in objects : vstatus[v] # "none"
    /\ \A d \in Document : deleted[d] <=> state[DeleteJob(d)] # "absent"

\* A worker works only on jobs that exist, on a version in finish_document_job
\* and on a deletion in finish_delete_job.
WorkersAgree ==
    \A w \in Worker :
        /\ \A j \in todo[w] : state[j] # "absent"
        /\ pc[w] \in {"load", "fetch", "index"} => job[w] \in Version
        /\ pc[w] \in {"list", "remove"} => /\ job[w] \notin Version
                                           /\ state[job[w]] # "absent"

\* While a deletion job removes objects, its list covers all that are left.
KeysCover ==
    \A w \in Worker :
        pc[w] = "remove" => \A v \in objects : v[1] = job[w][1] => v \in keys[w]

DeletionInv == /\ WorkerTypeOK
               /\ RowTypeOK
               /\ RowsAgree
               /\ WorkersAgree
               /\ KeysCover
               /\ DeletionLeavesNothing

\* A job is a version's or a document's.
LEMMA JobShape ==
    /\ Version \subseteq Job
    /\ \A j \in Job : j \notin Version => j[1] \in Document /\ j = DeleteJob(j[1])
    /\ \A v \in Version : v[1] \in Document /\ v[2] \in 1 .. MaxVersion
    /\ \A d \in Document : DeleteJob(d) \in Job /\ DeleteJob(d) \notin Version
                           /\ DeleteJob(d)[1] = d
    /\ \A d, e \in Document : DeleteJob(d) = DeleteJob(e) => d = e
BY DEF Version, DeleteJob

\* What a step of the queue may do to the states of jobs.
LEMMA StateStep ==
    ASSUME state \in [Job -> JobState], [Next]_queueVars
    PROVE  /\ state' \in [Job -> JobState]
           /\ \A j \in Job : state[j] # "absent" => state'[j] # "absent"
<1> USE DEF JobState, Waiting, Leased, Parked
<1>1. ASSUME NEW j \in Job, Enqueue(j) \/ RetryJob(j)
      PROVE  /\ state' \in [Job -> JobState]
             /\ \A i \in Job : state[i] # "absent" => state'[i] # "absent"
    BY <1>1 DEF Enqueue, RetryJob
<1>2. ASSUME NEW w \in Worker, NEW S \in SUBSET Job, Claim(w, S)
      PROVE  /\ state' \in [Job -> JobState]
             /\ \A i \in Job : state[i] # "absent" => state'[i] # "absent"
    BY <1>2 DEF Claim
<1>3. ASSUME NEW w \in Worker, NEW j \in Job,
             \/ MarkProcessing(w, j) \/ RenewLease(w, j) \/ MarkCompleted(w, j)
             \/ \E r \in BOOLEAN : MarkFailed(w, j, r)
      PROVE  /\ state' \in [Job -> JobState]
             /\ \A i \in Job : state[i] # "absent" => state'[i] # "absent"
    BY <1>3 DEF MarkProcessing, RenewLease, MarkCompleted, MarkFailed, Reschedule, GiveUp
<1>4. CASE Tick \/ (\E w \in Worker : Crash(w)) \/ UNCHANGED queueVars
    BY <1>4 DEF Tick, Crash, rowVars, queueVars
<1>5. QED
    BY <1>1, <1>2, <1>3, <1>4 DEF Next

\* A step that touches neither documents, versions, chunks nor objects.
LEMMA QuietStep ==
    ASSUME WorkerTypeOK, [PipelineNext]_pipelineVars
    PROVE  \/ \E d \in Document, n \in 1 .. MaxVersion : Upload(d, n)
           \/ \E v \in Version : Withdraw(v)
           \/ \E d \in Document : DeleteDocument(d)
           \/ \E w \in Worker : \E j \in todo[w] :
                 Begin(w, j) /\ MarkProcessing(w, j) /\ SetStatus(j, "processing")
                 /\ UNCHANGED <<deleted, active, chunks, objects, raised>>
           \/ \E w \in Worker : Commit(w)
           \/ \E w \in Worker : \E v \in keys[w] : Remove(w, v)
           \/ \E w \in Worker : Purge(w)
           \/ \E w \in Worker : Fail(w)
           \/ UNCHANGED docVars
<1>1. ASSUME NEW w \in Worker, ProcessStep(w)
      PROVE  \/ \E j \in todo[w] :
                 Begin(w, j) /\ MarkProcessing(w, j) /\ SetStatus(j, "processing")
                 /\ UNCHANGED <<deleted, active, chunks, objects, raised>>
             \/ Commit(w)
             \/ \E v \in keys[w] : Remove(w, v)
             \/ Purge(w)
             \/ Fail(w)
             \/ UNCHANGED docVars
    BY <1>1 DEF ProcessStep, Begin, Load, LoadRefused, Fetch, FetchMissing,
                CommitRefused, List, PurgeRefused, Fault, FailUnrecorded, Abort
<1>2. CASE MemberStep
    BY <1>2 DEF MemberStep, RetryDocumentJob
<1>3. CASE UNCHANGED pipelineVars \/ Pass
    BY <1>3 DEF pipelineVars, Pass
<1>4. ASSUME NEW w \in Worker,
             (\E S \in SUBSET Job : Poll(w, S)) \/ Renew(w) \/ WorkerCrash(w)
      PROVE  UNCHANGED docVars
    BY <1>4 DEF Poll, Renew, WorkerCrash
<1>5. QED
    BY <1>1, <1>2, <1>3, <1>4 DEF PipelineNext

\* The rows keep their types.
LEMMA RowTypeStep ==
    ASSUME WorkerTypeOK, WorkersAgree, RowTypeOK, [PipelineNext]_pipelineVars
    PROVE  RowTypeOK'
<1>1. state' \in [Job -> JobState]
    BY QueueStep, StateStep DEF RowTypeOK
<1> USE DEF RowTypeOK, VersionStatus
<1>2. /\ deleted' \in [Document -> BOOLEAN]
      /\ vstatus' \in [Version -> VersionStatus]
      /\ chunks' \subseteq Version
      /\ objects' \subseteq Version
      /\ raised' \subseteq Version
    <2>1. ASSUME NEW d \in Document, NEW n \in 1 .. MaxVersion, Upload(d, n) PROVE <1>2!:
        BY <2>1 DEF Upload, Version
    <2>2. ASSUME NEW d \in Document, DeleteDocument(d) PROVE <1>2!:
        BY <2>2 DEF DeleteDocument
    <2>3. ASSUME NEW j, SetStatus(j, "processing"),
                 UNCHANGED <<deleted, active, chunks, objects, raised>> PROVE <1>2!:
        BY <2>3 DEF SetStatus
    <2>4. ASSUME NEW w \in Worker, Commit(w) PROVE <1>2!:
        BY <2>4 DEF Commit, Publish, WorkersAgree
    <2>5. ASSUME NEW w \in Worker, NEW v \in keys[w], Remove(w, v) PROVE <1>2!:
        BY <2>5 DEF Remove
    <2>6. ASSUME NEW w \in Worker, Purge(w) PROVE <1>2!:
        BY <2>6 DEF Purge
    <2>7. ASSUME NEW w \in Worker, Fail(w) PROVE <1>2!:
        BY <2>7 DEF Fail, FailureEffects, SetStatus, AfterFailure
    <2>8. CASE UNCHANGED docVars
        BY <2>8 DEF docVars
    <2>9. ASSUME NEW v \in Version, Withdraw(v) PROVE <1>2!:
        BY <2>9 DEF Withdraw
    <2>10. QED
        BY QuietStep, <2>1, <2>2, <2>3, <2>4, <2>5, <2>6, <2>7, <2>8, <2>9
<1>3. keys' \in [Worker -> SUBSET Version]
    <2>1. CASE MemberStep \/ Pass \/ UNCHANGED pipelineVars
        BY <2>1 DEF MemberStep, Upload, Withdraw, DeleteDocument, RetryDocumentJob, Pass,
                    pipelineVars, workerVars
    <2>2. ASSUME NEW w \in Worker, UNCHANGED keys \/ keys' = [keys EXCEPT ![w] = {}]
          PROVE  <1>3!:
        BY <2>2
    <2>3. ASSUME NEW w \in Worker,
                 \/ \E S \in SUBSET Job : Poll(w, S)
                 \/ Renew(w)
                 \/ WorkerCrash(w)
          PROVE  <1>3!:
        BY <2>2, <2>3 DEF Poll, Renew, WorkerCrash, workerVars
    <2>4. ASSUME NEW w \in Worker, List(w) PROVE <1>3!:
        <3>1. DeletionKeys(job[w][1]) \subseteq Version
            BY <2>4, JobShape DEF List, WorkersAgree, WorkerTypeOK, DeletionKeys,
                                  Uploaded, VersionsOf, Version
        <3>2. QED
            BY <2>4, <3>1 DEF List
    <2>5. ASSUME NEW w \in Worker, NEW v \in keys[w], Remove(w, v) PROVE <1>3!:
        BY <2>5 DEF Remove
    <2>6. ASSUME NEW w \in Worker, ProcessStep(w), ~List(w),
                 ~ \E v \in keys[w] : Remove(w, v)
          PROVE  UNCHANGED keys \/ keys' = [keys EXCEPT ![w] = {}]
        BY <2>6 DEF ProcessStep, Begin, Load, LoadRefused, Fetch, FetchMissing, Commit,
               CommitRefused, Purge, PurgeRefused, Fault, Fail, FailUnrecorded,
               Abort, Raise, Finished, EndJob
    <2>7. QED
        BY <2>1, <2>2, <2>3, <2>4, <2>5, <2>6 DEF PipelineNext
<1>4. QED
    BY <1>1, <1>2, <1>3

\* The deletion job of a document is created only with the deletion, and bytes
\* only with their version.
LEMMA RowsAgreeStep ==
    ASSUME DeletionInv, [PipelineNext]_pipelineVars
    PROVE  RowsAgree'
<1> USE DEF DeletionInv, RowTypeOK, RowsAgree, VersionStatus
<1>1. \A j \in Job : state[j] # "absent" => state'[j] # "absent"
    BY QueueStep, StateStep
<1>2. ASSUME NEW d \in Document, NEW n \in 1 .. MaxVersion, Upload(d, n)
      PROVE  RowsAgree'
    BY <1>2, JobShape DEF Upload, Enqueue, Version, DeleteJob
<1>3. ASSUME NEW d \in Document, DeleteDocument(d) PROVE RowsAgree'
    BY <1>3, JobShape DEF DeleteDocument, Enqueue
<1>4. ASSUME UNCHANGED deleted, objects' \subseteq objects,
             \A v \in Version : vstatus[v] # "none" => vstatus'[v] # "none",
             \A d \in Document :
                 state[DeleteJob(d)] = "absent" => state'[DeleteJob(d)] = "absent"
      PROVE  RowsAgree'
    BY <1>1, <1>4, JobShape
<1>5. \/ \E d \in Document, n \in 1 .. MaxVersion : Upload(d, n)
      \/ \E d \in Document : DeleteDocument(d)
      \/ \A j \in Job : state[j] = "absent" => state'[j] = "absent"
    <2>1. ASSUME NEW w \in Worker, NEW S \in SUBSET Job, Poll(w, S)
          PROVE  \A j \in Job : state[j] = "absent" => state'[j] = "absent"
        BY <2>1 DEF Poll, Claim, Claimable, Due, Expired, Waiting, Leased
    <2>2. ASSUME NEW w \in Worker, ProcessStep(w)
          PROVE  \A j \in Job : state[j] = "absent" => state'[j] = "absent"
        BY <2>2 DEF ProcessStep, Begin, Load, LoadRefused, Fetch, FetchMissing, Commit,
               CommitRefused, List, Remove, Purge, PurgeRefused, Fault, Fail,
               FailUnrecorded, Abort, queueVars, MarkProcessing, MarkCompleted,
               MarkFailed, Reschedule, GiveUp, Owned, Leased, WorkerTypeOK
    <2>3. ASSUME NEW w \in Worker, Renew(w) \/ WorkerCrash(w)
          PROVE  UNCHANGED state
        BY <2>3 DEF Renew, RenewLease, WorkerCrash, Crash, rowVars
    <2>4. CASE Pass \/ UNCHANGED pipelineVars
        BY <2>4 DEF Pass, Tick, pipelineVars, queueVars
    <2>5. ASSUME NEW j \in Job, RetryDocumentJob(j)
          PROVE  \A i \in Job : state[i] = "absent" => state'[i] = "absent"
        BY <2>5 DEF RetryDocumentJob, RetryJob, Parked
    <2>6. ASSUME NEW v \in Version, Withdraw(v) PROVE UNCHANGED state
        BY <2>6 DEF Withdraw, queueVars
    <2>7. QED
        BY <2>1, <2>2, <2>3, <2>4, <2>5, <2>6 DEF PipelineNext, MemberStep
<1>6. CASE \A j \in Job : state[j] = "absent" => state'[j] = "absent"
    <2> USE <1>6, JobShape
    <2>1. ASSUME NEW j, NEW s \in VersionStatus \ {"none"}, SetStatus(j, s),
                 UNCHANGED <<deleted, active, chunks, objects, raised>>
          PROVE  RowsAgree'
        BY <2>1, <1>4 DEF SetStatus
    <2>2. ASSUME NEW w \in Worker, Commit(w) PROVE RowsAgree'
        BY <2>2, <1>4 DEF Commit, Publish
    <2>3. ASSUME NEW w \in Worker, NEW v \in keys[w], Remove(w, v) PROVE RowsAgree'
        BY <2>3, <1>4 DEF Remove
    <2>4. ASSUME NEW w \in Worker, Purge(w) PROVE RowsAgree'
        BY <2>4, <1>4 DEF Purge
    <2>5. ASSUME NEW w \in Worker, Fail(w) PROVE RowsAgree'
        BY <2>5, <2>1 DEF Fail, FailureEffects, AfterFailure
    <2>6. CASE UNCHANGED docVars
        BY <2>6, <1>4 DEF docVars
    <2>7. ASSUME NEW v \in Version, Withdraw(v) PROVE RowsAgree'
        BY <2>7, <1>4 DEF Withdraw
    <2>8. QED
        BY QuietStep, <1>2, <1>3, <2>1, <2>2, <2>3, <2>4, <2>5, <2>6, <2>7
<1>7. QED
    BY <1>2, <1>3, <1>5, <1>6

\* Batches and current jobs refer to rows that exist, of the right kind.
LEMMA WorkersAgreeStep ==
    ASSUME DeletionInv, [PipelineNext]_pipelineVars
    PROVE  WorkersAgree'
<1> USE DEF DeletionInv, WorkersAgree, WorkerTypeOK, Stage
<1>1. \A j \in Job : state[j] # "absent" => state'[j] # "absent"
    BY QueueStep, StateStep DEF RowTypeOK
<1>2. CASE UNCHANGED workerVars
    BY <1>1, <1>2 DEF workerVars
<1>3. ASSUME NEW w \in Worker, NEW S \in SUBSET Job, Poll(w, S) PROVE WorkersAgree'
    BY <1>1, <1>3 DEF Poll, Goto, Claim
<1>4. ASSUME NEW w \in Worker, NEW j \in todo[w], Begin(w, j) PROVE WorkersAgree'
    BY <1>1, <1>4, JobShape DEF Begin, Goto
<1>5. ASSUME NEW w \in Worker, EndJob(w) \/ Raise(w) PROVE WorkersAgree'
    BY <1>1, <1>5 DEF EndJob, Raise, Goto
<1>6. ASSUME NEW w \in Worker, Load(w) \/ Fetch(w) \/ List(w) PROVE WorkersAgree'
    BY <1>1, <1>6 DEF Load, Fetch, List, Goto
<1>7. ASSUME NEW w \in Worker, NEW v \in keys[w], Remove(w, v) PROVE WorkersAgree'
    BY <1>1, <1>7 DEF Remove
<1>8. ASSUME NEW w \in Worker, WorkerCrash(w) PROVE WorkersAgree'
    BY <1>1, <1>8 DEF WorkerCrash
<1>9. ASSUME NEW w \in Worker, ProcessStep(w) PROVE WorkersAgree'
    <2>1. CASE \/ LoadRefused(w) \/ FetchMissing(w) \/ CommitRefused(w)
               \/ PurgeRefused(w) \/ Fault(w) \/ Commit(w) \/ Purge(w)
               \/ Fail(w) \/ FailUnrecorded(w)
        <3>1. EndJob(w) \/ Raise(w)
            BY <2>1 DEF LoadRefused, FetchMissing, CommitRefused, PurgeRefused, Fault,
                        Commit, Purge, Fail, FailUnrecorded, Abort, Finished
        <3>2. QED
            BY <3>1, <1>5
    <2>2. QED
        BY <1>4, <1>6, <1>7, <1>9, <2>1 DEF ProcessStep
<1>10. QED
    BY <1>2, <1>3, <1>8, <1>9 DEF PipelineNext, MemberStep, Upload, Withdraw,
       DeleteDocument, RetryDocumentJob, Renew, Pass, pipelineVars

\* No bytes appear for a document whose deletion is being carried out, and every
\* removal takes the key off the list together with the bytes.
LEMMA KeysCoverStep ==
    ASSUME DeletionInv, [PipelineNext]_pipelineVars
    PROVE  KeysCover'
<1> USE DEF DeletionInv, KeysCover, WorkerTypeOK, RowTypeOK, Stage
<1>1. ASSUME UNCHANGED workerVars, objects' \subseteq objects PROVE KeysCover'
    BY <1>1 DEF workerVars
<1>2. ASSUME NEW d \in Document, NEW n \in 1 .. MaxVersion, Upload(d, n)
      PROVE  KeysCover'
    <2>1. ASSUME NEW w \in Worker, pc[w] = "remove" PROVE job[w][1] # d
        BY <1>2, <2>1, JobShape DEF Upload, RowsAgree, WorkersAgree
    <2>2. QED
        BY <1>2, <2>1 DEF Upload, workerVars
<1>3. ASSUME NEW w \in Worker, UNCHANGED objects, UNCHANGED <<job, keys>>,
             \E stage \in Stage \ {"remove"} : Goto(w, stage)
      PROVE  KeysCover'
    BY <1>3 DEF Goto
<1>4. ASSUME NEW w \in Worker, UNCHANGED objects, EndJob(w) \/ Raise(w)
      PROVE  KeysCover'
    BY <1>4 DEF EndJob, Raise, Goto
<1>5. ASSUME NEW w \in Worker, List(w) PROVE KeysCover'
    <2>1. \A v \in objects : v[1] = job[w][1] => v \in DeletionKeys(job[w][1])
        BY <1>5, JobShape DEF List, RowsAgree, DeletionKeys, Uploaded, VersionsOf, Version
    <2>2. QED
        BY <1>5, <2>1 DEF List, Goto, docVars
<1>6. ASSUME NEW w \in Worker, NEW v \in keys[w], Remove(w, v) PROVE KeysCover'
    BY <1>6 DEF Remove
<1>7. ASSUME NEW w \in Worker, NEW j \in todo[w], Begin(w, j) PROVE KeysCover'
    BY <1>7 DEF Begin, Goto, docVars
<1>8. ASSUME NEW w \in Worker, WorkerCrash(w) PROVE KeysCover'
    BY <1>8 DEF WorkerCrash, docVars
<1>9. ASSUME NEW w \in Worker, NEW S \in SUBSET Job, Poll(w, S) PROVE KeysCover'
    BY <1>9, <1>3 DEF Poll, docVars
<1>10. ASSUME NEW w \in Worker, ProcessStep(w) PROVE KeysCover'
    <2>1. CASE \/ LoadRefused(w) \/ FetchMissing(w) \/ CommitRefused(w)
               \/ PurgeRefused(w) \/ Fault(w) \/ Commit(w) \/ Purge(w)
               \/ Fail(w) \/ FailUnrecorded(w)
        <3>1. UNCHANGED objects /\ (EndJob(w) \/ Raise(w))
            BY <2>1 DEF LoadRefused, FetchMissing, CommitRefused, PurgeRefused, Fault,
                        Commit, Publish, Purge, Fail, FailureEffects, FailUnrecorded,
                        Abort, Finished, docVars
        <3>2. QED
            BY <3>1, <1>4
    <2>2. CASE Load(w) \/ Fetch(w)
        BY <2>2, <1>3 DEF Load, Fetch, docVars
    <2>3. QED
        BY <1>5, <1>6, <1>7, <1>10, <2>1, <2>2 DEF ProcessStep
<1>11. QED
    BY <1>1, <1>2, <1>8, <1>9, <1>10 DEF PipelineNext, MemberStep, Withdraw, DeleteDocument,
       RetryDocumentJob, Renew, Pass, pipelineVars, docVars

\* Nothing of a document comes back once its deletion job is completed, and the
\* job completes only when nothing is left.
LEMMA DeletionStep ==
    ASSUME DeletionInv, [PipelineNext]_pipelineVars
    PROVE  DeletionLeavesNothing'
<1> USE DEF DeletionInv, DeletionLeavesNothing, RowTypeOK, WorkerTypeOK
<1> DEFINE Quiet == \A d \in Document : state'[DeleteJob(d)] = "completed"
                                          => state[DeleteJob(d)] = "completed"
<1>1. ASSUME Quiet, chunks' \subseteq chunks, objects' \subseteq objects
      PROVE  DeletionLeavesNothing'
    BY <1>1
<1>2. ASSUME NEW d \in Document, NEW n \in 1 .. MaxVersion, Upload(d, n)
      PROVE  DeletionLeavesNothing'
    BY <1>2, JobShape DEF Upload, Enqueue, RowsAgree, VersionsOf
<1>3. ASSUME NEW w \in Worker, Commit(w) PROVE DeletionLeavesNothing'
    <2>1. job[w] \in Version /\ state' = [state EXCEPT ![job[w]] = "completed"]
        BY <1>3 DEF Commit, WorkersAgree, MarkCompleted
    <2>2. Quiet
        BY <2>1, JobShape
    <2>3. state[DeleteJob(job[w][1])] = "absent"
        BY <1>3, <2>1, JobShape DEF Commit, RowsAgree
    <2>4. QED
        BY <1>3, <2>1, <2>2, <2>3, JobShape DEF Commit, Publish, VersionsOf
<1>4. ASSUME NEW w \in Worker, Purge(w) PROVE DeletionLeavesNothing'
    <2> DEFINE e == job[w][1]
    <2>1. /\ job[w] = DeleteJob(e)
          /\ e \in Document
          /\ state' = [state EXCEPT ![DeleteJob(e)] = "completed"]
        BY <1>4, JobShape DEF Purge, WorkersAgree, MarkCompleted
    <2>2. objects \cap VersionsOf(e) = {}
        BY <1>4 DEF Purge, KeysCover, VersionsOf
    <2>3. /\ chunks' = chunks \ VersionsOf(e)
          /\ objects' = objects
        BY <1>4 DEF Purge
    <2>4. ASSUME NEW d \in Document, d # e, state'[DeleteJob(d)] = "completed"
          PROVE  state[DeleteJob(d)] = "completed"
        BY <2>1, <2>4, JobShape
    <2> HIDE DEF e
    <2>5. QED
        BY <2>1, <2>2, <2>3, <2>4
<1>5. ASSUME NEW w \in Worker, ProcessStep(w), ~Commit(w), ~Purge(w)
      PROVE  Quiet /\ chunks' \subseteq chunks /\ objects' \subseteq objects
    <2>1. ASSUME NEW j \in Job,
                 MarkProcessing(w, j) \/ (\E r \in BOOLEAN : MarkFailed(w, j, r))
                    \/ UNCHANGED queueVars
          PROVE  Quiet
        BY <2>1, JobShape DEF MarkProcessing, MarkFailed, Reschedule, GiveUp, queueVars
    <2>2. ASSUME NEW j \in todo[w], Begin(w, j)
          PROVE  Quiet /\ UNCHANGED <<chunks, objects>>
        BY <2>1, <2>2 DEF Begin, docVars
    <2>3. CASE Fail(w)
        BY <2>1, <2>3 DEF Fail, FailureEffects, Stage
    <2>4. CASE \/ Load(w) \/ LoadRefused(w) \/ Fetch(w) \/ FetchMissing(w)
               \/ CommitRefused(w) \/ List(w) \/ PurgeRefused(w) \/ Fault(w)
               \/ FailUnrecorded(w) \/ \E v \in keys[w] : Remove(w, v)
        <3>1. UNCHANGED queueVars /\ chunks' \subseteq chunks /\ objects' \subseteq objects
            BY <2>4 DEF Load, LoadRefused, Fetch, FetchMissing, CommitRefused, List,
               PurgeRefused, Fault, FailUnrecorded, Remove, Abort, docVars
        <3>2. QED
            BY <3>1 DEF queueVars
    <2>5. QED
        BY <1>5, <2>2, <2>3, <2>4 DEF ProcessStep
<1>6. ASSUME \/ \E d \in Document : DeleteDocument(d)
             \/ \E v \in Version : Withdraw(v)
             \/ \E j \in Job : RetryDocumentJob(j)
             \/ \E w \in Worker : \/ \E S \in SUBSET Job : Poll(w, S)
                                  \/ Renew(w)
                                  \/ WorkerCrash(w)
             \/ Pass
             \/ UNCHANGED pipelineVars
      PROVE  Quiet /\ chunks' \subseteq chunks /\ objects' \subseteq objects
    BY <1>6, JobShape DEF DeleteDocument, Withdraw, Enqueue, RetryDocumentJob, RetryJob,
       Poll, Claim, Renew, RenewLease, WorkerCrash, Crash, rowVars, Pass, Tick, pipelineVars,
       queueVars, docVars
<1>7. QED
    BY <1>1, <1>2, <1>3, <1>4, <1>5, <1>6 DEF PipelineNext, MemberStep

\* When a deletion job is completed, no chunk and no object of its document is
\* left, and none ever comes back, whatever its processing jobs still do.
THEOREM DeletionCorrect == PipelineSpec => []DeletionLeavesNothing
<1>1. PipelineInit => DeletionInv
    BY WorkerTypeInit, JobShape
       DEF PipelineInit, QueueInit, DeletionInv, RowTypeOK, RowsAgree, WorkersAgree,
           KeysCover, DeletionLeavesNothing, JobState, VersionStatus
<1>2. DeletionInv /\ [PipelineNext]_pipelineVars => DeletionInv'
    BY WorkerTypeStep, RowTypeStep, RowsAgreeStep, WorkersAgreeStep, KeysCoverStep,
       DeletionStep
       DEF DeletionInv
<1>3. DeletionInv => DeletionLeavesNothing
    BY DEF DeletionInv
<1>4. QED
    BY <1>1, <1>2, <1>3, PTL DEF PipelineSpec

---------------------------------------------------------------------------
(* What members see. *)

\* A deletion job removes objects of its own document only.
KeysOwn ==
    \A w \in Worker : pc[w] = "remove" => \A v \in keys[w] : v[1] = job[w][1]

ServingInv == /\ DeletionInv
              /\ active \in [Document -> 0 .. MaxVersion]
              /\ StatusFollowsJob
              /\ ServedVersionSound
              /\ KeysOwn
              /\ LiveObjectsKept

\* Versions change their job's state and their status in the same transactions.
LEMMA StatusStep ==
    ASSUME DeletionInv, StatusFollowsJob, [PipelineNext]_pipelineVars
    PROVE  StatusFollowsJob'
<1> USE JobShape DEF DeletionInv, WorkerTypeOK, RowTypeOK, JobState, VersionStatus,
        StatusFollowsJob, Waiting, Leased, Parked
<1>1. ASSUME NEW d \in Document, NEW n \in 1 .. MaxVersion, Upload(d, n)
      PROVE  StatusFollowsJob'
    BY <1>1 DEF Upload, Enqueue, Version
<1>2. ASSUME NEW d \in Document, DeleteDocument(d) PROVE StatusFollowsJob'
    BY <1>2 DEF DeleteDocument, Enqueue
<1>3. ASSUME NEW j \in Job, RetryDocumentJob(j) PROVE StatusFollowsJob'
    BY <1>3 DEF RetryDocumentJob, RetryJob, docVars
<1>4. ASSUME NEW w \in Worker, NEW S \in SUBSET Job, Poll(w, S) PROVE StatusFollowsJob'
    BY <1>4 DEF Poll, Claim, Claimable, Due, Expired, docVars
<1>5. ASSUME NEW w \in Worker, Renew(w) \/ WorkerCrash(w) PROVE StatusFollowsJob'
    BY <1>5 DEF Renew, RenewLease, WorkerCrash, Crash, rowVars, docVars
<1>6. CASE Pass \/ UNCHANGED pipelineVars
    BY <1>6 DEF Pass, Tick, pipelineVars, queueVars, docVars
<1>7. ASSUME NEW w \in Worker, ProcessStep(w) PROVE StatusFollowsJob'
    <2>1. CASE UNCHANGED <<state, vstatus>>
        BY <2>1
    <2>2. ASSUME NEW j \in todo[w], Begin(w, j) PROVE StatusFollowsJob'
        BY <2>1, <2>2 DEF Begin, MarkProcessing, Owned, SetStatus, docVars, queueVars
    <2>3. CASE Commit(w)
        BY <2>3 DEF Commit, Publish, MarkCompleted, Owned, WorkersAgree
    <2>4. CASE Purge(w)
        BY <2>4 DEF Purge, MarkCompleted, WorkersAgree
    <2>5. CASE Fail(w)
        BY <2>5 DEF Fail, FailureEffects, SetStatus, AfterFailure, MarkFailed,
                    Reschedule, GiveUp, Owned, Stage
    <2>6. QED
        BY <1>7, <2>1, <2>2, <2>3, <2>4, <2>5 DEF ProcessStep, Load, LoadRefused, Fetch,
           FetchMissing, CommitRefused, List, Remove, PurgeRefused, Fault,
           FailUnrecorded, Abort, docVars, queueVars
<1>8. ASSUME NEW v \in Version, Withdraw(v) PROVE StatusFollowsJob'
    BY <1>8 DEF Withdraw, queueVars
<1>9. QED
    BY <1>1, <1>2, <1>3, <1>4, <1>5, <1>6, <1>7, <1>8 DEF PipelineNext, MemberStep

\* A document whose objects or chunks are removed is deleted.
LEMMA RemovesDeleted ==
    ASSUME DeletionInv, NEW w \in Worker, pc[w] = "remove"
    PROVE  job[w][1] \in Document /\ deleted[job[w][1]]
BY JobShape DEF DeletionInv, WorkersAgree, RowsAgree, WorkerTypeOK

\* Publication and deletion are the only steps that move the pointer, and no step of a
\* job changes a version that was published before.
LEMMA ServingStep ==
    ASSUME ServingInv, [PipelineNext]_pipelineVars
    PROVE  /\ active' \in [Document -> 0 .. MaxVersion]
           /\ ServedVersionSound'
           /\ LiveObjectsKept'
<1> DEFINE Goal == /\ active' \in [Document -> 0 .. MaxVersion]
                   /\ ServedVersionSound'
                   /\ LiveObjectsKept'
<1> USE JobShape DEF ServingInv, DeletionInv, WorkerTypeOK, RowTypeOK, VersionStatus,
        ServedVersionSound, LiveObjectsKept, Uploaded
<1>0. WorkerTypeOK
    OBVIOUS
<1>a. \A d \in Document : \A n \in 1 .. MaxVersion :
          <<d, n>> \in VersionsOf(d) /\ <<d, n>> \in Version
    BY DEF VersionsOf, Version
<1>b. \A d \in Document : \A v \in VersionsOf(d) : v \in Version /\ v[1] = d
    BY DEF VersionsOf, Version
<1>1. ASSUME NEW d \in Document, NEW n \in 1 .. MaxVersion, Upload(d, n) PROVE Goal
    <2>1. vstatus[<<d, n>>] = "none"
        BY <1>1, <1>a DEF Upload, Enqueue, StatusFollowsJob
    <2>2. QED
        BY <1>1, <1>a, <1>b, <2>1 DEF Upload
<1>2. ASSUME NEW d \in Document, DeleteDocument(d) PROVE Goal
    BY <1>2, <1>a, <1>b DEF DeleteDocument
<1>3. ASSUME NEW j \in Job, NEW s \in {"queued", "processing", "failed"},
             SetStatus(j, s), j \in Version => vstatus[j] \notin {"none", "active"},
             UNCHANGED <<deleted, active, chunks, objects, raised>>
      PROVE  Goal
    BY <1>3, <1>a, <1>b DEF SetStatus
<1>4. ASSUME NEW w \in Worker, NEW j \in todo[w], MarkProcessing(w, j),
             SetStatus(j, "processing"), UNCHANGED <<deleted, active, chunks, objects, raised>>
      PROVE  Goal
    <2>1. j \in Version => vstatus[j] \notin {"none", "active"}
        BY <1>4 DEF MarkProcessing, Owned, Leased, StatusFollowsJob
    <2>2. QED
        BY <1>3, <1>4, <2>1
<1>5. ASSUME NEW w \in Worker, Commit(w) PROVE Goal
    <2>1. job[w] \in Version /\ vstatus[job[w]] # "none"
        BY <1>5 DEF Commit, WorkersAgree, MarkCompleted, Owned, Leased, StatusFollowsJob
    <2>2. PICK d \in Document, n \in 1 .. MaxVersion : job[w] = <<d, n>>
        BY <2>1 DEF Version
    <2>3. /\ ~deleted[d]
          /\ chunks' = chunks \cup {<<d, n>>}
          /\ vstatus' = [vstatus EXCEPT ![<<d, n>>] = "active"]
          /\ active' = [active EXCEPT ![d] = n]
          /\ UNCHANGED <<deleted, objects, raised>>
        BY <1>5, <2>2 DEF Commit, Publish
    <2>4. active' \in [Document -> 0 .. MaxVersion]
        BY <2>3
    <2>5. ServedVersionSound'
        BY <1>a, <1>b, <2>3
    <2>6. LiveObjectsKept'
        BY <1>b, <2>1, <2>2, <2>3
    <2>7. QED
        BY <2>4, <2>5, <2>6
<1>6. ASSUME NEW w \in Worker, NEW v \in keys[w], Remove(w, v) PROVE Goal
    <2>1. v[1] \in Document /\ deleted[v[1]]
        BY <1>6, RemovesDeleted DEF Remove, KeysOwn
    <2>2. QED
        BY <1>6, <1>a, <1>b, <2>1 DEF Remove
<1>7. ASSUME NEW w \in Worker, Purge(w) PROVE Goal
    BY <1>7, <1>a, <1>b, RemovesDeleted DEF Purge
<1>8. ASSUME NEW w \in Worker, Fail(w) PROVE Goal
    <2>1. job[w] \in Job /\ (job[w] \in Version => vstatus[job[w]] \notin {"none", "active"})
        BY <1>8 DEF Fail, Stage, MarkFailed, Reschedule, GiveUp, Owned, Leased,
                    StatusFollowsJob
    <2>2. QED
        BY <1>3, <1>8, <2>1 DEF Fail, FailureEffects, AfterFailure
<1>9. CASE UNCHANGED docVars
    BY <1>9 DEF docVars
<1>10. ASSUME NEW v \in Version, Withdraw(v) PROVE Goal
    BY <1>10, <1>a, <1>b DEF Withdraw
<1>11. QED
    BY <1>0, QuietStep, <1>1, <1>2, <1>4, <1>5, <1>6, <1>7, <1>8, <1>9, <1>10

\* The list of a deletion job is made of the versions of its own document.
LEMMA KeysOwnStep ==
    ASSUME DeletionInv, KeysOwn, [PipelineNext]_pipelineVars
    PROVE  KeysOwn'
<1> USE DEF DeletionInv, KeysOwn, WorkerTypeOK, RowTypeOK, Stage
<1>1. CASE UNCHANGED workerVars
    BY <1>1 DEF workerVars
<1>2. ASSUME NEW w \in Worker, EndJob(w) \/ Raise(w) PROVE KeysOwn'
    BY <1>2 DEF EndJob, Raise, Goto
<1>3. ASSUME NEW w \in Worker, List(w) PROVE KeysOwn'
    BY <1>3 DEF List, Goto, DeletionKeys, Uploaded, VersionsOf
<1>4. ASSUME NEW w \in Worker, NEW v \in keys[w], Remove(w, v) PROVE KeysOwn'
    BY <1>4 DEF Remove
<1>5. ASSUME NEW w \in Worker, NEW j \in todo[w], Begin(w, j) PROVE KeysOwn'
    BY <1>5 DEF Begin, Goto
<1>6. ASSUME NEW w \in Worker, Load(w) \/ Fetch(w) PROVE KeysOwn'
    BY <1>6 DEF Load, Fetch, Goto
<1>7. ASSUME NEW w \in Worker, WorkerCrash(w) PROVE KeysOwn'
    BY <1>7 DEF WorkerCrash
<1>8. ASSUME NEW w \in Worker, NEW S \in SUBSET Job, Poll(w, S) PROVE KeysOwn'
    BY <1>8 DEF Poll, Goto
<1>9. ASSUME NEW w \in Worker, ProcessStep(w) PROVE KeysOwn'
    <2>1. CASE EndJob(w) \/ Raise(w)
        BY <1>2, <2>1
    <2>2. CASE ~(EndJob(w) \/ Raise(w))
        BY <1>3, <1>4, <1>5, <1>6, <1>9, <2>2 DEF ProcessStep, LoadRefused,
           FetchMissing, CommitRefused, PurgeRefused, Fault, Commit, Purge, Fail,
           FailUnrecorded, Abort, Finished
    <2>3. QED
        BY <2>1, <2>2
<1>10. QED
    BY <1>1, <1>7, <1>8, <1>9 DEF PipelineNext, MemberStep, Upload, Withdraw,
       DeleteDocument, RetryDocumentJob, Renew, Pass, pipelineVars

\* The strengthened invariant of rows, index, store and workers is inductive.
THEOREM ServingInvCorrect == PipelineSpec => []ServingInv
<1>1. PipelineInit => ServingInv
    BY WorkerTypeInit, JobShape
       DEF PipelineInit, QueueInit, ServingInv, DeletionInv, RowTypeOK, RowsAgree,
           WorkersAgree, KeysCover, DeletionLeavesNothing, JobState, VersionStatus,
           StatusFollowsJob, ServedVersionSound, KeysOwn, LiveObjectsKept, Uploaded,
           VersionsOf, Version, Leased, Parked
<1>2. ServingInv /\ [PipelineNext]_pipelineVars => ServingInv'
    BY WorkerTypeStep, RowTypeStep, RowsAgreeStep, WorkersAgreeStep, KeysCoverStep,
       DeletionStep, StatusStep, ServingStep, KeysOwnStep
       DEF ServingInv, DeletionInv
<1>3. QED
    BY <1>1, <1>2, PTL DEF PipelineSpec

\* Job rows, document rows, index, store and worker programs keep their types.
THEOREM PipelineTypeCorrect == PipelineSpec => []PipelineTypeOK
<1>1. ServingInv /\ TypeOK => PipelineTypeOK
    BY DEF ServingInv, DeletionInv, WorkerTypeOK, RowTypeOK, PipelineTypeOK
<1>2. QED
    BY <1>1, ServingInvCorrect, PipelineIsQueue, TypeCorrect, PTL

\* The status members see is the one the job's state implies, whatever retries, reclaims,
\* failures and late commits do to the job.
THEOREM StatusFollowsJobCorrect == PipelineSpec => []StatusFollowsJob
BY ServingInvCorrect, PTL DEF ServingInv

\* The active version is complete, a deleted document serves nothing, and only deletion
\* leaves a document that was served without an active version.
THEOREM ServedVersionCorrect == PipelineSpec => []ServedVersionSound
BY ServingInvCorrect, PTL DEF ServingInv

\* The bytes of a live version whose upload was not answered with an error stay,
\* whatever happens to its job; those of any other may be withdrawn by its own request.
THEOREM LiveObjectsCorrect == PipelineSpec => []LiveObjectsKept
BY ServingInvCorrect, PTL DEF ServingInv

---------------------------------------------------------------------------
(* A stale worker publishes nothing. *)

\* As long as the row grants worker w the job, w has counted on the lease for at least
\* that long.
Backs(w, j) == Owned(w, j) => lease[j] <= trust[w][j]

\* Only its death makes a worker forget a lease it still has: whatever else happens to
\* the row happens to what its owner knows.
LEMMA BacksStep ==
    ASSUME TypeOK, [QueueWork]_queueVars, NEW w \in Worker, NEW j \in Job, Backs(w, j)
    PROVE  Backs(w, j)'
<1> USE NoWorkerAssumption, TimingAssumption DEF TypeOK, Backs, Owned, Leased, NoLease
<1>1. ASSUME NEW i \in Job, Enqueue(i) \/ RetryJob(i) PROVE Backs(w, j)'
    BY <1>1 DEF Enqueue, RetryJob, ReleaseLease, Parked
<1>2. ASSUME NEW v \in Worker, NEW S \in SUBSET Job, Claim(v, S) PROVE Backs(w, j)'
    BY <1>2 DEF Claim
<1>3. ASSUME NEW v \in Worker, NEW i \in Job, MarkProcessing(v, i) PROVE Backs(w, j)'
    BY <1>3 DEF MarkProcessing
<1>4. ASSUME NEW v \in Worker, NEW i \in Job, RenewLease(v, i) PROVE Backs(w, j)'
    BY <1>4 DEF RenewLease, RenewedLease
<1>5. ASSUME NEW v \in Worker, NEW i \in Job, MarkCompleted(v, i) PROVE Backs(w, j)'
    BY <1>5 DEF MarkCompleted, ReleaseLease, Forget
<1>6. ASSUME NEW v \in Worker, NEW i \in Job, NEW r \in BOOLEAN, MarkFailed(v, i, r)
      PROVE  Backs(w, j)'
    BY <1>6 DEF MarkFailed, Reschedule, GiveUp, ReleaseLease, Forget
<1>7. CASE Tick
    BY <1>7 DEF Tick, Larger, Lapsed
<1>8. CASE UNCHANGED queueVars
    BY <1>8 DEF queueVars
<1>9. QED
    BY <1>1, <1>2, <1>3, <1>4, <1>5, <1>6, <1>7, <1>8 DEF QueueWork

\* A worker knows the lease of every job it has in hand.
HandBacked ==
    \A w \in Worker : \A j \in Job : j \in todo[w] \cup {job[w]} => Backs(w, j)

LEMMA HandBackedStep ==
    ASSUME TypeOK, WorkerTypeOK, HandBacked, [PipelineNext]_pipelineVars
    PROVE  HandBacked'
<1> SUFFICES ASSUME NEW w \in Worker, NEW j \in Job, j \in todo'[w] \cup {job'[w]}
             PROVE  Backs(w, j)'
    BY DEF HandBacked
<1>1. CASE WorkerCrash(w)
    BY <1>1 DEF WorkerCrash, WorkerTypeOK
<1>2. ASSUME NEW v \in Worker, v # w, WorkerCrash(v) PROVE Backs(w, j)'
    <2>1. j \in todo[w] \cup {job[w]}
        BY <1>2 DEF WorkerCrash, WorkerTypeOK
    <2>2. UNCHANGED <<state, owner, lease>> /\ trust'[w] = trust[w]
        BY <1>2 DEF WorkerCrash, Crash, rowVars, TypeOK
    <2>3. QED
        BY <2>1, <2>2 DEF HandBacked, Backs, Owned
<1>3. ASSUME NEW S \in SUBSET Job, Poll(w, S) PROVE Backs(w, j)'
    <2>1. CASE j \in S
        BY <1>3, <2>1, TimingAssumption DEF Poll, Claim, Backs, Owned, TypeOK
    <2>2. CASE j \notin S
        BY <1>3, <2>2 DEF Poll, Claim, Backs, Owned, TypeOK, WorkerTypeOK, HandBacked
    <2>3. QED
        BY <2>1, <2>2
<1>4. CASE /\ ~ \E v \in Worker : WorkerCrash(v)
           /\ ~ \E S \in SUBSET Job : Poll(w, S)
    <2>1. j \in todo[w] \cup {job[w]}
        <3>1. ASSUME NEW v \in Worker, ProcessStep(v) PROVE j \in todo[w] \cup {job[w]}
            <4>1. CASE EndJob(v) \/ Raise(v)
                BY <4>1, PipelineAssumption DEF EndJob, Raise, WorkerTypeOK
            <4>2. CASE \E i \in todo[v] : Begin(v, i)
                BY <4>2 DEF Begin, WorkerTypeOK
            <4>3. CASE Load(v) \/ Fetch(v) \/ List(v) \/ \E x \in keys[v] : Remove(v, x)
                BY <4>3 DEF Load, Fetch, List, Remove
            <4>4. QED
                BY <3>1, <4>1, <4>2, <4>3 DEF ProcessStep, LoadRefused, FetchMissing,
                   CommitRefused, PurgeRefused, Fault, Commit, Purge, Fail,
                   FailUnrecorded, Abort, Finished
        <3>2. ASSUME NEW v \in Worker, v # w, NEW S \in SUBSET Job, Poll(v, S)
              PROVE  j \in todo[w] \cup {job[w]}
            BY <3>2 DEF Poll, WorkerTypeOK
        <3>3. QED
            BY <1>4, <3>1, <3>2 DEF PipelineNext, MemberStep, Upload, Withdraw,
               DeleteDocument, RetryDocumentJob, Renew, Pass, pipelineVars, workerVars
    <2>2. [QueueWork]_queueVars
        BY <1>4, QueueWorkStep
    <2>3. QED
        BY <2>1, <2>2, BacksStep DEF HandBacked
<1>5. QED
    BY <1>1, <1>2, <1>3, <1>4

\* Chunks and pointers change only in the last transaction of a job, which its own
\* worker runs while it still counts on the lease.
LEMMA PublishStep ==
    ASSUME TypeOK, ServingInv, HandBacked, PipelineNext
    PROVE  PublishNeedsTrust
<1> USE JobShape DEF ServingInv, DeletionInv, WorkerTypeOK, RowTypeOK
<1>0. WorkerTypeOK /\ [PipelineNext]_pipelineVars
    OBVIOUS
<1>1. ASSUME NEW w \in Worker, job[w] \in Job, MarkCompleted(w, job[w])
      PROVE  trust[w][job[w]] > 0
    BY <1>1 DEF MarkCompleted, Owned, HandBacked, Backs, TypeOK, NoLease
<1>2. ASSUME NEW w \in Worker, Commit(w) PROVE PublishNeedsTrust
    <2>1. job[w] \in Version /\ trust[w][job[w]] > 0
        BY <1>1, <1>2 DEF Commit, WorkersAgree
    <2>2. /\ chunks' = chunks \cup {job[w]}
          /\ active' = [active EXCEPT ![job[w][1]] = job[w][2]]
        BY <1>2 DEF Commit, Publish
    <2>3. \A v \in Version : v[2] = active'[v[1]] /\ active[v[1]] # v[2] => v = job[w]
        BY <2>1, <2>2 DEF Version
    <2>4. QED
        BY <2>1, <2>2, <2>3 DEF PublishNeedsTrust
<1>3. ASSUME NEW w \in Worker, Purge(w) PROVE PublishNeedsTrust
    <2>1. /\ job[w] = DeleteJob(job[w][1])
          /\ trust[w][job[w]] > 0
        BY <1>1, <1>3 DEF Purge, WorkersAgree, Stage
    <2>2. chunks' = chunks \ VersionsOf(job[w][1]) /\ active' = active
        BY <1>3 DEF Purge
    <2>3. \A v \in VersionsOf(job[w][1]) : v[1] = job[w][1]
        BY DEF VersionsOf
    <2>4. QED
        BY <2>1, <2>2, <2>3 DEF PublishNeedsTrust
<1>4. ASSUME NEW d \in Document, DeleteDocument(d) PROVE PublishNeedsTrust
    BY <1>4 DEF DeleteDocument, PublishNeedsTrust
<1>5. CASE UNCHANGED <<chunks, active>>
    BY <1>5 DEF PublishNeedsTrust
<1>6. QED
    BY <1>0, QuietStep, <1>2, <1>3, <1>4, <1>5
       DEF Upload, Withdraw, Remove, Fail, FailureEffects, docVars

\* A worker that let its lease run out neither publishes chunks, nor removes any, nor
\* moves the pointer of a document, even if nobody has taken the job over.
THEOREM OnlyHolderPublishesCorrect == PipelineSpec => OnlyHolderPublishes
<1>1. PipelineInit => HandBacked
    BY DEF PipelineInit, QueueInit, HandBacked, Backs, Owned, Leased
<1>2. /\ TypeOK /\ WorkerTypeOK /\ HandBacked
      /\ [PipelineNext]_pipelineVars
      => HandBacked'
    BY HandBackedStep
<1>3. ServingInv => WorkerTypeOK
    BY DEF ServingInv, DeletionInv
<1>4. TypeOK /\ ServingInv /\ HandBacked /\ [PipelineNext]_pipelineVars
      => [PublishNeedsTrust]_pipelineVars
    BY PublishStep
<1>5. QED
    BY <1>1, <1>2, <1>3, <1>4, ServingInvCorrect, PipelineIsQueue, TypeCorrect, PTL
       DEF PipelineSpec, OnlyHolderPublishes
=============================================================================
