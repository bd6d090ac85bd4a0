-------------------------- MODULE JobQueue_proofs --------------------------
(***************************************************************************)
(* Proofs about JobQueue for every set of workers and jobs, every lease    *)
(* time, backoff cap, batch size and attempt maximum.  TypeOK and          *)
(* LeaseRecord are inductive together; TrustIsBacked needs them, and       *)
(* LeaseExclusion follows from TrustIsBacked because a row has one owner.  *)
(***************************************************************************)
EXTENDS JobQueue, TLAPS

USE NoWorkerAssumption, TimingAssumption, BatchAssumption, AttemptAssumption

\* The delay mark_failed adds is within the range the row's countdown has.
LEMMA RetryDelayBound ==
    ASSUME NEW n, NEW d \in RetryDelays(n)
    PROVE  d \in 0 .. MaxDelay
BY DEF RetryDelays

\* The initial table is well typed.
LEMMA InitType == QueueInit => TypeOK
BY DEF QueueInit, TypeOK, JobState, MaxDelay, NoLease

\* Every function of the job service keeps the columns in their types.
LEMMA TypeStep == TypeOK /\ [Next]_queueVars => TypeOK'
<1> SUFFICES ASSUME TypeOK, [Next]_queueVars
             PROVE  TypeOK'
    OBVIOUS
<1> USE DEF TypeOK, JobState, Waiting, Leased, Parked, NoLease, MaxDelay
<1>1. ASSUME NEW j \in Job, Enqueue(j) PROVE TypeOK'
    BY <1>1 DEF Enqueue
<1>2. ASSUME NEW j \in Job, RetryJob(j) PROVE TypeOK'
    BY <1>2 DEF RetryJob, ReleaseLease
<1>3. ASSUME NEW w \in Worker, NEW S \in SUBSET Job, Claim(w, S) PROVE TypeOK'
    BY <1>3 DEF Claim, Smaller
<1>4. ASSUME NEW w \in Worker, NEW j \in Job, MarkProcessing(w, j) PROVE TypeOK'
    BY <1>4 DEF MarkProcessing
<1>5. ASSUME NEW w \in Worker, NEW j \in Job, RenewLease(w, j) PROVE TypeOK'
    BY <1>5 DEF RenewLease, RenewedLease
<1>6. ASSUME NEW w \in Worker, NEW j \in Job, MarkCompleted(w, j) PROVE TypeOK'
    BY <1>6 DEF MarkCompleted, ReleaseLease, Forget
<1>7. ASSUME NEW w \in Worker, NEW j \in Job, NEW r \in BOOLEAN, MarkFailed(w, j, r)
      PROVE  TypeOK'
    <2>1. CASE GiveUp(w, j, r)
        BY <2>1 DEF GiveUp, ReleaseLease, Forget
    <2>2. ASSUME NEW d \in RetryDelays(attempts[j]), Reschedule(w, j, d) PROVE TypeOK'
        BY <2>2, RetryDelayBound DEF Reschedule, ReleaseLease, Forget
    <2>3. QED
        BY <1>7, <2>1, <2>2 DEF MarkFailed
<1>8. ASSUME NEW w \in Worker, Crash(w) PROVE TypeOK'
    BY <1>8 DEF Crash, rowVars
<1>9. CASE Tick
    BY <1>9 DEF Tick, Larger
<1>10. CASE UNCHANGED queueVars
    BY <1>10 DEF queueVars
<1>11. QED
    BY <1>1, <1>2, <1>3, <1>4, <1>5, <1>6, <1>7, <1>8, <1>9, <1>10 DEF Next

\* The columns of the job table and the workers' knowledge keep their types in
\* every behaviour of the queue.
THEOREM TypeCorrect == Spec => []TypeOK
<1>1. QED
    BY InitType, TypeStep, PTL DEF Spec

---------------------------------------------------------------------------
(* Leases. *)

\* lease_owner and lease_expires_at are set and cleared together by every
\* function of the job service.
LEMMA LeaseRecordStep ==
    TypeOK /\ LeaseRecord /\ [Next]_queueVars => LeaseRecord'
<1> SUFFICES ASSUME TypeOK, LeaseRecord, [Next]_queueVars
             PROVE  LeaseRecord'
    OBVIOUS
<1> USE DEF TypeOK, LeaseRecord, JobState, Waiting, Leased, Parked, NoLease
<1>1. ASSUME NEW j \in Job, Enqueue(j) PROVE LeaseRecord'
    BY <1>1 DEF Enqueue
<1>2. ASSUME NEW j \in Job, RetryJob(j) PROVE LeaseRecord'
    BY <1>2 DEF RetryJob, ReleaseLease
<1>3. ASSUME NEW w \in Worker, NEW S \in SUBSET Job, Claim(w, S) PROVE LeaseRecord'
    BY <1>3 DEF Claim
<1>4. ASSUME NEW w \in Worker, NEW j \in Job, MarkProcessing(w, j) PROVE LeaseRecord'
    BY <1>4 DEF MarkProcessing, Owned
<1>5. ASSUME NEW w \in Worker, NEW j \in Job, RenewLease(w, j) PROVE LeaseRecord'
    BY <1>5 DEF RenewLease, RenewedLease, Owned
<1>6. ASSUME NEW w \in Worker, NEW j \in Job, MarkCompleted(w, j) PROVE LeaseRecord'
    BY <1>6 DEF MarkCompleted, ReleaseLease
<1>7. ASSUME NEW w \in Worker, NEW j \in Job, NEW r \in BOOLEAN, MarkFailed(w, j, r)
      PROVE  LeaseRecord'
    <2>1. CASE GiveUp(w, j, r)
        BY <2>1 DEF GiveUp, ReleaseLease
    <2>2. ASSUME NEW d \in RetryDelays(attempts[j]), Reschedule(w, j, d)
          PROVE  LeaseRecord'
        BY <2>2 DEF Reschedule, ReleaseLease
    <2>3. QED
        BY <1>7, <2>1, <2>2 DEF MarkFailed
<1>8. ASSUME NEW w \in Worker, Crash(w) PROVE LeaseRecord'
    BY <1>8 DEF Crash, rowVars
<1>9. CASE Tick
    BY <1>9 DEF Tick
<1>10. CASE UNCHANGED queueVars
    BY <1>10 DEF queueVars
<1>11. QED
    BY <1>1, <1>2, <1>3, <1>4, <1>5, <1>6, <1>7, <1>8, <1>9, <1>10 DEF Next

\* A worker's trust stays backed by the row: only the expiry of the lease lets
\* another worker in, and by then the trust has run out too.
LEMMA TrustStep ==
    TypeOK /\ LeaseRecord /\ TrustIsBacked /\ [Next]_queueVars => TrustIsBacked'
<1> SUFFICES ASSUME TypeOK, LeaseRecord, TrustIsBacked, [Next]_queueVars
             PROVE  TrustIsBacked'
    OBVIOUS
<1> USE DEF TypeOK, TrustIsBacked, JobState, Waiting, Leased, Parked, NoLease
<1>1. ASSUME NEW j \in Job, Enqueue(j) PROVE TrustIsBacked'
    BY <1>1 DEF Enqueue
<1>2. ASSUME NEW j \in Job, RetryJob(j) PROVE TrustIsBacked'
    BY <1>2 DEF RetryJob, ReleaseLease
<1>3. ASSUME NEW w \in Worker, NEW S \in SUBSET Job, Claim(w, S) PROVE TrustIsBacked'
    BY <1>3 DEF Claim, Claimable, Due, Expired, Lapsed
<1>4. ASSUME NEW w \in Worker, NEW j \in Job, MarkProcessing(w, j) PROVE TrustIsBacked'
    BY <1>4 DEF MarkProcessing, Owned
<1>5. ASSUME NEW w \in Worker, NEW j \in Job, RenewLease(w, j) PROVE TrustIsBacked'
    BY <1>5 DEF RenewLease, RenewedLease, Owned
<1>6. ASSUME NEW w \in Worker, NEW j \in Job, MarkCompleted(w, j) PROVE TrustIsBacked'
    BY <1>6 DEF MarkCompleted, ReleaseLease, Forget, Owned
<1>7. ASSUME NEW w \in Worker, NEW j \in Job, NEW r \in BOOLEAN, MarkFailed(w, j, r)
      PROVE  TrustIsBacked'
    <2>1. CASE GiveUp(w, j, r)
        BY <2>1 DEF GiveUp, ReleaseLease, Forget, Owned
    <2>2. ASSUME NEW d \in RetryDelays(attempts[j]), Reschedule(w, j, d)
          PROVE  TrustIsBacked'
        BY <2>2 DEF Reschedule, ReleaseLease, Forget, Owned
    <2>3. QED
        BY <1>7, <2>1, <2>2 DEF MarkFailed
<1>8. ASSUME NEW w \in Worker, Crash(w) PROVE TrustIsBacked'
    BY <1>8 DEF Crash, rowVars
<1>9. CASE Tick
    BY <1>9 DEF Tick, Larger
<1>10. CASE UNCHANGED queueVars
    BY <1>10 DEF queueVars
<1>11. QED
    BY <1>1, <1>2, <1>3, <1>4, <1>5, <1>6, <1>7, <1>8, <1>9, <1>10 DEF Next

\* Two trusts in one job would both name the row's single owner.
LEMMA TrustExcludes == TrustIsBacked => LeaseExclusion
BY DEF TrustIsBacked, LeaseExclusion

---------------------------------------------------------------------------
(* Attempts. *)

\* attempt_count agrees with the state after every function: mark_failed
\* compares before it reschedules, claim_jobs counts, retry_job resets.
LEMMA AttemptStep ==
    TypeOK /\ AttemptLedger /\ [Next]_queueVars => AttemptLedger'
<1> SUFFICES ASSUME TypeOK, AttemptLedger, [Next]_queueVars
             PROVE  AttemptLedger'
    OBVIOUS
<1> USE DEF TypeOK, AttemptLedger, JobState, Waiting, Leased, Parked
<1>1. ASSUME NEW j \in Job, Enqueue(j) PROVE AttemptLedger'
    BY <1>1 DEF Enqueue
<1>2. ASSUME NEW j \in Job, RetryJob(j) PROVE AttemptLedger'
    BY <1>2 DEF RetryJob
<1>3. ASSUME NEW w \in Worker, NEW S \in SUBSET Job, Claim(w, S) PROVE AttemptLedger'
    BY <1>3 DEF Claim, Smaller
<1>4. ASSUME NEW w \in Worker, NEW j \in Job, MarkProcessing(w, j) PROVE AttemptLedger'
    BY <1>4 DEF MarkProcessing, Owned
<1>5. ASSUME NEW w \in Worker, NEW j \in Job, RenewLease(w, j) PROVE AttemptLedger'
    BY <1>5 DEF RenewLease, RenewedLease
<1>6. ASSUME NEW w \in Worker, NEW j \in Job, MarkCompleted(w, j) PROVE AttemptLedger'
    BY <1>6 DEF MarkCompleted, Owned
<1>7. ASSUME NEW w \in Worker, NEW j \in Job, NEW r \in BOOLEAN, MarkFailed(w, j, r)
      PROVE  AttemptLedger'
    <2>1. CASE GiveUp(w, j, r)
        BY <2>1 DEF GiveUp, AttemptsLeft
    <2>2. ASSUME NEW d \in RetryDelays(attempts[j]), Reschedule(w, j, d)
          PROVE  AttemptLedger'
        BY <2>2 DEF Reschedule, AttemptsLeft
    <2>3. QED
        BY <1>7, <2>1, <2>2 DEF MarkFailed
<1>8. ASSUME NEW w \in Worker, Crash(w) PROVE AttemptLedger'
    BY <1>8 DEF Crash, rowVars
<1>9. CASE Tick
    BY <1>9 DEF Tick
<1>10. CASE UNCHANGED queueVars
    BY <1>10 DEF queueVars
<1>11. QED
    BY <1>1, <1>2, <1>3, <1>4, <1>5, <1>6, <1>7, <1>8, <1>9, <1>10 DEF Next

---------------------------------------------------------------------------
(* The inductive invariant and what follows from it. *)

IInv == TypeOK /\ LeaseRecord /\ TrustIsBacked /\ AttemptLedger

\* The inductive invariant holds in every behaviour of the queue.
THEOREM InductiveInvariant == Spec => []IInv
<1>1. QueueInit => IInv
    BY InitType DEF QueueInit, IInv, LeaseRecord, TrustIsBacked, AttemptLedger,
                    Leased, Waiting
<1>2. IInv /\ [Next]_queueVars => IInv'
    BY TypeStep, LeaseRecordStep, TrustStep, AttemptStep DEF IInv
<1>3. QED
    BY <1>1, <1>2, PTL DEF Spec

\* Every leased or processing row has an owner and an expiry, and no other row
\* has: no job is lost to the claim query.
THEOREM LeaseRecordCorrect == Spec => []LeaseRecord
<1>1. IInv => LeaseRecord
    BY DEF IInv
<1>2. QED
    BY <1>1, InductiveInvariant, PTL

\* What a worker counts for itself never outlasts what the row grants it.
THEOREM TrustIsBackedCorrect == Spec => []TrustIsBacked
<1>1. IInv => TrustIsBacked
    BY DEF IInv
<1>2. QED
    BY <1>1, InductiveInvariant, PTL

\* No two workers hold a valid lease on the same job at the same time.
THEOREM LeaseExclusionCorrect == Spec => []LeaseExclusion
<1>1. IInv => LeaseExclusion
    BY TrustExcludes DEF IInv
<1>2. QED
    BY <1>1, InductiveInvariant, PTL

\* attempt_count and state agree in every reachable table.
THEOREM AttemptLedgerCorrect == Spec => []AttemptLedger
<1>1. IInv => AttemptLedger
    BY DEF IInv
<1>2. QED
    BY <1>1, InductiveInvariant, PTL

\* An attempt beyond max_attempts starts only where claim_jobs takes over a
\* lapsed lease.
THEOREM OverrunCorrect == Spec => OverrunOnlyByLapse
<1>1. IInv /\ [Next]_queueVars => [OverrunNeedsLapse]_queueVars
    <2> SUFFICES ASSUME IInv, Next PROVE OverrunNeedsLapse
        BY DEF queueVars
    <2> USE DEF IInv, TypeOK, AttemptLedger, OverrunNeedsLapse, Waiting, Leased
    <2>1. ASSUME NEW w \in Worker, NEW S \in SUBSET Job, Claim(w, S)
          PROVE  OverrunNeedsLapse
        BY <2>1 DEF Claim, Claimable, Due, Expired, Smaller
    <2>2. ASSUME \A j \in Job : attempts'[j] = attempts[j] \/ attempts'[j] = 0
          PROVE  OverrunNeedsLapse
        BY <2>2
    <2>3. CASE \E w \in Worker, S \in SUBSET Job : Claim(w, S)
        BY <2>1, <2>3
    <2>4. CASE ~ \E w \in Worker, S \in SUBSET Job : Claim(w, S)
        BY <2>2, <2>4 DEF Next, Enqueue, RetryJob, MarkProcessing, RenewLease,
               MarkCompleted, MarkFailed, Reschedule, GiveUp, Tick, Crash, rowVars
    <2>5. QED
        BY <2>3, <2>4
<1>2. QED
    BY <1>1, InductiveInvariant, PTL DEF Spec, OverrunOnlyByLapse

---------------------------------------------------------------------------
(* The queue implements JobLifecycle. *)

\* An unsubmitted table maps to an empty lifecycle.
LEMMA InitRefines == QueueInit => Lifecycle!Init
BY DEF QueueInit, Lifecycle!Init, PhaseBar, HolderBar, PhaseOf, Waiting, Leased, Parked

\* The leases that reach their expiry in the same tick lapse together.
LEMMA TickRefines ==
    ASSUME IInv, IInv', Tick
    PROVE  \E S \in SUBSET Job : Lifecycle!Lapse(S)
<1> DEFINE S == {j \in Job : state[j] \in Leased /\ lease[j] = 1}
<1>1. Lifecycle!Lapse(S)
    BY DEF IInv, TypeOK, LeaseRecord, JobState, Waiting, Leased, Parked, NoLease, Tick,
           PhaseBar, HolderBar, PhaseOf, Lifecycle!Move, Lifecycle!Lapse
<1>2. S \in SUBSET Job
    OBVIOUS
<1> HIDE DEF S
<1>3. QED
    BY <1>1, <1>2

\* Every step of the queue is a step of the lifecycle or leaves it unchanged.
LEMMA StepRefines ==
    IInv /\ IInv' /\ [Next]_queueVars => [Lifecycle!Next]_(Lifecycle!lvars)
<1> SUFFICES ASSUME IInv, IInv', [Next]_queueVars
             PROVE  Lifecycle!Next \/ UNCHANGED <<PhaseBar, HolderBar>>
    BY DEF Lifecycle!lvars
<1> USE DEF IInv, TypeOK, LeaseRecord, JobState, Waiting, Leased, Parked, NoLease,
            PhaseBar, HolderBar, PhaseOf, Lifecycle!Move
<1>1. ASSUME NEW j \in Job, Enqueue(j) PROVE Lifecycle!Submit(j)
    BY <1>1 DEF Enqueue, Lifecycle!Submit
<1>2. ASSUME NEW j \in Job, RetryJob(j) PROVE Lifecycle!Reopen(j)
    BY <1>2 DEF RetryJob, ReleaseLease, Lifecycle!Reopen
<1>3. ASSUME NEW w \in Worker, NEW S \in SUBSET Job, Claim(w, S)
      PROVE  Lifecycle!Assign(w, S)
    BY <1>3 DEF Claim, Claimable, Due, Expired, Lapsed, Lifecycle!Assign
<1>4. ASSUME NEW w \in Worker, NEW j \in Job, MarkProcessing(w, j)
      PROVE  UNCHANGED <<PhaseBar, HolderBar>>
    BY <1>4 DEF MarkProcessing, Owned
<1>5. ASSUME NEW w \in Worker, NEW j \in Job, RenewLease(w, j)
      PROVE  UNCHANGED <<PhaseBar, HolderBar>>
    BY <1>5 DEF RenewLease, RenewedLease, Owned
<1>6. ASSUME NEW w \in Worker, NEW j \in Job, MarkCompleted(w, j)
      PROVE  Lifecycle!Complete(w, j)
    BY <1>6 DEF MarkCompleted, Owned, ReleaseLease, Lifecycle!Complete
<1>7. ASSUME NEW w \in Worker, NEW j \in Job, NEW r \in BOOLEAN, MarkFailed(w, j, r)
      PROVE  Lifecycle!Park(w, j) \/ Lifecycle!Postpone(w, j)
    <2>1. CASE GiveUp(w, j, r)
        BY <2>1 DEF GiveUp, Owned, ReleaseLease, Lifecycle!Park
    <2>2. ASSUME NEW d \in RetryDelays(attempts[j]), Reschedule(w, j, d)
          PROVE  Lifecycle!Postpone(w, j)
        BY <2>2 DEF Reschedule, Owned, ReleaseLease, Lifecycle!Postpone
    <2>3. QED
        BY <1>7, <2>1, <2>2 DEF MarkFailed
<1>8. ASSUME NEW w \in Worker, Crash(w) PROVE UNCHANGED <<PhaseBar, HolderBar>>
    BY <1>8 DEF Crash, rowVars
<1>9. ASSUME Tick PROVE \E S \in SUBSET Job : Lifecycle!Lapse(S)
    BY <1>9, TickRefines
<1>10. CASE UNCHANGED queueVars
    BY <1>10 DEF queueVars
<1>11. QED
    BY <1>1, <1>2, <1>3, <1>4, <1>5, <1>6, <1>7, <1>8, <1>9, <1>10
       DEF Next, Lifecycle!Next

\* The job table and its functions implement the lifecycle: one holder at a
\* time, only the holder decides, a completed job stays completed.
THEOREM QueueImplementsLifecycle == Spec => ImplementsLifecycle
<1>1. QED
    BY InitRefines, StepRefines, InductiveInvariant, PTL
       DEF Spec, ImplementsLifecycle, Lifecycle!Spec
=============================================================================
