----------------------------- MODULE JobQueue -----------------------------
(***************************************************************************)
(* The durable job table and the functions of packages/jobs/service.py     *)
(* that change it.  Each action is one committed database transaction: the *)
(* row lock (FOR UPDATE) every function takes makes it atomic.  A call     *)
(* that raises ConflictError rolls back and is therefore a stuttering      *)
(* step.  Any worker may call any function on any job at any time, so what *)
(* holds here holds for every worker program; DocumentPipeline restricts   *)
(* the callers to the program in apps/worker/main.py.                      *)
(*                                                                         *)
(* Time is measured in ticks and kept as what is left: lease_expires_at    *)
(* and available_at are countdowns that Tick decrements.  The code         *)
(* compares strictly on both sides of the expiry instant: the owner needs  *)
(* lease_expires_at > now (lease > 0) and a claimer lease_expires_at < now *)
(* (lease < 0), so a job whose lease is exactly 0 belongs to nobody.       *)
(***************************************************************************)
EXTENDS Integers, FiniteSets

CONSTANTS
    Worker,        \* worker identities
    Job,           \* the jobs that may ever be enqueued
    NoWorker,      \* lease_owner is NULL
    LeaseTime,     \* settings.job_lease_seconds, in ticks
    MaxBackoff,    \* the cap of the exponential backoff (300 seconds), in ticks
    BatchSize,     \* settings.job_batch_size
    MaxAttempts,   \* job.max_attempts
    AttemptCap     \* bound: attempt_count is counted exactly up to this value

ASSUME NoWorkerAssumption == NoWorker \notin Worker
ASSUME TimingAssumption == /\ LeaseTime \in Nat \ {0}
                           /\ MaxBackoff \in Nat \ {0}
ASSUME BatchAssumption == BatchSize \in Nat \ {0}
ASSUME AttemptAssumption == /\ MaxAttempts \in Nat \ {0}
                            /\ AttemptCap \in Nat
                            /\ AttemptCap > MaxAttempts

VARIABLES
    state,      \* state[j]: the row's state, or "absent" before the row exists
    owner,      \* owner[j]: lease_owner
    lease,      \* lease[j]: ticks until lease_expires_at
    wait,       \* wait[j]: ticks until available_at
    attempts,   \* attempts[j]: attempt_count
    trust       \* observer: trust[w][j] is how long w may still take j for its own

rowVars == <<state, owner, lease, wait, attempts>>
queueVars == <<state, owner, lease, wait, attempts, trust>>

Lapsed == -1     \* lease_expires_at < now
NoLease == -2    \* lease_expires_at is NULL
MaxDelay == MaxBackoff + (MaxBackoff \div 2)

Waiting == {"queued", "retrying"}
Leased == {"leased", "processing"}
Parked == {"failed", "dead_letter"}
JobState == {"absent", "completed"} \cup Waiting \cup Leased \cup Parked

Smaller(a, b) == IF a <= b THEN a ELSE b
Larger(a, b) == IF a <= b THEN b ELSE a

QueueInit ==
    /\ state = [j \in Job |-> "absent"]
    /\ owner = [j \in Job |-> NoWorker]
    /\ lease = [j \in Job |-> NoLease]
    /\ wait = [j \in Job |-> 0]
    /\ attempts = [j \in Job |-> 0]
    /\ trust = [w \in Worker |-> [j \in Job |-> 0]]

---------------------------------------------------------------------------
(* Conditions of the code. *)

\* The definitions whose name ends in Mutant are plausible defects of the
\* definition that follows them; each run is known to reject them.
DueMutant(j) == state[j] = "queued" /\ wait[j] = 0
ExpiredMutant(j) == state[j] \in Leased /\ lease[j] # NoLease

\* The `due' and `expired' clauses of the claim query.
Due(j) == state[j] \in Waiting /\ wait[j] = 0
Expired(j) == state[j] \in Leased /\ lease[j] = Lapsed
ClaimableMutant(j) == Due(j)
Claimable(j) == Due(j) \/ Expired(j)

OwnedExpiryMutant(w, j) == owner[j] = w /\ state[j] \in Leased
OwnedOwnerMutant(w, j) == state[j] \in Leased /\ lease[j] > 0

\* require_owned_job returns the row instead of raising.
Owned(w, j) == /\ owner[j] = w
               /\ state[j] \in Leased
               /\ lease[j] > 0

\* What mark_failed may add to the clock: a capped power of two and a jitter of
\* up to half of it.
RetryDelays(n) ==
    {d \in 0 .. MaxDelay :
        \E base \in 1 .. MaxBackoff, jitter \in 0 .. MaxBackoff :
            /\ base = Smaller(MaxBackoff, 2 ^ Larger(0, n - 1))
            /\ jitter <= base \div 2
            /\ d = base + jitter}

\* lease_owner and lease_expires_at are set to NULL.
ReleaseLease(j) ==
    /\ owner' = [owner EXCEPT ![j] = NoWorker]
    /\ lease' = [lease EXCEPT ![j] = NoLease]

\* The worker no longer works on the job.
Forget(w, j) == trust' = [trust EXCEPT ![w][j] = 0]

---------------------------------------------------------------------------
(* Operations. *)

\* An upload or a document deletion inserts the row.
Enqueue(j) ==
    /\ state[j] = "absent"
    /\ state' = [state EXCEPT ![j] = "queued"]
    /\ wait' = [wait EXCEPT ![j] = 0]
    /\ attempts' = [attempts EXCEPT ![j] = 0]
    /\ UNCHANGED <<owner, lease, trust>>

\* claim_jobs: worker w takes the batch S.  Rows locked by another transaction
\* are skipped, so S need not be the oldest claimable rows.
Claim(w, S) ==
    /\ S # {}
    /\ Cardinality(S) <= BatchSize
    /\ \A j \in S : Claimable(j)
    /\ state' = [j \in Job |-> IF j \in S THEN "leased" ELSE state[j]]
    /\ owner' = [j \in Job |-> IF j \in S THEN w ELSE owner[j]]
    /\ lease' = [j \in Job |-> IF j \in S THEN LeaseTime ELSE lease[j]]
    /\ attempts' = [j \in Job |-> IF j \in S
                                  THEN Smaller(attempts[j] + 1, AttemptCap)
                                  ELSE attempts[j]]
    /\ trust' = [trust EXCEPT ![w] = [j \in Job |-> IF j \in S THEN LeaseTime
                                                    ELSE trust[w][j]]]
    /\ UNCHANGED wait

MarkProcessing(w, j) ==
    /\ Owned(w, j)
    /\ state' = [state EXCEPT ![j] = "processing"]
    /\ UNCHANGED <<owner, lease, wait, attempts, trust>>

RenewedLeaseMutant(j) == lease[j] + LeaseTime   \* extends the old expiry
RenewedLease(j) == LeaseTime

RenewLease(w, j) ==
    /\ Owned(w, j)
    /\ lease' = [lease EXCEPT ![j] = RenewedLease(j)]
    /\ trust' = [trust EXCEPT ![w][j] = LeaseTime]
    /\ UNCHANGED <<state, owner, wait, attempts>>

MarkCompleted(w, j) ==
    /\ Owned(w, j)
    /\ state' = [state EXCEPT ![j] = "completed"]
    /\ ReleaseLease(j)
    /\ Forget(w, j)
    /\ UNCHANGED <<wait, attempts>>

\* The two outcomes of mark_failed.
AttemptsLeftMutant(j) == attempts[j] <= MaxAttempts
AttemptsLeft(j) == attempts[j] < MaxAttempts

Reschedule(w, j, d) ==
    /\ Owned(w, j)
    /\ AttemptsLeft(j)
    /\ d \in RetryDelays(attempts[j])
    /\ state' = [state EXCEPT ![j] = "retrying"]
    /\ wait' = [wait EXCEPT ![j] = d]
    /\ ReleaseLease(j)
    /\ Forget(w, j)
    /\ UNCHANGED attempts

GiveUp(w, j, retryable) ==
    /\ Owned(w, j)
    /\ ~(retryable /\ AttemptsLeft(j))
    /\ state' = [state EXCEPT ![j] = IF attempts[j] >= MaxAttempts
                                     THEN "dead_letter" ELSE "failed"]
    /\ ReleaseLease(j)
    /\ Forget(w, j)
    /\ UNCHANGED <<wait, attempts>>

MarkFailed(w, j, retryable) ==
    \/ retryable /\ \E d \in RetryDelays(attempts[j]) : Reschedule(w, j, d)
    \/ GiveUp(w, j, retryable)

\* retry_job, called by a member of the workspace.
RetryJob(j) ==
    /\ state[j] \in Parked
    /\ state' = [state EXCEPT ![j] = "retrying"]
    /\ wait' = [wait EXCEPT ![j] = 0]
    /\ attempts' = [attempts EXCEPT ![j] = 0]
    /\ ReleaseLease(j)
    /\ UNCHANGED trust

\* One unit of time passes for every row and every worker.
Tick ==
    /\ lease' = [j \in Job |-> IF lease[j] >= 0 THEN lease[j] - 1 ELSE lease[j]]
    /\ wait' = [j \in Job |-> Larger(0, wait[j] - 1)]
    /\ trust' = [w \in Worker |-> [j \in Job |-> Larger(0, trust[w][j] - 1)]]
    /\ UNCHANGED <<state, owner, attempts>>

\* A worker process dies: what it knew is gone, the rows stay.
Crash(w) ==
    /\ trust' = [trust EXCEPT ![w] = [j \in Job |-> 0]]
    /\ UNCHANGED rowVars

Next ==
    \/ \E j \in Job : Enqueue(j) \/ RetryJob(j)
    \/ \E w \in Worker, S \in SUBSET Job : Claim(w, S)
    \/ \E w \in Worker, j \in Job :
          \/ MarkProcessing(w, j)
          \/ RenewLease(w, j)
          \/ MarkCompleted(w, j)
          \/ \E retryable \in BOOLEAN : MarkFailed(w, j, retryable)
    \/ \E w \in Worker : Crash(w)
    \/ Tick

Spec == QueueInit /\ [][Next]_queueVars

\* A worker polls often enough to take a job that stays claimable, because the
\* query orders by available_at and each claimed job leaves the front; and the
\* clock never stops.
QueueFairness ==
    /\ WF_queueVars(Tick)
    /\ \A j \in Job :
          WF_queueVars(\E w \in Worker, S \in SUBSET Job : j \in S /\ Claim(w, S))

FairSpec == Spec /\ QueueFairness

---------------------------------------------------------------------------
(* Correctness. *)

\* The rows and the workers' knowledge keep their types.
TypeOK ==
    /\ state \in [Job -> JobState]
    /\ owner \in [Job -> Worker \cup {NoWorker}]
    /\ lease \in [Job -> NoLease .. LeaseTime]
    /\ wait \in [Job -> 0 .. MaxDelay]
    /\ attempts \in [Job -> 0 .. AttemptCap]
    /\ trust \in [Worker -> [Job -> 0 .. LeaseTime]]

\* lease_owner and lease_expires_at are set together, and exactly while the job
\* is leased or processing: a row that broke this would never match the claim
\* query again (or would be claimed twice).
LeaseRecord ==
    \A j \in Job : /\ state[j] \in Leased <=> owner[j] # NoWorker
                   /\ state[j] \in Leased <=> lease[j] # NoLease

\* A worker that counts the seconds since its claim or last renewal never trusts
\* a lease the row no longer grants it: the row still names it, the job is not
\* finished, and the row's lease lasts at least as long.
TrustIsBacked ==
    \A w \in Worker, j \in Job :
        trust[w][j] > 0 => /\ owner[j] = w
                           /\ state[j] \in Leased
                           /\ trust[w][j] <= lease[j]

\* Two workers never hold the same job at once, from the claim or the last
\* renewal until the expiry they were given, however claims, renewals, failures,
\* retries, crashes and expiries interleave.
LeaseExclusion ==
    \A v, w \in Worker, j \in Job :
        trust[v][j] > 0 /\ trust[w][j] > 0 => v = w

\* The attempt counter and the state tell the same story: a job that waits has
\* an attempt left, a dead-lettered one has none, one that was ever claimed and
\* not retried by hand has used one.
AttemptLedger ==
    \A j \in Job :
        /\ state[j] \in Waiting => attempts[j] < MaxAttempts
        /\ state[j] = "dead_letter" => attempts[j] >= MaxAttempts
        /\ state[j] \in Leased \cup {"completed"} => attempts[j] >= 1

\* Only the reclaim of a lapsed lease starts an attempt beyond max_attempts: a
\* job that was queued or scheduled for a retry is never over its budget.  (A job that
\* keeps killing its workers is claimed without limit.)
OverrunNeedsLapse ==
    \A j \in Job :
        attempts'[j] > attempts[j] /\ attempts'[j] > MaxAttempts
            => state[j] \in Leased /\ lease[j] = Lapsed
OverrunOnlyByLapse == [][OverrunNeedsLapse]_queueVars

\* A lease whose holder crashed or let it run out is taken over, released or
\* renewed: no job stays with a worker that no longer works on it.
AbandonedLeaseRecovered ==
    \A j \in Job :
        (\E w \in Worker : owner[j] = w /\ trust[w][j] = 0)
            ~> (\/ owner[j] = NoWorker
                \/ \E w \in Worker : owner[j] = w /\ trust[w][j] > 0)

\* A job that is queued or retrying is eventually handed to a worker.
EveryWaitingJobClaimed ==
    \A j \in Job : state[j] \in Waiting ~> state[j] \in Leased

---------------------------------------------------------------------------
(* The lifecycle this queue implements. *)

PhaseOf(j) ==
    IF state[j] \in Leased /\ lease[j] > 0 THEN "held"
    ELSE IF state[j] \in Waiting \cup Leased THEN "open"
    ELSE IF state[j] \in Parked THEN "parked"
    ELSE IF state[j] = "completed" THEN "done"
    ELSE "absent"

PhaseBar == [j \in Job |-> PhaseOf(j)]
HolderBar == [j \in Job |-> IF PhaseOf(j) = "held" THEN owner[j] ELSE NoWorker]

Lifecycle == INSTANCE JobLifecycle WITH phase <- PhaseBar, holder <- HolderBar

\* The queue implements the lifecycle: only the worker whose lease is valid
\* finishes, postpones or parks a job, and a completed job is never reopened.
ImplementsLifecycle == Lifecycle!Spec
=============================================================================
