\* Two workers and two jobs; a lease of two ticks has a renewable, an expiring
\* and a lapsed stage; the third attempt is the last, so the backoff doubles and
\* reaches its cap; attempt_count is exact up to one above the maximum.
SPECIFICATION FairSpec
CONSTANTS
    Worker = {w1, w2}
    Job = {j1, j2}
    NoWorker = NoWorker
    LeaseTime = 2
    MaxBackoff = 2
    BatchSize = 2
    MaxAttempts = 3
    AttemptCap = 4
INVARIANTS TypeOK TrustIsBacked LeaseExclusion AttemptLedger
PROPERTIES OverrunOnlyByLapse ImplementsLifecycle AbandonedLeaseRecovered EveryWaitingJobClaimed
