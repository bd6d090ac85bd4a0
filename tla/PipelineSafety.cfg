\* Two workers process two versions of a document that fail, are retried and overtake
\* each other; while it has one version the document may be deleted, and one worker
\* may have claimed both jobs in one batch.
SPECIFICATION PipelineSpec
CONSTANTS
    Worker = {w1, w2}
    Document = {d1}
    MaxVersion = 2
    MaxDeletable = 1
    MaxRaised = 2
    Job <- MCJob
    NoWorker = NoWorker
    NoJob = NoJob
    LeaseTime = 1
    MaxBackoff = 1
    BatchSize = 2
    MaxAttempts = 2
    AttemptCap = 3
SYMMETRY Symmetry
INVARIANTS PipelineTypeOK StatusFollowsJob ServedVersionSound DeletionLeavesNothing LiveObjectsKept
PROPERTIES OnlyHolderPublishes
