\* Progress of one version and its deletion with two fair workers.
SPECIFICATION FairPipelineSpec
CONSTANTS
    Worker = {w1, w2}
    Document = {d1}
    MaxVersion = 1
    MaxDeletable = 1
    MaxRaised = 0
    Job <- MCJob
    NoWorker = NoWorker
    NoJob = NoJob
    LeaseTime = 1
    MaxBackoff = 1
    BatchSize = 1
    MaxAttempts = 2
    AttemptCap = 3
PROPERTIES VersionsSettle DeletionsSettle
