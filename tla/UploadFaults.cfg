\* Two documents, three racing uploads that may wait for each other in a chain, and every
\* fault, without symmetry.  The system stops when every request has ended.
SPECIFICATION FairUploadSpec
CONSTANTS
    Request <- AskedRequests
    Document = {"d1", "d2"}
    Content = {"c1", "c2", "c3"}
    Key = {"k1", "k2", "k3", "k4"}
    Input <- AskedInputs
    Quota = 5
    MaxNumber = 3
    MaxStale = 0
    Faults = {"death", "late_move", "lost_ack", "lost_context", "cleanup"}
    Nobody = Nobody
    NoRow = NoRow
    NoInput = NoInput
ACTION_CONSTRAINT ChainScript
CHECK_DEADLOCK FALSE
INVARIANT OneVersionPerKey
PROPERTY EveryRequestEnds
