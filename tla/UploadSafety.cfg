\* Three requests: documents are created under any key, uploads to one of them have any
\* key and content, and the quota is reached.  The system stops when every request has
\* ended.
SPECIFICATION UploadSpec
CONSTANTS
    Request = {r1, r2, r3}
    Document = {d1, d2}
    Content = {c1, c2, c3}
    Key = {k1, k2, k3}
    Input <- MixedInputs
    Quota = 2
    MaxNumber = 3
    MaxStale = 1
    Faults = {"death"}
    Nobody = Nobody
    NoRow = NoRow
    NoInput = NoInput
SYMMETRY Symmetry
CHECK_DEADLOCK FALSE
INVARIANTS UploadTypeOK OneVersionPerKey ConflictJustified FailedLeavesNothing
PROPERTIES ImplementsContract
