\* One upload whose commit takes effect although it raises.
SPECIFICATION UploadSpec
CONSTANTS
    Request = {r1}
    Document = {d1}
    Content = {c1}
    Key = {k1}
    Input <- AnyInput
    Quota = 2
    MaxNumber = 2
    MaxStale = 1
    Faults = {"lost_ack", "lost_context"}
    Nobody = Nobody
    NoRow = NoRow
    NoInput = NoInput
CHECK_DEADLOCK FALSE
INVARIANT CommittedVersionHasObject
