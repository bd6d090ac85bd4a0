\* Two uploads that fit only one at a time.
SPECIFICATION UploadSpec
CONSTANTS
    Request = {r1, r2}
    Document = {d1, d2}
    Content = {c1, c2}
    Key = {k1, k2}
    Input <- AnyInput
    Quota = 1
    MaxNumber = 2
    MaxStale = 1
    Faults = {}
    Nobody = Nobody
    NoRow = NoRow
    NoInput = NoInput
CHECK_DEADLOCK FALSE
INVARIANT WithinQuota
