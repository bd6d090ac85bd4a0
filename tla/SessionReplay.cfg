\* The second page presents the token of the sign-in after the first page has
\* exchanged it, while the first page exchanges its new one.
SPECIFICATION BrowserSpec
CONSTANTS
    Request <- MCRequest
    MaxRequest = 4
    Page = {p1, p2}
    MaxSent <- MCSent
    MaxEvents = 4
    NoSession = NoSession
CHECK_DEADLOCK FALSE
PROPERTY EntireFamilyRevoked
