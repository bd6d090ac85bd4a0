\* Two pages of a browser; five requests, or fewer with as many faults. Requests end and the
\* system stops.
SPECIFICATION FairBrowserSpec
CONSTANTS
    Request <- MCRequest
    MaxRequest = 5
    Page = {p1, p2}
    MaxSent <- MCSent
    MaxEvents = 5
    NoSession = NoSession
ACTION_CONSTRAINT HomeFirst
CHECK_DEADLOCK FALSE
INVARIANTS SessionTypeOK OneLiveSession ReuseHasCause
PROPERTIES DeadFamilyStaysDead LogoutEndsFamily ReuseStopsReplacement PromiseSettles
