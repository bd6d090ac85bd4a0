\* Two requests at a time, any number one after the other.
SPECIFICATION AccessSpec
CONSTANTS
    Request = {r1, r2}
    u1 = u1
    u2 = u2
    u3 = u3
    w1 = w1
    w2 = w2
    d1 = d1
    User = {u1, u2, u3}
    Workspace = {w1, w2}
    Document = {d1}
    Home <- MCHome
    Founding <- MCFounding
    MaxMember = 4
    MaxVersion = 2
    None = None
SYMMETRY Symmetry
INVARIANTS AccessTypeOK OwnerStays EvidenceJustified
PROPERTIES ChangesJustified
