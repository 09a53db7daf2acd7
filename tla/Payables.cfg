SPECIFICATION Spec
CONSTANTS
    p1 = p1  p2 = p2
    a1 = a1  a2 = a2
    c1 = c1  c2 = c2
    None = None
    Payables = {p1, p2}
    MayBeEarly = {p2}
    Applications = {a1, a2}
    Amounts = {1, 2}
    Entered = {"PENDING", "CONFIRMED"}
    MaxVouchers = 1
    Calls = {c1, c2}
INVARIANTS
    TypeOK
    RowsFollowApplications
    AppliedAsAudited
    OrdinaryExposedWhenAudited
    SettledStayAudited
PROPERTIES
    SettledKeepAmount
    KeepsClaims
CONSTRAINT Small
SYMMETRY Symmetric
