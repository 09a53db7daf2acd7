SPECIFICATION Spec
CONSTANTS
    f1 = f1  h1 = h1  h2 = h2
    t1 = t1
    None = None
    Fees = {f1}
    Requests = {h1, h2}
    Settlements = {t1}
    Amounts = {1, 2}
INVARIANTS
    TypeOK
    HangBooks
    OrderCostsStand
    SettledAsAudited
CHECK_DEADLOCK FALSE
SYMMETRY Symmetric
