SPECIFICATION Spec
CONSTANTS
    a1 = a1  a2 = a2  r1 = r1  r2 = r2  s1 = s1  s2 = s2
    f1 = f1  f2 = f2  q1 = q1  q2 = q2  m1 = m1  m2 = m2  p1 = p1  p2 = p2
    None = None
    Accounts = {a1}
    Receipts = {r1, r2}
    Shipments = {s1}
    Fees = {f1, f2}
    SystemFees = {f2}
    Requests = {q1, q2}
    Matches = {m1, m2}
    Payments = {}
    Legacy = {}
    ShipmentOf <- OneShipment
    Amounts = {1, 2}
    MaxInFlight = 0
INVARIANTS
    TypeOK
    ReceiptCapacity
    FeeCapacity
    ReceiptBooks
    ApprovedHasOneMatch
    PendingCanBeApproved
PROPERTIES
    ReversalReservesCapacity
    ClosedRowsStayClosed
    ReceiptsAreBudgets
    FeesAreBudgets
SYMMETRY Symmetric
