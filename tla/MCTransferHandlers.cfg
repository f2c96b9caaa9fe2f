\* One device that starts calls without waiting for the earlier ones, and pays itself.
SPECIFICATION Spec
CONSTANTS
    alice = alice
    bob = bob
    dev1 = dev1
    dev2 = dev2
    l1 = l1
    l2 = l2
    Accounts = {alice}
    Reps = {r1}
    Rep0 = r1
    NoLink = NoLink
    Sessions = {dev1}
    Lanes = {l1, l2}
    Owner <- OneDevice
    Opening <- OneAccount
    Amounts <- Ones
    Payees = {alice}
    Collectors = {dev1}
    TransactionTypes = {"send", "receive"}
    WorkTypes = {"send"}
    MaxHeight = 3
    ChangeBelow = 3
    MaxOrders = 1
    MaxLate = 1
INVARIANTS
    TypeOK
    SnapshotsConsistent
    BlocksAsAsked
PROPERTY
    ImplementsPayments
SYMMETRY LaneSymmetry
