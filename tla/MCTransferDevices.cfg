\* Two devices of one account, each awaiting its calls.
SPECIFICATION Spec
CONSTANTS
    alice = alice
    bob = bob
    dev1 = dev1
    dev2 = dev2
    l1 = l1
    l2 = l2
    Accounts = {alice, bob}
    Reps = {r1, r2}
    Rep0 = r1
    NoLink = NoLink
    Sessions = {dev1, dev2}
    Lanes = {l1}
    Owner <- TwoDevices
    Opening <- AliceOpen
    Amounts <- Signed
    Payees = {bob}
    Collectors = {}
    TransactionTypes = {"send"}
    WorkTypes = {"send"}
    MaxHeight = 3
    ChangeBelow = 3
    MaxOrders = 2
    MaxLate = 1
INVARIANTS
    SnapshotsConsistent
    BlocksAsAsked
    LedgerAsAsked
    PaidOnce
    OnePosition
PROPERTY
    InfoMonotone
SYMMETRY DeviceSymmetry
