\* Two devices of the sender, calls may fail. Functions end, so the system may stop.
SPECIFICATION FlowSpec
CONSTANTS
    alice = alice
    bob = bob
    carol = carol
    dev1 = dev1
    dev2 = dev2
    dev3 = dev3
    Accounts = {alice, bob}
    Reps = {r1, r2}
    Rep0 = r1
    NoLink = NoLink
    Sessions = {dev1, dev2, dev3}
    Lanes = {l1}
    Owner <- Shared
    Opening <- Funds
    Amounts <- Two
    Payees = {bob}
    Collectors = {dev3}
    TransactionTypes = {"send", "receive"}
    WorkTypes = {"send", "receive"}
    MaxHeight = 4
    ChangeBelow = 2
    MaxOrders = 2
    MaxLate = 4
    Role <- Roles
    Payee = bob
    Amount = 2
    MayFail = TRUE
PROPERTY
    EveryFlowEnds
CHECK_DEADLOCK FALSE
