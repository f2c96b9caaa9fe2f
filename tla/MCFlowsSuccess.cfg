\* Two devices of the sender: publish without an error.
SPECIFICATION FlowSpec
CONSTANTS
    alice = alice
    bob = bob
    carol = carol
    dev1 = dev1
    dev2 = dev2
    dev3 = dev3
    Accounts = {alice, bob}
    Reps = {r1}
    Rep0 = r1
    NoLink = NoLink
    Sessions = {dev1, dev2}
    Lanes = {l1}
    Owner <- Double
    Opening <- Funds
    Amounts <- One
    Payees = {bob}
    Collectors = {dev3}
    TransactionTypes = {"send", "receive"}
    WorkTypes = {"send", "receive"}
    MaxHeight = 4
    ChangeBelow = 4
    MaxOrders = 2
    MaxLate = 4
    Role <- Roles
    Payee = bob
    Amount = 1
    MayFail = FALSE
INVARIANT
    DoneMeansPaid
CHECK_DEADLOCK FALSE
