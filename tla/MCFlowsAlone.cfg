\* Two senders and a receiver that polls, one device per account, no failing call.
SPECIFICATION FlowPollingSpec
CONSTANTS
    alice = alice
    bob = bob
    carol = carol
    dev1 = dev1
    dev2 = dev2
    dev3 = dev3
    Accounts = {alice, bob, carol}
    Reps = {r1}
    Rep0 = r1
    NoLink = NoLink
    Sessions = {dev1, dev2, dev3}
    Lanes = {l1}
    Owner <- Crowd
    Opening <- Funds3
    Amounts <- One
    Payees = {bob}
    Collectors = {dev3}
    TransactionTypes = {"send", "receive"}
    WorkTypes = {"send", "receive"}
    MaxHeight = 4
    ChangeBelow = 4
    MaxOrders = 2
    MaxLate = 4
    Role <- Roles
    Payee = bob
    Amount = 1
    MayFail = FALSE
INVARIANT
    DoneMeansPaid
PROPERTIES
    SenderPays
    ReceiverCollects
