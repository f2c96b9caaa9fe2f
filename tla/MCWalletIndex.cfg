\* The index argument of newAccount(into:index:). A trap ends the process.
SPECIFICATION Spec
CONSTANTS
    own = own
    other = other
    MaxIndex = 3
    Seeds <- SeedPair
    Own = own
    Types = {"nano", "banano"}
    MaxDrafts = 2
PROPERTY
    IndexHonoured
CHECK_DEADLOCK FALSE
