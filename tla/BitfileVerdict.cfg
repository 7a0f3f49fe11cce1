SPECIFICATION Spec
CONSTANTS
    Clients = {a}
    Slots = {0, 1}
    Cards = {1}
    Nums = {1}
    LinkSlots = {}
    MaxLen = 1
    MaxLoad = 1
    MaxCount = 1
    MaxHurt = 1
    NFds = 2
    a = a
INVARIANT
    OkIsVerified
CHECK_DEADLOCK FALSE
