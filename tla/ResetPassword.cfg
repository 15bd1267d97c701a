CONSTANTS
    Users = {u1, u2}
    Members = {u1, u2}
    Accounts = {w1, w2}
    Articles = {}
    TextForms = {"checksum"}
    NoUser = NoUser
    NoAddress = NoAddress
    ZeroAddress = ZeroAddress
    MaxPending = 2

SPECIFICATION AccountSpec
INVARIANT CompleteResetFormIsEnabled
CHECK_DEADLOCK FALSE
