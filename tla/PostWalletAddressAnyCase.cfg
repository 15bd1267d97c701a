CONSTANTS
    Users = {u1, u2}
    Accounts = {w1, w2}
    Articles = {}
    TextForms = {"checksum", "lower"}
    MaxNonces = 5
    NoUser = NoUser
    NoAddress = NoAddress
    ZeroAddress = ZeroAddress

SPECIFICATION RegistrationSpec
INVARIANT AccountServesOneUser
