CONSTANTS
    Users = {alice, bob}
    Accounts = {walletA, walletB}
    Articles = {}
    TextForms = {"checksum"}
    Sessions = {s1, s2}
    MaxIssued = 3
    MaxMints = 1
    NoUser = NoUser
    NoAddress = NoAddress
    ZeroAddress = ZeroAddress
    NoSignature = NoSignature

SPECIFICATION FairSignInSpec
INVARIANTS
    SignInTypeOK
    TokensNeedTheWallet
    SignaturesOpenOneSession
PROPERTIES
    WrongAnswersAreFinal
    SignInsSettle
CHECK_DEADLOCK FALSE
