CONSTANTS
    Users = {u1}
    Members = {u1}
    Accounts = {w1, w2}
    MetamaskAccounts = {w1}
    Wallets = {w1, w2}
    Articles = {}
    TextForms = {"checksum"}
    NoUser = NoUser
    NoAddress = NoAddress
    ZeroAddress = ZeroAddress
    MaxClicks = 2

SPECIFICATION ArticleSpec
INVARIANTS
    SuccessMeansDone
    FailuresLeaveNothing
    BlankOnlyBeforeLoad
PROPERTY ClicksAreAnswered
CHECK_DEADLOCK FALSE
