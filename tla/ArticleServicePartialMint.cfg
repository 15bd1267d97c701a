CONSTANTS
    alice = alice
    bob = bob
    walletA = walletA
    walletB = walletB
    art1 = art1
    art2 = art2
    req1 = req1
    req2 = req2
    req3 = req3
    Users <- TwoUsers
    Accounts <- TwoAccounts
    Articles <- OneArticle
    Requests <- OneRequest
    MaxSlot = 1
    TextForms = {"checksum"}
    Operations = {"mint"}
    Faults = {"call"}
    Titles = {"t1"}
    Contents = {"c1"}
    Absent = Absent
    NoUser = NoUser
    NoAddress = NoAddress
    ZeroAddress = ZeroAddress
    NoRequest = NoRequest
    NoRow = NoRow
    NoDocument = NoDocument
    NoTx = NoTx

SPECIFICATION Spec
INVARIANT HoldersMayEdit
CHECK_DEADLOCK FALSE
