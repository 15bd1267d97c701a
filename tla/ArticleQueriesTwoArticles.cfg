CONSTANTS
    alice = alice
    bob = bob
    walletA = walletA
    walletB = walletB
    art1 = art1
    art2 = art2
    req1 = req1
    req2 = req2
    Users <- TwoUsers
    Accounts <- TwoAccounts
    Articles <- TwoArticles
    Requests <- OneRequest
    MaxSlot = 1
    TextForms = {"checksum"}
    Operations = {"update", "delete", "mint"}
    Faults = {}
    Titles = {"t1"}
    Contents = {"c1"}
    PageSizes = {1, 2}
    PageNums = {1}
    KeywordSets = {{}}
    Anyone = Anyone
    Absent = Absent
    NoUser = NoUser
    NoAddress = NoAddress
    ZeroAddress = ZeroAddress
    NoRequest = NoRequest
    NoRow = NoRow
    NoDocument = NoDocument
    NoTx = NoTx

SPECIFICATION QueriesSpec
SYMMETRY Symmetry
INVARIANTS
    QueriesTypeOK
    KeptArticlesListed
    ListedArticlesWereOwned
    OwnerInfoAgrees
CHECK_DEADLOCK FALSE
