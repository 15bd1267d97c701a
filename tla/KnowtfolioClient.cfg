CONSTANTS
    Users = {u1, u2, u3}
    Members = {u1, u2}
    Accounts = {w1, w2, w3}
    MetamaskAccounts = {w1}
    Wallets = {w1, w2}
    Articles = {}
    TextForms = {"checksum"}
    Files = {f1, f2}
    PlainFiles = {f1}
    CutUrl = CutUrl
    Pages <- PagesOfWords
    AnyWords = "any"
    MaxNonces = 5
    MaxPending = 2
    MaxClicks = 1
    NoUser = NoUser
    NoAddress = NoAddress
    ZeroAddress = ZeroAddress
    NoFile = NoFile

SPECIFICATION ClientSpec
INVARIANTS
    ClientTypeOK
    LookupsAgree
    NoncesFollowWallets
    QuietProvidersAgree
    LandingIsOwn
    ButtonTellsTheForm
    PasswordsWereConfirmed
    AccountsPassedTheRules
    CodeIsForThisUser
    RegisteredAsShown
    PictureExists
    StoredProfilesAreValid
    ListIsOfTheUrl
    PageIsThere
PROPERTIES
    ImplementsWalletBinding
    LoadingClears
CHECK_DEADLOCK FALSE
