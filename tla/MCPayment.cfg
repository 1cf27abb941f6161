CONSTANTS
    pmm = pmm
    user = user
    wsol = wsol
    None = None
    Purse = 8
    TokenPurse = 3
    CloseDuration = 1
    Wallets <- MCWallets
    Ephemerals = {}
    TradeIds = {}
    Mints = {wsol}
    Payments <- MCPayments
    Rent <- MCRent
    Start <- MCStart
    MaxTime = 3
    Helpers = {pmm}
    Givers = {pmm}
    Gifts = {1}
    GiftTargets <- MCGiftTargets
    Openable <- MCOpenable
    UpgradeAuthority = pmm
    Admins = {}
    Durations = {0, 1}
    MinAmounts = {}
    Wsol = wsol
    StartConfig <- MCStartConfig
    StartWhitelist <- MCStartWhitelist
    Deadlines = {0, 1}
    Withdrawals = {1, 2}
SPECIFICATION FairPaymentSpec
INVARIANTS
    CopiesRefused
    ReceiptRentHeld
    ConfigRentHeld
    FeesReachable
PROPERTIES
    ReceiptAttests
    ReceiptReturns
