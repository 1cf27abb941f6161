CONSTANTS
    depositor = depositor
    mpc = mpc
    pmm = pmm
    wsol = wsol
    None = None
    NativeTrades = {}
    Purse = 10
    MpcPurse = 2
    TokenPurse = 2
    TokenOwners = {depositor, mpc, pmm}
    Closers = {depositor}
    Gifted = {t1}
    Wallets <- MCWallets
    Ephemerals = {e1}
    TradeIds = {t1}
    Mints = {wsol}
    Payments = {}
    Rent <- MCRent
    Start <- MCStart
    MaxTime = 3
    Helpers = {depositor}
    Givers = {mpc}
    Gifts = {1}
    GiftTargets <- MCGiftTargets
    Openable <- MCOpenable
    UpgradeAuthority = mpc
    Admins = {}
    Durations = {1}
    MinAmounts = {}
    Input <- MCInput
    Wsol = wsol
    StartConfig <- MCStartConfig
    StartWhitelist <- MCStartWhitelist
    Timeouts = {1}
    Mpcs = {mpc}
    Refunds <- MCRefunds
    Pmms = {pmm}
    Fees = {1}
SPECIFICATION FairTradeSpec
PROPERTIES
    CloseReturnsEverything
    ImplementsEscrow
    DepositResolves
    RentReturns
