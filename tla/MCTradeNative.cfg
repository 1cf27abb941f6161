CONSTANTS
    depositor = depositor
    mpc = mpc
    pmm = pmm
    wsol = wsol
    None = None
    NativeTrades = {t1}
    Purse = 9
    MpcPurse = 4
    TokenPurse = 0
    TokenOwners = {}
    Closers = {}
    Gifted = {t1}
    Wallets <- MCWallets
    Ephemerals = {e1, e2}
    TradeIds = {t1}
    Mints = {wsol}
    Payments = {}
    Rent <- MCRent
    Start <- MCStart
    MaxTime = 2
    Helpers = {mpc}
    Givers = {mpc}
    Gifts = {1}
    GiftTargets <- MCGiftTargets
    Openable = {}
    UpgradeAuthority = mpc
    Admins = {}
    Durations = {1}
    MinAmounts = {}
    Input <- MCInput
    Wsol = wsol
    StartConfig <- MCStartConfig
    StartWhitelist <- MCStartWhitelist
    Timeouts = {0, 1}
    Mpcs = {mpc}
    Refunds <- MCRefunds
    Pmms = {pmm}
    Fees = {1}
SPECIFICATION TradeSpec
INVARIANTS
    TradeTypeOK
    TradeRentHeld
    NeverStuck
    ValueConserved
PROPERTIES
    CloseReturnsEverything
