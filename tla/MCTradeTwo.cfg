CONSTANTS
    depositor = depositor
    mpc = mpc
    pmm = pmm
    wsol = wsol
    None = None
    NativeTrades = {t1, t2}
    Purse = 14
    MpcPurse = 6
    TokenPurse = 0
    TokenOwners = {}
    Closers = {}
    Gifted = {}
    Wallets <- MCWallets
    Ephemerals = {e1, e2}
    TradeIds = {t1, t2}
    Mints = {wsol}
    Payments = {}
    Rent <- MCRent
    Start <- MCStart
    MaxTime = 2
    Helpers = {mpc}
    Givers = {mpc}
    Gifts = {}
    GiftTargets <- MCGiftTargets
    Openable = {}
    UpgradeAuthority = mpc
    Admins = {}
    Durations = {}
    MinAmounts = {}
    Input <- MCInput
    Wsol = wsol
    StartConfig <- MCStartConfig
    StartWhitelist <- MCStartWhitelist
    Timeouts = {0, 1}
    Mpcs = {mpc}
    Refunds <- MCRefunds
    Pmms = {pmm}
    Fees = {1}
SPECIFICATION TradeSpec
INVARIANTS
    VaultSolvent
    NonceGuardsOneTrade
PROPERTIES
    ImplementsEscrow
