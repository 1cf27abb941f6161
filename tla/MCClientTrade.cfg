CONSTANTS
    trader = trader
    mpc = mpc
    pmm = pmm
    wsol = wsol
    ephemeral = e1
    None = None
    Scene = "trade"
    Purse = 20
    TokenOwners = {trader}
    Wallets <- MCWallets
    Ephemerals = {e1}
    TradeIds = {t1}
    Mints = {wsol}
    Payments <- MCPayments
    Rent <- MCRent
    Start <- MCStart
    MaxTime = 1
    Helpers = {}
    Givers = {}
    Gifts = {}
    GiftTargets = {}
    Openable <- MCOpenable
    UpgradeAuthority = mpc
    Admins = {mpc}
    Durations = {0, 1}
    MinAmounts = {}
    Input <- MCInput
    Wsol = wsol
    StartConfig <- MCStartConfig
    StartWhitelist <- MCStartWhitelist
    Timeouts = {0}
    Mpcs = {mpc}
    Refunds = {pmm}
    Pmms = {}
    Fees = {}
    Deadlines = {}
    Withdrawals = {}
    Sent = {}
    MaxOpen = 2
    Calls <- MCCalls
    Insistent <- MCInsistent
SPECIFICATION FairClientSpec
INVARIANT NonceWithTrade
PROPERTIES
    OnlyRacesAbort
    RefundArrives
