CONSTANTS
    trader = trader
    mpc = mpc
    pmm = pmm
    wsol = wsol
    trade = t1
    ephemeral = e1
    None = None
    Currency = wsol
    Purse = 7
    Wallets <- MCWallets
    Ephemerals = {e1}
    TradeIds = {t1}
    Mints = {wsol}
    Payments <- MCPayments
    Rent <- MCRent
    Start <- MCStart
    MaxTime = 1
    Helpers = {trader}
    Givers = {}
    Gifts = {}
    GiftTargets = {}
    Openable <- MCOpenable
    UpgradeAuthority = mpc
    Admins = {}
    Durations = {1}
    MinAmounts = {1}
    Input <- MCInput
    Wsol = wsol
    StartConfig <- MCStartConfig
    StartWhitelist <- MCStartWhitelist
    Timeouts = {0}
    Mpcs = {mpc}
    Refunds = {pmm}
    Pmms = {pmm}
    Fees = {1}
    Deadlines = {1}
    Withdrawals = {1}
    Sent <- MCSent
SPECIFICATION InterfaceSpec
PROPERTIES
    NobodyPaysUnsigned
    WritesDeclared
    CreatedPdaListed
    ClosedNonceSeen
