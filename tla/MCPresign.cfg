CONSTANTS
    trader = trader
    mpc = mpc
    pmm = pmm
    wsol = wsol
    ephemeral = e1
    trade = t1
    None = None
    Currency = wsol
    Wallets <- MCWallets
    Ephemerals = {e1}
    TradeIds = {t1}
    Mints = {wsol}
    Payments = {}
    Rent <- MCRent
    Start <- MCStart
    MaxTime = 1
    Helpers = {}
    Givers = {}
    Gifts = {}
    GiftTargets = {}
    Openable <- MCOpenable
    UpgradeAuthority = mpc
    Admins = {}
    Durations = {}
    MinAmounts = {}
    Input <- MCInput
    Wsol = wsol
    StartConfig <- MCStartConfig
    StartWhitelist <- MCStartWhitelist
    Timeouts = {0, 1}
    Mpcs = {mpc}
    Refunds = {trader, pmm}
    Pmms = {pmm, trader}
    Fees = {}
    Deadlines = {}
    Withdrawals = {}
    Sent = {}
    MaxOpen = 1
    Calls <- MCCalls
    Insistent = {}
    PresignPmms = {pmm, trader}
    AgreedPmm = pmm
    MaxPresigns = 2
    MaxEpoch = 5
SPECIFICATION PresignSpec
PROPERTIES
    SettlesOwnDeposit
    VerifiedSettles
