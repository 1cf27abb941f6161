CONSTANTS
    trader = trader
    mpc = mpc
    pmm = pmm
    wsol = wsol
    ephemeral = e1
    None = None
    Scene = "fees"
    Purse = 4
    TokenOwners = {pmm}
    Wallets <- MCWallets
    Ephemerals = {e1}
    TradeIds = {}
    Mints = {wsol}
    Payments <- MCPayments
    Rent <- MCRent
    Start <- MCStart
    MaxTime = 1
    Helpers = {}
    Givers = {}
    Gifts = {}
    GiftTargets = {}
    Openable <- MCOpenable
    UpgradeAuthority = mpc
    Admins = {}
    Durations = {}
    MinAmounts = {1}
    Input <- MCInput
    Wsol = wsol
    StartConfig <- MCStartConfig
    StartWhitelist <- MCStartWhitelist
    Timeouts = {}
    Mpcs = {}
    Refunds = {}
    Pmms = {}
    Fees = {}
    Deadlines = {1}
    Withdrawals = {}
    Sent = {}
    MaxOpen = 2
    Calls <- MCCalls
    Insistent <- MCInsistent
SPECIFICATION ClientSpec
INVARIANT WhitelistedHasProtocolAta
PROPERTY OnlyRacesAbort
