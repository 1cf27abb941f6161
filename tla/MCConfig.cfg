CONSTANTS
    authority = authority
    alice = alice
    bob = bob
    carol = carol
    gold = gold
    wsol = wsol
    None = None
    Wallets <- MCWallets
    Ephemerals = {}
    TradeIds = {}
    Mints = {gold, wsol}
    Payments = {}
    Rent <- MCRent
    Start <- MCStart
    MaxTime = 0
    Helpers = {}
    Givers = {}
    Gifts = {}
    GiftTargets = {}
    Openable = {}
    UpgradeAuthority = authority
    Admins = {authority, alice}
    Durations = {1}
    MinAmounts = {0}
SPECIFICATION ConfigSpec
INVARIANTS
    ConfigTypeOK
    OperatorsFit
    ConfigRentHeld
PROPERTY ConfigSurvivesInit
