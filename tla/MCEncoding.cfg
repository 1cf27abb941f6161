SPECIFICATION EncodingSpec
CONSTANTS
    Base = 2
    Width = 2
    U64 = 1
    MaxNumber = 18
    MaxLength = 3
    None = None
INVARIANTS
    DepositIsAsMeant
    U64OfAnyLength
    ReceiptFoundById
    FetchFindsById
CHECK_DEADLOCK FALSE
