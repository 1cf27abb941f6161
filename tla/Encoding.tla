------------------------------- MODULE Encoding -------------------------------
(***************************************************************************)
(* Numbers on their way between the SDK and the program: session ids,      *)
(* amounts and trade ids as hexadecimal strings, as byte strings of fixed  *)
(* width, and as 64-bit integers.  A string is the sequence of its digits, *)
(* without the prefix 0x.  The hash is taken to be injective.              *)
(***************************************************************************)
EXTENDS Integers, SequencesExt

CONSTANTS
    Base,        \* of a hexadecimal digit: 16
    Width,       \* bytes of a uint256: 32
    U64,         \* bytes of a u64: 8
    MaxNumber,   \* bound: session ids and amounts that callers pass
    MaxLength,   \* bound: the byte strings that are converted
    None

ASSUME EncodingAssumption ==
    /\ {Base, Width, U64, MaxNumber, MaxLength} \subseteq Nat \ {0}
    /\ Base > 1 /\ U64 < Width
    /\ None \notin Nat \cup Seq(Nat)

VARIABLES
    session, amount,   \* what the caller of getTradeInput passes
    bytes              \* a byte string; with Width bytes, the id of a trade

vars == <<session, amount, bytes>>

Byte == Base * Base

\* The number that has these digits in base b, the most significant first.
Value(b, digits) == FoldLeft(LAMBDA n, d : n * b + d, 0, digits)

\* The n-th power of b: a one and n zeros.
Power(b, n) == Value(b, [i \in 1..(n + 1) |-> IF i = 1 THEN 1 ELSE 0])

-----------------------------------------------------------------------------
(* JavaScript                                                              *)

\* toString(16): as many digits as the number needs, and at least one.
Hex(n) ==
    LET w == CHOOSE w \in 1..(n + 1) :
               n < Power(Base, w) /\ (w > 1 => n >= Power(Base, w - 1))
    IN  [i \in 1..w |-> (n \div Power(Base, w - i)) % Base]

PadStart(digits, w) == [i \in 1..(w - Len(digits)) |-> 0] \o digits

\* Buffer.from(_, 'hex'): an odd last digit is dropped.
FromHex(digits) ==
    [i \in 1..(Len(digits) \div 2) |-> digits[2 * i - 1] * Base + digits[2 * i]]

\* buffer.toString('hex')
ToHex(b) ==
    [i \in 1..(2 * Len(b)) |-> LET byte == b[(i + 1) \div 2]
                               IN  IF i % 2 = 1 THEN byte \div Base ELSE byte % Base]

\* BigInt of a hexadecimal string.
BigInt(digits) == Value(Base, digits)

-----------------------------------------------------------------------------
(* parse_utils.ts, param_utils.ts                                          *)

\* Mistaken variant: the digits of the number and no more.
BytesUnpadded(n) == FromHex(Hex(n))

\* bigintToBytes32, and parseEtherToBytes32 after BigInt of its string.
BigintToBytes32(n) == FromHex(PadStart(Hex(n), 2 * Width))

\* Mistaken variant: a number that is no BigInt loses the lowest digit.
TradeIdBytesToStringOfNumber(b) == Hex(Base * (BigInt(ToHex(b)) \div Base))

TradeIdBytesToString(b) == Hex(BigInt(ToHex(b)))

\* ethers encodes no number that is not a uint256.
AbiThrows(n) == n >= Power(Byte, Width)

\* getTradeId hashes what it encodes; sha256 returns all digits of the hash.
GetTradeInput ==
    IF AbiThrows(session) \/ AbiThrows(amount) THEN None
    ELSE [sessionId |-> BigintToBytes32(session),
          amountIn  |-> BigintToBytes32(amount),
          tradeId   |-> <<session, amount>>]

SdkTradeId(b) == ToHex(b)

-----------------------------------------------------------------------------
(* The program                                                             *)

\* U256::from_big_endian
U256(b) == Value(Byte, b)

CalculateTradeId(input) == <<U256(input.sessionId), U256(input.amountIn)>>

LeadingZeros(b) ==
    CHOOSE z \in 0..Len(b) : (\A i \in 1..z : b[i] = 0) /\ (z < Len(b) => b[z + 1] # 0)

\* Mistaken variant: the zeros are looked for where a uint256 has them.
BytesToU64Fixed(b) ==
    IF \E i \in 1..(Width - U64) : i <= Len(b) /\ b[i] # 0 THEN None ELSE U256(b)

\* bytes_to_u64_number; None is the error AmountExceeds.
BytesToU64(b) ==
    LET z == LeadingZeros(b)
    IN  IF Len(b) - z > U64 THEN None ELSE U256(SubSeq(b, z + 1, Len(b)))

-----------------------------------------------------------------------------
(* Looking accounts up by the id of their trade; None is no filter.        *)

FetchTradeDetail(details, option) ==
    {d \in details :
       /\ option.tradeId # None => TradeIdBytesToString(d.tradeId) = option.tradeId
       /\ option.token # None => d.token = IF option.token = "native" THEN None ELSE option.token
       /\ option.status # None => d.status = option.status}

FetchPayment(receipts, option) ==
    {r \in receipts :
       /\ option.tradeId # None => TradeIdBytesToString(r.tradeId) = option.tradeId
       /\ option.token # None => r.token = IF option.token = "native" THEN None ELSE option.token
       /\ option.from # None => r.from = option.from
       /\ option.to # None => r.to = option.to}

\* Mistaken variant: the strings are compared.
ReceiptOfByString(r, tradeId) == ToHex(r.tradeId) = tradeId

ReceiptOf(r, tradeId) == r.tradeId = BigintToBytes32(BigInt(tradeId))

\* getPaymentReceiptAddresses
GetPaymentReceiptAddresses(receipts, filter) ==
    {r \in receipts :
       /\ filter.tradeId # None => ReceiptOf(r, filter.tradeId)
       /\ filter.fromUser # None => r.from = filter.fromUser
       /\ filter.toUser # None => r.to = filter.toUser}

-----------------------------------------------------------------------------
EncodingInit == session = 0 /\ amount = 0 /\ bytes = <<>>

EncodingNext ==
    \/ session < MaxNumber /\ session' = session + 1 /\ UNCHANGED <<amount, bytes>>
    \/ amount < MaxNumber /\ amount' = amount + 1 /\ UNCHANGED <<session, bytes>>
    \/ /\ Len(bytes) < MaxLength
       /\ \E b \in 0..(Byte - 1) : bytes' = Append(bytes, b)
       /\ UNCHANGED <<session, amount>>

EncodingSpec == EncodingInit /\ [][EncodingNext]_vars

IsTradeId(b) == Len(b) = Width

(* Safety.  Whatever session id and amount a caller passes, the deposit is *)
(* the one that was meant or there is none: either the SDK throws, or the  *)
(* program computes the same trade id from the bytes it is sent, and takes *)
(* exactly the amount or refuses it for not being a u64.                   *)
DepositIsAsMeant ==
    LET input == GetTradeInput IN input # None =>
      /\ Len(input.sessionId) = Width /\ Len(input.amountIn) = Width
      /\ CalculateTradeId(input) = input.tradeId
      /\ BytesToU64(input.amountIn) = IF amount < Power(Byte, U64) THEN amount ELSE None

(* Safety.  Of a byte string of any length bytes_to_u64_number returns the *)
(* value whenever that is a u64, and an error otherwise.                   *)
U64OfAnyLength ==
    BytesToU64(bytes) = IF U256(bytes) < Power(Byte, U64) THEN U256(bytes) ELSE None

\* The accounts of a trade with the id bytes, and how they are looked up.
Detail    == [tradeId |-> bytes, token |-> None, status |-> "deposited"]
Receipt   == [tradeId |-> bytes, from |-> "pmm", to |-> "user", token |-> None]
Ask(id)   == [tradeId |-> id, token |-> None, status |-> None,
              from |-> None, to |-> None, fromUser |-> None, toUser |-> None]

(* Safety.  getPaymentReceiptAddresses finds a receipt by the id of its    *)
(* trade, as the SDK computes the id and also as the command line prints   *)
(* it, without leading zeros.                                              *)
ReceiptFoundById == IsTradeId(bytes) =>
    \A id \in {SdkTradeId(bytes), TradeIdBytesToString(bytes)} :
      GetPaymentReceiptAddresses({Receipt}, Ask(id)) = {Receipt}

(* Safety.  The fetch commands find a trade and its payments by the id the *)
(* command line prints, and by the id the SDK returns unless that starts   *)
(* with a zero: it is compared with a string that lost its leading zeros.  *)
FetchFindsById == IsTradeId(bytes) =>
    \A id \in {SdkTradeId(bytes), TradeIdBytesToString(bytes)} :
      LET whole == id[1] # 0 \/ Len(id) = 1 IN
      /\ FetchTradeDetail({Detail}, Ask(id)) = IF whole THEN {Detail} ELSE {}
      /\ FetchPayment({Receipt}, Ask(id)) = IF whole THEN {Receipt} ELSE {}
=============================================================================
