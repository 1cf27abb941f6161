----------------------------- MODULE MCPayment -------------------------------
(* An instance of Payment: a pmm, which is also admin and operator, pays a *)
(* user once in SOL and once in tokens; strangers send lamports to the     *)
(* address of the receipt for SOL.                                         *)
EXTENDS Payment

CONSTANTS pmm, user, wsol,
    Purse,           \* lamports the pmm starts with
    TokenPurse,      \* tokens the pmm starts with
    CloseDuration    \* the duration in force at the start

MCWallets == {pmm, user}

MCRent == [kind \in RentKind |-> IF kind = "wallet" THEN 1 ELSE 2]

MCPayments == {[trade |-> "remote", from |-> pmm, to |-> user, token |-> token,
                amount |-> 3, fee |-> 1] : token \in {None, wsol}}

MCOwned == {Ata(pmm, wsol), Ata(ProtocolPda, wsol)}

MCStart ==
    [lamports |-> [a \in Account |->
        CASE a = pmm -> Purse
          [] a = user -> 1
          [] a \in {ConfigPda, WhitelistPda(wsol)} \cup MCOwned -> 2
          [] a \in {ProtocolPda, LegacyVaultPda} -> 1
          [] OTHER -> 0],
     atas     |-> MCOwned,
     tokens   |-> [a \in TokenAccount |-> IF a = Ata(pmm, wsol) THEN TokenPurse ELSE 0]]

MCStartConfig == [admin |-> pmm, operators |-> {pmm}, closeTrade |-> 0, closePayment |-> CloseDuration]

MCStartWhitelist == [m \in Mints |-> 2]

MCGiftTargets == {ReceiptPda(p) : p \in {q \in Payments : q.token = None}}

MCOpenable == {Ata(user, wsol)}
=============================================================================
