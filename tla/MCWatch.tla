------------------------------ MODULE MCWatch -------------------------------
(* Every instruction of the interface on one trade and one payment, in SOL *)
(* or in tokens, between a trader, who deposits and is paid, an mpc, which *)
(* is admin and operator, and a pmm, which pays and receives fees.         *)
EXTENDS Watch

CONSTANTS trader, mpc, pmm, wsol, trade, ephemeral,
    Currency,      \* of trade and payment: None for SOL, or wsol
    Purse          \* lamports that trader, mpc and pmm start with

MCWallets == {trader, mpc, pmm}

MCRent == [kind \in RentKind |-> 1]

MCInput == [t \in TradeIds |-> [user |-> trader, token |-> Currency, amount |-> 2]]

MCPayments == {[trade |-> "remote", from |-> pmm, to |-> trader, token |-> Currency,
                amount |-> 2, fee |-> 1]}

MCOwners == IF Currency = None THEN {} ELSE {trader, pmm, ProtocolPda}

MCStart ==
    [lamports |-> [a \in Account |->
        CASE a \in Wallets -> Purse
          [] a \in {ConfigPda, ProtocolPda, LegacyVaultPda, WhitelistPda(wsol)} -> 1
          [] a \in {Ata(o, wsol) : o \in MCOwners} -> 1
          [] OTHER -> 0],
     atas     |-> {Ata(o, wsol) : o \in MCOwners},
     tokens   |-> [a \in TokenAccount |-> IF a \in {Ata(trader, wsol), Ata(pmm, wsol)} THEN 2 ELSE 0]]

MCStartConfig == [admin |-> mpc, operators |-> {mpc}, closeTrade |-> 0, closePayment |-> 0]

MCStartWhitelist == [m \in Mints |-> 2]

MCOpenable == {Ata(VaultPda(trade), wsol)}

Configuring ==
    {[op |-> "init", signer |-> mpc, admin |-> None],
     [op |-> "addOrRemoveOperator", signer |-> mpc, operator |-> pmm, isAdd |-> TRUE],
     [op |-> "addOrRemoveOperator", signer |-> mpc, operator |-> pmm, isAdd |-> FALSE],
     [op |-> "addOrUpdateWhitelist", operator |-> pmm, token |-> wsol, amount |-> 1],
     [op |-> "removeWhitelist", operator |-> mpc, token |-> wsol, entry |-> wsol],
     [op |-> "setCloseWaitDuration", operator |-> mpc, closeTrade |-> 1, closePayment |-> None]}

Trading ==
    {[op |-> "deposit", signer |-> trader, trade |-> trade, timeout |-> 0, mpc |-> mpc,
      refund |-> pmm, ephemeral |-> ephemeral, token |-> Currency],
     [op |-> "setTotalFee", signer |-> mpc, trade |-> trade, amount |-> 1],
     [op |-> "settlement", signer |-> mpc, trade |-> trade, ephemeral |-> ephemeral,
      user |-> trader, refund |-> pmm, pmm |-> pmm, token |-> Currency],
     [op |-> "claim", signer |-> mpc, trade |-> trade, ephemeral |-> ephemeral,
      user |-> trader, refund |-> pmm, token |-> Currency],
     [op |-> "closeFinishedTrade", signer |-> mpc, trade |-> trade, user |-> trader,
      token |-> Currency]}

Paying ==
    {[op |-> "addFeeReceiver", signer |-> mpc, receiver |-> pmm],
     [op |-> "removeFeeReceiver", signer |-> mpc, receiver |-> pmm],
     [op |-> "withdrawTotalFee", signer |-> trader, to |-> pmm, token |-> Currency, amount |-> 1]}
    \cup {[op |-> "payment", signer |-> signer, payment |-> p, deadline |-> 1] :
             signer \in {pmm, mpc}, p \in Payments}
    \cup {[op |-> "closePaymentReceipt", signer |-> pmm, payment |-> p] : p \in Payments}

Accompanying ==
    {[op |-> "createAta", signer |-> trader, owner |-> VaultPda(trade), token |-> wsol],
     [op |-> "createNonce", signer |-> trader, ephemeral |-> ephemeral],
     [op |-> "withdrawNonce", signer |-> mpc, to |-> trader, ephemeral |-> ephemeral,
      lamports |-> 1]}

MCSent == Configuring \cup Trading \cup Paying \cup Accompanying
=============================================================================
