------------------------------ MODULE MCClient -------------------------------
(* Instances of Client.  A trader, who deposits and is paid, an mpc, which *)
(* is operator and admin and closes trades, and a pmm, which pays.  Which  *)
(* commands run side by side is chosen per configuration: those around one *)
(* trade in tokens and those of operators, or those around payments in SOL *)
(* and in tokens and the fees they leave.                                  *)
EXTENDS Client

CONSTANTS trader, mpc, pmm, wsol, ephemeral,
    Scene,         \* "trade" or "fees"
    Purse,         \* lamports that each starts with
    TokenOwners    \* who has a token account from the start

MCWallets == {trader, mpc, pmm}

MCRent == [kind \in RentKind |-> 1]

MCInput == [t \in TradeIds |-> [user |-> trader, token |-> wsol, amount |-> 1]]

\* One payment in SOL, whose fee is withdrawn, and one in tokens.
MCPayments == IF Scene = "trade" THEN {}
              ELSE {[trade |-> "remote", from |-> pmm, to |-> trader, token |-> token,
                     amount |-> 2, fee |-> 1] : token \in {None, wsol}}

MCOwned == {Ata(o, wsol) : o \in TokenOwners}

MCStart ==
    [lamports |-> [a \in Account |->
        CASE a \in Wallets -> Purse
          [] a \in {ConfigPda, ProtocolPda, LegacyVaultPda} \cup MCOwned -> 1
          [] a = WhitelistPda(wsol) /\ Scene = "trade" -> 1
          [] OTHER -> 0],
     atas     |-> MCOwned,
     tokens   |-> [a \in TokenAccount |-> IF a \in MCOwned /\ a.of \in Wallets THEN 2 ELSE 0]]

MCStartConfig == [admin |-> mpc, operators |-> {mpc, pmm}, closeTrade |-> 0, closePayment |-> 0]

MCStartWhitelist == [m \in Mints |-> IF Scene = "trade" THEN 1 ELSE None]

\* What the SDK creates, and what its owners close behind its back.
MCOpenable == {Ata(o, wsol) : o \in {ProtocolPda, pmm, mpc, trader} \cup {VaultPda(t) : t \in TradeIds}}

TradeCalls ==
    {[fn |-> "deposit", user |-> trader, trade |-> t, timeout |-> 0, mpc |-> mpc,
      refund |-> pmm, ephemeral |-> ephemeral] : t \in TradeIds}
    \cup {[fn |-> "claim", user |-> user, trade |-> t] : user \in {trader, mpc}, t \in TradeIds}
    \cup {[fn |-> "close-trade", user |-> mpc, trade |-> t, to |-> trader, ephemeral |-> ephemeral] :
            t \in TradeIds}

\* The operators stay who they are.
OperatorCalls ==
    {[fn |-> "initialize", signer |-> mpc, admin |-> mpc],
     [fn |-> "set-close-duration", operator |-> pmm, closeTrade |-> 1, closePayment |-> 0],
     [fn |-> "add-operator", signer |-> mpc, operator |-> pmm],
     [fn |-> "remove-operator", signer |-> mpc, operator |-> trader]}

FeeCalls ==
    {[fn |-> "payment", payment |-> p, deadline |-> 1] : p \in Payments}
    \cup {[fn |-> "close-receipt", payment |-> p] : p \in {q \in Payments : q.token = None}}
    \cup {[fn |-> "withdraw-fee", signer |-> mpc, receiver |-> mpc, token |-> token,
           amount |-> None] : token \in {None, wsol}}
    \cup {[fn |-> "withdraw-fee", signer |-> pmm, receiver |-> mpc, token |-> None, amount |-> 1],
          [fn |-> "add-receiver", signer |-> mpc, receiver |-> mpc],
          [fn |-> "remove-receiver", signer |-> mpc, receiver |-> mpc]}

WhitelistCalls ==
    {[fn |-> "update-whitelist", operator |-> mpc, token |-> wsol, amount |-> 1],
     [fn |-> "remove-whitelist", operator |-> pmm, token |-> wsol]}

MCCalls == IF Scene = "trade" THEN TradeCalls \cup OperatorCalls ELSE FeeCalls \cup WhitelistCalls

\* Who wants a refund keeps trying.
MCInsistent == {c \in MCCalls : c.fn = "claim"}
=============================================================================
