------------------------------ MODULE MCPresign ------------------------------
(* Instances of Presign.  A trader deposits, one trade id and one ephemeral*)
(* key, and signs settlements for either of two pmms; the mpc verifies for *)
(* one of them.                                                            *)
EXTENDS Presign

CONSTANTS trader, mpc, pmm, wsol, trade, ephemeral, Currency

MCWallets == {trader, mpc, pmm}

MCRent == [kind \in RentKind |-> 1]

MCInput == [t \in TradeIds |-> [user |-> trader, token |-> Currency, amount |-> 2]]

MCOwned == IF Currency = None THEN {} ELSE {Ata(o, wsol) : o \in {trader, pmm, ProtocolPda}}

MCStart ==
    [lamports |-> [a \in Account |->
        CASE a = trader -> 20
          [] a \in Wallets -> 3
          [] a \in {ConfigPda, ProtocolPda, LegacyVaultPda, WhitelistPda(wsol)} \cup MCOwned -> 1
          [] OTHER -> 0],
     atas     |-> MCOwned,
     tokens   |-> [a \in TokenAccount |-> IF a = Ata(trader, wsol) THEN 4 ELSE 0]]

MCStartConfig == [admin |-> mpc, operators |-> {mpc}, closeTrade |-> 0, closePayment |-> 0]

MCStartWhitelist == [m \in Mints |-> 1]

\* Besides the vault's, the pmm's: it closes its account while that is empty.
MCOpenable == {Ata(VaultPda(trade), wsol), Ata(pmm, wsol)}

MCCalls ==
    {[fn |-> made[1], user |-> trader, trade |-> trade, timeout |-> made[2], mpc |-> mpc,
      refund |-> made[3], ephemeral |-> ephemeral] :
        made \in {<<"deposit", 0, trader>>, <<"deposit", 1, pmm>>, <<"deposit-only", 1, trader>>}}
    \cup {[fn |-> "claim", user |-> trader, trade |-> trade],
          [fn |-> "close-trade", user |-> mpc, trade |-> trade, to |-> trader,
           ephemeral |-> ephemeral],
          [fn |-> "close-trade-only", user |-> mpc, trade |-> trade],
          [fn |-> "close-nonce", user |-> mpc, to |-> trader, ephemeral |-> ephemeral]}
    \cup IF Currency = None THEN {}
         ELSE {[fn |-> "settlement-atas", mpc |-> mpc, pmm |-> pmm, token |-> Currency]}
=============================================================================
