------------------------------ MODULE MCTrade -------------------------------
(* Instances of Trade: a depositor, an mpc that is also the operator and   *)
(* pays what outsiders pay, and a pmm.  Which mint a trade is in, what     *)
(* outsiders send and where is chosen per configuration.                   *)
EXTENDS Trade

CONSTANTS depositor, mpc, pmm, wsol,
    NativeTrades,   \* the trades in SOL; the others are in tokens
    Purse,          \* lamports the depositor starts with
    MpcPurse,       \* lamports the mpc starts with
    TokenPurse,     \* tokens the depositor starts with
    TokenOwners,    \* wallets that have a token account from the start
    Closers,        \* wallets that open and close token accounts
    Gifted          \* trades whose vault strangers send something to

MCWallets == {depositor, mpc, pmm}

\* One lamport each; the trade detail, the largest account, two.
MCRent == [kind \in RentKind |-> IF kind = "trade" THEN 2 ELSE 1]

MCInput == [t \in TradeIds |->
    [user |-> depositor, token |-> IF t \in NativeTrades THEN None ELSE wsol, amount |-> 2]]

MCStart ==
    [lamports |-> [a \in Account |->
        CASE a = depositor -> Purse
          [] a = mpc -> MpcPurse
          [] a \in {ConfigPda, ProtocolPda, LegacyVaultPda, WhitelistPda(wsol)} -> 1
          [] a \in {Ata(o, wsol) : o \in TokenOwners} -> 1
          [] OTHER -> 0],
     atas     |-> {Ata(o, wsol) : o \in TokenOwners},
     tokens   |-> [a \in TokenAccount |->
        CASE a = Ata(depositor, wsol) -> TokenPurse
          [] a = Ata(mpc, wsol) /\ mpc \in TokenOwners -> 1
          [] OTHER -> 0]]

MCStartConfig == [admin |-> None, operators |-> {mpc}, closeTrade |-> 0, closePayment |-> 0]

MCGiftTargets == {VaultPda(t) : t \in Gifted}

\* The token accounts of the vaults and of those who are paid from them.
MCOpenable == {Ata(o, wsol) : o \in Closers \cup {ProtocolPda} \cup {VaultPda(t) : t \in TradeIds \ NativeTrades}}

MCRefunds == {depositor}

MCStartWhitelist == [m \in Mints |-> 2]
=============================================================================
