------------------------------ MODULE Interface ------------------------------
(***************************************************************************)
(* The program as its clients see it: fifteen instructions, each a record  *)
(* of its arguments and of the accounts that the client chooses, the       *)
(* accounts each declares as signers and as writable in the interface      *)
(* (IDL), and the dispatch to the handlers of Config, Trade and Payment    *)
(* behind the address constraints on the accounts.                         *)
(***************************************************************************)
EXTENDS Trade, Payment

CONSTANT Sent    \* bound: the instructions that are sent

\* What can be sent: an instruction that the program's entry points, or the
\* other programs that clients call, can parse, with arguments from the
\* bounds under which the handlers are modelled.
Instruction ==
    LET Token == Mints \cup {None}
        Duration == Durations \cup {None}
    IN  [op : {"init"}, signer : Wallets, admin : Admins \cup {None}]
        \cup [op : {"addOrRemoveOperator"}, signer : Wallets, operator : Wallets, isAdd : BOOLEAN]
        \cup [op : {"addOrUpdateWhitelist"}, operator : Wallets, token : Mints, amount : MinAmounts]
        \cup [op : {"removeWhitelist"}, operator : Wallets, token : Mints, entry : Mints]
        \cup [op : {"setCloseWaitDuration"}, operator : Wallets,
              closeTrade : Duration, closePayment : Duration]
        \cup [op : {"addFeeReceiver", "removeFeeReceiver"}, signer : Wallets, receiver : Wallets]
        \cup [op : {"deposit"}, signer : Wallets, trade : TradeIds, timeout : Timeouts,
              mpc : Mpcs, refund : Refunds, ephemeral : Ephemerals, token : Token]
        \cup [op : {"setTotalFee"}, signer : Wallets, trade : TradeIds, amount : Fees]
        \cup [op : {"settlement"}, signer : Wallets, trade : TradeIds, ephemeral : Ephemerals,
              user : Wallets, refund : Recipient, pmm : Pmms, token : Token]
        \cup [op : {"claim"}, signer : Wallets, trade : TradeIds, ephemeral : Ephemerals,
              user : Wallets, refund : Recipient, token : Token]
        \cup [op : {"closeFinishedTrade"}, signer : Wallets, trade : TradeIds,
              user : Wallets, token : Token]
        \cup [op : {"payment"}, signer : Wallets, payment : Payments, deadline : Deadlines]
        \cup [op : {"closePaymentReceipt"}, signer : Wallets, payment : Payments]
        \cup [op : {"withdrawTotalFee"}, signer : Wallets, to : Wallets, token : Token,
              amount : Withdrawals]
        \cup [op : {"createAta"}, signer : Helpers, owner : Owner, token : Mints]
        \cup [op : {"createNonce"}, signer : Helpers, ephemeral : Ephemerals]
        \cup [op : {"withdrawNonce"}, signer : Wallets, to : Helpers, ephemeral : Ephemerals,
              lamports : Nat]

ASSUME SentAssumption == Sent \subseteq Instruction

chain == <<ledgerVars, configVars, tradeVars, paymentVars>>

-----------------------------------------------------------------------------
(* The accounts of each instruction.  The runtime refuses an instruction   *)
(* that is not signed by its signers, or changes what is not writable.     *)

Metas(signers, writables) == [signs |-> signers, writes |-> signers \cup writables]

\* The token accounts that a client adds for a transfer of token.
TokenMetas(owners, token) == IF token = None THEN {} ELSE {Ata(o, token) : o \in owners}

InitAccounts(i) == Metas({i.signer}, {LegacyVaultPda, ProtocolPda, ConfigPda})

AddOrRemoveOperatorAccounts(i) == Metas({i.signer}, {ConfigPda})

AddOrUpdateWhitelistAccounts(i) == Metas({i.operator}, {WhitelistPda(i.token)})

RemoveWhitelistAccounts(i) == Metas({i.operator}, {WhitelistPda(i.entry)})

SetCloseWaitDurationAccounts(i) == Metas({i.operator}, {ConfigPda})

AddFeeReceiverAccounts(i) == Metas({i.signer}, {ReceiverPda(i.receiver)})

RemoveFeeReceiverAccounts(i) == Metas({i.signer}, {ReceiverPda(i.receiver)})

DepositAccounts(i) ==
    Metas({i.signer, i.ephemeral},
          {TradePda(i.trade), NoncePda(i.ephemeral), VaultPda(i.trade)}
            \cup TokenMetas({i.signer, VaultPda(i.trade)}, i.token))

SetTotalFeeAccounts(i) == Metas({i.signer}, {TradePda(i.trade)})

\* The ephemeral key signs but is the one signer that is not writable.
SettlementAccounts(i) ==
    [signs  |-> {i.signer, i.ephemeral},
     writes |-> {i.signer, i.user, TradePda(i.trade), NoncePda(i.ephemeral),
                 VaultPda(i.trade), i.refund, ProtocolPda, i.pmm}
                  \cup TokenMetas({VaultPda(i.trade), i.pmm, ProtocolPda}, i.token)]

ClaimAccounts(i) ==
    Metas({i.signer},
          {i.user, NoncePda(i.ephemeral), TradePda(i.trade), VaultPda(i.trade), i.refund}
            \cup TokenMetas({VaultPda(i.trade), i.refund, ProtocolPda}, i.token))

CloseFinishedTradeAccounts(i) ==
    Metas({i.signer},
          {i.user, TradePda(i.trade), VaultPda(i.trade)}
            \cup TokenMetas({VaultPda(i.trade), i.user}, i.token))

PaymentAccounts(i) ==
    Metas({i.signer},
          {i.payment.to, ProtocolPda, ReceiptPda(i.payment)}
            \cup TokenMetas({i.signer, i.payment.to, ProtocolPda}, i.payment.token))

ClosePaymentReceiptAccounts(i) == Metas({i.signer}, {ReceiptPda(i.payment)})

\* Mistaken variant: the token account of the signer is passed, and not that
\* of the receiver.
WithdrawTotalFeeAccountsOfSigner(i) ==
    Metas({i.signer},
          {i.to, ProtocolPda} \cup TokenMetas({ProtocolPda, i.signer}, i.token))

WithdrawTotalFeeAccounts(i) ==
    Metas({i.signer},
          {i.to, ProtocolPda} \cup TokenMetas({ProtocolPda, i.to}, i.token))

\* Instructions of other programs with which clients accompany these.
CreateAtaAccounts(i)     == Metas({i.signer}, {Ata(i.owner, i.token)})
CreateNonceAccounts(i)   == Metas({i.signer, i.ephemeral}, {})
WithdrawNonceAccounts(i) == Metas({i.signer}, {i.to, i.ephemeral})

Accounts(i) ==
    CASE i.op = "init"                 -> InitAccounts(i)
      [] i.op = "addOrRemoveOperator"  -> AddOrRemoveOperatorAccounts(i)
      [] i.op = "addOrUpdateWhitelist" -> AddOrUpdateWhitelistAccounts(i)
      [] i.op = "removeWhitelist"      -> RemoveWhitelistAccounts(i)
      [] i.op = "setCloseWaitDuration" -> SetCloseWaitDurationAccounts(i)
      [] i.op = "addFeeReceiver"       -> AddFeeReceiverAccounts(i)
      [] i.op = "removeFeeReceiver"    -> RemoveFeeReceiverAccounts(i)
      [] i.op = "deposit"              -> DepositAccounts(i)
      [] i.op = "setTotalFee"          -> SetTotalFeeAccounts(i)
      [] i.op = "settlement"           -> SettlementAccounts(i)
      [] i.op = "claim"                -> ClaimAccounts(i)
      [] i.op = "closeFinishedTrade"   -> CloseFinishedTradeAccounts(i)
      [] i.op = "payment"              -> PaymentAccounts(i)
      [] i.op = "closePaymentReceipt"  -> ClosePaymentReceiptAccounts(i)
      [] i.op = "withdrawTotalFee"     -> WithdrawTotalFeeAccounts(i)
      [] i.op = "createAta"            -> CreateAtaAccounts(i)
      [] i.op = "createNonce"          -> CreateNonceAccounts(i)
      [] i.op = "withdrawNonce"        -> WithdrawNonceAccounts(i)

-----------------------------------------------------------------------------
(* The entry points.  What the client passes must agree with the trade.    *)

OnConfig(i) ==
    \/ i.op = "init" /\ InitConfig(i.signer, i.admin)
    \/ i.op = "addOrRemoveOperator" /\ i.isAdd /\ AddOperator(i.signer, i.operator)
    \/ i.op = "addOrRemoveOperator" /\ ~i.isAdd /\ RemoveOperator(i.signer, i.operator)
    \/ i.op = "addOrUpdateWhitelist" /\ AddOrUpdateWhitelist(i.operator, i.token, i.amount)
    \/ i.op = "removeWhitelist" /\ RemoveWhitelist(i.operator, i.token, i.entry)
    \/ /\ i.op = "setCloseWaitDuration"
       /\ SetCloseWaitDuration(i.operator, i.closeTrade, i.closePayment)
    \/ i.op = "addFeeReceiver" /\ AddFeeReceiver(i.signer, i.receiver)
    \/ i.op = "removeFeeReceiver" /\ RemoveFeeReceiver(i.signer, i.receiver)

DepositEntry(i) ==
    /\ i.op = "deposit"
    /\ i.signer = Input[i.trade].user
    /\ i.token = Input[i.trade].token
    /\ Deposit(i.trade, i.timeout, i.mpc, i.refund, i.ephemeral)

SetTotalFeeEntry(i) ==
    /\ i.op = "setTotalFee"
    /\ Exists(i.trade) /\ i.signer = tradeDetail[i.trade].mpc
    /\ SetTotalFee(i.trade, i.amount)

SettlementEntry(i) ==
    /\ i.op = "settlement"
    /\ Exists(i.trade)
    /\ LET d == tradeDetail[i.trade]
       IN  /\ i.signer = d.mpc /\ i.ephemeral = d.eph
           /\ i.user = d.user /\ i.refund = d.refund /\ i.token = d.token
    /\ Settlement(i.trade, i.pmm)

ClaimEntry(i) ==
    /\ i.op = "claim"
    /\ Exists(i.trade)
    /\ LET d == tradeDetail[i.trade]
       IN  i.user = d.user /\ i.ephemeral = d.eph /\ i.refund = d.refund /\ i.token = d.token
    /\ Claim(i.trade)

CloseFinishedTradeEntry(i) ==
    /\ i.op = "closeFinishedTrade"
    /\ Exists(i.trade)
    /\ i.user = tradeDetail[i.trade].user /\ i.token = tradeDetail[i.trade].token
    /\ CloseFinishedTrade(i.signer, i.trade)

OnTrade(i) ==
    \/ DepositEntry(i)
    \/ SetTotalFeeEntry(i)
    \/ SettlementEntry(i)
    \/ ClaimEntry(i)
    \/ CloseFinishedTradeEntry(i)

\* Mistaken variant: the payer is an account like any other.
OnPaymentByAnyone(i) ==
    \/ i.op = "payment" /\ Pay(i.payment, i.deadline)
    \/ i.op = "closePaymentReceipt" /\ ClosePaymentReceipt(i.payment)
    \/ i.op = "withdrawTotalFee" /\ WithdrawTotalFee(i.to, i.token, i.amount)

OnPayment(i) ==
    \/ i.op = "payment" /\ i.signer = i.payment.from /\ Pay(i.payment, i.deadline)
    \/ /\ i.op = "closePaymentReceipt"
       /\ i.signer = i.payment.from
       /\ ClosePaymentReceipt(i.payment)
    \/ i.op = "withdrawTotalFee" /\ WithdrawTotalFee(i.to, i.token, i.amount)

Program(i) ==
    \/ OnConfig(i) /\ UNCHANGED <<tradeVars, paymentVars>>
    \/ OnTrade(i) /\ UNCHANGED paymentVars
    \/ OnPayment(i) /\ UNCHANGED tradeVars

\* Either everything is withdrawn, and the account is gone, or its rent stays.
WithdrawNonce(to, e, n) ==
    \/ n = lamports[e] /\ WithdrawNonceAccount(to, e)
    \/ /\ e \in nonceAccount
       /\ lamports[e] - n >= Rent["durable"]
       /\ lamports' = Move(lamports, e, to, n)
       /\ UNCHANGED <<now, atas, tokens, configVars, tradeVars>>

\* The other programs that clients call.
System(i) ==
    \/ /\ i.op = "createAta"
       /\ CreateAta(i.signer, i.owner, i.token)
       /\ UNCHANGED <<configVars, tradeVars, paymentVars>>
    \/ /\ i.op = "createNonce"
       /\ CreateNonceAccount(i.signer, i.ephemeral)
       /\ UNCHANGED paymentVars
    \/ /\ i.op = "withdrawNonce"
       /\ WithdrawNonce(i.to, i.ephemeral, i.lamports)
       /\ UNCHANGED paymentVars

Execute(i) == Program(i) \/ System(i)

-----------------------------------------------------------------------------
InterfaceInit == TradeInit /\ PaymentInit

InterfaceNext ==
    \/ \E i \in Sent : Execute(i)
    \/ LedgerNext /\ UNCHANGED <<configVars, tradeVars, paymentVars>>

InterfaceSpec == InterfaceInit /\ [][InterfaceNext]_chain

-----------------------------------------------------------------------------
\* The addresses whose lamports, tokens or data a step changes.
Changed ==
    {a \in Account : lamports'[a] # lamports[a]}
      \cup {a \in TokenAccount : tokens'[a] # tokens[a] \/ (a \in atas)' # (a \in atas)}
      \cup (IF config' = config THEN {} ELSE {ConfigPda})
      \cup {WhitelistPda(m) : m \in {n \in Mints : whitelist'[n] # whitelist[n]}}
      \cup {ReceiverPda(k) : k \in {r \in Wallets : (r \in feeReceivers)' # (r \in feeReceivers)}}
      \cup {TradePda(t) : t \in {u \in TradeIds : tradeDetail'[u] # tradeDetail[u]}}
      \cup {VaultPda(t) : t \in {u \in TradeIds : (u \in tradeVault)' # (u \in tradeVault)}}
      \cup {NoncePda(e) : e \in {f \in Ephemerals : (f \in nonceCheck)' # (f \in nonceCheck)}}
      \cup {ReceiptPda(p) : p \in {q \in Payments : receipts'[q] # receipts[q]}}

(* Action property.  Every account that an instruction changes, rent that  *)
(* a close sends elsewhere and token accounts that the client has to add   *)
(* included, is among those it declares writable: the runtime never has a  *)
(* reason to refuse what the program allows.                               *)
WritesDeclared == [][\A i \in Sent : Execute(i) => Changed \subseteq Accounts(i).writes]_chain

(* Action property.  No instruction, of whomever, in whatever state, takes *)
(* lamports or tokens from a wallet that has not signed it.                *)
NobodyPaysUnsigned ==
    [][\A i \in Sent : Execute(i) => \A k \in Wallets \ Accounts(i).signs :
          /\ lamports'[k] >= lamports[k]
          /\ \A m \in Mints : tokens'[Ata(k, m)] >= tokens[Ata(k, m)]
      ]_chain
====
