-------------------------- MODULE Interface_proofs ---------------------------
(***************************************************************************)
(* Trades, payments and configuration together, as clients reach them.     *)
(* Every instruction is a step of one of the specifications that module    *)
(* Interface composes, or the withdrawal of a part of a nonce account.     *)
(* What each of them guarantees alone, they guarantee together.            *)
(***************************************************************************)
EXTENDS Watch, TradeValue_proofs, Payment_proofs

(* The arguments of the instructions for the configuration.                *)
LEMMA ConfigArguments ==
  ASSUME NEW i \in Instruction
  PROVE  /\ i.op = "init" => i.signer \in Wallets /\ i.admin \in Admins \cup {None}
         /\ i.op = "addOrRemoveOperator" => i.signer \in Wallets /\ i.operator \in Wallets
         /\ i.op = "addOrUpdateWhitelist" =>
              i.operator \in Wallets /\ i.token \in Mints /\ i.amount \in MinAmounts
         /\ i.op = "removeWhitelist" =>
              i.operator \in Wallets /\ i.token \in Mints /\ i.entry \in Mints
         /\ i.op = "setCloseWaitDuration" =>
              /\ i.operator \in Wallets
              /\ i.closeTrade \in Durations \cup {None} /\ i.closePayment \in Durations \cup {None}
         /\ i.op \in {"addFeeReceiver", "removeFeeReceiver"} =>
              i.signer \in Wallets /\ i.receiver \in Wallets
  BY DEF Instruction

(* The arguments of the instructions for trades.                           *)
LEMMA TradeArguments ==
  ASSUME NEW i \in Instruction
  PROVE  /\ i.op = "deposit" =>
              /\ i.trade \in TradeIds /\ i.timeout \in Timeouts /\ i.mpc \in Mpcs
              /\ i.refund \in Refunds /\ i.ephemeral \in Ephemerals
         /\ i.op = "setTotalFee" => i.trade \in TradeIds /\ i.amount \in Fees
         /\ i.op = "settlement" => i.trade \in TradeIds /\ i.pmm \in Pmms
         /\ i.op = "claim" => i.trade \in TradeIds
         /\ i.op = "closeFinishedTrade" => i.signer \in Wallets /\ i.trade \in TradeIds
  BY DEF Instruction

(* The arguments of those for payments and for other programs.             *)
LEMMA OtherArguments ==
  ASSUME NEW i \in Instruction
  PROVE  /\ i.op = "payment" => i.payment \in Payments /\ i.deadline \in Deadlines
         /\ i.op = "closePaymentReceipt" => i.payment \in Payments
         /\ i.op = "withdrawTotalFee" =>
              /\ i.to \in Wallets /\ i.token \in Mints \cup {None} /\ i.amount \in Nat
         /\ i.op = "createAta" =>
              i.signer \in Wallets /\ i.owner \in Owner /\ i.token \in Mints
         /\ i.op = "createNonce" => i.signer \in Wallets /\ i.ephemeral \in Ephemerals
         /\ i.op = "withdrawNonce" =>
              i.to \in Wallets /\ i.ephemeral \in Ephemerals /\ i.lamports \in Nat
  BY LedgerAssumption, PaymentBounds DEF Instruction

-----------------------------------------------------------------------------
\* A part of a durable nonce account is withdrawn.
PartWithdrawn ==
    /\ \E to \in Wallets, e \in Ephemerals, n \in Nat :
          /\ e \in nonceAccount /\ lamports[e] - n >= Rent["durable"]
          /\ lamports' = Move(lamports, e, to, n)
    /\ UNCHANGED <<now, atas, tokens, configVars, tradeVars>>

\* What the handlers' bounds ask of the arguments.  What else an instruction
\* says they compare with the trade.
WithinBounds(i) ==
    /\ i.op = "init" => i.signer \in Wallets /\ i.admin \in Admins \cup {None}
    /\ i.op = "addOrRemoveOperator" => i.signer \in Wallets /\ i.operator \in Wallets
    /\ i.op = "addOrUpdateWhitelist" =>
         i.operator \in Wallets /\ i.token \in Mints /\ i.amount \in MinAmounts
    /\ i.op = "removeWhitelist" =>
         i.operator \in Wallets /\ i.token \in Mints /\ i.entry \in Mints
    /\ i.op = "setCloseWaitDuration" =>
         /\ i.operator \in Wallets
         /\ i.closeTrade \in Durations \cup {None} /\ i.closePayment \in Durations \cup {None}
    /\ i.op \in {"addFeeReceiver", "removeFeeReceiver"} =>
         i.signer \in Wallets /\ i.receiver \in Wallets
    /\ i.op = "deposit" =>
         /\ i.trade \in TradeIds /\ i.timeout \in Timeouts /\ i.mpc \in Mpcs
         /\ i.refund \in Refunds /\ i.ephemeral \in Ephemerals
    /\ i.op = "setTotalFee" => i.trade \in TradeIds /\ i.amount \in Fees
    /\ i.op = "settlement" => i.trade \in TradeIds /\ i.pmm \in Pmms
    /\ i.op = "claim" => i.trade \in TradeIds
    /\ i.op = "closeFinishedTrade" => i.signer \in Wallets /\ i.trade \in TradeIds
    /\ i.op = "payment" => i.payment \in Payments /\ i.deadline \in Deadlines
    /\ i.op = "closePaymentReceipt" => i.payment \in Payments
    /\ i.op = "withdrawTotalFee" =>
         /\ i.to \in Wallets /\ i.token \in Mints \cup {None} /\ i.amount \in Nat
    /\ i.op = "createAta" => i.signer \in Wallets
    /\ i.op = "createNonce" => i.signer \in Wallets /\ i.ephemeral \in Ephemerals
    /\ i.op = "withdrawNonce" =>
         i.to \in Wallets /\ i.ephemeral \in Ephemerals /\ i.lamports \in Nat

(* So it is of everything that can be sent.                                *)
LEMMA InstructionBounds ==
  ASSUME NEW i \in Instruction
  PROVE  WithinBounds(i)
  BY ConfigArguments, TradeArguments, OtherArguments DEF WithinBounds

(* An instruction for the configuration is a step of Config.               *)
LEMMA ConfigSent ==
  ASSUME NEW i, WithinBounds(i), OnConfig(i)
  PROVE  ConfigNext
  BY DEF WithinBounds, OnConfig, ConfigNext

(* An instruction for a trade is a step of Trade.                          *)
LEMMA TradeSent ==
  ASSUME NEW i, WithinBounds(i), OnTrade(i)
  PROVE  TradeStep
  <1>1. CASE DepositEntry(i)
    BY <1>1 DEF WithinBounds, DepositEntry, TradeStep
  <1>2. CASE SetTotalFeeEntry(i)
    BY <1>2 DEF WithinBounds, SetTotalFeeEntry, TradeStep
  <1>3. CASE SettlementEntry(i)
    BY <1>3 DEF WithinBounds, SettlementEntry, TradeStep
  <1>4. CASE ClaimEntry(i)
    BY <1>4 DEF WithinBounds, ClaimEntry, TradeStep
  <1>5. CASE CloseFinishedTradeEntry(i)
    BY <1>5 DEF WithinBounds, CloseFinishedTradeEntry, TradeStep
  <1> QED
    BY <1>1, <1>2, <1>3, <1>4, <1>5 DEF OnTrade

(* An instruction for a payment is a step of Payment.                      *)
LEMMA PaymentSent ==
  ASSUME NEW i, WithinBounds(i), OnPayment(i)
  PROVE  AnyPaymentStep
  BY DEF WithinBounds, OnPayment, AnyPaymentStep

(* What clients ask of other programs is a step of Trade or of the ledger. *)
LEMMA SystemSent ==
  ASSUME NEW i, WithinBounds(i), System(i)
  PROVE  /\ UNCHANGED paymentVars
         /\ \/ AnyNonceStep
            \/ PartWithdrawn
            \/ AnyLedgerNext /\ UNCHANGED <<configVars, tradeVars>>
  <1>1. CASE i.op = "createAta" /\ CreateAta(i.signer, i.owner, i.token)
             /\ UNCHANGED <<configVars, tradeVars, paymentVars>>
    <2>1. PICK o \in Owner, m \in Mints : Ata(i.owner, i.token) = Ata(o, m)
      BY <1>1, LedgerAssumption DEF CreateAta, TokenAccount
    <2>2. i.owner = o /\ i.token = m
      BY <2>1 DEF Ata
    <2> QED  BY <1>1, <2>2 DEF WithinBounds, AnyLedgerNext, LedgerNext
  <1>2. CASE i.op = "createNonce" /\ CreateNonceAccount(i.signer, i.ephemeral)
             /\ UNCHANGED paymentVars
    BY <1>2 DEF WithinBounds, AnyNonceStep
  <1>3. CASE i.op = "withdrawNonce" /\ WithdrawNonce(i.to, i.ephemeral, i.lamports)
             /\ UNCHANGED paymentVars
    <2>1. i.to \in Wallets /\ i.ephemeral \in Ephemerals /\ i.lamports \in Nat
      BY <1>3 DEF WithinBounds
    <2>2. CASE WithdrawNonceAccount(i.to, i.ephemeral)
      BY <1>3, <2>1, <2>2 DEF AnyNonceStep
    <2>3. CASE ~WithdrawNonceAccount(i.to, i.ephemeral)
      BY <1>3, <2>1, <2>3 DEF WithdrawNonce, PartWithdrawn
    <2> QED  BY <2>2, <2>3
  <1> QED
    BY <1>1, <1>2, <1>3 DEF System

\* Any instruction at all, with arguments in their bounds, or a step of others.
AnyNext ==
    \/ \E i : WithinBounds(i) /\ Execute(i)
    \/ AnyLedgerNext /\ UNCHANGED <<configVars, tradeVars, paymentVars>>

(* What Interface sends is among it.                                       *)
LEMMA SentAllowed == [InterfaceNext]_chain => [AnyNext]_chain
  BY SentAssumption, InstructionBounds DEF InterfaceNext, AnyNext, AnyLedgerNext

(* What can be sent are steps of the components.                           *)
LEMMA InterfaceSteps ==
  ASSUME [AnyNext]_chain
  PROVE  \/ TradeStep /\ UNCHANGED paymentVars
         \/ AnyNonceStep /\ UNCHANGED paymentVars
         \/ PartWithdrawn /\ UNCHANGED paymentVars
         \/ AnyPaymentStep /\ UNCHANGED tradeVars
         \/ ConfigNext /\ UNCHANGED <<tradeVars, paymentVars>>
         \/ AnyLedgerNext /\ UNCHANGED <<configVars, tradeVars, paymentVars>>
         \/ UNCHANGED chain
  <1>1. ASSUME NEW i, WithinBounds(i), Execute(i)
        PROVE  \/ TradeStep /\ UNCHANGED paymentVars
               \/ AnyNonceStep /\ UNCHANGED paymentVars
               \/ PartWithdrawn /\ UNCHANGED paymentVars
               \/ AnyPaymentStep /\ UNCHANGED tradeVars
               \/ ConfigNext /\ UNCHANGED <<tradeVars, paymentVars>>
               \/ AnyLedgerNext /\ UNCHANGED <<configVars, tradeVars, paymentVars>>
    <2>1. CASE Program(i)
      BY <1>1, <2>1, ConfigSent, TradeSent, PaymentSent DEF Program
    <2>2. CASE System(i)
      BY <1>1, <2>2, SystemSent
    <2> QED  BY <1>1, <2>1, <2>2 DEF Execute
  <1> QED
    BY <1>1 DEF AnyNext

-----------------------------------------------------------------------------
(* What a step takes, and from whom.                                       *)

\* From bal to after, only balances in W change and only those in P shrink.
Moved(S, bal, after, W, P) ==
    /\ after \in [S -> Int]
    /\ \A x \in S \ W : after[x] = bal[x]
    /\ \A x \in S \ P : after[x] >= bal[x]

(* Nothing moved.                                                          *)
LEMMA NotMoved ==
  ASSUME NEW S, NEW bal \in [S -> Int], NEW W, NEW P
  PROVE  Moved(S, bal, bal, W, P)
  BY DEF Moved

(* Two movements are one.                                                  *)
LEMMA MovedTwice ==
  ASSUME NEW S, NEW bal \in [S -> Int], NEW between, NEW after, NEW W, NEW P,
         Moved(S, bal, between, W, P), Moved(S, between, after, W, P)
  PROVE  Moved(S, bal, after, W, P)
  BY DEF Moved

(* A transfer takes from the sender.                                       *)
LEMMA MoveMoved ==
  ASSUME NEW S, NEW bal \in [S -> Int], NEW W, NEW P, NEW from \in S, from \in W, from \in P,
         NEW to \in S, to \in W, NEW n \in Int, n >= 0
  PROVE  Moved(S, bal, Move(bal, from, to, n), W, P)
  BY DEF Moved, Move

(* Opening an account takes from the payer.                                *)
LEMMA FundMoved ==
  ASSUME NEW S, NEW bal \in [S -> Int], NEW W, NEW P, NEW payer \in S, payer \in W, payer \in P,
         NEW a \in S, a \in W, NEW min \in Int
  PROVE  Moved(S, bal, Fund(bal, payer, a, min), W, P)
  <1> DEFINE n == IF bal[a] < min THEN min - bal[a] ELSE 0
  <1>1. n \in Int /\ n >= 0
    OBVIOUS
  <1>2. Fund(bal, payer, a, min) = Move(bal, payer, a, n)
    BY DEF Fund
  <1> HIDE DEF n
  <1> QED
    BY <1>1, <1>2, MoveMoved

(* Closing an account takes from that account.                             *)
LEMMA DrainMoved ==
  ASSUME NEW S, NEW bal \in [S -> Int], NEW W, NEW P, NEW a \in S, a \in W, a \in P,
         NEW to \in S, to \in W, bal[a] >= 0
  PROVE  Moved(S, bal, Drain(bal, a, to), W, P)
  BY MoveMoved DEF Drain

(* A token transfer takes from the sender's token account.                 *)
LEMMA SplTransferMoved ==
  ASSUME NEW bal \in [TokenAccount -> Int], NEW W, NEW P,
         NEW from \in Owner, NEW to \in Owner, NEW m \in Mints,
         {Ata(from, m), Ata(to, m)} \subseteq W, Ata(from, m) \in P,
         NEW n \in Int, n >= 0,
         NEW fee, fee # None => fee \in Int /\ fee >= 0 /\ Ata(ProtocolPda, m) \in W
  PROVE  Moved(TokenAccount, bal, SplTransfer(bal, from, to, m, n, fee), W, P)
  <1> DEFINE first == Move(bal, Ata(from, m), Ata(to, m), n)
  <1>1. {Ata(from, m), Ata(to, m), Ata(ProtocolPda, m)} \subseteq TokenAccount
    BY Addresses DEF Recipient
  <1>2. Moved(TokenAccount, bal, first, W, P)
    BY <1>1, MoveMoved
  <1>3. CASE fee = None
    BY <1>2, <1>3 DEF SplTransfer
  <1>4. CASE fee # None
    <2>1. SplTransfer(bal, from, to, m, n, fee) = Move(first, Ata(from, m), Ata(ProtocolPda, m), fee)
      BY <1>4 DEF SplTransfer
    <2>2. first \in [TokenAccount -> Int]
      BY <1>2 DEF Moved
    <2> HIDE DEF first
    <2>3. Moved(TokenAccount, first, Move(first, Ata(from, m), Ata(ProtocolPda, m), fee), W, P)
      BY <1>1, <1>4, <2>2, MoveMoved
    <2> QED  BY <1>2, <2>1, <2>3, MovedTwice
  <1> QED
    BY <1>3, <1>4

\* A step changes lamports and tokens of W only, and takes lamports from L
\* and tokens from T only.
Taken(W, L, T) ==
    /\ Moved(Account, lamports, lamports', W, L)
    /\ Moved(TokenAccount, tokens, tokens', W, T)

(* A step that opens, closes or gives one account moves no tokens.         *)
LEMMA OneMoved ==
  ASSUME LedgerTypeOK, NEW W, NEW L, NEW T, UNCHANGED tokens,
         NEW from \in Account, from \in W, from \in L, NEW to \in Account, to \in W,
         NEW n \in Int,
         \/ lamports' = Fund(lamports, from, to, n)
         \/ lamports' = Drain(lamports, from, to)
         \/ lamports' = Move(lamports, from, to, n) /\ n >= 0
         \/ lamports' = lamports
  PROVE  Taken(W, L, T)
  <1>1. /\ lamports \in [Account -> Int] /\ tokens \in [TokenAccount -> Int]
        /\ lamports[from] >= 0
    BY DEF LedgerTypeOK
  <1>2. Moved(TokenAccount, tokens, tokens', W, T)
    BY <1>1, NotMoved
  <1>3. Moved(Account, lamports, lamports', W, L)
    BY <1>1, NotMoved, FundMoved, DrainMoved, MoveMoved
  <1> QED
    BY <1>2, <1>3 DEF Taken

(* A step that moves nothing.                                              *)
LEMMA NothingTaken ==
  ASSUME LedgerTypeOK, NEW W, NEW L, NEW T, UNCHANGED <<lamports, tokens>>
  PROVE  Taken(W, L, T)
  BY NotMoved DEF LedgerTypeOK, Taken

(* init opens its accounts from the wallet of the signer.                  *)
LEMMA InitTakes ==
  ASSUME LedgerTypeOK, NEW signer \in Wallets, NEW admin, InitConfig(signer, admin),
         NEW W, {signer, LegacyVaultPda, ProtocolPda, ConfigPda} \subseteq W,
         NEW L, signer \in L, NEW T
  PROVE  Taken(W, L, T)
  <1> DEFINE legacy   == Fund(lamports, signer, LegacyVaultPda, Rent["wallet"])
             protocol == Fund(legacy, signer, ProtocolPda, Rent["wallet"])
             whole    == Fund(protocol, signer, ConfigPda, Rent["config"])
  <1>0. /\ lamports \in [Account -> Int] /\ tokens' = tokens
        /\ {signer, LegacyVaultPda, ProtocolPda, ConfigPda} \subseteq Account
        /\ Rent["wallet"] \in Int /\ Rent["config"] \in Int
    BY Addresses, Rents DEF LedgerTypeOK, InitConfig
  <1>1. Moved(Account, lamports, legacy, W, L)
    BY <1>0, FundMoved
  <1>2. legacy \in [Account -> Int]
    BY <1>1 DEF Moved
  <1> HIDE DEF legacy
  <1>3. Moved(Account, legacy, protocol, W, L)
    BY <1>0, <1>2, FundMoved
  <1>4. protocol \in [Account -> Int]
    BY <1>3 DEF Moved
  <1> HIDE DEF protocol
  <1>5. Moved(Account, protocol, whole, W, L)
    BY <1>0, <1>4, FundMoved
  <1>6. FundInit(signer) = whole
    BY DEF FundInit, legacy, protocol
  <1> HIDE DEF whole
  <1>7. Moved(Account, lamports, whole, W, L)
    BY <1>0, <1>1, <1>2, <1>3, <1>4, <1>5, MovedTwice
  <1>8. lamports' \in {lamports, whole}
    BY <1>6 DEF InitConfig
  <1>9. Moved(Account, lamports, lamports', W, L)
    BY <1>0, <1>7, <1>8, NotMoved
  <1>10. Moved(TokenAccount, tokens, tokens', W, T)
    BY <1>0, NotMoved DEF LedgerTypeOK
  <1> QED
    BY <1>9, <1>10 DEF Taken

(* deposit takes from the depositor.                                       *)
LEMMA DepositTakes ==
  ASSUME TradeTypeOK, NEW t \in TradeIds, NEW e \in Ephemerals, DepositFunds(t, e),
         NEW W, {Input[t].user, TradePda(t), NoncePda(e), VaultPda(t)} \subseteq W,
         Input[t].token # None =>
            {Ata(Input[t].user, Input[t].token), Ata(VaultPda(t), Input[t].token)} \subseteq W,
         NEW L, Input[t].user \in L,
         NEW T, Input[t].token # None => Ata(Input[t].user, Input[t].token) \in T
  PROVE  Taken(W, L, T)
  <1> DEFINE user   == Input[t].user
             amount == Input[t].amount
             detail == Fund(lamports, user, TradePda(t), Rent["trade"])
             nonce  == Fund(detail, user, NoncePda(e), Rent["nonce"])
             funded == FundTrade(t, e)
  <1>0. /\ lamports \in [Account -> Int] /\ tokens \in [TokenAccount -> Int]
        /\ {user, TradePda(t), NoncePda(e), VaultPda(t)} \subseteq Account
        /\ user \in Owner /\ VaultPda(t) \in Owner
        /\ amount \in Int /\ amount >= 0 /\ Input[t].token \in Mints \cup {None}
        /\ \A kind \in {"trade", "nonce", "vault"} : Rent[kind] \in Int
    BY InputFacts, LedgerFacts, Addresses, Rents
  <1>1. funded = Fund(nonce, user, VaultPda(t), Rent["vault"])
    BY DEF FundTrade
  <1>2. /\ Input[t].token = None =>
             lamports' = Move(funded, user, VaultPda(t), amount) /\ tokens' = tokens
        /\ Input[t].token # None =>
             /\ lamports' = funded
             /\ tokens' = SplTransfer(tokens, user, VaultPda(t), Input[t].token, amount, None)
    BY DEF DepositFunds
  <1>3. {user, TradePda(t), NoncePda(e), VaultPda(t)} \subseteq W /\ user \in L
    OBVIOUS
  <1> HIDE DEF funded, user, amount
  <1>4. Moved(Account, lamports, detail, W, L)
    BY <1>0, <1>3, FundMoved
  <1>5. detail \in [Account -> Int]
    BY <1>4 DEF Moved
  <1> HIDE DEF detail
  <1>6. Moved(Account, detail, nonce, W, L)
    BY <1>0, <1>3, <1>5, FundMoved
  <1>7. nonce \in [Account -> Int]
    BY <1>6 DEF Moved
  <1> HIDE DEF nonce
  <1>8. Moved(Account, nonce, funded, W, L)
    BY <1>0, <1>1, <1>3, <1>7, FundMoved
  <1>9. funded \in [Account -> Int] /\ Moved(Account, lamports, funded, W, L)
    BY <1>0, <1>4, <1>5, <1>6, <1>7, <1>8, MovedTwice DEF Moved
  <1>10. Moved(Account, lamports, Move(funded, user, VaultPda(t), amount), W, L)
    BY <1>0, <1>3, <1>9, MoveMoved, MovedTwice
  <1>11. Input[t].token # None =>
           Moved(TokenAccount, tokens,
                 SplTransfer(tokens, user, VaultPda(t), Input[t].token, amount, None), W, T)
    BY <1>0, SplTransferMoved DEF user
  <1>12. Moved(TokenAccount, tokens, tokens, W, T)
    BY <1>0, NotMoved
  <1> QED
    BY <1>2, <1>9, <1>10, <1>11, <1>12 DEF Taken

(* Closing the nonce check after a payout takes its rent for the depositor. *)
LEMMA NonceCloseTakes ==
  ASSUME TradeTypeOK, NEW t \in TradeIds, Exists(t),
         NEW W, {tradeDetail[t].user, NoncePda(tradeDetail[t].eph)} \subseteq W,
         NEW L, NoncePda(tradeDetail[t].eph) \in L,
         NEW after, Moved(Account, lamports, after, W, L),
         after[NoncePda(tradeDetail[t].eph)] >= 0,
         lamports' = CloseNonceCheck(t, after)
  PROVE  Moved(Account, lamports, lamports', W, L)
  <1>1. /\ lamports \in [Account -> Int] /\ after \in [Account -> Int]
        /\ {tradeDetail[t].user, NoncePda(tradeDetail[t].eph)} \subseteq Account
    BY LedgerFacts, DetailFacts, Addresses DEF Moved
  <1>2. Moved(Account, after, lamports', W, L)
    BY <1>1, DrainMoved DEF CloseNonceCheck
  <1> QED
    BY <1>1, <1>2, MovedTwice

(* settlement takes from the vault and the nonce check.                    *)
LEMMA SettlementTakes ==
  ASSUME TradeTypeOK, NEW t \in TradeIds, NEW pmm \in Pmms, Settlement(t, pmm),
         NEW d, d = tradeDetail[t],
         NEW W, {d.user, NoncePda(d.eph), VaultPda(t), ProtocolPda, pmm} \subseteq W,
         d.token # None =>
            {Ata(VaultPda(t), d.token), Ata(pmm, d.token), Ata(ProtocolPda, d.token)} \subseteq W,
         NEW L, {NoncePda(d.eph), VaultPda(t)} \subseteq L,
         NEW T, d.token # None => Ata(VaultPda(t), d.token) \in T
  PROVE  Taken(W, L, T)
  <1> DEFINE taken   == [lamports EXCEPT ![VaultPda(t)] = @ - d.amount]
             settled == [taken EXCEPT ![pmm] = @ + SettlementAmount(t)]
             after   == [settled EXCEPT ![ProtocolPda] = @ + Fee(t)]
  <1>0. /\ lamports \in [Account -> Nat] /\ tokens \in [TokenAccount -> Int]
        /\ Exists(t) /\ d.token \in Mints \cup {None} /\ d.amount \in Nat
        /\ Fee(t) \in Nat /\ SettlementAmount(t) \in Nat
        /\ {NoncePda(d.eph), VaultPda(t), ProtocolPda, pmm} \subseteq Account
        /\ VaultPda(t) \in Owner /\ pmm \in Owner /\ d.totalFee \in Nat \cup {None}
        /\ VaultPda(t) # NoncePda(d.eph)
        /\ PayPmm(t, pmm)
    <2>1. Exists(t) /\ Fee(t) <= tradeDetail[t].amount /\ PayPmm(t, pmm)
      BY DEF Settlement, AssertSettlement, Open
    <2>2. /\ VaultPda(t) # NoncePda(d.eph)
          /\ pmm \in Account /\ pmm \in Owner
      BY PdasApart, Addresses, TradeBounds
    <2>3. tokens \in [TokenAccount -> Int]
      BY LedgerFacts
    <2> QED  BY <2>1, <2>2, <2>3, LedgerFacts, DetailFacts, FeeFacts, Addresses
  <1>1. CASE d.token = None
    <2>1. /\ lamports[VaultPda(t)] >= d.amount
          /\ lamports' = CloseNonceCheck(t, after) /\ tokens' = tokens
      BY <1>0, <1>1 DEF PayPmm
    <2>2. Moved(Account, lamports, after, W, L) /\ after[NoncePda(d.eph)] >= 0
      BY <1>0, <2>1 DEF Moved
    <2> HIDE DEF after
    <2>3. Moved(Account, lamports, lamports', W, L)
      BY <1>0, <2>1, <2>2, NonceCloseTakes
    <2> QED  BY <1>0, <2>1, <2>3, NotMoved DEF Taken
  <1>2. CASE d.token # None
    <2>1. /\ tokens' = SplTransfer(tokens, VaultPda(t), pmm, d.token, SettlementAmount(t),
                                   d.totalFee)
          /\ lamports' = CloseNonceCheck(t, lamports)
      BY <1>0, <1>2 DEF PayPmm
    <2>2. Moved(Account, lamports, lamports, W, L) /\ lamports[NoncePda(d.eph)] >= 0
      BY <1>0, NotMoved
    <2>3. Moved(Account, lamports, lamports', W, L)
      BY <1>0, <2>1, <2>2, NonceCloseTakes
    <2>4. Moved(TokenAccount, tokens, tokens', W, T)
      BY <1>0, <1>2, <2>1, SplTransferMoved
    <2> QED  BY <2>3, <2>4 DEF Taken
  <1> QED
    BY <1>1, <1>2

(* claim takes from the vault and the nonce check.                         *)
LEMMA ClaimTakes ==
  ASSUME TradeTypeOK, NEW t \in TradeIds, Claim(t), NEW d, d = tradeDetail[t],
         NEW W, {d.user, NoncePda(d.eph), VaultPda(t), d.refund} \subseteq W,
         d.token # None => {Ata(VaultPda(t), d.token), Ata(d.refund, d.token)} \subseteq W,
         NEW L, {NoncePda(d.eph), VaultPda(t)} \subseteq L,
         NEW T, d.token # None => Ata(VaultPda(t), d.token) \in T
  PROVE  Taken(W, L, T)
  <1> DEFINE after == Move(lamports, VaultPda(t), d.refund, d.amount)
  <1>0. /\ lamports \in [Account -> Nat] /\ lamports \in [Account -> Int]
        /\ tokens \in [TokenAccount -> Int]
        /\ Exists(t) /\ d.token \in Mints \cup {None} /\ d.amount \in Int /\ d.amount >= 0
        /\ {NoncePda(d.eph), VaultPda(t), d.refund} \subseteq Account
        /\ VaultPda(t) \in Owner /\ d.refund \in Owner
        /\ VaultPda(t) # NoncePda(d.eph)
        /\ PayRefund(t)
    <2>1. Exists(t) /\ PayRefund(t)
      BY DEF Claim, AssertClaim, Open
    <2>2. VaultPda(t) # NoncePda(d.eph)
      BY PdasApart
    <2>3. tokens \in [TokenAccount -> Int]
      BY LedgerFacts
    <2> QED  BY <2>1, <2>2, <2>3, LedgerFacts, DetailFacts, Addresses
  <1>1. CASE d.token = None
    <2>1. lamports' = CloseNonceCheck(t, after) /\ tokens' = tokens
      BY <1>0, <1>1 DEF PayRefund
    <2>2. Moved(Account, lamports, after, W, L)
      BY <1>0, MoveMoved
    <2>3. after[NoncePda(d.eph)] >= 0
      BY <1>0 DEF Move
    <2> HIDE DEF after
    <2>4. Moved(Account, lamports, lamports', W, L)
      BY <1>0, <2>1, <2>2, <2>3, NonceCloseTakes
    <2> QED  BY <1>0, <2>1, <2>4, NotMoved DEF Taken
  <1>2. CASE d.token # None
    <2>1. /\ tokens' = SplTransfer(tokens, VaultPda(t), d.refund, d.token, d.amount, None)
          /\ lamports' = CloseNonceCheck(t, lamports)
      BY <1>0, <1>2 DEF PayRefund
    <2>2. Moved(Account, lamports, lamports, W, L) /\ lamports[NoncePda(d.eph)] >= 0
      BY <1>0, NotMoved
    <2>3. Moved(Account, lamports, lamports', W, L)
      BY <1>0, <2>1, <2>2, NonceCloseTakes
    <2>4. Moved(TokenAccount, tokens, tokens', W, T)
      BY <1>0, <1>2, <2>1, SplTransferMoved
    <2> QED  BY <2>3, <2>4 DEF Taken
  <1> QED
    BY <1>1, <1>2

(* close_finished_trade takes from the accounts that it closes.            *)
LEMMA CloseTakes ==
  ASSUME TradeTypeOK, NEW signer \in Wallets, NEW t \in TradeIds, CloseFinishedTrade(signer, t),
         NEW d, d = tradeDetail[t],
         NEW W, {d.user, TradePda(t), VaultPda(t)} \subseteq W,
         d.token # None => {Ata(VaultPda(t), d.token), Ata(d.user, d.token)} \subseteq W,
         NEW L, {TradePda(t), VaultPda(t)} \subseteq L,
         d.token # None => Ata(VaultPda(t), d.token) \in L,
         NEW T, d.token # None => Ata(VaultPda(t), d.token) \in T
  PROVE  Taken(W, L, T)
  <1> DEFINE ata   == Ata(VaultPda(t), d.token)
             first == IF d.token = None THEN lamports ELSE Drain(lamports, ata, d.user)
             next  == Drain(first, TradePda(t), d.user)
  <1>0. /\ lamports \in [Account -> Nat] /\ tokens \in [TokenAccount -> Nat]
        /\ d.token \in Mints \cup {None}
        /\ {d.user, TradePda(t), VaultPda(t)} \subseteq Account
        /\ d.user \in Owner /\ VaultPda(t) \in Owner
        /\ d.user \notin {TradePda(t), VaultPda(t)} /\ d.user \notin TokenAccount
    <2>1. Exists(t)
      BY DEF CloseFinishedTrade, AssertCloseFinishedTrade, Finished
    <2> QED  BY <2>1, LedgerFacts, DetailFacts, Addresses, KeysApart
  <1>1. d.token # None => /\ ata \in TokenAccount /\ ata \in Account
                          /\ Ata(d.user, d.token) \in TokenAccount
    BY <1>0, Addresses
  <1>2. /\ lamports' = Drain(next, VaultPda(t), d.user)
        /\ d.token = None => tokens' = tokens
        /\ d.token # None => tokens' = Drain(tokens, ata, Ata(d.user, d.token))
    BY DEF CloseFinishedTrade, CloseTradeLamports, CloseVaultAta
  <1>3. /\ d.token # None => {ata, Ata(d.user, d.token)} \subseteq W /\ ata \in L /\ ata \in T
    OBVIOUS
  <1> HIDE DEF ata
  <1>4. first \in [Account -> Nat] /\ Moved(Account, lamports, first, W, L)
    <2>1. CASE d.token = None
      BY <1>0, <2>1, NotMoved
    <2>2. CASE d.token # None
      BY <1>0, <1>1, <1>3, <2>2, DrainNat, DrainMoved
    <2> QED  BY <2>1, <2>2
  <1> HIDE DEF first
  <1>5. next \in [Account -> Nat] /\ Moved(Account, first, next, W, L)
    BY <1>0, <1>4, DrainNat, DrainMoved
  <1> HIDE DEF next
  <1>6. Moved(Account, next, lamports', W, L)
    BY <1>0, <1>2, <1>5, DrainMoved
  <1>7. Moved(Account, lamports, lamports', W, L)
    <2>1. lamports \in [Account -> Int]
      BY <1>0
    <2> QED  BY <1>4, <1>5, <1>6, <2>1, MovedTwice
  <1>8. Moved(TokenAccount, tokens, tokens', W, T)
    <2>1. CASE d.token = None
      BY <1>0, <1>2, <2>1, NotMoved
    <2>2. CASE d.token # None
      BY <1>0, <1>1, <1>2, <1>3, <2>2, DrainMoved
    <2> QED  BY <2>1, <2>2
  <1> QED
    BY <1>7, <1>8 DEF Taken

(* payment takes from the payer.                                           *)
LEMMA PayTakes ==
  ASSUME LedgerTypeOK, NEW p \in Payments, p.amount > p.fee, PayFunds(p),
         NEW W, {p.from, p.to, ProtocolPda, ReceiptPda(p)} \subseteq W,
         p.token # None =>
            {Ata(p.from, p.token), Ata(p.to, p.token), Ata(ProtocolPda, p.token)} \subseteq W,
         NEW L, p.from \in L,
         NEW T, p.token # None => Ata(p.from, p.token) \in T
  PROVE  Taken(W, L, T)
  <1> DEFINE opened == OpenReceipt(p)
             sent   == Move(opened, p.from, p.to, PaymentAmount(p))
  <1>0. /\ lamports \in [Account -> Int] /\ tokens \in [TokenAccount -> Int]
        /\ {p.from, p.to, ProtocolPda, ReceiptPda(p)} \subseteq Account
        /\ p.from \in Owner /\ p.to \in Owner /\ p.token \in Mints \cup {None}
        /\ p.fee \in Int /\ p.fee >= 0 /\ PaymentAmount(p) \in Int /\ PaymentAmount(p) >= 0
        /\ Rent["receipt"] \in Int
    BY PaymentFacts, Addresses, LedgerAssumption DEF LedgerTypeOK, PaymentAmount, RentKind
  <1>1. Moved(Account, lamports, opened, W, L)
    BY <1>0, FundMoved DEF OpenReceipt
  <1>2. opened \in [Account -> Int]
    BY <1>1 DEF Moved
  <1>3. /\ p.token = None =>
             lamports' = Move(sent, p.from, ProtocolPda, p.fee) /\ tokens' = tokens
        /\ p.token # None =>
             /\ lamports' = opened
             /\ tokens' = SplTransfer(tokens, p.from, p.to, p.token, PaymentAmount(p), p.fee)
    BY DEF PayFunds
  <1> HIDE DEF opened
  <1>4. Moved(Account, opened, sent, W, L)
    BY <1>0, <1>2, MoveMoved
  <1>5. sent \in [Account -> Int]
    BY <1>4 DEF Moved
  <1> HIDE DEF sent
  <1>6. CASE p.token = None
    <2>1. Moved(Account, sent, lamports', W, L)
      BY <1>0, <1>3, <1>5, <1>6, MoveMoved
    <2>2. Moved(Account, lamports, lamports', W, L)
      BY <1>0, <1>1, <1>2, <1>4, <1>5, <2>1, MovedTwice
    <2>3. Moved(TokenAccount, tokens, tokens', W, T)
      BY <1>0, <1>3, <1>6, NotMoved
    <2> QED  BY <2>2, <2>3 DEF Taken
  <1>7. CASE p.token # None
    <2>1. Moved(Account, lamports, lamports', W, L)
      BY <1>1, <1>3, <1>7
    <2>2. Moved(TokenAccount, tokens, tokens', W, T)
      BY <1>0, <1>3, <1>7, SplTransferMoved
    <2> QED  BY <2>1, <2>2 DEF Taken
  <1> QED
    BY <1>6, <1>7

(* withdraw_total_fee takes from the protocol.                             *)
LEMMA WithdrawTakes ==
  ASSUME LedgerTypeOK, NEW to \in Wallets, NEW token \in Mints \cup {None},
         NEW amount \in Nat, WithdrawFunds(to, token, amount),
         NEW W, {to, ProtocolPda} \subseteq W,
         token # None => {Ata(to, token), Ata(ProtocolPda, token)} \subseteq W,
         NEW L, ProtocolPda \in L,
         NEW T, token # None => Ata(ProtocolPda, token) \in T
  PROVE  Taken(W, L, T)
  <1>0. /\ lamports \in [Account -> Int] /\ tokens \in [TokenAccount -> Int]
        /\ {to, ProtocolPda} \subseteq Account /\ to \in Owner /\ ProtocolPda \in Owner
        /\ amount \in Int /\ amount >= 0
    BY Addresses, PaymentBounds DEF LedgerTypeOK, Recipient
  <1>1. CASE token = None
    <2>1. lamports' = Move(lamports, ProtocolPda, to, amount) /\ tokens' = tokens
      BY <1>1 DEF WithdrawFunds
    <2> QED  BY <1>0, <2>1, MoveMoved, NotMoved DEF Taken
  <1>2. CASE token # None
    <2>1. /\ lamports' = lamports
          /\ tokens' = SplTransfer(tokens, ProtocolPda, to, token, amount, None)
      BY <1>2 DEF WithdrawFunds
    <2> QED  BY <1>0, <1>2, <2>1, SplTransferMoved, NotMoved DEF Taken
  <1> QED
    BY <1>1, <1>2

-----------------------------------------------------------------------------
\* Data of accounts changes in W only.
DataWithin(W) ==
    /\ \A a \in TokenAccount : a \in W \/ (a \in atas)' = (a \in atas)
    /\ ConfigPda \in W \/ config' = config
    /\ \A m \in Mints : WhitelistPda(m) \in W \/ whitelist'[m] = whitelist[m]
    /\ \A k \in Wallets : ReceiverPda(k) \in W \/ (k \in feeReceivers)' = (k \in feeReceivers)
    /\ \A t \in TradeIds : TradePda(t) \in W \/ tradeDetail'[t] = tradeDetail[t]
    /\ \A t \in TradeIds : VaultPda(t) \in W \/ (t \in tradeVault)' = (t \in tradeVault)
    /\ \A e \in Ephemerals : NoncePda(e) \in W \/ (e \in nonceCheck)' = (e \in nonceCheck)
    /\ \A p \in Payments : ReceiptPda(p) \in W \/ receipts'[p] = receipts[p]

\* The accounts that i may take lamports from, and tokens from.
Givable(i)       == Account \ (Wallets \ Accounts(i).signs)
GivableTokens(i) == TokenAccount \ {Ata(k, m) : k \in Wallets \ Accounts(i).signs, m \in Mints}

\* The step takes from nobody who has not signed i, and changes nothing that
\* i does not declare writable.
Within(i) ==
    /\ Taken(Accounts(i).writes, Givable(i), GivableTokens(i))
    /\ DataWithin(Accounts(i).writes)

(* That is what the two properties of Interface say of a step.             *)
LEMMA WithinShows ==
  ASSUME LedgerTypeOK, NEW i, Within(i)
  PROVE  /\ Changed \subseteq Accounts(i).writes
         /\ \A k \in Wallets \ Accounts(i).signs :
              /\ lamports'[k] >= lamports[k]
              /\ \A m \in Mints : tokens'[Ata(k, m)] >= tokens[Ata(k, m)]
  <1> DEFINE W == Accounts(i).writes
  <1>1. /\ \A a \in Account : a \in W \/ lamports'[a] = lamports[a]
        /\ \A a \in TokenAccount : a \in W \/ tokens'[a] = tokens[a]
    BY DEF Within, Taken, Moved
  <1>2. DataWithin(W)
    BY DEF Within
  <1>3. Changed \subseteq W
    <2> HIDE DEF W
    <2> QED  BY <1>1, <1>2 DEF Changed, DataWithin
  <1>4. ASSUME NEW k \in Wallets \ Accounts(i).signs
        PROVE  /\ lamports'[k] >= lamports[k]
               /\ \A m \in Mints : tokens'[Ata(k, m)] >= tokens[Ata(k, m)]
    <2>1. k \in Account \ Givable(i)
      BY Addresses DEF Givable
    <2>2. \A m \in Mints : Ata(k, m) \in TokenAccount \ GivableTokens(i)
      BY Addresses DEF GivableTokens
    <2> QED  BY <2>1, <2>2 DEF Within, Taken, Moved
  <1> QED
    BY <1>3, <1>4

(* No signature is needed to take from what is not a wallet's.             *)
LEMMA Givables ==
  ASSUME NEW i
  PROVE  /\ Pda \cup Ephemerals \cup TokenAccount \subseteq Givable(i)
         /\ Accounts(i).signs \cap Account \subseteq Givable(i)
         /\ \A m \in Mints : /\ Ata(ProtocolPda, m) \in GivableTokens(i)
                             /\ \A t \in TradeIds : Ata(VaultPda(t), m) \in GivableTokens(i)
                             /\ \A k \in Accounts(i).signs \cap Wallets :
                                   Ata(k, m) \in GivableTokens(i)
  <1>1. /\ Pda \cup Ephemerals \cup TokenAccount \subseteq Account
        /\ \A a \in Pda \cup Ephemerals \cup TokenAccount : a \notin Wallets
    BY KeysAssumption DEF Account
  <1>2. /\ ProtocolPda \in Owner \ Wallets
        /\ \A t \in TradeIds : VaultPda(t) \in Owner \ Wallets
        /\ \A k \in Wallets : k \in Owner
    BY Addresses, KeysApart DEF Recipient
  <1>3. ASSUME NEW o \in Owner, o \in Wallets => o \in Accounts(i).signs, NEW m \in Mints
        PROVE  Ata(o, m) \in GivableTokens(i)
    BY <1>3, Addresses, AtasApart DEF GivableTokens
  <1> QED
    BY <1>1, <1>2, <1>3 DEF Givable

(* What the configuration's instructions change and take.                  *)
LEMMA ConfigWithin ==
  ASSUME ConfigTypeOK, NEW i \in Instruction, OnConfig(i), UNCHANGED <<tradeVars, paymentVars>>
  PROVE  Within(i)
  <1> DEFINE A == Accounts(i)
  <1>0. LedgerTypeOK
    BY DEF ConfigTypeOK
  <1>1. /\ UNCHANGED <<tradeDetail, tradeVault, nonceCheck, receipts>>
        /\ {ConfigPda, ProtocolPda, LegacyVaultPda} \subseteq Account
        /\ Wallets \subseteq Account
        /\ \A m \in Mints : WhitelistPda(m) \in Account /\ WhitelistPda(m) \in Givable(i)
        /\ \A k \in Wallets : ReceiverPda(k) \in Account /\ ReceiverPda(k) \in Givable(i)
        /\ \A k \in Wallets : k \in A.signs => k \in Givable(i)
        /\ Rent["whitelist"] \in Int /\ Rent["receiver"] \in Int
    BY Addresses, ConfigPdas, Givables, Rents DEF tradeVars, paymentVars
  <1>2. CASE i.op = "init" /\ InitConfig(i.signer, i.admin)
    <2>1. /\ A.signs = {i.signer} /\ i.signer \in Wallets
          /\ A.writes = {i.signer, LegacyVaultPda, ProtocolPda, ConfigPda}
      BY <1>2, ConfigArguments DEF Accounts, InitAccounts, Metas
    <2>2. Taken(A.writes, Givable(i), GivableTokens(i))
      BY <1>0, <1>1, <1>2, <2>1, InitTakes
    <2>3. UNCHANGED <<atas, whitelist, feeReceivers>>
      BY <1>2 DEF InitConfig
    <2> QED  BY <1>1, <2>1, <2>2, <2>3 DEF Within, DataWithin
  <1>3. CASE i.op = "addOrRemoveOperator"
             /\ (AddOperator(i.signer, i.operator) \/ RemoveOperator(i.signer, i.operator))
    <2>1. ConfigPda \in A.writes
      BY <1>3 DEF Accounts, AddOrRemoveOperatorAccounts, Metas
    <2>2. UNCHANGED <<ledgerVars, whitelist, feeReceivers>>
      BY <1>3 DEF AddOperator, RemoveOperator
    <2>3. Taken(A.writes, Givable(i), GivableTokens(i))
      BY <1>0, <2>2, NothingTaken DEF ledgerVars
    <2> QED  BY <1>1, <2>1, <2>2, <2>3 DEF Within, DataWithin, ledgerVars
  <1>4. CASE i.op = "setCloseWaitDuration"
             /\ SetCloseWaitDuration(i.operator, i.closeTrade, i.closePayment)
    <2>1. ConfigPda \in A.writes
      BY <1>4 DEF Accounts, SetCloseWaitDurationAccounts, Metas
    <2>2. UNCHANGED <<ledgerVars, whitelist, feeReceivers>>
      BY <1>4 DEF SetCloseWaitDuration
    <2>3. Taken(A.writes, Givable(i), GivableTokens(i))
      BY <1>0, <2>2, NothingTaken DEF ledgerVars
    <2> QED  BY <1>1, <2>1, <2>2, <2>3 DEF Within, DataWithin, ledgerVars
  <1>5. CASE i.op = "addOrUpdateWhitelist" /\ AddOrUpdateWhitelist(i.operator, i.token, i.amount)
    <2>1. /\ A.signs = {i.operator} /\ i.operator \in Wallets /\ i.token \in Mints
          /\ A.writes = {i.operator, WhitelistPda(i.token)}
      BY <1>5, ConfigArguments DEF Accounts, AddOrUpdateWhitelistAccounts, Metas
    <2>2. /\ \/ lamports' = lamports
             \/ lamports' = Fund(lamports, i.operator, WhitelistPda(i.token), Rent["whitelist"])
          /\ whitelist' = [whitelist EXCEPT ![i.token] = i.amount]
          /\ UNCHANGED <<atas, tokens, config, feeReceivers>>
      BY <1>5 DEF AddOrUpdateWhitelist
    <2>3. Taken(A.writes, Givable(i), GivableTokens(i))
      BY <1>0, <1>1, <2>1, <2>2, OneMoved
    <2> QED  BY <1>1, <2>1, <2>2, <2>3 DEF Within, DataWithin, ConfigTypeOK
  <1>6. CASE i.op = "removeWhitelist" /\ RemoveWhitelist(i.operator, i.token, i.entry)
    <2>1. /\ i.operator \in Wallets /\ i.entry \in Mints
          /\ A.writes = {i.operator, WhitelistPda(i.entry)}
      BY <1>6, ConfigArguments DEF Accounts, RemoveWhitelistAccounts, Metas
    <2>2. /\ lamports' = Drain(lamports, WhitelistPda(i.entry), i.operator)
          /\ whitelist' = [whitelist EXCEPT ![i.entry] = None]
          /\ UNCHANGED <<atas, tokens, config, feeReceivers>>
      BY <1>6 DEF RemoveWhitelist
    <2>3. Taken(A.writes, Givable(i), GivableTokens(i))
      BY <1>0, <1>1, <2>1, <2>2, OneMoved
    <2> QED  BY <1>1, <2>1, <2>2, <2>3 DEF Within, DataWithin, ConfigTypeOK
  <1>7. CASE i.op = "addFeeReceiver" /\ AddFeeReceiver(i.signer, i.receiver)
    <2>1. /\ A.signs = {i.signer} /\ i.signer \in Wallets /\ i.receiver \in Wallets
          /\ A.writes = {i.signer, ReceiverPda(i.receiver)}
      BY <1>7, ConfigArguments DEF Accounts, AddFeeReceiverAccounts, Metas
    <2>2. /\ lamports' = Fund(lamports, i.signer, ReceiverPda(i.receiver), Rent["receiver"])
          /\ feeReceivers' = feeReceivers \cup {i.receiver}
          /\ UNCHANGED <<atas, tokens, config, whitelist>>
      BY <1>7 DEF AddFeeReceiver
    <2>3. Taken(A.writes, Givable(i), GivableTokens(i))
      BY <1>0, <1>1, <2>1, <2>2, OneMoved
    <2> QED  BY <1>1, <2>1, <2>2, <2>3 DEF Within, DataWithin
  <1>8. CASE i.op = "removeFeeReceiver" /\ RemoveFeeReceiver(i.signer, i.receiver)
    <2>1. /\ i.signer \in Wallets /\ i.receiver \in Wallets
          /\ A.writes = {i.signer, ReceiverPda(i.receiver)}
      BY <1>8, ConfigArguments DEF Accounts, RemoveFeeReceiverAccounts, Metas
    <2>2. /\ lamports' = Drain(lamports, ReceiverPda(i.receiver), i.signer)
          /\ feeReceivers' = feeReceivers \ {i.receiver}
          /\ UNCHANGED <<atas, tokens, config, whitelist>>
      BY <1>8 DEF RemoveFeeReceiver
    <2>3. Taken(A.writes, Givable(i), GivableTokens(i))
      BY <1>0, <1>1, <2>1, <2>2, OneMoved
    <2> QED  BY <1>1, <2>1, <2>2, <2>3 DEF Within, DataWithin
  <1> QED
    BY <1>2, <1>3, <1>4, <1>5, <1>6, <1>7, <1>8 DEF OnConfig

(* What deposit changes and takes.                                         *)
LEMMA DepositWithin ==
  ASSUME TradeTypeOK, NEW i \in Instruction, DepositEntry(i), UNCHANGED paymentVars
  PROVE  Within(i)
  <1> DEFINE A == Accounts(i)
             t == i.trade
             e == i.ephemeral
             token == Input[t].token
  <1>1. /\ i.op = "deposit" /\ t \in TradeIds /\ e \in Ephemerals
        /\ i.signer = Input[t].user /\ i.token = token
        /\ Deposit(t, i.timeout, i.mpc, i.refund, e)
    BY TradeArguments DEF DepositEntry
  <1>2. /\ A.signs = {i.signer, e}
        /\ A.writes = {i.signer, e} \cup ({TradePda(t), NoncePda(e), VaultPda(t)}
                        \cup TokenMetas({i.signer, VaultPda(t)}, i.token))
    BY <1>1 DEF Accounts, DepositAccounts, Metas
  <1>3. i.signer \in Wallets /\ i.signer \in Account /\ token \in Mints \cup {None}
    BY <1>1, InputFacts
  <1>4. /\ DepositFunds(t, e)
        /\ tradeDetail' = [tradeDetail EXCEPT ![t] = NewTrade(t, i.timeout, i.mpc, i.refund, e)]
        /\ tradeVault' = tradeVault \cup {t} /\ nonceCheck' = nonceCheck \cup {e}
        /\ UNCHANGED <<atas, configVars>>
    BY <1>1 DEF Deposit
  <1> HIDE DEF A, t, e, token
  <1>5. {i.signer, TradePda(t), NoncePda(e), VaultPda(t)} \subseteq A.writes
    BY <1>2
  <1>6. token # None => {Ata(i.signer, token), Ata(VaultPda(t), token)} \subseteq A.writes
    BY <1>1, <1>2 DEF TokenMetas
  <1>7. /\ i.signer \in Givable(i)
        /\ token # None => Ata(i.signer, token) \in GivableTokens(i)
    BY <1>2, <1>3, Givables DEF A
  <1>8. Taken(A.writes, Givable(i), GivableTokens(i))
    BY <1>1, <1>4, <1>5, <1>6, <1>7, DepositTakes DEF token
  <1>9. DataWithin(A.writes)
    BY <1>4, <1>5 DEF DataWithin, TradeTypeOK, configVars, paymentVars
  <1> QED
    BY <1>8, <1>9 DEF Within, A

(* set_total_fee changes the trade detail.                                 *)
LEMMA SetTotalFeeWithin ==
  ASSUME TradeTypeOK, NEW i \in Instruction, SetTotalFeeEntry(i), UNCHANGED paymentVars
  PROVE  Within(i)
  <1>1. /\ i.op = "setTotalFee" /\ i.trade \in TradeIds /\ SetTotalFee(i.trade, i.amount)
    BY TradeArguments DEF SetTotalFeeEntry
  <1>2. TradePda(i.trade) \in Accounts(i).writes
    BY <1>1 DEF Accounts, SetTotalFeeAccounts, Metas
  <1>3. /\ tradeDetail' = [tradeDetail EXCEPT ![i.trade].totalFee = i.amount]
        /\ UNCHANGED <<ledgerVars, configVars, tradeVault, nonceCheck>>
    BY <1>1 DEF SetTotalFee
  <1>4. Taken(Accounts(i).writes, Givable(i), GivableTokens(i))
    BY <1>3, LedgerFacts, NothingTaken DEF ledgerVars
  <1> QED
    BY <1>2, <1>3, <1>4 DEF Within, DataWithin, TradeTypeOK, ledgerVars, configVars, paymentVars

(* What settlement changes and takes.                                      *)
LEMMA SettlementWithin ==
  ASSUME TradeTypeOK, NEW i \in Instruction, SettlementEntry(i), UNCHANGED paymentVars
  PROVE  Within(i)
  <1> DEFINE A == Accounts(i)
             t == i.trade
             d == tradeDetail[t]
  <1>1. /\ i.op = "settlement" /\ t \in TradeIds /\ i.pmm \in Pmms /\ Exists(t)
        /\ i.ephemeral = d.eph /\ i.user = d.user /\ i.token = d.token
        /\ Settlement(t, i.pmm)
    BY TradeArguments DEF SettlementEntry
  <1>2. A.writes = {i.signer, i.user, TradePda(t), NoncePda(i.ephemeral), VaultPda(t), i.refund,
                    ProtocolPda, i.pmm} \cup TokenMetas({VaultPda(t), i.pmm, ProtocolPda}, i.token)
    BY <1>1 DEF Accounts, SettlementAccounts
  <1>3. d.eph \in Ephemerals /\ d.token \in Mints \cup {None}
    BY <1>1, DetailFacts
  <1>4. /\ tradeDetail' = [tradeDetail EXCEPT ![t] = Settled(t, i.pmm)]
        /\ nonceCheck' = nonceCheck \ {d.eph}
        /\ UNCHANGED <<atas, configVars, tradeVault>>
    BY <1>1 DEF Settlement
  <1> HIDE DEF A, t
  <1>5. {d.user, TradePda(t), NoncePda(d.eph), VaultPda(t), ProtocolPda, i.pmm} \subseteq A.writes
    BY <1>1, <1>2
  <1>6. d.token # None =>
          {Ata(VaultPda(t), d.token), Ata(i.pmm, d.token), Ata(ProtocolPda, d.token)} \subseteq A.writes
    BY <1>1, <1>2 DEF TokenMetas
  <1>7. /\ {NoncePda(d.eph), VaultPda(t)} \subseteq Givable(i)
        /\ d.token # None => Ata(VaultPda(t), d.token) \in GivableTokens(i)
    BY <1>1, <1>3, Givables DEF Pda
  <1>8. Taken(A.writes, Givable(i), GivableTokens(i))
    BY <1>1, <1>5, <1>6, <1>7, SettlementTakes
  <1>9. DataWithin(A.writes)
    <2> HIDE DEF d
    <2> QED  BY <1>4, <1>5 DEF DataWithin, TradeTypeOK, configVars, paymentVars
  <1> QED
    BY <1>8, <1>9 DEF Within, A

(* What claim changes and takes.                                           *)
LEMMA ClaimWithin ==
  ASSUME TradeTypeOK, NEW i \in Instruction, ClaimEntry(i), UNCHANGED paymentVars
  PROVE  Within(i)
  <1> DEFINE A == Accounts(i)
             t == i.trade
             d == tradeDetail[t]
  <1>1. /\ i.op = "claim" /\ t \in TradeIds /\ Exists(t)
        /\ i.ephemeral = d.eph /\ i.user = d.user /\ i.refund = d.refund /\ i.token = d.token
        /\ Claim(t)
    BY TradeArguments DEF ClaimEntry
  <1>2. A.writes = {i.signer} \cup ({i.user, NoncePda(i.ephemeral), TradePda(t), VaultPda(t), i.refund}
                      \cup TokenMetas({VaultPda(t), i.refund, ProtocolPda}, i.token))
    BY <1>1 DEF Accounts, ClaimAccounts, Metas
  <1>3. d.eph \in Ephemerals /\ d.token \in Mints \cup {None}
    BY <1>1, DetailFacts
  <1>4. /\ tradeDetail' = [tradeDetail EXCEPT ![t].status = "Claimed"]
        /\ nonceCheck' = nonceCheck \ {d.eph}
        /\ UNCHANGED <<atas, configVars, tradeVault>>
    BY <1>1 DEF Claim
  <1> HIDE DEF A, t
  <1>5. {d.user, TradePda(t), NoncePda(d.eph), VaultPda(t), d.refund} \subseteq A.writes
    BY <1>1, <1>2
  <1>6. d.token # None => {Ata(VaultPda(t), d.token), Ata(d.refund, d.token)} \subseteq A.writes
    BY <1>1, <1>2 DEF TokenMetas
  <1>7. /\ {NoncePda(d.eph), VaultPda(t)} \subseteq Givable(i)
        /\ d.token # None => Ata(VaultPda(t), d.token) \in GivableTokens(i)
    BY <1>1, <1>3, Givables DEF Pda
  <1>8. Taken(A.writes, Givable(i), GivableTokens(i))
    BY <1>1, <1>5, <1>6, <1>7, ClaimTakes
  <1>9. DataWithin(A.writes)
    <2> HIDE DEF d
    <2> QED  BY <1>4, <1>5 DEF DataWithin, TradeTypeOK, configVars, paymentVars
  <1> QED
    BY <1>8, <1>9 DEF Within, A

(* What close_finished_trade changes and takes.                            *)
LEMMA CloseWithin ==
  ASSUME TradeTypeOK, NEW i \in Instruction, CloseFinishedTradeEntry(i), UNCHANGED paymentVars
  PROVE  Within(i)
  <1> DEFINE A == Accounts(i)
             t == i.trade
             d == tradeDetail[t]
  <1>1. /\ i.op = "closeFinishedTrade" /\ t \in TradeIds /\ i.signer \in Wallets /\ Exists(t)
        /\ i.user = d.user /\ i.token = d.token
        /\ CloseFinishedTrade(i.signer, t)
    BY TradeArguments DEF CloseFinishedTradeEntry
  <1>2. A.writes = {i.signer} \cup ({i.user, TradePda(t), VaultPda(t)}
                      \cup TokenMetas({VaultPda(t), i.user}, i.token))
    BY <1>1 DEF Accounts, CloseFinishedTradeAccounts, Metas
  <1>3. d.token \in Mints \cup {None}
    BY <1>1, DetailFacts
  <1>4. /\ tradeDetail' = [tradeDetail EXCEPT ![t] = None]
        /\ tradeVault' = tradeVault \ {t}
        /\ atas' = IF d.token = None THEN atas ELSE atas \ {Ata(VaultPda(t), d.token)}
        /\ UNCHANGED <<configVars, nonceCheck>>
    BY <1>1 DEF CloseFinishedTrade, CloseVaultAta
  <1> HIDE DEF A, t
  <1>5. {d.user, TradePda(t), VaultPda(t)} \subseteq A.writes
    BY <1>1, <1>2
  <1>6. d.token # None => {Ata(VaultPda(t), d.token), Ata(d.user, d.token)} \subseteq A.writes
    BY <1>1, <1>2 DEF TokenMetas
  <1>7. /\ {TradePda(t), VaultPda(t)} \subseteq Givable(i)
        /\ d.token # None => /\ Ata(VaultPda(t), d.token) \in Givable(i)
                             /\ Ata(VaultPda(t), d.token) \in GivableTokens(i)
    BY <1>1, <1>3, Givables, Addresses DEF Pda
  <1>8. Taken(A.writes, Givable(i), GivableTokens(i))
    BY <1>1, <1>5, <1>6, <1>7, CloseTakes
  <1>9. DataWithin(A.writes)
    <2> HIDE DEF d
    <2> QED  BY <1>4, <1>5, <1>6 DEF DataWithin, TradeTypeOK, configVars, paymentVars
  <1> QED
    BY <1>8, <1>9 DEF Within, A

(* What the instructions for payments change and take.                     *)
LEMMA PaymentWithin ==
  ASSUME PaymentTypeOK, NEW i \in Instruction, OnPayment(i), UNCHANGED tradeVars
  PROVE  Within(i)
  <1> DEFINE A == Accounts(i)
             p == i.payment
  <1>0. LedgerTypeOK /\ UNCHANGED <<tradeDetail, tradeVault, nonceCheck>>
    BY DEF PaymentTypeOK, ConfigTypeOK, tradeVars
  <1>1. CASE i.op = "payment" /\ i.signer = i.payment.from /\ Pay(i.payment, i.deadline)
    <2>1. /\ p \in Payments /\ i.signer = p.from /\ p.from \in Wallets /\ p.from \in Account
          /\ p.token \in Mints \cup {None}
      BY <1>1, OtherArguments, PaymentFacts
    <2>2. /\ A.signs = {p.from}
          /\ A.writes = {p.from} \cup ({p.to, ProtocolPda, ReceiptPda(p)}
                          \cup TokenMetas({p.from, p.to, ProtocolPda}, p.token))
      BY <1>1 DEF Accounts, PaymentAccounts, Metas
    <2>3. /\ p.amount > p.fee /\ PayFunds(p)
          /\ receipts' = [receipts EXCEPT ![p] = now]
          /\ UNCHANGED <<atas, configVars>>
      BY <1>1 DEF Pay
    <2> HIDE DEF A, p
    <2>4. /\ {p.from, p.to, ProtocolPda, ReceiptPda(p)} \subseteq A.writes
          /\ p.token # None =>
            {Ata(p.from, p.token), Ata(p.to, p.token), Ata(ProtocolPda, p.token)} \subseteq A.writes
      BY <2>2 DEF TokenMetas
    <2>5. /\ p.from \in Givable(i)
          /\ p.token # None => Ata(p.from, p.token) \in GivableTokens(i)
      BY <2>1, <2>2, Givables DEF A
    <2>6. Taken(A.writes, Givable(i), GivableTokens(i))
      BY <1>0, <2>1, <2>3, <2>4, <2>5, PayTakes
    <2>7. DataWithin(A.writes)
      BY <1>0, <2>3, <2>4 DEF DataWithin, PaymentTypeOK, configVars
    <2> QED  BY <2>6, <2>7 DEF Within, A
  <1>2. CASE i.op = "closePaymentReceipt" /\ i.signer = i.payment.from
             /\ ClosePaymentReceipt(i.payment)
    <2>1. /\ p \in Payments /\ i.signer = p.from /\ p.from \in Account /\ ReceiptPda(p) \in Account
          /\ ReceiptPda(p) \in Givable(i)
      BY <1>2, OtherArguments, PaymentFacts, ConfigPdas, Givables
    <2>2. A.writes = {p.from, ReceiptPda(p)}
      BY <1>2 DEF Accounts, ClosePaymentReceiptAccounts, Metas
    <2>3. /\ lamports' = Drain(lamports, ReceiptPda(p), p.from)
          /\ receipts' = [receipts EXCEPT ![p] = None]
          /\ UNCHANGED <<atas, tokens, configVars>>
      BY <1>2 DEF ClosePaymentReceipt
    <2> HIDE DEF A, p
    <2>4. Taken(A.writes, Givable(i), GivableTokens(i))
      <3>1. 0 \in Int
        OBVIOUS
      <3> QED  BY <1>0, <2>1, <2>2, <2>3, <3>1, OneMoved
    <2>5. DataWithin(A.writes)
      BY <1>0, <2>2, <2>3 DEF DataWithin, PaymentTypeOK, configVars
    <2> QED  BY <2>4, <2>5 DEF Within, A
  <1>3. CASE i.op = "withdrawTotalFee" /\ WithdrawTotalFee(i.to, i.token, i.amount)
    <2>1. i.to \in Wallets /\ i.token \in Mints \cup {None} /\ i.amount \in Nat
      BY <1>3, OtherArguments
    <2>2. A.writes = {i.signer} \cup ({i.to, ProtocolPda} \cup TokenMetas({ProtocolPda, i.to}, i.token))
      BY <1>3 DEF Accounts, WithdrawTotalFeeAccounts, Metas
    <2>3. /\ WithdrawFunds(i.to, i.token, i.amount)
          /\ UNCHANGED <<atas, configVars, paymentVars>>
      BY <1>3 DEF WithdrawTotalFee
    <2> HIDE DEF A
    <2>4. /\ {i.to, ProtocolPda} \subseteq A.writes
          /\ i.token # None => {Ata(i.to, i.token), Ata(ProtocolPda, i.token)} \subseteq A.writes
      BY <2>2 DEF TokenMetas
    <2>5. /\ ProtocolPda \in Givable(i)
          /\ i.token # None => Ata(ProtocolPda, i.token) \in GivableTokens(i)
      BY <2>1, ConfigPdas, Givables
    <2>6. Taken(A.writes, Givable(i), GivableTokens(i))
      BY <1>0, <2>1, <2>3, <2>4, <2>5, WithdrawTakes
    <2>7. DataWithin(A.writes)
      BY <1>0, <2>3 DEF DataWithin, configVars, paymentVars
    <2> QED  BY <2>6, <2>7 DEF Within, A
  <1> QED
    BY <1>1, <1>2, <1>3 DEF OnPayment

(* What the instructions of other programs change and take.                *)
LEMMA SystemWithin ==
  ASSUME TradeTypeOK, NEW i \in Instruction, System(i)
  PROVE  Within(i)
  <1> DEFINE A == Accounts(i)
  <1>0. LedgerTypeOK /\ Rent["ata"] \in Int /\ Rent["durable"] \in Int
    BY LedgerFacts, Rents
  <1>1. CASE /\ i.op = "createAta" /\ CreateAta(i.signer, i.owner, i.token)
             /\ UNCHANGED <<configVars, tradeVars, paymentVars>>
    <2> DEFINE a == Ata(i.owner, i.token)
    <2>1. /\ i.signer \in Wallets /\ i.signer \in Account /\ a \in TokenAccount /\ a \in Account
      BY <1>1, OtherArguments, Addresses, LedgerAssumption
    <2>2. A.signs = {i.signer} /\ A.writes = {i.signer, a}
      BY <1>1 DEF Accounts, CreateAtaAccounts, Metas
    <2>3. /\ lamports' = Fund(lamports, i.signer, a, Rent["ata"])
          /\ atas' = atas \cup {a} /\ UNCHANGED tokens
      BY <1>1 DEF CreateAta
    <2>4. i.signer \in Givable(i)
      BY <2>1, <2>2, Givables
    <2> HIDE DEF A, a
    <2>5. Taken(A.writes, Givable(i), GivableTokens(i))
      BY <1>0, <2>1, <2>2, <2>3, <2>4, OneMoved
    <2>6. DataWithin(A.writes)
      BY <1>1, <2>2, <2>3 DEF DataWithin, configVars, tradeVars, paymentVars
    <2> QED  BY <2>5, <2>6 DEF Within, A
  <1>2. CASE i.op = "createNonce" /\ CreateNonceAccount(i.signer, i.ephemeral)
             /\ UNCHANGED paymentVars
    <2>1. /\ i.signer \in Wallets /\ i.signer \in Account
          /\ i.ephemeral \in Ephemerals /\ i.ephemeral \in Account
      BY <1>2, OtherArguments, Addresses, LedgerAssumption
    <2>2. A.signs = {i.signer, i.ephemeral} /\ A.writes = {i.signer, i.ephemeral}
      BY <1>2 DEF Accounts, CreateNonceAccounts, Metas
    <2>3. /\ lamports' = Fund(lamports, i.signer, i.ephemeral, Rent["durable"])
          /\ UNCHANGED <<atas, tokens, configVars, tradeDetail, tradeVault, nonceCheck>>
      BY <1>2 DEF CreateNonceAccount
    <2>4. i.signer \in Givable(i)
      BY <2>1, <2>2, Givables
    <2> HIDE DEF A
    <2>5. Taken(A.writes, Givable(i), GivableTokens(i))
      BY <1>0, <2>1, <2>2, <2>3, <2>4, OneMoved
    <2>6. DataWithin(A.writes)
      BY <1>2, <2>3 DEF DataWithin, configVars, paymentVars
    <2> QED  BY <2>5, <2>6 DEF Within, A
  <1>3. CASE i.op = "withdrawNonce" /\ WithdrawNonce(i.to, i.ephemeral, i.lamports)
             /\ UNCHANGED paymentVars
    <2>1. /\ i.to \in Account /\ i.ephemeral \in Account /\ i.ephemeral \in Givable(i)
          /\ i.lamports \in Int /\ i.lamports >= 0
      BY <1>3, OtherArguments, Addresses, LedgerAssumption, Givables
    <2>2. A.writes = {i.signer, i.to, i.ephemeral}
      BY <1>3 DEF Accounts, WithdrawNonceAccounts, Metas
    <2>3. /\ \/ lamports' = Drain(lamports, i.ephemeral, i.to)
             \/ lamports' = Move(lamports, i.ephemeral, i.to, i.lamports)
          /\ UNCHANGED <<atas, tokens, configVars, tradeDetail, tradeVault, nonceCheck>>
      BY <1>3 DEF WithdrawNonce, WithdrawNonceAccount, tradeVars
    <2> HIDE DEF A
    <2>4. Taken(A.writes, Givable(i), GivableTokens(i))
      BY <1>0, <2>1, <2>2, <2>3, OneMoved
    <2>5. DataWithin(A.writes)
      BY <1>3, <2>3 DEF DataWithin, configVars, paymentVars
    <2> QED  BY <2>4, <2>5 DEF Within, A
  <1> QED
    BY <1>1, <1>2, <1>3 DEF System

(* Every instruction stays within what it declares.                        *)
LEMMA ExecuteWithin ==
  ASSUME TradeTypeOK, PaymentTypeOK, NEW i \in Instruction, Execute(i)
  PROVE  Within(i)
  <1>1. CASE OnConfig(i) /\ UNCHANGED <<tradeVars, paymentVars>>
    BY <1>1, ConfigWithin DEF PaymentTypeOK
  <1>2. CASE OnTrade(i) /\ UNCHANGED paymentVars
    BY <1>2, DepositWithin, SetTotalFeeWithin, SettlementWithin, ClaimWithin, CloseWithin
       DEF OnTrade
  <1>3. CASE OnPayment(i) /\ UNCHANGED tradeVars
    BY <1>3, PaymentWithin
  <1>4. CASE System(i)
    BY <1>4, SystemWithin
  <1> QED
    BY <1>1, <1>2, <1>3, <1>4 DEF Execute, Program

-----------------------------------------------------------------------------
(* Trades beside payments, and payments beside trades.                     *)

\* The step takes lamports from L and wallets only, leaves all vaults as they
\* are, and the trades alone.
TradesSpared(L) ==
    /\ LedgerTypeOK'
    /\ KeptBut(L)
    /\ \A t \in TradeIds : VaultSame(t)
    /\ UNCHANGED <<now, atas, configVars, tradeVars>>

\* All accounts but the vaults and their token accounts.
BesideVaults == Account \ ({VaultPda(t) : t \in TradeIds}
                              \cup {Ata(VaultPda(t), m) : t \in TradeIds, m \in Mints})

(* Recipients, receipts and ephemeral keys are not vaults.                 *)
LEMMA NotVaults ==
    /\ Recipient \subseteq BesideVaults
    /\ Ephemerals \subseteq BesideVaults
    /\ \A p \in Payments : ReceiptPda(p) \in BesideVaults
    /\ \A o \in Recipient, m \in Mints : Ata(o, m) \in BesideVaults
  <1>1. /\ Recipient \subseteq Account /\ Ephemerals \subseteq Account
        /\ \A p \in Payments : ReceiptPda(p) \in Account
        /\ \A o \in Recipient, m \in Mints : Ata(o, m) \in TokenAccount /\ Ata(o, m) \in Account
    BY Addresses, ConfigPdas
  <1>2. \A t \in TradeIds : /\ VaultPda(t) \notin Recipient \cup Ephemerals \cup TokenAccount
                             /\ \A p : VaultPda(t) # ReceiptPda(p)
    BY VaultApart, KeysApart DEF VaultPda, ReceiptPda
  <1>3. \A t \in TradeIds, m \in Mints : Ata(VaultPda(t), m) \in TokenAccount
    BY Addresses
  <1>4. \A a \in TokenAccount : a \notin Recipient \cup Ephemerals
    BY KeysAssumption, ConfigPdas, PdaNoAta DEF Recipient
  <1>5. \A a \in TokenAccount : \A p \in Payments : a # ReceiptPda(p)
    BY ConfigPdas, PdaNoAta
  <1>6. \A o \in Recipient, t \in TradeIds : \A m, n : Ata(o, m) # Ata(VaultPda(t), n)
    BY <1>2, AtasApart
  <1> QED
    BY <1>1, <1>2, <1>3, <1>4, <1>5, <1>6 DEF BesideVaults

(* What a step leaves alone.                                               *)
LEMMA TakenSpares ==
  ASSUME TradeTypeOK, NEW L, NEW T, Taken(BesideVaults, L, T), LedgerTypeOK',
         UNCHANGED <<now, atas, configVars, tradeVars>>,
         NEW S, L \subseteq S \cup Wallets
  PROVE  TradesSpared(S)
  <1>1. KeptBut(S)
    BY DEF Taken, Moved, KeptBut
  <1>2. ASSUME NEW t \in TradeIds
        PROVE  VaultSame(t)
    BY Addresses DEF Taken, Moved, VaultSame, BesideVaults
  <1> QED
    BY <1>1, <1>2 DEF TradesSpared

(* A payment, the closing of a receipt and the withdrawal of fees take     *)
(* nothing from the accounts of a trade.                                   *)
LEMMA PaymentSpares ==
  ASSUME TradeTypeOK, PaymentTypeOK, AnyPaymentStep, UNCHANGED tradeVars
  PROVE  TradesSpared({ProtocolPda} \cup {ReceiptPda(p) : p \in Payments})
  <1> DEFINE S == {ProtocolPda} \cup {ReceiptPda(p) : p \in Payments}
  <1>0. LedgerTypeOK /\ ProtocolPda \in Recipient /\ Wallets \subseteq Recipient
    BY LedgerFacts DEF Recipient
  <1>1. ASSUME NEW p \in Payments, NEW deadline \in Deadlines, Pay(p, deadline)
        PROVE  TradesSpared(S)
    <2>1. /\ p.from \in Wallets /\ p.token \in Mints \cup {None}
          /\ {p.from, p.to, ProtocolPda, ReceiptPda(p)} \subseteq BesideVaults
          /\ p.token # None =>
               {Ata(p.from, p.token), Ata(p.to, p.token), Ata(ProtocolPda, p.token)}
                  \subseteq BesideVaults
      BY <1>0, PaymentAssumption, NotVaults
    <2>2. /\ p.amount > p.fee /\ PayFunds(p) /\ UNCHANGED <<now, atas, configVars>>
      BY <1>1 DEF Pay
    <2>3. LedgerTypeOK'
      BY <2>2, PayFundsFacts
    <2>4. Taken(BesideVaults, {p.from}, {Ata(p.from, p.token)})
      BY <1>0, <2>1, <2>2, PayTakes
    <2> HIDE DEF S
    <2> QED  BY <2>1, <2>2, <2>3, <2>4, TakenSpares
  <1>2. ASSUME NEW p \in Payments, ClosePaymentReceipt(p)
        PROVE  TradesSpared(S)
    <2>1. LedgerTypeOK'
      BY <1>2, CloseReceiptFacts
    <2>2. /\ lamports' = Drain(lamports, ReceiptPda(p), p.from)
          /\ UNCHANGED <<now, atas, tokens, configVars>>
      BY <1>2 DEF ClosePaymentReceipt
    <2>3. Taken(BesideVaults, S, {})
      <3>1. /\ 0 \in Int /\ ReceiptPda(p) \in Account /\ p.from \in Account /\ ReceiptPda(p) \in S
            /\ ReceiptPda(p) \in BesideVaults /\ p.from \in BesideVaults
        BY <1>0, PaymentFacts, NotVaults
      <3> HIDE DEF S
      <3> QED  BY <1>0, <2>2, <3>1, OneMoved
    <2> HIDE DEF S
    <2> QED  BY <2>1, <2>2, <2>3, TakenSpares
  <1>3. ASSUME NEW to \in Wallets, NEW token \in Mints \cup {None}, NEW amount \in Nat,
               WithdrawTotalFee(to, token, amount)
        PROVE  TradesSpared(S)
    <2>1. LedgerTypeOK'
      BY <1>3, WithdrawFacts
    <2>2. WithdrawFunds(to, token, amount) /\ UNCHANGED <<now, atas, configVars>>
      BY <1>3 DEF WithdrawTotalFee
    <2>3. /\ {to, ProtocolPda} \subseteq BesideVaults
          /\ token # None => {Ata(to, token), Ata(ProtocolPda, token)} \subseteq BesideVaults
      BY <1>0, NotVaults
    <2>4. Taken(BesideVaults, {ProtocolPda}, {Ata(ProtocolPda, token)})
      BY <1>0, <2>2, <2>3, WithdrawTakes
    <2>5. {ProtocolPda} \subseteq S
      OBVIOUS
    <2> HIDE DEF S
    <2> QED  BY <2>1, <2>2, <2>4, <2>5, TakenSpares
  <1> QED
    BY <1>1, <1>2, <1>3 DEF AnyPaymentStep

(* The withdrawal of a part of a nonce account takes from that account,    *)
(* and leaves it its rent.                                                 *)
LEMMA PartSpares ==
  ASSUME TradeTypeOK, PartWithdrawn
  PROVE  /\ PdasKeptBut({})
         /\ \E e \in nonceAccount : TradesSpared({e}) /\ lamports'[e] >= Rent["durable"]
  <1>1. PICK to \in Wallets, e \in Ephemerals, n \in Nat :
          /\ e \in nonceAccount /\ lamports[e] - n >= Rent["durable"]
          /\ lamports' = Move(lamports, e, to, n)
    BY DEF PartWithdrawn
  <1>2. UNCHANGED <<now, atas, tokens, configVars, tradeVars>>
    BY DEF PartWithdrawn
  <1>3. /\ to \in Wallets /\ to \in Account /\ e \in Account /\ to # e /\ n \in Int /\ n >= 0
        /\ LedgerTypeOK /\ lamports \in [Account -> Nat] /\ lamports \in [Account -> Int]
        /\ Rent["durable"] \in Nat
        /\ \A a \in Pda : a # e /\ a \in Account
    BY LedgerAssumption, Addresses, KeysApart, KeysAssumption, LedgerFacts, Rents, ConfigPdas
  <1>4. /\ \A x \in Account \ {e, to} : lamports'[x] = lamports[x]
        /\ lamports'[to] = lamports[to] + n /\ lamports'[e] = lamports[e] - n
        /\ lamports' \in [Account -> Int]
    <2>1. lamports' = Move(lamports, e, to, n) /\ to # e /\ to \in Account /\ e \in Account
      BY <1>1, <1>3
    <2> QED  BY <1>3, <2>1 DEF Move
  <1>5. /\ \A x \in Account : lamports'[x] \in Nat
        /\ lamports'[e] >= Rent["durable"]
    BY <1>1, <1>3, <1>4
  <1>6. LedgerTypeOK'
    BY <1>2, <1>3, <1>4, <1>5 DEF LedgerTypeOK
  <1>7. Taken(BesideVaults, {e}, {})
    <2>1. e \in BesideVaults /\ to \in BesideVaults
      BY <1>1, <1>3, NotVaults DEF Recipient
    <2> QED  BY <1>1, <1>2, <1>3, <2>1, OneMoved
  <1>8. TradesSpared({e})
    BY <1>2, <1>3, <1>6, <1>7, TakenSpares
  <1>9. PdasKeptBut({})
    BY <1>3, <1>7 DEF Taken, Moved, PdasKeptBut
  <1> QED
    BY <1>1, <1>2, <1>5, <1>8, <1>9

-----------------------------------------------------------------------------
\* What holds of trades and payments that share wallets, configuration and
\* the protocol's accounts.
InterfaceInv ==
    /\ TradeTypeOK
    /\ PaymentTypeOK
    /\ NonceGuardsOneTrade
    /\ VaultSolvent
    /\ TradeRentHeld
    /\ Prepared
    /\ ConfigRentHeld
    /\ ReceiptRentHeld

(* The part of it that is about trades is kept by a step that spares them. *)
LEMMA SparedStep ==
  ASSUME InterfaceInv, NEW L, TradesSpared(L)
  PROVE  TradeTypeOK' /\ NonceGuardsOneTrade' /\ VaultSolvent' /\ Prepared'
  <1>1. /\ LedgerTypeOK' /\ UNCHANGED <<atas, config, whitelist, feeReceivers>>
        /\ UNCHANGED <<tradeDetail, tradeVault, nonceCheck, nonceAccount>>
    BY DEF TradesSpared, configVars, tradeVars
  <1>2. TradeTypeOK'
    BY <1>1 DEF InterfaceInv, TradeTypeOK, ConfigTypeOK
  <1>3. NonceGuardsOneTrade' /\ Prepared'
    BY <1>1 DEF InterfaceInv, NonceGuardsOneTrade, Prepared, Open, Exists, Fee, VaultAta
  <1>4. ASSUME NEW t \in TradeIds
        PROVE  Solvent(t)'
    <2>1. Solvent(t) /\ VaultKept(t)
      BY <1>1, LedgerFacts, Addresses
         DEF InterfaceInv, VaultSolvent, Solvent, TradesSpared, VaultSame, VaultKept
    <2>2. /\ tradeDetail'[t] = tradeDetail[t]
          /\ Open(t)' => Open(t)
      BY <1>1 DEF Open, Exists
    <2> QED  BY <1>2, <2>1, <2>2, KeptSolvent DEF InterfaceInv
  <1>5. VaultSolvent'
    BY <1>4 DEF VaultSolvent, Solvent
  <1> QED
    BY <1>2, <1>3, <1>5

(* What a trade does beside payments.                                      *)
LEMMA TradeBeside ==
  ASSUME InterfaceInv, TradeStep \/ AnyNonceStep, UNCHANGED paymentVars
  PROVE  InterfaceInv'
  <1>1. [AnyTradeNext]_vars
    BY DEF AnyTradeNext
  <1>2. TradeTypeOK'
    BY <1>1, TradeTypeStep DEF InterfaceInv
  <1>3. NonceGuardsOneTrade'
    BY <1>1, NonceStepKeeps DEF InterfaceInv
  <1>4. VaultSolvent'
    BY <1>1, <1>2, SolventStep DEF InterfaceInv, VaultSolvent, Solvent
  <1>5. TradeRentHeld' /\ ConfigRentHeld'
    BY <1>1, <1>2, TradeRentStep, TradeConfigRentStep DEF InterfaceInv
  <1>6. Prepared'
    BY <1>1, ReadyStep DEF InterfaceInv
  <1>7. PaymentTypeOK'
    BY <1>2 DEF InterfaceInv, PaymentTypeOK, TradeTypeOK, paymentVars
  <1>8. ReceiptRentHeld'
    <2>1. PdasKeptBut(TradeAccounts)
      BY <1>2, TradeKeepsPdas DEF InterfaceInv
    <2>2. ASSUME NEW p \in Payments, receipts'[p] # None
          PROVE  lamports'[ReceiptPda(p)] >= Rent["receipt"]
      <3>1. lamports[ReceiptPda(p)] >= Rent["receipt"]
        BY <2>2 DEF InterfaceInv, ReceiptRentHeld, paymentVars
      <3>2. ReceiptPda(p) \in Pda \ TradeAccounts /\ ReceiptPda(p) \in Account
        BY ConfigPdas DEF TradeAccounts, ReceiptPda, TradePda, VaultPda, NoncePda
      <3>3. /\ lamports'[ReceiptPda(p)] >= lamports[ReceiptPda(p)]
            /\ lamports[ReceiptPda(p)] \in Int /\ lamports'[ReceiptPda(p)] \in Int
            /\ Rent["receipt"] \in Int
        BY <1>2, <2>1, <3>2, LedgerAssumption
           DEF PdasKeptBut, InterfaceInv, TradeTypeOK, ConfigTypeOK, LedgerTypeOK, RentKind
      <3> QED  BY <3>1, <3>3
    <2> QED  BY <2>2 DEF ReceiptRentHeld
  <1> QED
    BY <1>2, <1>3, <1>4, <1>5, <1>6, <1>7, <1>8 DEF InterfaceInv

(* What a payment does beside trades.                                      *)
LEMMA PaymentBeside ==
  ASSUME InterfaceInv, AnyPaymentStep, UNCHANGED tradeVars
  PROVE  InterfaceInv'
  <1> DEFINE S == {ProtocolPda} \cup {ReceiptPda(p) : p \in Payments}
  <1>1. TradesSpared(S)
    BY PaymentSpares DEF InterfaceInv
  <1>2. TradeTypeOK' /\ NonceGuardsOneTrade' /\ VaultSolvent' /\ Prepared'
    BY <1>1, SparedStep
  <1>3. PaymentTypeOK' /\ ConfigRentHeld' /\ ReceiptRentHeld'
    <2>1. [AnyPaymentNext]_allPayment
      BY DEF AnyPaymentNext
    <2> QED  BY <2>1, PaymentTypeStep, RentStep DEF InterfaceInv
  <1>4. TradeRentHeld'
    <2>1. \A s \in S : /\ \A t : s \notin {TradePda(t), VaultPda(t), NoncePda(t)}
                       /\ s \notin TokenAccount
      BY PdaNoAta, ConfigPdas
         DEF ProtocolPda, ReceiptPda, TradePda, VaultPda, NoncePda
    <2>2. \A e \in Ephemerals : e \notin S
      BY KeysAssumption, ConfigPdas
    <2>3. /\ UNCHANGED <<atas, tradeDetail, tradeVault, nonceCheck, nonceAccount>>
          /\ tradeVault' = {t \in TradeIds : Exists(t)'}
          /\ nonceAccount \subseteq Ephemerals /\ atas \subseteq TokenAccount
      BY LedgerFacts DEF InterfaceInv, TradeTypeOK, TradeRentHeld, Exists, TradesSpared, tradeVars,
         AnyPaymentStep, Pay, ClosePaymentReceipt, WithdrawTotalFee
    <2>4. KeptBut(S)
      BY <1>1 DEF TradesSpared
    <2> HIDE DEF S
    <2> QED  BY <1>2, <2>1, <2>2, <2>3, <2>4, RentFrame DEF InterfaceInv
  <1> QED
    BY <1>2, <1>3, <1>4 DEF InterfaceInv

(* What the withdrawal of a part of a nonce account does.                  *)
LEMMA PartBeside ==
  ASSUME InterfaceInv, PartWithdrawn, UNCHANGED paymentVars
  PROVE  InterfaceInv'
  <1>1. PICK e \in nonceAccount : TradesSpared({e}) /\ lamports'[e] >= Rent["durable"]
    BY PartSpares DEF InterfaceInv
  <1>2. PdasKeptBut({})
    BY PartSpares DEF InterfaceInv
  <1>3. TradeTypeOK' /\ NonceGuardsOneTrade' /\ VaultSolvent' /\ Prepared'
    BY <1>1, SparedStep
  <1>4. /\ e \in Ephemerals
        /\ UNCHANGED <<atas, configVars, tradeDetail, tradeVault, nonceCheck, nonceAccount>>
        /\ tradeVault' = {t \in TradeIds : Exists(t)'}
        /\ nonceCheck \subseteq Ephemerals /\ atas \subseteq TokenAccount
        /\ tradeVault \subseteq TradeIds
    BY <1>1, LedgerFacts DEF InterfaceInv, TradeTypeOK, TradeRentHeld, Exists, TradesSpared,
       tradeVars
  <1>5. PaymentTypeOK'
    BY <1>3 DEF InterfaceInv, PaymentTypeOK, TradeTypeOK, paymentVars
  <1>6. TradeRentHeld'
    <2>1. KeptBut({e})
      BY <1>1 DEF TradesSpared
    <2>2. /\ \A t \in tradeVault : TradePda(t) # e /\ VaultPda(t) # e
          /\ \A f \in nonceCheck : NoncePda(f) # e
          /\ \A a \in atas : a # e
      BY <1>4, RentedApart
    <2> QED  BY <1>1, <1>3, <1>4, <2>1, <2>2, RentFrame DEF InterfaceInv
  <1>7. ConfigRentHeld'
    BY <1>2, <1>3, <1>4, ConfigRentKept DEF InterfaceInv, TradeTypeOK
  <1>8. ReceiptRentHeld'
    BY <1>2, <1>3, ConfigPdas, LedgerAssumption
       DEF InterfaceInv, ReceiptRentHeld, PdasKeptBut, paymentVars, TradeTypeOK, ConfigTypeOK,
           LedgerTypeOK, RentKind
  <1> QED
    BY <1>3, <1>5, <1>6, <1>7, <1>8 DEF InterfaceInv

(* What configuration, strangers and the clock do to both.                 *)
LEMMA OthersBeside ==
  ASSUME InterfaceInv,
         \/ ConfigNext /\ UNCHANGED <<tradeVars, paymentVars>>
         \/ AnyLedgerNext /\ UNCHANGED <<configVars, tradeVars, paymentVars>>
         \/ UNCHANGED chain
  PROVE  InterfaceInv'
  <1>1. [AnyTradeNext]_vars /\ [AnyPaymentNext]_allPayment
    BY DEF AnyTradeNext, AnyPaymentNext, chain, vars, allPayment
  <1>2. TradeTypeOK' /\ PaymentTypeOK'
    BY <1>1, TradeTypeStep, PaymentTypeStep DEF InterfaceInv
  <1>3. NonceGuardsOneTrade' /\ Prepared'
    BY <1>1, NonceStepKeeps, ReadyStep DEF InterfaceInv
  <1>4. VaultSolvent'
    BY <1>1, <1>2, SolventStep DEF InterfaceInv, VaultSolvent, Solvent
  <1>5. TradeRentHeld'
    BY <1>1, <1>2, TradeRentStep DEF InterfaceInv
  <1>6. ConfigRentHeld' /\ ReceiptRentHeld'
    BY <1>1, <1>2, RentStep DEF InterfaceInv
  <1> QED
    BY <1>2, <1>3, <1>4, <1>5, <1>6 DEF InterfaceInv

(* It holds at the start.                                                  *)
LEMMA InterfaceStarts == InterfaceInit => InterfaceInv
  <1> SUFFICES ASSUME InterfaceInit PROVE InterfaceInv
    OBVIOUS
  <1>1. /\ TradeInit /\ PaymentInit /\ DeploymentInit /\ LedgerInit
        /\ config = StartConfig /\ whitelist = StartWhitelist /\ feeReceivers = {}
    BY DEF InterfaceInit, TradeInit, DeploymentInit
  <1>2. ConfigTypeOK
    BY <1>1, StartAssumption, LedgerAssumption, StartIsSetUp
       DEF LedgerInit, LedgerTypeOK, ConfigTypeOK
  <1>3. TradeTypeOK /\ PaymentTypeOK
    BY <1>1, <1>2 DEF TradeInit, PaymentInit, TradeTypeOK, PaymentTypeOK
  <1>4. NonceGuardsOneTrade /\ VaultSolvent
    BY <1>1 DEF TradeInit, NonceGuardsOneTrade, VaultSolvent, Open, Exists
  <1>5. TradeRentHeld
    BY <1>1, StartIsSetUp DEF TradeInit, LedgerInit, TradeRentHeld, Exists
  <1>6. Prepared
    BY <1>1, StartIsSetUp, NoneIsNoConfig DEF TradeInit, Prepared, Exists
  <1>7. ConfigRentHeld /\ ReceiptRentHeld
    BY <1>1, StartIsSetUp DEF PaymentInit, LedgerInit, ConfigRentHeld, ReceiptRentHeld
  <1> QED
    BY <1>3, <1>4, <1>5, <1>6, <1>7 DEF InterfaceInv

(* Every instruction keeps it.                                             *)
LEMMA InterfaceStep == InterfaceInv /\ [AnyNext]_chain => InterfaceInv'
  BY InterfaceSteps, TradeBeside, PaymentBeside, PartBeside, OthersBeside

(* It always holds.                                                        *)
LEMMA InterfaceAlways == InterfaceSpec => []InterfaceInv
  BY InterfaceStep, InterfaceStarts, SentAllowed, PTL DEF InterfaceSpec

(* What a step takes, changes and declares.                                *)
LEMMA SentWithin ==
  ASSUME InterfaceInv, NEW i \in Instruction, Execute(i)
  PROVE  /\ Changed \subseteq Accounts(i).writes
         /\ \A k \in Wallets \ Accounts(i).signs :
              /\ lamports'[k] >= lamports[k]
              /\ \A m \in Mints : tokens'[Ata(k, m)] >= tokens[Ata(k, m)]
  <1>1. TradeTypeOK /\ PaymentTypeOK /\ LedgerTypeOK
    BY LedgerFacts DEF InterfaceInv
  <1> QED
    BY <1>1, ExecuteWithin, WithinShows

(* Every account that an instruction changes is declared writable in the   *)
(* interface, for any wallets, trades, payments, tokens and arguments and  *)
(* in every state that can be reached: the runtime never refuses what the  *)
(* program allows.                                                         *)
THEOREM WritesAlwaysDeclared == InterfaceSpec => WritesDeclared
  <1>1. InterfaceInv => \A i \in Sent : Execute(i) => Changed \subseteq Accounts(i).writes
    BY SentWithin, SentAssumption
  <1> QED
    BY <1>1, InterfaceAlways, PTL DEF WritesDeclared

(* Nobody can make a wallet pay that has not signed: not with any          *)
(* instruction, in whatever state trades, payments and configuration are.  *)
THEOREM NobodyEverPaysUnsigned == InterfaceSpec => NobodyPaysUnsigned
  <1>1. InterfaceInv =>
          \A i \in Sent : Execute(i) => \A k \in Wallets \ Accounts(i).signs :
             /\ lamports'[k] >= lamports[k]
             /\ \A m \in Mints : tokens'[Ata(k, m)] >= tokens[Ata(k, m)]
    BY SentWithin, SentAssumption
  <1> QED
    BY <1>1, InterfaceAlways, PTL DEF NobodyPaysUnsigned

(* The deposits are as safe beside payments, withdrawals of the fees and   *)
(* nonce accounts that are withdrawn in parts as they are alone.           *)
THEOREM DepositsSafeTogether ==
  InterfaceSpec => [](VaultSolvent /\ NonceGuardsOneTrade /\ TradeRentHeld)
  <1>1. InterfaceInv => VaultSolvent /\ NonceGuardsOneTrade /\ TradeRentHeld
    BY DEF InterfaceInv
  <1> QED
    BY <1>1, InterfaceAlways, PTL

(* Neither are trades blocked, nor are fees stranded: settlement adds to   *)
(* the protocol's account what withdrawals take from it.                   *)
THEOREM NothingBlockedTogether ==
  InterfaceSpec => [](NeverBlocked /\ FeesPayable /\ ReceiptRentHeld)
  <1>1. InterfaceInv => NeverBlocked /\ FeesPayable /\ ReceiptRentHeld
    BY NothingBlocks, NoFeeStranded DEF InterfaceInv, TradeInv
  <1> QED
    BY <1>1, InterfaceAlways, PTL

-----------------------------------------------------------------------------
(* What is about steps, or needs more than InterfaceInv.                   *)

(* A step that makes no payment and closes no receipt.                     *)
LEMMA NoPayment ==
  ASSUME InterfaceInv, [AnyNext]_chain
  PROVE  \/ [AnyPaymentNext]_allPayment
         \/ UNCHANGED <<now, config, receipts, paid>>
  <1>1. CASE \/ AnyPaymentStep
             \/ ConfigNext /\ UNCHANGED <<tradeVars, paymentVars>>
             \/ AnyLedgerNext /\ UNCHANGED <<configVars, tradeVars, paymentVars>>
             \/ UNCHANGED chain
    BY <1>1 DEF AnyPaymentNext, chain, allPayment
  <1>2. CASE TradeStep /\ UNCHANGED paymentVars
    BY <1>2 DEF TradeStep, Deposit, SetTotalFee, Settlement, Claim, CloseFinishedTrade,
                ledgerVars, configVars, paymentVars
  <1>3. CASE AnyNonceStep /\ UNCHANGED paymentVars
    BY <1>3 DEF AnyNonceStep, CreateNonceAccount, WithdrawNonceAccount, configVars, paymentVars
  <1>4. CASE PartWithdrawn /\ UNCHANGED paymentVars
    BY <1>4 DEF PartWithdrawn, configVars, paymentVars
  <1> QED
    BY <1>1, <1>2, <1>3, <1>4, InterfaceSteps

(* A step that leaves the trades alone.                                    *)
LEMMA NoTrade ==
  ASSUME InterfaceInv, [AnyNext]_chain
  PROVE  \/ [AnyTradeNext]_vars
         \/ UNCHANGED <<now, tradeDetail>> /\ \A t \in TradeIds : VaultSame(t)
  <1>1. CASE \/ TradeStep \/ AnyNonceStep
             \/ ConfigNext /\ UNCHANGED <<tradeVars, paymentVars>>
             \/ AnyLedgerNext /\ UNCHANGED <<configVars, tradeVars, paymentVars>>
             \/ UNCHANGED chain
    BY <1>1 DEF AnyTradeNext, chain, vars
  <1>2. ASSUME NEW L, TradesSpared(L)
        PROVE  UNCHANGED <<now, tradeDetail>> /\ \A t \in TradeIds : VaultSame(t)
    BY <1>2 DEF TradesSpared, tradeVars
  <1>3. CASE AnyPaymentStep /\ UNCHANGED tradeVars
    BY <1>2, <1>3, PaymentSpares DEF InterfaceInv
  <1>4. CASE PartWithdrawn
    BY <1>2, <1>4, PartSpares DEF InterfaceInv
  <1> QED
    BY <1>1, <1>3, <1>4, InterfaceSteps

(* No step mints or burns.                                                 *)
LEMMA InterfaceAddsUp ==
  ASSUME IsFiniteSet(Account), InterfaceInv, [AnyNext]_chain
  PROVE  LamportsAddUp /\ TokensAddUp
  <1>0. TradeTypeOK /\ PaymentTypeOK /\ LedgerTypeOK
    BY LedgerFacts DEF InterfaceInv
  <1>1. CASE [AnyTradeNext]_vars
    BY <1>0, <1>1, TradeAddsUp
  <1>2. CASE [AnyPaymentNext]_allPayment
    BY <1>0, <1>2, PaymentAddsUp
  <1>3. CASE PartWithdrawn
    <2>1. PICK to \in Wallets, e \in Ephemerals, n \in Nat : lamports' = Move(lamports, e, to, n)
      BY <1>3 DEF PartWithdrawn
    <2>2. e \in Account /\ to \in Account /\ n \in Int /\ UNCHANGED tokens
      BY <1>3, Addresses, LedgerAssumption DEF PartWithdrawn
    <2> QED  BY <1>0, <2>1, <2>2, LamportsMoved, NothingMoved
  <1> QED
    BY <1>1, <1>2, <1>3, InterfaceSteps DEF AnyTradeNext, AnyPaymentNext, chain, vars, allPayment

(* No lamport and no token is minted or burnt, whatever instructions of    *)
(* trades, payments, configuration and other programs follow each other.   *)
THEOREM ValueConservedTogether ==
  ASSUME IsFiniteSet(Account)
  PROVE  InterfaceSpec => []ValueConserved
  <1>1. InterfaceInit => ValueConserved
    BY DEF InterfaceInit, TradeInit, DeploymentInit, LedgerInit, ValueConserved
  <1>2. InterfaceInv /\ ValueConserved /\ [AnyNext]_chain => ValueConserved'
    BY InterfaceAddsUp, ValueStep, LedgerFacts DEF InterfaceInv
  <1> QED
    BY <1>1, <1>2, InterfaceAlways, SentAllowed, PTL DEF InterfaceSpec

(* Every instruction keeps what keeps copies of payments from paying.      *)
LEMMA OnceKept == InterfaceInv /\ OnceInv /\ [AnyNext]_chain => OnceInv'
  <1>1. UNCHANGED <<now, config, receipts, paid>> /\ OnceInv => OnceInv'
    BY DEF OnceInv, DurationKnown, CopiesRefused, Lapsed
  <1> QED
    BY <1>1, NoPayment, OnceStep DEF InterfaceInv

(* A copy of a payment is refused while its receipt can be there, also     *)
(* where its payee, its payer and the operators trade at the same time.    *)
THEOREM CopiesRefusedTogether == InterfaceSpec => []CopiesRefused
  <1>1. InterfaceInit => OnceInv
    BY OnceStarts DEF InterfaceInit, PaymentInit
  <1>2. OnceInv => CopiesRefused
    BY DEF OnceInv
  <1> QED
    BY <1>1, <1>2, OnceKept, InterfaceAlways, SentAllowed, PTL DEF InterfaceSpec

(* Every instruction, whatever it is for, is a step of the escrow or none. *)
LEMMA EscrowBeside ==
  ASSUME InterfaceInv, InterfaceInv', [AnyNext]_chain
  PROVE  [Escrowed!Next]_<<now, EscrowView>>
  <1>1. TradeTypeOK /\ TradeTypeOK' /\ VaultSolvent'
    BY DEF InterfaceInv
  <1>2. CASE [AnyTradeNext]_vars
    BY <1>1, <1>2, EscrowStep
  <1>3. CASE UNCHANGED <<now, tradeDetail>> /\ \A t \in TradeIds : VaultSame(t)
    <2>1. UNCHANGED <<now, EscrowView>>
      BY <1>1, <1>3, AllSame
    <2> QED  BY <2>1
  <1> HIDE DEF Escrowed!Next
  <1>4. \/ [AnyTradeNext]_vars
        \/ UNCHANGED <<now, tradeDetail>> /\ \A t \in TradeIds : VaultSame(t)
    BY NoTrade
  <1> QED  BY <1>2, <1>3, <1>4

(* The trades are escrows in the middle of everything else that the        *)
(* program does: no payment, no withdrawal of fees and no change of the    *)
(* configuration is visible in an escrow.                                  *)
THEOREM EscrowTogether == InterfaceSpec => ImplementsEscrow
  <1>1. InterfaceInit => Escrowed!Init
    <2>1. InterfaceInit => \A t \in TradeIds : View(t) = None
      BY DEF InterfaceInit, TradeInit, View, Exists
    <2> QED  BY <2>1, Views DEF Escrowed!Init
  <1>2. InterfaceInv /\ InterfaceInv' /\ [AnyNext]_chain
          => [Escrowed!Next]_<<now, EscrowView>>
    BY EscrowBeside
  <1> QED
    BY <1>1, <1>2, InterfaceAlways, SentAllowed, PTL
    DEF InterfaceSpec, ImplementsEscrow, Escrowed!Spec

(* Whatever a depositor sends to the accounts of its trade, or is paid     *)
(* elsewhere, closing the trade brings it all that is left of it.          *)
THEOREM CloseReturnsTogether == InterfaceSpec => CloseReturnsEverything
  <1> DEFINE A == \A t \in TradeIds : Exists(t) /\ ~Exists(t)' => Returned(t)
  <1>1. InterfaceInv /\ [AnyNext]_chain => [A]_vars
    <2>1. ASSUME InterfaceInv, [AnyNext]_chain, NEW t \in TradeIds, Exists(t), ~Exists(t)'
          PROVE  Returned(t)
      <3>1. [AnyTradeNext]_vars
        BY <2>1, NoTrade DEF Exists
      <3> QED  BY <2>1, <3>1, EndReturns DEF InterfaceInv
    <2> QED  BY <2>1
  <1>2. CloseReturnsEverything <=> [][A]_vars
    BY EndsReturn
  <1> HIDE DEF A
  <1> QED
    BY <1>1, <1>2, InterfaceAlways, SentAllowed, PTL DEF InterfaceSpec

(* A receipt attests a payment also to an mpc that settles trades at the   *)
(* same time: no instruction of a trade writes one.                        *)
THEOREM ReceiptsAttestTogether == InterfaceSpec => ReceiptAttests
  <1> DEFINE A == \A p \in Payments : receipts[p] = None /\ receipts'[p] # None => Attested(p)
  <1>1. InterfaceInv /\ [AnyNext]_chain => [A]_allPayment
    <2>1. ASSUME InterfaceInv, [AnyNext]_chain, NEW p \in Payments,
                 receipts[p] = None, receipts'[p] # None
          PROVE  Attested(p)
      <3>1. [AnyPaymentNext]_allPayment
        BY <2>1, NoPayment
      <3> QED  BY <2>1, <3>1, ReceiptStep DEF InterfaceInv
    <2> QED  BY <2>1
  <1>2. ReceiptAttests <=> [][A]_allPayment
    BY ReceiptsStep
  <1> HIDE DEF A
  <1> QED
    BY <1>1, <1>2, InterfaceAlways, SentAllowed, PTL DEF InterfaceSpec

-----------------------------------------------------------------------------
(* What closed accounts leave behind.                                      *)

\* An address of the program without an account holds nothing.
NothingLeft ==
    /\ \A t \in TradeIds : ~Exists(t) => lamports[TradePda(t)] = 0
    /\ \A t \in TradeIds \ tradeVault : lamports[VaultPda(t)] = 0
    /\ \A e \in Ephemerals \ nonceCheck : lamports[NoncePda(e)] = 0
    /\ \A m \in Mints : whitelist[m] = None => lamports[WhitelistPda(m)] = 0
    /\ \A k \in Wallets \ feeReceivers : lamports[ReceiverPda(k)] = 0
    /\ \A p \in Payments : receipts[p] = None => lamports[ReceiptPda(p)] = 0

\* Nobody has sent lamports to an address of the program in advance, and
\* nobody does: such an account is not created by createAccount.
StartsEmpty ==
    /\ \A t \in TradeIds : /\ Start.lamports[TradePda(t)] = 0
                           /\ Start.lamports[VaultPda(t)] = 0
    /\ \A e \in Ephemerals : Start.lamports[NoncePda(e)] = 0
    /\ \A m \in Mints : StartWhitelist[m] = None => Start.lamports[WhitelistPda(m)] = 0
    /\ \A k \in Wallets : Start.lamports[ReceiverPda(k)] = 0
    /\ \A p \in Payments : Start.lamports[ReceiptPda(p)] = 0

NoGiftsToPdas == GiftTargets \cap Pda = {}

(* The seeds can be read off an address.                                   *)
LEMMA Seeds ==
    /\ \A x : /\ TradePda(x).kind = "trade" /\ TradePda(x).of = x
              /\ VaultPda(x).kind = "vault" /\ VaultPda(x).of = x
              /\ NoncePda(x).kind = "nonce" /\ NoncePda(x).of = x
              /\ WhitelistPda(x).kind = "whitelist" /\ WhitelistPda(x).of = x
              /\ ReceiverPda(x).kind = "receiver" /\ ReceiverPda(x).of = x
              /\ ReceiptPda(x).kind = "receipt" /\ ReceiptPda(x).of = x
    /\ \A o, m : Ata(o, m).kind = "ata"
    /\ ConfigPda.kind = "config" /\ ProtocolPda.kind = "protocol"
    /\ LegacyVaultPda.kind = "legacy vault"
  BY DEF TradePda, VaultPda, NoncePda, WhitelistPda, ReceiverPda, ReceiptPda, Ata,
         ConfigPda, ProtocolPda, LegacyVaultPda

\* The accounts that the program opens and closes.
Closable == {"trade", "vault", "nonce", "whitelist", "receiver", "receipt"}

(* They are addresses apart from keys and the protocol's account.          *)
LEMMA ClosablePdas ==
    /\ \A t \in TradeIds : TradePda(t) \in Pda /\ VaultPda(t) \in Pda
    /\ \A e \in Ephemerals : NoncePda(e) \in Pda
    /\ \A m \in Mints : WhitelistPda(m) \in Pda
    /\ \A k \in Wallets : ReceiverPda(k) \in Pda
    /\ \A p \in Payments : ReceiptPda(p) \in Pda
    /\ \A a \in Pda : a \in Account /\ a \notin Wallets /\ a \notin Ephemerals
                      /\ a \notin TokenAccount
    /\ \A a \in Pda : a.kind \in Closable => a \notin Recipient
  <1>1. \A a \in Pda : a \in Account /\ a \notin Wallets /\ a \notin Ephemerals
                       /\ a \notin TokenAccount
    BY KeysAssumption, ConfigPdas, ConfigPdasApart
  <1>2. \A a \in Pda : a.kind \in Closable => a \notin Recipient
    BY <1>1, Seeds DEF Recipient, Closable
  <1> QED
    BY <1>1, <1>2 DEF Pda

\* What i may open or close.
MayOpen(i) ==
    {a \in Accounts(i).writes \cap Pda : a.kind \in Closable}

(* Per instruction, the accounts that it may open or close.                *)
LEMMA OpenedOnly ==
  ASSUME NEW i \in Instruction, NEW a \in MayOpen(i)
  PROVE  \/ i.op = "addOrUpdateWhitelist" /\ a = WhitelistPda(i.token)
         \/ i.op = "removeWhitelist" /\ a = WhitelistPda(i.entry)
         \/ i.op \in {"addFeeReceiver", "removeFeeReceiver"} /\ a = ReceiverPda(i.receiver)
         \/ /\ i.op \in {"deposit", "settlement", "claim"}
            /\ a \in {TradePda(i.trade), NoncePda(i.ephemeral), VaultPda(i.trade)}
         \/ i.op = "setTotalFee" /\ a = TradePda(i.trade)
         \/ i.op = "closeFinishedTrade" /\ a \in {TradePda(i.trade), VaultPda(i.trade)}
         \/ i.op \in {"payment", "closePaymentReceipt"} /\ a = ReceiptPda(i.payment)
  <1> DEFINE W == Accounts(i).writes
  <1>1. i \in Instruction /\ a \in W
    BY DEF MayOpen
  <1>2. a \in Pda /\ a.kind \in Closable
    BY DEF MayOpen
  <1>3. a \notin Wallets /\ a \notin Ephemerals /\ a \notin Recipient
    BY <1>2, ClosablePdas
  <1>4. ASSUME NEW o, NEW m
        PROVE  a # Ata(o, m)
    <2>1. Ata(o, m).kind = "ata"
      BY DEF Ata
    <2> QED  BY <1>2, <2>1 DEF Closable
  <1>5. a \notin {ProtocolPda, ConfigPda, LegacyVaultPda}
    BY <1>2, Seeds DEF Closable
  <1>6. \A owners, token : a \notin TokenMetas(owners, token)
    BY <1>4 DEF TokenMetas
  <1>7. CASE i.op \in {"init", "addOrRemoveOperator", "setCloseWaitDuration",
                       "withdrawTotalFee", "createAta", "createNonce", "withdrawNonce"}
    <2>1. /\ i.op \in {"init", "addOrRemoveOperator", "withdrawTotalFee", "createAta",
                       "createNonce", "withdrawNonce"} => i.signer \in Wallets
          /\ i.op = "setCloseWaitDuration" => i.operator \in Wallets
          /\ i.op \in {"withdrawTotalFee", "withdrawNonce"} => i.to \in Wallets
          /\ i.op \in {"createNonce", "withdrawNonce"} => i.ephemeral \in Ephemerals
      BY <1>1, <1>7, LedgerAssumption DEF Instruction
    <2> QED
      BY <1>1, <1>3, <1>4, <1>5, <1>6, <1>7, <2>1
         DEF Accounts, InitAccounts, AddOrRemoveOperatorAccounts, SetCloseWaitDurationAccounts,
             WithdrawTotalFeeAccounts, CreateAtaAccounts, CreateNonceAccounts,
             WithdrawNonceAccounts, Metas
  <1>8. CASE i.op \in {"addOrUpdateWhitelist", "removeWhitelist"}
    <2>1. i.operator \in Wallets
      BY <1>1, <1>8 DEF Instruction
    <2> QED
      BY <1>1, <1>3, <1>8, <2>1
         DEF Accounts, AddOrUpdateWhitelistAccounts, RemoveWhitelistAccounts, Metas
  <1>9. CASE i.op \in {"addFeeReceiver", "removeFeeReceiver"}
    <2>1. i.signer \in Wallets
      BY <1>1, <1>9 DEF Instruction
    <2> QED
      BY <1>1, <1>3, <1>9, <2>1
         DEF Accounts, AddFeeReceiverAccounts, RemoveFeeReceiverAccounts, Metas
  <1>10. CASE i.op = "deposit"
    <2>1. i.signer \in Wallets /\ i.ephemeral \in Ephemerals
      BY <1>1, <1>10 DEF Instruction
    <2>2. W = {i.signer, i.ephemeral}
                \cup ({TradePda(i.trade), NoncePda(i.ephemeral), VaultPda(i.trade)}
                        \cup TokenMetas({i.signer, VaultPda(i.trade)}, i.token))
      BY <1>10 DEF Accounts, DepositAccounts, Metas
    <2> QED
      BY <1>1, <1>3, <1>6, <1>10, <2>1, <2>2
  <1>11. CASE i.op = "settlement"
    <2>1. {i.signer, i.user} \subseteq Wallets /\ {i.refund, i.pmm} \subseteq Recipient
      BY <1>1, <1>11, TradeBounds DEF Instruction
    <2>2. W = {i.signer, i.user, TradePda(i.trade), NoncePda(i.ephemeral),
                 VaultPda(i.trade), i.refund, ProtocolPda, i.pmm}
                \cup TokenMetas({VaultPda(i.trade), i.pmm, ProtocolPda}, i.token)
      BY <1>11 DEF Accounts, SettlementAccounts
    <2> QED
      BY <1>1, <1>3, <1>5, <1>6, <1>11, <2>1, <2>2
  <1>12. CASE i.op = "claim"
    <2>1. {i.signer, i.user} \subseteq Wallets /\ i.refund \in Recipient
      BY <1>1, <1>12 DEF Instruction
    <2>2. W = {i.signer} \cup
                ({i.user, NoncePda(i.ephemeral), TradePda(i.trade), VaultPda(i.trade), i.refund}
                   \cup TokenMetas({VaultPda(i.trade), i.refund, ProtocolPda}, i.token))
      BY <1>12 DEF Accounts, ClaimAccounts, Metas
    <2> QED
      BY <1>1, <1>3, <1>6, <1>12, <2>1, <2>2
  <1>13. CASE i.op = "setTotalFee"
    <2>1. i.signer \in Wallets
      BY <1>1, <1>13 DEF Instruction
    <2> QED
      BY <1>1, <1>3, <1>13, <2>1 DEF Accounts, SetTotalFeeAccounts, Metas
  <1>14. CASE i.op = "closeFinishedTrade"
    <2>1. {i.signer, i.user} \subseteq Wallets
      BY <1>1, <1>14 DEF Instruction
    <2>2. W = {i.signer} \cup ({i.user, TradePda(i.trade), VaultPda(i.trade)}
                                 \cup TokenMetas({VaultPda(i.trade), i.user}, i.token))
      BY <1>14 DEF Accounts, CloseFinishedTradeAccounts, Metas
    <2> QED
      BY <1>1, <1>3, <1>6, <1>14, <2>1, <2>2
  <1>15. CASE i.op \in {"payment", "closePaymentReceipt"}
    <2>1. i.signer \in Wallets /\ i.payment.to \in Recipient
      BY <1>1, <1>15, PaymentAssumption DEF Instruction
    <2>2. i.op = "payment" =>
            W = {i.signer} \cup ({i.payment.to, ProtocolPda, ReceiptPda(i.payment)}
                  \cup TokenMetas({i.signer, i.payment.to, ProtocolPda}, i.payment.token))
      BY DEF Accounts, PaymentAccounts, Metas
    <2>3. i.op = "closePaymentReceipt" => W = {i.signer} \cup {ReceiptPda(i.payment)}
      BY DEF Accounts, ClosePaymentReceiptAccounts, Metas
    <2> QED
      BY <1>1, <1>3, <1>5, <1>6, <1>15, <2>1, <2>2, <2>3
  <1>16. i.op \in {"init", "addOrRemoveOperator", "setCloseWaitDuration", "withdrawTotalFee",
                   "createAta", "createNonce", "withdrawNonce", "addOrUpdateWhitelist",
                   "removeWhitelist", "addFeeReceiver", "removeFeeReceiver", "deposit",
                   "settlement", "claim", "setTotalFee", "closeFinishedTrade", "payment",
                   "closePaymentReceipt"}
    BY <1>1 DEF Instruction
  <1> QED
    BY <1>7, <1>8, <1>9, <1>10, <1>11, <1>12, <1>13, <1>14, <1>15, <1>16

(* So its kind tells the instructions, and its seed their argument.        *)
LEMMA OpenedKinds ==
  ASSUME NEW i \in Instruction, NEW a \in MayOpen(i)
  PROVE  /\ a.kind \in {"trade", "vault"} =>
              /\ i.op \in {"deposit", "settlement", "claim", "setTotalFee", "closeFinishedTrade"}
              /\ a.of = i.trade
         /\ a.kind = "nonce" =>
              i.op \in {"deposit", "settlement", "claim"} /\ a.of = i.ephemeral
         /\ a.kind = "whitelist" =>
              \/ i.op = "addOrUpdateWhitelist" /\ a.of = i.token
              \/ i.op = "removeWhitelist" /\ a.of = i.entry
         /\ a.kind = "receiver" =>
              i.op \in {"addFeeReceiver", "removeFeeReceiver"} /\ a.of = i.receiver
         /\ a.kind = "receipt" =>
              i.op \in {"payment", "closePaymentReceipt"} /\ a.of = i.payment
  <1>1. /\ TradePda(i.trade).kind = "trade" /\ TradePda(i.trade).of = i.trade
        /\ VaultPda(i.trade).kind = "vault" /\ VaultPda(i.trade).of = i.trade
        /\ NoncePda(i.ephemeral).kind = "nonce" /\ NoncePda(i.ephemeral).of = i.ephemeral
    BY DEF TradePda, VaultPda, NoncePda
  <1>2. /\ WhitelistPda(i.token).kind = "whitelist" /\ WhitelistPda(i.token).of = i.token
        /\ WhitelistPda(i.entry).kind = "whitelist" /\ WhitelistPda(i.entry).of = i.entry
        /\ ReceiverPda(i.receiver).kind = "receiver" /\ ReceiverPda(i.receiver).of = i.receiver
        /\ ReceiptPda(i.payment).kind = "receipt" /\ ReceiptPda(i.payment).of = i.payment
    BY DEF WhitelistPda, ReceiverPda, ReceiptPda
  <1> QED
    BY <1>1, <1>2, OpenedOnly

(* Each instruction is its handler.                                        *)
LEMMA Handled ==
  ASSUME NEW i, Execute(i)
  PROVE  /\ i.op = "addOrUpdateWhitelist" => AddOrUpdateWhitelist(i.operator, i.token, i.amount)
         /\ i.op = "removeWhitelist" => RemoveWhitelist(i.operator, i.token, i.entry)
         /\ i.op = "addFeeReceiver" => AddFeeReceiver(i.signer, i.receiver)
         /\ i.op = "removeFeeReceiver" => RemoveFeeReceiver(i.signer, i.receiver)
         /\ i.op = "deposit" => DepositEntry(i)
         /\ i.op = "setTotalFee" => SetTotalFeeEntry(i)
         /\ i.op = "settlement" => SettlementEntry(i)
         /\ i.op = "claim" => ClaimEntry(i)
         /\ i.op = "closeFinishedTrade" => CloseFinishedTradeEntry(i)
         /\ i.op = "payment" => \E deadline : Pay(i.payment, deadline)
         /\ i.op = "closePaymentReceipt" => ClosePaymentReceipt(i.payment)
  BY DEF Execute, Program, System, OnConfig, OnTrade, OnPayment, DepositEntry,
         SetTotalFeeEntry, SettlementEntry, ClaimEntry, CloseFinishedTradeEntry

(* Settlement and claim leave nothing at the address of the nonce check    *)
(* PDA, since they send to the depositor whatever they find there last.    *)
LEMMA NonceEmptied ==
  ASSUME TradeTypeOK, NEW t \in TradeIds, Claim(t) \/ \E pmm \in Pmms : Settlement(t, pmm)
  PROVE  /\ Exists(t) /\ lamports'[NoncePda(tradeDetail[t].eph)] = 0
         /\ nonceCheck' = nonceCheck \ {tradeDetail[t].eph}
  <1> DEFINE d   == tradeDetail[t]
             pda == NoncePda(d.eph)
  <1>1. Exists(t) /\ nonceCheck' = nonceCheck \ {d.eph}
    BY DEF Claim, AssertClaim, Settlement, AssertSettlement, Open
  <1>2. /\ lamports \in [Account -> Int] /\ d.amount \in Int /\ d.user \in Wallets
        /\ d.user \in Account /\ d.refund \in Account /\ VaultPda(t) \in Account
        /\ d.eph \in Ephemerals /\ ProtocolPda \in Account /\ Pmms \subseteq Account
        /\ Fee(t) \in Int /\ SettlementAmount(t) \in Int
    BY <1>1, LedgerFacts, DetailFacts, Addresses, TradeBounds DEF Fee, SettlementAmount
  <1>3. pda \in Account /\ pda # d.user
    BY <1>2, ClosablePdas
  <1>4. \E bal \in [Account -> Int] : lamports' = CloseNonceCheck(t, bal)
    <2>1. CASE Claim(t)
      <3>1. Move(lamports, VaultPda(t), d.refund, d.amount) \in [Account -> Int]
        BY <1>2, MoveFacts DEF Amount
      <3> QED  BY <1>2, <2>1, <3>1 DEF Claim, PayRefund
    <2>2. ASSUME NEW pmm \in Pmms, Settlement(t, pmm)
          PROVE  \E bal \in [Account -> Int] : lamports' = CloseNonceCheck(t, bal)
      <3> DEFINE withdrawn == [lamports EXCEPT ![VaultPda(t)] = @ - d.amount]
                 received  == [withdrawn EXCEPT ![pmm] = @ + SettlementAmount(t)]
                 feePaid   == [received EXCEPT ![ProtocolPda] = @ + Fee(t)]
      <3>1. withdrawn \in [Account -> Int]
        BY <1>2
      <3>2. received \in [Account -> Int]
        <4> HIDE DEF withdrawn
        <4> QED  BY <1>2, <3>1
      <3>3. feePaid \in [Account -> Int]
        <4> HIDE DEF received
        <4> QED  BY <1>2, <3>2
      <3>4. lamports' \in {CloseNonceCheck(t, feePaid), CloseNonceCheck(t, lamports)}
        BY <2>2 DEF Settlement, PayPmm
      <3> QED  BY <1>2, <3>3, <3>4
    <2> QED  BY <2>1, <2>2
  <1>5. lamports'[pda] = 0
    BY <1>2, <1>3, <1>4, DrainFacts DEF CloseNonceCheck
  <1> QED
    BY <1>1, <1>5

(* What a close leaves of a trade.                                         *)
LEMMA TradeEmptied ==
  ASSUME TradeTypeOK, NEW signer \in Wallets, NEW t \in TradeIds, CloseFinishedTrade(signer, t)
  PROVE  lamports'[TradePda(t)] = 0 /\ lamports'[VaultPda(t)] = 0
  <1> DEFINE left == {TradePda(t), VaultPda(t)} \cup
                       IF tradeDetail[t].token = None THEN {}
                       ELSE {Ata(VaultPda(t), tradeDetail[t].token)}
  <1>1. \A a \in left : lamports'[a] = 0
    <2> HIDE DEF left
    <2> QED  BY CloseReturns DEF left
  <1> QED
    BY <1>1

(* An instruction leaves nothing at the addresses it closes, and puts      *)
(* nothing where it opens no account.                                      *)
LEMMA EmptyStep ==
  ASSUME InterfaceInv, InterfaceInv', NothingLeft, NEW i \in Instruction, Execute(i)
  PROVE  NothingLeft'
  <1>0. /\ TradeTypeOK /\ TradeRentHeld /\ TradeRentHeld'
        /\ lamports \in [Account -> Int]
    BY LedgerFacts DEF InterfaceInv
  <1>1. ASSUME NEW a \in Pda, a.kind \in Closable, a \in Changed
        PROVE  a \in MayOpen(i)
    BY <1>1, SentWithin DEF MayOpen
  <1>2. ASSUME NEW t \in TradeIds, t \notin tradeVault'
        PROVE  lamports'[TradePda(t)] = 0 /\ lamports'[VaultPda(t)] = 0
    <2>0. /\ TradePda(t) \in Pda /\ VaultPda(t) \in Pda
          /\ TradePda(t) \in Account /\ VaultPda(t) \in Account
          /\ TradePda(t).kind \in Closable /\ VaultPda(t).kind \in Closable
          /\ TradePda(t).kind = "trade" /\ TradePda(t).of = t
          /\ VaultPda(t).kind = "vault" /\ VaultPda(t).of = t
      BY ClosablePdas DEF Closable, TradePda, VaultPda
    <2>1. CASE TradePda(t) \notin Changed /\ VaultPda(t) \notin Changed
      <3>1. /\ lamports'[TradePda(t)] = lamports[TradePda(t)]
            /\ lamports'[VaultPda(t)] = lamports[VaultPda(t)]
            /\ (t \in tradeVault)' = (t \in tradeVault)
        BY <2>0, <2>1 DEF Changed
      <3>2. t \notin tradeVault /\ ~Exists(t)
        BY <1>0, <1>2, <3>1 DEF TradeRentHeld
      <3> QED  BY <3>1, <3>2 DEF NothingLeft
    <2>2. CASE TradePda(t) \in MayOpen(i) \/ VaultPda(t) \in MayOpen(i)
      <3>1. /\ i.op \in {"deposit", "settlement", "claim", "setTotalFee", "closeFinishedTrade"}
            /\ i.trade = t
        BY <2>2, <2>0, OpenedKinds
      <3>2. CASE i.op = "deposit"
        BY <1>2, <3>1, <3>2, Handled DEF DepositEntry, Deposit
      <3>3. CASE i.op \in {"settlement", "claim", "setTotalFee"}
        <4>1. Exists(t) /\ tradeVault' = tradeVault
          BY <3>1, <3>3, Handled
             DEF SettlementEntry, Settlement, ClaimEntry, Claim, SetTotalFeeEntry, SetTotalFee
        <4> QED  BY <1>0, <1>2, <4>1 DEF TradeRentHeld
      <3>4. CASE i.op = "closeFinishedTrade"
        <4>1. i.signer \in Wallets /\ CloseFinishedTrade(i.signer, t)
          BY <3>1, <3>4, Handled, TradeArguments DEF CloseFinishedTradeEntry
        <4> QED  BY <1>0, <4>1, TradeEmptied
      <3> QED  BY <3>1, <3>2, <3>3, <3>4
    <2> QED  BY <1>1, <2>0, <2>1, <2>2
  <1>3. ASSUME NEW e \in Ephemerals, e \notin nonceCheck'
        PROVE  lamports'[NoncePda(e)] = 0
    <2>0. /\ NoncePda(e) \in Pda /\ NoncePda(e) \in Account /\ NoncePda(e).kind \in Closable
          /\ NoncePda(e).kind = "nonce" /\ NoncePda(e).of = e
      BY ClosablePdas DEF Closable, NoncePda
    <2>1. CASE NoncePda(e) \notin Changed
      <3>1. /\ lamports'[NoncePda(e)] = lamports[NoncePda(e)]
            /\ (e \in nonceCheck)' = (e \in nonceCheck)
        BY <2>0, <2>1 DEF Changed
      <3> QED  BY <1>3, <3>1 DEF NothingLeft
    <2>2. CASE NoncePda(e) \in MayOpen(i)
      <3>1. i.op \in {"deposit", "settlement", "claim"} /\ i.ephemeral = e
        BY <2>2, <2>0, OpenedKinds
      <3>2. CASE i.op = "deposit"
        BY <1>3, <3>1, <3>2, Handled DEF DepositEntry, Deposit
      <3>3. CASE i.op \in {"settlement", "claim"}
        <4>1. /\ i.trade \in TradeIds /\ tradeDetail[i.trade].eph = e
              /\ Claim(i.trade) \/ (i.pmm \in Pmms /\ Settlement(i.trade, i.pmm))
          BY <3>1, <3>3, Handled, TradeArguments DEF SettlementEntry, ClaimEntry
        <4> QED  BY <1>0, <4>1, NonceEmptied
      <3> QED  BY <3>1, <3>2, <3>3
    <2> QED  BY <1>1, <2>0, <2>1, <2>2
  <1>4. ASSUME NEW m \in Mints, whitelist'[m] = None
        PROVE  lamports'[WhitelistPda(m)] = 0
    <2>0. /\ WhitelistPda(m) \in Pda /\ WhitelistPda(m) \in Account
          /\ WhitelistPda(m) \notin Wallets /\ WhitelistPda(m).kind \in Closable
          /\ WhitelistPda(m).kind = "whitelist" /\ WhitelistPda(m).of = m
      BY ClosablePdas DEF Closable, WhitelistPda
    <2>1. CASE WhitelistPda(m) \notin Changed
      <3>1. /\ lamports'[WhitelistPda(m)] = lamports[WhitelistPda(m)]
            /\ whitelist'[m] = whitelist[m]
        BY <2>0, <2>1 DEF Changed
      <3> QED  BY <1>4, <3>1 DEF NothingLeft
    <2>2. CASE WhitelistPda(m) \in MayOpen(i)
      <3>1. \/ i.op = "addOrUpdateWhitelist" /\ i.token = m
            \/ i.op = "removeWhitelist" /\ i.entry = m
        BY <2>2, <2>0, OpenedKinds
      <3>2. CASE i.op = "addOrUpdateWhitelist"
        <4>1. whitelist' = [whitelist EXCEPT ![m] = i.amount] /\ i.amount \in Nat
          BY <3>1, <3>2, Handled, ConfigArguments, ConfigAssumption DEF AddOrUpdateWhitelist
        <4> QED
          BY <1>0, <1>4, <4>1, LedgerAssumption DEF TradeTypeOK, ConfigTypeOK
      <3>3. CASE i.op = "removeWhitelist"
        <4>1. i.operator \in Wallets /\ lamports' = Drain(lamports, WhitelistPda(m), i.operator)
          BY <3>1, <3>3, Handled, ConfigArguments DEF RemoveWhitelist
        <4> QED  BY <1>0, <2>0, <4>1, DrainFacts, Addresses
      <3> QED  BY <3>1, <3>2, <3>3
    <2> QED  BY <1>1, <2>0, <2>1, <2>2
  <1>5. ASSUME NEW k \in Wallets, k \notin feeReceivers'
        PROVE  lamports'[ReceiverPda(k)] = 0
    <2>0. /\ ReceiverPda(k) \in Pda /\ ReceiverPda(k) \in Account
          /\ ReceiverPda(k) \notin Wallets /\ ReceiverPda(k).kind \in Closable
          /\ ReceiverPda(k).kind = "receiver" /\ ReceiverPda(k).of = k
      BY ClosablePdas DEF Closable, ReceiverPda
    <2>1. CASE ReceiverPda(k) \notin Changed
      <3>1. /\ lamports'[ReceiverPda(k)] = lamports[ReceiverPda(k)]
            /\ (k \in feeReceivers)' = (k \in feeReceivers)
        BY <2>0, <2>1 DEF Changed
      <3> QED  BY <1>5, <3>1 DEF NothingLeft
    <2>2. CASE ReceiverPda(k) \in MayOpen(i)
      <3>1. i.op \in {"addFeeReceiver", "removeFeeReceiver"} /\ i.receiver = k
        BY <2>2, <2>0, OpenedKinds
      <3>2. CASE i.op = "addFeeReceiver"
        BY <1>5, <3>1, <3>2, Handled DEF AddFeeReceiver
      <3>3. CASE i.op = "removeFeeReceiver"
        <4>1. i.signer \in Wallets /\ lamports' = Drain(lamports, ReceiverPda(k), i.signer)
          BY <3>1, <3>3, Handled, ConfigArguments DEF RemoveFeeReceiver
        <4> QED  BY <1>0, <2>0, <4>1, DrainFacts, Addresses
      <3> QED  BY <3>1, <3>2, <3>3
    <2> QED  BY <1>1, <2>0, <2>1, <2>2
  <1>6. ASSUME NEW p \in Payments, receipts'[p] = None
        PROVE  lamports'[ReceiptPda(p)] = 0
    <2>0. /\ ReceiptPda(p) \in Pda /\ ReceiptPda(p) \in Account
          /\ ReceiptPda(p) \notin Wallets /\ ReceiptPda(p).kind \in Closable
          /\ ReceiptPda(p).kind = "receipt" /\ ReceiptPda(p).of = p
      BY ClosablePdas DEF Closable, ReceiptPda
    <2>1. CASE ReceiptPda(p) \notin Changed
      <3>1. /\ lamports'[ReceiptPda(p)] = lamports[ReceiptPda(p)]
            /\ receipts'[p] = receipts[p]
        BY <2>0, <2>1 DEF Changed
      <3> QED  BY <1>6, <3>1 DEF NothingLeft
    <2>2. CASE ReceiptPda(p) \in MayOpen(i)
      <3>1. i.op \in {"payment", "closePaymentReceipt"} /\ i.payment = p
        BY <2>2, <2>0, OpenedKinds
      <3>2. CASE i.op = "payment"
        <4>1. receipts' = [receipts EXCEPT ![p] = now]
          BY <3>1, <3>2, Handled DEF Pay
        <4> QED
          BY <1>0, <1>6, <4>1, LedgerFacts, LedgerAssumption DEF InterfaceInv, PaymentTypeOK
      <3>3. CASE i.op = "closePaymentReceipt"
        <4>1. p.from \in Wallets /\ lamports' = Drain(lamports, ReceiptPda(p), p.from)
          BY <3>1, <3>3, Handled, PaymentAssumption DEF ClosePaymentReceipt
        <4> QED  BY <1>0, <2>0, <4>1, DrainFacts, Addresses
      <3> QED  BY <3>1, <3>2, <3>3
    <2> QED  BY <1>1, <2>0, <2>1, <2>2
  <1>7. \A t \in TradeIds : ~Exists(t)' => t \notin tradeVault'
    BY <1>0 DEF TradeRentHeld
  <1> QED
    BY <1>2, <1>3, <1>4, <1>5, <1>6, <1>7 DEF NothingLeft

(* Strangers put nothing there either.                                     *)
LEMMA OthersLeave ==
  ASSUME InterfaceInv, NothingLeft, NoGiftsToPdas,
         AnyLedgerNext /\ UNCHANGED <<configVars, tradeVars, paymentVars>>
  PROVE  NothingLeft'
  <1>0. lamports \in [Account -> Int] /\ Rent["ata"] \in Amount
    BY LedgerFacts, Rents DEF InterfaceInv, Amount
  <1>1. \A a \in Pda : lamports'[a] = lamports[a]
    <2>1. CASE Tick
      BY <2>1 DEF Tick
    <2>2. ASSUME NEW payer \in Wallets, NEW o \in Owner, NEW m \in Mints, CreateAta(payer, o, m)
          PROVE  \A a \in Pda : lamports'[a] = lamports[a]
      <3>1. /\ payer \in Wallets /\ payer \in Account /\ Ata(o, m) \in TokenAccount
            /\ Ata(o, m) \in Account /\ payer # Ata(o, m)
        BY Addresses, KeysApart, LedgerAssumption
      <3>2. lamports' = Fund(lamports, payer, Ata(o, m), Rent["ata"])
        BY <2>2 DEF CreateAta
      <3> QED  BY <1>0, <3>1, <3>2, FundFacts, ClosablePdas
    <2>3. ASSUME NEW o \in Wallets, NEW m \in Mints, CloseAta(o, m)
          PROVE  \A a \in Pda : lamports'[a] = lamports[a]
      <3>1. /\ o \in Account /\ Ata(o, m) \in TokenAccount
            /\ Ata(o, m) \in Account /\ o # Ata(o, m)
        BY Addresses, KeysApart
      <3>2. lamports' = Drain(lamports, Ata(o, m), o)
        BY <2>3 DEF CloseAta
      <3> QED  BY <1>0, <3>1, <3>2, DrainFacts, ClosablePdas
    <2>4. ASSUME NEW giver \in Givers, NEW to \in GiftTargets, NEW n \in Gifts,
                 GiveLamports(giver, to, n)
          PROVE  \A a \in Pda : lamports'[a] = lamports[a]
      <3>1. /\ giver \in Wallets /\ giver \in Account /\ to \in Account \ Pda /\ n \in Amount
        BY Addresses, LedgerAssumption DEF NoGiftsToPdas, Amount
      <3>2. lamports' = Move(lamports, giver, to, n)
        BY <2>4 DEF GiveLamports
      <3>3. ASSUME NEW a \in Pda
            PROVE  a \in Account /\ a # giver /\ a # to
        BY <3>1, ClosablePdas
      <3> QED  BY <1>0, <3>1, <3>2, <3>3, MoveFacts
    <2>5. ASSUME NEW giver \in Givers, NEW o \in GiftTargets \cap Owner, NEW m \in Mints,
                 NEW n \in Gifts, GiveTokens(giver, o, m, n)
          PROVE  \A a \in Pda : lamports'[a] = lamports[a]
      BY <2>5 DEF GiveTokens
    <2> QED
      BY <2>1, <2>2, <2>3, <2>4, <2>5, LedgerAssumption DEF AnyLedgerNext, LedgerNext
  <1>2. UNCHANGED <<tradeDetail, tradeVault, nonceCheck, whitelist, feeReceivers, receipts>>
    BY DEF configVars, tradeVars, paymentVars
  <1> QED
    BY <1>1, <1>2, ClosablePdas DEF NothingLeft, Exists

(* Nothing is ever left.                                                   *)
LEMMA NothingEverLeft ==
  ASSUME StartsEmpty, NoGiftsToPdas
  PROVE  InterfaceSpec => [](InterfaceInv /\ NothingLeft)
  <1>1. InterfaceInit => NothingLeft
    <2> SUFFICES ASSUME InterfaceInit
                 PROVE  NothingLeft
      OBVIOUS
    <2>1. lamports = Start.lamports /\ whitelist = StartWhitelist
      BY DEF InterfaceInit, TradeInit, DeploymentInit, LedgerInit
    <2> QED
      BY <2>1 DEF NothingLeft, StartsEmpty
  <1>2. InterfaceInv /\ InterfaceInv' /\ NothingLeft /\ [InterfaceNext]_chain => NothingLeft'
    <2> SUFFICES ASSUME InterfaceInv, InterfaceInv', NothingLeft, [InterfaceNext]_chain
                 PROVE  NothingLeft'
      OBVIOUS
    <2>1. ASSUME NEW i \in Sent, Execute(i)
          PROVE  NothingLeft'
      BY <2>1, EmptyStep, SentAssumption
    <2>2. CASE AnyLedgerNext /\ UNCHANGED <<configVars, tradeVars, paymentVars>>
      BY <2>2, OthersLeave
    <2>3. CASE UNCHANGED chain
      BY <2>3 DEF chain, ledgerVars, configVars, tradeVars, paymentVars, NothingLeft, Exists
    <2> QED
      BY <2>1, <2>2, <2>3 DEF InterfaceNext, AnyLedgerNext
  <1> QED
    BY <1>1, <1>2, InterfaceAlways, PTL DEF InterfaceSpec

(* What the SDK lists of a transaction of one instruction.                 *)
LEMMA ListedAre == GetCreatedPdaInTx = {a \in CreatedBy("program") : lamports[a] = 0}
  <1> DEFINE Ix(a, owner) == [type |-> IF lamports[a] = 0 THEN "createAccount" ELSE "assign",
                              account |-> a, owner |-> owner]
  <1>1. ASSUME NEW a, a \in CreatedBy("program"), lamports[a] = 0
        PROVE  a \in GetCreatedPdaInTx
    <2>1. Ix(a, "program") \in InnerSystemIns
      BY <1>1 DEF InnerSystemIns
    <2>2. /\ Ix(a, "program").type = "createAccount" /\ Ix(a, "program").owner = "program"
          /\ Ix(a, "program").account = a
      BY <1>1
    <2> HIDE DEF Ix
    <2> QED  BY <2>1, <2>2 DEF GetCreatedPdaInTx
  <1>2. ASSUME NEW a \in GetCreatedPdaInTx
        PROVE  a \in CreatedBy("program") /\ lamports[a] = 0
    <2>1. PICK x \in InnerSystemIns :
            x.type = "createAccount" /\ x.owner = "program" /\ a = x.account
      BY DEF GetCreatedPdaInTx
    <2>2. PICK owner \in {"program", "token"} : \E b \in CreatedBy(owner) : x = Ix(b, owner)
      BY <2>1 DEF InnerSystemIns
    <2>3. PICK b \in CreatedBy(owner) : x = Ix(b, owner)
      BY <2>2
    <2>4. /\ x.account = b /\ x.owner = owner
          /\ x.type = "createAccount" => lamports[b] = 0
      BY <2>3
    <2> QED  BY <2>1, <2>3, <2>4
  <1> QED
    BY <1>1, <1>2

(* Theorem.  getCreatedPdaInTx lists just the accounts of the program that *)
(* an instruction created, however often they have been closed before:     *)
(* every close leaves the address empty, so that it is created by          *)
(* createAccount again.  Addresses that somebody has sent lamports to are  *)
(* excepted by the hypotheses, and are not listed.                         *)
THEOREM CreatedAlwaysListed ==
  ASSUME StartsEmpty, NoGiftsToPdas
  PROVE  InterfaceSpec => CreatedPdaListed
  <1>1. ASSUME InterfaceInv, InterfaceInv', NothingLeft, NEW i \in Instruction, Execute(i)
        PROVE  GetCreatedPdaInTx = ProgramAccounts' \ ProgramAccounts
    <2>1. config # None
      BY <1>1 DEF InterfaceInv, Prepared
    <2>2. ASSUME NEW a \in ProgramAccounts', a \notin ProgramAccounts
          PROVE  lamports[a] = 0
      BY <1>1, <2>1, <2>2 DEF ProgramAccounts, NothingLeft, InterfaceInv, TradeTypeOK, ConfigTypeOK
    <2> QED
      BY <2>2, ListedAre DEF CreatedBy
  <1>2. InterfaceInv /\ NothingLeft /\ InterfaceInv' =>
          \A i \in Sent : Execute(i) => GetCreatedPdaInTx = ProgramAccounts' \ ProgramAccounts
    BY <1>1, SentAssumption
  <1>3. InterfaceSpec => [](InterfaceInv /\ NothingLeft)
    BY NothingEverLeft
  <1> QED
    BY <1>2, <1>3, PTL DEF CreatedPdaListed

(* An open trade stays open with its ephemeral key, or is settled or       *)
(* claimed, and then nothing is left of the nonce check PDA of its key.    *)
LEMMA WhileOpen ==
  ASSUME InterfaceInv, NEW i \in Instruction, Execute(i), NEW t \in TradeIds, Open(t)
  PROVE  IF Open(t)' THEN tradeDetail'[t].eph = tradeDetail[t].eph
         ELSE /\ nonceCheck' = nonceCheck \ {tradeDetail[t].eph}
              /\ lamports'[NoncePda(tradeDetail[t].eph)] = 0
  <1>0. /\ Exists(t) /\ tradeDetail[t] \in TradeDetail /\ DOMAIN tradeDetail = TradeIds
        /\ TradeTypeOK
    BY DetailFacts DEF InterfaceInv, Open, TradeTypeOK
  <1>1. ASSUME tradeDetail'[t] = tradeDetail[t]
        PROVE  Open(t)' /\ tradeDetail'[t].eph = tradeDetail[t].eph
    BY <1>1 DEF Open, Exists
  <1>2. CASE DepositEntry(i)
    <2>1. /\ ~Exists(i.trade)
          /\ \E new : tradeDetail' = [tradeDetail EXCEPT ![i.trade] = new]
      BY <1>2 DEF DepositEntry, Deposit
    <2> QED  BY <1>0, <1>1, <2>1
  <1>3. CASE SetTotalFeeEntry(i)
    <2>1. tradeDetail' = [tradeDetail EXCEPT ![i.trade].totalFee = i.amount]
      BY <1>3 DEF SetTotalFeeEntry, SetTotalFee
    <2>2. CASE i.trade = t
      <3>1. /\ tradeDetail'[t].status = tradeDetail[t].status
            /\ tradeDetail'[t].eph = tradeDetail[t].eph
        BY <1>0, <2>1, <2>2 DEF TradeDetail
      <3>2. i.amount \in Nat
        BY <1>3, TradeArguments, TradeBounds DEF SetTotalFeeEntry
      <3>3. tradeDetail'[t] \in TradeDetail
        BY <1>0, <2>1, <2>2, <3>2 DEF TradeDetail
      <3> QED  BY <3>1, <3>3, NoneIsNoTrade DEF Open, Exists
    <2> QED  BY <1>0, <1>1, <2>1, <2>2
  <1>4. CASE SettlementEntry(i) \/ ClaimEntry(i)
    <2>1. /\ i.trade \in TradeIds
          /\ \/ Claim(i.trade)
             \/ \E pmm \in Pmms : Settlement(i.trade, pmm)
      BY <1>4, TradeArguments DEF SettlementEntry, ClaimEntry
    <2>2. /\ nonceCheck' = nonceCheck \ {tradeDetail[i.trade].eph}
          /\ lamports'[NoncePda(tradeDetail[i.trade].eph)] = 0
      BY <1>0, <2>1, NonceEmptied
    <2>3. CASE i.trade = t
      <3>1. ASSUME Claim(t)
            PROVE  tradeDetail'[t].status = "Claimed"
        <4>1. tradeDetail' = [tradeDetail EXCEPT ![t].status = "Claimed"]
          BY <3>1 DEF Claim
        <4> QED  BY <1>0, <4>1 DEF TradeDetail
      <3>2. ASSUME \E pmm : Settlement(t, pmm)
            PROVE  tradeDetail'[t].status = "Settled"
        <4>1. PICK pmm : tradeDetail' = [tradeDetail EXCEPT ![t] = Settled(t, pmm)]
          BY <3>2 DEF Settlement
        <4>2. tradeDetail'[t] = Settled(t, pmm)
          BY <1>0, <4>1
        <4> QED  BY <1>0, <4>2 DEF Settled, TradeDetail
      <3>3. tradeDetail'[t].status \in {"Settled", "Claimed"}
        BY <2>1, <2>3, <3>1, <3>2
      <3> QED  BY <2>2, <2>3, <3>3 DEF Open
    <2>4. CASE i.trade # t
      <3>1. tradeDetail'[t] = tradeDetail[t]
        BY <1>0, <2>1, <2>4 DEF Claim, Settlement
      <3> QED  BY <1>1, <3>1
    <2> QED  BY <2>3, <2>4
  <1>5. CASE CloseFinishedTradeEntry(i)
    <2>1. /\ tradeDetail' = [tradeDetail EXCEPT ![i.trade] = None]
          /\ Finished(i.trade)
      BY <1>5 DEF CloseFinishedTradeEntry, CloseFinishedTrade, AssertCloseFinishedTrade
    <2> QED  BY <1>0, <1>1, <2>1 DEF Finished, Open
  <1>6. CASE UNCHANGED tradeDetail
    BY <1>1, <1>6
  <1>7. CASE System(i)
    BY <1>6, <1>7 DEF System, WithdrawNonce, CreateNonceAccount, WithdrawNonceAccount, tradeVars
  <1> QED
    BY <1>2, <1>3, <1>4, <1>5, <1>6, <1>7 DEF Execute, Program, OnTrade, tradeVars

(* Theorem.  getClosedNonceCheck tells, of every instruction, just whether *)
(* it has settled or refunded an open trade with that ephemeral key: the   *)
(* nonce check PDA holds its rent while the trade is open, settlement and  *)
(* claim, which both declare it writable, leave nothing of it, and nothing *)
(* else empties one, whatever has been sent to it.                         *)
THEOREM ClosedAlwaysSeen ==
  ASSUME Rent["nonce"] > 0
  PROVE  InterfaceSpec => ClosedNonceSeen
  <1> DEFINE Ended(e) == \E t \in TradeIds : Open(t) /\ tradeDetail[t].eph = e /\ ~Open(t)'
  <1>1. ASSUME InterfaceInv, InterfaceInv', NEW i \in Instruction, Execute(i), NEW e \in Ephemerals
        PROVE  GetClosedNonceCheck(i, e) <=> Ended(e)
    <2> DEFINE pda == NoncePda(e)
    <2>1. /\ pda \in Account /\ pda \in Pda /\ pda.kind \in Closable
          /\ pda.kind = "nonce" /\ pda.of = e
      BY ClosablePdas DEF NoncePda, Closable
    <2>2. /\ e \in nonceCheck => lamports[pda] # 0
          /\ e \in nonceCheck' => lamports'[pda] # 0
      <3>1. /\ lamports[pda] \in Nat /\ lamports'[pda] \in Nat /\ Rent["nonce"] \in Nat
        BY <1>1, <2>1, LedgerFacts, LedgerAssumption
           DEF InterfaceInv, TradeTypeOK, ConfigTypeOK, LedgerTypeOK, RentKind
      <3> QED  BY <1>1, <3>1 DEF InterfaceInv, TradeRentHeld
    <2>3. /\ nonceCheck = {tradeDetail[t].eph : t \in {u \in TradeIds : Open(u)}}
          /\ nonceCheck' = {tradeDetail'[t].eph : t \in {u \in TradeIds : Open(u)'}}
      BY <1>1 DEF InterfaceInv, NonceGuardsOneTrade
    <2>4. ASSUME GetClosedNonceCheck(i, e)
          PROVE  Ended(e)
      <3>1. /\ pda \in Accounts(i).writes
            /\ e \notin nonceCheck'
        BY <2>2, <2>4 DEF GetClosedNonceCheck, Emptied
      <3>2. i.op \in {"deposit", "settlement", "claim"} /\ i.ephemeral = e
        BY <2>1, <3>1, OpenedKinds DEF MayOpen
      <3>3. i.op # "deposit"
        BY <1>1, <3>1, <3>2, Handled DEF DepositEntry, Deposit
      <3>4. i.trade \in TradeIds /\ Open(i.trade) /\ tradeDetail[i.trade].eph = e
        BY <1>1, <3>2, <3>3, Handled, TradeArguments
           DEF SettlementEntry, ClaimEntry, Settlement, AssertSettlement, Claim, AssertClaim
      <3>5. Open(i.trade)' => tradeDetail'[i.trade].eph = e
        BY <1>1, <3>4, WhileOpen
      <3> QED  BY <2>3, <3>1, <3>4, <3>5
    <2>5. ASSUME NEW t \in TradeIds, Open(t), tradeDetail[t].eph = e, ~Open(t)'
          PROVE  GetClosedNonceCheck(i, e)
      <3>1. lamports[pda] # 0
        BY <2>2, <2>3, <2>5
      <3>2. lamports'[pda] = 0
        BY <1>1, <2>5, WhileOpen
      <3>3. pda \in Accounts(i).writes
        BY <1>1, <2>1, <3>1, <3>2, SentWithin DEF Changed
      <3> QED  BY <2>1, <3>1, <3>2, <3>3 DEF GetClosedNonceCheck, Emptied
    <2> QED  BY <2>4, <2>5
  <1>2. InterfaceInv /\ InterfaceInv' =>
          \A i \in Sent, e \in Ephemerals :
             Execute(i) => (GetClosedNonceCheck(i, e) <=> Ended(e))
    BY <1>1, SentAssumption
  <1> QED
    BY <1>2, InterfaceAlways, PTL DEF ClosedNonceSeen
=============================================================================
