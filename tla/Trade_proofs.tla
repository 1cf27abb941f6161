---------------------------- MODULE Trade_proofs -----------------------------
(***************************************************************************)
(* Proofs about the escrow: its types, the nonce check that ties an        *)
(* ephemeral key to one trade, and the solvency of the vaults.  The        *)
(* argument for solvency is that no step takes anything from the vault of  *)
(* a trade but the settlement, the claim and the closing of that trade.    *)
(* With it the trades implement the abstract escrow, step by step.         *)
(***************************************************************************)
EXTENDS Trade, Config_proofs

(* The values in the input of a trade.                                     *)
LEMMA InputFacts ==
  ASSUME NEW t \in TradeIds
  PROVE  /\ Input[t].user \in Wallets /\ Input[t].user \in Account /\ Input[t].user \in Owner
         /\ Input[t].token \in Mints \cup {None}
         /\ Input[t].amount \in Nat /\ Input[t].amount \in Amount
  BY InputAssumption, Addresses DEF Amount

(* The values in the trade detail PDA of a trade.                          *)
LEMMA DetailFacts ==
  ASSUME TradeTypeOK, NEW t \in TradeIds, Exists(t)
  PROVE  /\ tradeDetail[t] \in TradeDetail
         /\ tradeDetail[t].user \in Wallets /\ tradeDetail[t].user \in Account
         /\ tradeDetail[t].user \in Owner
         /\ tradeDetail[t].token \in Mints \cup {None}
         /\ tradeDetail[t].amount \in Nat /\ tradeDetail[t].amount \in Amount
         /\ tradeDetail[t].eph \in Ephemerals
         /\ tradeDetail[t].refund \in Recipient /\ tradeDetail[t].refund \in Account
         /\ tradeDetail[t].refund \in Owner
         /\ tradeDetail[t].totalFee \in Nat \cup {None}
  <1>1. tradeDetail[t] \in TradeDetail
    BY DEF TradeTypeOK, Exists
  <1> QED
    BY <1>1, Addresses DEF TradeDetail, Amount

(* The ledger's types, as the steps below use them.                        *)
LEMMA LedgerFacts ==
  ASSUME TradeTypeOK
  PROVE  /\ LedgerTypeOK /\ now \in Nat
         /\ lamports \in [Account -> Nat] /\ lamports \in [Account -> Int]
         /\ tokens \in [TokenAccount -> Nat] /\ atas \subseteq TokenAccount
  BY DEF TradeTypeOK, ConfigTypeOK, LedgerTypeOK

-----------------------------------------------------------------------------
(* Opening the three accounts of a trade costs its depositor only, and     *)
(* leaves the vault rent exempt.                                           *)
LEMMA FundTradeFacts ==
  ASSUME TradeTypeOK, NEW t \in TradeIds, NEW e \in Ephemerals
  PROVE  /\ FundTrade(t, e) \in [Account -> Int]
         /\ FundTrade(t, e)[VaultPda(t)] >= Rent["vault"]
         /\ \A x \in Account \ {Input[t].user} : FundTrade(t, e)[x] >= lamports[x]
  <1> DEFINE user   == Input[t].user
             detail == Fund(lamports, user, TradePda(t), Rent["trade"])
             nonce  == Fund(detail, user, NoncePda(e), Rent["nonce"])
             vault  == Fund(nonce, user, VaultPda(t), Rent["vault"])
  <1>1. /\ user \in Account /\ {TradePda(t), NoncePda(e), VaultPda(t)} \subseteq Account
        /\ user \notin {TradePda(t), NoncePda(e), VaultPda(t)}
        /\ lamports \in [Account -> Int]
    BY InputFacts, Addresses, KeysApart, LedgerFacts
  <1>2. FundTrade(t, e) = vault
    BY DEF FundTrade
  <1> HIDE DEF user
  <1>3. /\ detail \in [Account -> Int]
        /\ \A x \in Account \ {user} : detail[x] >= lamports[x]
    BY <1>1, FundFacts, Rents
  <1> HIDE DEF detail
  <1>4. /\ nonce \in [Account -> Int]
        /\ \A x \in Account \ {user} : nonce[x] >= detail[x]
    BY <1>1, <1>3, FundFacts, Rents
  <1> HIDE DEF nonce
  <1>5. /\ vault \in [Account -> Int]
        /\ vault[VaultPda(t)] >= Rent["vault"]
        /\ \A x \in Account \ {user} : vault[x] >= nonce[x]
    BY <1>1, <1>4, FundFacts, Rents
  <1> HIDE DEF vault
  <1>6. \A x \in Account \ {user} : vault[x] >= lamports[x]
    BY <1>1, <1>3, <1>4, <1>5
  <1> QED
    BY <1>2, <1>5, <1>6 DEF user

\* A vault holds, beyond its rent, at least n of the token.
Holds(t, token, n) ==
    IF token = None THEN lamports'[VaultPda(t)] >= Rent["vault"] + n
    ELSE /\ tokens'[Ata(VaultPda(t), token)] >= n
         /\ Ata(VaultPda(t), token) \in atas

(* deposit moves the whole amount into the vault and takes from nobody but *)
(* the depositor.                                                          *)
LEMMA DepositFundsFacts ==
  ASSUME TradeTypeOK, NEW t \in TradeIds, NEW e \in Ephemerals, DepositFunds(t, e),
         UNCHANGED <<now, atas>>
  PROVE  /\ LedgerTypeOK'
         /\ \A u \in TradeIds : VaultKept(u)
         /\ Holds(t, Input[t].token, Input[t].amount)
  <1> DEFINE user   == Input[t].user
             token  == Input[t].token
             amount == Input[t].amount
             funded == FundTrade(t, e)
  <1>1. /\ user \in Wallets /\ user \in Account /\ user \in Owner
        /\ token \in Mints \cup {None} /\ amount \in Nat /\ amount \in Amount
    BY InputFacts
  <1>2. /\ funded \in [Account -> Int]
        /\ funded[VaultPda(t)] >= Rent["vault"]
        /\ \A x \in Account \ {user} : funded[x] >= lamports[x]
    BY FundTradeFacts
  <1>3. /\ \A u \in TradeIds : VaultPda(u) \in Account /\ VaultPda(u) \in Owner
                                 /\ VaultPda(u) # user
        /\ \A u \in TradeIds, m \in Mints : /\ Ata(VaultPda(u), m) \in TokenAccount
                                            /\ \A n : Ata(VaultPda(u), m) # Ata(user, n)
    BY <1>1, Addresses, KeysApart, AtasApart
  <1>4. /\ LedgerTypeOK /\ lamports \in [Account -> Nat] /\ tokens \in [TokenAccount -> Nat]
        /\ None \notin Mints
    BY LedgerFacts, LedgerAssumption
  <1>5. /\ Afforded(lamports', user)
        /\ token = None => lamports' = Move(funded, user, VaultPda(t), amount)
                             /\ tokens' = tokens
        /\ token # None =>
             /\ lamports' = funded
             /\ SplTransferOk(tokens, user, VaultPda(t), token, amount, None)
             /\ tokens' = SplTransfer(tokens, user, VaultPda(t), token, amount, None)
    BY DEF DepositFunds
  <1> HIDE DEF user, token, amount, funded
  <1>6. /\ lamports' \in [Account -> Int]
        /\ \A x \in Account \ {user} : lamports'[x] >= lamports[x]
        /\ token = None => lamports'[VaultPda(t)] >= Rent["vault"] + amount
    <2>1. CASE token = None
      <3>1. /\ lamports' \in [Account -> Int]
            /\ lamports'[VaultPda(t)] = funded[VaultPda(t)] + amount
            /\ \A x \in Account \ {user, VaultPda(t)} : lamports'[x] = funded[x]
        BY <1>1, <1>2, <1>3, <1>5, <2>1, MoveFacts
      <3> QED  BY <1>1, <1>2, <1>3, <1>4, <3>1, Rents
    <2>2. CASE token # None
      BY <1>2, <1>5, <2>2
    <2> QED  BY <2>1, <2>2
  <1>7. lamports' \in [Account -> Nat]
    BY <1>1, <1>4, <1>5, <1>6, OnlyPayerPays
  <1>8. /\ tokens' \in [TokenAccount -> Nat]
        /\ \A u \in TradeIds, m \in Mints :
             tokens'[Ata(VaultPda(u), m)] >= tokens[Ata(VaultPda(u), m)]
        /\ token # None => tokens'[Ata(VaultPda(t), token)] >= amount
                             /\ Ata(VaultPda(t), token) \in atas
    <2>1. CASE token = None
      BY <1>3, <1>4, <1>5, <2>1
    <2>2. CASE token # None
      <3>1. /\ tokens' \in [TokenAccount -> Nat]
            /\ \A a \in TokenAccount \ {Ata(user, token)} : tokens'[a] >= tokens[a]
            /\ tokens'[Ata(VaultPda(t), token)] >= tokens[Ata(VaultPda(t), token)] + amount
            /\ Ata(VaultPda(t), token) \in atas
        BY <1>1, <1>3, <1>4, <1>5, <2>2, SplTransferFacts
      <3>2. tokens[Ata(VaultPda(t), token)] \in Nat
        BY <1>1, <1>3, <1>4, <2>2
      <3>3. tokens'[Ata(VaultPda(t), token)] >= amount
        BY <1>1, <3>1, <3>2, <1>3, <2>2
      <3> QED  BY <1>3, <3>1, <3>3
    <2> QED  BY <2>1, <2>2
  <1>9. LedgerTypeOK'
    BY <1>4, <1>7, <1>8 DEF LedgerTypeOK
  <1>10. ASSUME NEW u \in TradeIds
         PROVE  VaultKept(u)
    BY <1>3, <1>6, <1>8 DEF VaultKept
  <1> QED
    BY <1>6, <1>8, <1>9, <1>10 DEF Holds, token, amount

(* deposit keeps the types, and fills the vault of its trade without       *)
(* taking from any.                                                        *)
LEMMA DepositStep ==
  ASSUME TradeTypeOK, NEW t \in TradeIds, NEW timeout \in Timeouts, NEW mpc \in Mpcs,
         NEW refund \in Refunds, NEW e \in Ephemerals, Deposit(t, timeout, mpc, refund, e)
  PROVE  /\ TradeTypeOK'
         /\ \A u \in TradeIds : VaultKept(u)
         /\ Holds(t, Input[t].token, Input[t].amount)
         /\ tradeDetail' = [tradeDetail EXCEPT ![t] = NewTrade(t, timeout, mpc, refund, e)]
         /\ NewTrade(t, timeout, mpc, refund, e) \in TradeDetail
  <1>1. /\ LedgerTypeOK'
        /\ \A u \in TradeIds : VaultKept(u)
        /\ Holds(t, Input[t].token, Input[t].amount)
    BY DepositFundsFacts DEF Deposit
  <1>2. NewTrade(t, timeout, mpc, refund, e) \in TradeDetail
    <2>1. /\ timeout \in Nat /\ mpc \in Wallets /\ refund \in Recipient
      BY TradeBounds
    <2> QED  BY <2>1, InputFacts DEF NewTrade, TradeDetail, TradeStatus
  <1>3. tradeDetail' = [tradeDetail EXCEPT ![t] = NewTrade(t, timeout, mpc, refund, e)]
    BY DEF Deposit
  <1>4. tradeDetail' \in [TradeIds -> TradeDetail \cup {None}]
    BY <1>2, <1>3 DEF TradeTypeOK
  <1>5. /\ UNCHANGED <<configVars, nonceAccount>>
        /\ tradeVault' \subseteq TradeIds /\ nonceCheck' \subseteq Ephemerals
    BY DEF Deposit, TradeTypeOK
  <1> QED
    BY <1>1, <1>2, <1>3, <1>4, <1>5 DEF TradeTypeOK, ConfigTypeOK, configVars

(* set_total_fee changes one number of one trade.                          *)
LEMMA SetTotalFeeStep ==
  ASSUME TradeTypeOK, NEW t \in TradeIds, NEW fee \in Fees, SetTotalFee(t, fee)
  PROVE  /\ TradeTypeOK'
         /\ \A u \in TradeIds : VaultKept(u)
         /\ Exists(t) /\ tradeDetail' = [tradeDetail EXCEPT ![t].totalFee = fee]
  <1>1. /\ Exists(t) /\ tradeDetail' = [tradeDetail EXCEPT ![t].totalFee = fee]
        /\ UNCHANGED <<ledgerVars, configVars, tradeVault, nonceCheck, nonceAccount>>
    BY DEF SetTotalFee
  <1>2. [tradeDetail[t] EXCEPT !.totalFee = fee] \in TradeDetail
    BY <1>1, DetailFacts, TradeBounds DEF TradeDetail
  <1>3. tradeDetail' \in [TradeIds -> TradeDetail \cup {None}]
    BY <1>1, <1>2 DEF TradeTypeOK
  <1>4. LedgerTypeOK' /\ \A u \in TradeIds : VaultKept(u)
    BY <1>1, LedgerUnchanged, LedgerFacts
  <1> QED
    BY <1>1, <1>3, <1>4 DEF TradeTypeOK, ConfigTypeOK, configVars

(* Closing the nonce check PDA overdraws nothing, and is nothing to the    *)
(* vaults.                                                                 *)
LEMMA CloseNonceCheckFacts ==
  ASSUME TradeTypeOK, NEW t \in TradeIds, Exists(t), NEW bal \in [Account -> Nat]
  PROVE  /\ CloseNonceCheck(t, bal) \in [Account -> Nat]
         /\ \A u \in TradeIds : CloseNonceCheck(t, bal)[VaultPda(u)] >= bal[VaultPda(u)]
  <1> DEFINE nonce == NoncePda(tradeDetail[t].eph)
             user  == tradeDetail[t].user
  <1>1. /\ nonce \in Account /\ user \in Account /\ nonce # user
        /\ \A u \in TradeIds : VaultPda(u) \in Account \ {nonce}
    BY DetailFacts, Addresses, KeysApart, PdasApart
  <1>2. CloseNonceCheck(t, bal) = Drain(bal, nonce, user)
    BY DEF CloseNonceCheck
  <1> HIDE DEF nonce, user
  <1> QED
    BY <1>1, <1>2, DrainNat

(* A token transfer out of the vault of t keeps the types and the other    *)
(* vaults.                                                                 *)
LEMMA PayTokensFacts ==
  ASSUME TradeTypeOK, NEW t \in TradeIds, Exists(t), NEW to \in Recipient,
         tradeDetail[t].token # None, NEW n \in Amount, n >= 0,
         NEW fee \in Nat \cup {None},
         SplTransferOk(tokens, VaultPda(t), to, tradeDetail[t].token, n, fee),
         tokens' = SplTransfer(tokens, VaultPda(t), to, tradeDetail[t].token, n, fee),
         lamports' = CloseNonceCheck(t, lamports), UNCHANGED <<now, atas>>
  PROVE  LedgerTypeOK' /\ \A u \in TradeIds \ {t} : VaultKept(u)
  <1> DEFINE token == tradeDetail[t].token
  <1>1. token \in Mints /\ to \in Owner /\ VaultPda(t) \in Owner
    BY DetailFacts, Addresses
  <1>2. tokens \in [TokenAccount -> Nat] /\ LedgerTypeOK /\ lamports \in [Account -> Nat]
    BY LedgerFacts
  <1>3. fee # None => fee \in Amount /\ fee >= 0
    BY DEF Amount
  <1>4. /\ tokens' \in [TokenAccount -> Nat]
        /\ \A a \in TokenAccount \ {Ata(VaultPda(t), token)} : tokens'[a] >= tokens[a]
    <2> HIDE DEF token
    <2>1. /\ SplTransferOk(tokens, VaultPda(t), to, token, n, fee)
          /\ tokens' = SplTransfer(tokens, VaultPda(t), to, token, n, fee)
      BY DEF token
    <2> QED  BY <1>1, <1>2, <1>3, <2>1, SplTransferFacts
  <1>5. /\ lamports' \in [Account -> Nat]
        /\ \A u \in TradeIds : lamports'[VaultPda(u)] >= lamports[VaultPda(u)]
    BY <1>2, CloseNonceCheckFacts
  <1>6. ASSUME NEW u \in TradeIds \ {t}
        PROVE  VaultKept(u)
    <2>1. VaultPda(u) # VaultPda(t)
      BY PdasApart
    <2>2. \A m \in Mints : Ata(VaultPda(u), m) \in TokenAccount \ {Ata(VaultPda(t), token)}
      BY <2>1, Addresses, AtasApart
    <2> QED  BY <1>4, <1>5, <2>2 DEF VaultKept
  <1> QED
    BY <1>2, <1>4, <1>5, <1>6 DEF LedgerTypeOK

(* Lamports taken by hand from the vault of t, and paid out, keep the      *)
(* types and the other vaults.                                             *)
LEMMA PayLamportsFacts ==
  ASSUME TradeTypeOK, NEW t \in TradeIds, Exists(t), NEW paid \in [Account -> Nat],
         \A x \in Account \ {VaultPda(t)} : paid[x] >= lamports[x],
         lamports' = CloseNonceCheck(t, paid), UNCHANGED <<now, atas, tokens>>
  PROVE  LedgerTypeOK' /\ \A u \in TradeIds \ {t} : VaultKept(u)
  <1>1. /\ lamports' \in [Account -> Nat]
        /\ \A u \in TradeIds : lamports'[VaultPda(u)] >= paid[VaultPda(u)]
    BY CloseNonceCheckFacts
  <1>2. ASSUME NEW u \in TradeIds \ {t}
        PROVE  VaultKept(u)
    <2>1. VaultPda(u) \in Account \ {VaultPda(t)}
      BY PdasApart, Addresses
    <2>2. lamports'[VaultPda(u)] >= lamports[VaultPda(u)]
      BY <1>1, <2>1, LedgerFacts
    <2> QED  BY <2>2, LamportsKept, LedgerFacts
  <1> QED
    BY <1>1, <1>2, LedgerFacts DEF LedgerTypeOK

(* The fee that settlement deducts, and what it leaves.                    *)
LEMMA FeeFacts ==
  ASSUME TradeTypeOK, NEW t \in TradeIds, Exists(t), Fee(t) <= tradeDetail[t].amount
  PROVE  /\ Fee(t) \in Nat /\ Fee(t) \in Amount
         /\ SettlementAmount(t) \in Nat /\ SettlementAmount(t) \in Amount
  <1>1. tradeDetail[t].amount \in Nat /\ tradeDetail[t].totalFee \in Nat \cup {None}
    BY DetailFacts
  <1>2. Fee(t) \in Nat
    BY <1>1 DEF Fee
  <1>3. SettlementAmount(t) \in Nat
    BY <1>1, <1>2 DEF SettlementAmount
  <1> QED
    BY <1>2, <1>3 DEF Amount

(* settlement keeps the types, takes from the vault of its own trade only, *)
(* and ends that trade.                                                    *)
LEMMA SettlementStep ==
  ASSUME TradeTypeOK, NEW t \in TradeIds, NEW pmm \in Pmms, Settlement(t, pmm)
  PROVE  /\ TradeTypeOK'
         /\ \A u \in TradeIds \ {t} : VaultKept(u)
         /\ Open(t)
         /\ tradeDetail' = [tradeDetail EXCEPT ![t] = Settled(t, pmm)]
         /\ Settled(t, pmm) \in TradeDetail
  <1>1. /\ Open(t) /\ Exists(t) /\ PayPmm(t, pmm) /\ Fee(t) <= tradeDetail[t].amount
        /\ pmm \in Recipient /\ pmm \in Account
        /\ UNCHANGED <<now, atas>>
    BY TradeBounds, Addresses DEF Settlement, AssertSettlement, Open
  <1>2. LedgerTypeOK' /\ \A u \in TradeIds \ {t} : VaultKept(u)
    <2>1. CASE tradeDetail[t].token = None
      <3> DEFINE amount  == tradeDetail[t].amount
                 net     == SettlementAmount(t)
                 fee     == Fee(t)
                 vault   == VaultPda(t)
                 taken   == [lamports EXCEPT ![vault] = @ - amount]
                 settled == [taken EXCEPT ![pmm] = @ + net]
                 paid    == [settled EXCEPT ![ProtocolPda] = @ + fee]
      <3>1. /\ lamports[vault] >= amount
            /\ lamports' = CloseNonceCheck(t, paid)
            /\ UNCHANGED tokens
        BY <1>1, <2>1 DEF PayPmm
      <3>2. /\ amount \in Nat /\ net \in Nat /\ fee \in Nat
            /\ vault \in Account /\ ProtocolPda \in Account
            /\ lamports \in [Account -> Nat]
        BY <1>1, DetailFacts, FeeFacts, Addresses, LedgerFacts
      <3> HIDE DEF amount, net, fee, vault
      <3>3. /\ taken \in [Account -> Nat]
            /\ \A x \in Account \ {vault} : taken[x] = lamports[x]
        BY <3>1, <3>2
      <3> HIDE DEF taken
      <3>4. /\ settled \in [Account -> Nat]
            /\ \A x \in Account : settled[x] >= taken[x]
        BY <1>1, <3>2, <3>3
      <3> HIDE DEF settled
      <3>5. /\ paid \in [Account -> Nat]
            /\ \A x \in Account : paid[x] >= settled[x]
        BY <3>2, <3>4
      <3> HIDE DEF paid
      <3>6. \A x \in Account \ {vault} : paid[x] >= lamports[x]
        BY <3>2, <3>3, <3>4, <3>5
      <3> QED  BY <1>1, <3>1, <3>5, <3>6, PayLamportsFacts DEF vault
    <2>2. CASE tradeDetail[t].token # None
      <3>1. /\ SplTransferOk(tokens, VaultPda(t), pmm, tradeDetail[t].token,
                             SettlementAmount(t), tradeDetail[t].totalFee)
            /\ tokens' = SplTransfer(tokens, VaultPda(t), pmm, tradeDetail[t].token,
                                     SettlementAmount(t), tradeDetail[t].totalFee)
            /\ lamports' = CloseNonceCheck(t, lamports)
        BY <1>1, <2>2 DEF PayPmm
      <3>2. /\ SettlementAmount(t) \in Amount /\ SettlementAmount(t) >= 0
            /\ tradeDetail[t].totalFee \in Nat \cup {None}
        BY <1>1, FeeFacts, DetailFacts
      <3> QED  BY <1>1, <2>2, <3>1, <3>2, PayTokensFacts
    <2> QED  BY <2>1, <2>2
  <1>3. tradeDetail' = [tradeDetail EXCEPT ![t] = Settled(t, pmm)]
    BY DEF Settlement
  <1>4. Settled(t, pmm) \in TradeDetail
    BY <1>1, DetailFacts DEF Settled, TradeDetail, TradeStatus
  <1>5. tradeDetail' \in [TradeIds -> TradeDetail \cup {None}]
    BY <1>3, <1>4 DEF TradeTypeOK
  <1>6. /\ UNCHANGED <<configVars, tradeVault, nonceAccount>>
        /\ nonceCheck' \subseteq Ephemerals
    BY DEF Settlement, TradeTypeOK
  <1> QED
    BY <1>1, <1>2, <1>3, <1>4, <1>5, <1>6 DEF TradeTypeOK, ConfigTypeOK, configVars

(* claim likewise.                                                         *)
LEMMA ClaimStep ==
  ASSUME TradeTypeOK, NEW t \in TradeIds, Claim(t)
  PROVE  /\ TradeTypeOK'
         /\ \A u \in TradeIds \ {t} : VaultKept(u)
         /\ Open(t)
         /\ tradeDetail' = [tradeDetail EXCEPT ![t].status = "Claimed"]
  <1>1. Open(t) /\ Exists(t) /\ PayRefund(t) /\ UNCHANGED <<now, atas>>
    BY DEF Claim, AssertClaim, Open
  <1>2. LedgerTypeOK' /\ \A u \in TradeIds \ {t} : VaultKept(u)
    <2>1. CASE tradeDetail[t].token = None
      <3> DEFINE amount == tradeDetail[t].amount
                 refund == tradeDetail[t].refund
                 vault  == VaultPda(t)
                 paid   == Move(lamports, vault, refund, amount)
      <3>1. /\ lamports[vault] >= amount
            /\ lamports' = CloseNonceCheck(t, paid)
            /\ UNCHANGED tokens
        BY <1>1, <2>1 DEF PayRefund
      <3>2. /\ amount \in Nat
            /\ vault \in Account /\ refund \in Account
            /\ lamports \in [Account -> Nat]
        BY <1>1, DetailFacts, Addresses, LedgerFacts
      <3> HIDE DEF amount, refund, vault
      <3>3. /\ paid \in [Account -> Nat]
            /\ \A x \in Account \ {vault} : paid[x] >= lamports[x]
        BY <3>1, <3>2 DEF Move
      <3> HIDE DEF paid
      <3> QED  BY <1>1, <3>1, <3>3, PayLamportsFacts DEF vault
    <2>2. CASE tradeDetail[t].token # None
      <3>1. /\ SplTransferOk(tokens, VaultPda(t), tradeDetail[t].refund, tradeDetail[t].token,
                             tradeDetail[t].amount, None)
            /\ tokens' = SplTransfer(tokens, VaultPda(t), tradeDetail[t].refund,
                                     tradeDetail[t].token, tradeDetail[t].amount, None)
            /\ lamports' = CloseNonceCheck(t, lamports)
        BY <1>1, <2>2 DEF PayRefund
      <3>2. tradeDetail[t].amount \in Amount /\ tradeDetail[t].amount >= 0
              /\ tradeDetail[t].refund \in Recipient
        BY <1>1, DetailFacts
      <3> QED  BY <1>1, <2>2, <3>1, <3>2, PayTokensFacts
    <2> QED  BY <2>1, <2>2
  <1>3. tradeDetail' = [tradeDetail EXCEPT ![t].status = "Claimed"]
    BY DEF Claim
  <1>4. [tradeDetail[t] EXCEPT !.status = "Claimed"] \in TradeDetail
    BY <1>1, DetailFacts DEF TradeDetail, TradeStatus
  <1>5. tradeDetail' \in [TradeIds -> TradeDetail \cup {None}]
    BY <1>3, <1>4 DEF TradeTypeOK
  <1>6. /\ UNCHANGED <<configVars, tradeVault, nonceAccount>>
        /\ nonceCheck' \subseteq Ephemerals
    BY DEF Claim, TradeTypeOK
  <1> QED
    BY <1>1, <1>2, <1>3, <1>5, <1>6 DEF TradeTypeOK, ConfigTypeOK, configVars

(* close_finished_trade drains accounts of its own trade only, to its      *)
(* depositor.                                                              *)
LEMMA CloseStep ==
  ASSUME TradeTypeOK, NEW signer \in Wallets, NEW t \in TradeIds,
         CloseFinishedTrade(signer, t)
  PROVE  /\ TradeTypeOK'
         /\ \A u \in TradeIds \ {t} : VaultKept(u)
         /\ Finished(t)
         /\ tradeDetail' = [tradeDetail EXCEPT ![t] = None]
  <1> DEFINE user  == tradeDetail[t].user
             token == tradeDetail[t].token
             vault == VaultPda(t)
             bal   == IF token = None THEN lamports ELSE Drain(lamports, Ata(vault, token), user)
             open  == Drain(bal, TradePda(t), user)
  <1>1. Finished(t) /\ Exists(t)
    BY DEF CloseFinishedTrade, AssertCloseFinishedTrade, Finished
  <1>2. /\ user \in Wallets /\ user \in Account /\ user \in Owner
        /\ token \in Mints \cup {None}
        /\ vault \in Account /\ TradePda(t) \in Account /\ user # vault /\ user # TradePda(t)
        /\ lamports \in [Account -> Nat] /\ tokens \in [TokenAccount -> Nat]
        /\ atas \subseteq TokenAccount /\ LedgerTypeOK
    BY <1>1, DetailFacts, Addresses, KeysApart, LedgerFacts
  <1>3. ASSUME token # None
        PROVE  /\ Ata(vault, token) \in TokenAccount /\ Ata(vault, token) \in Account
               /\ Ata(user, token) \in TokenAccount
               /\ Ata(vault, token) # Ata(user, token) /\ Ata(vault, token) # user
    BY <1>2, <1>3, Addresses, AtasApart, KeysApart
  <1>4. lamports' = Drain(open, vault, user)
    BY DEF CloseFinishedTrade, CloseTradeLamports
  <1>5. \A u \in TradeIds \ {t} :
          /\ VaultPda(u) \in Account \ {vault, TradePda(t)}
          /\ \A m \in Mints : /\ VaultPda(u) # Ata(vault, m)
                              /\ Ata(VaultPda(u), m) \in TokenAccount
                              /\ \A n : Ata(VaultPda(u), m) # Ata(vault, n)
    <2>1. \A u \in TradeIds \ {t} :
            /\ VaultPda(u) \in Account \ {vault, TradePda(t)}
            /\ VaultPda(u) \in Owner /\ VaultPda(u) \notin TokenAccount
            /\ VaultPda(u) # VaultPda(t)
      BY Addresses, PdasApart, VaultApart
    <2> QED  BY <2>1, Addresses, AtasApart
  <1>6. LedgerTypeOK' /\ \A u \in TradeIds \ {t} : VaultKept(u)
    <2>1. /\ bal \in [Account -> Nat]
          /\ \A u \in TradeIds \ {t} : bal[VaultPda(u)] >= lamports[VaultPda(u)]
      <3>1. CASE token = None
        BY <1>2, <1>5, <3>1
      <3>2. CASE token # None
        <4>1. bal = Drain(lamports, Ata(vault, token), user) /\ token \in Mints
          BY <1>2, <3>2
        <4> HIDE DEF bal, user, token, vault
        <4> QED  BY <1>2, <1>3, <1>5, <3>2, <4>1, DrainNat
      <3> QED  BY <3>1, <3>2
    <2> HIDE DEF bal, user, vault
    <2>2. /\ open \in [Account -> Nat]
          /\ \A x \in Account \ {TradePda(t)} : open[x] >= bal[x]
      BY <1>2, <2>1, DrainNat
    <2> HIDE DEF open
    <2>3. /\ lamports' \in [Account -> Nat]
          /\ \A x \in Account \ {vault} : lamports'[x] >= open[x]
      BY <1>2, <1>4, <2>2, DrainNat
    <2>4. \A u \in TradeIds \ {t} :
            /\ bal[VaultPda(u)] \in Nat /\ open[VaultPda(u)] \in Nat
            /\ lamports'[VaultPda(u)] >= open[VaultPda(u)]
            /\ open[VaultPda(u)] >= bal[VaultPda(u)]
            /\ bal[VaultPda(u)] >= lamports[VaultPda(u)]
            /\ lamports[VaultPda(u)] \in Nat /\ lamports'[VaultPda(u)] \in Nat
      BY <1>2, <1>5, <2>1, <2>2, <2>3
    <2>5. \A u \in TradeIds \ {t} : lamports'[VaultPda(u)] >= lamports[VaultPda(u)]
      BY <2>4
    <2>6. /\ tokens' \in [TokenAccount -> Nat] /\ atas' \subseteq TokenAccount
          /\ \A u \in TradeIds \ {t}, m \in Mints :
               /\ tokens'[Ata(VaultPda(u), m)] >= tokens[Ata(VaultPda(u), m)]
               /\ Ata(VaultPda(u), m) \in atas => Ata(VaultPda(u), m) \in atas'
      <3>1. CASE token = None
        <4>1. UNCHANGED <<tokens, atas>>
          BY <3>1 DEF CloseFinishedTrade
        <4> QED  BY <1>2, <1>5, <4>1
      <3>2. CASE token # None
        <4>1. /\ tokens' = Drain(tokens, Ata(vault, token), Ata(user, token))
              /\ atas' = atas \ {Ata(vault, token)}
          BY <3>2 DEF CloseFinishedTrade, CloseVaultAta, vault, user
        <4> HIDE DEF token
        <4>2. /\ tokens' \in [TokenAccount -> Nat]
              /\ \A a \in TokenAccount \ {Ata(vault, token)} : tokens'[a] >= tokens[a]
          BY <1>2, <1>3, <3>2, <4>1, DrainNat
        <4> QED  BY <1>2, <1>5, <4>1, <4>2
      <3> QED  BY <3>1, <3>2
    <2>7. UNCHANGED now
      BY DEF CloseFinishedTrade
    <2> QED
      BY <1>2, <2>3, <2>5, <2>6, <2>7 DEF LedgerTypeOK, VaultKept
  <1>7. tradeDetail' = [tradeDetail EXCEPT ![t] = None]
    BY DEF CloseFinishedTrade
  <1>8. tradeDetail' \in [TradeIds -> TradeDetail \cup {None}]
    BY <1>7 DEF TradeTypeOK
  <1>9. /\ UNCHANGED <<configVars, nonceCheck, nonceAccount>>
        /\ tradeVault' \subseteq TradeIds
    BY DEF CloseFinishedTrade, TradeTypeOK
  <1> QED
    BY <1>1, <1>6, <1>7, <1>8, <1>9 DEF TradeTypeOK, ConfigTypeOK, configVars

\* The steps on durable nonce accounts, and those of Trade, whichever wallets
\* pay for them: not Helpers only, who bound what TLC explores.
AnyNonceStep ==
    \E payer \in Wallets, e \in Ephemerals :
        CreateNonceAccount(payer, e) \/ WithdrawNonceAccount(payer, e)

AnyTradeNext ==
    \/ TradeStep
    \/ AnyNonceStep
    \/ ConfigNext /\ UNCHANGED tradeVars
    \/ AnyLedgerNext /\ UNCHANGED <<configVars, tradeVars>>

(* Those of the specification are among them.                              *)
LEMMA TradeAny == [TradeNext]_vars => [AnyTradeNext]_vars
  BY LedgerAssumption DEF TradeNext, NonceStep, AnyTradeNext, AnyNonceStep, AnyLedgerNext

(* The steps on durable nonce accounts, the configuration's and the        *)
(* ledger's keep the types and all vaults, and no trade changes in them.   *)
LEMMA OtherStep ==
  ASSUME TradeTypeOK,
         \/ AnyNonceStep
         \/ ConfigNext /\ UNCHANGED tradeVars
         \/ AnyLedgerNext /\ UNCHANGED <<configVars, tradeVars>>
         \/ UNCHANGED vars
  PROVE  /\ TradeTypeOK'
         /\ \A u \in TradeIds : VaultKept(u)
         /\ UNCHANGED <<tradeDetail, nonceCheck>>
  <1> DEFINE Goal == /\ TradeTypeOK'
                     /\ \A u \in TradeIds : VaultKept(u)
                     /\ UNCHANGED <<tradeDetail, nonceCheck>>
  <1>1. ASSUME NEW payer \in Wallets, NEW e \in Ephemerals, CreateNonceAccount(payer, e)
        PROVE  Goal
    <2>1. payer \in Wallets /\ payer \in Account /\ e \in Account /\ payer # e
      BY LedgerAssumption, Addresses, KeysApart
    <2>2. Paid(payer)
      BY <1>1, <2>1, FundFacts, Rents, LedgerFacts DEF CreateNonceAccount, Paid
    <2>3. /\ UNCHANGED <<now, atas, tokens, configVars, tradeDetail, tradeVault, nonceCheck>>
          /\ nonceAccount' \subseteq Ephemerals
      BY <1>1 DEF CreateNonceAccount, TradeTypeOK
    <2>4. LedgerTypeOK' /\ \A u \in TradeIds : VaultKept(u)
      BY <2>1, <2>2, <2>3, PaidKeeps, LedgerFacts
    <2> QED  BY <2>3, <2>4 DEF TradeTypeOK, ConfigTypeOK, configVars
  <1>2. ASSUME NEW to \in Wallets, NEW e \in Ephemerals, WithdrawNonceAccount(to, e)
        PROVE  Goal
    <2>1. /\ to \in Wallets /\ to \in Account /\ e \in Account /\ to # e
          /\ \A t \in TradeIds : VaultPda(t) # e
      BY LedgerAssumption, Addresses, KeysApart
    <2>2. /\ UNCHANGED <<now, atas, tokens, configVars, tradeDetail, tradeVault, nonceCheck>>
          /\ nonceAccount' \subseteq Ephemerals
          /\ lamports' = Drain(lamports, e, to)
      BY <1>2 DEF WithdrawNonceAccount, TradeTypeOK
    <2>3. LedgerTypeOK' /\ \A u \in TradeIds : VaultKept(u)
      BY <2>1, <2>2, DrainKeeps, LedgerFacts
    <2> QED  BY <2>2, <2>3 DEF TradeTypeOK, ConfigTypeOK, configVars
  <1>3. ASSUME ConfigNext, UNCHANGED tradeVars
        PROVE  Goal
    BY <1>3, ConfigStep DEF TradeTypeOK, tradeVars
  <1>4. ASSUME AnyLedgerNext, UNCHANGED <<configVars, tradeVars>>
        PROVE  Goal
    BY <1>4, LedgerStep DEF TradeTypeOK, ConfigTypeOK, configVars, tradeVars
  <1>5. ASSUME UNCHANGED vars
        PROVE  Goal
    BY <1>5, LedgerUnchanged, LedgerFacts
    DEF TradeTypeOK, ConfigTypeOK, vars, configVars, tradeVars
  <1> QED
    BY <1>1, <1>2, <1>3, <1>4, <1>5 DEF AnyNonceStep

-----------------------------------------------------------------------------
(* The steps of the specification, one trade at a time.                    *)
LEMMA Steps ==
  ASSUME [AnyTradeNext]_vars
  PROVE  \/ \E t \in TradeIds, timeout \in Timeouts, mpc \in Mpcs, refund \in Refunds,
               e \in Ephemerals : Deposit(t, timeout, mpc, refund, e)
         \/ \E t \in TradeIds, fee \in Fees : SetTotalFee(t, fee)
         \/ \E t \in TradeIds, pmm \in Pmms : Settlement(t, pmm)
         \/ \E t \in TradeIds : Claim(t)
         \/ \E signer \in Wallets, t \in TradeIds : CloseFinishedTrade(signer, t)
         \/ \/ AnyNonceStep
            \/ ConfigNext /\ UNCHANGED tradeVars
            \/ AnyLedgerNext /\ UNCHANGED <<configVars, tradeVars>>
            \/ UNCHANGED vars
  BY DEF AnyTradeNext, TradeStep

(* Every step keeps the types.                                             *)
LEMMA TradeTypeStep ==
  ASSUME TradeTypeOK, [AnyTradeNext]_vars
  PROVE  TradeTypeOK'
  BY Steps, DepositStep, SetTotalFeeStep, SettlementStep, ClaimStep, CloseStep, OtherStep

(* Type correctness: in particular no balance is ever overdrawn, by        *)
(* lamports that deposit, settlement and claim move by hand or otherwise.  *)
THEOREM TradeTypeCorrect == TradeSpec => []TradeTypeOK
  <1>1. TradeInit => TradeTypeOK
    BY StartAssumption, LedgerAssumption, StartIsSetUp
    DEF TradeInit, DeploymentInit, TradeTypeOK, ConfigTypeOK, LedgerInit, LedgerTypeOK
  <1>2. TradeTypeOK /\ [TradeNext]_vars => TradeTypeOK'
    BY TradeTypeStep, TradeAny
  <1> QED
    BY <1>1, <1>2, PTL DEF TradeSpec

-----------------------------------------------------------------------------
(* The nonce check PDA, step by step: deposit opens one for a key that has *)
(* none, and what ends a trade closes the one that is its own.             *)
LEMMA NonceStepKeeps ==
  ASSUME TradeTypeOK, NonceGuardsOneTrade, [AnyTradeNext]_vars
  PROVE  NonceGuardsOneTrade'
  <1> USE DEF NonceGuardsOneTrade
  <1>0. DOMAIN tradeDetail = TradeIds /\ \A t \in TradeIds : tradeDetail[t] \in TradeDetail \cup {None}
    BY DEF TradeTypeOK
  <1>1. ASSUME NEW t \in TradeIds, NEW timeout \in Timeouts, NEW mpc \in Mpcs,
               NEW refund \in Refunds, NEW e \in Ephemerals,
               Deposit(t, timeout, mpc, refund, e)
        PROVE  NonceGuardsOneTrade'
    <2> DEFINE new == NewTrade(t, timeout, mpc, refund, e)
    <2>1. /\ e \notin nonceCheck /\ nonceCheck' = nonceCheck \cup {e}
          /\ ~Open(t)
          /\ tradeDetail' = [tradeDetail EXCEPT ![t] = new]
      BY <1>1 DEF Deposit, NonceFree, Open
    <2>2. new # None /\ new.status = "Deposited" /\ new.eph = e
      BY <1>1, DepositStep, NoneIsNoTrade DEF NewTrade
    <2> HIDE DEF new
    <2>3. /\ Open(t)' /\ tradeDetail'[t].eph = e
          /\ \A u \in TradeIds \ {t} : /\ Open(u)' <=> Open(u)
                                       /\ tradeDetail'[u] = tradeDetail[u]
      BY <1>0, <2>1, <2>2 DEF Open, Exists
    <2> HIDE DEF NonceGuardsOneTrade
    <2>4. nonceCheck' = {tradeDetail'[u].eph : u \in {v \in TradeIds : Open(v)'}}
      BY <2>1, <2>3 DEF NonceGuardsOneTrade
    <2>5. \A u \in TradeIds \ {t} : Open(u) => tradeDetail[u].eph # e
      BY <2>1 DEF NonceGuardsOneTrade
    <2>6. \A u, v \in TradeIds :
            Open(u)' /\ Open(v)' /\ tradeDetail'[u].eph = tradeDetail'[v].eph => u = v
      BY <2>3, <2>5 DEF NonceGuardsOneTrade
    <2> QED  BY <2>4, <2>6 DEF NonceGuardsOneTrade
  <1>2. ASSUME NEW t \in TradeIds, ~Open(t)', Open(t),
               nonceCheck' = nonceCheck \ {tradeDetail[t].eph},
               \A u \in TradeIds \ {t} : tradeDetail'[u] = tradeDetail[u]
        PROVE  NonceGuardsOneTrade'
    <2>1. \A u \in TradeIds \ {t} : /\ Open(u)' <=> Open(u)
                                    /\ tradeDetail'[u] = tradeDetail[u]
      BY <1>2 DEF Open, Exists
    <2>2. \A u \in TradeIds \ {t} : Open(u) => tradeDetail[u].eph # tradeDetail[t].eph
      BY <1>2
    <2> QED  BY <1>2, <2>1, <2>2
  <1>3. ASSUME NEW t \in TradeIds, NEW pmm \in Pmms, Settlement(t, pmm)
        PROVE  NonceGuardsOneTrade'
    <2>1. /\ Open(t) /\ tradeDetail' = [tradeDetail EXCEPT ![t] = Settled(t, pmm)]
          /\ nonceCheck' = nonceCheck \ {tradeDetail[t].eph}
      BY <1>3, SettlementStep DEF Settlement
    <2>2. Settled(t, pmm).status = "Settled"
      BY <1>0, <2>1 DEF Settled, Open, Exists, TradeDetail
    <2>3. ~Open(t)'
      BY <1>0, <2>1, <2>2 DEF Open
    <2> QED  BY <1>0, <1>2, <2>1, <2>3
  <1>4. ASSUME NEW t \in TradeIds, Claim(t)
        PROVE  NonceGuardsOneTrade'
    <2>1. /\ Open(t) /\ tradeDetail' = [tradeDetail EXCEPT ![t].status = "Claimed"]
          /\ nonceCheck' = nonceCheck \ {tradeDetail[t].eph}
      BY <1>4, ClaimStep DEF Claim
    <2>2. tradeDetail'[t].status = "Claimed"
      BY <1>0, <2>1 DEF Open, Exists, TradeDetail
    <2>3. ~Open(t)'
      BY <2>2 DEF Open
    <2> QED  BY <1>0, <1>2, <2>1, <2>3
  <1>5. ASSUME nonceCheck' = nonceCheck,
               \A u \in TradeIds : (Open(u)' <=> Open(u))
                 /\ (Open(u) => tradeDetail'[u].eph = tradeDetail[u].eph)
        PROVE  NonceGuardsOneTrade'
    BY <1>5
  <1>6. ASSUME NEW t \in TradeIds, NEW fee \in Fees, SetTotalFee(t, fee)
        PROVE  NonceGuardsOneTrade'
    <2>1. /\ Exists(t) /\ tradeDetail' = [tradeDetail EXCEPT ![t].totalFee = fee]
          /\ nonceCheck' = nonceCheck
          /\ tradeDetail'[t] \in TradeDetail \cup {None}
      BY <1>6 , SetTotalFeeStep DEF SetTotalFee, TradeTypeOK
    <2>2. /\ tradeDetail'[t] = [tradeDetail[t] EXCEPT !.totalFee = fee]
          /\ tradeDetail[t] \in TradeDetail
      BY <1>0, <2>1 DEF Exists
    <2>3. /\ tradeDetail'[t].status = tradeDetail[t].status
          /\ tradeDetail'[t].eph = tradeDetail[t].eph
          /\ tradeDetail'[t] \in TradeDetail
      BY <2>2, DetailFacts, <2>1, <1>6, TradeBounds DEF TradeDetail
    <2>4. \A u \in TradeIds \ {t} : tradeDetail'[u] = tradeDetail[u]
      BY <1>0, <2>1
    <2>5. Exists(t)'
      BY <2>3, NoneIsNoTrade DEF Exists
    <2> QED  BY <1>5, <2>1, <2>3, <2>4, <2>5 DEF Open, Exists
  <1>7. ASSUME NEW signer \in Wallets, NEW t \in TradeIds, CloseFinishedTrade(signer, t)
        PROVE  NonceGuardsOneTrade'
    <2>1. /\ Finished(t) /\ tradeDetail' = [tradeDetail EXCEPT ![t] = None]
          /\ nonceCheck' = nonceCheck
      BY <1>7, CloseStep DEF CloseFinishedTrade
    <2>2. ~Open(t) /\ ~Open(t)'
      BY <1>0, <2>1 DEF Finished, Open, Exists
    <2>3. \A u \in TradeIds \ {t} : tradeDetail'[u] = tradeDetail[u]
      BY <1>0, <2>1
    <2> QED  BY <1>5, <2>1, <2>2, <2>3 DEF Open, Exists
  <1>8. ASSUME UNCHANGED <<tradeDetail, nonceCheck>>
        PROVE  NonceGuardsOneTrade'
    BY <1>5, <1>8 DEF Open, Exists
  <1> QED
    <2> HIDE DEF NonceGuardsOneTrade
    <2> QED  BY <1>1, <1>3, <1>4, <1>6, <1>7, <1>8, Steps, OtherStep

(* An ephemeral key, and with it the settlement it has signed in advance,  *)
(* serves one open trade at a time, and loses its nonce check PDA exactly  *)
(* when that trade is settled or claimed.                                  *)
THEOREM NonceAlwaysGuardsOneTrade == TradeSpec => []NonceGuardsOneTrade
  <1>1. TradeInit => NonceGuardsOneTrade
    BY DEF TradeInit, NonceGuardsOneTrade, Open, Exists
  <1>2. TradeTypeOK /\ NonceGuardsOneTrade /\ [TradeNext]_vars => NonceGuardsOneTrade'
    BY NonceStepKeeps, TradeAny
  <1> QED
    BY <1>1, <1>2, TradeTypeCorrect, PTL DEF TradeSpec

-----------------------------------------------------------------------------
\* VaultSolvent for one trade.
Solvent(t) == Open(t) =>
    /\ Custody(t) >= tradeDetail[t].amount
    /\ tradeDetail[t].token # None =>
         Ata(VaultPda(t), tradeDetail[t].token) \in atas

(* A step that takes nothing from a vault, and changes nothing in its      *)
(* trade but the fee, leaves it solvent.                                   *)
LEMMA KeptSolvent ==
  ASSUME TradeTypeOK, TradeTypeOK', NEW t \in TradeIds, Solvent(t), VaultKept(t),
         Open(t)' => /\ Open(t)
                     /\ tradeDetail'[t].token = tradeDetail[t].token
                     /\ tradeDetail'[t].amount = tradeDetail[t].amount
  PROVE  Solvent(t)'
  <1> SUFFICES ASSUME Open(t)'
               PROVE  /\ Custody(t)' >= tradeDetail'[t].amount
                      /\ tradeDetail'[t].token # None =>
                           Ata(VaultPda(t), tradeDetail'[t].token) \in atas'
    BY DEF Solvent
  <1> DEFINE token  == tradeDetail[t].token
             amount == tradeDetail[t].amount
             vault  == VaultPda(t)
  <1>1. /\ token \in Mints \cup {None} /\ amount \in Nat
        /\ tradeDetail'[t].token = token /\ tradeDetail'[t].amount = amount
        /\ Custody(t) >= amount
        /\ token # None => Ata(vault, token) \in atas
    BY DetailFacts DEF Open, Solvent
  <1>2. /\ Custody(t) = IF token = None THEN lamports[vault] - Rent["vault"]
                        ELSE tokens[Ata(vault, token)]
        /\ Custody(t)' = IF token = None THEN lamports'[vault] - Rent["vault"]
                         ELSE tokens'[Ata(vault, token)]
    BY <1>1 DEF Custody
  <1>3. /\ vault \in Account /\ \A m \in Mints : Ata(vault, m) \in TokenAccount
        /\ lamports \in [Account -> Nat] /\ lamports' \in [Account -> Nat]
        /\ tokens \in [TokenAccount -> Nat] /\ tokens' \in [TokenAccount -> Nat]
        /\ lamports'[vault] >= lamports[vault]
        /\ \A m \in Mints : /\ tokens'[Ata(vault, m)] >= tokens[Ata(vault, m)]
                            /\ Ata(vault, m) \in atas => Ata(vault, m) \in atas'
    BY Addresses DEF VaultKept, TradeTypeOK, ConfigTypeOK, LedgerTypeOK
  <1> HIDE DEF token, amount, vault
  <1>4. Rent["vault"] \in Nat
    BY Rents
  <1>5. CASE token = None
    BY <1>1, <1>2, <1>3, <1>4, <1>5 DEF vault, token
  <1>6. CASE token # None
    <2>1. token \in Mints
      BY <1>1, <1>6
    <2>2. /\ tokens'[Ata(vault, token)] >= tokens[Ata(vault, token)]
          /\ Ata(vault, token) \in atas'
          /\ tokens[Ata(vault, token)] \in Nat /\ tokens'[Ata(vault, token)] \in Nat
      BY <1>1, <1>3, <1>6, <2>1
    <2>3. Custody(t)' >= amount
      BY <1>1, <1>2, <1>6, <2>2
    <2> QED  BY <1>1, <2>2, <2>3 DEF vault
  <1> QED
    BY <1>5, <1>6

(* A trade that is not open needs no funds.                                *)
LEMMA ClosedSolvent ==
  ASSUME TradeTypeOK, TradeTypeOK', NEW t \in TradeIds,
         \A u \in TradeIds : Solvent(u),
         \A u \in TradeIds \ {t} : VaultKept(u) /\ tradeDetail'[u] = tradeDetail[u],
         ~Open(t)'
  PROVE  \A u \in TradeIds : Solvent(u)'
  <1>1. ASSUME NEW u \in TradeIds \ {t}
        PROVE  Solvent(u)'
    <2>1. VaultKept(u) /\ tradeDetail'[u] = tradeDetail[u]
      OBVIOUS
    <2> QED  BY <2>1, KeptSolvent DEF Open, Exists
  <1>2. Solvent(t)'
    BY DEF Solvent
  <1> QED
    BY <1>1, <1>2

(* Solvency, step by step.                                                 *)
LEMMA SolventStep ==
  ASSUME TradeTypeOK, TradeTypeOK', \A u \in TradeIds : Solvent(u), [AnyTradeNext]_vars
  PROVE  \A u \in TradeIds : Solvent(u)'
  <1> DEFINE Goal == \A u \in TradeIds : Solvent(u)'
  <1>0. /\ DOMAIN tradeDetail = TradeIds
        /\ \A t \in TradeIds : tradeDetail[t] \in TradeDetail \cup {None}
    BY DEF TradeTypeOK
  <1>1. ASSUME NEW t \in TradeIds, NEW timeout \in Timeouts, NEW mpc \in Mpcs,
               NEW refund \in Refunds, NEW e \in Ephemerals,
               Deposit(t, timeout, mpc, refund, e)
        PROVE  Goal
    <2> DEFINE token  == Input[t].token
               amount == Input[t].amount
               vault  == VaultPda(t)
    <2>1. /\ Holds(t, token, amount)
          /\ \A u \in TradeIds : VaultKept(u)
          /\ tradeDetail' = [tradeDetail EXCEPT ![t] = NewTrade(t, timeout, mpc, refund, e)]
          /\ UNCHANGED atas
      BY <1>1, DepositStep DEF Deposit
    <2>2. /\ tradeDetail'[t].token = token /\ tradeDetail'[t].amount = amount
          /\ \A u \in TradeIds \ {t} : tradeDetail'[u] = tradeDetail[u]
      BY <1>0, <2>1 DEF NewTrade
    <2>3. Custody(t)' = IF token = None THEN lamports'[vault] - Rent["vault"]
                        ELSE tokens'[Ata(vault, token)]
      BY <2>2 DEF Custody
    <2>4. /\ amount \in Nat /\ Rent["vault"] \in Nat /\ vault \in Account
          /\ lamports' \in [Account -> Nat]
      BY InputFacts, Rents, Addresses DEF TradeTypeOK, ConfigTypeOK, LedgerTypeOK
    <2>5. /\ Custody(t)' >= amount
          /\ token # None => Ata(vault, token) \in atas'
      <3> HIDE DEF token, amount, vault
      <3>1. Holds(t, token, amount) <=>
              IF token = None THEN lamports'[vault] >= Rent["vault"] + amount
              ELSE tokens'[Ata(vault, token)] >= amount /\ Ata(vault, token) \in atas
        BY DEF Holds, vault
      <3> QED  BY <2>1, <2>3, <2>4, <3>1
    <2>6. Solvent(t)'
      BY <2>2, <2>5 DEF Solvent
    <2>7. ASSUME NEW u \in TradeIds \ {t}
          PROVE  Solvent(u)'
      BY <2>1, <2>2, KeptSolvent DEF Open, Exists
    <2> QED  BY <2>6, <2>7
  <1>2. ASSUME NEW t \in TradeIds, NEW fee \in Fees, SetTotalFee(t, fee)
        PROVE  Goal
    <2>1. /\ \A u \in TradeIds : VaultKept(u)
          /\ Exists(t) /\ tradeDetail' = [tradeDetail EXCEPT ![t].totalFee = fee]
      BY <1>2, SetTotalFeeStep
    <2>2. tradeDetail[t] \in TradeDetail /\ tradeDetail[t] # None
      BY <1>0, <2>1 DEF Exists
    <2>3. /\ tradeDetail'[t].status = tradeDetail[t].status
          /\ tradeDetail'[t].token = tradeDetail[t].token
          /\ tradeDetail'[t].amount = tradeDetail[t].amount
          /\ \A u \in TradeIds \ {t} : tradeDetail'[u] = tradeDetail[u]
      BY <1>0, <2>1, <2>2 DEF TradeDetail
    <2>4. ASSUME NEW u \in TradeIds
          PROVE  Solvent(u)'
      <3>1. Open(u)' => /\ Open(u)
                        /\ tradeDetail'[u].token = tradeDetail[u].token
                        /\ tradeDetail'[u].amount = tradeDetail[u].amount
        BY <2>1, <2>3 DEF Open, Exists
      <3> QED  BY <2>1, <3>1, KeptSolvent
    <2> QED  BY <2>4
  <1>3. ASSUME NEW t \in TradeIds, NEW pmm \in Pmms, Settlement(t, pmm)
        PROVE  Goal
    <2>1. /\ \A u \in TradeIds \ {t} : VaultKept(u)
          /\ Open(t) /\ tradeDetail' = [tradeDetail EXCEPT ![t] = Settled(t, pmm)]
      BY <1>3, SettlementStep
    <2>2. Settled(t, pmm).status = "Settled"
      BY <1>0, <2>1 DEF Settled, Open, Exists, TradeDetail
    <2> QED  BY <1>0, <2>1, <2>2, ClosedSolvent DEF Open
  <1>4. ASSUME NEW t \in TradeIds, Claim(t)
        PROVE  Goal
    <2>1. /\ \A u \in TradeIds \ {t} : VaultKept(u)
          /\ Open(t) /\ tradeDetail' = [tradeDetail EXCEPT ![t].status = "Claimed"]
      BY <1>4, ClaimStep
    <2>2. tradeDetail'[t].status = "Claimed"
      BY <1>0, <2>1 DEF Open, Exists, TradeDetail
    <2> QED  BY <1>0, <2>1, <2>2, ClosedSolvent DEF Open
  <1>5. ASSUME NEW signer \in Wallets, NEW t \in TradeIds, CloseFinishedTrade(signer, t)
        PROVE  Goal
    <2>1. /\ \A u \in TradeIds \ {t} : VaultKept(u)
          /\ tradeDetail' = [tradeDetail EXCEPT ![t] = None]
      BY <1>5, CloseStep
    <2>2. ~Open(t)'
      BY <1>0, <2>1 DEF Open, Exists
    <2> QED  BY <1>0, <2>1, <2>2, ClosedSolvent
  <1>6. ASSUME \/ AnyNonceStep
               \/ ConfigNext /\ UNCHANGED tradeVars
               \/ AnyLedgerNext /\ UNCHANGED <<configVars, tradeVars>>
               \/ UNCHANGED vars
        PROVE  Goal
    <2>1. (\A u \in TradeIds : VaultKept(u)) /\ UNCHANGED tradeDetail
      BY <1>6, OtherStep
    <2> QED  BY <2>1, KeptSolvent DEF Open, Exists
  <1> QED
    <2> HIDE DEF Goal
    <2> QED  BY <1>1, <1>2, <1>3, <1>4, <1>5, <1>6, Steps DEF Goal

(* Until a trade is settled or claimed its vault holds all of it, for any  *)
(* number of trades, depositors, tokens, gifts and operators.              *)
THEOREM VaultAlwaysSolvent == TradeSpec => []VaultSolvent
  <1> DEFINE Inv == \A t \in TradeIds : Solvent(t)
  <1>1. TradeInit => Inv
    BY DEF TradeInit, Solvent, Open, Exists
  <1>2. TradeTypeOK /\ TradeTypeOK' /\ Inv /\ [TradeNext]_vars => Inv'
    BY SolventStep, TradeAny
  <1>3. Inv => VaultSolvent
    BY DEF Solvent, VaultSolvent
  <1> QED
    BY <1>1, <1>2, <1>3, TradeTypeCorrect, PTL DEF TradeSpec

-----------------------------------------------------------------------------
(* The trades implement the escrow of module Escrow.  Beyond the solvency  *)
(* of the vaults this needs to know exactly what a vault holds after each  *)
(* step: settlement and claim take the amount and nothing else, deposits   *)
(* and payouts of other trades leave the vault as it is, and a stranger    *)
(* adds to one vault at a time.                                            *)

\* A step leaves what the vault of t holds as it is.
VaultSame(t) ==
    /\ lamports'[VaultPda(t)] = lamports[VaultPda(t)]
    /\ \A m \in Mints : tokens'[Ata(VaultPda(t), m)] = tokens[Ata(VaultPda(t), m)]

(* The vault of a trade and its token accounts.                            *)
LEMMA VaultPlace ==
  ASSUME NEW t \in TradeIds
  PROVE  /\ VaultPda(t) \in Account /\ VaultPda(t) \in Owner
         /\ VaultPda(t) \notin Recipient /\ VaultPda(t) \notin Wallets
         /\ VaultPda(t) \notin TokenAccount
         /\ \A m \in Mints : /\ Ata(VaultPda(t), m) \in TokenAccount
                             /\ \A o \in Recipient : \A n : Ata(VaultPda(t), m) # Ata(o, n)
  BY Addresses, VaultApart, AtasApart DEF Recipient

(* What a token transfer out of an account of its own does exactly.        *)
LEMMA SplTransferExact ==
  ASSUME NEW bal \in [TokenAccount -> Int], NEW from \in Owner, NEW to \in Owner,
         NEW m \in Mints, NEW n \in Amount, NEW fee, fee # None => fee \in Amount
  PROVE  /\ \A x \in TokenAccount \ {Ata(from, m), Ata(to, m), Ata(ProtocolPda, m)} :
              SplTransfer(bal, from, to, m, n, fee)[x] = bal[x]
         /\ fee = None => \A x \in TokenAccount \ {Ata(from, m), Ata(to, m)} :
              SplTransfer(bal, from, to, m, n, fee)[x] = bal[x]
         /\ fee = None /\ from # to =>
              SplTransfer(bal, from, to, m, n, fee)[Ata(to, m)] = bal[Ata(to, m)] + n
         /\ from \notin {to, ProtocolPda} =>
              SplTransfer(bal, from, to, m, n, fee)[Ata(from, m)]
                = bal[Ata(from, m)] - n - (IF fee = None THEN 0 ELSE fee)
  <1> DEFINE src  == Ata(from, m)
             dst  == Ata(to, m)
             fees == Ata(ProtocolPda, m)
             paid == Move(bal, src, dst, n)
             both == Move(paid, src, fees, fee)
  <1>1. /\ src \in TokenAccount /\ dst \in TokenAccount /\ fees \in TokenAccount
        /\ from # to => src # dst
        /\ from # ProtocolPda => src # fees
    BY Addresses, AtasApart DEF Recipient
  <1>2. SplTransfer(bal, from, to, m, n, fee) = IF fee = None THEN paid ELSE both
    BY DEF SplTransfer
  <1> HIDE DEF src, dst, fees
  <1>3. /\ paid \in [TokenAccount -> Int]
        /\ \A x \in TokenAccount \ {src, dst} : paid[x] = bal[x]
        /\ src # dst => paid[src] = bal[src] - n /\ paid[dst] = bal[dst] + n
    BY <1>1, MoveFacts
  <1> HIDE DEF paid
  <1>4. CASE fee = None
    BY <1>1, <1>2, <1>3, <1>4 DEF src, dst, fees, Amount
  <1>5. CASE fee # None
    <2>1. /\ \A x \in TokenAccount \ {src, fees} : both[x] = paid[x]
          /\ src # fees => both[src] = paid[src] - fee
      BY <1>1, <1>3, <1>5, MoveFacts
    <2> HIDE DEF both
    <2>2. \A x \in TokenAccount \ {src, dst, fees} : both[x] = bal[x]
      BY <1>3, <2>1
    <2>3. from \notin {to, ProtocolPda} => both[src] = bal[src] - n - fee
      BY <1>1, <1>3, <2>1
    <2> QED
      BY <1>2, <1>5, <2>2, <2>3 DEF src, dst, fees
  <1> QED
    BY <1>4, <1>5

-----------------------------------------------------------------------------
(* The configuration's instructions leave every vault as it is.            *)
LEMMA ConfigVaults ==
  ASSUME ConfigTypeOK, ConfigNext, NEW t \in TradeIds
  PROVE  VaultSame(t) /\ UNCHANGED now
  <1>0. lamports \in [Account -> Int] /\ lamports \in [Account -> Nat]
    BY DEF ConfigTypeOK, LedgerTypeOK
  <1> DEFINE Pays(signer, a) == \A x \in Account \ {signer, a} : lamports'[x] = lamports[x]
  <1>1. ASSUME UNCHANGED <<lamports, tokens>>
        PROVE  VaultSame(t)
    BY <1>1 DEF VaultSame
  <1>2. ASSUME NEW signer \in Wallets, NEW a, VaultPda(t) # a, Pays(signer, a), UNCHANGED tokens
        PROVE  VaultSame(t)
    BY <1>2, VaultPlace DEF VaultSame
  <1>3. ASSUME NEW signer \in Wallets, NEW admin \in Admins \cup {None}, InitConfig(signer, admin)
        PROVE  VaultSame(t) /\ UNCHANGED now
    <2> DEFINE legacy   == Fund(lamports, signer, LegacyVaultPda, Rent["wallet"])
               protocol == Fund(legacy, signer, ProtocolPda, Rent["wallet"])
               all      == Fund(protocol, signer, ConfigPda, Rent["config"])
               three    == {LegacyVaultPda, ProtocolPda, ConfigPda}
    <2>1. /\ signer \in Account /\ three \subseteq Account /\ signer \notin three
      BY Addresses, KeysApart
    <2>2. /\ UNCHANGED <<now, tokens>>
          /\ lamports' = lamports \/ lamports' = all
      BY <1>3 DEF InitConfig, FundInit
    <2>3. /\ legacy \in [Account -> Int]
          /\ \A x \in Account \ {signer, LegacyVaultPda} : legacy[x] = lamports[x]
      BY <1>0, <2>1, FundFacts, Rents
    <2> HIDE DEF legacy
    <2>4. /\ protocol \in [Account -> Int]
          /\ \A x \in Account \ {signer, ProtocolPda} : protocol[x] = legacy[x]
      BY <2>1, <2>3, FundFacts, Rents
    <2> HIDE DEF protocol
    <2>5. \A x \in Account \ {signer, ConfigPda} : all[x] = protocol[x]
      BY <2>1, <2>4, FundFacts, Rents
    <2> HIDE DEF all
    <2>6. VaultPda(t) \in Account \ ({signer} \cup three)
      BY VaultPlace, VaultApart DEF Recipient
    <2> QED
      BY <2>2, <2>3, <2>4, <2>5, <2>6 DEF VaultSame
  <1>4. ASSUME NEW operator \in Wallets, NEW m \in Mints, NEW amount \in MinAmounts,
               AddOrUpdateWhitelist(operator, m, amount)
        PROVE  VaultSame(t) /\ UNCHANGED now
    <2>1. /\ operator \in Account /\ WhitelistPda(m) \in Account
          /\ operator # WhitelistPda(m) /\ VaultPda(t) # WhitelistPda(m)
      BY Addresses, KeysApart, VaultApart
    <2>2. Pays(operator, WhitelistPda(m))
      BY <1>0, <1>4, <2>1, FundFacts, Rents DEF AddOrUpdateWhitelist
    <2> QED
      BY <1>2, <1>4, <2>1, <2>2 DEF AddOrUpdateWhitelist
  <1>5. ASSUME NEW operator \in Wallets, NEW token \in Mints, NEW m \in Mints,
               RemoveWhitelist(operator, token, m)
        PROVE  VaultSame(t) /\ UNCHANGED now
    <2>1. /\ operator \in Account /\ WhitelistPda(m) \in Account
          /\ operator # WhitelistPda(m) /\ VaultPda(t) # WhitelistPda(m)
      BY Addresses, KeysApart, VaultApart
    <2>2. Pays(operator, WhitelistPda(m))
      BY <1>0, <1>5, <2>1, DrainFacts DEF RemoveWhitelist
    <2> QED
      BY <1>2, <1>5, <2>1, <2>2 DEF RemoveWhitelist
  <1>6. ASSUME NEW signer \in Wallets, NEW receiver \in Wallets,
               AddFeeReceiver(signer, receiver) \/ RemoveFeeReceiver(signer, receiver)
        PROVE  VaultSame(t) /\ UNCHANGED now
    <2>1. /\ signer \in Account /\ ReceiverPda(receiver) \in Account
          /\ signer # ReceiverPda(receiver) /\ VaultPda(t) # ReceiverPda(receiver)
      BY Addresses, KeysApart, VaultApart
    <2>2. UNCHANGED <<now, tokens>>
      BY <1>6 DEF AddFeeReceiver, RemoveFeeReceiver
    <2>3. CASE AddFeeReceiver(signer, receiver)
      <3>1. Pays(signer, ReceiverPda(receiver))
        BY <1>0, <2>1, <2>3, FundFacts, Rents DEF AddFeeReceiver
      <3> QED  BY <1>2, <2>1, <2>2, <3>1
    <2>4. CASE RemoveFeeReceiver(signer, receiver)
      <3>1. Pays(signer, ReceiverPda(receiver))
        BY <1>0, <2>1, <2>4, DrainFacts DEF RemoveFeeReceiver
      <3> QED  BY <1>2, <2>1, <2>2, <3>1
    <2> QED  BY <1>6, <2>3, <2>4
  <1>7. ASSUME UNCHANGED ledgerVars
        PROVE  VaultSame(t) /\ UNCHANGED now
    BY <1>1, <1>7 DEF ledgerVars
  <1>8. ASSUME NEW signer \in Wallets, NEW operator \in Wallets,
               AddOperator(signer, operator) \/ RemoveOperator(signer, operator)
        PROVE  VaultSame(t) /\ UNCHANGED now
    BY <1>7, <1>8 DEF AddOperator, RemoveOperator
  <1>9. ASSUME NEW operator \in Wallets, NEW trade \in Durations \cup {None},
               NEW payment \in Durations \cup {None},
               SetCloseWaitDuration(operator, trade, payment)
        PROVE  VaultSame(t) /\ UNCHANGED now
    BY <1>7, <1>9 DEF SetCloseWaitDuration
  <1> QED
    BY <1>3, <1>4, <1>5, <1>6, <1>8, <1>9 DEF ConfigNext

(* So do the steps on durable nonce accounts.                              *)
LEMMA NonceVaults ==
  ASSUME TradeTypeOK, AnyNonceStep, NEW t \in TradeIds
  PROVE  VaultSame(t) /\ UNCHANGED <<now, tradeDetail>>
  <1>0. lamports \in [Account -> Int]
    BY LedgerFacts
  <1>1. ASSUME NEW payer \in Wallets, NEW e \in Ephemerals,
               CreateNonceAccount(payer, e) \/ WithdrawNonceAccount(payer, e)
        PROVE  VaultSame(t) /\ UNCHANGED <<now, tradeDetail>>
    <2>1. /\ payer \in Wallets /\ payer \in Account /\ e \in Account /\ payer # e
          /\ VaultPda(t) # e /\ VaultPda(t) # payer
      BY LedgerAssumption, Addresses, KeysApart
    <2>2. UNCHANGED <<now, tokens, tradeDetail>>
      BY <1>1 DEF CreateNonceAccount, WithdrawNonceAccount
    <2>3. \A x \in Account \ {payer, e} : lamports'[x] = lamports[x]
      <3>1. CASE CreateNonceAccount(payer, e)
        BY <1>0, <2>1, <3>1, FundFacts, Rents DEF CreateNonceAccount
      <3>2. CASE WithdrawNonceAccount(payer, e)
        BY <1>0, <2>1, <3>2, DrainFacts DEF WithdrawNonceAccount
      <3> QED  BY <1>1, <3>1, <3>2
    <2> QED
      BY <2>1, <2>2, <2>3, VaultPlace DEF VaultSame
  <1> QED
    BY <1>1 DEF AnyNonceStep

\* A stranger adds n to the vault of t, in lamports or in the mint m, and
\* nothing to any other.
Given(t, m, n) ==
    /\ n \in Nat
    /\ \A u \in TradeIds \ {t} : VaultSame(u)
    /\ \/ /\ lamports'[VaultPda(t)] = lamports[VaultPda(t)] + n
          /\ UNCHANGED tokens
       \/ /\ UNCHANGED lamports
          /\ \A k \in Mints : tokens'[Ata(VaultPda(t), k)]
               = tokens[Ata(VaultPda(t), k)] + IF k = m THEN n ELSE 0

(* Creating a token account leaves all vaults as they are.                 *)
LEMMA AtaVaults ==
  ASSUME LedgerTypeOK, NEW payer \in Wallets, NEW o \in Owner, NEW m \in Mints,
         CreateAta(payer, o, m)
  PROVE  UNCHANGED now /\ \A t \in TradeIds : VaultSame(t)
  <1>1. /\ payer \in Account /\ lamports \in [Account -> Int]
        /\ Ata(o, m) \in TokenAccount /\ Ata(o, m) \in Account /\ payer # Ata(o, m)
    BY Addresses, KeysApart DEF LedgerTypeOK
  <1>2. \A x \in Account \ {payer, Ata(o, m)} : lamports'[x] = lamports[x]
    BY <1>1, FundFacts, Rents DEF CreateAta
  <1>3. UNCHANGED <<now, tokens>>
    BY DEF CreateAta
  <1>4. ASSUME NEW t \in TradeIds
        PROVE  VaultSame(t)
    BY <1>1, <1>2, <1>3, VaultPlace DEF VaultSame
  <1> QED
    BY <1>3, <1>4

(* The cluster and outsiders leave all vaults as they are or add to one.   *)
LEMMA LedgerVaults ==
  ASSUME LedgerTypeOK, AnyLedgerNext
  PROVE  \/ now' > now /\ UNCHANGED <<lamports, tokens>>
         \/ UNCHANGED now /\ \A t \in TradeIds : VaultSame(t)
         \/ UNCHANGED now /\ \E t \in TradeIds, m \in Mints \cup {None}, n \in Nat : Given(t, m, n)
  <1> DEFINE Same == UNCHANGED now /\ \A t \in TradeIds : VaultSame(t)
             Adds == UNCHANGED now /\ \E t \in TradeIds, m \in Mints \cup {None}, n \in Nat : Given(t, m, n)
  <1>0. /\ lamports \in [Account -> Int] /\ lamports \in [Account -> Nat]
        /\ tokens \in [TokenAccount -> Int] /\ now \in Nat
    BY DEF LedgerTypeOK
  <1>1. CASE Tick
    BY <1>0, <1>1 DEF Tick
  <1>2. ASSUME NEW payer \in Wallets, NEW o \in Owner, NEW m \in Mints, CreateAta(payer, o, m)
        PROVE  Same
    BY <1>2, AtaVaults
  <1>3. ASSUME NEW o \in Wallets, NEW m \in Mints, CloseAta(o, m)
        PROVE  Same
    <2>1. /\ o \in Account /\ o \in Owner
          /\ Ata(o, m) \in TokenAccount /\ Ata(o, m) \in Account /\ o # Ata(o, m)
      BY Addresses, KeysApart
    <2>2. \A x \in Account \ {o, Ata(o, m)} : lamports'[x] = lamports[x]
      BY <1>0, <1>3, <2>1, DrainFacts DEF CloseAta
    <2>3. UNCHANGED <<now, tokens>>
      BY <1>3 DEF CloseAta
    <2>4. ASSUME NEW t \in TradeIds
          PROVE  VaultSame(t)
      BY <2>1, <2>2, <2>3, VaultPlace DEF VaultSame
    <2> QED  BY <2>3, <2>4
  <1>4. ASSUME NEW giver \in Givers, NEW a \in GiftTargets, NEW n \in Gifts,
               GiveLamports(giver, a, n)
        PROVE  Same \/ Adds
    <2>1. /\ giver \in Wallets /\ giver \in Account /\ a \in Account
          /\ n \in Nat /\ n \in Amount
      BY LedgerAssumption, Addresses DEF Amount
    <2>2. /\ \A x \in Account \ {giver, a} : lamports'[x] = lamports[x]
          /\ giver # a => lamports'[a] = lamports[a] + n
          /\ UNCHANGED <<now, tokens>>
      BY <1>0, <1>4, <2>1, MoveFacts DEF GiveLamports
    <2>3. \A u \in TradeIds : VaultPda(u) # a => VaultSame(u)
      BY <2>1, <2>2, VaultPlace DEF VaultSame
    <2>4. ASSUME NEW t \in TradeIds, a = VaultPda(t)
          PROVE  Adds
      <3>1. \A u \in TradeIds \ {t} : VaultPda(u) # a
        BY <2>4, PdasApart
      <3>2. giver # a
        BY <2>1, <2>4, VaultPlace
      <3>3. Given(t, None, n)
        BY <2>1, <2>2, <2>3, <2>4, <3>1, <3>2 DEF Given
      <3> QED  BY <2>1, <2>2, <3>3
    <2> QED
      BY <2>2, <2>3, <2>4
  <1>5. ASSUME NEW giver \in Givers, NEW o \in GiftTargets \cap Owner, NEW m \in Mints,
               NEW n \in Gifts, GiveTokens(giver, o, m, n)
        PROVE  Same \/ Adds
    <2>1. /\ giver \in Wallets /\ giver \in Recipient /\ giver \in Owner
          /\ n \in Nat /\ n \in Amount
      BY LedgerAssumption, Addresses DEF Amount
    <2>2. /\ \A x \in TokenAccount \ {Ata(giver, m), Ata(o, m)} : tokens'[x] = tokens[x]
          /\ giver # o => tokens'[Ata(o, m)] = tokens[Ata(o, m)] + n
          /\ UNCHANGED <<now, lamports>>
      BY <1>0, <1>5, <2>1, SplTransferExact DEF GiveTokens
    <2>3. ASSUME NEW u \in TradeIds, VaultPda(u) # o
          PROVE  VaultSame(u)
      <3>1. \A k \in Mints : Ata(VaultPda(u), k) \in TokenAccount \ {Ata(giver, m), Ata(o, m)}
        BY <2>1, <2>3, VaultPlace, AtasApart
      <3> QED  BY <2>2, <3>1 DEF VaultSame
    <2>4. ASSUME NEW t \in TradeIds, o = VaultPda(t)
          PROVE  Adds
      <3>1. \A u \in TradeIds \ {t} : VaultPda(u) # o
        BY <2>4, PdasApart
      <3>2. giver # o
        BY <2>1, <2>4, VaultPlace
      <3>3. ASSUME NEW k \in Mints
            PROVE  tokens'[Ata(VaultPda(t), k)] = tokens[Ata(VaultPda(t), k)] + IF k = m THEN n ELSE 0
        <4>1. CASE k = m
          BY <2>2, <2>4, <3>2, <4>1
        <4>2. CASE k # m
          <5>1. /\ Ata(VaultPda(t), k) \in TokenAccount \ {Ata(giver, m), Ata(o, m)}
                /\ tokens[Ata(VaultPda(t), k)] \in Int
            BY <1>0, <2>1, <4>2, VaultPlace, AtasApart
          <5> QED  BY <2>2, <4>2, <5>1
        <4> QED  BY <4>1, <4>2
      <3>4. Given(t, m, n)
        BY <2>1, <2>2, <2>3, <3>1, <3>3 DEF Given
      <3> QED  BY <2>1, <2>2, <3>4
    <2> QED
      BY <2>2, <2>3, <2>4
  <1> QED
    BY <1>1, <1>2, <1>3, <1>4, <1>5, LedgerAssumption DEF AnyLedgerNext, LedgerNext

-----------------------------------------------------------------------------
(* deposit leaves the vaults of other trades as they are.                  *)
LEMMA DepositVaults ==
  ASSUME TradeTypeOK, NEW t \in TradeIds, NEW e \in Ephemerals, DepositFunds(t, e)
  PROVE  \A u \in TradeIds \ {t} : VaultSame(u)
  <1> DEFINE user   == Input[t].user
             token  == Input[t].token
             amount == Input[t].amount
             detail == Fund(lamports, user, TradePda(t), Rent["trade"])
             nonce  == Fund(detail, user, NoncePda(e), Rent["nonce"])
             funded == Fund(nonce, user, VaultPda(t), Rent["vault"])
             mine   == {user, TradePda(t), NoncePda(e), VaultPda(t)}
  <1>1. /\ user \in Wallets /\ user \in Account /\ user \in Owner /\ user \in Recipient
        /\ token \in Mints \cup {None} /\ amount \in Amount
        /\ mine \subseteq Account /\ user \notin {TradePda(t), NoncePda(e), VaultPda(t)}
        /\ VaultPda(t) \in Owner
    BY InputFacts, Addresses, KeysApart
  <1>2. lamports \in [Account -> Int] /\ tokens \in [TokenAccount -> Int]
    BY LedgerFacts
  <1>3. /\ token = None => lamports' = Move(funded, user, VaultPda(t), amount) /\ tokens' = tokens
        /\ token # None =>
             /\ lamports' = funded
             /\ tokens' = SplTransfer(tokens, user, VaultPda(t), token, amount, None)
    BY DEF DepositFunds, FundTrade
  <1>4. \A u \in TradeIds \ {t} :
          /\ VaultPda(u) \in Account \ mine
          /\ \A m, n \in Mints : /\ Ata(VaultPda(u), m) \in TokenAccount
                                 /\ Ata(VaultPda(u), m) # Ata(user, n)
                                 /\ Ata(VaultPda(u), m) # Ata(VaultPda(t), n)
    BY <1>1, PdasApart, VaultPlace, AtasApart
  <1> HIDE DEF user, token, amount
  <1>5. /\ detail \in [Account -> Int]
        /\ \A x \in Account \ mine : detail[x] = lamports[x]
    BY <1>1, <1>2, FundFacts, Rents
  <1> HIDE DEF detail
  <1>6. /\ nonce \in [Account -> Int]
        /\ \A x \in Account \ mine : nonce[x] = lamports[x]
    BY <1>1, <1>5, FundFacts, Rents
  <1> HIDE DEF nonce
  <1>7. /\ funded \in [Account -> Int]
        /\ \A x \in Account \ mine : funded[x] = lamports[x]
    BY <1>1, <1>6, FundFacts, Rents
  <1> HIDE DEF funded
  <1>8. \A x \in Account \ mine : lamports'[x] = lamports[x]
    <2>1. CASE token = None
      BY <1>1, <1>3, <1>7, <2>1, MoveFacts
    <2>2. CASE token # None
      BY <1>3, <1>7, <2>2
    <2> QED  BY <2>1, <2>2
  <1>9. \A u \in TradeIds \ {t}, m \in Mints :
          tokens'[Ata(VaultPda(u), m)] = tokens[Ata(VaultPda(u), m)]
    <2>1. CASE token = None
      BY <1>3, <2>1
    <2>2. CASE token # None
      <3>1. token \in Mints
        BY <1>1, <2>2
      <3>2. \A x \in TokenAccount \ {Ata(user, token), Ata(VaultPda(t), token)} :
              tokens'[x] = tokens[x]
        BY <1>1, <1>2, <1>3, <2>2, <3>1, SplTransferExact
      <3> QED  BY <1>4, <3>1, <3>2
    <2> QED  BY <2>1, <2>2
  <1> HIDE DEF mine
  <1> QED
    BY <1>4, <1>8, <1>9 DEF VaultSame

(* Closing the nonce check PDA is nothing to any vault.                    *)
LEMMA CloseNonceCheckExact ==
  ASSUME TradeTypeOK, NEW t \in TradeIds, Exists(t), NEW bal \in [Account -> Int]
  PROVE  \A u \in TradeIds : CloseNonceCheck(t, bal)[VaultPda(u)] = bal[VaultPda(u)]
  <1> DEFINE nonce == NoncePda(tradeDetail[t].eph)
             user  == tradeDetail[t].user
  <1>1. /\ nonce \in Account /\ user \in Account /\ nonce # user
        /\ \A u \in TradeIds : VaultPda(u) \in Account \ {nonce, user}
    BY DetailFacts, Addresses, KeysApart, PdasApart
  <1>2. CloseNonceCheck(t, bal) = Drain(bal, nonce, user)
    BY DEF CloseNonceCheck
  <1> HIDE DEF nonce, user
  <1> QED
    BY <1>1, <1>2, DrainFacts

\* The vault of t loses the amount of the trade, and no other loses or gains.
AmountTaken(t) ==
    /\ \A u \in TradeIds \ {t} : VaultSame(u)
    /\ IF tradeDetail[t].token = None
       THEN lamports'[VaultPda(t)] = lamports[VaultPda(t)] - tradeDetail[t].amount
       ELSE tokens'[Ata(VaultPda(t), tradeDetail[t].token)]
              = tokens[Ata(VaultPda(t), tradeDetail[t].token)] - tradeDetail[t].amount

(* Tokens that leave the vault of t for a recipient, with or without a fee *)
(* for the protocol.                                                       *)
LEMMA PayTokensExact ==
  ASSUME TradeTypeOK, NEW t \in TradeIds, Exists(t), NEW to \in Recipient,
         tradeDetail[t].token # None, NEW n \in Amount,
         NEW fee \in Nat \cup {None},
         n + (IF fee = None THEN 0 ELSE fee) = tradeDetail[t].amount,
         tokens' = SplTransfer(tokens, VaultPda(t), to, tradeDetail[t].token, n, fee),
         lamports' = CloseNonceCheck(t, lamports)
  PROVE  AmountTaken(t)
  <1> DEFINE token == tradeDetail[t].token
             src   == Ata(VaultPda(t), token)
  <1>1. /\ token \in Mints /\ to \in Owner /\ VaultPda(t) \in Owner
        /\ VaultPda(t) # to /\ VaultPda(t) # ProtocolPda
        /\ src \in TokenAccount /\ tradeDetail[t].amount \in Int
    BY DetailFacts, Addresses, VaultPlace DEF Recipient
  <1>2. /\ tokens \in [TokenAccount -> Int] /\ lamports \in [Account -> Int]
        /\ None \notin Nat /\ n \in Int
    BY LedgerFacts, LedgerAssumption DEF Amount
  <1>3. fee # None => fee \in Amount
    BY DEF Amount
  <1> HIDE DEF src, token
  <1>4. tokens' = SplTransfer(tokens, VaultPda(t), to, token, n, fee)
    BY DEF token
  <1>5. /\ \A x \in TokenAccount \ {src, Ata(to, token), Ata(ProtocolPda, token)} :
             tokens'[x] = tokens[x]
        /\ tokens'[src] = tokens[src] - n - (IF fee = None THEN 0 ELSE fee)
    BY <1>1, <1>2, <1>3, <1>4, SplTransferExact DEF src
  <1>6. tokens'[src] = tokens[src] - tradeDetail[t].amount
    <2>1. tokens[src] \in Int
      BY <1>1, <1>2
    <2>2. CASE fee = None
      BY <1>1, <1>2, <1>5, <2>1, <2>2
    <2>3. CASE fee # None
      BY <1>1, <1>2, <1>5, <2>1, <2>3
    <2> QED  BY <2>2, <2>3
  <1>7. \A u \in TradeIds : lamports'[VaultPda(u)] = lamports[VaultPda(u)]
    BY <1>2, CloseNonceCheckExact
  <1>8. ASSUME NEW u \in TradeIds \ {t}
        PROVE  VaultSame(u)
    <2>1. VaultPda(u) # VaultPda(t) /\ ProtocolPda \in Recipient
      BY PdasApart DEF Recipient
    <2>2. \A m \in Mints :
            Ata(VaultPda(u), m) \in TokenAccount \ {src, Ata(to, token), Ata(ProtocolPda, token)}
      BY <2>1, VaultPlace, AtasApart DEF src
    <2> QED  BY <1>5, <1>7, <2>2 DEF VaultSame
  <1> QED
    BY <1>6, <1>8 DEF AmountTaken, src, token

(* Lamports that leave the vault of t for addresses that are no vaults.    *)
LEMMA PayLamportsExact ==
  ASSUME TradeTypeOK, NEW t \in TradeIds, Exists(t), NEW paid \in [Account -> Int],
         tradeDetail[t].token = None,
         paid[VaultPda(t)] = lamports[VaultPda(t)] - tradeDetail[t].amount,
         \A u \in TradeIds \ {t} : paid[VaultPda(u)] = lamports[VaultPda(u)],
         lamports' = CloseNonceCheck(t, paid), UNCHANGED tokens
  PROVE  AmountTaken(t)
  <1>1. \A u \in TradeIds : lamports'[VaultPda(u)] = paid[VaultPda(u)]
    BY CloseNonceCheckExact
  <1> QED
    BY <1>1 DEF AmountTaken, VaultSame

(* settlement takes the amount out of its vault: the pmm's share and the   *)
(* fee add up to it.                                                       *)
LEMMA SettlementVaults ==
  ASSUME TradeTypeOK, NEW t \in TradeIds, NEW pmm \in Pmms, Settlement(t, pmm)
  PROVE  AmountTaken(t)
  <1> DEFINE amount == tradeDetail[t].amount
             net    == SettlementAmount(t)
             fee    == Fee(t)
             vault  == VaultPda(t)
  <1>1. /\ Exists(t) /\ PayPmm(t, pmm) /\ fee <= amount
        /\ pmm \in Recipient /\ pmm \in Account
    BY TradeBounds, Addresses DEF Settlement, AssertSettlement, Open
  <1>2. /\ amount \in Nat /\ net \in Nat /\ net \in Amount /\ fee \in Nat /\ net + fee = amount
        /\ vault \in Account /\ ProtocolPda \in Account
        /\ lamports \in [Account -> Int]
    BY <1>1, DetailFacts, FeeFacts, Addresses, LedgerFacts DEF SettlementAmount
  <1>3. CASE tradeDetail[t].token = None
    <2> DEFINE taken   == [lamports EXCEPT ![vault] = @ - amount]
               settled == [taken EXCEPT ![pmm] = @ + net]
               paid    == [settled EXCEPT ![ProtocolPda] = @ + fee]
    <2>1. /\ lamports' = CloseNonceCheck(t, paid)
          /\ UNCHANGED tokens
      BY <1>1, <1>3 DEF PayPmm
    <2>2. \A u \in TradeIds : VaultPda(u) \in Account \ {pmm, ProtocolPda}
      BY <1>1, VaultPlace DEF Recipient
    <2>3. \A u \in TradeIds \ {t} : VaultPda(u) # vault
      BY PdasApart
    <2>4. vault = VaultPda(t)
      OBVIOUS
    <2> HIDE DEF amount, net, fee, vault
    <2>5. /\ taken \in [Account -> Int]
          /\ taken[vault] = lamports[vault] - amount
          /\ \A x \in Account \ {vault} : taken[x] = lamports[x]
      BY <1>2
    <2> HIDE DEF taken
    <2>6. /\ settled \in [Account -> Int]
          /\ \A x \in Account \ {pmm} : settled[x] = taken[x]
      BY <1>1, <1>2, <2>5
    <2> HIDE DEF settled
    <2>7. /\ paid \in [Account -> Int]
          /\ \A x \in Account \ {ProtocolPda} : paid[x] = settled[x]
      BY <1>2, <2>6
    <2> HIDE DEF paid
    <2>8. paid[vault] = lamports[vault] - amount
      BY <2>2, <2>4, <2>5, <2>6, <2>7
    <2>9. \A u \in TradeIds \ {t} : paid[VaultPda(u)] = lamports[VaultPda(u)]
      BY <2>2, <2>3, <2>5, <2>6, <2>7
    <2> QED
      BY <1>1, <1>3, <2>1, <2>7, <2>8, <2>9, PayLamportsExact DEF amount, vault
  <1>4. CASE tradeDetail[t].token # None
    <2>1. /\ tokens' = SplTransfer(tokens, VaultPda(t), pmm, tradeDetail[t].token,
                                   net, tradeDetail[t].totalFee)
          /\ lamports' = CloseNonceCheck(t, lamports)
      BY <1>1, <1>4 DEF PayPmm
    <2>2. /\ tradeDetail[t].totalFee \in Nat \cup {None}
          /\ fee = IF tradeDetail[t].totalFee = None THEN 0 ELSE tradeDetail[t].totalFee
      BY <1>1, DetailFacts DEF Fee
    <2> HIDE DEF net, fee
    <2>3. net + (IF tradeDetail[t].totalFee = None THEN 0 ELSE tradeDetail[t].totalFee)
            = tradeDetail[t].amount
      BY <1>2, <2>2
    <2> QED
      BY <1>1, <1>2, <1>4, <2>1, <2>2, <2>3, PayTokensExact
  <1> QED
    BY <1>3, <1>4

(* claim likewise.                                                         *)
LEMMA ClaimVaults ==
  ASSUME TradeTypeOK, NEW t \in TradeIds, Claim(t)
  PROVE  AmountTaken(t)
  <1> DEFINE amount == tradeDetail[t].amount
             refund == tradeDetail[t].refund
             vault  == VaultPda(t)
  <1>1. Exists(t) /\ PayRefund(t)
    BY DEF Claim, AssertClaim, Open
  <1>2. /\ amount \in Nat /\ amount \in Amount /\ refund \in Recipient /\ refund \in Account
        /\ vault \in Account /\ lamports \in [Account -> Int] /\ vault # refund
    BY <1>1, DetailFacts, VaultPlace, LedgerFacts
  <1>3. CASE tradeDetail[t].token = None
    <2> DEFINE paid == Move(lamports, vault, refund, amount)
    <2>1. /\ lamports' = CloseNonceCheck(t, paid)
          /\ UNCHANGED tokens
      BY <1>1, <1>3 DEF PayRefund
    <2>2. \A u \in TradeIds \ {t} : VaultPda(u) \in Account \ {vault, refund}
      BY <1>2, VaultPlace, PdasApart
    <2>3. /\ paid \in [Account -> Int]
          /\ paid[vault] = lamports[vault] - amount
          /\ \A x \in Account \ {vault, refund} : paid[x] = lamports[x]
      <3> HIDE DEF vault, refund, amount
      <3> QED  BY <1>2, MoveFacts
    <2>4. \A u \in TradeIds \ {t} : paid[VaultPda(u)] = lamports[VaultPda(u)]
      <3> HIDE DEF paid, vault, refund
      <3> QED  BY <2>2, <2>3
    <2> HIDE DEF paid
    <2> QED
      BY <1>1, <1>3, <2>1, <2>3, <2>4, PayLamportsExact
  <1>4. CASE tradeDetail[t].token # None
    <2>1. /\ tokens' = SplTransfer(tokens, VaultPda(t), refund, tradeDetail[t].token, amount, None)
          /\ lamports' = CloseNonceCheck(t, lamports)
      BY <1>1, <1>4 DEF PayRefund
    <2>2. amount + (IF None = None THEN 0 ELSE None) = tradeDetail[t].amount
      BY <1>2
    <2> QED
      BY <1>1, <1>2, <1>4, <2>1, <2>2, PayTokensExact
  <1> QED
    BY <1>3, <1>4

(* close_finished_trade leaves the vaults of other trades as they are.     *)
LEMMA CloseVaults ==
  ASSUME TradeTypeOK, NEW signer \in Wallets, NEW t \in TradeIds, CloseFinishedTrade(signer, t)
  PROVE  \A u \in TradeIds \ {t} : VaultSame(u)
  <1> DEFINE user  == tradeDetail[t].user
             token == tradeDetail[t].token
             vault == VaultPda(t)
             ata   == Ata(vault, token)
             bal   == IF token = None THEN lamports ELSE Drain(lamports, ata, user)
             open  == Drain(bal, TradePda(t), user)
             mine  == {user, vault, TradePda(t), ata}
  <1>1. Exists(t)
    BY DEF CloseFinishedTrade, AssertCloseFinishedTrade, Finished
  <1>2. /\ user \in Wallets /\ user \in Account /\ user \in Owner /\ user \in Recipient
        /\ token \in Mints \cup {None}
        /\ vault \in Account /\ TradePda(t) \in Account /\ user # vault /\ user # TradePda(t)
        /\ lamports \in [Account -> Int] /\ tokens \in [TokenAccount -> Int]
    BY <1>1, DetailFacts, Addresses, KeysApart, LedgerFacts
  <1>3. token # None => /\ ata \in TokenAccount /\ ata \in Account /\ ata # user
                        /\ Ata(user, token) \in TokenAccount /\ ata # Ata(user, token)
    BY <1>2, Addresses, AtasApart, KeysApart
  <1>4. lamports' = Drain(open, vault, user)
    BY DEF CloseFinishedTrade, CloseTradeLamports
  <1>5. \A u \in TradeIds \ {t} :
          /\ VaultPda(u) \in Account \ mine
          /\ \A m \in Mints : Ata(VaultPda(u), m) \in TokenAccount \ {ata, Ata(user, token)}
    <2>1. \A u \in TradeIds \ {t} :
            /\ VaultPda(u) # vault /\ VaultPda(u) # TradePda(t) /\ VaultPda(u) # user
            /\ VaultPda(u) \in Account
      BY <1>2, PdasApart, VaultPlace
    <2>2. \A u \in TradeIds \ {t} : VaultPda(u) # ata
      BY DEF VaultPda, Ata
    <2>3. \A u \in TradeIds \ {t}, m \in Mints :
            Ata(VaultPda(u), m) \in TokenAccount \ {ata, Ata(user, token)}
      BY <2>1, VaultPlace, AtasApart
    <2> QED  BY <2>1, <2>2, <2>3
  <1>6. /\ token = None => UNCHANGED tokens
        /\ token # None => tokens' = Drain(tokens, ata, Ata(user, token))
    BY DEF CloseFinishedTrade, CloseVaultAta
  <1> HIDE DEF user, token, vault, ata
  <1>7. /\ bal \in [Account -> Int]
        /\ \A x \in Account \ mine : bal[x] = lamports[x]
    <2>1. CASE token = None
      BY <1>2, <2>1
    <2>2. CASE token # None
      BY <1>2, <1>3, <2>2, DrainFacts
    <2> QED  BY <2>1, <2>2
  <1> HIDE DEF bal
  <1>8. /\ open \in [Account -> Int]
        /\ \A x \in Account \ mine : open[x] = lamports[x]
    BY <1>2, <1>7, DrainFacts
  <1> HIDE DEF open
  <1>9. \A x \in Account \ mine : lamports'[x] = lamports[x]
    BY <1>2, <1>4, <1>8, DrainFacts
  <1>10. \A x \in TokenAccount \ {ata, Ata(user, token)} : tokens'[x] = tokens[x]
    <2>1. CASE token = None
      BY <1>6, <2>1
    <2>2. CASE token # None
      BY <1>2, <1>3, <1>6, <2>2, DrainFacts
    <2> QED  BY <2>1, <2>2
  <1> HIDE DEF mine
  <1> QED
    BY <1>5, <1>9, <1>10 DEF VaultSame

-----------------------------------------------------------------------------
\* The escrow that a trade is.
View(t) ==
    IF ~Exists(t) THEN None
    ELSE [phase |-> tradeDetail[t].status, due |-> tradeDetail[t].amount,
          deadline |-> tradeDetail[t].timeout, held |-> Custody(t)]

(* EscrowView is made of the views, before and after a step.               *)
LEMMA Views ==
    /\ EscrowView = [t \in TradeIds |-> View(t)]
    /\ EscrowView' = [t \in TradeIds |-> View(t)']
  BY DEF EscrowView, View

(* What a vault holds for its trade is an amount, and the escrow is there  *)
(* exactly when the trade is.                                              *)
LEMMA ViewFacts ==
  ASSUME TradeTypeOK, NEW t \in TradeIds
  PROVE  /\ Exists(t) => /\ Custody(t) \in Int
                         /\ tradeDetail[t].timeout \in Nat /\ tradeDetail[t].amount \in Nat
                         /\ tradeDetail[t].status \in TradeStatus
         /\ Exists(t) <=> View(t) # None
  <1>1. ASSUME Exists(t)
        PROVE  /\ Custody(t) \in Int
               /\ tradeDetail[t].timeout \in Nat /\ tradeDetail[t].amount \in Nat
               /\ tradeDetail[t].status \in TradeStatus
    <2>1. /\ tradeDetail[t] \in TradeDetail
          /\ lamports \in [Account -> Int] /\ tokens \in [TokenAccount -> Int]
          /\ Rent["vault"] \in Int
      BY <1>1, DetailFacts, LedgerFacts, Rents
    <2>2. tradeDetail[t].token \in Mints \cup {None}
      BY <2>1 DEF TradeDetail
    <2>3. Custody(t) \in Int
      BY <2>1, <2>2, VaultPlace DEF Custody
    <2> QED  BY <2>1, <2>3 DEF TradeDetail
  <1>2. Exists(t) => View(t) # None
    BY <1>1, NoneIsNoEscrow DEF View
  <1> QED
    BY <1>1, <1>2 DEF View

(* A step that changes neither a trade nor its vault changes no escrow.    *)
LEMMA SameView ==
  ASSUME NEW t \in TradeIds, VaultSame(t), TradeTypeOK, tradeDetail'[t] = tradeDetail[t]
  PROVE  View(t)' = View(t)
  <1>1. Exists(t)' <=> Exists(t)
    BY DEF Exists
  <1>2. ASSUME Exists(t)
        PROVE  Custody(t)' = Custody(t)
    <2>1. tradeDetail[t].token \in Mints \cup {None}
      BY <1>2, DetailFacts
    <2> QED  BY <2>1 DEF Custody, VaultSame
  <1> QED
    BY <1>1, <1>2 DEF View

(* Where no escrow changes, none does.                                     *)
LEMMA AllSame ==
  ASSUME TradeTypeOK, UNCHANGED <<now, tradeDetail>>, \A t \in TradeIds : VaultSame(t)
  PROVE  UNCHANGED <<now, EscrowView>>
  <1>1. \A t \in TradeIds : View(t)' = View(t)
    BY SameView
  <1> QED
    BY <1>1, Views

(* Where the escrow of t is the only one to change.                        *)
LEMMA OneChanges ==
  ASSUME TradeTypeOK, NEW t \in TradeIds,
         \A u \in TradeIds \ {t} : VaultSame(u) /\ tradeDetail'[u] = tradeDetail[u]
  PROVE  EscrowView' = [EscrowView EXCEPT ![t] = View(t)']
  <1>1. \A u \in TradeIds \ {t} : View(u)' = View(u)
    BY SameView
  <1> QED
    BY <1>1, Views

-----------------------------------------------------------------------------
(* deposit locks the amount.                                               *)
LEMMA DepositLocks ==
  ASSUME TradeTypeOK, TradeTypeOK', VaultSolvent', NEW t \in TradeIds, NEW timeout \in Timeouts,
         NEW mpc \in Mpcs, NEW refund \in Refunds, NEW e \in Ephemerals,
         Deposit(t, timeout, mpc, refund, e)
  PROVE  Escrowed!Lock(t)
  <1> DEFINE new == NewTrade(t, timeout, mpc, refund, e)
  <1>1. /\ ~Exists(t) /\ now <= timeout /\ Input[t].amount > 0 /\ UNCHANGED now
        /\ tradeDetail' = [tradeDetail EXCEPT ![t] = new]
        /\ new \in TradeDetail
    BY DepositStep DEF Deposit
  <1>2. DOMAIN tradeDetail = TradeIds
    BY DEF TradeTypeOK
  <1>3. /\ tradeDetail'[t] = new
        /\ \A u \in TradeIds \ {t} : tradeDetail'[u] = tradeDetail[u]
    BY <1>1, <1>2
  <1>4. /\ new.status = "Deposited" /\ new.amount = Input[t].amount /\ new.timeout = timeout
        /\ new # None
    BY <1>1, NoneIsNoTrade DEF NewTrade
  <1> HIDE DEF new
  <1>5. /\ Exists(t)' /\ Open(t)'
        /\ View(t)' = [phase |-> "Deposited", due |-> Input[t].amount,
                       deadline |-> timeout, held |-> Custody(t)']
    BY <1>3, <1>4 DEF Exists, Open, View
  <1>6. Custody(t)' >= Input[t].amount
    BY <1>3, <1>4, <1>5 DEF VaultSolvent
  <1>7. EscrowView' = [EscrowView EXCEPT ![t] = View(t)']
    BY <1>3, OneChanges, DepositVaults DEF Deposit
  <1>8. Custody(t)' \in Int
    <2>1. /\ lamports' \in [Account -> Int] /\ tokens' \in [TokenAccount -> Int]
          /\ Rent["vault"] \in Int /\ tradeDetail'[t].token = Input[t].token
          /\ Input[t].token \in Mints \cup {None}
      BY <1>1, <1>3, InputFacts, Rents DEF TradeTypeOK, ConfigTypeOK, LedgerTypeOK, NewTrade, new
    <2> QED  BY <2>1, VaultPlace DEF Custody
  <1>9. View(t)' # None
    BY <1>5, <1>8, NoneIsNoEscrow, InputFacts, TradeBounds DEF TradeStatus
  <1>10. EscrowView[t] = None
    BY <1>1, Views DEF View
  <1> DEFINE escrow == View(t)'
  <1>11. /\ escrow # None /\ escrow.phase = "Deposited" /\ escrow.due > 0
         /\ escrow.deadline >= now /\ escrow.held >= escrow.due
    BY <1>1, <1>5, <1>6, <1>9, InputFacts, TradeBounds DEF TradeTypeOK, ConfigTypeOK, LedgerTypeOK
  <1>12. /\ EscrowView' = [EscrowView EXCEPT ![t] = escrow]
         /\ EscrowView'[t] = escrow
    BY <1>7, Views
  <1> HIDE DEF escrow
  <1>13. EscrowView' = [EscrowView EXCEPT ![t] = EscrowView'[t]]
    BY <1>12
  <1> QED
    BY <1>1, <1>10, <1>11, <1>12, <1>13 DEF Escrowed!Lock, Escrowed!OnlyOf, Escrowed!Is

(* The amount leaves an open escrow, which takes its final phase.          *)
LEMMA AmountLeaves ==
  ASSUME TradeTypeOK, NEW t \in TradeIds, NEW phase, NEW new,
         Open(t), AmountTaken(t), UNCHANGED now,
         tradeDetail' = [tradeDetail EXCEPT ![t] = new],
         new # None, new.status = phase, new.token = tradeDetail[t].token,
         new.amount = tradeDetail[t].amount, new.timeout = tradeDetail[t].timeout
  PROVE  Escrowed!Leave(t, phase)
  <1>1. /\ DOMAIN tradeDetail = TradeIds /\ tradeDetail'[t] = new
        /\ \A u \in TradeIds \ {t} : tradeDetail'[u] = tradeDetail[u]
    BY DEF TradeTypeOK
  <1>2. /\ Exists(t) /\ Exists(t)' /\ tradeDetail[t].status = "Deposited"
        /\ tradeDetail[t].token \in Mints \cup {None} /\ tradeDetail[t].amount \in Nat
        /\ Custody(t) \in Int
    BY <1>1, DetailFacts, ViewFacts DEF Open, Exists
  <1>3. Custody(t)' = Custody(t) - tradeDetail[t].amount
    <2>1. /\ lamports \in [Account -> Int] /\ tokens \in [TokenAccount -> Int]
          /\ Rent["vault"] \in Int
      BY LedgerFacts, Rents
    <2>2. CASE tradeDetail[t].token = None
      <3>1. lamports[VaultPda(t)] \in Int
        BY <2>1, VaultPlace
      <3> QED  BY <1>1, <1>2, <2>1, <2>2, <3>1 DEF Custody, AmountTaken
    <2>3. CASE tradeDetail[t].token # None
      BY <1>1, <2>3 DEF Custody, AmountTaken
    <2> QED  BY <2>2, <2>3
  <1>4. View(t) = [phase |-> "Deposited", due |-> tradeDetail[t].amount,
                   deadline |-> tradeDetail[t].timeout, held |-> Custody(t)]
    BY <1>2 DEF View
  <1>5. View(t)' = [phase |-> phase, due |-> tradeDetail[t].amount,
                    deadline |-> tradeDetail[t].timeout,
                    held |-> Custody(t) - tradeDetail[t].amount]
    BY <1>1, <1>2, <1>3 DEF View
  <1>6. View(t) # None
    BY <1>2, ViewFacts
  <1>7. EscrowView' = [EscrowView EXCEPT ![t] = View(t)']
    BY <1>1, OneChanges DEF AmountTaken
  <1> DEFINE was == View(t)
             is  == View(t)'
  <1>8. /\ EscrowView \in [TradeIds -> {View(u) : u \in TradeIds}]
        /\ EscrowView[t] = was
        /\ EscrowView' = [EscrowView EXCEPT ![t] = is]
    BY <1>7, Views
  <1>9. is = [was EXCEPT !.phase = phase, !.held = @ - was.due]
    <2> DEFINE amount  == tradeDetail[t].amount
               timeout == tradeDetail[t].timeout
               held    == Custody(t)
    <2>1. was = [phase |-> "Deposited", due |-> amount, deadline |-> timeout, held |-> held]
      BY <1>4
    <2>2. is = [phase |-> phase, due |-> amount, deadline |-> timeout, held |-> held - amount]
      BY <1>5
    <2> DEFINE mid == [was EXCEPT !.phase = phase]
    <2> HIDE DEF was, is, amount, timeout, held
    <2>3. /\ was.held = held /\ was.due = amount
          /\ mid = [phase |-> phase, due |-> amount, deadline |-> timeout, held |-> held]
      BY <2>1
    <2> HIDE DEF mid
    <2>4. is = [mid EXCEPT !.held = held - amount]
      BY <2>2, <2>3
    <2> QED  BY <2>3, <2>4 DEF mid
  <1>10. was # None /\ was.phase = "Deposited"
    BY <1>4, <1>6
  <1> HIDE DEF was, is
  <1> DEFINE view == EscrowView
             seen == EscrowView'
  <1>11. /\ view[t] # None /\ view[t].phase = "Deposited"
         /\ seen = [view EXCEPT ![t].phase = phase, ![t].held = @ - view[t].due]
    <2>1. /\ view \in [TradeIds -> {View(u) : u \in TradeIds}]
          /\ view[t] = was /\ seen = [view EXCEPT ![t] = is]
      BY <1>8
    <2> HIDE DEF view, seen
    <2> QED  BY <1>9, <1>10, <2>1
  <1> QED
    BY <1>11 DEF Escrowed!Leave, Escrowed!Is

(* settlement pays, up to the timeout.                                     *)
LEMMA SettlementPays ==
  ASSUME TradeTypeOK, NEW t \in TradeIds, NEW pmm \in Pmms, Settlement(t, pmm)
  PROVE  Escrowed!Pay(t)
  <1> DEFINE new == Settled(t, pmm)
  <1>1. /\ Open(t) /\ UNCHANGED now /\ now <= tradeDetail[t].timeout
        /\ tradeDetail' = [tradeDetail EXCEPT ![t] = new]
        /\ new \in TradeDetail
    BY SettlementStep DEF Settlement, AssertSettlement
  <1>2. tradeDetail[t] \in TradeDetail
    BY <1>1, DetailFacts DEF Open
  <1>3. /\ new # None /\ new.status = "Settled" /\ new.token = tradeDetail[t].token
        /\ new.amount = tradeDetail[t].amount /\ new.timeout = tradeDetail[t].timeout
    BY <1>1, <1>2, NoneIsNoTrade DEF Settled, TradeDetail
  <1> HIDE DEF new
  <1>4. Escrowed!Leave(t, "Settled")
    BY <1>1, <1>3, SettlementVaults, AmountLeaves
  <1>5. EscrowView[t].deadline = tradeDetail[t].timeout
    BY <1>1, Views DEF View, Open
  <1> QED
    BY <1>1, <1>4, <1>5 DEF Escrowed!Pay

(* claim refunds, after the timeout.                                       *)
LEMMA ClaimRefunds ==
  ASSUME TradeTypeOK, NEW t \in TradeIds, Claim(t)
  PROVE  Escrowed!Refund(t)
  <1> DEFINE new == [tradeDetail[t] EXCEPT !.status = "Claimed"]
  <1>1. /\ Open(t) /\ UNCHANGED now /\ now > tradeDetail[t].timeout
        /\ tradeDetail' = [tradeDetail EXCEPT ![t] = new]
    BY ClaimStep DEF Claim, AssertClaim
  <1>2. tradeDetail[t] \in TradeDetail
    BY <1>1, DetailFacts DEF Open
  <1>3. /\ new # None /\ new.status = "Claimed" /\ new.token = tradeDetail[t].token
        /\ new.amount = tradeDetail[t].amount /\ new.timeout = tradeDetail[t].timeout
    BY <1>2, NoneIsNoTrade DEF TradeDetail, TradeStatus
  <1> HIDE DEF new
  <1>4. Escrowed!Leave(t, "Claimed")
    BY <1>1, <1>3, ClaimVaults, AmountLeaves
  <1>5. EscrowView[t].deadline = tradeDetail[t].timeout
    BY <1>1, Views DEF View, Open
  <1> QED
    BY <1>1, <1>4, <1>5 DEF Escrowed!Refund

(* set_total_fee is nothing to the escrow: it moves the amount not at all. *)
LEMMA SetTotalFeeInvisible ==
  ASSUME TradeTypeOK, NEW t \in TradeIds, NEW fee \in Fees, SetTotalFee(t, fee)
  PROVE  UNCHANGED <<now, EscrowView>>
  <1>1. /\ Exists(t) /\ tradeDetail' = [tradeDetail EXCEPT ![t].totalFee = fee]
        /\ UNCHANGED <<now, lamports, tokens>>
    BY DEF SetTotalFee, ledgerVars
  <1>2. DOMAIN tradeDetail = TradeIds /\ tradeDetail[t] \in TradeDetail /\ tradeDetail[t] # None
    BY <1>1 DEF TradeTypeOK, Exists
  <1>3. /\ tradeDetail'[t] = [tradeDetail[t] EXCEPT !.totalFee = fee]
        /\ \A u \in TradeIds \ {t} : tradeDetail'[u] = tradeDetail[u]
    BY <1>1, <1>2
  <1>4. [tradeDetail[t] EXCEPT !.totalFee = fee] \in TradeDetail
    BY <1>2, TradeBounds DEF TradeDetail
  <1>5. /\ tradeDetail'[t] # None
        /\ tradeDetail'[t].status = tradeDetail[t].status
        /\ tradeDetail'[t].token = tradeDetail[t].token
        /\ tradeDetail'[t].amount = tradeDetail[t].amount
        /\ tradeDetail'[t].timeout = tradeDetail[t].timeout
    BY <1>2, <1>3, <1>4, NoneIsNoTrade DEF TradeDetail
  <1>6. View(t)' = View(t)
    <2>1. Exists(t)'
      BY <1>5 DEF Exists
    <2>2. Custody(t)' = Custody(t)
      BY <1>1, <1>5 DEF Custody
    <2> QED  BY <1>1, <1>5, <2>1, <2>2 DEF View
  <1>7. \A u \in TradeIds \ {t} : View(u)' = View(u)
    BY <1>1, <1>3, SameView DEF VaultSame
  <1> QED
    BY <1>1, <1>6, <1>7, Views

(* close_finished_trade releases.                                          *)
LEMMA CloseReleases ==
  ASSUME TradeTypeOK, NEW signer \in Wallets, NEW t \in TradeIds, CloseFinishedTrade(signer, t)
  PROVE  Escrowed!Release(t)
  <1>1. /\ Finished(t) /\ UNCHANGED now
        /\ tradeDetail' = [tradeDetail EXCEPT ![t] = None]
        /\ DOMAIN tradeDetail = TradeIds
    BY CloseStep DEF CloseFinishedTrade, TradeTypeOK
  <1>2. /\ Exists(t) /\ EscrowView[t] # None
        /\ EscrowView[t].phase \in {"Settled", "Claimed"}
    <2>1. Exists(t) /\ tradeDetail[t].status \in TradeStatus /\ View(t) # None
      BY <1>1, ViewFacts DEF Finished
    <2>2. EscrowView[t] = View(t)
      BY Views
    <2> QED  BY <1>1, <2>1, <2>2 DEF Finished, TradeStatus, View
  <1>3. View(t)' = None
    BY <1>1 DEF View, Exists
  <1>4. EscrowView' = [EscrowView EXCEPT ![t] = View(t)']
    BY <1>1, OneChanges, CloseVaults
  <1> QED
    BY <1>1, <1>2, <1>3, <1>4 DEF Escrowed!Release, Escrowed!Is

(* What a stranger gives is added to an escrow, or to none.                *)
LEMMA GiftAdds ==
  ASSUME TradeTypeOK, NEW t \in TradeIds, NEW m \in Mints \cup {None}, NEW n \in Nat,
         Given(t, m, n), UNCHANGED <<now, tradeDetail>>
  PROVE  Escrowed!Add(t) \/ UNCHANGED <<now, EscrowView>>
  <1>1. EscrowView' = [EscrowView EXCEPT ![t] = View(t)']
    BY OneChanges DEF Given
  <1>2. EscrowView[t] = View(t) /\ EscrowView = [EscrowView EXCEPT ![t] = View(t)]
    BY Views
  <1>3. CASE View(t)' = View(t)
    BY <1>1, <1>2, <1>3
  <1>4. CASE View(t)' # View(t)
    <2>1. Exists(t) /\ Exists(t)'
      BY <1>4 DEF View, Exists
    <2>2. /\ Custody(t) \in Int /\ tradeDetail[t].token \in Mints \cup {None}
          /\ View(t) # None
      BY <2>1, DetailFacts, ViewFacts
    <2>3. View(t)' = [View(t) EXCEPT !.held = Custody(t)']
      BY <2>1 DEF View
    <2>4. View(t).held = Custody(t) /\ View(t)'.held = Custody(t)'
      BY <2>1 DEF View
    <2>5. \E k \in Nat : Custody(t)' = Custody(t) + k
      <3>1. /\ lamports \in [Account -> Int] /\ tokens \in [TokenAccount -> Int]
            /\ Rent["vault"] \in Int
        BY LedgerFacts, Rents
      <3>2. CASE tradeDetail[t].token = None
        <4>1. lamports[VaultPda(t)] \in Int
          BY <3>1, VaultPlace
        <4>2. Custody(t) = lamports[VaultPda(t)] - Rent["vault"]
          BY <3>2 DEF Custody
        <4>3. Custody(t)' = lamports'[VaultPda(t)] - Rent["vault"]
          BY <3>2 DEF Custody
        <4>4. lamports'[VaultPda(t)] = lamports[VaultPda(t)] + n \/ lamports' = lamports
          BY DEF Given
        <4> QED  BY <3>1, <4>1, <4>2, <4>3, <4>4
      <3>3. CASE tradeDetail[t].token # None
        <4> DEFINE vaultAta == Ata(VaultPda(t), tradeDetail[t].token)
        <4>1. tradeDetail[t].token \in Mints /\ tokens[vaultAta] \in Int
          BY <2>2, <3>1, <3>3, VaultPlace
        <4>2. Custody(t) = tokens[vaultAta] /\ Custody(t)' = tokens'[vaultAta]
          BY <3>3 DEF Custody
        <4>3. tokens'[vaultAta] = tokens[vaultAta] + n \/ tokens'[vaultAta] = tokens[vaultAta]
          <5>1. CASE UNCHANGED tokens
            BY <5>1
          <5>2. CASE \A k \in Mints : tokens'[Ata(VaultPda(t), k)]
                       = tokens[Ata(VaultPda(t), k)] + IF k = m THEN n ELSE 0
            BY <4>1, <5>2
          <5> QED  BY <5>1, <5>2 DEF Given
        <4> QED  BY <4>1, <4>2, <4>3
      <3> QED  BY <3>2, <3>3
    <2>6. Custody(t)' > Custody(t)
      <3>1. Custody(t)' # Custody(t)
        BY <1>4, <2>1 DEF View
      <3> QED  BY <2>2, <2>5, <3>1
    <2>7. View(t)' # None
      <3>1. Custody(t)' \in Int
        BY <2>2, <2>5
      <3>2. /\ tradeDetail[t].timeout \in Nat /\ tradeDetail[t].amount \in Nat
            /\ tradeDetail[t].status \in TradeStatus
        BY <2>1, ViewFacts
      <3> QED  BY <2>1, <3>1, <3>2, NoneIsNoEscrow DEF View
    <2> DEFINE was == View(t)
               is  == View(t)'
    <2>8. /\ was # None /\ is # None /\ is.held > was.held
          /\ is = [was EXCEPT !.held = is.held]
      BY <2>2, <2>3, <2>4, <2>6, <2>7
    <2>9. /\ EscrowView[t] = was /\ EscrowView' = [EscrowView EXCEPT ![t] = is]
          /\ EscrowView'[t] = is
      BY <1>1, <1>2, Views
    <2> HIDE DEF was, is
    <2>10. EscrowView' = [EscrowView EXCEPT ![t].held = EscrowView'[t].held]
      BY <2>8, <2>9
    <2> QED
      BY <2>8, <2>9, <2>10 DEF Escrowed!Add
  <1> QED
    BY <1>3, <1>4

(* The clock is the escrow's clock.                                        *)
LEMMA TickClocks ==
  ASSUME now' > now, UNCHANGED <<lamports, tokens, tradeDetail>>
  PROVE  Escrowed!Clock
  <1>1. \A t \in TradeIds : View(t)' = View(t)
    BY DEF View, Exists, Custody
  <1>2. EscrowView' = EscrowView
    BY <1>1, Views
  <1> QED
    BY <1>2 DEF Escrowed!Clock

-----------------------------------------------------------------------------
(* Every step of the trades is a step of the escrow or none.               *)
LEMMA EscrowStep ==
  ASSUME TradeTypeOK, TradeTypeOK', VaultSolvent', [AnyTradeNext]_vars
  PROVE  [Escrowed!Next]_<<now, EscrowView>>
  <1> DEFINE Goal == [Escrowed!Next]_<<now, EscrowView>>
  <1>1. ASSUME NEW t \in TradeIds,
               \/ Escrowed!Lock(t) \/ Escrowed!Pay(t) \/ Escrowed!Refund(t)
               \/ Escrowed!Add(t) \/ Escrowed!Release(t)
        PROVE  Goal
    BY <1>1 DEF Escrowed!Next
  <1>2. ASSUME UNCHANGED <<now, EscrowView>>
        PROVE  Goal
    BY <1>2
  <1>3. ASSUME AnyLedgerNext, UNCHANGED <<configVars, tradeVars>>
        PROVE  Goal
    <2>1. UNCHANGED tradeDetail /\ LedgerTypeOK
      BY <1>3 DEF tradeVars, TradeTypeOK, ConfigTypeOK
    <2>2. CASE now' > now /\ UNCHANGED <<lamports, tokens>>
      <3>1. Escrowed!Clock
        BY <2>1, <2>2, TickClocks
      <3> QED  BY <3>1 DEF Escrowed!Next
    <2>3. CASE UNCHANGED now /\ \A t \in TradeIds : VaultSame(t)
      BY <1>2, <2>1, <2>3, AllSame
    <2>4. CASE UNCHANGED now /\ \E t \in TradeIds, m \in Mints \cup {None}, n \in Nat : Given(t, m, n)
      <3>1. PICK t \in TradeIds : Escrowed!Add(t) \/ UNCHANGED <<now, EscrowView>>
        BY <2>1, <2>4, GiftAdds
      <3> HIDE DEF Goal
      <3> QED  BY <1>1, <1>2, <3>1
    <2> HIDE DEF Goal
    <2> QED
      BY <1>3, <2>1, <2>2, <2>3, <2>4, LedgerVaults
  <1>4. ASSUME \/ AnyNonceStep
               \/ ConfigNext /\ UNCHANGED tradeVars
               \/ UNCHANGED vars
        PROVE  Goal
    <2>1. UNCHANGED <<now, tradeDetail>> /\ \A t \in TradeIds : VaultSame(t)
      <3>1. CASE AnyNonceStep
        <4>1. UNCHANGED <<now, tradeDetail>>
          BY <3>1 DEF AnyNonceStep, CreateNonceAccount, WithdrawNonceAccount
        <4> QED  BY <3>1, <4>1, NonceVaults
      <3>2. CASE ConfigNext /\ UNCHANGED tradeVars
        <4>1. ConfigTypeOK /\ UNCHANGED tradeDetail
          BY <3>2 DEF tradeVars, TradeTypeOK
        <4>2. UNCHANGED now
          BY <3>2 DEF ConfigNext, InitConfig, AddOperator, RemoveOperator, AddOrUpdateWhitelist,
            RemoveWhitelist, AddFeeReceiver, RemoveFeeReceiver, SetCloseWaitDuration, ledgerVars
        <4> QED  BY <3>2, <4>1, <4>2, ConfigVaults
      <3>3. CASE UNCHANGED vars
        BY <3>3 DEF vars, ledgerVars, tradeVars, VaultSame
      <3> QED  BY <1>4, <3>1, <3>2, <3>3
    <2> QED  BY <1>2, <2>1, AllSame
  <1>5. ASSUME NEW t \in TradeIds, NEW timeout \in Timeouts, NEW mpc \in Mpcs,
               NEW refund \in Refunds, NEW e \in Ephemerals, Deposit(t, timeout, mpc, refund, e)
        PROVE  Goal
    BY <1>1, <1>5, DepositLocks
  <1>6. ASSUME NEW t \in TradeIds, NEW fee \in Fees, SetTotalFee(t, fee)
        PROVE  Goal
    BY <1>2, <1>6, SetTotalFeeInvisible
  <1>7. ASSUME NEW t \in TradeIds, NEW pmm \in Pmms, Settlement(t, pmm)
        PROVE  Goal
    BY <1>1, <1>7, SettlementPays
  <1>8. ASSUME NEW t \in TradeIds, Claim(t)
        PROVE  Goal
    BY <1>1, <1>8, ClaimRefunds
  <1>9. ASSUME NEW signer \in Wallets, NEW t \in TradeIds, CloseFinishedTrade(signer, t)
        PROVE  Goal
    BY <1>1, <1>9, CloseReleases
  <1> HIDE DEF Goal
  <1>10. Goal
    BY <1>3, <1>4, <1>5, <1>6, <1>7, <1>8, <1>9, Steps
  <1> QED
    BY <1>10 DEF Goal

(* Trades are escrows, for any number of trades, depositors, tokens and    *)
(* gifts: every behaviour of the trades, seen through EscrowView, is one   *)
(* that module Escrow allows.                                              *)
THEOREM TradeImplementsEscrow == TradeSpec => ImplementsEscrow
  <1>1. TradeInit => Escrowed!Init
    <2>1. TradeInit => \A t \in TradeIds : View(t) = None
      BY DEF TradeInit, View, Exists
    <2> QED  BY <2>1, Views DEF Escrowed!Init
  <1>2. TradeTypeOK /\ TradeTypeOK' /\ VaultSolvent' /\ [TradeNext]_vars
          => [Escrowed!Next]_<<now, EscrowView>>
    BY EscrowStep, TradeAny
  <1> QED
    BY <1>1, <1>2, TradeTypeCorrect, VaultAlwaysSolvent, PTL
    DEF TradeSpec, ImplementsEscrow, Escrowed!Spec
=============================================================================
