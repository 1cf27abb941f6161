-------------------------- MODULE TradeValue_proofs --------------------------
(***************************************************************************)
(* What becomes of the lamports and tokens of a trade.  First, every       *)
(* account of a trade keeps its rent for as long as it lives.  The         *)
(* argument: a step takes lamports only from wallets and from the accounts *)
(* it closes, with one exception, the vault that a native settlement or    *)
(* claim pays out of; that one is solvent, so what is left is its rent.    *)
(* Then, no step of a trade mints or burns, the closing of a trade pays    *)
(* all that is left of it to the depositor, and no deposit is ever stuck.  *)
(***************************************************************************)
EXTENDS Trade_proofs

\* A step takes lamports from nothing but wallets and the accounts in S.
KeptBut(S) == \A a \in Account \ (Wallets \cup S) : lamports'[a] >= lamports[a]

(* The accounts with rent are no wallets.                                  *)
LEMMA RentedAccounts ==
    /\ \A t \in TradeIds : {TradePda(t), VaultPda(t)} \subseteq Account \ Wallets
    /\ \A e \in Ephemerals : {NoncePda(e), e} \subseteq Account \ Wallets
    /\ TokenAccount \subseteq Account \ Wallets
  BY Addresses, KeysApart

(* Nor are they one another.                                               *)
LEMMA RentedApart ==
    /\ \A t, e : TradePda(t) \notin {NoncePda(e), VaultPda(e)} /\ VaultPda(t) # NoncePda(e)
    /\ \A t, o, m : /\ TradePda(t) # Ata(o, m) /\ VaultPda(t) # Ata(o, m)
                    /\ NoncePda(t) # Ata(o, m)
    /\ \A a \in TokenAccount : \A t : a \notin {TradePda(t), VaultPda(t), NoncePda(t)}
    /\ \A e \in Ephemerals : e \notin TokenAccount
    /\ \A e \in Ephemerals, t \in TradeIds : e \notin {TradePda(t), VaultPda(t)}
    /\ \A e, f \in Ephemerals : e # NoncePda(f)
  <1>1. \A t, o, m : /\ TradePda(t) # Ata(o, m) /\ VaultPda(t) # Ata(o, m)
                     /\ NoncePda(t) # Ata(o, m)
    BY DEF TradePda, VaultPda, NoncePda, Ata
  <1>2. \A a \in TokenAccount : \A t : a \notin {TradePda(t), VaultPda(t), NoncePda(t)}
    BY <1>1 DEF TokenAccount
  <1> QED
    BY <1>1, <1>2, PdasApart, KeysApart

(* A step that takes from S only, where every account that exists after it *)
(* was there and is not in S or is rent exempt now, keeps every rent.      *)
LEMMA RentFrame ==
  ASSUME TradeTypeOK, TradeTypeOK', TradeRentHeld, NEW S, KeptBut(S),
         tradeVault' = {t \in TradeIds : Exists(t)'},
         \A t \in tradeVault' :
            \/ t \in tradeVault /\ TradePda(t) \notin S
            \/ lamports'[TradePda(t)] >= Rent["trade"],
         \A t \in tradeVault' :
            \/ t \in tradeVault /\ VaultPda(t) \notin S
            \/ lamports'[VaultPda(t)] >= Rent["vault"],
         \A e \in nonceCheck' :
            \/ e \in nonceCheck /\ NoncePda(e) \notin S
            \/ lamports'[NoncePda(e)] >= Rent["nonce"],
         \A e \in nonceAccount' :
            \/ e \in nonceAccount /\ e \notin S
            \/ lamports'[e] >= Rent["durable"],
         \A a \in atas' : (a \in atas /\ a \notin S) \/ lamports'[a] >= Rent["ata"]
  PROVE  TradeRentHeld'
  <1>1. /\ \A a \in Account : lamports[a] \in Int /\ lamports'[a] \in Int
        /\ \A kind \in {"trade", "vault", "nonce", "durable", "ata"} : Rent[kind] \in Int
        /\ tradeVault' \subseteq TradeIds /\ nonceCheck' \subseteq Ephemerals
        /\ nonceAccount' \subseteq Ephemerals /\ atas' \subseteq TokenAccount
    BY Rents DEF TradeTypeOK, ConfigTypeOK, LedgerTypeOK
  <1>2. \A a \in Account \ Wallets : a \notin S => lamports'[a] >= lamports[a]
    BY DEF KeptBut
  <1>3. \A t \in tradeVault' : lamports'[TradePda(t)] >= Rent["trade"]
    BY <1>1, <1>2, RentedAccounts DEF TradeRentHeld
  <1>4. \A t \in tradeVault' : lamports'[VaultPda(t)] >= Rent["vault"]
    BY <1>1, <1>2, RentedAccounts DEF TradeRentHeld
  <1>5. \A e \in nonceCheck' : lamports'[NoncePda(e)] >= Rent["nonce"]
    BY <1>1, <1>2, RentedAccounts DEF TradeRentHeld
  <1>6. \A e \in nonceAccount' : lamports'[e] >= Rent["durable"]
    BY <1>1, <1>2, RentedAccounts DEF TradeRentHeld
  <1>7. \A a \in atas' : lamports'[a] >= Rent["ata"]
    BY <1>1, <1>2, RentedAccounts DEF TradeRentHeld
  <1> QED
    BY <1>3, <1>4, <1>5, <1>6, <1>7 DEF TradeRentHeld

(* The same for a step in which no account of the program or token account *)
(* comes or goes.                                                          *)
LEMMA RentFrameSame ==
  ASSUME TradeTypeOK, TradeTypeOK', TradeRentHeld, KeptBut({}),
         UNCHANGED <<tradeVault, nonceCheck, nonceAccount, atas>>,
         \A t \in TradeIds : Exists(t)' <=> Exists(t)
  PROVE  TradeRentHeld'
  <1>1. tradeVault' = {t \in TradeIds : Exists(t)'}
    BY DEF TradeRentHeld
  <1> QED
    BY <1>1, RentFrame

-----------------------------------------------------------------------------
(* Opening the accounts of a trade leaves all three rent exempt.           *)
LEMMA FundTradeRents ==
  ASSUME TradeTypeOK, NEW t \in TradeIds, NEW e \in Ephemerals
  PROVE  /\ FundTrade(t, e)[TradePda(t)] >= Rent["trade"]
         /\ FundTrade(t, e)[NoncePda(e)] >= Rent["nonce"]
  <1> DEFINE user   == Input[t].user
             detail == Fund(lamports, user, TradePda(t), Rent["trade"])
             nonce  == Fund(detail, user, NoncePda(e), Rent["nonce"])
             vault  == Fund(nonce, user, VaultPda(t), Rent["vault"])
  <1>1. /\ user \in Account /\ {TradePda(t), NoncePda(e), VaultPda(t)} \subseteq Account
        /\ user \notin {TradePda(t), NoncePda(e), VaultPda(t)}
        /\ lamports \in [Account -> Int]
        /\ Rent["trade"] \in Int /\ Rent["nonce"] \in Int
    BY InputFacts, Addresses, KeysApart, LedgerFacts, Rents
  <1>2. FundTrade(t, e) = vault
    BY DEF FundTrade
  <1> HIDE DEF user
  <1>3. detail \in [Account -> Int] /\ detail[TradePda(t)] >= Rent["trade"]
    BY <1>1, FundFacts, Rents
  <1> HIDE DEF detail
  <1>4. /\ nonce \in [Account -> Int] /\ nonce[NoncePda(e)] >= Rent["nonce"]
        /\ nonce[TradePda(t)] >= detail[TradePda(t)]
    BY <1>1, <1>3, FundFacts, Rents
  <1> HIDE DEF nonce
  <1>5. /\ vault \in [Account -> Int]
        /\ vault[TradePda(t)] >= nonce[TradePda(t)]
        /\ vault[NoncePda(e)] >= nonce[NoncePda(e)]
    BY <1>1, <1>4, FundFacts, Rents
  <1> HIDE DEF vault
  <1> QED
    BY <1>1, <1>2, <1>3, <1>4, <1>5

(* deposit pays the rent of what it opens out of the depositor's wallet.   *)
LEMMA DepositRent ==
  ASSUME TradeTypeOK, TradeTypeOK', TradeRentHeld, NEW t \in TradeIds,
         NEW timeout \in Timeouts, NEW mpc \in Mpcs, NEW refund \in Refunds,
         NEW e \in Ephemerals, Deposit(t, timeout, mpc, refund, e)
  PROVE  TradeRentHeld' /\ KeptBut({})
  <1> DEFINE user   == Input[t].user
             funded == FundTrade(t, e)
  <1>1. /\ user \in Wallets /\ user \in Account /\ Input[t].amount \in Nat
        /\ Input[t].amount \in Amount
        /\ VaultPda(t) \in Account \ Wallets /\ TradePda(t) \in Account \ Wallets
        /\ NoncePda(e) \in Account \ Wallets
        /\ lamports \in [Account -> Int]
        /\ \A kind \in {"trade", "vault", "nonce"} : Rent[kind] \in Int
    BY InputFacts, RentedAccounts, LedgerFacts, Rents
  <1>2. /\ funded \in [Account -> Int]
        /\ funded[TradePda(t)] >= Rent["trade"] /\ funded[NoncePda(e)] >= Rent["nonce"]
        /\ funded[VaultPda(t)] >= Rent["vault"]
        /\ \A x \in Account \ {user} : funded[x] >= lamports[x]
    BY FundTradeFacts, FundTradeRents
  <1>3. lamports' = funded \/ lamports' = Move(funded, user, VaultPda(t), Input[t].amount)
    BY DEF Deposit, DepositFunds
  <1> HIDE DEF funded
  <1>4. /\ lamports' \in [Account -> Int]
        /\ \A x \in Account \ {user} : lamports'[x] >= funded[x]
    <2>1. CASE lamports' = funded
      BY <1>2, <2>1
    <2>2. CASE lamports' = Move(funded, user, VaultPda(t), Input[t].amount)
      <3> DEFINE n == Input[t].amount
      <3>1. n \in Nat /\ n \in Amount /\ user # VaultPda(t)
        BY <1>1
      <3> HIDE DEF n, user
      <3>2. lamports' = Move(funded, user, VaultPda(t), n)
        BY <2>2 DEF n, user
      <3>3. funded \in [Account -> Int] /\ user \in Account /\ VaultPda(t) \in Account
        BY <1>1, <1>2
      <3>4. /\ Move(funded, user, VaultPda(t), n) \in [Account -> Int]
            /\ Move(funded, user, VaultPda(t), n)[VaultPda(t)] = funded[VaultPda(t)] + n
            /\ \A x \in Account \ {user, VaultPda(t)} :
                  Move(funded, user, VaultPda(t), n)[x] = funded[x]
        BY <3>1, <3>3, MoveFacts
      <3>5. funded[VaultPda(t)] \in Int
        BY <3>3
      <3> QED  BY <3>1, <3>2, <3>4, <3>5, <3>3
    <2> QED  BY <1>3, <2>1, <2>2
  <1>5. /\ KeptBut({})
        /\ lamports'[TradePda(t)] >= Rent["trade"] /\ lamports'[NoncePda(e)] >= Rent["nonce"]
        /\ lamports'[VaultPda(t)] >= Rent["vault"]
    BY <1>1, <1>2, <1>4 DEF KeptBut
  <1>6. /\ tradeVault' = tradeVault \cup {t} /\ nonceCheck' = nonceCheck \cup {e}
        /\ UNCHANGED <<nonceAccount, atas>>
    BY DEF Deposit
  <1>7. tradeVault' = {u \in TradeIds : Exists(u)'}
    <2>1. /\ tradeDetail' = [tradeDetail EXCEPT ![t] = NewTrade(t, timeout, mpc, refund, e)]
          /\ NewTrade(t, timeout, mpc, refund, e) # None
          /\ DOMAIN tradeDetail = TradeIds
      BY DepositStep, NoneIsNoTrade DEF TradeTypeOK
    <2> HIDE DEF NewTrade
    <2>2. \A u \in TradeIds : Exists(u)' <=> u = t \/ Exists(u)
      BY <2>1 DEF Exists
    <2> QED  BY <1>6, <2>2 DEF TradeRentHeld
  <1> QED
    BY <1>5, <1>6, <1>7, RentFrame

-----------------------------------------------------------------------------
(* A payout takes lamports from the vault it pays from, and closes the     *)
(* nonce check PDA; what the vault of a solvent trade keeps is its rent.   *)
LEMMA PayoutRent ==
  ASSUME TradeTypeOK, TradeTypeOK', TradeRentHeld, VaultSolvent, NEW t \in TradeIds,
         Open(t), AmountTaken(t), NEW S, S = {VaultPda(t), NoncePda(tradeDetail[t].eph)},
         KeptBut(S), tradeDetail[t].token # None => KeptBut({NoncePda(tradeDetail[t].eph)}),
         tradeDetail'[t] # None, \A u \in TradeIds \ {t} : tradeDetail'[u] = tradeDetail[u],
         nonceCheck' = nonceCheck \ {tradeDetail[t].eph},
         UNCHANGED <<tradeVault, nonceAccount, atas>>
  PROVE  TradeRentHeld'
  <1> DEFINE e == tradeDetail[t].eph
  <1>1. /\ Exists(t) /\ e \in Ephemerals /\ tradeDetail[t].amount \in Int
        /\ \A x \in Account : lamports[x] \in Int /\ lamports'[x] \in Int
        /\ Rent["vault"] \in Int
    BY DetailFacts, Rents DEF Open, TradeTypeOK, ConfigTypeOK, LedgerTypeOK
  <1>2. t \in tradeVault /\ lamports[VaultPda(t)] >= Rent["vault"]
    BY <1>1 DEF TradeRentHeld
  <1>3. lamports'[VaultPda(t)] >= Rent["vault"]
    <2>0. VaultPda(t) \in Account \ Wallets /\ VaultPda(t) # NoncePda(e)
      BY RentedAccounts, RentedApart
    <2>1. CASE tradeDetail[t].token = None
      <3>1. lamports[VaultPda(t)] - Rent["vault"] >= tradeDetail[t].amount
        BY <2>1 DEF VaultSolvent, Custody
      <3>2. lamports'[VaultPda(t)] = lamports[VaultPda(t)] - tradeDetail[t].amount
        BY <2>1 DEF AmountTaken
      <3>3. lamports[VaultPda(t)] \in Int
        BY <1>1, <2>0
      <3> QED  BY <1>1, <3>1, <3>2, <3>3
    <2>2. CASE tradeDetail[t].token # None
      BY <1>1, <1>2, <2>0, <2>2 DEF KeptBut
    <2> QED  BY <2>1, <2>2
  <1>4. tradeVault' = {u \in TradeIds : Exists(u)'}
    <2>1. \A u \in TradeIds : Exists(u)' <=> Exists(u)
      BY <1>1 DEF Exists
    <2> QED  BY <2>1 DEF TradeRentHeld
  <1>5. /\ \A u \in tradeVault' : TradePda(u) \notin S
        /\ \A u \in tradeVault' : u # t => VaultPda(u) \notin S
        /\ \A f \in nonceCheck' : NoncePda(f) \notin S
        /\ \A f \in nonceAccount' : f \notin S
        /\ \A a \in atas' : a \notin S
    <2>1. /\ nonceAccount' \subseteq Ephemerals /\ atas' \subseteq TokenAccount
          /\ e \notin nonceCheck'
      BY DEF TradeTypeOK, ConfigTypeOK, LedgerTypeOK
    <2> QED  BY <1>1, <2>1, RentedApart, PdasApart
  <1> QED
    BY <1>3, <1>4, <1>5, RentFrame

(* What lies outside the nonce check PDA survives its closing.             *)
LEMMA CloseNonceCheckKeeps ==
  ASSUME TradeTypeOK, NEW t \in TradeIds, Exists(t), NEW bal \in [Account -> Nat]
  PROVE  /\ CloseNonceCheck(t, bal) \in [Account -> Nat]
         /\ \A x \in Account \ {NoncePda(tradeDetail[t].eph)} : CloseNonceCheck(t, bal)[x] >= bal[x]
  <1> DEFINE nonce == NoncePda(tradeDetail[t].eph)
             user  == tradeDetail[t].user
  <1>1. nonce \in Account /\ user \in Account /\ nonce # user
    BY DetailFacts, Addresses, KeysApart
  <1>2. CloseNonceCheck(t, bal) = Drain(bal, nonce, user)
    BY DEF CloseNonceCheck
  <1> HIDE DEF nonce, user
  <1>3. /\ CloseNonceCheck(t, bal) \in [Account -> Nat]
        /\ \A x \in Account \ {nonce} : CloseNonceCheck(t, bal)[x] >= bal[x]
    BY <1>1, <1>2, DrainNat
  <1> QED
    BY <1>3 DEF nonce

(* Lamports paid out of the vault by hand come from nowhere else.          *)
LEMMA PaidByHand ==
  ASSUME TradeTypeOK, NEW t \in TradeIds, Exists(t), NEW paid \in [Account -> Nat],
         \A x \in Account \ {VaultPda(t)} : paid[x] >= lamports[x],
         lamports' = CloseNonceCheck(t, paid)
  PROVE  KeptBut({VaultPda(t), NoncePda(tradeDetail[t].eph)})
  <1> DEFINE nonce == NoncePda(tradeDetail[t].eph)
  <1>1. /\ lamports' \in [Account -> Nat]
        /\ \A x \in Account \ {nonce} : lamports'[x] >= paid[x]
    BY CloseNonceCheckKeeps
  <1>2. lamports \in [Account -> Nat]
    BY LedgerFacts
  <1> HIDE DEF nonce
  <1>3. ASSUME NEW x \in Account \ {VaultPda(t), nonce}
        PROVE  lamports'[x] >= lamports[x]
    BY <1>1, <1>2
  <1> QED
    BY <1>3 DEF KeptBut, nonce

(* settlement leaves the rent of every account but the one it closes.      *)
LEMMA SettlementRent ==
  ASSUME TradeTypeOK, TradeTypeOK', TradeRentHeld, VaultSolvent, NEW t \in TradeIds,
         NEW pmm \in Pmms, Settlement(t, pmm)
  PROVE  TradeRentHeld' /\ KeptBut({VaultPda(t), NoncePda(tradeDetail[t].eph)})
  <1> DEFINE S == {VaultPda(t), NoncePda(tradeDetail[t].eph)}
  <1>1. /\ Open(t) /\ Exists(t) /\ PayPmm(t, pmm) /\ Fee(t) <= tradeDetail[t].amount
        /\ pmm \in Account
    BY TradeBounds, Addresses DEF Settlement, AssertSettlement, Open
  <1>2. KeptBut(S)
    <2>1. CASE tradeDetail[t].token = None
      <3> DEFINE amount  == tradeDetail[t].amount
                 net     == SettlementAmount(t)
                 fee     == Fee(t)
                 vault   == VaultPda(t)
                 taken   == [lamports EXCEPT ![vault] = @ - amount]
                 settled == [taken EXCEPT ![pmm] = @ + net]
                 paid    == [settled EXCEPT ![ProtocolPda] = @ + fee]
      <3>1. lamports[vault] >= amount /\ lamports' = CloseNonceCheck(t, paid)
        BY <1>1, <2>1 DEF PayPmm
      <3>2. /\ amount \in Nat /\ net \in Nat /\ fee \in Nat
            /\ vault \in Account /\ ProtocolPda \in Account
            /\ lamports \in [Account -> Nat]
        BY <1>1, DetailFacts, FeeFacts, Addresses, LedgerFacts
      <3> HIDE DEF amount, net, fee, vault
      <3>3. /\ taken \in [Account -> Nat]
            /\ \A x \in Account \ {vault} : taken[x] = lamports[x]
        BY <3>1, <3>2
      <3> HIDE DEF taken
      <3>4. /\ settled \in [Account -> Nat]
            /\ \A x \in Account : settled[x] >= taken[x]
        BY <1>1, <3>2, <3>3
      <3> HIDE DEF settled
      <3>5. /\ paid \in [Account -> Nat]
            /\ \A x \in Account : paid[x] >= settled[x]
        BY <3>2, <3>4
      <3> HIDE DEF paid
      <3>6. \A x \in Account \ {vault} : paid[x] >= lamports[x]
        BY <3>2, <3>3, <3>4, <3>5
      <3> QED  BY <1>1, <3>1, <3>5, <3>6, PaidByHand DEF vault
    <2>2. CASE tradeDetail[t].token # None
      BY <1>1, <2>2, CloseNonceCheckKeeps, LedgerFacts DEF PayPmm, KeptBut
    <2> QED  BY <2>1, <2>2
  <1>3. tradeDetail[t].token # None => KeptBut({NoncePda(tradeDetail[t].eph)})
    BY <1>1, CloseNonceCheckKeeps, LedgerFacts DEF PayPmm, KeptBut
  <1>4. /\ tradeDetail' = [tradeDetail EXCEPT ![t] = Settled(t, pmm)]
        /\ Settled(t, pmm) # None /\ DOMAIN tradeDetail = TradeIds
    BY SettlementStep, NoneIsNoTrade DEF TradeTypeOK
  <1>5. /\ tradeDetail'[t] # None
        /\ \A u \in TradeIds \ {t} : tradeDetail'[u] = tradeDetail[u]
    BY <1>4
  <1>6. /\ nonceCheck' = nonceCheck \ {tradeDetail[t].eph}
        /\ UNCHANGED <<tradeVault, nonceAccount, atas>>
    BY DEF Settlement
  <1> QED
    BY <1>1, <1>2, <1>3, <1>5, <1>6, SettlementVaults, PayoutRent

(* claim likewise.                                                         *)
LEMMA ClaimRent ==
  ASSUME TradeTypeOK, TradeTypeOK', TradeRentHeld, VaultSolvent, NEW t \in TradeIds, Claim(t)
  PROVE  TradeRentHeld' /\ KeptBut({VaultPda(t), NoncePda(tradeDetail[t].eph)})
  <1> DEFINE S == {VaultPda(t), NoncePda(tradeDetail[t].eph)}
  <1>1. Open(t) /\ Exists(t) /\ PayRefund(t)
    BY DEF Claim, AssertClaim, Open
  <1>2. KeptBut(S)
    <2>1. CASE tradeDetail[t].token = None
      <3> DEFINE amount == tradeDetail[t].amount
                 refund == tradeDetail[t].refund
                 vault  == VaultPda(t)
                 paid   == Move(lamports, vault, refund, amount)
      <3>1. lamports[vault] >= amount /\ lamports' = CloseNonceCheck(t, paid)
        BY <1>1, <2>1 DEF PayRefund
      <3>2. /\ amount \in Nat
            /\ vault \in Account /\ refund \in Account
            /\ lamports \in [Account -> Nat]
        BY <1>1, DetailFacts, Addresses, LedgerFacts
      <3> HIDE DEF amount, refund, vault
      <3>3. /\ paid \in [Account -> Nat]
            /\ \A x \in Account \ {vault} : paid[x] >= lamports[x]
        BY <3>1, <3>2 DEF Move
      <3> HIDE DEF paid
      <3> QED  BY <1>1, <3>1, <3>3, PaidByHand DEF vault
    <2>2. CASE tradeDetail[t].token # None
      BY <1>1, <2>2, CloseNonceCheckKeeps, LedgerFacts DEF PayRefund, KeptBut
    <2> QED  BY <2>1, <2>2
  <1>3. tradeDetail[t].token # None => KeptBut({NoncePda(tradeDetail[t].eph)})
    BY <1>1, CloseNonceCheckKeeps, LedgerFacts DEF PayRefund, KeptBut
  <1>4. /\ tradeDetail' = [tradeDetail EXCEPT ![t] = [tradeDetail[t] EXCEPT !.status = "Claimed"]]
        /\ [tradeDetail[t] EXCEPT !.status = "Claimed"] \in TradeDetail
        /\ DOMAIN tradeDetail = TradeIds
    BY <1>1, ClaimStep, DetailFacts DEF TradeTypeOK, TradeDetail, TradeStatus
  <1>5. /\ tradeDetail'[t] # None
        /\ \A u \in TradeIds \ {t} : tradeDetail'[u] = tradeDetail[u]
    BY <1>4, NoneIsNoTrade
  <1>6. /\ nonceCheck' = nonceCheck \ {tradeDetail[t].eph}
        /\ UNCHANGED <<tradeVault, nonceAccount, atas>>
    BY DEF Claim
  <1> QED
    BY <1>1, <1>2, <1>3, <1>5, <1>6, ClaimVaults, PayoutRent

-----------------------------------------------------------------------------
(* close_finished_trade takes from the accounts it closes only.            *)
LEMMA CloseRent ==
  ASSUME TradeTypeOK, TradeTypeOK', TradeRentHeld, NEW signer \in Wallets, NEW t \in TradeIds,
         CloseFinishedTrade(signer, t)
  PROVE  /\ TradeRentHeld'
         /\ KeptBut({TradePda(t), VaultPda(t)} \cup TokenAccount)
  <1> DEFINE user  == tradeDetail[t].user
             token == tradeDetail[t].token
             vault == VaultPda(t)
             ata   == Ata(vault, token)
             gone  == IF token = None THEN {} ELSE {ata}
             bal   == IF token = None THEN lamports ELSE Drain(lamports, ata, user)
             open  == Drain(bal, TradePda(t), user)
             S     == {TradePda(t), vault} \cup gone
  <1>1. Exists(t)
    BY DEF CloseFinishedTrade, AssertCloseFinishedTrade, Finished
  <1>2. /\ user \in Wallets /\ user \in Account /\ user \in Owner
        /\ token \in Mints \cup {None}
        /\ vault \in Account /\ vault \in Owner /\ TradePda(t) \in Account
        /\ user # vault /\ user # TradePda(t)
        /\ lamports \in [Account -> Nat] /\ lamports' \in [Account -> Nat]
    BY <1>1, DetailFacts, Addresses, KeysApart DEF TradeTypeOK, ConfigTypeOK, LedgerTypeOK
  <1>3. token # None => /\ ata \in TokenAccount /\ ata \in Account /\ ata # user
    BY <1>2, Addresses, KeysApart
  <1>4. lamports' = Drain(open, vault, user)
    BY DEF CloseFinishedTrade, CloseTradeLamports
  <1>5. /\ atas' = atas \ gone
        /\ tradeVault' = tradeVault \ {t} /\ UNCHANGED <<nonceCheck, nonceAccount>>
    BY DEF CloseFinishedTrade, CloseVaultAta
  <1> HIDE DEF user, ata
  <1>6. KeptBut(S)
    <2>1. bal \in [Account -> Nat] /\ \A x \in Account \ gone : bal[x] >= lamports[x]
      <3>1. CASE token = None
        BY <1>2, <3>1
      <3>2. CASE token # None
        BY <1>2, <1>3, <3>2, DrainNat
      <3> QED  BY <3>1, <3>2
    <2> HIDE DEF bal, gone
    <2>2. /\ open \in [Account -> Nat]
          /\ \A x \in Account \ {TradePda(t)} : open[x] >= bal[x]
      BY <1>2, <2>1, DrainNat
    <2> HIDE DEF open, vault
    <2>3. \A x \in Account \ {vault} : lamports'[x] >= open[x]
      BY <1>2, <1>4, <2>2, DrainNat
    <2>4. ASSUME NEW x \in Account \ S
          PROVE  lamports'[x] >= lamports[x]
      BY <1>2, <2>1, <2>2, <2>3
    <2> QED  BY <2>4 DEF KeptBut
  <1>7. tradeVault' = {u \in TradeIds : Exists(u)'}
    <2>1. tradeDetail' = [tradeDetail EXCEPT ![t] = None] /\ DOMAIN tradeDetail = TradeIds
      BY CloseStep DEF TradeTypeOK
    <2>2. \A u \in TradeIds : Exists(u)' <=> u # t /\ Exists(u)
      BY <2>1 DEF Exists
    <2> QED  BY <1>5, <2>2 DEF TradeRentHeld
  <1>8. /\ \A u \in tradeVault' : TradePda(u) \notin S /\ VaultPda(u) \notin S
        /\ \A e \in nonceCheck' : NoncePda(e) \notin S
        /\ \A e \in nonceAccount' : e \notin S
        /\ \A a \in atas' : a \notin S
    <2>1. /\ nonceAccount' \subseteq Ephemerals /\ atas' \subseteq TokenAccount
          /\ tradeVault' \subseteq TradeIds
          /\ gone \subseteq TokenAccount /\ \A a \in atas' : a \notin gone
          /\ t \notin tradeVault'
      BY <1>3, <1>5 DEF TradeTypeOK, ConfigTypeOK, LedgerTypeOK
    <2> HIDE DEF gone
    <2>2. \A u : TradePda(u) \notin gone /\ VaultPda(u) \notin gone /\ NoncePda(u) \notin gone
      BY <2>1, RentedApart
    <2>3. \A u \in tradeVault' : TradePda(u) \notin S /\ VaultPda(u) \notin S
      BY <2>1, <2>2, RentedApart, PdasApart
    <2>4. \A e \in nonceCheck' : NoncePda(e) \notin S
      BY <2>2, RentedApart, PdasApart
    <2>5. \A e \in nonceAccount' : e \notin S
      BY <2>1, RentedApart
    <2>6. \A a \in atas' : a \notin S
      BY <2>1, RentedApart
    <2> QED  BY <2>3, <2>4, <2>5, <2>6
  <1>9. KeptBut({TradePda(t), vault} \cup TokenAccount)
    <2>1. gone \subseteq TokenAccount
      BY <1>3
    <2> HIDE DEF gone
    <2> QED  BY <1>6, <2>1 DEF KeptBut
  <1> HIDE DEF S
  <1> QED
    BY <1>5, <1>6, <1>7, <1>8, <1>9, RentFrame

-----------------------------------------------------------------------------
(* The configuration's instructions close whitelist entries and fee        *)
(* receivers only.                                                         *)
LEMMA ConfigKeeps ==
  ASSUME ConfigTypeOK, ConfigNext
  PROVE  KeptBut({WhitelistPda(m) : m \in Mints} \cup {ReceiverPda(k) : k \in Wallets})
  <1> DEFINE S == {WhitelistPda(m) : m \in Mints} \cup {ReceiverPda(k) : k \in Wallets}
  <1>0. /\ LedgerTypeOK /\ lamports \in [Account -> Nat] /\ lamports \in [Account -> Int]
    BY DEF ConfigTypeOK, LedgerTypeOK
  <1>1. ASSUME UNCHANGED lamports
        PROVE  KeptBut(S)
    BY <1>0, <1>1 DEF KeptBut
  <1>2. ASSUME NEW signer \in Wallets, Paid(signer)
        PROVE  KeptBut(S)
    BY <1>2 DEF Paid, KeptBut
  <1>3. ASSUME NEW signer \in Wallets, NEW admin \in Admins \cup {None}, InitConfig(signer, admin)
        PROVE  KeptBut(S)
    <2>1. CASE config = None
      <3>1. Paid(signer)
        BY <1>0, <1>3, <2>1, InitPaid DEF InitConfig, Paid
      <3> QED  BY <1>2, <3>1
    <2>2. CASE config # None
      BY <1>1, <1>3, <2>2 DEF InitConfig
    <2> QED  BY <2>1, <2>2
  <1>4. ASSUME NEW operator \in Wallets, NEW m \in Mints, NEW amount \in MinAmounts,
               AddOrUpdateWhitelist(operator, m, amount)
        PROVE  KeptBut(S)
    <2>1. /\ operator \in Account /\ WhitelistPda(m) \in Account /\ operator # WhitelistPda(m)
      BY Addresses, KeysApart
    <2>2. Paid(operator) \/ UNCHANGED lamports
      BY <1>0, <1>4, <2>1, FundFacts, Rents DEF AddOrUpdateWhitelist, Paid
    <2> QED  BY <1>1, <1>2, <2>2
  <1>5. ASSUME NEW operator \in Wallets, NEW token \in Mints, NEW m \in Mints,
               RemoveWhitelist(operator, token, m)
        PROVE  KeptBut(S)
    <2>1. /\ operator \in Account /\ WhitelistPda(m) \in Account /\ operator # WhitelistPda(m)
          /\ WhitelistPda(m) \in S
      BY Addresses, KeysApart
    <2> QED  BY <1>0, <1>5, <2>1, DrainNat DEF RemoveWhitelist, KeptBut
  <1>6. ASSUME NEW signer \in Wallets, NEW receiver \in Wallets, AddFeeReceiver(signer, receiver)
        PROVE  KeptBut(S)
    <2>1. /\ signer \in Account /\ ReceiverPda(receiver) \in Account
          /\ signer # ReceiverPda(receiver)
      BY Addresses, KeysApart
    <2>2. Paid(signer)
      BY <1>0, <1>6, <2>1, FundFacts, Rents DEF AddFeeReceiver, Paid
    <2> QED  BY <1>2, <2>2
  <1>7. ASSUME NEW signer \in Wallets, NEW receiver \in Wallets,
               RemoveFeeReceiver(signer, receiver)
        PROVE  KeptBut(S)
    <2>1. /\ signer \in Account /\ ReceiverPda(receiver) \in Account
          /\ signer # ReceiverPda(receiver) /\ ReceiverPda(receiver) \in S
      BY Addresses, KeysApart
    <2> QED  BY <1>0, <1>7, <2>1, DrainNat DEF RemoveFeeReceiver, KeptBut
  <1>8. ASSUME NEW signer \in Wallets, NEW operator \in Wallets,
               AddOperator(signer, operator) \/ RemoveOperator(signer, operator)
        PROVE  KeptBut(S)
    BY <1>1, <1>8 DEF AddOperator, RemoveOperator, ledgerVars
  <1>9. ASSUME NEW operator \in Wallets, NEW trade \in Durations \cup {None},
               NEW payment \in Durations \cup {None},
               SetCloseWaitDuration(operator, trade, payment)
        PROVE  KeptBut(S)
    BY <1>1, <1>9 DEF SetCloseWaitDuration, ledgerVars
  <1> QED
    <2> HIDE DEF S
    <2>1. KeptBut(S)
      BY <1>3, <1>4, <1>5, <1>6, <1>7, <1>8, <1>9 DEF ConfigNext
    <2> QED  BY <2>1 DEF S

(* The steps that are no instruction on a trade keep every rent.           *)
LEMMA OtherRent ==
  ASSUME TradeTypeOK, TradeTypeOK', TradeRentHeld,
         \/ AnyNonceStep
         \/ ConfigNext /\ UNCHANGED tradeVars
         \/ AnyLedgerNext /\ UNCHANGED <<configVars, tradeVars>>
         \/ UNCHANGED vars
  PROVE  TradeRentHeld'
  <1>0. /\ lamports \in [Account -> Nat] /\ lamports \in [Account -> Int]
        /\ lamports' \in [Account -> Int]
        /\ Rent["durable"] \in Int /\ Rent["ata"] \in Int
        /\ atas \subseteq TokenAccount /\ nonceAccount \subseteq Ephemerals
        /\ tradeVault \subseteq TradeIds /\ nonceCheck \subseteq Ephemerals
    BY LedgerFacts, Rents DEF TradeTypeOK, ConfigTypeOK, LedgerTypeOK
  <1>1. UNCHANGED tradeDetail => tradeVault = {t \in TradeIds : Exists(t)'}
    BY DEF TradeRentHeld, Exists
  <1>2. ASSUME NEW payer \in Wallets, NEW e \in Ephemerals, CreateNonceAccount(payer, e)
        PROVE  TradeRentHeld'
    <2>1. payer \in Wallets /\ payer \in Account /\ e \in Account /\ payer # e
      BY LedgerAssumption, Addresses, KeysApart
    <2>2. KeptBut({}) /\ lamports'[e] >= Rent["durable"]
      BY <1>0, <1>2, <2>1, FundFacts, Rents DEF CreateNonceAccount, KeptBut
    <2>3. /\ UNCHANGED <<atas, tradeDetail, tradeVault, nonceCheck>>
          /\ nonceAccount' = nonceAccount \cup {e}
      BY <1>2 DEF CreateNonceAccount
    <2> QED  BY <1>1, <2>2, <2>3, RentFrame
  <1>3. ASSUME NEW to \in Wallets, NEW e \in Ephemerals, WithdrawNonceAccount(to, e)
        PROVE  TradeRentHeld'
    <2>1. to \in Wallets /\ to \in Account /\ e \in Account /\ to # e
      BY LedgerAssumption, Addresses, KeysApart
    <2>2. KeptBut({e})
      BY <1>0, <1>3, <2>1, DrainNat DEF WithdrawNonceAccount, KeptBut
    <2>3. /\ UNCHANGED <<atas, tradeDetail, tradeVault, nonceCheck>>
          /\ nonceAccount' = nonceAccount \ {e}
      BY <1>3 DEF WithdrawNonceAccount
    <2>4. /\ \A t \in tradeVault : TradePda(t) # e /\ VaultPda(t) # e
          /\ \A f \in nonceCheck : NoncePda(f) # e
          /\ \A a \in atas : a # e
      BY <1>0, RentedApart
    <2> QED  BY <1>1, <2>2, <2>3, <2>4, RentFrame
  <1>4. ASSUME ConfigNext, UNCHANGED tradeVars
        PROVE  TradeRentHeld'
    <2> DEFINE S == {WhitelistPda(m) : m \in Mints} \cup {ReceiverPda(k) : k \in Wallets}
    <2>1. KeptBut(S)
      BY <1>4, ConfigKeeps DEF TradeTypeOK
    <2>2. UNCHANGED <<atas, tradeDetail, tradeVault, nonceCheck, nonceAccount>>
      BY <1>4 DEF tradeVars, ConfigNext, InitConfig, AddOperator, RemoveOperator,
        AddOrUpdateWhitelist, RemoveWhitelist, AddFeeReceiver, RemoveFeeReceiver,
        SetCloseWaitDuration, ledgerVars
    <2>3. \A s \in S : /\ \A t : s \notin {TradePda(t), VaultPda(t), NoncePda(t)}
                       /\ \A o, m : s # Ata(o, m)
      BY DEF WhitelistPda, ReceiverPda, TradePda, VaultPda, NoncePda, Ata
    <2>4. \A e \in Ephemerals : e \notin S
      BY KeysApart
    <2>5. \A a \in atas : a \notin S
      BY <1>0, <2>3 DEF TokenAccount
    <2> HIDE DEF S
    <2> QED  BY <1>0, <1>1, <2>1, <2>2, <2>3, <2>4, <2>5, RentFrame
  <1>5. ASSUME UNCHANGED <<lamports, atas, tradeVars>>
        PROVE  TradeRentHeld'
    BY <1>5 DEF TradeRentHeld, Exists, tradeVars
  <1>6. ASSUME AnyLedgerNext, UNCHANGED tradeVars
        PROVE  TradeRentHeld'
    <2>0. UNCHANGED <<tradeDetail, tradeVault, nonceCheck, nonceAccount>>
      BY <1>6 DEF tradeVars
    <2>1. ASSUME NEW payer \in Wallets, NEW o \in Owner, NEW m \in Mints, CreateAta(payer, o, m)
          PROVE  TradeRentHeld'
      <3>1. /\ payer \in Wallets /\ payer \in Account
            /\ Ata(o, m) \in Account /\ payer # Ata(o, m)
        BY LedgerAssumption, Addresses, KeysApart
      <3>2. KeptBut({}) /\ lamports'[Ata(o, m)] >= Rent["ata"]
        BY <1>0, <2>1, <3>1, FundFacts, Rents DEF CreateAta, KeptBut
      <3>3. atas' = atas \cup {Ata(o, m)}
        BY <2>1 DEF CreateAta
      <3> QED  BY <1>1, <2>0, <3>2, <3>3, RentFrame
    <2>2. ASSUME NEW o \in Wallets, NEW m \in Mints, CloseAta(o, m)
          PROVE  TradeRentHeld'
      <3>1. /\ o \in Account /\ Ata(o, m) \in Account /\ Ata(o, m) \in TokenAccount
            /\ o # Ata(o, m)
        BY Addresses, KeysApart
      <3>2. KeptBut({Ata(o, m)})
        BY <1>0, <2>2, <3>1, DrainNat DEF CloseAta, KeptBut
      <3>3. atas' = atas \ {Ata(o, m)}
        BY <2>2 DEF CloseAta
      <3>4. /\ \A t : Ata(o, m) \notin {TradePda(t), VaultPda(t), NoncePda(t)}
            /\ \A e \in Ephemerals : e # Ata(o, m)
        BY <3>1, RentedApart
      <3> QED  BY <1>0, <1>1, <2>0, <3>2, <3>3, <3>4, RentFrame
    <2>3. ASSUME NEW giver \in Givers, NEW a \in GiftTargets, NEW n \in Gifts,
                 GiveLamports(giver, a, n)
          PROVE  TradeRentHeld'
      <3>1. /\ giver \in Wallets /\ giver \in Account /\ a \in Account /\ n \in Nat
            /\ n \in Amount
        BY LedgerAssumption, Addresses DEF Amount
      <3>2. /\ lamports' = Move(lamports, giver, a, n)
            /\ UNCHANGED atas
        BY <2>3 DEF GiveLamports
      <3>3. \A x \in Account \ {giver} : lamports'[x] >= lamports[x]
        BY <1>0, <3>1, <3>2 DEF Move
      <3>4. KeptBut({})
        BY <3>1, <3>3 DEF KeptBut
      <3> QED  BY <2>0, <3>2, <3>4, RentFrameSame DEF Exists
    <2>4. CASE Tick
      BY <1>5, <1>6, <2>4 DEF Tick
    <2>5. ASSUME NEW giver \in Givers, NEW o \in GiftTargets \cap Owner, NEW m \in Mints,
                 NEW n \in Gifts, GiveTokens(giver, o, m, n)
          PROVE  TradeRentHeld'
      BY <1>5, <1>6, <2>5 DEF GiveTokens
    <2> QED
      BY <1>6, <2>1, <2>2, <2>3, <2>4, <2>5, LedgerAssumption DEF AnyLedgerNext, LedgerNext
  <1>7. ASSUME UNCHANGED vars
        PROVE  TradeRentHeld'
    BY <1>5, <1>7 DEF vars, ledgerVars
  <1> QED
    BY <1>2, <1>3, <1>4, <1>6, <1>7 DEF AnyNonceStep

(* Every step of a trade keeps the rent of the trades' accounts.           *)
LEMMA TradeRentStep ==
  ASSUME TradeTypeOK, TradeTypeOK', VaultSolvent, TradeRentHeld, [AnyTradeNext]_vars
  PROVE  TradeRentHeld'
  <1>1. ASSUME NEW t \in TradeIds, NEW fee \in Fees, SetTotalFee(t, fee)
        PROVE  TradeRentHeld'
    <2>1. /\ Exists(t) /\ tradeDetail' = [tradeDetail EXCEPT ![t].totalFee = fee]
          /\ tradeDetail' \in [TradeIds -> TradeDetail \cup {None}]
          /\ DOMAIN tradeDetail = TradeIds
      BY <1>1, SetTotalFeeStep DEF TradeTypeOK
    <2>2. [tradeDetail[t] EXCEPT !.totalFee = fee] \in TradeDetail
      BY <2>1, DetailFacts, TradeBounds DEF TradeDetail
    <2>3. \A u \in TradeIds : Exists(u)' <=> Exists(u)
      BY <2>1, <2>2, NoneIsNoTrade DEF Exists
    <2>4. UNCHANGED <<lamports, atas, tradeVault, nonceCheck, nonceAccount>>
      BY <1>1 DEF SetTotalFee, ledgerVars
    <2>5. KeptBut({})
      BY <2>4, LedgerFacts DEF KeptBut
    <2> QED  BY <2>3, <2>4, <2>5, RentFrameSame
  <1> QED
    BY <1>1, DepositRent, SettlementRent, ClaimRent, CloseRent, OtherRent, Steps

-----------------------------------------------------------------------------
(* Every account of a trade, every durable nonce account and every token   *)
(* account holds its rent for as long as it lives, whatever was sent to    *)
(* its address before and whatever settlement, claim and close pay out.    *)
THEOREM TradeRentAlwaysHeld == TradeSpec => []TradeRentHeld
  <1>1. TradeInit => TradeRentHeld
    BY StartIsSetUp DEF TradeInit, DeploymentInit, LedgerInit, TradeRentHeld, Exists
  <1>2. TradeTypeOK /\ TradeTypeOK' /\ VaultSolvent /\ TradeRentHeld /\ [TradeNext]_vars
          => TradeRentHeld'
    BY TradeRentStep, TradeAny
  <1> QED
    BY <1>1, <1>2, TradeTypeCorrect, VaultAlwaysSolvent, PTL DEF TradeSpec

-----------------------------------------------------------------------------
(* deposit moves lamports from the depositor to the accounts it opens.     *)
LEMMA DepositAddsUp ==
  ASSUME IsFiniteSet(Account), TradeTypeOK, NEW t \in TradeIds, NEW e \in Ephemerals,
         DepositFunds(t, e)
  PROVE  LamportsAddUp /\ TokensAddUp
  <1> DEFINE user   == Input[t].user
             detail == Fund(lamports, user, TradePda(t), Rent["trade"])
             nonce  == Fund(detail, user, NoncePda(e), Rent["nonce"])
             vault  == Fund(nonce, user, VaultPda(t), Rent["vault"])
  <1>0. LedgerTypeOK /\ lamports \in [Account -> Int]
    BY LedgerFacts
  <1>1. /\ user \in Account
        /\ TradePda(t) \in Account /\ NoncePda(e) \in Account /\ VaultPda(t) \in Account
        /\ Rent["trade"] \in Int /\ Rent["nonce"] \in Int /\ Rent["vault"] \in Int
        /\ Input[t].amount \in Int /\ Account \in SUBSET Account
    BY InputFacts, Addresses, Rents
  <1>2. FundTrade(t, e) = vault
    BY DEF FundTrade
  <1> HIDE DEF user
  <1>3. SameSum(Account, Account, lamports, detail)
    BY <1>0, <1>1, FundSum
  <1> HIDE DEF detail
  <1>4. SameSum(Account, Account, detail, nonce)
    <2>1. detail \in [Account -> Int]
      BY <1>3 DEF SameSum
    <2> QED  BY <1>1, <2>1, FundSum
  <1> HIDE DEF nonce
  <1>5. SameSum(Account, Account, nonce, vault)
    <2>1. nonce \in [Account -> Int]
      BY <1>4 DEF SameSum
    <2> QED  BY <1>1, <2>1, FundSum
  <1> HIDE DEF vault
  <1>6. SameSum(Account, Account, lamports, vault)
    BY <1>3, <1>4, <1>5, SameSumTwice
  <1>7. CASE Input[t].token = None
    <2>1. lamports' = Move(vault, user, VaultPda(t), Input[t].amount) /\ UNCHANGED tokens
      BY <1>2, <1>7 DEF DepositFunds, user
    <2>2. vault \in [Account -> Int]
      BY <1>6 DEF SameSum
    <2>3. SameSum(Account, Account, vault, lamports')
      BY <1>1, <2>1, <2>2, MoveSum
    <2> QED  BY <1>0, <1>6, <2>1, <2>3, SameSumTwice, NothingMoved DEF LamportsAddUp
  <1>8. CASE Input[t].token # None
    <2>1. /\ lamports' = vault
          /\ tokens' = SplTransfer(tokens, user, VaultPda(t), Input[t].token, Input[t].amount, None)
      BY <1>2, <1>8 DEF DepositFunds, user
    <2>2. user \in Owner /\ VaultPda(t) \in Owner /\ Input[t].token \in Mints
      BY <1>8, InputFacts, Addresses DEF user
    <2> QED  BY <1>0, <1>1, <1>6, <2>1, <2>2, TransferAddsUp DEF LamportsAddUp
  <1> QED
    BY <1>7, <1>8

(* Closing the nonce check is the last move of settlement and claim.       *)
LEMMA NonceClosedAddsUp ==
  ASSUME IsFiniteSet(Account), TradeTypeOK, NEW t \in TradeIds, Exists(t),
         NEW bal, SameSum(Account, Account, lamports, bal), lamports' = CloseNonceCheck(t, bal)
  PROVE  LamportsAddUp
  <1> DEFINE nonce == NoncePda(tradeDetail[t].eph)
             user  == tradeDetail[t].user
  <1>1. /\ nonce \in Account /\ user \in Account /\ bal \in [Account -> Int]
        /\ Account \in SUBSET Account
    BY DetailFacts, Addresses DEF SameSum
  <1>2. lamports' = Drain(bal, nonce, user)
    BY DEF CloseNonceCheck
  <1> HIDE DEF nonce, user
  <1>3. SameSum(Account, Account, bal, lamports')
    BY <1>1, <1>2, DrainSum
  <1> QED
    BY <1>3, SameSumTwice DEF LamportsAddUp

(* settlement splits the amount in two, the payout and the fee.            *)
LEMMA SettlementAddsUp ==
  ASSUME IsFiniteSet(Account), TradeTypeOK, NEW t \in TradeIds, NEW pmm \in Pmms,
         Settlement(t, pmm)
  PROVE  LamportsAddUp /\ TokensAddUp
  <1> DEFINE amount  == tradeDetail[t].amount
             net     == SettlementAmount(t)
             fee     == Fee(t)
             vault   == VaultPda(t)
             taken   == [lamports EXCEPT ![vault] = @ - amount]
             settled == [taken EXCEPT ![pmm] = @ + net]
             paid    == [settled EXCEPT ![ProtocolPda] = @ + fee]
             Sum(f)  == SumFunctionOnSet(f, Account)
  <1>1. /\ Exists(t) /\ PayPmm(t, pmm) /\ fee <= amount
        /\ pmm \in Account /\ pmm \in Owner /\ LedgerTypeOK
    BY TradeBounds, Addresses, LedgerFacts DEF Settlement, AssertSettlement, Open
  <1>2. /\ amount \in Int /\ net \in Int /\ fee \in Int /\ net + fee = amount
        /\ vault \in Account /\ ProtocolPda \in Account /\ vault \in Owner
        /\ lamports \in [Account -> Int] /\ Account \in SUBSET Account
    BY <1>1, DetailFacts, FeeFacts, Addresses, LedgerFacts DEF SettlementAmount
  <1>3. CASE tradeDetail[t].token = None
    <2>1. lamports' = CloseNonceCheck(t, paid) /\ UNCHANGED tokens
      BY <1>1, <1>3 DEF PayPmm
    <2> HIDE DEF amount, net, fee, vault
    <2>2. /\ taken \in [Account -> Int] /\ taken[vault] - lamports[vault] = 0 - amount
          /\ \A a \in Account \ {vault} : taken[a] = lamports[a]
      BY <1>2
    <2> HIDE DEF taken
    <2>3. Sum(lamports) \in Int /\ Sum(taken) = Sum(lamports) + (0 - amount)
      BY <1>2, <2>2, SumUpdate
    <2>4. /\ settled \in [Account -> Int] /\ settled[pmm] - taken[pmm] = net
          /\ \A a \in Account \ {pmm} : settled[a] = taken[a]
      BY <1>1, <1>2, <2>2
    <2> HIDE DEF settled
    <2>5. Sum(settled) = Sum(taken) + net
      BY <1>1, <1>2, <2>2, <2>4, SumUpdate
    <2>6. /\ paid \in [Account -> Int] /\ paid[ProtocolPda] - settled[ProtocolPda] = fee
          /\ \A a \in Account \ {ProtocolPda} : paid[a] = settled[a]
      BY <1>2, <2>4
    <2> HIDE DEF paid
    <2>7. Sum(paid) = Sum(settled) + fee
      BY <1>2, <2>4, <2>6, SumUpdate
    <2>8. Sum(paid) = Sum(lamports)
      <3> HIDE DEF Sum
      <3> QED  BY <1>2, <2>3, <2>5, <2>7
    <2>9. SameSum(Account, Account, lamports, paid)
      BY <2>6, <2>8 DEF SameSum
    <2> QED  BY <1>1, <2>1, <2>9, NonceClosedAddsUp, NothingMoved
  <1>4. CASE tradeDetail[t].token # None
    <2> DEFINE token == tradeDetail[t].token
               total == tradeDetail[t].totalFee
    <2>1. /\ tokens' = SplTransfer(tokens, vault, pmm, token, net, total)
          /\ lamports' = CloseNonceCheck(t, lamports)
      BY <1>1, <1>4 DEF PayPmm
    <2>2. token \in Mints /\ (total # None => total \in Int)
      BY <1>1, <1>4, DetailFacts
    <2>3. SameSum(Account, Account, lamports, lamports)
      BY <1>2 DEF SameSum
    <2> HIDE DEF vault, net, token, total
    <2>4. TokensAddUp
      BY <1>1, <1>2, <2>1, <2>2, TransferAddsUp
    <2> QED  BY <1>1, <2>1, <2>3, <2>4, NonceClosedAddsUp
  <1> QED
    BY <1>3, <1>4

(* claim refunds what was deposited.                                       *)
LEMMA ClaimAddsUp ==
  ASSUME IsFiniteSet(Account), TradeTypeOK, NEW t \in TradeIds, Claim(t)
  PROVE  LamportsAddUp /\ TokensAddUp
  <1> DEFINE amount == tradeDetail[t].amount
             refund == tradeDetail[t].refund
             token  == tradeDetail[t].token
             vault  == VaultPda(t)
  <1>1. Exists(t) /\ PayRefund(t) /\ LedgerTypeOK
    BY LedgerFacts DEF Claim, AssertClaim, Open
  <1>2. /\ amount \in Int /\ refund \in Account /\ refund \in Owner
        /\ vault \in Account /\ vault \in Owner
        /\ lamports \in [Account -> Int] /\ Account \in SUBSET Account
    BY <1>1, DetailFacts, Addresses, LedgerFacts
  <1>3. CASE token = None
    <2> DEFINE paid == Move(lamports, vault, refund, amount)
    <2>1. lamports' = CloseNonceCheck(t, paid) /\ UNCHANGED tokens
      BY <1>1, <1>3 DEF PayRefund
    <2> HIDE DEF amount, refund, vault
    <2>2. SameSum(Account, Account, lamports, paid)
      BY <1>2, MoveSum
    <2> HIDE DEF paid
    <2> QED  BY <1>1, <2>1, <2>2, NonceClosedAddsUp, NothingMoved
  <1>4. CASE token # None
    <2>1. /\ tokens' = SplTransfer(tokens, vault, refund, token, amount, None)
          /\ lamports' = CloseNonceCheck(t, lamports)
      BY <1>1, <1>4 DEF PayRefund
    <2>2. token \in Mints /\ SameSum(Account, Account, lamports, lamports)
      BY <1>1, <1>2, <1>4, DetailFacts DEF SameSum
    <2> HIDE DEF amount, refund, vault, token
    <2>3. TokensAddUp
      BY <1>1, <1>2, <2>1, <2>2, TransferAddsUp
    <2> QED  BY <1>1, <2>1, <2>2, <2>3, NonceClosedAddsUp
  <1> QED
    BY <1>3, <1>4

(* close_finished_trade drains the accounts it closes to the depositor.    *)
LEMMA CloseAddsUp ==
  ASSUME IsFiniteSet(Account), TradeTypeOK, NEW signer \in Wallets, NEW t \in TradeIds,
         CloseFinishedTrade(signer, t)
  PROVE  LamportsAddUp /\ TokensAddUp
  <1> DEFINE user  == tradeDetail[t].user
             token == tradeDetail[t].token
             ata   == Ata(VaultPda(t), token)
             bal   == IF token = None THEN lamports ELSE Drain(lamports, ata, user)
             bare  == Drain(bal, TradePda(t), user)
  <1>1. Exists(t) /\ LedgerTypeOK
    BY LedgerFacts DEF CloseFinishedTrade, AssertCloseFinishedTrade, Finished
  <1>2. /\ user \in Account /\ user \in Owner
        /\ TradePda(t) \in Account /\ VaultPda(t) \in Account /\ VaultPda(t) \in Owner
        /\ token # None => token \in Mints /\ ata \in Account
        /\ lamports \in [Account -> Int] /\ Account \in SUBSET Account
    BY <1>1, DetailFacts, Addresses, LedgerFacts
  <1>3. lamports' = Drain(bare, VaultPda(t), user)
    BY DEF CloseFinishedTrade, CloseTradeLamports
  <1>4. TokensAddUp
    <2>1. CASE token = None
      BY <1>1, <2>1, NothingMoved DEF CloseFinishedTrade
    <2>2. CASE token # None
      <3>1. tokens' = Drain(tokens, Ata(VaultPda(t), token), Ata(user, token))
        BY <2>2 DEF CloseFinishedTrade, CloseVaultAta
      <3> HIDE DEF token, user
      <3> QED  BY <1>1, <1>2, <2>2, <3>1, TokensDrained
    <2> QED  BY <2>1, <2>2
  <1> HIDE DEF user, token, ata
  <1>5. SameSum(Account, Account, lamports, bal)
    <2>1. SameSum(Account, Account, lamports, lamports)
      BY <1>2 DEF SameSum
    <2>2. token # None => SameSum(Account, Account, lamports, Drain(lamports, ata, user))
      BY <1>2, DrainSum
    <2> QED  BY <2>1, <2>2
  <1> HIDE DEF bal
  <1>6. SameSum(Account, Account, bal, bare)
    <2>1. bal \in [Account -> Int]
      BY <1>5 DEF SameSum
    <2> QED  BY <1>2, <2>1, DrainSum
  <1> HIDE DEF bare
  <1>7. SameSum(Account, Account, bare, lamports')
    <2>1. bare \in [Account -> Int]
      BY <1>6 DEF SameSum
    <2> QED  BY <1>2, <1>3, <2>1, DrainSum
  <1> QED
    BY <1>4, <1>5, <1>6, <1>7, SameSumTwice DEF LamportsAddUp

(* Everything else, and no step at all.                                    *)
LEMMA OtherAddsUp ==
  ASSUME IsFiniteSet(Account), TradeTypeOK,
         \/ AnyNonceStep
         \/ ConfigNext /\ UNCHANGED tradeVars
         \/ AnyLedgerNext /\ UNCHANGED <<configVars, tradeVars>>
         \/ UNCHANGED vars
  PROVE  LamportsAddUp /\ TokensAddUp
  <1> DEFINE Goal == LamportsAddUp /\ TokensAddUp
  <1>1. LedgerTypeOK /\ ConfigTypeOK
    BY LedgerFacts DEF TradeTypeOK
  <1>2. ASSUME NEW payer \in Wallets, NEW e \in Ephemerals, CreateNonceAccount(payer, e)
        PROVE  Goal
    <2>1. payer \in Account /\ e \in Account /\ Rent["durable"] \in Int
      BY LedgerAssumption, Addresses, Rents
    <2>2. lamports' = Fund(lamports, payer, e, Rent["durable"]) /\ UNCHANGED tokens
      BY <1>2 DEF CreateNonceAccount
    <2> QED  BY <1>1, <2>1, <2>2, LamportsMoved, NothingMoved
  <1>3. ASSUME NEW to \in Wallets, NEW e \in Ephemerals, WithdrawNonceAccount(to, e)
        PROVE  Goal
    <2>1. to \in Account /\ e \in Account /\ 0 \in Int
      BY LedgerAssumption, Addresses
    <2>2. lamports' = Drain(lamports, e, to) /\ UNCHANGED tokens
      BY <1>3 DEF WithdrawNonceAccount
    <2> QED  BY <1>1, <2>1, <2>2, LamportsMoved, NothingMoved
  <1>4. ASSUME UNCHANGED vars
        PROVE  Goal
    BY <1>1, <1>4, NothingMoved DEF vars, ledgerVars
  <1> QED
    BY <1>1, <1>2, <1>3, <1>4, ConfigAddsUp, LedgerAddsUp DEF AnyNonceStep

(* No step of a trade mints or burns.                                      *)
LEMMA TradeAddsUp ==
  ASSUME IsFiniteSet(Account), TradeTypeOK, [AnyTradeNext]_vars
  PROVE  LamportsAddUp /\ TokensAddUp
  <1>1. ASSUME NEW t \in TradeIds, NEW timeout \in Timeouts, NEW mpc \in Mpcs,
               NEW refund \in Refunds, NEW e \in Ephemerals,
               Deposit(t, timeout, mpc, refund, e)
        PROVE  LamportsAddUp /\ TokensAddUp
    BY <1>1, DepositAddsUp DEF Deposit
  <1>2. ASSUME NEW t \in TradeIds, NEW fee \in Fees, SetTotalFee(t, fee)
        PROVE  LamportsAddUp /\ TokensAddUp
    BY <1>2, LedgerFacts, NothingMoved DEF SetTotalFee, ledgerVars
  <1> QED
    BY <1>1, <1>2, SettlementAddsUp, ClaimAddsUp, CloseAddsUp, OtherAddsUp, Steps

(* No step of a trade, of the configuration or of an outsider mints or     *)
(* burns anything: what settlement, claim and close pay out is what was    *)
(* there, for any number of trades and accounts.                           *)
THEOREM TradeConservesValue ==
  ASSUME IsFiniteSet(Account)
  PROVE  TradeSpec => []ValueConserved
  <1>1. TradeInit => ValueConserved
    BY DEF TradeInit, DeploymentInit, LedgerInit, ValueConserved
  <1>2. TradeTypeOK /\ ValueConserved /\ [TradeNext]_vars => ValueConserved'
    BY TradeAddsUp, TradeAny, ValueStep, LedgerFacts
  <1> QED
    BY <1>1, <1>2, TradeTypeCorrect, PTL DEF TradeSpec

-----------------------------------------------------------------------------
(* No account of the configuration is one of a trade, a durable nonce      *)
(* account or a token account.                                             *)
LEMMA ConfigPdasApart ==
    /\ \A t : /\ {TradePda(t), VaultPda(t), NoncePda(t)} \cap {ConfigPda, ProtocolPda} = {}
             /\ \A x : /\ WhitelistPda(x) \notin {TradePda(t), VaultPda(t), NoncePda(t)}
                      /\ ReceiverPda(x) \notin {TradePda(t), VaultPda(t), NoncePda(t)}
    /\ Pda \cap (TokenAccount \cup Wallets \cup Ephemerals) = {}
  <1>1. \A t, x : /\ WhitelistPda(x) \notin {TradePda(t), VaultPda(t), NoncePda(t)}
                 /\ ReceiverPda(x) \notin {TradePda(t), VaultPda(t), NoncePda(t)}
    BY DEF WhitelistPda, ReceiverPda, TradePda, VaultPda, NoncePda
  <1>2. \A t : {TradePda(t), VaultPda(t), NoncePda(t)} \cap {ConfigPda, ProtocolPda} = {}
    BY DEF ConfigPda, ProtocolPda, TradePda, VaultPda, NoncePda
  <1> QED
    BY <1>1, <1>2, PdaNoAta, KeysAssumption

(* A step that takes from accounts of trades, durable nonce accounts and   *)
(* token accounts only keeps the rent of the configuration.                *)
LEMMA ConfigRentKept ==
  ASSUME ConfigTypeOK, ConfigTypeOK', ConfigRentHeld, UNCHANGED configVars,
         NEW S, KeptBut(S) \/ PdasKeptBut(S),
         \A a \in S : \/ a \in TokenAccount \cup Ephemerals
                     \/ \E t : a \in {TradePda(t), VaultPda(t), NoncePda(t)}
  PROVE  ConfigRentHeld'
  <1>1. PdasKeptBut(S)
    BY ConfigPdas, ConfigPdasApart DEF KeptBut, PdasKeptBut
  <1>2. /\ \A a \in Account : lamports[a] \in Int /\ lamports'[a] \in Int
        /\ Rent["config"] \in Int /\ Rent["wallet"] \in Int
        /\ Rent["whitelist"] \in Int /\ Rent["receiver"] \in Int
        /\ feeReceivers \subseteq Wallets
    BY Rents DEF ConfigTypeOK, LedgerTypeOK
  <1>3. /\ {ConfigPda, ProtocolPda} \subseteq Pda \ S
        /\ \A m \in Mints : WhitelistPda(m) \in Pda \ S
        /\ \A k \in Wallets : ReceiverPda(k) \in Pda \ S
    BY ConfigPdas, ConfigPdasApart
  <1>4. \A a \in Pda \ S : lamports'[a] >= lamports[a] /\ lamports[a] \in Int /\ lamports'[a] \in Int
    BY <1>1, <1>2, ConfigPdas DEF PdasKeptBut
  <1> QED
    BY <1>2, <1>3, <1>4 DEF ConfigRentHeld, configVars

\* The accounts of all trades.
TradeAccounts ==
    {TradePda(t) : t \in TradeIds} \cup {VaultPda(t) : t \in TradeIds}
      \cup {NoncePda(e) : e \in Ephemerals}

(* A step of a trade takes lamports from no PDA but those of trades.       *)
LEMMA TradeKeepsPdas ==
  ASSUME TradeTypeOK, TradeTypeOK', VaultSolvent, TradeRentHeld, TradeStep \/ AnyNonceStep
  PROVE  PdasKeptBut(TradeAccounts) /\ UNCHANGED configVars
  <1>0. /\ lamports \in [Account -> Nat] /\ Pda \subseteq Account
        /\ \A a \in Pda : a \notin TokenAccount /\ a \notin Wallets /\ a \notin Ephemerals
    BY LedgerFacts, ConfigPdas, ConfigPdasApart
  <1>1. ASSUME NEW S, KeptBut(S), \A a \in S : a \in TradeAccounts \cup TokenAccount \cup Ephemerals
        PROVE  PdasKeptBut(TradeAccounts)
    BY <1>0, <1>1 DEF KeptBut, PdasKeptBut
  <1>2. ASSUME NEW t \in TradeIds, NEW timeout \in Timeouts, NEW mpc \in Mpcs,
               NEW refund \in Refunds, NEW e \in Ephemerals,
               Deposit(t, timeout, mpc, refund, e)
        PROVE  PdasKeptBut(TradeAccounts) /\ UNCHANGED configVars
    <2>1. KeptBut({}) /\ UNCHANGED configVars
      BY <1>2, DepositRent DEF Deposit
    <2> QED  BY <1>1, <2>1
  <1>3. ASSUME NEW t \in TradeIds, Exists(t), KeptBut({VaultPda(t), NoncePda(tradeDetail[t].eph)})
        PROVE  PdasKeptBut(TradeAccounts)
    <2>1. tradeDetail[t].eph \in Ephemerals
      BY <1>3, DetailFacts
    <2>2. {VaultPda(t), NoncePda(tradeDetail[t].eph)} \subseteq TradeAccounts
      BY <2>1 DEF TradeAccounts
    <2> QED  BY <1>1, <1>3, <2>2
  <1>4. ASSUME NEW t \in TradeIds, NEW pmm \in Pmms, Settlement(t, pmm)
        PROVE  PdasKeptBut(TradeAccounts) /\ UNCHANGED configVars
    <2>1. UNCHANGED configVars /\ Exists(t)
      BY <1>4 DEF Settlement, AssertSettlement, Open
    <2>2. KeptBut({VaultPda(t), NoncePda(tradeDetail[t].eph)})
      BY <1>4, SettlementRent
    <2> QED  BY <1>3, <2>1, <2>2
  <1>5. ASSUME NEW t \in TradeIds, Claim(t)
        PROVE  PdasKeptBut(TradeAccounts) /\ UNCHANGED configVars
    <2>1. UNCHANGED configVars /\ Exists(t)
      BY <1>5 DEF Claim, AssertClaim, Open
    <2>2. KeptBut({VaultPda(t), NoncePda(tradeDetail[t].eph)})
      BY <1>5, ClaimRent
    <2> QED  BY <1>3, <2>1, <2>2
  <1>6. ASSUME NEW signer \in Wallets, NEW t \in TradeIds, CloseFinishedTrade(signer, t)
        PROVE  PdasKeptBut(TradeAccounts) /\ UNCHANGED configVars
    <2> DEFINE S == {TradePda(t), VaultPda(t)} \cup TokenAccount
    <2>1. UNCHANGED configVars
      BY <1>6 DEF CloseFinishedTrade
    <2>2. KeptBut(S)
      BY <1>6, CloseRent
    <2>3. \A a \in S : a \in TradeAccounts \cup TokenAccount
      BY DEF TradeAccounts
    <2> HIDE DEF S
    <2> QED  BY <1>1, <2>1, <2>2, <2>3
  <1>7. ASSUME NEW payer \in Wallets, NEW e \in Ephemerals, CreateNonceAccount(payer, e)
        PROVE  PdasKeptBut(TradeAccounts) /\ UNCHANGED configVars
    <2>1. /\ payer \in Wallets /\ payer \in Account /\ e \in Account /\ payer # e
          /\ lamports \in [Account -> Int]
      BY <1>0, LedgerAssumption, Addresses, KeysApart
    <2>2. Paid(payer) /\ UNCHANGED configVars
      BY <1>7, <2>1, FundFacts, Rents DEF CreateNonceAccount, Paid
    <2>3. PdasKeptBut({})
      BY <2>2, <2>1, PaidKeepsPdas
    <2> QED  BY <2>2, <2>3 DEF PdasKeptBut
  <1>8. ASSUME NEW to \in Wallets, NEW e \in Ephemerals, WithdrawNonceAccount(to, e)
        PROVE  PdasKeptBut(TradeAccounts) /\ UNCHANGED configVars
    <2>1. to \in Wallets /\ to \in Account /\ e \in Account /\ to # e
      BY LedgerAssumption, Addresses, KeysApart
    <2>2. KeptBut({e}) /\ UNCHANGED configVars
      BY <1>0, <1>8, <2>1, DrainNat DEF WithdrawNonceAccount, KeptBut
    <2> QED  BY <1>1, <2>2
  <1>9. ASSUME NEW t \in TradeIds, NEW fee \in Fees, SetTotalFee(t, fee)
        PROVE  PdasKeptBut(TradeAccounts) /\ UNCHANGED configVars
    BY <1>0, <1>9 DEF SetTotalFee, ledgerVars, PdasKeptBut
  <1> QED
    BY <1>2, <1>4, <1>5, <1>6, <1>7, <1>8, <1>9 DEF TradeStep, AnyNonceStep

(* Every step of a trade keeps the rent of the configuration.              *)
LEMMA TradeConfigRentStep ==
  ASSUME TradeTypeOK, TradeTypeOK', VaultSolvent, TradeRentHeld, ConfigRentHeld,
         [AnyTradeNext]_vars
  PROVE  ConfigRentHeld'
  <1>1. ConfigTypeOK /\ ConfigTypeOK' /\ LedgerTypeOK
    BY DEF TradeTypeOK, ConfigTypeOK
  <1>2. CASE TradeStep \/ AnyNonceStep
    <2>1. PdasKeptBut(TradeAccounts) /\ UNCHANGED configVars
      BY <1>2, TradeKeepsPdas
    <2>2. \A a \in TradeAccounts : \E t : a \in {TradePda(t), VaultPda(t), NoncePda(t)}
      BY DEF TradeAccounts
    <2> QED  BY <1>1, <2>1, <2>2, ConfigRentKept
  <1>3. CASE AnyLedgerNext /\ UNCHANGED configVars
    BY <1>1, <1>3, LedgerKeepsPdas, ConfigRentKept
  <1>4. CASE UNCHANGED vars
    BY <1>4 DEF vars, ledgerVars, configVars, ConfigRentHeld
  <1> QED
    BY <1>1, <1>2, <1>3, <1>4, ConfigRentStep DEF AnyTradeNext

(* The accounts of the configuration keep their rent while trades run: the *)
(* protocol PDA, to which settlement adds its fees by hand, among them.    *)
THEOREM TradeKeepsConfigRent == TradeSpec => []ConfigRentHeld
  <1>1. TradeInit => ConfigRentHeld
    BY StartIsSetUp DEF TradeInit, DeploymentInit, LedgerInit, ConfigRentHeld
  <1>2. TradeTypeOK /\ TradeTypeOK' /\ VaultSolvent /\ TradeRentHeld /\ ConfigRentHeld
          /\ [TradeNext]_vars
        => ConfigRentHeld'
    BY TradeConfigRentStep, TradeAny
  <1> QED
    BY <1>1, <1>2, TradeTypeCorrect, VaultAlwaysSolvent, TradeRentAlwaysHeld, PTL DEF TradeSpec

-----------------------------------------------------------------------------
(* The balances after the account a of the accounts L was drained to an    *)
(* account outside of L.                                                   *)
DrainedOut(A, L, bal, a, to, after) ==
    /\ after \in [A -> Int]
    /\ after[a] = 0
    /\ \A x \in L \ {a} : after[x] = bal[x]
    /\ SumFunctionOnSet(bal, L) \in Int
    /\ SumFunctionOnSet(after, L) \in Int
    /\ after[to] + SumFunctionOnSet(after, L) = bal[to] + SumFunctionOnSet(bal, L)

(* Draining one of the accounts L to an account outside of them.           *)
LEMMA DrainOut ==
  ASSUME NEW A, NEW L \in SUBSET A, IsFiniteSet(L), NEW bal \in [A -> Int],
         NEW a \in L, NEW to \in A \ L
  PROVE  DrainedOut(A, L, bal, a, to, Drain(bal, a, to))
  <1> DEFINE taken == [bal EXCEPT ![a] = @ - bal[a]]
             moved == [taken EXCEPT ![to] = @ + bal[a]]
  <1>1. /\ taken \in [A -> Int] /\ taken[a] = 0 /\ taken[a] - bal[a] = 0 - bal[a]
        /\ \A x \in A \ {a} : taken[x] = bal[x]
        /\ a \in A /\ to \in A /\ a # to /\ bal[a] \in Int /\ bal[to] \in Int
    OBVIOUS
  <1>2. moved = Drain(bal, a, to)
    BY DEF Drain, Move
  <1> HIDE DEF taken
  <1>3. /\ SumFunctionOnSet(bal, L) \in Int
        /\ SumFunctionOnSet(taken, L) = SumFunctionOnSet(bal, L) + (0 - bal[a])
    BY <1>1, SumUpdate
  <1>4. /\ moved \in [A -> Int] /\ moved[to] = bal[to] + bal[a] /\ moved[a] = 0
        /\ \A x \in A \ {to} : moved[x] = taken[x]
    BY <1>1
  <1> HIDE DEF moved
  <1>5. SumFunctionOnSet(moved, L) = SumFunctionOnSet(taken, L) + 0
    BY <1>1, <1>4, SumUpdate
  <1>6. DrainedOut(A, L, bal, a, to, moved)
    BY <1>1, <1>3, <1>4, <1>5 DEF DrainedOut
  <1> QED
    BY <1>2, <1>6

(* Nothing but its closing ends the existence of a trade.                  *)
LEMMA OnlyCloseEnds ==
  ASSUME TradeTypeOK, [AnyTradeNext]_vars, NEW t \in TradeIds, Exists(t), ~Exists(t)'
  PROVE  \E signer \in Wallets : CloseFinishedTrade(signer, t)
  <1>0. DOMAIN tradeDetail = TradeIds /\ tradeDetail[t] \in TradeDetail
    BY DetailFacts DEF TradeTypeOK
  <1>1. ASSUME NEW u \in TradeIds, NEW new \in TradeDetail,
               tradeDetail' = [tradeDetail EXCEPT ![u] = new]
        PROVE  FALSE
    BY <1>0, <1>1, NoneIsNoTrade DEF Exists
  <1>2. ASSUME NEW u \in TradeIds, NEW timeout \in Timeouts, NEW mpc \in Mpcs,
               NEW refund \in Refunds, NEW e \in Ephemerals,
               Deposit(u, timeout, mpc, refund, e)
        PROVE  FALSE
    BY <1>1, <1>2, DepositStep
  <1>3. ASSUME NEW u \in TradeIds, NEW fee \in Fees, SetTotalFee(u, fee)
        PROVE  FALSE
    <2>1. /\ Exists(u) /\ tradeDetail' = [tradeDetail EXCEPT ![u].totalFee = fee]
      BY <1>3, SetTotalFeeStep
    <2>2. [tradeDetail[u] EXCEPT !.totalFee = fee] \in TradeDetail
      BY <2>1, DetailFacts, TradeBounds DEF TradeDetail
    <2> QED  BY <1>1, <2>1, <2>2
  <1>4. ASSUME NEW u \in TradeIds, NEW pmm \in Pmms, Settlement(u, pmm)
        PROVE  FALSE
    BY <1>1, <1>4, SettlementStep
  <1>5. ASSUME NEW u \in TradeIds, Claim(u)
        PROVE  FALSE
    <2>1. /\ Exists(u) /\ tradeDetail' = [tradeDetail EXCEPT ![u].status = "Claimed"]
      BY <1>5, ClaimStep DEF Open
    <2>2. [tradeDetail[u] EXCEPT !.status = "Claimed"] \in TradeDetail
      BY <2>1, DetailFacts DEF TradeDetail, TradeStatus
    <2> QED  BY <1>1, <2>1, <2>2
  <1>6. ASSUME NEW signer \in Wallets, NEW u \in TradeIds, CloseFinishedTrade(signer, u)
        PROVE  u = t
    BY <1>0, <1>6, CloseStep DEF Exists
  <1>7. tradeDetail' # tradeDetail
    BY DEF Exists
  <1> QED
    BY <1>2, <1>3, <1>4, <1>5, <1>6, <1>7, Steps, OtherStep

(* What closing a trade leaves where.                                      *)
LEMMA CloseReturns ==
  ASSUME TradeTypeOK, NEW signer \in Wallets, NEW t \in TradeIds,
         CloseFinishedTrade(signer, t), NEW left,
         left = {TradePda(t), VaultPda(t)} \cup
                  IF tradeDetail[t].token = None THEN {}
                  ELSE {Ata(VaultPda(t), tradeDetail[t].token)}
  PROVE  /\ \A a \in left : lamports'[a] = 0
         /\ lamports'[tradeDetail[t].user] =
              lamports[tradeDetail[t].user] + SumFunctionOnSet(lamports, left)
  <1> DEFINE user  == tradeDetail[t].user
             token == tradeDetail[t].token
             trade == TradePda(t)
             vault == VaultPda(t)
             ata   == Ata(vault, token)
             bal   == IF token = None THEN lamports ELSE Drain(lamports, ata, user)
             bare  == Drain(bal, trade, user)
  <1>1. Exists(t)
    BY DEF CloseFinishedTrade, AssertCloseFinishedTrade, Finished
  <1>2. /\ trade \in left /\ vault \in left /\ trade # vault
        /\ token # None => ata \in left /\ ata # trade /\ ata # vault
        /\ \A a \in left : a \in {trade, vault} \/ (token # None /\ a = ata)
    BY RentedApart
  <1>3. /\ left \in SUBSET Account /\ user \in Account \ left /\ IsFiniteSet(left)
        /\ lamports \in [Account -> Int]
    <2>1. user \in Wallets /\ user \in Account /\ (token # None => token \in Mints)
      BY <1>1, DetailFacts
    <2>2. trade \in Account \ Wallets /\ vault \in Account \ Wallets
      BY RentedAccounts
    <2>3. token # None => ata \in Account \ Wallets
      BY <2>1, RentedAccounts, Addresses
    <2>4. IsFiniteSet({trade, vault}) /\ IsFiniteSet({}) /\ IsFiniteSet({ata})
      <3>1. {trade, vault} = {trade} \cup {vault}
        OBVIOUS
      <3>2. \A x : IsFiniteSet({x})
        BY FS_Singleton
      <3>3. IsFiniteSet({trade} \cup {vault})
        BY <3>2, FS_Union
      <3> QED  BY <3>1, <3>2, <3>3, FS_EmptySet
    <2>5. IsFiniteSet(left)
      BY <2>4, FS_EmptySet, FS_Union
    <2> HIDE DEF trade, vault, ata
    <2>6. left \in SUBSET Account /\ user \in Account \ left
      BY <1>2, <2>1, <2>2, <2>3
    <2> QED  BY <2>5, <2>6, LedgerFacts
  <1>4. lamports' = Drain(bare, vault, user)
    BY DEF CloseFinishedTrade, CloseTradeLamports
  <1> HIDE DEF user, token, trade, vault, ata
  <1>5. /\ bal \in [Account -> Int]
        /\ SumFunctionOnSet(lamports, left) \in Int
        /\ bal[user] + SumFunctionOnSet(bal, left) =
             lamports[user] + SumFunctionOnSet(lamports, left)
        /\ token # None => bal[ata] = 0
    <2>1. CASE token = None
      <3>1. bal = lamports
        BY <2>1
      <3>2. DrainedOut(Account, left, lamports, trade, user, Drain(lamports, trade, user))
        BY <1>2, <1>3, DrainOut
      <3> HIDE DEF bal
      <3> QED  BY <1>3, <2>1, <3>1, <3>2 DEF DrainedOut
    <2>2. CASE token # None
      <3>1. bal = Drain(lamports, ata, user)
        BY <2>2
      <3>2. ata \in left
        BY <1>2, <2>2
      <3>3. DrainedOut(Account, left, lamports, ata, user, Drain(lamports, ata, user))
        BY <1>3, <3>2, DrainOut
      <3> HIDE DEF bal
      <3> QED  BY <3>1, <3>3 DEF DrainedOut
    <2> QED  BY <2>1, <2>2
  <1> DEFINE after == Drain(bare, vault, user)
  <1> HIDE DEF bal
  <1>6. DrainedOut(Account, left, bal, trade, user, bare)
    BY <1>2, <1>3, <1>5, DrainOut
  <1> HIDE DEF bare
  <1>7. DrainedOut(Account, left, bare, vault, user, after)
    <2>1. bare \in [Account -> Int]
      BY <1>6 DEF DrainedOut
    <2> QED  BY <1>2, <1>3, <2>1, DrainOut
  <1> HIDE DEF after
  <1>8. \A a \in left : after[a] = 0
    BY <1>2, <1>5, <1>6, <1>7 DEF DrainedOut
  <1>9. SumFunctionOnSet(after, left) = 0
    <2>1. after \in [Account -> Int]
      BY <1>7 DEF DrainedOut
    <2> QED  BY <1>3, <1>8, <2>1, SumOfZeros
  <1>10. after[user] \in Int /\ lamports[user] \in Int
    BY <1>3, <1>7 DEF DrainedOut
  <1>11. after[user] = lamports[user] + SumFunctionOnSet(lamports, left)
    BY <1>5, <1>6, <1>7, <1>9, <1>10 DEF DrainedOut
  <1>12. lamports' = after
    BY <1>4 DEF after
  <1> QED
    BY <1>8, <1>11, <1>12 DEF user

\* What is left of trade t, and that the step brings its depositor all of it.
Left(t) == {TradePda(t), VaultPda(t)} \cup
             IF tradeDetail[t].token = None THEN {} ELSE {Ata(VaultPda(t), tradeDetail[t].token)}

Returned(t) ==
    LET d == tradeDetail[t]
    IN  /\ \A a \in Left(t) : lamports'[a] = 0
        /\ lamports'[d.user] = lamports[d.user] + SumFunctionOnSet(lamports, Left(t))
        /\ d.token # None =>
             /\ Ata(VaultPda(t), d.token) \notin atas'
             /\ tokens'[Ata(d.user, d.token)] = tokens[Ata(d.user, d.token)] + Custody(t)

(* A trade that ends has been closed, and so it is.                        *)
LEMMA EndReturns ==
  ASSUME TradeTypeOK, [AnyTradeNext]_vars, NEW t \in TradeIds, Exists(t), ~Exists(t)'
  PROVE  Returned(t)
  <1>1. PICK signer \in Wallets : CloseFinishedTrade(signer, t)
    BY OnlyCloseEnds
  <1>2. /\ \A a \in Left(t) : lamports'[a] = 0
        /\ lamports'[tradeDetail[t].user] =
             lamports[tradeDetail[t].user] + SumFunctionOnSet(lamports, Left(t))
    BY <1>1, CloseReturns DEF Left
  <1>3. ASSUME tradeDetail[t].token # None
        PROVE  /\ Ata(VaultPda(t), tradeDetail[t].token) \notin atas'
               /\ tokens'[Ata(tradeDetail[t].user, tradeDetail[t].token)] =
                    tokens[Ata(tradeDetail[t].user, tradeDetail[t].token)] + Custody(t)
    <2> DEFINE token    == tradeDetail[t].token
               user     == tradeDetail[t].user
               vaultAta == Ata(VaultPda(t), token)
               userAta  == Ata(user, token)
    <2>1. tokens' = Drain(tokens, vaultAta, userAta) /\ atas' = atas \ {vaultAta}
      BY <1>1, <1>3 DEF CloseFinishedTrade, CloseVaultAta
    <2>2. /\ user \in Wallets /\ user \in Owner /\ VaultPda(t) \in Owner
          /\ VaultPda(t) \in Account \ Wallets /\ token \in Mints
      BY <1>3, DetailFacts, Addresses, RentedAccounts
    <2>3. vaultAta # userAta
      BY <2>2, AtasApart
    <2>4. vaultAta \in TokenAccount /\ userAta \in TokenAccount
      BY <2>2, Addresses
    <2>5. Custody(t) = tokens[vaultAta]
      BY <1>3 DEF Custody
    <2>6. tokens \in [TokenAccount -> Nat]
      BY LedgerFacts
    <2> HIDE DEF vaultAta, userAta
    <2>7. tokens'[userAta] = tokens[userAta] + tokens[vaultAta]
      BY <2>1, <2>3, <2>4, <2>6 DEF Drain, Move
    <2> QED  BY <2>1, <2>5, <2>7 DEF vaultAta, userAta
  <1> QED  BY <1>2, <1>3 DEF Returned

(* CloseReturnsEverything says this of every step.                         *)
LEMMA EndsReturn ==
  CloseReturnsEverything <=> [][\A t \in TradeIds : Exists(t) /\ ~Exists(t)' => Returned(t)]_vars
  BY DEF CloseReturnsEverything, Returned, Left

(* Closing a finished trade brings the depositor everything that is left   *)
(* of it, in lamports and in tokens, and leaves its accounts empty.        *)
THEOREM CloseAlwaysReturnsEverything == TradeSpec => CloseReturnsEverything
  <1> DEFINE A == \A t \in TradeIds : Exists(t) /\ ~Exists(t)' => Returned(t)
  <1>1. TradeTypeOK /\ [TradeNext]_vars => [A]_vars
    BY EndReturns, TradeAny
  <1>2. CloseReturnsEverything <=> [][A]_vars
    BY EndsReturn
  <1> HIDE DEF A
  <1> QED
    BY <1>1, <1>2, TradeTypeCorrect, PTL DEF TradeSpec

-----------------------------------------------------------------------------
(* A deposit is never stuck: in every reachable state one of the ways out  *)
(* of the vault is open.  NeverStuck says so with ENABLED, on which the    *)
(* prover cannot reason.  Here each way out is split into what it asks of  *)
(* the state before and the values it gives to the state after; the action *)
(* is enabled exactly where the former holds, because the latter leave no  *)
(* variable without a value.                                               *)

\* The balances a claim leaves.
ClaimPaid(t) ==
    IF tradeDetail[t].token # None THEN lamports
    ELSE Move(lamports, VaultPda(t), tradeDetail[t].refund, tradeDetail[t].amount)

ClaimTokens(t) ==
    IF tradeDetail[t].token = None THEN tokens
    ELSE SplTransfer(tokens, VaultPda(t), tradeDetail[t].refund, tradeDetail[t].token,
                     tradeDetail[t].amount, None)

CanClaim(t) ==
    /\ AssertClaim(t)
    /\ tradeDetail[t].eph \in nonceCheck /\ t \in tradeVault
    /\ IF tradeDetail[t].token = None
       THEN /\ lamports[VaultPda(t)] >= tradeDetail[t].amount
            /\ RentState(CloseNonceCheck(t, ClaimPaid(t))[tradeDetail[t].refund])
       ELSE SplTransferOk(tokens, VaultPda(t), tradeDetail[t].refund, tradeDetail[t].token,
                          tradeDetail[t].amount, None)

ClaimEffect(t) ==
    /\ lamports' = CloseNonceCheck(t, ClaimPaid(t))
    /\ tokens' = ClaimTokens(t)
    /\ tradeDetail' = [tradeDetail EXCEPT ![t].status = "Claimed"]
    /\ nonceCheck' = nonceCheck \ {tradeDetail[t].eph}
    /\ UNCHANGED <<now, atas, configVars, tradeVault, nonceAccount>>

\* The balances a settlement leaves.
SettlementPaid(t, pmm) ==
    IF tradeDetail[t].token # None THEN lamports
    ELSE LET taken   == [lamports EXCEPT ![VaultPda(t)] = @ - tradeDetail[t].amount]
             settled == [taken EXCEPT ![pmm] = @ + SettlementAmount(t)]
         IN  [settled EXCEPT ![ProtocolPda] = @ + Fee(t)]

SettlementTokens(t, pmm) ==
    IF tradeDetail[t].token = None THEN tokens
    ELSE SplTransfer(tokens, VaultPda(t), pmm, tradeDetail[t].token, SettlementAmount(t),
                     tradeDetail[t].totalFee)

CanSettle(t, pmm) ==
    /\ AssertSettlement(t)
    /\ config # None
    /\ tradeDetail[t].eph \in nonceCheck /\ t \in tradeVault
    /\ Fee(t) <= tradeDetail[t].amount
    /\ IF tradeDetail[t].token = None
       THEN /\ lamports[VaultPda(t)] >= tradeDetail[t].amount
            /\ RentState(CloseNonceCheck(t, SettlementPaid(t, pmm))[pmm])
       ELSE SplTransferOk(tokens, VaultPda(t), pmm, tradeDetail[t].token, SettlementAmount(t),
                          tradeDetail[t].totalFee)

SettlementEffect(t, pmm) ==
    /\ lamports' = CloseNonceCheck(t, SettlementPaid(t, pmm))
    /\ tokens' = SettlementTokens(t, pmm)
    /\ tradeDetail' = [tradeDetail EXCEPT ![t] = Settled(t, pmm)]
    /\ nonceCheck' = nonceCheck \ {tradeDetail[t].eph}
    /\ UNCHANGED <<now, atas, configVars, tradeVault, nonceAccount>>

\* The token account of the vault and that of the depositor.
VaultAta(t) == Ata(VaultPda(t), tradeDetail[t].token)
UserAta(t)  == Ata(tradeDetail[t].user, tradeDetail[t].token)

CanClose(signer, t) ==
    /\ config # None
    /\ AssertCloseFinishedTrade(signer, t)
    /\ t \in tradeVault
    /\ tradeDetail[t].token # None => {VaultAta(t), UserAta(t)} \subseteq atas

CloseEffect(t) ==
    /\ lamports' = CloseTradeLamports(t)
    /\ tokens' = IF tradeDetail[t].token = None THEN tokens
                 ELSE Drain(tokens, VaultAta(t), UserAta(t))
    /\ atas' = IF tradeDetail[t].token = None THEN atas ELSE atas \ {VaultAta(t)}
    /\ tradeDetail' = [tradeDetail EXCEPT ![t] = None]
    /\ tradeVault' = tradeVault \ {t}
    /\ UNCHANGED <<now, configVars, nonceCheck, nonceAccount>>

(* claim, settlement and close_finished_trade succeed exactly when their   *)
(* demands on the state before are met.                                    *)
THEOREM GuardsDecide ==
  ASSUME NEW t
  PROVE  /\ Claim(t) <=> CanClaim(t) /\ ClaimEffect(t)
         /\ \A pmm : Settlement(t, pmm) <=> CanSettle(t, pmm) /\ SettlementEffect(t, pmm)
         /\ \A signer : CloseFinishedTrade(signer, t) <=> CanClose(signer, t) /\ CloseEffect(t)
  <1>1. Claim(t) <=> CanClaim(t) /\ ClaimEffect(t)
    <2>1. CASE tradeDetail[t].token = None
      BY <2>1 DEF Claim, PayRefund, CanClaim, ClaimEffect, ClaimPaid, ClaimTokens
    <2>2. CASE tradeDetail[t].token # None
      BY <2>2 DEF Claim, PayRefund, CanClaim, ClaimEffect, ClaimPaid, ClaimTokens
    <2> QED  BY <2>1, <2>2
  <1>2. ASSUME NEW pmm
        PROVE  Settlement(t, pmm) <=> CanSettle(t, pmm) /\ SettlementEffect(t, pmm)
    <2>1. CASE tradeDetail[t].token = None
      BY <2>1 DEF Settlement, PayPmm, CanSettle, SettlementEffect, SettlementPaid, SettlementTokens
    <2>2. CASE tradeDetail[t].token # None
      BY <2>2 DEF Settlement, PayPmm, CanSettle, SettlementEffect, SettlementPaid, SettlementTokens
    <2> QED  BY <2>1, <2>2
  <1>3. ASSUME NEW signer
        PROVE  CloseFinishedTrade(signer, t) <=> CanClose(signer, t) /\ CloseEffect(t)
    <2>1. CASE tradeDetail[t].token = None
      BY <2>1 DEF CloseFinishedTrade, CanClose, CloseEffect
    <2>2. CASE tradeDetail[t].token # None
      BY <2>2 DEF CloseFinishedTrade, CloseVaultAta, CanClose, CloseEffect, VaultAta, UserAta
    <2> QED  BY <2>1, <2>2
  <1> QED
    BY <1>1, <1>2, <1>3

-----------------------------------------------------------------------------
(* What the ways out rely on besides the invariants that are proved above. *)

\* The configuration is there, the fee of a trade fits into its amount, and
\* a trade in tokens has the token account of its vault until it is closed.
Prepared ==
    /\ config # None
    /\ \A t \in TradeIds : Exists(t) =>
         /\ Fee(t) <= tradeDetail[t].amount
         /\ tradeDetail[t].token # None => VaultAta(t) \in atas

\* The same of one trade.
ReadyTrade(t) ==
    Exists(t) => /\ Fee(t) <= tradeDetail[t].amount
                 /\ tradeDetail[t].token # None => VaultAta(t) \in atas

(* A trade that a step leaves alone stays ready.                           *)
LEMMA KeptReady ==
  ASSUME TradeTypeOK, NEW t \in TradeIds, ReadyTrade(t), tradeDetail'[t] = tradeDetail[t],
         \A m \in Mints : Ata(VaultPda(t), m) \in atas => Ata(VaultPda(t), m) \in atas'
  PROVE  ReadyTrade(t)'
  <1>1. Exists(t) => tradeDetail[t].token \in Mints \cup {None}
    BY DetailFacts
  <1> QED
    BY <1>1 DEF ReadyTrade, Exists, Fee, VaultAta

(* Every step keeps every trade ready: deposit starts without a fee,       *)
(* set_total_fee compares the fee with the amount, and only the closing of *)
(* the trade itself closes the token account of its vault.                 *)
LEMMA ReadyStep ==
  ASSUME TradeTypeOK, Prepared, [AnyTradeNext]_vars
  PROVE  Prepared'
  <1>0. /\ DOMAIN tradeDetail = TradeIds /\ config # None
        /\ \A t \in TradeIds : ReadyTrade(t)
        /\ \A t \in TradeIds : tradeDetail[t] \in TradeDetail \cup {None}
    BY DEF TradeTypeOK, Prepared, ReadyTrade
  <1>1. ASSUME config' # None, \A t \in TradeIds : ReadyTrade(t)'
        PROVE  Prepared'
    BY <1>1 DEF Prepared, ReadyTrade
  <1>2. ASSUME NEW t \in TradeIds, UNCHANGED config, ReadyTrade(t)',
               \A u \in TradeIds \ {t} : tradeDetail'[u] = tradeDetail[u],
               \A u \in TradeIds \ {t} : \A m \in Mints :
                  Ata(VaultPda(u), m) \in atas => Ata(VaultPda(u), m) \in atas'
        PROVE  Prepared'
    <2>1. \A u \in TradeIds \ {t} : ReadyTrade(u)'
      BY <1>0, <1>2, KeptReady
    <2> QED  BY <1>0, <1>1, <1>2, <2>1
  <1>3. ASSUME NEW t \in TradeIds, NEW timeout \in Timeouts, NEW mpc \in Mpcs,
               NEW refund \in Refunds, NEW e \in Ephemerals,
               Deposit(t, timeout, mpc, refund, e)
        PROVE  Prepared'
    <2> DEFINE new == NewTrade(t, timeout, mpc, refund, e)
    <2>1. /\ tradeDetail' = [tradeDetail EXCEPT ![t] = new]
          /\ UNCHANGED <<config, atas>>
      BY <1>3 DEF Deposit, configVars
    <2>2. /\ tradeDetail'[t] = new /\ new.totalFee = None
          /\ new.amount = Input[t].amount /\ new.token = Input[t].token
      BY <1>0, <2>1 DEF NewTrade
    <2>3. Fee(t)' <= tradeDetail'[t].amount
      BY <2>2, InputFacts DEF Fee
    <2>4. Input[t].token # None => Ata(VaultPda(t), Input[t].token) \in atas
      BY <1>3 DEF Deposit, DepositFunds, SplTransferOk
    <2>5. ReadyTrade(t)'
      BY <2>1, <2>2, <2>3, <2>4 DEF ReadyTrade, VaultAta
    <2> HIDE DEF new
    <2> QED  BY <1>0, <1>2, <2>1, <2>5
  <1>4. ASSUME NEW t \in TradeIds, NEW new \in TradeDetail, Exists(t),
               tradeDetail' = [tradeDetail EXCEPT ![t] = new],
               new.token = tradeDetail[t].token, new.amount = tradeDetail[t].amount,
               \/ new.totalFee = tradeDetail[t].totalFee
               \/ new.totalFee \in Nat /\ new.totalFee <= new.amount,
               UNCHANGED <<config, atas>>
        PROVE  Prepared'
    <2>1. tradeDetail'[t] = new
      BY <1>0, <1>4
    <2>2. new.totalFee \in Nat => new.totalFee # None
      BY LedgerAssumption
    <2>3. Fee(t)' <= tradeDetail'[t].amount
      BY <1>0, <1>4, <2>1, <2>2 DEF Fee, ReadyTrade
    <2>4. ReadyTrade(t)'
      BY <1>0, <1>4, <2>1, <2>3 DEF ReadyTrade, VaultAta
    <2> QED  BY <1>0, <1>2, <1>4, <2>4
  <1>5. ASSUME NEW t \in TradeIds, NEW fee \in Fees, SetTotalFee(t, fee)
        PROVE  Prepared'
    <2> DEFINE new == [tradeDetail[t] EXCEPT !.totalFee = fee]
    <2>1. /\ Exists(t) /\ fee <= tradeDetail[t].amount
          /\ tradeDetail' = [tradeDetail EXCEPT ![t] = new]
          /\ UNCHANGED <<config, atas>>
      BY <1>5 DEF SetTotalFee, configVars, ledgerVars
    <2>2. /\ new \in TradeDetail /\ new.token = tradeDetail[t].token
          /\ new.amount = tradeDetail[t].amount /\ new.totalFee = fee /\ fee \in Nat
      BY <2>1, DetailFacts, TradeBounds DEF TradeDetail
    <2> HIDE DEF new
    <2> QED  BY <1>4, <2>1, <2>2
  <1>6. ASSUME NEW t \in TradeIds, NEW pmm \in Pmms, Settlement(t, pmm)
        PROVE  Prepared'
    <2> DEFINE new == Settled(t, pmm)
    <2>1. /\ Exists(t) /\ new \in TradeDetail
          /\ tradeDetail' = [tradeDetail EXCEPT ![t] = new]
          /\ UNCHANGED <<config, atas>>
      BY <1>6, SettlementStep DEF Settlement, configVars, Open
    <2>2. /\ new.token = tradeDetail[t].token
          /\ new.amount = tradeDetail[t].amount /\ new.totalFee = tradeDetail[t].totalFee
      BY <2>1, DetailFacts DEF Settled, TradeDetail
    <2> HIDE DEF new
    <2> QED  BY <1>4, <2>1, <2>2
  <1>7. ASSUME NEW t \in TradeIds, Claim(t)
        PROVE  Prepared'
    <2> DEFINE new == [tradeDetail[t] EXCEPT !.status = "Claimed"]
    <2>1. /\ Exists(t)
          /\ tradeDetail' = [tradeDetail EXCEPT ![t] = new]
          /\ UNCHANGED <<config, atas>>
      BY <1>7, ClaimStep DEF Claim, configVars, Open
    <2>2. /\ new \in TradeDetail /\ new.token = tradeDetail[t].token
          /\ new.amount = tradeDetail[t].amount /\ new.totalFee = tradeDetail[t].totalFee
      BY <2>1, DetailFacts DEF TradeDetail, TradeStatus
    <2> HIDE DEF new
    <2> QED  BY <1>4, <2>1, <2>2
  <1>8. ASSUME NEW signer \in Wallets, NEW t \in TradeIds, CloseFinishedTrade(signer, t)
        PROVE  Prepared'
    <2>1. /\ tradeDetail' = [tradeDetail EXCEPT ![t] = None]
          /\ \A u \in TradeIds \ {t} : VaultKept(u)
          /\ UNCHANGED config
      BY <1>8, CloseStep DEF CloseFinishedTrade, configVars
    <2>2. ReadyTrade(t)'
      BY <1>0, <2>1 DEF ReadyTrade, Exists
    <2> QED  BY <1>0, <1>2, <2>1, <2>2 DEF VaultKept
  <1>9. ASSUME \/ AnyNonceStep
               \/ ConfigNext /\ UNCHANGED tradeVars
               \/ AnyLedgerNext /\ UNCHANGED <<configVars, tradeVars>>
               \/ UNCHANGED vars
        PROVE  Prepared'
    <2>1. config' # None
      BY <1>0, <1>9, ConfigStays
      DEF TradeTypeOK, AnyNonceStep, CreateNonceAccount, WithdrawNonceAccount, configVars, vars
    <2>2. \A u \in TradeIds : VaultKept(u) /\ tradeDetail'[u] = tradeDetail[u]
      BY <1>9, OtherStep
    <2> QED  BY <1>0, <1>1, <2>1, <2>2, KeptReady DEF VaultKept
  <1> QED
    BY <1>3, <1>5, <1>6, <1>7, <1>8, <1>9, Steps

(* It holds in every reachable state.                                      *)
LEMMA AlwaysReady == TradeSpec => []Prepared
  <1>1. TradeInit => Prepared
    BY StartIsSetUp, NoneIsNoConfig DEF TradeInit, DeploymentInit, Prepared, Exists
  <1>2. TradeTypeOK /\ Prepared /\ [TradeNext]_vars => Prepared'
    BY ReadyStep, TradeAny
  <1> QED
    BY <1>1, <1>2, TradeTypeCorrect, PTL DEF TradeSpec

-----------------------------------------------------------------------------
\* Everything that the ways out rely on.
TradeInv ==
    /\ TradeTypeOK /\ Prepared
    /\ NonceGuardsOneTrade /\ VaultSolvent /\ TradeRentHeld /\ ConfigRentHeld

(* The accounts of an open trade.                                          *)
LEMMA OpenFacts ==
  ASSUME TradeInv, NEW t \in TradeIds, Open(t)
  PROVE  /\ Exists(t) /\ t \in tradeVault
         /\ tradeDetail[t].eph \in nonceCheck /\ tradeDetail[t].eph \in Ephemerals
         /\ lamports[NoncePda(tradeDetail[t].eph)] >= Rent["wallet"]
         /\ Fee(t) <= tradeDetail[t].amount
         /\ tradeDetail[t].token = None => lamports[VaultPda(t)] >= tradeDetail[t].amount
         /\ tradeDetail[t].token # None =>
              /\ VaultAta(t) \in atas
              /\ tokens[VaultAta(t)] >= tradeDetail[t].amount
  <1> USE DEF TradeInv
  <1>1. Exists(t)
    BY DEF Open
  <1>2. /\ t \in tradeVault
        /\ tradeDetail[t].eph \in nonceCheck /\ tradeDetail[t].eph \in Ephemerals
    BY <1>1, DetailFacts DEF TradeRentHeld, NonceGuardsOneTrade
  <1>3. /\ Rent["wallet"] \in Nat /\ Rent["vault"] \in Nat /\ Rent["nonce"] \in Nat
        /\ Rent["wallet"] <= Rent["nonce"]
        /\ lamports \in [Account -> Nat] /\ tradeDetail[t].amount \in Nat
        /\ VaultPda(t) \in Account /\ NoncePda(tradeDetail[t].eph) \in Account
    BY <1>1, <1>2, Rents, LedgerAssumption, LedgerFacts, DetailFacts, Addresses
  <1>4. lamports[NoncePda(tradeDetail[t].eph)] >= Rent["nonce"]
    BY <1>2 DEF TradeRentHeld
  <1>5. lamports[NoncePda(tradeDetail[t].eph)] >= Rent["wallet"]
    BY <1>3, <1>4
  <1>6. ASSUME tradeDetail[t].token = None
        PROVE  lamports[VaultPda(t)] >= tradeDetail[t].amount
    <2>1. lamports[VaultPda(t)] - Rent["vault"] >= tradeDetail[t].amount
      BY <1>6 DEF VaultSolvent, Custody
    <2>2. lamports[VaultPda(t)] \in Nat
      BY <1>3
    <2> QED  BY <1>3, <2>1, <2>2
  <1>7. tradeDetail[t].token # None => /\ VaultAta(t) \in atas
                                       /\ tokens[VaultAta(t)] >= tradeDetail[t].amount
    BY DEF VaultSolvent, Custody, VaultAta
  <1> QED
    BY <1>1, <1>2, <1>5, <1>6, <1>7 DEF Prepared

(* Closing the nonce check PDA leaves an address that was paid as rent     *)
(* exempt as the payment did.                                              *)
LEMMA StaysRentExempt ==
  ASSUME TradeInv, NEW t \in TradeIds, Open(t), NEW to \in Recipient,
         NEW bal \in [Account -> Nat], RentState(bal[to]),
         bal[NoncePda(tradeDetail[t].eph)] >= Rent["wallet"]
  PROVE  RentState(CloseNonceCheck(t, bal)[to])
  <1> DEFINE nonce == NoncePda(tradeDetail[t].eph)
             user  == tradeDetail[t].user
  <1>1. /\ nonce \in Account /\ user \in Account /\ to \in Account
        /\ nonce # user /\ nonce # to
        /\ Rent["wallet"] \in Nat
    <2>1. TradeTypeOK /\ Exists(t) /\ tradeDetail[t].eph \in Ephemerals
      BY OpenFacts DEF TradeInv
    <2>2. nonce # ProtocolPda
      BY DEF NoncePda, ProtocolPda
    <2> QED  BY <2>1, <2>2, DetailFacts, Addresses, KeysApart, Rents DEF Recipient
  <1>2. CloseNonceCheck(t, bal) = Drain(bal, nonce, user)
    BY DEF CloseNonceCheck
  <1> HIDE DEF nonce, user
  <1>3. Drain(bal, nonce, user)[to] = bal[to] + IF to = user THEN bal[nonce] ELSE 0
    BY <1>1 DEF Drain, Move
  <1>4. bal[nonce] \in Nat /\ bal[to] \in Nat /\ bal[nonce] >= Rent["wallet"]
    BY <1>1 DEF nonce
  <1> QED
    BY <1>1, <1>2, <1>3, <1>4 DEF RentState

(* After the timeout anyone can have an open trade refunded.               *)
LEMMA ClaimPossible ==
  ASSUME TradeInv, NEW t \in TradeIds, Open(t), now > tradeDetail[t].timeout,
         Payable(t, tradeDetail[t].refund, tradeDetail[t].amount)
  PROVE  CanClaim(t)
  <1> DEFINE refund == tradeDetail[t].refund
             amount == tradeDetail[t].amount
             vault  == VaultPda(t)
             nonce  == NoncePda(tradeDetail[t].eph)
             paid   == Move(lamports, vault, refund, amount)
  <1>0. TradeTypeOK /\ Exists(t)
    BY OpenFacts DEF TradeInv
  <1>1. CASE tradeDetail[t].token = None
    <2>1. /\ lamports \in [Account -> Nat] /\ amount \in Nat /\ lamports[vault] >= amount
          /\ refund \in Recipient /\ refund \in Account /\ vault \in Account /\ nonce \in Account
          /\ vault # refund /\ nonce # vault /\ nonce # refund
      <3>1. /\ refund \in Recipient /\ refund \in Account /\ amount \in Nat
            /\ lamports \in [Account -> Nat]
        BY <1>0, DetailFacts, LedgerFacts
      <3>2. vault \in Account /\ nonce \in Account /\ lamports[vault] >= amount
        BY <1>1, OpenFacts, Addresses
      <3>3. nonce # vault /\ vault # refund
        BY <3>1, PdasApart, VaultApart
      <3>4. nonce # refund
        <4>1. nonce # ProtocolPda
          BY DEF NoncePda, ProtocolPda
        <4> QED  BY <3>1, <4>1, OpenFacts, KeysApart DEF Recipient
      <3> QED  BY <3>1, <3>2, <3>3, <3>4
    <2>2. RentState(lamports[refund] + amount) /\ lamports[nonce] >= Rent["wallet"]
      BY <1>1, OpenFacts DEF Payable
    <2> HIDE DEF refund, amount, vault, nonce
    <2>3. /\ paid \in [Account -> Nat]
          /\ paid[refund] = lamports[refund] + amount /\ paid[nonce] = lamports[nonce]
      BY <2>1 DEF Move
    <2> HIDE DEF paid
    <2>4. RentState(CloseNonceCheck(t, paid)[refund])
      BY <2>1, <2>2, <2>3, StaysRentExempt DEF nonce
    <2>5. ClaimPaid(t) = paid
      BY <1>1 DEF ClaimPaid, paid, vault, refund, amount
    <2> QED
      BY <1>1, <2>1, <2>4, <2>5, OpenFacts DEF CanClaim, AssertClaim, vault, refund, amount
  <1>2. CASE tradeDetail[t].token # None
    <2>1. SplTransferOk(tokens, VaultPda(t), refund, tradeDetail[t].token, amount, None)
      BY <1>2, OpenFacts DEF SplTransferOk, Payable, VaultAta
    <2> QED  BY <1>2, <2>1, OpenFacts DEF CanClaim, AssertClaim
  <1> QED
    BY <1>1, <1>2

(* Up to the timeout the mpc can settle an open trade.                     *)
LEMMA SettlementPossible ==
  ASSUME TradeInv, NEW t \in TradeIds, Open(t), now <= tradeDetail[t].timeout,
         NEW pmm \in Pmms, Payable(t, pmm, SettlementAmount(t)),
         tradeDetail[t].token # None => Ata(ProtocolPda, tradeDetail[t].token) \in atas
  PROVE  CanSettle(t, pmm)
  <1> DEFINE amount == tradeDetail[t].amount
             net    == SettlementAmount(t)
             fee    == Fee(t)
             vault  == VaultPda(t)
             nonce  == NoncePda(tradeDetail[t].eph)
  <1>0. TradeTypeOK /\ Exists(t) /\ fee <= amount /\ config # None
    BY OpenFacts DEF TradeInv, Prepared
  <1>1. /\ pmm \in Recipient /\ pmm \in Account /\ pmm \in Owner
        /\ amount \in Nat /\ net \in Nat /\ fee \in Nat /\ net + fee = amount
        /\ vault \in Account /\ nonce \in Account /\ ProtocolPda \in Account
        /\ vault # pmm /\ vault # ProtocolPda /\ nonce # vault /\ nonce # pmm
        /\ nonce # ProtocolPda
        /\ lamports \in [Account -> Nat] /\ tokens \in [TokenAccount -> Nat]
    <2>1. pmm \in Recipient /\ pmm \in Account /\ pmm \in Owner
      BY TradeBounds, Addresses
    <2>2. amount \in Nat /\ net \in Nat /\ fee \in Nat /\ net + fee = amount
      BY <1>0, DetailFacts, FeeFacts DEF SettlementAmount
    <2>3. vault \in Account /\ nonce \in Account /\ ProtocolPda \in Account
      BY OpenFacts, Addresses
    <2>4. nonce # ProtocolPda
      BY DEF NoncePda, ProtocolPda
    <2>5. vault # pmm /\ vault # ProtocolPda /\ nonce # vault
      BY <2>1, PdasApart, VaultApart DEF Recipient
    <2>6. nonce # pmm
      BY <2>1, <2>4, OpenFacts, KeysApart DEF Recipient
    <2>7. lamports \in [Account -> Nat] /\ tokens \in [TokenAccount -> Nat]
      BY <1>0, LedgerFacts
    <2> QED  BY <2>1, <2>2, <2>3, <2>4, <2>5, <2>6, <2>7
  <1>2. CASE tradeDetail[t].token = None
    <2> DEFINE taken   == [lamports EXCEPT ![vault] = @ - amount]
               settled == [taken EXCEPT ![pmm] = @ + net]
               paid    == [settled EXCEPT ![ProtocolPda] = @ + fee]
    <2>1. /\ lamports[vault] >= amount /\ lamports[nonce] >= Rent["wallet"]
          /\ RentState(lamports[pmm] + net)
          /\ lamports[ProtocolPda] >= Rent["wallet"] /\ Rent["wallet"] \in Nat
      BY <1>0, <1>2, OpenFacts, Rents DEF Payable, TradeInv, ConfigRentHeld
    <2>2. SettlementPaid(t, pmm) = paid
      BY <1>2 DEF SettlementPaid
    <2> HIDE DEF amount, net, fee, vault, nonce
    <2>3. /\ taken \in [Account -> Nat]
          /\ \A x \in Account \ {vault} : taken[x] = lamports[x]
      BY <1>1, <2>1
    <2> HIDE DEF taken
    <2>4. /\ settled \in [Account -> Nat] /\ settled[pmm] = lamports[pmm] + net
          /\ \A x \in Account \ {vault, pmm} : settled[x] = lamports[x]
      BY <1>1, <2>3
    <2> HIDE DEF settled
    <2>5. /\ paid \in [Account -> Nat]
          /\ paid[nonce] = lamports[nonce]
          /\ pmm # ProtocolPda => paid[pmm] = lamports[pmm] + net
          /\ pmm = ProtocolPda => paid[pmm] = (lamports[pmm] + net) + fee
      BY <1>1, <2>4
    <2> HIDE DEF paid
    <2>6. RentState(paid[pmm])
      <3>1. CASE pmm # ProtocolPda
        BY <2>1, <2>5, <3>1
      <3>2. CASE pmm = ProtocolPda
        BY <1>1, <2>1, <2>5, <3>2 DEF RentState
      <3> QED  BY <3>1, <3>2
    <2>7. RentState(CloseNonceCheck(t, paid)[pmm])
      BY <1>1, <2>1, <2>5, <2>6, StaysRentExempt DEF nonce
    <2> QED
      BY <1>0, <1>2, <2>1, <2>2, <2>7, OpenFacts
      DEF CanSettle, AssertSettlement, amount, fee, vault
  <1>3. CASE tradeDetail[t].token # None
    <2> DEFINE token == tradeDetail[t].token
               total == tradeDetail[t].totalFee
               src   == Ata(vault, token)
               dst   == Ata(pmm, token)
    <2>1. /\ src \in TokenAccount /\ dst \in TokenAccount /\ src # dst
          /\ src \in atas /\ dst \in atas /\ Ata(ProtocolPda, token) \in atas
          /\ tokens[src] \in Nat /\ tokens[src] >= amount
      <3>1. token \in Mints /\ vault \in Owner
        BY <1>0, <1>3, DetailFacts, Addresses
      <3>2. src \in TokenAccount /\ dst \in TokenAccount /\ src # dst
        BY <1>1, <3>1, Addresses, AtasApart
      <3>3. src \in atas /\ dst \in atas /\ tokens[src] >= amount
        BY <1>3, OpenFacts DEF Payable, VaultAta
      <3>4. tokens[src] \in Nat
        BY <1>1, <3>2
      <3> QED  BY <1>3, <3>2, <3>3, <3>4
    <2>2. total # None => total = fee
      BY DEF Fee
    <2>3. SplTransfer(tokens, vault, pmm, token, net, None) = Move(tokens, src, dst, net)
      BY DEF SplTransfer
    <2> HIDE DEF amount, net, fee, vault, token, total, src, dst
    <2>4. /\ tokens[src] >= net
          /\ Move(tokens, src, dst, net)[src] >= fee
      BY <1>1, <2>1 DEF Move
    <2>5. SplTransferOk(tokens, vault, pmm, token, net, total)
      BY <2>1, <2>2, <2>3, <2>4 DEF SplTransferOk, src, dst
    <2> QED
      BY <1>0, <1>3, <2>5, OpenFacts
      DEF CanSettle, AssertSettlement, amount, net, fee, vault, token, total
  <1> QED
    BY <1>2, <1>3

(* Anyone can close a claimed trade.                                       *)
LEMMA ClosePossible ==
  ASSUME TradeInv, NEW t \in TradeIds, Exists(t), tradeDetail[t].status = "Claimed",
         tradeDetail[t].token # None => UserAta(t) \in atas, NEW signer
  PROVE  CanClose(signer, t)
  BY DEF TradeInv, Prepared, TradeRentHeld, CanClose, AssertCloseFinishedTrade, Finished

\* NeverStuck with what each way out asks for in the place of ENABLED.
NeverBlocked == \A t \in TradeIds : Exists(t) =>
    LET d == tradeDetail[t] IN
    /\ Open(t) /\ now > d.timeout /\ Payable(t, d.refund, d.amount) => CanClaim(t)
    /\ \A pmm \in Pmms :
         Open(t) /\ now <= d.timeout /\ Payable(t, pmm, SettlementAmount(t))
           /\ (d.token # None => Ata(ProtocolPda, d.token) \in atas)
         => CanSettle(t, pmm)
    /\ d.status = "Claimed" /\ (d.token # None => Ata(d.user, d.token) \in atas) =>
         \A signer \in Wallets : CanClose(signer, t)

(* Where every account is as the trades keep it, nothing blocks a way out. *)
LEMMA NothingBlocks == TradeInv => NeverBlocked
  <1>1. ASSUME TradeInv, NEW t \in TradeIds, Exists(t)
        PROVE  LET d == tradeDetail[t] IN
               /\ Open(t) /\ now > d.timeout /\ Payable(t, d.refund, d.amount) => CanClaim(t)
               /\ \A pmm \in Pmms :
                    Open(t) /\ now <= d.timeout /\ Payable(t, pmm, SettlementAmount(t))
                      /\ (d.token # None => Ata(ProtocolPda, d.token) \in atas)
                    => CanSettle(t, pmm)
               /\ d.status = "Claimed" /\ (d.token # None => Ata(d.user, d.token) \in atas) =>
                    \A signer \in Wallets : CanClose(signer, t)
    BY <1>1, ClaimPossible, SettlementPossible, ClosePossible DEF UserAta
  <1> QED
    BY <1>1 DEF NeverBlocked

(* A deposit is never stuck, whatever the operators do to the whitelist,   *)
(* the durations and the fees, and whoever is paid: the receiving side     *)
(* only has to be able to take the payment.                                *)
THEOREM TradeNeverBlocked == TradeSpec => []NeverBlocked
  BY NothingBlocks, TradeTypeCorrect, AlwaysReady, NonceAlwaysGuardsOneTrade, VaultAlwaysSolvent,
     TradeRentAlwaysHeld, TradeKeepsConfigRent, PTL DEF TradeInv
=============================================================================
