--------------------------- MODULE Payment_proofs ----------------------------
(***************************************************************************)
(* Proofs about payments: the types, the rent of every account that        *)
(* payments and the withdrawal of fees rely on, and that a payment which   *)
(* is sent again is not made twice.                                        *)
(***************************************************************************)
EXTENDS Payment, Config_proofs

(* The seeds of a receipt.                                                 *)
LEMMA PaymentFacts ==
  ASSUME NEW p \in Payments
  PROVE  /\ p.from \in Wallets /\ p.from \in Account /\ p.from \in Owner
         /\ p.to \in Account /\ p.to \in Owner
         /\ p.token \in Mints \cup {None}
         /\ p.amount \in Nat /\ p.fee \in Nat /\ p.fee \in Amount /\ p.fee # None
         /\ ReceiptPda(p) \in Account /\ p.from # ReceiptPda(p)
         /\ p.from \notin Pda
  BY PaymentAssumption, Addresses, ConfigPdas, KeysAssumption, LedgerAssumption DEF Amount

-----------------------------------------------------------------------------
(* A payment takes from the payer only, overdraws nothing, and leaves the  *)
(* receipt rent exempt.                                                    *)
LEMMA PayFundsFacts ==
  ASSUME PaymentTypeOK, NEW p \in Payments, p.amount > p.fee, PayFunds(p),
         UNCHANGED <<now, atas>>
  PROVE  LedgerTypeOK' /\ PdasKeptBut({}) /\ lamports'[ReceiptPda(p)] >= Rent["receipt"]
  <1> DEFINE opened == OpenReceipt(p)
             amount == PaymentAmount(p)
             sent   == Move(opened, p.from, p.to, amount)
  <1>0. /\ LedgerTypeOK /\ lamports \in [Account -> Nat] /\ lamports \in [Account -> Int]
        /\ tokens \in [TokenAccount -> Nat]
    BY DEF PaymentTypeOK, ConfigTypeOK, LedgerTypeOK
  <1>1. amount \in Amount /\ amount >= 0
    BY PaymentFacts DEF PaymentAmount, Amount
  <1>2. /\ opened \in [Account -> Int]
        /\ \A x \in Account \ {p.from} : opened[x] >= lamports[x]
        /\ opened[ReceiptPda(p)] >= Rent["receipt"]
    <2>1. Rent["receipt"] \in Amount
      BY LedgerAssumption DEF RentKind, Amount
    <2> QED  BY <1>0, <2>1, PaymentFacts, FundFacts DEF OpenReceipt
  <1>3. ASSUME p.token = None
        PROVE  /\ lamports' \in [Account -> Int]
               /\ \A x \in Account \ {p.from} : lamports'[x] >= opened[x]
               /\ Afforded(lamports', p.from) /\ tokens' = tokens
    <2>1. /\ lamports' = Move(sent, p.from, ProtocolPda, p.fee)
          /\ Afforded(lamports', p.from) /\ tokens' = tokens
      BY <1>3 DEF PayFunds
    <2> HIDE DEF opened, amount
    <2>2. /\ sent \in [Account -> Int]
          /\ \A x \in Account \ {p.from} : sent[x] >= opened[x]
      BY <1>1, <1>2, PaymentFacts, MoveTakes
    <2> HIDE DEF sent
    <2>3. /\ lamports' \in [Account -> Int]
          /\ \A x \in Account \ {p.from} : lamports'[x] >= sent[x]
      <3>1. p.fee >= 0 /\ ProtocolPda \in Account
        BY PaymentFacts, Addresses
      <3> QED  BY <2>1, <2>2, <3>1, PaymentFacts, MoveTakes
    <2> QED  BY <1>2, <2>1, <2>2, <2>3
  <1>4. ASSUME p.token # None
        PROVE  /\ lamports' = opened /\ Afforded(lamports', p.from)
               /\ tokens' \in [TokenAccount -> Nat]
    <2>1. /\ lamports' = opened /\ Afforded(lamports', p.from)
          /\ SplTransferOk(tokens, p.from, p.to, p.token, amount, p.fee)
          /\ tokens' = SplTransfer(tokens, p.from, p.to, p.token, amount, p.fee)
      BY <1>4 DEF PayFunds
    <2> HIDE DEF opened, amount
    <2>2. p.token \in Mints /\ p.fee >= 0
      BY <1>4, PaymentFacts
    <2> QED  BY <1>0, <1>1, <2>1, <2>2, PaymentFacts, SplTransferFacts
  <1> HIDE DEF opened, amount, sent
  <1>5. /\ lamports' \in [Account -> Int] /\ Afforded(lamports', p.from)
        /\ \A x \in Account \ {p.from} : lamports'[x] >= opened[x]
        /\ tokens' \in [TokenAccount -> Nat]
    <2>1. CASE p.token = None
      BY <1>0, <1>3, <2>1
    <2>2. CASE p.token # None
      BY <1>2, <1>4, <2>2
    <2> QED  BY <2>1, <2>2
  <1>6. \A x \in Account \ {p.from} : lamports'[x] >= lamports[x]
    BY <1>0, <1>2, <1>5
  <1>7. lamports' \in [Account -> Nat]
    BY <1>0, <1>5, <1>6, PaymentFacts, OnlyPayerPays
  <1>8. LedgerTypeOK'
    BY <1>0, <1>5, <1>7 DEF LedgerTypeOK
  <1>9. PdasKeptBut({})
    BY <1>6, ConfigPdas, PaymentFacts DEF PdasKeptBut
  <1>10. lamports'[ReceiptPda(p)] >= Rent["receipt"]
    <2>1. ReceiptPda(p) \in Account \ {p.from} /\ Rent["receipt"] \in Int
      BY PaymentFacts, LedgerAssumption DEF RentKind
    <2> QED  BY <1>2, <1>5, <2>1
  <1> QED
    BY <1>8, <1>9, <1>10

(* Closing a receipt takes from that receipt only.                         *)
LEMMA CloseReceiptFacts ==
  ASSUME PaymentTypeOK, NEW p \in Payments, ClosePaymentReceipt(p)
  PROVE  LedgerTypeOK' /\ PdasKeptBut({ReceiptPda(p)})
  <1>1. /\ LedgerTypeOK /\ lamports \in [Account -> Nat]
        /\ lamports' = Drain(lamports, ReceiptPda(p), p.from)
        /\ UNCHANGED <<now, atas, tokens>>
    BY DEF ClosePaymentReceipt, PaymentTypeOK, ConfigTypeOK, LedgerTypeOK
  <1>2. /\ lamports' \in [Account -> Nat]
        /\ \A x \in Account \ {ReceiptPda(p)} : lamports'[x] >= lamports[x]
    BY <1>1, PaymentFacts, DrainNat
  <1> QED
    BY <1>1, <1>2, ConfigPdas DEF LedgerTypeOK, PdasKeptBut

(* A withdrawal takes from the protocol PDA or its token account, and      *)
(* leaves the PDA its rent.                                                *)
LEMMA WithdrawFacts ==
  ASSUME PaymentTypeOK, NEW to \in Wallets, NEW token \in Mints \cup {None},
         NEW amount \in Nat, WithdrawTotalFee(to, token, amount)
  PROVE  /\ LedgerTypeOK' /\ PdasKeptBut({ProtocolPda})
         /\ lamports[ProtocolPda] >= Rent["wallet"] => lamports'[ProtocolPda] >= Rent["wallet"]
  <1>1. /\ LedgerTypeOK /\ lamports \in [Account -> Nat] /\ lamports \in [Account -> Int]
        /\ tokens \in [TokenAccount -> Nat]
        /\ WithdrawFunds(to, token, amount) /\ UNCHANGED <<now, atas>>
    BY DEF WithdrawTotalFee, PaymentTypeOK, ConfigTypeOK, LedgerTypeOK
  <1>2. /\ to \in Account /\ to \in Owner /\ ProtocolPda \in Account /\ ProtocolPda \in Owner
        /\ to # ProtocolPda /\ Pda \subseteq Account
        /\ amount \in Amount /\ amount >= 0 /\ Rent["wallet"] \in Nat
    BY Addresses, KeysApart, ConfigPdas, PaymentBounds, Rents DEF Amount, Recipient
  <1>3. CASE token = None
    <2>1. /\ lamports[ProtocolPda] - amount >= Rent["wallet"]
          /\ lamports' = Move(lamports, ProtocolPda, to, amount) /\ tokens' = tokens
      BY <1>1, <1>3 DEF WithdrawFunds, KeepsRent
    <2>2. /\ lamports' \in [Account -> Int]
          /\ lamports'[ProtocolPda] = lamports[ProtocolPda] - amount
          /\ \A x \in Account \ {ProtocolPda} : lamports'[x] >= lamports[x]
      BY <1>1, <1>2, <2>1, MoveFacts, MoveTakes
    <2>3. \A x \in Account : lamports'[x] >= 0
      BY <1>1, <1>2, <2>1, <2>2
    <2>4. lamports' \in [Account -> Nat]
      BY <2>2, <2>3
    <2> QED
      BY <1>1, <1>2, <2>1, <2>2, <2>4 DEF LedgerTypeOK, PdasKeptBut
  <1>4. CASE token # None
    <2>1. /\ token \in Mints
          /\ SplTransferOk(tokens, ProtocolPda, to, token, amount, None)
          /\ tokens' = SplTransfer(tokens, ProtocolPda, to, token, amount, None)
          /\ lamports' = lamports
      BY <1>1, <1>4 DEF WithdrawFunds
    <2>2. tokens' \in [TokenAccount -> Nat]
      BY <1>1, <1>2, <2>1, SplTransferFacts
    <2> QED
      BY <1>1, <1>2, <2>1, <2>2 DEF LedgerTypeOK, PdasKeptBut
  <1> QED
    BY <1>3, <1>4

-----------------------------------------------------------------------------
\* The steps of Payment, whatever amount of the fees is withdrawn, and whoever
\* pays for the ledger's: Withdrawals and Helpers bound what TLC explores.
AnyPaymentStep ==
    \/ \E p \in Payments, deadline \in Deadlines : Pay(p, deadline)
    \/ \E p \in Payments : ClosePaymentReceipt(p)
    \/ \E to \in Wallets, token \in Mints \cup {None}, amount \in Nat :
          WithdrawTotalFee(to, token, amount)

AnyPaymentNext ==
    \/ AnyPaymentStep
    \/ ConfigNext /\ UNCHANGED paymentVars
    \/ AnyLedgerNext /\ UNCHANGED <<configVars, paymentVars>>

(* Those of the specification are among them.                              *)
LEMMA PaymentAny == [PaymentNext]_allPayment => [AnyPaymentNext]_allPayment
  BY PaymentBounds DEF PaymentNext, PaymentStep, AnyPaymentNext, AnyPaymentStep, AnyLedgerNext

(* Every step keeps the types.                                             *)
LEMMA PaymentTypeStep ==
  ASSUME PaymentTypeOK, [AnyPaymentNext]_allPayment
  PROVE  PaymentTypeOK'
  <1>0. /\ ConfigTypeOK /\ LedgerTypeOK /\ now \in Nat
        /\ receipts \in [Payments -> Nat \cup {None}] /\ paid \in [Payments -> Seq(Made)]
    BY DEF PaymentTypeOK, ConfigTypeOK, LedgerTypeOK
  <1>1. ASSUME NEW p \in Payments, NEW deadline \in Deadlines, Pay(p, deadline)
        PROVE  PaymentTypeOK'
    <2>1. LedgerTypeOK'
      BY <1>1, PayFundsFacts DEF Pay
    <2>2. /\ receipts' = [receipts EXCEPT ![p] = now]
          /\ paid' = [paid EXCEPT ![p] = Append(@, [time |-> now, deadline |-> deadline])]
          /\ UNCHANGED configVars
      BY <1>1 DEF Pay
    <2>3. [time |-> now, deadline |-> deadline] \in Made
      BY <1>0, PaymentBounds DEF Made
    <2>4. paid' \in [Payments -> Seq(Made)]
      BY <1>0, <2>2, <2>3
    <2> QED
      BY <1>0, <2>1, <2>2, <2>4 DEF PaymentTypeOK, ConfigTypeOK, configVars
  <1>2. ASSUME NEW p \in Payments, ClosePaymentReceipt(p)
        PROVE  PaymentTypeOK'
    <2>1. LedgerTypeOK'
      BY <1>2, CloseReceiptFacts
    <2>2. receipts' = [receipts EXCEPT ![p] = None] /\ UNCHANGED <<configVars, paid>>
      BY <1>2 DEF ClosePaymentReceipt
    <2> QED
      BY <1>0, <2>1, <2>2 DEF PaymentTypeOK, ConfigTypeOK, configVars
  <1>3. ASSUME NEW to \in Wallets, NEW token \in Mints \cup {None}, NEW amount \in Nat,
               WithdrawTotalFee(to, token, amount)
        PROVE  PaymentTypeOK'
    <2>1. LedgerTypeOK'
      BY <1>3, WithdrawFacts
    <2>2. UNCHANGED <<configVars, paymentVars>>
      BY <1>3 DEF WithdrawTotalFee
    <2> QED
      BY <1>0, <2>1, <2>2 DEF PaymentTypeOK, ConfigTypeOK, configVars, paymentVars
  <1>4. CASE ConfigNext /\ UNCHANGED paymentVars
    BY <1>0, <1>4, ConfigStep DEF PaymentTypeOK, paymentVars
  <1>5. CASE AnyLedgerNext /\ UNCHANGED <<configVars, paymentVars>>
    BY <1>0, <1>5, LedgerStep DEF PaymentTypeOK, ConfigTypeOK, configVars, paymentVars
  <1>6. CASE UNCHANGED allPayment
    BY <1>0, <1>6 DEF PaymentTypeOK, ConfigTypeOK, LedgerTypeOK, allPayment, ledgerVars,
                      configVars, paymentVars
  <1> QED
    BY <1>1, <1>2, <1>3, <1>4, <1>5, <1>6 DEF AnyPaymentNext, AnyPaymentStep

(* All state keeps its type; in particular neither a payment nor a         *)
(* withdrawal of lamports by hand overdraws an account.                    *)
THEOREM PaymentTypeCorrect == PaymentSpec => []PaymentTypeOK
  <1>1. PaymentInit => PaymentTypeOK
    <2> SUFFICES ASSUME PaymentInit
                 PROVE  PaymentTypeOK
      OBVIOUS
    <2>1. LedgerTypeOK
      BY StartAssumption, LedgerAssumption DEF PaymentInit, DeploymentInit, LedgerInit, LedgerTypeOK
    <2> QED
      BY <2>1, StartIsSetUp DEF PaymentInit, DeploymentInit, PaymentTypeOK, ConfigTypeOK
  <1>2. PaymentTypeOK /\ [PaymentNext]_allPayment => PaymentTypeOK'
    BY PaymentTypeStep, PaymentAny
  <1> QED
    BY <1>1, <1>2, PTL DEF PaymentSpec

-----------------------------------------------------------------------------
(* Taking from no PDA of the configuration and of receipts keeps their     *)
(* rent.                                                                   *)
LEMMA RentKept ==
  ASSUME PaymentTypeOK, PaymentTypeOK', ConfigRentHeld, ReceiptRentHeld,
         NEW S, \A m \in Mints : WhitelistPda(m) \notin S, \A k \in Wallets : ReceiverPda(k) \notin S,
         ConfigPda \notin S, UNCHANGED configVars, PdasKeptBut(S),
         lamports'[ProtocolPda] >= Rent["wallet"] \/ config = None,
         \A p \in Payments : receipts'[p] # None =>
            \/ receipts[p] # None /\ ReceiptPda(p) \notin S
            \/ lamports'[ReceiptPda(p)] >= Rent["receipt"]
  PROVE  ConfigRentHeld' /\ ReceiptRentHeld'
  <1>0. /\ lamports \in [Account -> Nat] /\ lamports' \in [Account -> Nat]
        /\ Rent \in [RentKind -> Nat]
        /\ {"config", "wallet", "whitelist", "receiver", "receipt"} \subseteq RentKind
        /\ feeReceivers \subseteq Wallets
    BY LedgerAssumption DEF PaymentTypeOK, ConfigTypeOK, LedgerTypeOK, RentKind
  <1>1. \A a \in Pda \ S : lamports'[a] >= lamports[a] /\ lamports[a] \in Nat /\ lamports'[a] \in Nat
    BY <1>0, ConfigPdas DEF PdasKeptBut
  <1>2. \A kind \in {"config", "wallet", "whitelist", "receiver", "receipt"} : Rent[kind] \in Nat
    BY <1>0
  <1>3. ConfigRentHeld'
    BY <1>0, <1>1, <1>2, ConfigPdas DEF ConfigRentHeld, configVars
  <1>4. ReceiptRentHeld'
    BY <1>1, <1>2, ConfigPdas DEF ReceiptRentHeld
  <1> QED
    BY <1>3, <1>4

(* Every step keeps the rent of what exists.                               *)
LEMMA RentStep ==
  ASSUME PaymentTypeOK, PaymentTypeOK', ConfigRentHeld, ReceiptRentHeld, [AnyPaymentNext]_allPayment
  PROVE  ConfigRentHeld' /\ ReceiptRentHeld'
  <1> DEFINE Goal == ConfigRentHeld' /\ ReceiptRentHeld'
  <1>0. /\ ConfigTypeOK /\ LedgerTypeOK
        /\ lamports \in [Account -> Nat] /\ lamports' \in [Account -> Nat]
        /\ receipts \in [Payments -> Nat \cup {None}]
    BY DEF PaymentTypeOK, ConfigTypeOK, LedgerTypeOK
  <1>1. ASSUME NEW p \in Payments, NEW deadline \in Deadlines, Pay(p, deadline)
        PROVE  Goal
    <2>1. PdasKeptBut({}) /\ lamports'[ReceiptPda(p)] >= Rent["receipt"]
      BY <1>1, PayFundsFacts DEF Pay
    <2>2. receipts' = [receipts EXCEPT ![p] = now] /\ UNCHANGED configVars
      BY <1>1 DEF Pay
    <2>3. lamports'[ProtocolPda] >= Rent["wallet"] \/ config = None
      <3>1. /\ lamports'[ProtocolPda] >= lamports[ProtocolPda] /\ Rent["wallet"] \in Nat
            /\ lamports'[ProtocolPda] \in Nat /\ lamports[ProtocolPda] \in Nat
        BY <1>0, <2>1, ConfigPdas, Rents DEF PdasKeptBut
      <3> QED  BY <3>1 DEF ConfigRentHeld
    <2>4. \A q \in Payments : receipts'[q] # None =>
            receipts[q] # None \/ lamports'[ReceiptPda(q)] >= Rent["receipt"]
      BY <1>0, <2>1, <2>2
    <2> QED
      BY <2>1, <2>2, <2>3, <2>4, RentKept
  <1>2. ASSUME NEW p \in Payments, ClosePaymentReceipt(p)
        PROVE  Goal
    <2>1. PdasKeptBut({ReceiptPda(p)})
      BY <1>2, CloseReceiptFacts
    <2>2. receipts' = [receipts EXCEPT ![p] = None] /\ UNCHANGED configVars
      BY <1>2 DEF ClosePaymentReceipt
    <2>3. /\ \A m \in Mints : WhitelistPda(m) \notin {ReceiptPda(p)}
          /\ \A k \in Wallets : ReceiverPda(k) \notin {ReceiptPda(p)}
          /\ ConfigPda \notin {ReceiptPda(p)} /\ ProtocolPda \notin {ReceiptPda(p)}
      BY PdaKindsApart, SeededPdasApart
    <2>4. lamports'[ProtocolPda] >= Rent["wallet"] \/ config = None
      <3>1. /\ lamports'[ProtocolPda] >= lamports[ProtocolPda] /\ Rent["wallet"] \in Nat
            /\ lamports'[ProtocolPda] \in Nat /\ lamports[ProtocolPda] \in Nat
        BY <1>0, <2>1, <2>3, ConfigPdas, Rents DEF PdasKeptBut
      <3> QED  BY <3>1 DEF ConfigRentHeld
    <2>5. \A q \in Payments : receipts'[q] # None =>
            receipts[q] # None /\ ReceiptPda(q) \notin {ReceiptPda(p)}
      BY <1>0, <2>2, PdaOfSeed
    <2> QED
      BY <2>1, <2>2, <2>3, <2>4, <2>5, RentKept
  <1>3. ASSUME NEW to \in Wallets, NEW token \in Mints \cup {None}, NEW amount \in Nat,
               WithdrawTotalFee(to, token, amount)
        PROVE  Goal
    <2>1. /\ PdasKeptBut({ProtocolPda})
          /\ lamports[ProtocolPda] >= Rent["wallet"] => lamports'[ProtocolPda] >= Rent["wallet"]
      BY <1>3, WithdrawFacts
    <2>2. UNCHANGED <<configVars, receipts>>
      BY <1>3 DEF WithdrawTotalFee, paymentVars
    <2>3. /\ \A m \in Mints : WhitelistPda(m) \notin {ProtocolPda}
          /\ \A k \in Wallets : ReceiverPda(k) \notin {ProtocolPda}
          /\ \A p \in Payments : ReceiptPda(p) \notin {ProtocolPda}
          /\ ConfigPda \notin {ProtocolPda}
      BY SeededPdasApart, PdasApart
    <2>4. lamports'[ProtocolPda] >= Rent["wallet"] \/ config = None
      BY <2>1 DEF ConfigRentHeld
    <2> QED
      BY <2>1, <2>2, <2>3, <2>4, RentKept
  <1>4. CASE ConfigNext /\ UNCHANGED paymentVars
    <2>1. ConfigRentHeld' /\ \A p \in Payments : lamports'[ReceiptPda(p)] >= lamports[ReceiptPda(p)]
      BY <1>0, <1>4, ConfigRentStep
    <2>2. /\ UNCHANGED receipts /\ Rent["receipt"] \in Nat
          /\ \A p \in Payments : lamports[ReceiptPda(p)] \in Nat /\ lamports'[ReceiptPda(p)] \in Nat
      BY <1>0, <1>4, PaymentFacts, LedgerAssumption DEF paymentVars, RentKind
    <2>3. ReceiptRentHeld'
      BY <2>1, <2>2 DEF ReceiptRentHeld
    <2> QED
      BY <2>1, <2>3
  <1>5. ASSUME PdasKeptBut({}), UNCHANGED <<configVars, receipts>>
        PROVE  Goal
    <2>1. lamports'[ProtocolPda] >= Rent["wallet"] \/ config = None
      <3>1. /\ lamports'[ProtocolPda] >= lamports[ProtocolPda] /\ Rent["wallet"] \in Nat
            /\ lamports'[ProtocolPda] \in Nat /\ lamports[ProtocolPda] \in Nat
        BY <1>0, <1>5, ConfigPdas, Rents DEF PdasKeptBut
      <3> QED  BY <3>1 DEF ConfigRentHeld
    <2> QED
      BY <1>5, <2>1, RentKept
  <1>6. CASE AnyLedgerNext /\ UNCHANGED <<configVars, paymentVars>>
    BY <1>0, <1>5, <1>6, LedgerKeepsPdas DEF paymentVars
  <1>7. CASE UNCHANGED allPayment
    BY <1>0, <1>5, <1>7, ConfigPdas DEF allPayment, ledgerVars, paymentVars, PdasKeptBut
  <1> QED
    <2> HIDE DEF Goal
    <2> QED  BY <1>1, <1>2, <1>3, <1>4, <1>6, <1>7 DEF AnyPaymentNext, AnyPaymentStep, Goal

(* Every receipt, and every account of the configuration beside them,      *)
(* holds its rent, whatever was sent to its address before and however     *)
(* much of the fees is withdrawn.                                          *)
THEOREM PaymentRentAlwaysHeld == PaymentSpec => [](ConfigRentHeld /\ ReceiptRentHeld)
  <1>1. PaymentInit => ConfigRentHeld /\ ReceiptRentHeld
    BY StartIsSetUp DEF PaymentInit, DeploymentInit, LedgerInit, ConfigRentHeld, ReceiptRentHeld
  <1>2. /\ PaymentTypeOK /\ PaymentTypeOK' /\ ConfigRentHeld /\ ReceiptRentHeld
        /\ [PaymentNext]_allPayment
        => (ConfigRentHeld /\ ReceiptRentHeld)'
    BY RentStep, PaymentAny
  <1> QED
    BY <1>1, <1>2, PaymentTypeCorrect, PTL DEF PaymentSpec

-----------------------------------------------------------------------------
(* Two moves out of one account, to the payee and to the protocol.         *)
LEMMA TwoMoves ==
  ASSUME NEW S, NEW bal \in [S -> Int], NEW src \in S, NEW dst \in S, NEW fees \in S,
         NEW n \in Amount, NEW fee \in Amount, src # fees
  PROVE  LET moved == Move(Move(bal, src, dst, n), src, fees, fee)
         IN  /\ dst = fees => moved[dst] = bal[dst] + (n + fee)
             /\ dst # fees => /\ dst # src => moved[dst] = bal[dst] + n
                              /\ moved[fees] = bal[fees] + fee
  <1> DEFINE first  == Move(bal, src, dst, n)
             moved == Move(first, src, fees, fee)
  <1>1. /\ first \in [S -> Int]
        /\ src # dst => first[dst] = bal[dst] + n
        /\ \A x \in S \ {src, dst} : first[x] = bal[x]
    BY MoveFacts
  <1> HIDE DEF first
  <1>2. /\ moved[fees] = first[fees] + fee
        /\ \A x \in S \ {src, fees} : moved[x] = first[x]
    BY <1>1, MoveFacts
  <1> HIDE DEF moved
  <1>3. dst = fees => moved[dst] = bal[dst] + (n + fee)
    BY <1>1, <1>2 DEF Amount
  <1>4. dst # fees /\ dst # src => moved[dst] = bal[dst] + n
    BY <1>1, <1>2
  <1>5. dst # fees => moved[fees] = bal[fees] + fee
    BY <1>1, <1>2
  <1> QED
    BY <1>3, <1>4, <1>5 DEF first, moved

(* What the payee and the protocol get of a payment, whoever they are.     *)
LEMMA PayFundsGive ==
  ASSUME PaymentTypeOK, NEW p \in Payments, PayFunds(p)
  PROVE  LET gain(a) == Holding(a, p.token)' - Holding(a, p.token)
         IN  IF p.to = ProtocolPda THEN gain(p.to) = p.amount
             ELSE /\ p.to # p.from => gain(p.to) = p.amount - p.fee
                  /\ gain(ProtocolPda) = p.fee
  <1> DEFINE opened == OpenReceipt(p)
             amount == PaymentAmount(p)
  <1>0. /\ lamports \in [Account -> Int] /\ tokens \in [TokenAccount -> Int]
        /\ ProtocolPda \in Account /\ ProtocolPda \in Pda /\ ProtocolPda \in Owner
        /\ p.from # ProtocolPda /\ p.to \in Recipient
    BY PaymentFacts, PaymentAssumption, Addresses DEF PaymentTypeOK, ConfigTypeOK, LedgerTypeOK,
       Pda, Recipient
  <1>1. amount \in Amount /\ amount + p.fee = p.amount /\ amount = p.amount - p.fee
    BY PaymentFacts DEF PaymentAmount, Amount
  <1>2. CASE p.token = None
    <2>1. lamports' = Move(Move(opened, p.from, p.to, amount), p.from, ProtocolPda, p.fee)
      BY <1>2 DEF PayFunds
    <2>2. p.to # ReceiptPda(p) /\ ProtocolPda # ReceiptPda(p)
      <3>1. ProtocolPda # ReceiptPda(p)
        BY DEF ProtocolPda, ReceiptPda
      <3>2. \A k \in Wallets : k # ReceiptPda(p)
        BY KeysApart, KeysAssumption DEF Pda
      <3> QED  BY <1>0, <3>1, <3>2 DEF Recipient
    <2>3. /\ opened \in [Account -> Int]
          /\ p.to # p.from => opened[p.to] = lamports[p.to]
          /\ opened[ProtocolPda] = lamports[ProtocolPda]
      <3>1. Rent["receipt"] \in Amount
        BY LedgerAssumption DEF RentKind, Amount
      <3> QED  BY <1>0, <2>2, <3>1, PaymentFacts, FundFacts DEF OpenReceipt
    <2> HIDE DEF opened, amount
    <2>4. /\ p.to = ProtocolPda => lamports'[p.to] = opened[p.to] + (amount + p.fee)
          /\ p.to # ProtocolPda =>
               /\ p.to # p.from => lamports'[p.to] = opened[p.to] + amount
               /\ lamports'[ProtocolPda] = opened[ProtocolPda] + p.fee
      BY <1>0, <1>1, <2>1, <2>3, PaymentFacts, TwoMoves
    <2> QED
      BY <1>0, <1>1, <1>2, <2>3, <2>4, PaymentFacts DEF Holding, Amount
  <1>3. CASE p.token # None
    <2> DEFINE src  == Ata(p.from, p.token)
               dst  == Ata(p.to, p.token)
               fees == Ata(ProtocolPda, p.token)
    <2>1. tokens' = Move(Move(tokens, src, dst, amount), src, fees, p.fee)
      BY <1>3, PaymentFacts DEF PayFunds, SplTransfer
    <2>2. /\ src \in TokenAccount /\ dst \in TokenAccount /\ fees \in TokenAccount
          /\ src # fees
          /\ dst = fees <=> p.to = ProtocolPda
          /\ dst = src <=> p.to = p.from
      BY <1>0, <1>3, PaymentFacts, Addresses, AtasApart
    <2> HIDE DEF amount, src, dst, fees
    <2>3. /\ dst = fees => tokens'[dst] = tokens[dst] + (amount + p.fee)
          /\ dst # fees => /\ dst # src => tokens'[dst] = tokens[dst] + amount
                           /\ tokens'[fees] = tokens[fees] + p.fee
      BY <1>0, <1>1, <2>1, <2>2, PaymentFacts, TwoMoves
    <2>4. /\ p.to = ProtocolPda => tokens'[dst] - tokens[dst] = p.amount
          /\ p.to # ProtocolPda =>
               /\ p.to # p.from => tokens'[dst] - tokens[dst] = p.amount - p.fee
               /\ tokens'[fees] - tokens[fees] = p.fee
      BY <1>0, <1>1, <2>2, <2>3, PaymentFacts DEF Amount
    <2> QED
      BY <1>3, <2>4 DEF Holding, src, dst, fees
  <1> QED
    BY <1>2, <1>3

\* The step pays payee and protocol what p says, whoever they are.
Attested(p) ==
    LET gain(a) == Holding(a, p.token)' - Holding(a, p.token)
    IN  IF p.to = ProtocolPda THEN gain(p.to) = p.amount
        ELSE /\ p.to # p.from => gain(p.to) = p.amount - p.fee
             /\ gain(ProtocolPda) = p.fee

(* payment writes a receipt when it has paid, and nothing else writes one. *)
LEMMA ReceiptStep ==
  ASSUME PaymentTypeOK, [AnyPaymentNext]_allPayment, NEW p \in Payments,
         receipts[p] = None, receipts'[p] # None
  PROVE  Attested(p)
  <1> SUFFICES PayFunds(p)
    BY PayFundsGive DEF Attested
  <1>1. receipts \in [Payments -> Nat \cup {None}] /\ receipts' # receipts
    BY DEF PaymentTypeOK
  <1>2. ASSUME NEW q \in Payments, NEW deadline \in Deadlines, Pay(q, deadline)
        PROVE  PayFunds(p)
    <2>1. receipts' = [receipts EXCEPT ![q] = now] /\ PayFunds(q)
      BY <1>2 DEF Pay
    <2> QED  BY <1>1, <2>1
  <1>3. ASSUME NEW q \in Payments, ClosePaymentReceipt(q)
        PROVE  FALSE
    <2>1. receipts' = [receipts EXCEPT ![q] = None]
      BY <1>3 DEF ClosePaymentReceipt
    <2> QED  BY <1>1, <2>1
  <1>4. UNCHANGED paymentVars => FALSE
    BY <1>1 DEF paymentVars
  <1>5. UNCHANGED allPayment => FALSE
    BY <1>4 DEF allPayment
  <1> QED
    BY <1>2, <1>3, <1>4, <1>5 DEF AnyPaymentNext, AnyPaymentStep, WithdrawTotalFee

(* ReceiptAttests says this of every step.                                 *)
LEMMA ReceiptsStep ==
  ReceiptAttests <=>
    [][\A p \in Payments : receipts[p] = None /\ receipts'[p] # None => Attested(p)]_allPayment
  BY DEF ReceiptAttests, Attested

(* Theorem.  A receipt appears only in the step that pays the payee and    *)
(* the protocol what the receipt says: payment writes it after both, and   *)
(* nothing else writes one.                                                *)
THEOREM ReceiptsAttest == PaymentSpec => ReceiptAttests
  <1> DEFINE A == \A p \in Payments : receipts[p] = None /\ receipts'[p] # None => Attested(p)
  <1>1. PaymentTypeOK /\ [PaymentNext]_allPayment => [A]_allPayment
    BY ReceiptStep, PaymentAny
  <1>2. ReceiptAttests <=> [][A]_allPayment
    BY ReceiptsStep
  <1> HIDE DEF A
  <1> QED
    BY <1>1, <1>2, PaymentTypeCorrect, PTL DEF PaymentSpec

-----------------------------------------------------------------------------
\* The close duration in force is the first one, or one the operators set.
DurationKnown == config # None /\ config.closePayment \in CloseDurations

\* So long after a payment of that time, its receipt may be gone.
Lapsed(time) == \E duration \in CloseDurations : now > time + duration

\* Of the times a payment was made, all have lapsed but the last, while its
\* receipt is there and dates from it.
OnceInv ==
    /\ DurationKnown
    /\ CopiesRefused
    /\ \A p \in Payments : \A i \in DOMAIN paid[p] :
         \/ Lapsed(paid[p][i].time)
         \/ receipts[p] = paid[p][i].time

(* A duration is a number.                                                 *)
LEMMA DurationsAreNumbers == CloseDurations \subseteq Nat
  <1>1. StartConfig \in ConfigRecord /\ Durations \subseteq Nat
    BY StartIsSetUp, ConfigAssumption
  <1>2. StartConfig.closePayment \in Nat
    BY <1>1 DEF ConfigRecord
  <1> QED
    BY <1>1, <1>2 DEF CloseDurations

(* Only set_close_wait_duration changes the close duration, to one of      *)
(* Durations.                                                              *)
LEMMA DurationStep ==
  ASSUME ConfigTypeOK, DurationKnown, ConfigNext
  PROVE  DurationKnown'
  <1>0. config \in ConfigRecord /\ config # None
    BY DEF ConfigTypeOK, DurationKnown
  <1>1. ASSUME config' = config
        PROVE  DurationKnown'
    BY <1>1 DEF DurationKnown
  <1>2. ASSUME NEW signer \in Wallets, NEW admin \in Admins \cup {None}, InitConfig(signer, admin)
        PROVE  DurationKnown'
    BY <1>0, <1>2, NoneIsNoConfig, ConfigAssumption DEF InitConfig, ConfigRecord, DurationKnown
  <1>3. ASSUME NEW signer \in Wallets, NEW operator \in Wallets,
               AddOperator(signer, operator) \/ RemoveOperator(signer, operator)
        PROVE  DurationKnown'
    BY <1>0, <1>3, NoneIsNoConfig DEF AddOperator, RemoveOperator, ConfigRecord, DurationKnown
  <1>4. ASSUME NEW operator \in Wallets, NEW trade \in Durations \cup {None},
               NEW payment \in Durations \cup {None},
               SetCloseWaitDuration(operator, trade, payment)
        PROVE  DurationKnown'
    BY <1>0, <1>4, NoneIsNoConfig, ConfigAssumption
       DEF SetCloseWaitDuration, ConfigRecord, DurationKnown, CloseDurations
  <1> QED
    BY <1>1, <1>2, <1>3, <1>4 DEF ConfigNext, AddOrUpdateWhitelist, RemoveWhitelist,
                                  AddFeeReceiver, RemoveFeeReceiver

(* What is recorded of a payment are two numbers.                        *)
LEMMA MadeAt ==
  ASSUME NEW s \in Seq(Made), NEW i \in DOMAIN s
  PROVE  s[i] \in Made /\ s[i].time \in Nat /\ s[i].deadline \in Nat
  <1>1. s[i] \in Made
    OBVIOUS
  <1> QED
    BY <1>1 DEF Made

(* What is true of a payment that was made does not become false: a        *)
(* receipt goes when it has lapsed, and time does not go back.             *)
LEMMA OnceStep ==
  ASSUME PaymentTypeOK, OnceInv, [AnyPaymentNext]_allPayment
  PROVE  OnceInv'
  <1>0. /\ ConfigTypeOK /\ now \in Nat
        /\ receipts \in [Payments -> Nat \cup {None}] /\ paid \in [Payments -> Seq(Made)]
        /\ None \notin Nat /\ Deadlines \subseteq Nat
        /\ config \in ConfigRecord /\ config.closePayment \in CloseDurations
        /\ CloseDurations \subseteq Nat
    BY LedgerAssumption, PaymentBounds, DurationsAreNumbers
       DEF PaymentTypeOK, ConfigTypeOK, LedgerTypeOK, OnceInv, DurationKnown
  <1>1. ASSUME NEW p \in Payments, NEW deadline \in Deadlines, Pay(p, deadline)
        PROVE  OnceInv'
    <2> DEFINE made == [time |-> now, deadline |-> deadline]
    <2>1. /\ now <= deadline /\ receipts[p] = None
          /\ receipts' = [receipts EXCEPT ![p] = now]
          /\ paid' = [paid EXCEPT ![p] = Append(@, made)]
          /\ UNCHANGED <<now, config>>
      BY <1>1 DEF Pay, configVars
    <2>2. made \in Made /\ made.time = now /\ made.deadline = deadline /\ paid[p] \in Seq(Made)
      BY <1>0, PaymentBounds DEF Made
    <2>3. ASSUME NEW i \in DOMAIN paid[p]
          PROVE  /\ Lapsed(paid[p][i].time)
                 /\ \E duration \in CloseDurations : deadline > paid[p][i].time + duration
      <3>1. paid[p][i] \in Made /\ paid[p][i].time \in Nat /\ deadline \in Nat
        BY <1>0, <2>2, MadeAt
      <3>2. Lapsed(paid[p][i].time)
        BY <1>0, <2>1, <3>1 DEF OnceInv
      <3>3. PICK duration \in CloseDurations : now > paid[p][i].time + duration
        BY <3>2 DEF Lapsed
      <3>4. deadline > paid[p][i].time + duration
        BY <1>0, <2>1, <3>1, <3>3
      <3> QED  BY <3>2, <3>4
    <2> HIDE DEF made
    <2>4. /\ paid'[p] = Append(paid[p], made) /\ receipts'[p] = now
          /\ \A q \in Payments \ {p} : paid'[q] = paid[q] /\ receipts'[q] = receipts[q]
      BY <1>0, <2>1
    <2>5. /\ DOMAIN paid'[p] = DOMAIN paid[p] \cup {Len(paid[p]) + 1}
          /\ \A i \in DOMAIN paid[p] : paid'[p][i] = paid[p][i] /\ i < Len(paid[p]) + 1 /\ i \in Nat
          /\ paid'[p][Len(paid[p]) + 1] = made
          /\ Len(paid[p]) \in Nat
      BY <2>2, <2>4
    <2>6. CopiesRefused'
      <3> SUFFICES ASSUME NEW q \in Payments, NEW i \in DOMAIN paid'[q], NEW j \in DOMAIN paid'[q], i < j
                   PROVE  \E duration \in CloseDurations :
                            paid'[q][j].deadline > paid'[q][i].time + duration
        BY DEF CopiesRefused
      <3>1. CASE q # p \/ j \in DOMAIN paid[p]
        <4>1. i \in DOMAIN paid[q] /\ j \in DOMAIN paid[q]
          BY <2>4, <2>5, <3>1
        <4>2. paid'[q][i] = paid[q][i] /\ paid'[q][j] = paid[q][j]
          BY <2>4, <2>5, <3>1, <4>1
        <4> QED  BY <4>1, <4>2 DEF OnceInv, CopiesRefused
      <3>2. CASE q = p /\ j = Len(paid[p]) + 1
        <4>1. i \in DOMAIN paid[p] /\ paid'[p][i] = paid[p][i] /\ paid'[p][j].deadline = deadline
          BY <2>2, <2>5, <3>2
        <4> QED  BY <2>3, <3>2, <4>1
      <3> QED  BY <2>5, <3>1, <3>2
    <2>7. ASSUME NEW q \in Payments, NEW i \in DOMAIN paid'[q]
          PROVE  Lapsed(paid[q][i].time)' \/ receipts'[q] = paid'[q][i].time
      <3>0. Lapsed(paid[q][i].time)' <=>
              \E duration \in CloseDurations : now > paid'[q][i].time + duration
        BY <2>1 DEF Lapsed, CloseDurations
      <3>1. CASE q # p
        <4>1. paid'[q] = paid[q] /\ receipts'[q] = receipts[q]
          BY <2>4, <3>1
        <4>2. Lapsed(paid[q][i].time) \/ receipts[q] = paid[q][i].time
          BY <4>1 DEF OnceInv
        <4> QED  BY <3>0, <4>1, <4>2 DEF Lapsed
      <3>2. CASE q = p /\ i \in DOMAIN paid[p]
        <4>1. paid'[q][i] = paid[p][i] /\ Lapsed(paid[p][i].time)
          BY <2>3, <2>5, <3>2
        <4> QED  BY <3>0, <4>1 DEF Lapsed
      <3>3. CASE q = p /\ i = Len(paid[p]) + 1
        BY <2>2, <2>4, <2>5, <3>3
      <3> QED  BY <2>5, <3>1, <3>2, <3>3
    <2>8. DurationKnown'
      BY <2>1 DEF OnceInv, DurationKnown
    <2> QED
      BY <2>6, <2>7, <2>8 DEF OnceInv
  <1>2. ASSUME NEW p \in Payments, ClosePaymentReceipt(p)
        PROVE  OnceInv'
    <2>1. /\ receipts[p] # None /\ now > receipts[p] + config.closePayment
          /\ receipts' = [receipts EXCEPT ![p] = None]
          /\ UNCHANGED <<now, config, paid>>
      BY <1>2 DEF ClosePaymentReceipt, AssertClose, configVars
    <2>2. Lapsed(receipts[p])
      BY <1>0, <2>1 DEF Lapsed
    <2>3. ASSUME NEW q \in Payments, NEW i \in DOMAIN paid[q]
          PROVE  Lapsed(paid[q][i].time)' \/ receipts'[q] = paid[q][i].time
      <3>1. Lapsed(paid[q][i].time) \/ receipts[q] = paid[q][i].time
        BY DEF OnceInv
      <3>2. Lapsed(paid[q][i].time) => Lapsed(paid[q][i].time)'
        BY <2>1 DEF Lapsed
      <3> QED  BY <1>0, <2>1, <2>2, <3>1, <3>2
    <2> QED
      BY <2>1, <2>3 DEF OnceInv, DurationKnown, CopiesRefused
  <1>3. ASSUME UNCHANGED <<receipts, paid>>, DurationKnown', now' \in Nat, now' >= now
        PROVE  OnceInv'
    <2>1. ASSUME NEW q \in Payments, NEW i \in DOMAIN paid[q], Lapsed(paid[q][i].time)
          PROVE  Lapsed(paid[q][i].time)'
      <3>1. paid[q][i].time \in Nat
        BY <1>0, MadeAt
      <3>2. PICK duration \in CloseDurations : now > paid[q][i].time + duration
        BY <2>1 DEF Lapsed
      <3>3. now' > paid[q][i].time + duration
        BY <1>0, <1>3, <3>1, <3>2
      <3> QED  BY <1>3, <3>3 DEF Lapsed
    <2> QED
      BY <1>3, <2>1 DEF OnceInv, CopiesRefused
  <1>4. ASSUME UNCHANGED <<receipts, paid, now, config>>
        PROVE  OnceInv'
    BY <1>4 DEF OnceInv, DurationKnown, CopiesRefused, Lapsed
  <1>5. CASE ConfigNext /\ UNCHANGED paymentVars
    <2>1. DurationKnown'
      BY <1>0, <1>5, DurationStep DEF OnceInv
    <2>2. UNCHANGED now
      BY <1>5 DEF ConfigNext, InitConfig, AddOperator, RemoveOperator, SetCloseWaitDuration,
                  AddOrUpdateWhitelist, RemoveWhitelist, AddFeeReceiver, RemoveFeeReceiver, ledgerVars
    <2> QED
      BY <1>0, <1>3, <1>5, <2>1, <2>2 DEF paymentVars
  <1>6. CASE AnyLedgerNext /\ UNCHANGED <<configVars, paymentVars>>
    <2>1. now' \in Nat /\ now' >= now
      BY <1>0, <1>6, LedgerAssumption DEF AnyLedgerNext, LedgerNext, Tick, CreateAta, CloseAta, GiveLamports, GiveTokens
    <2>2. DurationKnown'
      BY <1>6 DEF OnceInv, DurationKnown, configVars
    <2> QED
      BY <1>3, <1>6, <2>1, <2>2 DEF paymentVars
  <1>7. CASE \E to \in Wallets, token \in Mints \cup {None}, amount \in Nat :
               WithdrawTotalFee(to, token, amount)
    BY <1>4, <1>7 DEF WithdrawTotalFee, configVars, paymentVars
  <1>8. CASE UNCHANGED allPayment
    BY <1>4, <1>8 DEF allPayment, ledgerVars, configVars, paymentVars
  <1> QED
    BY <1>1, <1>2, <1>5, <1>6, <1>7, <1>8 DEF AnyPaymentNext, AnyPaymentStep

(* At the start nothing is paid.                                           *)
LEMMA OnceStarts ==
  ASSUME DeploymentInit, receipts = [p \in Payments |-> None], paid = [p \in Payments |-> <<>>]
  PROVE  OnceInv
  BY StartIsSetUp, NoneIsNoConfig
     DEF DeploymentInit, OnceInv, DurationKnown, CloseDurations, CopiesRefused

(* Theorem.  A payment that is sent again is refused unless its deadline   *)
(* lies beyond the time of every earlier payment plus a close duration     *)
(* that was in force, whichever durations the operators set and whenever   *)
(* receipts are closed.                                                    *)
THEOREM CopiesAlwaysRefused == PaymentSpec => []CopiesRefused
  <1>1. PaymentInit => OnceInv
    BY OnceStarts DEF PaymentInit
  <1>2. PaymentTypeOK /\ OnceInv /\ [PaymentNext]_allPayment => OnceInv'
    BY OnceStep, PaymentAny
  <1>3. OnceInv => CopiesRefused
    BY DEF OnceInv
  <1> QED
    BY <1>1, <1>2, <1>3, PaymentTypeCorrect, PTL DEF PaymentSpec

\* Where a payment was accepted with no more than lifetime left until its
\* deadline, neither it nor an older copy of it is accepted again.
PaysOnceWithin(lifetime) ==
    \A p \in Payments : \A i, j \in DOMAIN paid[p] :
       i < j /\ paid[p][i].deadline <= paid[p][i].time + lifetime =>
          paid[p][j].deadline > paid[p][i].deadline

(* Theorem.  What the operators owe to payers: while no close duration is  *)
(* shorter than the lifetime that payers give to a payment (the script     *)
(* gives 3000 seconds), a payment sent again and again pays once.  Only a  *)
(* later deadline, written after the receipt was closed, pays again.       *)
THEOREM PaidOnce ==
  ASSUME NEW lifetime \in Nat, \A duration \in CloseDurations : duration >= lifetime
  PROVE  PaymentSpec => []PaysOnceWithin(lifetime)
  <1>1. PaymentTypeOK /\ CopiesRefused => PaysOnceWithin(lifetime)
    <2> SUFFICES ASSUME PaymentTypeOK, CopiesRefused, NEW p \in Payments,
                        NEW i \in DOMAIN paid[p], NEW j \in DOMAIN paid[p], i < j,
                        paid[p][i].deadline <= paid[p][i].time + lifetime
                 PROVE  paid[p][j].deadline > paid[p][i].deadline
      BY DEF PaysOnceWithin
    <2>1. paid[p] \in Seq(Made)
      BY DEF PaymentTypeOK
    <2>2. /\ paid[p][i].time \in Nat /\ paid[p][i].deadline \in Nat
          /\ paid[p][j].deadline \in Nat
      BY <2>1, MadeAt
    <2>3. PICK duration \in CloseDurations : paid[p][j].deadline > paid[p][i].time + duration
      BY DEF CopiesRefused
    <2>4. duration \in Nat
      BY DurationsAreNumbers
    <2>5. duration >= lifetime
      OBVIOUS
    <2> QED  BY <2>2, <2>3, <2>4, <2>5
  <1> QED
    BY <1>1, PaymentTypeCorrect, CopiesAlwaysRefused, PTL

-----------------------------------------------------------------------------
(* A payment moves the rent of its receipt, the amount and the fee.        *)
LEMMA PayAddsUp ==
  ASSUME IsFiniteSet(Account), PaymentTypeOK, NEW p \in Payments, PayFunds(p)
  PROVE  LamportsAddUp /\ TokensAddUp
  <1> DEFINE from   == p.from
             to     == p.to
             net    == PaymentAmount(p)
             fee    == p.fee
             opened == OpenReceipt(p)
             sent   == Move(opened, from, to, net)
             after  == Move(sent, from, ProtocolPda, fee)
  <1>1. /\ from \in Account /\ from \in Owner /\ to \in Account /\ to \in Owner
        /\ net \in Int /\ fee \in Int /\ ProtocolPda \in Account
        /\ ReceiptPda(p) \in Account /\ Rent["receipt"] \in Int
        /\ Account \in SUBSET Account
        /\ LedgerTypeOK /\ lamports \in [Account -> Int]
    <2>1. from \in Account /\ from \in Owner /\ to \in Account /\ to \in Owner
      BY PaymentFacts
    <2>2. net \in Int /\ fee \in Int
      BY PaymentFacts DEF PaymentAmount
    <2>3. ProtocolPda \in Account /\ ReceiptPda(p) \in Account /\ Rent["receipt"] \in Int
      BY PaymentFacts, ConfigPdas, LedgerAssumption DEF RentKind
    <2>4. LedgerTypeOK /\ lamports \in [Account -> Int]
      BY DEF PaymentTypeOK, ConfigTypeOK, LedgerTypeOK
    <2> HIDE DEF from, to, net, fee
    <2> QED  BY <2>1, <2>2, <2>3, <2>4
  <1>2. /\ p.token = None => lamports' = after /\ UNCHANGED tokens
        /\ p.token # None =>
             /\ lamports' = opened
             /\ tokens' = SplTransfer(tokens, from, to, p.token, net, fee)
    BY DEF PayFunds
  <1> HIDE DEF net, fee, to
  <1>3. SameSum(Account, Account, lamports, opened)
    <2> HIDE DEF from
    <2>1. opened = Fund(lamports, from, ReceiptPda(p), Rent["receipt"])
      BY DEF OpenReceipt, from
    <2> HIDE DEF opened
    <2> QED  BY <1>1, <2>1, FundSum
  <1> HIDE DEF from, opened
  <1>4. SameSum(Account, Account, opened, sent)
    <2>1. opened \in [Account -> Int]
      BY <1>3 DEF SameSum
    <2> QED  BY <1>1, <2>1, MoveSum
  <1> HIDE DEF sent
  <1>5. SameSum(Account, Account, sent, after)
    <2>1. sent \in [Account -> Int]
      BY <1>4 DEF SameSum
    <2> QED  BY <1>1, <2>1, MoveSum
  <1> HIDE DEF after
  <1>6. CASE p.token = None
    BY <1>1, <1>2, <1>3, <1>4, <1>5, <1>6, SameSumTwice, NothingMoved DEF LamportsAddUp
  <1>7. CASE p.token # None
    <2>1. p.token \in Mints
      BY <1>7, PaymentFacts
    <2>2. TokensAddUp
      BY <1>1, <1>2, <1>7, <2>1, TransferAddsUp
    <2> QED  BY <1>2, <1>3, <1>7, <2>2 DEF LamportsAddUp
  <1> QED
    BY <1>6, <1>7

(* A withdrawal moves fees from the protocol to a fee receiver.            *)
LEMMA WithdrawAddsUp ==
  ASSUME IsFiniteSet(Account), LedgerTypeOK, NEW to \in Wallets, NEW token \in Mints \cup {None},
         NEW amount \in Nat, WithdrawFunds(to, token, amount)
  PROVE  LamportsAddUp /\ TokensAddUp
  <1>1. /\ to \in Account /\ to \in Owner /\ ProtocolPda \in Account /\ ProtocolPda \in Owner
        /\ amount \in Int
    BY Addresses, ConfigPdas, PaymentBounds DEF Owner, Recipient
  <1>2. CASE token = None
    BY <1>1, <1>2, LamportsMoved, NothingMoved DEF WithdrawFunds
  <1>3. CASE token # None
    <2>1. /\ tokens' = SplTransfer(tokens, ProtocolPda, to, token, amount, None)
          /\ UNCHANGED lamports /\ token \in Mints
      BY <1>3 DEF WithdrawFunds
    <2> QED  BY <1>1, <2>1, TransferAddsUp, NothingMoved
  <1> QED
    BY <1>2, <1>3

(* No step of a payment mints or burns.                                    *)
LEMMA PaymentAddsUp ==
  ASSUME IsFiniteSet(Account), PaymentTypeOK, [AnyPaymentNext]_allPayment
  PROVE  LamportsAddUp /\ TokensAddUp
  <1> DEFINE Goal == LamportsAddUp /\ TokensAddUp
  <1>1. LedgerTypeOK /\ ConfigTypeOK
    BY DEF PaymentTypeOK, ConfigTypeOK
  <1>2. ASSUME NEW p \in Payments, NEW deadline \in Deadlines, Pay(p, deadline)
        PROVE  Goal
    BY <1>2, PayAddsUp DEF Pay
  <1>3. ASSUME NEW p \in Payments, ClosePaymentReceipt(p)
        PROVE  Goal
    <2>1. ReceiptPda(p) \in Account /\ p.from \in Account /\ 0 \in Int
      BY PaymentFacts
    <2>2. lamports' = Drain(lamports, ReceiptPda(p), p.from) /\ UNCHANGED tokens
      BY <1>3 DEF ClosePaymentReceipt
    <2> QED  BY <1>1, <2>1, <2>2, LamportsMoved, NothingMoved
  <1>4. ASSUME NEW to \in Wallets, NEW token \in Mints \cup {None},
               NEW amount \in Nat, WithdrawTotalFee(to, token, amount)
        PROVE  Goal
    BY <1>1, <1>4, WithdrawAddsUp DEF WithdrawTotalFee
  <1>5. ASSUME UNCHANGED allPayment
        PROVE  Goal
    BY <1>1, <1>5, NothingMoved DEF allPayment, ledgerVars
  <1> QED
    BY <1>1, <1>2, <1>3, <1>4, <1>5, ConfigAddsUp, LedgerAddsUp DEF AnyPaymentNext, AnyPaymentStep

(* No payment, no closing of a receipt and no withdrawal of fees mints or  *)
(* burns anything.                                                         *)
THEOREM PaymentConservesValue ==
  ASSUME IsFiniteSet(Account)
  PROVE  PaymentSpec => []ValueConserved
  <1>1. PaymentInit => ValueConserved
    BY DEF PaymentInit, DeploymentInit, LedgerInit, ValueConserved
  <1>2. ASSUME PaymentTypeOK, ValueConserved, [PaymentNext]_allPayment
        PROVE  ValueConserved'
    BY <1>2, PaymentAddsUp, PaymentAny, ValueStep DEF PaymentTypeOK, ConfigTypeOK
  <1> QED
    BY <1>1, <1>2, PaymentTypeCorrect, PTL DEF PaymentSpec

-----------------------------------------------------------------------------
(* Nat are never blocked.  FeesReachable says so with ENABLED, on  *)
(* which the prover cannot reason; here withdraw_total_fee is split into   *)
(* what it asks of the state before and the state after that it determines.*)

\* The balances a withdrawal leaves.
WithdrawnLamports(to, token, amount) ==
    IF token = None THEN Move(lamports, ProtocolPda, to, amount) ELSE lamports

WithdrawnTokens(to, token, amount) ==
    IF token = None THEN tokens ELSE SplTransfer(tokens, ProtocolPda, to, token, amount, None)

CanWithdraw(to, token, amount) ==
    /\ to \in feeReceivers
    /\ config # None
    /\ IF token = None
       THEN KeepsRent(amount) /\ RentState(WithdrawnLamports(to, token, amount)[to])
       ELSE SplTransferOk(tokens, ProtocolPda, to, token, amount, None)

WithdrawEffect(to, token, amount) ==
    /\ lamports' = WithdrawnLamports(to, token, amount)
    /\ tokens' = WithdrawnTokens(to, token, amount)
    /\ UNCHANGED <<now, atas, configVars, paymentVars>>

(* withdraw_total_fee succeeds exactly when its demands are met.           *)
THEOREM WithdrawGuardDecides ==
  ASSUME NEW to, NEW token, NEW amount
  PROVE  WithdrawTotalFee(to, token, amount) <=>
           CanWithdraw(to, token, amount) /\ WithdrawEffect(to, token, amount)
  <1>1. CASE token = None
    BY <1>1 DEF WithdrawTotalFee, WithdrawFunds, CanWithdraw, WithdrawEffect,
                WithdrawnLamports, WithdrawnTokens
  <1>2. CASE token # None
    BY <1>2 DEF WithdrawTotalFee, WithdrawFunds, CanWithdraw, WithdrawEffect,
                WithdrawnLamports, WithdrawnTokens
  <1> QED
    BY <1>1, <1>2

\* FeesReachable with what a withdrawal asks for in the place of ENABLED, and
\* with the surplus being an amount that an instruction can name.
FeesPayable == config # None => \A to \in feeReceivers :
    LET surplus == lamports[ProtocolPda] - Rent["wallet"]
    IN  /\ surplus \in Nat
        /\ RentState(lamports[to] + surplus) => CanWithdraw(to, None, surplus)
        /\ \A m \in Mints : {Ata(ProtocolPda, m), Ata(to, m)} \subseteq atas =>
             CanWithdraw(to, m, tokens[Ata(ProtocolPda, m)])

(* Where the protocol's account keeps its rent, all fees can be paid out.  *)
LEMMA NoFeeStranded == PaymentTypeOK /\ ConfigRentHeld => FeesPayable
  <1> SUFFICES ASSUME PaymentTypeOK, ConfigRentHeld, config # None,
                      NEW to \in feeReceivers
               PROVE  LET surplus == lamports[ProtocolPda] - Rent["wallet"]
                      IN  /\ surplus \in Nat
                          /\ RentState(lamports[to] + surplus) => CanWithdraw(to, None, surplus)
                          /\ \A m \in Mints : {Ata(ProtocolPda, m), Ata(to, m)} \subseteq atas =>
                               CanWithdraw(to, m, tokens[Ata(ProtocolPda, m)])
    BY DEF FeesPayable
  <1> DEFINE surplus == lamports[ProtocolPda] - Rent["wallet"]
  <1>1. /\ lamports \in [Account -> Nat] /\ tokens \in [TokenAccount -> Nat]
        /\ to \in Wallets /\ to \in Account /\ ProtocolPda \in Account /\ to # ProtocolPda
        /\ Rent["wallet"] \in Nat
    BY Addresses, KeysApart, Rents DEF PaymentTypeOK, ConfigTypeOK, LedgerTypeOK
  <1>2. lamports[ProtocolPda] >= Rent["wallet"]
    BY DEF ConfigRentHeld
  <1>3. surplus \in Nat
    BY <1>1, <1>2
  <1>4. RentState(lamports[to] + surplus) => CanWithdraw(to, None, surplus)
    <2>1. WithdrawnLamports(to, None, surplus)[to] = lamports[to] + surplus
      <3> HIDE DEF surplus
      <3> QED  BY <1>1, <1>3 DEF WithdrawnLamports, Move
    <2>2. KeepsRent(surplus)
      BY <1>1, <1>2 DEF KeepsRent
    <2> QED  BY <2>1, <2>2 DEF CanWithdraw
  <1>5. ASSUME NEW m \in Mints, {Ata(ProtocolPda, m), Ata(to, m)} \subseteq atas
        PROVE  CanWithdraw(to, m, tokens[Ata(ProtocolPda, m)])
    <2>1. m # None
      BY LedgerAssumption
    <2>2. Ata(ProtocolPda, m) \in TokenAccount
      BY Addresses DEF Owner, Recipient
    <2>3. SplTransferOk(tokens, ProtocolPda, to, m, tokens[Ata(ProtocolPda, m)], None)
      BY <1>1, <1>5, <2>2 DEF SplTransferOk
    <2> QED  BY <2>1, <2>3 DEF CanWithdraw
  <1> QED
    BY <1>3, <1>4, <1>5

(* All that the protocol has earned, down to the rent of its account, can  *)
(* be paid out to every fee receiver that can take it, at any time.        *)
THEOREM FeesAlwaysPayable == PaymentSpec => []FeesPayable
  BY NoFeeStranded, PaymentTypeCorrect, PaymentRentAlwaysHeld, PTL
=============================================================================
