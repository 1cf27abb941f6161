------------------------------ MODULE Builders -------------------------------
(***************************************************************************)
(* The instruction builders of the SDK.  A builder reads accounts of the   *)
(* chain, one awaited call after the other, and from the answers makes the *)
(* instructions of one transaction.  Here a builder is two operators of    *)
(* its parameters c and of the answers it has so far: its reads, in order, *)
(* and its instructions once all are answered.                             *)
(***************************************************************************)
EXTENDS Interface, Sequences

\* What a client can ask.  A required read throws when there is no account.
Read(about, of, token, required) ==
    [about |-> about, of |-> of, token |-> token, required |-> required]

ReadTrade(t)          == Read("trade", t, None, TRUE)
ReadReceipt(p)        == Read("receipt", p, None, TRUE)
ReadAta(o, token)     == Read("ata", o, token, FALSE)
ReadEntry(m, must)    == Read("whitelist", m, None, must)

\* getTokenBalance
ReadBalance(o, token) == Read("balance", o, token, TRUE)

Answer(read) ==
    CASE read.about = "trade"     -> tradeDetail[read.of]
      [] read.about = "receipt"   -> receipts[read.of]
      [] read.about = "whitelist" -> whitelist[read.of]
      [] read.about = "ata"       -> IF Ata(read.of, read.token) \in atas THEN read ELSE None
      [] read.about = "balance"   ->
            CASE read.token = None                      -> lamports[read.of]
              [] Ata(read.of, read.token) \in atas      -> tokens[Ata(read.of, read.token)]
              [] OTHER                                  -> None

-----------------------------------------------------------------------------
(* helpers.ts                                                              *)

CreateAtaIx(payer, o, token) ==
    [op |-> "createAta", signer |-> payer, owner |-> o, token |-> token]

AtaReads(o, token) == IF token = None THEN <<>> ELSE <<ReadAta(o, token)>>

\* createAssociatedTokenAccountInstructionIfNeeded; answer is that of AtaReads.
CreateAtaIfNeeded(payer, o, token, answer) ==
    IF token # None /\ answer = <<None>> THEN <<CreateAtaIx(payer, o, token)>> ELSE <<>>

\* The nth answer as a sequence, empty when there was no such read.
Nth(got, n) == IF n <= Len(got) THEN <<got[n]>> ELSE <<>>

-----------------------------------------------------------------------------
(* deposit.ts, emepheral_nonce_account.ts                                  *)

CreateDeposit(c) ==
    <<[op |-> "deposit", signer |-> c.user, trade |-> c.trade, timeout |-> c.timeout,
       mpc |-> c.mpc, refund |-> c.refund, ephemeral |-> c.ephemeral,
       token |-> Input[c.trade].token]>>

DepositReads(c) == AtaReads(VaultPda(c.trade), Input[c.trade].token)

DepositAndVaultAtaIfNeeded(c, got) ==
    CreateAtaIfNeeded(c.user, VaultPda(c.trade), Input[c.trade].token, Nth(got, 1))
      \o CreateDeposit(c)

CreateEphemeralNonceAccount(user, ephemeral) ==
    <<[op |-> "createNonce", signer |-> user, ephemeral |-> ephemeral]>>

\* Mistaken variant: the durable nonce account is left for later.
DepositWithoutNonceAccount(c, got) == DepositAndVaultAtaIfNeeded(c, got)

DepositAndVaultAtaIfNeededAndNonceAccount(c, got) ==
    DepositAndVaultAtaIfNeeded(c, got) \o CreateEphemeralNonceAccount(c.user, c.ephemeral)

-----------------------------------------------------------------------------
(* set_total_fee.ts, settlement.ts                                         *)

CreateSetTotalFee(c) ==
    <<[op |-> "setTotalFee", signer |-> c.mpc, trade |-> c.trade, amount |-> c.amount]>>

SettlementReads(c) == <<ReadTrade(c.trade)>>

\* No token account is created for the pmm or the protocol.
CreateSettlement(c, got) ==
    <<[op |-> "settlement", signer |-> c.mpc, trade |-> c.trade, ephemeral |-> c.ephemeral,
       user |-> got[1].user, refund |-> got[1].refund, pmm |-> c.pmm, token |-> got[1].token]>>

-----------------------------------------------------------------------------
(* claim.ts, close_finished_trade.ts                                       *)

\* The trade is read for its refund address, and again by Anchor for the
\* ephemeral key from which it derives the nonce check PDA.
ClaimReads(c, got) ==
    <<ReadTrade(c.trade), ReadTrade(c.trade)>> \o
      IF got = <<>> \/ got[1] = None THEN <<>>
      ELSE AtaReads(got[1].refund, got[1].token) \o AtaReads(ProtocolPda, got[1].token)

ClaimIx(c, got) ==
    [op |-> "claim", signer |-> c.user, trade |-> c.trade, user |-> got[1].user,
     refund |-> got[1].refund, ephemeral |-> got[2].eph, token |-> got[1].token]

\* Mistaken variant: the refund address is taken to have a token account.
ClaimWithoutRefundAta(c, got) ==
    CreateAtaIfNeeded(c.user, ProtocolPda, got[1].token, Nth(got, 4)) \o <<ClaimIx(c, got)>>

ClaimAndRefundAtaAndProtocolAtaIfNeeded(c, got) ==
    CreateAtaIfNeeded(c.user, got[1].refund, got[1].token, Nth(got, 3))
      \o CreateAtaIfNeeded(c.user, ProtocolPda, got[1].token, Nth(got, 4))
      \o <<ClaimIx(c, got)>>

CloseReads(c) == <<ReadTrade(c.trade)>>

\* The depositor's token account is named, and not created.
CreateCloseFinishedTrade(c, got) ==
    <<[op |-> "closeFinishedTrade", signer |-> c.user, trade |-> c.trade,
       user |-> got[1].user, token |-> got[1].token]>>

-----------------------------------------------------------------------------
(* payment.ts, close_payment_receipt.ts                                    *)

PaymentReads(c) ==
    AtaReads(c.payment.to, c.payment.token) \o AtaReads(ProtocolPda, c.payment.token)

CreatePayment(c) ==
    <<[op |-> "payment", signer |-> c.payment.from, payment |-> c.payment,
       deadline |-> c.deadline]>>

PaymentAndRefundAtaAndProtocolAtaIfNeeded(c, got) ==
    CreateAtaIfNeeded(c.payment.from, c.payment.to, c.payment.token, Nth(got, 1))
      \o CreateAtaIfNeeded(c.payment.from, ProtocolPda, c.payment.token, Nth(got, 2))
      \o CreatePayment(c)

ReceiptReads(c) == <<ReadReceipt(c.payment)>>

CreateClosePaymentReceipt(c) ==
    <<[op |-> "closePaymentReceipt", signer |-> c.payment.from, payment |-> c.payment]>>

-----------------------------------------------------------------------------
(* withdraw_total_fee.ts                                                   *)

WithdrawReads(c) ==
    AtaReads(c.receiver, c.token) \o <<ReadBalance(ProtocolPda, c.token)>>

\* Mistaken variant: the rent of the protocol PDA is withdrawn too.
AvailableWithRent(c, got) == got[Len(got)]

\* What the balance last read leaves to withdraw, for None in c.amount all.
Available(c, got) == got[Len(got)] - (IF c.token = None THEN Rent["wallet"] ELSE 0)

WithdrawAmount(c, got) == IF c.amount = None THEN Available(c, got) ELSE c.amount

\* Anything above what is available throws InvalidParamError.
WithdrawThrows(c, got) == WithdrawAmount(c, got) > Available(c, got)

ReceiverAtaIfNeededAndWithdrawTotalFee(c, got) ==
    CreateAtaIfNeeded(c.signer, c.receiver, c.token, Nth(got, Len(got) - 1))
      \o <<[op |-> "withdrawTotalFee", signer |-> c.signer, to |-> c.receiver,
            token |-> c.token, amount |-> WithdrawAmount(c, got)]>>

-----------------------------------------------------------------------------
(* intialize.ts, manage_operator.ts, manage_config.ts                      *)

CreateInitializeProgram(c) == <<[op |-> "init", signer |-> c.signer, admin |-> c.admin]>>

CreateAddOperator(c) ==
    <<[op |-> "addOrRemoveOperator", signer |-> c.signer, operator |-> c.operator, isAdd |-> TRUE]>>

CreateRemoveOperator(c) ==
    <<[op |-> "addOrRemoveOperator", signer |-> c.signer, operator |-> c.operator, isAdd |-> FALSE]>>

CreateAddOrUpdateWhitelist(c) ==
    <<[op |-> "addOrUpdateWhitelist", operator |-> c.operator, token |-> c.token,
       amount |-> c.amount]>>

\* The SDK always names the entry of the token itself.
CreateRemoveWhitelist(c) ==
    <<[op |-> "removeWhitelist", operator |-> c.operator, token |-> c.token, entry |-> c.token]>>

CreateSetCloseWaitDuration(c) ==
    <<[op |-> "setCloseWaitDuration", operator |-> c.operator, closeTrade |-> c.closeTrade,
       closePayment |-> c.closePayment]>>

CreateAddFeeReceiver(c) ==
    <<[op |-> "addFeeReceiver", signer |-> c.signer, receiver |-> c.receiver]>>

CreateRemoveFeeReceiver(c) ==
    <<[op |-> "removeFeeReceiver", signer |-> c.signer, receiver |-> c.receiver]>>
=============================================================================
