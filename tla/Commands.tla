------------------------------ MODULE Commands -------------------------------
(***************************************************************************)
(* The transactions that the command line and the scripts put together     *)
(* from the builders of the SDK, with the key pairs that sign them.        *)
(***************************************************************************)
EXTENDS Builders

Tx(signers, instructions) == [signers |-> signers, instructions |-> instructions]

-----------------------------------------------------------------------------
(* scripts/cli/index.ts                                                    *)

InitializeCommand(c)     == Tx({c.signer}, CreateInitializeProgram(c))
AddOperatorCommand(c)    == Tx({c.signer}, CreateAddOperator(c))
RemoveOperatorCommand(c) == Tx({c.signer}, CreateRemoveOperator(c))
AddReceiverCommand(c)    == Tx({c.signer}, CreateAddFeeReceiver(c))
RemoveReceiverCommand(c) == Tx({c.signer}, CreateRemoveFeeReceiver(c))

\* Both durations are required, and strings, so that "0" is a duration.
SetCloseDurationCommand(c) == Tx({c.operator}, CreateSetCloseWaitDuration(c))

\* The entry is read for the log only.
UpdateWhitelistReads(c) == AtaReads(ProtocolPda, c.token) \o <<ReadEntry(c.token, FALSE)>>

\* Mistaken variant: the token account is made when the entry was there before.
UpdateWhitelistCommandFirstTime(c, got) ==
    Tx({c.operator}, CreateAddOrUpdateWhitelist(c) \o
         IF got[2] # None THEN CreateAtaIfNeeded(c.operator, ProtocolPda, c.token, Nth(got, 1))
         ELSE <<>>)

UpdateWhitelistCommand(c, got) ==
    Tx({c.operator}, CreateAddOrUpdateWhitelist(c)
                       \o CreateAtaIfNeeded(c.operator, ProtocolPda, c.token, Nth(got, 1)))

\* A token that is not whitelisted is an error.
RemoveWhitelistReads(c) == <<ReadEntry(c.token, TRUE)>>

RemoveWhitelistCommand(c) == Tx({c.operator}, CreateRemoveWhitelist(c))

\* withdraw-fee withdraws everything: amount is null.
WithdrawFeeCommand(c, got) == Tx({c.signer}, ReceiverAtaIfNeededAndWithdrawTotalFee(c, got))

-----------------------------------------------------------------------------
(* scripts/new-apis                                                        *)

\* deposit.ts
DepositScript(c, got) ==
    Tx({c.user, c.ephemeral}, DepositAndVaultAtaIfNeededAndNonceAccount(c, got))

\* The builder of the SDK for a deposit without a nonce account of its own.
DepositOnly(c, got) == Tx({c.user, c.ephemeral}, DepositAndVaultAtaIfNeeded(c, got))

\* deposit_setfee_settlement.ts
SetTotalFeeScript(c) == Tx({c.mpc}, CreateSetTotalFee(c))

\* deposit_settlement.ts: the token accounts that settlement needs.
SettlementAtasReads(c) == AtaReads(c.pmm, c.token) \o AtaReads(ProtocolPda, c.token)

SettlementAtasScript(c, got) ==
    Tx({c.mpc}, CreateAtaIfNeeded(c.mpc, c.pmm, c.token, Nth(got, 1))
                  \o CreateAtaIfNeeded(c.mpc, ProtocolPda, c.token, Nth(got, 2)))

\* claim.ts
ClaimScript(c, got) == Tx({c.user}, ClaimAndRefundAtaAndProtocolAtaIfNeeded(c, got))

WithdrawNonceIx(c) ==
    [op |-> "withdrawNonce", signer |-> c.user, to |-> c.to, ephemeral |-> c.ephemeral,
     lamports |-> Rent["durable"]]

\* close_ephemeral_nonce.ts
CloseNonceScript(c) == Tx({c.user}, <<WithdrawNonceIx(c)>>)

\* close_finished_trade_and_ephemeral_nonce.ts
CloseTradeAndNonceScript(c, got) ==
    Tx({c.user}, CreateCloseFinishedTrade(c, got) \o <<WithdrawNonceIx(c)>>)

\* The builder of the SDK by itself, which leaves the nonce account alone.
CloseTradeOnly(c, got) == Tx({c.user}, CreateCloseFinishedTrade(c, got))

\* payment.ts, close_payment_receipt.ts
PaymentScript(c, got) == Tx({c.payment.from}, PaymentAndRefundAtaAndProtocolAtaIfNeeded(c, got))

ClosePaymentReceiptScript(c) == Tx({c.payment.from}, CreateClosePaymentReceipt(c))
=============================================================================
