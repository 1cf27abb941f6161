------------------------------- MODULE Trade --------------------------------
(***************************************************************************)
(* The escrow of one side of a cross-chain trade: deposit, set_total_fee,  *)
(* settlement, claim and close_finished_trade, interleaved with each other *)
(* over several trades, with the configuration's instructions, with the    *)
(* clock and with what others do to the accounts involved.  Each           *)
(* instruction is one action, because a transaction is atomic.             *)
(***************************************************************************)
EXTENDS Deployment

CONSTANTS
    Input,           \* trade id -> the depositor, token and amount it is the hash of
    Timeouts,        \* bound: timeouts a depositor chooses
    Mpcs,            \* bound: wallets a depositor names as mpc
    Refunds,         \* bound: addresses a depositor names for the refund
    Pmms,            \* bound: addresses an mpc settles to
    Fees             \* bound: total fees an mpc sets

VARIABLES
    tradeDetail,     \* trade id -> its trade detail PDA, None if there is none
    tradeVault,      \* the trade ids that have a vault PDA
    nonceCheck,      \* the ephemeral keys that have a nonce check PDA
    nonceAccount     \* the ephemeral keys that hold a durable nonce account

tradeVars == <<tradeDetail, tradeVault, nonceCheck, nonceAccount>>
vars == <<ledgerVars, configVars, tradeVars>>

TradeStatus == {"Deposited", "Settled", "Claimed"}

TradeDetail == [user : Wallets, token : Mints \cup {None}, amount : Nat,
                timeout : Nat, mpc : Wallets, eph : Ephemerals,
                refund : Recipient, totalFee : Nat \cup {None},
                status : TradeStatus, settledPmm : Recipient \cup {None}]

\* A trade id is the SHA-256 of the input, so it determines the input.
ASSUME InputAssumption ==
    Input \in [TradeIds -> [user : Wallets, token : Mints \cup {None}, amount : Nat]]

ASSUME TradeBounds ==
    /\ Timeouts \subseteq Nat
    /\ Mpcs \subseteq Wallets
    /\ Refunds \subseteq Recipient
    /\ Pmms \subseteq Recipient
    /\ Fees \subseteq Nat

ASSUME NoneIsNoTrade == None \notin TradeDetail

ASSUME NoneIsNoEscrow ==
    None \notin [phase : TradeStatus, due : Nat, deadline : Nat, held : Int]

Exists(t)    == tradeDetail[t] # None
Open(t)      == Exists(t) /\ tradeDetail[t].status = "Deposited"
Finished(t)  == Exists(t) /\ tradeDetail[t].status # "Deposited"

TradeTypeOK ==
    /\ ConfigTypeOK
    /\ tradeDetail \in [TradeIds -> TradeDetail \cup {None}]
    /\ tradeVault \subseteq TradeIds
    /\ nonceCheck \subseteq Ephemerals
    /\ nonceAccount \subseteq Ephemerals

-----------------------------------------------------------------------------
(* deposit                                                                 *)

\* Anchor's init of the trade detail, the nonce check and the vault.
FundTrade(t, e) ==
    LET user   == Input[t].user
        detail == Fund(lamports, user, TradePda(t), Rent["trade"])
        nonce  == Fund(detail, user, NoncePda(e), Rent["nonce"])
    IN  Fund(nonce, user, VaultPda(t), Rent["vault"])

NewTrade(t, timeout, mpc, refund, e) ==
    [user |-> Input[t].user, token |-> Input[t].token, amount |-> Input[t].amount,
     timeout |-> timeout, mpc |-> mpc, eph |-> e, refund |-> refund,
     totalFee |-> None, status |-> "Deposited", settledPmm |-> None]

\* Mistaken variant: lamports moved by hand, without the system program's
\* refusal of an overdraft.
DepositFundsByHand(t, e) ==
    /\ lamports' = Move(FundTrade(t, e), Input[t].user, VaultPda(t), Input[t].amount)
    /\ UNCHANGED tokens

DepositFunds(t, e) ==
    LET user == Input[t].user
        token == Input[t].token
        amount == Input[t].amount
    IN  /\ IF token = None
           THEN /\ lamports' = Move(FundTrade(t, e), user, VaultPda(t), amount)
                /\ UNCHANGED tokens
           ELSE /\ lamports' = FundTrade(t, e)
                /\ SplTransferOk(tokens, user, VaultPda(t), token, amount, None)
                /\ tokens' = SplTransfer(tokens, user, VaultPda(t), token, amount, None)
        /\ Afforded(lamports', user)

\* Mistaken variant: init_if_needed on the nonce check PDA.
NonceFreeIfNoAccount(e) == e \notin nonceAccount

\* Mistaken variant: a nonce account that is left from before is no obstacle.
NonceFreeOfCheck(e) == e \notin nonceCheck

\* The ephemeral key holds no data, and has no nonce check PDA.
NonceFree(e) == e \notin nonceAccount /\ e \notin nonceCheck

Deposit(t, timeout, mpc, refund, e) ==
    /\ NonceFree(e)
    /\ now <= timeout
    /\ Input[t].amount > 0
    /\ LET minimum == whitelist[Listed(Input[t].token)]
       IN  minimum # None /\ minimum <= Input[t].amount
    /\ ~Exists(t) /\ t \notin tradeVault
    /\ DepositFunds(t, e)
    /\ tradeDetail' = [tradeDetail EXCEPT ![t] = NewTrade(t, timeout, mpc, refund, e)]
    /\ tradeVault' = tradeVault \cup {t}
    /\ nonceCheck' = nonceCheck \cup {e}
    /\ UNCHANGED <<now, atas, configVars, nonceAccount>>

-----------------------------------------------------------------------------
(* set_total_fee, signed by the mpc.  The status is not looked at.         *)

SetTotalFee(t, fee) ==
    /\ Exists(t)
    /\ now <= tradeDetail[t].timeout
    /\ fee <= tradeDetail[t].amount
    /\ tradeDetail' = [tradeDetail EXCEPT ![t].totalFee = fee]
    /\ UNCHANGED <<ledgerVars, configVars, tradeVault, nonceCheck, nonceAccount>>

-----------------------------------------------------------------------------
(* settlement, signed by the mpc and the ephemeral key                     *)

\* Mistaken variant: the timeout is not looked at.
AssertSettlementAnyTime(t) == Open(t)

AssertSettlement(t) == Open(t) /\ now <= tradeDetail[t].timeout

Fee(t) == IF tradeDetail[t].totalFee = None THEN 0 ELSE tradeDetail[t].totalFee

\* Mistaken variant: the fee is paid on top of the amount.
SettlementAmountGross(t) == tradeDetail[t].amount

SettlementAmount(t) == tradeDetail[t].amount - Fee(t)

\* The nonce check PDA is closed to the depositor, at the end of settlement
\* and of claim.
CloseNonceCheck(t, bal) == Drain(bal, NoncePda(tradeDetail[t].eph), tradeDetail[t].user)

PayPmm(t, pmm) ==
    LET d == tradeDetail[t]
    IN  IF d.token = None
        THEN LET taken   == [lamports EXCEPT ![VaultPda(t)] = @ - d.amount]
                 settled == [taken EXCEPT ![pmm] = @ + SettlementAmount(t)]
                 paid    == [settled EXCEPT ![ProtocolPda] = @ + Fee(t)]
             IN  /\ lamports[VaultPda(t)] >= d.amount
                 /\ lamports' = CloseNonceCheck(t, paid)
                 /\ RentState(lamports'[pmm])
                 /\ UNCHANGED tokens
        ELSE /\ SplTransferOk(tokens, VaultPda(t), pmm, d.token, SettlementAmount(t), d.totalFee)
             /\ tokens' = SplTransfer(tokens, VaultPda(t), pmm, d.token,
                                      SettlementAmount(t), d.totalFee)
             /\ lamports' = CloseNonceCheck(t, lamports)

\* Mistaken variant: the new status is not stored.
SettledStillOpen(t, pmm) == [tradeDetail[t] EXCEPT !.settledPmm = pmm]

Settled(t, pmm) == [tradeDetail[t] EXCEPT !.status = "Settled", !.settledPmm = pmm]

Settlement(t, pmm) ==
    /\ AssertSettlement(t)
    /\ config # None                     \* the protocol PDA exists
    /\ tradeDetail[t].eph \in nonceCheck /\ t \in tradeVault
    /\ Fee(t) <= tradeDetail[t].amount   \* the subtraction is checked
    /\ PayPmm(t, pmm)
    /\ tradeDetail' = [tradeDetail EXCEPT ![t] = Settled(t, pmm)]
    /\ nonceCheck' = nonceCheck \ {tradeDetail[t].eph}
    /\ UNCHANGED <<now, atas, configVars, tradeVault, nonceAccount>>

-----------------------------------------------------------------------------
(* claim, by anyone                                                        *)

\* Mistaken variant: < instead of <=, so that both ways out are open at once.
AssertClaimAtTimeout(t) == Open(t) /\ now >= tradeDetail[t].timeout

\* Mistaken variant: the token must still be whitelisted.
AssertClaimListed(t) ==
    /\ Open(t)
    /\ now > tradeDetail[t].timeout
    /\ whitelist[Listed(tradeDetail[t].token)] # None

AssertClaim(t) == Open(t) /\ now > tradeDetail[t].timeout

\* Mistaken variant: everything in the vault is refunded, its rent included.
PayRefundWithRent(t) ==
    /\ lamports' = CloseNonceCheck(t, Drain(lamports, VaultPda(t), tradeDetail[t].refund))
    /\ UNCHANGED tokens

PayRefund(t) ==
    LET d == tradeDetail[t]
    IN  IF d.token = None
        THEN /\ lamports[VaultPda(t)] >= d.amount
             /\ lamports' = CloseNonceCheck(t, Move(lamports, VaultPda(t), d.refund, d.amount))
             /\ RentState(lamports'[d.refund])
             /\ UNCHANGED tokens
        ELSE /\ SplTransferOk(tokens, VaultPda(t), d.refund, d.token, d.amount, None)
             /\ tokens' = SplTransfer(tokens, VaultPda(t), d.refund, d.token, d.amount, None)
             /\ lamports' = CloseNonceCheck(t, lamports)

Claim(t) ==
    /\ AssertClaim(t)
    /\ tradeDetail[t].eph \in nonceCheck /\ t \in tradeVault
    /\ PayRefund(t)
    /\ tradeDetail' = [tradeDetail EXCEPT ![t].status = "Claimed"]
    /\ nonceCheck' = nonceCheck \ {tradeDetail[t].eph}
    /\ UNCHANGED <<now, atas, configVars, tradeVault, nonceAccount>>

-----------------------------------------------------------------------------
(* close_finished_trade                                                    *)

\* Mistaken variant: only the mpc ever closes a settled trade.
AssertCloseByMpc(signer, t) ==
    /\ Finished(t)
    /\ tradeDetail[t].status = "Settled" => signer = tradeDetail[t].mpc

AssertCloseFinishedTrade(signer, t) ==
    /\ Finished(t)
    /\ tradeDetail[t].status = "Settled" /\ signer # tradeDetail[t].mpc =>
          now > tradeDetail[t].timeout + config.closeTrade

\* What is left in the vault's token account goes to the depositor's, and
\* the account is closed.
CloseVaultAta(t) ==
    LET d == tradeDetail[t]
        vaultAta == Ata(VaultPda(t), d.token)
        userAta == Ata(d.user, d.token)
    IN  /\ {vaultAta, userAta} \subseteq atas
        /\ tokens' = Drain(tokens, vaultAta, userAta)
        /\ atas' = atas \ {vaultAta}

\* Mistaken variant: the rent goes to the mpc, the usual signer.
CloseTradeLamportsToMpc(t) ==
    LET d == tradeDetail[t]
        bal == IF d.token = None THEN lamports
               ELSE Drain(lamports, Ata(VaultPda(t), d.token), d.user)
    IN  Drain(Drain(bal, TradePda(t), d.mpc), VaultPda(t), d.mpc)

\* The token account first, then, when Anchor closes them, the trade detail
\* and the vault.
CloseTradeLamports(t) ==
    LET d == tradeDetail[t]
        bal == IF d.token = None THEN lamports
               ELSE Drain(lamports, Ata(VaultPda(t), d.token), d.user)
    IN  Drain(Drain(bal, TradePda(t), d.user), VaultPda(t), d.user)

CloseFinishedTrade(signer, t) ==
    /\ config # None
    /\ AssertCloseFinishedTrade(signer, t)
    /\ t \in tradeVault
    /\ IF tradeDetail[t].token = None THEN UNCHANGED <<tokens, atas>>
       ELSE CloseVaultAta(t)
    /\ lamports' = CloseTradeLamports(t)
    /\ tradeDetail' = [tradeDetail EXCEPT ![t] = None]
    /\ tradeVault' = tradeVault \ {t}
    /\ UNCHANGED <<now, configVars, nonceCheck, nonceAccount>>

-----------------------------------------------------------------------------
(* Durable nonce accounts, which the SDK creates at the ephemeral key and  *)
(* the mpc, its authority, withdraws.                                      *)

CreateNonceAccount(payer, e) ==
    /\ e \notin nonceAccount
    /\ lamports[e] = 0
    /\ lamports' = Fund(lamports, payer, e, Rent["durable"])
    /\ Afforded(lamports', payer)
    /\ nonceAccount' = nonceAccount \cup {e}
    /\ UNCHANGED <<now, atas, tokens, configVars, tradeDetail, tradeVault, nonceCheck>>

WithdrawNonceAccount(to, e) ==
    /\ e \in nonceAccount
    /\ lamports' = Drain(lamports, e, to)
    /\ nonceAccount' = nonceAccount \ {e}
    /\ UNCHANGED <<now, atas, tokens, configVars, tradeDetail, tradeVault, nonceCheck>>

-----------------------------------------------------------------------------
TradeInit ==
    /\ DeploymentInit
    /\ tradeDetail = [t \in TradeIds |-> None]
    /\ tradeVault = {}
    /\ nonceCheck = {}
    /\ nonceAccount = {}

TradeStep ==
    \/ \E t \in TradeIds, timeout \in Timeouts, mpc \in Mpcs, refund \in Refunds,
          e \in Ephemerals : Deposit(t, timeout, mpc, refund, e)
    \/ \E t \in TradeIds, fee \in Fees : SetTotalFee(t, fee)
    \/ \E t \in TradeIds, pmm \in Pmms : Settlement(t, pmm)
    \/ \E t \in TradeIds : Claim(t)
    \/ \E signer \in Wallets, t \in TradeIds : CloseFinishedTrade(signer, t)

NonceStep ==
    \/ \E payer \in Helpers, e \in Ephemerals : CreateNonceAccount(payer, e)
    \/ \E to \in Helpers, e \in Ephemerals : WithdrawNonceAccount(to, e)

TradeNext ==
    \/ TradeStep
    \/ NonceStep
    \/ ConfigNext /\ UNCHANGED tradeVars
    \/ LedgerNext /\ UNCHANGED <<configVars, tradeVars>>

TradeSpec == TradeInit /\ [][TradeNext]_vars

\* Time passes.  Anyone may send claim and create the token account a payout
\* needs, and somebody does if it keeps being possible; the depositor closes
\* the trade to have the rent back.  Nothing is assumed of the mpc, the pmm or
\* the operators.
Fairness ==
    /\ WF_vars(Tick /\ UNCHANGED <<configVars, tradeVars>>)
    /\ \A o \in Recipient, m \in Mints :
         WF_vars((\E payer \in Helpers : CreateAta(payer, o, m))
                   /\ UNCHANGED <<configVars, tradeVars>>)
    /\ \A t \in TradeIds :
         /\ SF_vars(Claim(t))
         /\ SF_vars(CloseFinishedTrade(Input[t].user, t))

FairTradeSpec == TradeSpec /\ Fairness

-----------------------------------------------------------------------------
(* Safety                                                                  *)

\* What the vault of a trade holds for it, beyond its own rent.
Custody(t) ==
    IF tradeDetail[t].token = None THEN lamports[VaultPda(t)] - Rent["vault"]
    ELSE tokens[Ata(VaultPda(t), tradeDetail[t].token)]

(* Until it is settled or claimed, a trade's vault holds the whole amount  *)
(* of that trade: no fee setting, no other trade of the same depositor, no *)
(* gift and no withdrawal of a whitelist entry touches it.                 *)
VaultSolvent == \A t \in TradeIds : Open(t) =>
    /\ Custody(t) >= tradeDetail[t].amount
    /\ tradeDetail[t].token # None =>
         Ata(VaultPda(t), tradeDetail[t].token) \in atas

(* The nonce check PDAs are exactly those of the open trades, and no two   *)
(* open trades share one: an ephemeral key, with the settlement it has     *)
(* signed in advance, serves one trade at a time.                          *)
NonceGuardsOneTrade ==
    /\ nonceCheck = {tradeDetail[t].eph : t \in {u \in TradeIds : Open(u)}}
    /\ \A t, u \in TradeIds :
         Open(t) /\ Open(u) /\ tradeDetail[t].eph = tradeDetail[u].eph => t = u

(* Trade detail and vault come and go together, and every account of a     *)
(* trade holds its rent for as long as it lives, whatever was sent to its  *)
(* address before and whatever was paid out of it.                         *)
TradeRentHeld ==
    /\ tradeVault = {t \in TradeIds : Exists(t)}
    /\ \A t \in tradeVault :
         /\ lamports[TradePda(t)] >= Rent["trade"]
         /\ lamports[VaultPda(t)] >= Rent["vault"]
    /\ \A e \in nonceCheck : lamports[NoncePda(e)] >= Rent["nonce"]
    /\ \A e \in nonceAccount : lamports[e] >= Rent["durable"]
    /\ \A a \in atas : lamports[a] >= Rent["ata"]

\* An address can be paid lamports, or tokens of the trade.
Payable(t, to, amount) ==
    IF tradeDetail[t].token = None THEN RentState(lamports[to] + amount)
    ELSE Ata(to, tradeDetail[t].token) \in atas

(* A deposit is never stuck.  Up to the timeout the mpc can settle it, and *)
(* afterwards anyone can have it refunded, as soon as the receiving side   *)
(* can be paid; a claimed trade can be closed by anyone.  Removing the     *)
(* token from the whitelist, changing the durations or setting a fee in    *)
(* the meantime cannot prevent it.                                         *)
NeverStuck == \A t \in TradeIds : Exists(t) =>
    LET d == tradeDetail[t] IN
    /\ Open(t) /\ now > d.timeout /\ Payable(t, d.refund, d.amount) => ENABLED Claim(t)
    /\ \A pmm \in Pmms :
         Open(t) /\ now <= d.timeout /\ Payable(t, pmm, SettlementAmount(t))
           /\ (d.token # None => Ata(ProtocolPda, d.token) \in atas)
         => ENABLED Settlement(t, pmm)
    /\ d.status = "Claimed" /\ (d.token # None => Ata(d.user, d.token) \in atas) =>
         \A signer \in Wallets : ENABLED CloseFinishedTrade(signer, t)

(* Closing a finished trade brings the depositor, and nobody else, all     *)
(* that is left: the rent of every account of the trade and whatever was   *)
(* sent to them besides, lamports and tokens.                              *)
CloseReturnsEverything ==
    [][\A t \in TradeIds : Exists(t) /\ ~Exists(t)' =>
         LET d == tradeDetail[t]
             left == {TradePda(t), VaultPda(t)} \cup
                       IF d.token = None THEN {} ELSE {Ata(VaultPda(t), d.token)}
         IN  /\ \A a \in left : lamports'[a] = 0
             /\ lamports'[d.user] = lamports[d.user] + SumFunctionOnSet(lamports, left)
             /\ d.token # None =>
                  /\ Ata(VaultPda(t), d.token) \notin atas'
                  /\ tokens'[Ata(d.user, d.token)] = tokens[Ata(d.user, d.token)] + Custody(t)
      ]_vars

(* The trades are escrows: see module Escrow for what that promises.       *)
EscrowView == [t \in TradeIds |->
    IF ~Exists(t) THEN None
    ELSE [phase |-> tradeDetail[t].status, due |-> tradeDetail[t].amount,
          deadline |-> tradeDetail[t].timeout, held |-> Custody(t)]]

Escrowed == INSTANCE Escrow WITH escrow <- EscrowView

ImplementsEscrow == Escrowed!Spec

-----------------------------------------------------------------------------
(* Liveness                                                                *)

(* A deposit does not stay in the vault for ever: it is settled or, once   *)
(* the timeout has passed, refunded, even if mpc and pmm do nothing.       *)
DepositResolves == \A t \in TradeIds : Open(t) ~> ~Open(t)

(* The rent of a trade does not stay locked either: anyone can close the   *)
(* trade eventually, however operators move the close duration within      *)
(* bounds, and even if the mpc never does.                                 *)
RentReturns == \A t \in TradeIds : Exists(t) ~> ~Exists(t)
=============================================================================
