------------------------------- MODULE Client --------------------------------
(***************************************************************************)
(* Clients at work.  A call of a command reads what its builders read, one *)
(* answer at a time, while everybody else goes on; the transaction it then *)
(* makes reaches the chain later or never, and executes as a whole or not  *)
(* at all.  Calls run concurrently, fail, and may be repeated for ever.    *)
(***************************************************************************)
EXTENDS Commands

CONSTANTS
    Calls,      \* bound: the calls that clients make
    Insistent,  \* the calls that are made again and again until they succeed
    MaxOpen     \* bound: how many others are under way at a time

\* The commands of the command line, and the scripts.
CommandNames ==
    {"initialize", "add-operator", "remove-operator", "add-receiver", "remove-receiver",
     "set-close-duration", "update-whitelist", "remove-whitelist", "withdraw-fee",
     "deposit", "deposit-only", "set-total-fee", "settlement-atas", "claim", "close-nonce",
     "close-trade", "close-trade-only", "payment", "close-receipt"}

ASSUME CallsAssumption == \A c \in Calls :
    /\ c.fn \in CommandNames
    /\ c.fn = "update-whitelist" => c.token \in Mints
    /\ c.fn = "close-trade" => c.trade \in TradeIds

\* Calls have arguments within the bounds of the handlers.
ASSUME CallsBounds == \A c \in Calls :
    /\ c.fn = "initialize" => c.signer \in Wallets /\ c.admin \in Admins \cup {None}
    /\ c.fn \in {"add-operator", "remove-operator"} =>
         c.signer \in Wallets /\ c.operator \in Wallets
    /\ c.fn \in {"add-receiver", "remove-receiver"} =>
         c.signer \in Wallets /\ c.receiver \in Wallets
    /\ c.fn = "set-close-duration" =>
         c.operator \in Wallets /\ {c.closeTrade, c.closePayment} \subseteq Durations \cup {None}
    /\ c.fn = "update-whitelist" => c.operator \in Wallets /\ c.amount \in MinAmounts
    /\ c.fn = "remove-whitelist" => c.operator \in Wallets /\ c.token \in Mints
    /\ c.fn = "withdraw-fee" =>
         /\ c.signer \in Wallets /\ c.receiver \in Wallets
         /\ c.token \in Mints \cup {None} /\ c.amount \in Nat \cup {None}
    /\ c.fn \in {"deposit", "deposit-only"} =>
         /\ c.user \in Wallets /\ c.trade \in TradeIds /\ c.timeout \in Timeouts
         /\ c.mpc \in Mpcs /\ c.refund \in Refunds /\ c.ephemeral \in Ephemerals
    /\ c.fn = "set-total-fee" => c.trade \in TradeIds /\ c.amount \in Fees
    /\ c.fn = "settlement-atas" => c.mpc \in Wallets
    /\ c.fn = "claim" => c.user \in Wallets /\ c.trade \in TradeIds
    /\ c.fn \in {"close-nonce", "close-trade"} => c.to \in Wallets /\ c.ephemeral \in Ephemerals
    /\ c.fn \in {"close-trade", "close-trade-only"} => c.user \in Wallets /\ c.trade \in TradeIds
    /\ c.fn = "payment" =>
         c.payment \in Payments /\ c.payment.from \in Wallets /\ c.deadline \in Deadlines
    /\ c.fn = "close-receipt" => c.payment \in Payments

VARIABLES
    jobs,       \* call -> the answers it has so far, None while it is not made
    running     \* the transaction that executes, None between transactions

allClient == <<chain, jobs, running>>

-----------------------------------------------------------------------------
(* What each call reads and sends.                                         *)

Reads(c, got) ==
    CASE c.fn \in {"deposit", "deposit-only"} -> DepositReads(c)
      [] c.fn = "settlement-atas"     -> SettlementAtasReads(c)
      [] c.fn = "claim"               -> ClaimReads(c, got)
      [] c.fn \in {"close-trade", "close-trade-only"} -> CloseReads(c)
      [] c.fn = "payment"             -> PaymentReads(c)
      [] c.fn = "close-receipt"       -> ReceiptReads(c)
      [] c.fn = "update-whitelist"    -> UpdateWhitelistReads(c)
      [] c.fn = "remove-whitelist"    -> RemoveWhitelistReads(c)
      [] c.fn = "withdraw-fee"        -> WithdrawReads(c)
      [] OTHER                        -> <<>>

Throws(c, got) == c.fn = "withdraw-fee" /\ WithdrawThrows(c, got)

Transaction(c, got) ==
    CASE c.fn = "initialize"          -> InitializeCommand(c)
      [] c.fn = "add-operator"        -> AddOperatorCommand(c)
      [] c.fn = "remove-operator"     -> RemoveOperatorCommand(c)
      [] c.fn = "add-receiver"        -> AddReceiverCommand(c)
      [] c.fn = "remove-receiver"     -> RemoveReceiverCommand(c)
      [] c.fn = "set-close-duration"  -> SetCloseDurationCommand(c)
      [] c.fn = "update-whitelist"    -> UpdateWhitelistCommand(c, got)
      [] c.fn = "remove-whitelist"    -> RemoveWhitelistCommand(c)
      [] c.fn = "withdraw-fee"        -> WithdrawFeeCommand(c, got)
      [] c.fn = "deposit"             -> DepositScript(c, got)
      [] c.fn = "set-total-fee"       -> SetTotalFeeScript(c)
      [] c.fn = "settlement-atas"     -> SettlementAtasScript(c, got)
      [] c.fn = "claim"               -> ClaimScript(c, got)
      [] c.fn = "close-nonce"         -> CloseNonceScript(c)
      [] c.fn = "close-trade"         -> CloseTradeAndNonceScript(c, got)
      [] c.fn = "deposit-only"        -> DepositOnly(c, got)
      [] c.fn = "close-trade-only"    -> CloseTradeOnly(c, got)
      [] c.fn = "payment"             -> PaymentScript(c, got)
      [] c.fn = "close-receipt"       -> ClosePaymentReceiptScript(c)

-----------------------------------------------------------------------------
(* The client's side                                                       *)

Called(c) == jobs[c] # None
Ready(c)  == Called(c) /\ Len(jobs[c]) = Len(Reads(c, jobs[c]))

Call(c) ==
    /\ ~Called(c)
    /\ c \notin Insistent => Cardinality({d \in Calls \ Insistent : Called(d)}) < MaxOpen
    /\ jobs' = [jobs EXCEPT ![c] = <<>>]
    /\ UNCHANGED <<chain, running>>

\* A required account that is missing ends the call.
Ask(c) ==
    /\ running = None
    /\ Called(c) /\ ~Ready(c)
    /\ LET read   == Reads(c, jobs[c])[Len(jobs[c]) + 1]
           answer == Answer(read)
       IN  jobs' = [jobs EXCEPT ![c] = IF read.required /\ answer = None THEN None
                                       ELSE Append(@, answer)]
    /\ UNCHANGED <<chain, running>>

\* The parameters are refused, or the transaction never reaches the chain.
GiveUp(c) ==
    /\ Ready(c)
    /\ running = None
    /\ jobs' = [jobs EXCEPT ![c] = None]
    /\ UNCHANGED <<chain, running>>

-----------------------------------------------------------------------------
(* The runtime                                                             *)

\* Everything that a failing transaction has to give back.
State ==
    [lamports |-> lamports, atas |-> atas, tokens |-> tokens,
     config |-> config, whitelist |-> whitelist, feeReceivers |-> feeReceivers,
     tradeDetail |-> tradeDetail, tradeVault |-> tradeVault, nonceCheck |-> nonceCheck,
     nonceAccount |-> nonceAccount, receipts |-> receipts, paid |-> paid]

Restore(s) ==
    /\ lamports' = s.lamports /\ atas' = s.atas /\ tokens' = s.tokens
    /\ config' = s.config /\ whitelist' = s.whitelist /\ feeReceivers' = s.feeReceivers
    /\ tradeDetail' = s.tradeDetail /\ tradeVault' = s.tradeVault
    /\ nonceCheck' = s.nonceCheck /\ nonceAccount' = s.nonceAccount
    /\ receipts' = s.receipts /\ paid' = s.paid

Signed(i) == Accounts(i).signs \subseteq running.signers

Next1 == Head(running.rest)

Land(c) ==
    /\ running = None
    /\ Ready(c) /\ ~Throws(c, jobs[c])
    /\ LET tx == Transaction(c, jobs[c])
       IN  /\ tx.instructions # <<>>
           /\ running' = [call |-> c, signers |-> tx.signers, rest |-> tx.instructions,
                          before |-> State]
    /\ UNCHANGED <<chain, jobs>>

Done == jobs' = [jobs EXCEPT ![running.call] = None] /\ running' = None

ExecuteNext ==
    /\ running # None
    /\ Signed(Next1) /\ Execute(Next1)
    /\ IF Len(running.rest) = 1 THEN Done
       ELSE running' = [running EXCEPT !.rest = Tail(@)] /\ UNCHANGED jobs

Fails == ~(Signed(Next1) /\ ENABLED Execute(Next1))

\* An instruction fails: everything the transaction did is undone.
Abort ==
    /\ running # None
    /\ Fails
    /\ Restore(running.before)
    /\ Done
    /\ UNCHANGED now

-----------------------------------------------------------------------------
ClientInit ==
    /\ InterfaceInit
    /\ jobs = [c \in Calls |-> None]
    /\ running = None

Elsewhere ==
    /\ running = None
    /\ LedgerNext
    /\ UNCHANGED <<configVars, tradeVars, paymentVars, jobs, running>>

ClientNext ==
    \/ \E c \in Calls : Call(c) \/ Ask(c) \/ GiveUp(c) \/ Land(c)
    \/ ExecuteNext
    \/ Abort
    \/ Elsewhere

ClientSpec == ClientInit /\ [][ClientNext]_allClient

\* Time passes, transactions are executed to their end, and of the transactions
\* of those who insist not all are lost.
FairClientSpec ==
    /\ ClientSpec
    /\ SF_allClient(running = None /\ Tick
                      /\ UNCHANGED <<configVars, tradeVars, paymentVars, jobs, running>>)
    /\ WF_allClient(ExecuteNext)
    /\ WF_allClient(Abort)
    /\ \A c \in Insistent : WF_allClient(Call(c)) /\ SF_allClient(Ask(c)) /\ SF_allClient(Land(c))

-----------------------------------------------------------------------------
\* k can pay the rents of what its transaction may create, and keep its own.
Affords(k, rents) == lamports[k] >= rents + Rent["wallet"]

\* What the program asks of a call, apart from what the builders see to.
Due(c) ==
    CASE c.fn = "deposit" ->
           LET input == Input[c.trade] IN
           /\ ~Exists(c.trade) /\ now <= c.timeout /\ NonceFree(c.ephemeral)
           /\ whitelist[Listed(input.token)] \in 0..input.amount
           /\ input.token # None => tokens[Ata(c.user, input.token)] >= input.amount
           /\ Affords(c.user, Rent["trade"] + Rent["vault"] + Rent["nonce"]
                               + Rent["durable"] + Rent["ata"])
      [] c.fn = "claim" ->
           /\ Open(c.trade) /\ now > tradeDetail[c.trade].timeout
           /\ Affords(c.user, 2 * Rent["ata"])
      [] c.fn = "close-trade" ->
           LET d == tradeDetail[c.trade] IN
           /\ Exists(c.trade) /\ AssertCloseFinishedTrade(c.user, c.trade)
           /\ d.token # None => Ata(d.user, d.token) \in atas
           /\ c.ephemeral \in nonceAccount
      [] c.fn = "payment" ->
           LET p == c.payment IN
           /\ now <= c.deadline /\ receipts[p] = None /\ whitelist[Listed(p.token)] # None
           /\ Holding(p.from, p.token) >= p.amount
           /\ Affords(p.from, Rent["receipt"] + 2 * Rent["ata"])
      [] c.fn = "close-receipt" -> receipts[c.payment] # None /\ AssertClose(c.payment)
      [] c.fn = "withdraw-fee" -> c.receiver \in feeReceivers /\ Affords(c.signer, Rent["ata"])
      [] c.fn = "update-whitelist" ->
           /\ c.operator \in config.operators
           /\ Affords(c.operator, Rent["whitelist"] + Rent["ata"])
      [] c.fn = "remove-whitelist" -> c.operator \in config.operators
      [] OTHER -> FALSE

(* Action property.  A transaction that fails although what it was built   *)
(* from is still so is one that came too early or too late: the builders   *)
(* create every token account, name every account and collect every        *)
(* signature the program needs.  Otherwise only a race makes it fail, and  *)
(* building it again helps.                                                *)
OnlyRacesAbort ==
    [][\A c \in Calls : Abort /\ running.call = c =>
         LET got == jobs[c]
             stale == \E r \in {<<Reads(c, got)[n], got[n]>> : n \in DOMAIN got} :
                        Answer(r[1])' # r[2]
         IN  stale \/ ~Due(c)'
      ]_allClient

(* Safety.  While trades are made by the deposit script and closed by the  *)
(* script that also withdraws the nonce account, every trade has a durable *)
(* nonce account at its ephemeral key, and so can be settled in advance.   *)
NonceWithTrade == running = None =>
    \A t \in TradeIds : Exists(t) => tradeDetail[t].eph \in nonceAccount

(* Safety.  Whatever operators do with update-whitelist at the same time,  *)
(* a whitelisted token has a token account of the protocol, without which  *)
(* neither a payment nor a settlement with a fee is possible.              *)
WhitelistedHasProtocolAta == running = None =>
    \A m \in Mints : whitelist[m] # None => Ata(ProtocolPda, m) \in atas

(* Liveness.  A depositor that keeps running the claim script gets the     *)
(* deposit back after the timeout, through races with other claimants and  *)
(* lost transactions, also when the refund address never had a token       *)
(* account.                                                                *)
RefundArrives == \A t \in TradeIds : Open(t) ~> ~Open(t)
=============================================================================
