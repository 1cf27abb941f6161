------------------------------ MODULE Payment --------------------------------
(***************************************************************************)
(* Payments made by a pmm on this chain, and what becomes of the fees: the *)
(* instructions payment, close_payment_receipt and withdraw_total_fee.     *)
(* The receipt of a payment is a PDA whose seeds are the payment itself,   *)
(* so that a second identical payment collides with it while it exists.    *)
(***************************************************************************)
EXTENDS Deployment, Sequences

CONSTANTS
    Deadlines,    \* bound: deadlines with which a payment is sent
    Withdrawals   \* bound: amounts of fees that are withdrawn

VARIABLES
    receipts,     \* payment -> payment_time in its receipt PDA, None if none
    paid          \* history: payment -> time and deadline of each time it was made

paymentVars == <<receipts, paid>>

\* The seeds of a receipt; its trade is a trade of the other chain.
ASSUME PaymentAssumption == \A p \in Payments :
    /\ p.from \in Wallets /\ p.to \in Recipient
    /\ p.token \in Mints \cup {None}
    /\ p.amount \in Nat /\ p.fee \in Nat

ASSUME PaymentBounds == Deadlines \subseteq Nat /\ Withdrawals \subseteq Nat

\* One time that a payment was made.
Made == [time : Nat, deadline : Nat]

PaymentTypeOK ==
    /\ ConfigTypeOK
    /\ receipts \in [Payments -> Nat \cup {None}]
    /\ paid \in [Payments -> Seq(Made)]

-----------------------------------------------------------------------------
(* payment                                                                 *)

\* Mistaken variant: the fee is paid on top of the amount.
PaymentAmountGross(p) == p.amount

PaymentAmount(p) == p.amount - p.fee

\* Mistaken variant: an address that holds something is taken to be open.
OpenReceiptIfEmpty(p) ==
    IF lamports[ReceiptPda(p)] # 0 THEN lamports
    ELSE Fund(lamports, p.from, ReceiptPda(p), Rent["receipt"])

OpenReceipt(p) == Fund(lamports, p.from, ReceiptPda(p), Rent["receipt"])

\* Anchor opens the receipt; then the amount less the fee goes to the payee
\* and the fee to the protocol, whose token account is needed even for no fee.
PayFunds(p) ==
    LET opened == OpenReceipt(p)
        sent   == Move(opened, p.from, p.to, PaymentAmount(p))
    IN  IF p.token = None
        THEN /\ opened[p.from] >= PaymentAmount(p)
             /\ sent[p.from] >= p.fee
             /\ lamports' = Move(sent, p.from, ProtocolPda, p.fee)
             /\ Afforded(lamports', p.from)
             /\ RentState(lamports'[p.to])
             /\ UNCHANGED tokens
        ELSE /\ lamports' = opened
             /\ Afforded(lamports', p.from)
             /\ SplTransferOk(tokens, p.from, p.to, p.token, PaymentAmount(p), p.fee)
             /\ tokens' = SplTransfer(tokens, p.from, p.to, p.token, PaymentAmount(p), p.fee)

Pay(p, deadline) ==
    /\ now <= deadline
    /\ p.amount > p.fee
    /\ whitelist[Listed(p.token)] # None
    /\ config # None                     \* the protocol PDA exists
    /\ receipts[p] = None
    /\ PayFunds(p)
    /\ receipts' = [receipts EXCEPT ![p] = now]
    /\ paid' = [paid EXCEPT ![p] = Append(@, [time |-> now, deadline |-> deadline])]
    /\ UNCHANGED <<now, atas, configVars>>

-----------------------------------------------------------------------------
(* close_payment_receipt, signed by the payer                              *)

\* Mistaken variant: >= instead of >.
AssertCloseAtEnd(p) == now >= receipts[p] + config.closePayment

\* Mistaken variant: the receipt may not be closed by its payer once the
\* token has left the whitelist.
AssertCloseListed(p) ==
    /\ now > receipts[p] + config.closePayment
    /\ whitelist[Listed(p.token)] # None

AssertClose(p) == now > receipts[p] + config.closePayment

ClosePaymentReceipt(p) ==
    /\ receipts[p] # None
    /\ config # None
    /\ AssertClose(p)
    /\ lamports' = Drain(lamports, ReceiptPda(p), p.from)
    /\ receipts' = [receipts EXCEPT ![p] = None]
    /\ UNCHANGED <<now, atas, tokens, configVars, paid>>

-----------------------------------------------------------------------------
(* withdraw_total_fee, by anyone, to a fee receiver                        *)

\* Mistaken variants: the rent of the protocol PDA is not kept back, and >
\* instead of >=.
KeepsZero(amount)      == lamports[ProtocolPda] - amount >= 0
KeepsMore(amount)      == lamports[ProtocolPda] - amount > Rent["wallet"]

\* The subtraction is checked, so an amount above the balance fails as well.
KeepsRent(amount)      == lamports[ProtocolPda] - amount >= Rent["wallet"]

WithdrawFunds(to, token, amount) ==
    IF token = None
    THEN /\ KeepsRent(amount)
         /\ lamports' = Move(lamports, ProtocolPda, to, amount)
         /\ RentState(lamports'[to])
         /\ UNCHANGED tokens
    ELSE /\ SplTransferOk(tokens, ProtocolPda, to, token, amount, None)
         /\ tokens' = SplTransfer(tokens, ProtocolPda, to, token, amount, None)
         /\ UNCHANGED lamports

WithdrawTotalFee(to, token, amount) ==
    /\ to \in feeReceivers
    /\ config # None                     \* the protocol PDA exists
    /\ WithdrawFunds(to, token, amount)
    /\ UNCHANGED <<now, atas, configVars, paymentVars>>

-----------------------------------------------------------------------------
PaymentInit ==
    /\ DeploymentInit
    /\ receipts = [p \in Payments |-> None]
    /\ paid = [p \in Payments |-> <<>>]

PaymentStep ==
    \/ \E p \in Payments, deadline \in Deadlines : Pay(p, deadline)
    \/ \E p \in Payments : ClosePaymentReceipt(p)
    \/ \E to \in Wallets, token \in Mints \cup {None}, amount \in Withdrawals :
          WithdrawTotalFee(to, token, amount)

PaymentNext ==
    \/ PaymentStep
    \/ ConfigNext /\ UNCHANGED paymentVars
    \/ LedgerNext /\ UNCHANGED <<configVars, paymentVars>>

allPayment == <<ledgerVars, configVars, paymentVars>>

PaymentSpec == PaymentInit /\ [][PaymentNext]_allPayment

\* Time passes, and the payer wants the rent of the receipt back.
FairPaymentSpec ==
    /\ PaymentSpec
    /\ WF_allPayment(Tick /\ UNCHANGED <<configVars, paymentVars>>)
    /\ \A p \in Payments : WF_allPayment(ClosePaymentReceipt(p))

-----------------------------------------------------------------------------
\* The close durations that are ever in force.
CloseDurations == Durations \cup {StartConfig.closePayment}

(* Safety.  A payer that never learned what became of a payment sends it   *)
(* again.  The copy is refused unless its deadline lies beyond the time of *)
(* every earlier payment plus a close duration: one that the operators had *)
(* set too short for what was left until the deadline when the payment was *)
(* made.  A payer that writes a fresh deadline into a payment whose        *)
(* receipt is closed does pay again; the seeds do not know the deadline.   *)
CopiesRefused == \A p \in Payments : \A i, j \in DOMAIN paid[p] : i < j =>
    \E duration \in CloseDurations : paid[p][j].deadline > paid[p][i].time + duration

(* Safety.  Every receipt is rent exempt, also at an address that was sent *)
(* lamports before, or that served the same payment before.                *)
ReceiptRentHeld ==
    \A p \in Payments : receipts[p] # None => lamports[ReceiptPda(p)] >= Rent["receipt"]

(* Safety.  All fees can be paid out to the last lamport above the rent of *)
(* the protocol PDA and the last token, whatever has been withdrawn,       *)
(* charged or removed from the whitelist before.                           *)
FeesReachable == config # None => \A to \in feeReceivers :
    LET surplus == lamports[ProtocolPda] - Rent["wallet"]
    IN  /\ RentState(lamports[to] + surplus) => ENABLED WithdrawTotalFee(to, None, surplus)
        /\ \A m \in Mints : {Ata(ProtocolPda, m), Ata(to, m)} \subseteq atas =>
             ENABLED WithdrawTotalFee(to, m, tokens[Ata(ProtocolPda, m)])

\* What an address holds of a token, lamports for None.
Holding(a, token) == IF token = None THEN lamports[a] ELSE tokens[Ata(a, token)]

(* Action property.  A receipt that appears attests a payment: in the same *)
(* step the payee has got the amount less the fee and the protocol the fee *)
(* in the token that the receipt names.  The mpc settles on the strength   *)
(* of it.                                                                  *)
ReceiptAttests ==
    [][\A p \in Payments : receipts[p] = None /\ receipts'[p] # None =>
         LET gain(a) == Holding(a, p.token)' - Holding(a, p.token)
         IN  IF p.to = ProtocolPda THEN gain(p.to) = p.amount
             ELSE /\ p.to # p.from => gain(p.to) = p.amount - p.fee
                  /\ gain(ProtocolPda) = p.fee
      ]_allPayment

(* Liveness.  The rent of a receipt comes back to a payer that asks for    *)
(* it, whatever the operators do to the whitelist and, within bounds, to   *)
(* the durations.                                                          *)
ReceiptReturns == \A p \in Payments : receipts[p] # None ~> receipts[p] = None
=============================================================================
