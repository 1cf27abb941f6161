---------------------------- MODULE Client_proofs ----------------------------
(***************************************************************************)
(* What clients may rely on, however their calls race, fail, are lost and  *)
(* are repeated: whitelisted tokens have a token account of the protocol,  *)
(* trades have a durable nonce account, and however many presigns are made *)
(* of however many deposits with the same trade id and ephemeral key, each *)
(* settles its own deposit only.  And what the program guarantees of its   *)
(* instructions one by one it guarantees of the transactions that clients  *)
(* make of them, which a failing instruction undoes: deposits stay covered *)
(* and closable, value is conserved, no payment is made twice, and between *)
(* transactions the trades are escrows.                                    *)
(***************************************************************************)
EXTENDS Presign, Interface_proofs, SequenceTheorems

-----------------------------------------------------------------------------
(* Sequences of instructions.                                              *)

\* What the transactions are made of, but for five commands.
PlainCommands == CommandNames \ {"update-whitelist", "deposit", "deposit-only",
                                 "close-nonce", "close-trade"}

\* A sequence, of anything.
IsSequence(s) ==
    /\ Len(s) \in Nat
    /\ s = [n \in 1..Len(s) |-> s[n]]

\* Instructions without those of certain kinds.
Without(s, ops) == IsSequence(s) /\ \A n \in 1..Len(s) : s[n].op \notin ops

\* What whitelists, opens a trade or empties a nonce account.
NotPlain == {"addOrUpdateWhitelist", "deposit", "withdrawNonce"}

Plain(s) == Without(s, NotPlain)

(* A sequence is one of its elements.                                      *)
LEMMA SequenceOf ==
  ASSUME NEW s, IsSequence(s)
  PROVE  s \in Seq({s[n] : n \in 1..Len(s)})
  BY DEF IsSequence

(* And what is in Seq is a sequence.                                       *)
LEMMA IsSequenceOf ==
  ASSUME NEW S, NEW s \in Seq(S)
  PROVE  IsSequence(s)
  BY LenProperties DEF IsSequence

(* One instruction is a sequence.                                          *)
LEMMA One ==
  ASSUME NEW ops, NEW i, i.op \notin ops
  PROVE  Without(<<i>>, ops)
  BY DEF Without, IsSequence

(* What neither of two sequences has, both together have not.              *)
LEMMA Both ==
  ASSUME NEW ops, NEW s, NEW u, Without(s, ops), Without(u, ops)
  PROVE  Without(s \o u, ops)
  <1> DEFINE S == {s[n] : n \in 1..Len(s)} \cup {u[n] : n \in 1..Len(u)}
  <1>1. s \in Seq(S) /\ u \in Seq(S)
    BY DEF Without, IsSequence
  <1>2. \A x \in S : x.op \notin ops
    BY DEF Without
  <1> HIDE DEF S
  <1>3. s \o u \in Seq(S)
    BY <1>1
  <1>4. IsSequence(s \o u)
    BY <1>3, IsSequenceOf
  <1>5. \A n \in 1..Len(s \o u) : (s \o u)[n] \in S
    BY <1>3
  <1> QED
    BY <1>2, <1>4, <1>5 DEF Without

(* What remains of instructions has nothing new.                           *)
LEMMA TailIs ==
  ASSUME NEW s, IsSequence(s), Len(s) # 0
  PROVE  /\ IsSequence(Tail(s)) /\ Len(Tail(s)) = Len(s) - 1
         /\ \A n \in 1..Len(s) - 1 : Tail(s)[n] = s[n + 1]
         /\ Head(s) = s[1]
  <1> DEFINE S == {s[n] : n \in 1..Len(s)}
  <1>1. s \in Seq(S) /\ Len(s) \in Nat
    BY SequenceOf DEF IsSequence
  <1> HIDE DEF S
  <1>2. s # <<>>
    BY <1>1
  <1>3. /\ Tail(s) \in Seq(S) /\ Len(Tail(s)) = Len(s) - 1
        /\ \A n \in 1..Len(Tail(s)) : Tail(s)[n] = s[n + 1]
    BY <1>1, <1>2, HeadTailProperties
  <1>4. Head(s) = s[1]
    BY <1>1, <1>2
  <1> QED
    BY <1>3, <1>4, IsSequenceOf

(* A token account is created by one instruction, or none.                 *)
LEMMA AtaOnly ==
  ASSUME NEW ops, "createAta" \notin ops, NEW payer, NEW o, NEW token, NEW answer
  PROVE  Without(CreateAtaIfNeeded(payer, o, token, answer), ops)
  <1>1. Without(<<CreateAtaIx(payer, o, token)>>, ops)
    BY One DEF CreateAtaIx
  <1>2. Without(<<>>, ops)
    BY DEF Without, IsSequence
  <1> QED
    BY <1>1, <1>2 DEF CreateAtaIfNeeded

(* So the other commands are plain from their first instruction to the     *)
(* last.                                                                   *)
LEMMA TransactionPlain ==
  ASSUME NEW c, NEW got, c.fn \in PlainCommands
  PROVE  Plain(Transaction(c, got).instructions)
  <1> USE DEF Tx, Plain, NotPlain
  <1>1. CASE c.fn = "initialize"
    BY <1>1, One DEF Transaction, InitializeCommand, CreateInitializeProgram
  <1>2. CASE c.fn = "add-operator"
    BY <1>2, One DEF Transaction, AddOperatorCommand, CreateAddOperator
  <1>3. CASE c.fn = "remove-operator"
    BY <1>3, One DEF Transaction, RemoveOperatorCommand, CreateRemoveOperator
  <1>4. CASE c.fn = "add-receiver"
    BY <1>4, One DEF Transaction, AddReceiverCommand, CreateAddFeeReceiver
  <1>5. CASE c.fn = "remove-receiver"
    BY <1>5, One DEF Transaction, RemoveReceiverCommand, CreateRemoveFeeReceiver
  <1>6. CASE c.fn = "set-close-duration"
    BY <1>6, One DEF Transaction, SetCloseDurationCommand, CreateSetCloseWaitDuration
  <1>7. CASE c.fn = "remove-whitelist"
    BY <1>7, One DEF Transaction, RemoveWhitelistCommand, CreateRemoveWhitelist
  <1>8. CASE c.fn = "withdraw-fee"
    <2> DEFINE x == [op |-> "withdrawTotalFee", signer |-> c.signer, to |-> c.receiver,
                     token |-> c.token, amount |-> WithdrawAmount(c, got)]
    <2>1. Plain(<<x>>)
      BY One
    <2>2. Plain(CreateAtaIfNeeded(c.signer, c.receiver, c.token, Nth(got, Len(got) - 1)))
      BY AtaOnly
    <2>3. Plain(ReceiverAtaIfNeededAndWithdrawTotalFee(c, got))
      BY <2>1, <2>2, Both DEF ReceiverAtaIfNeededAndWithdrawTotalFee
    <2> QED  BY <1>8, <2>3 DEF Transaction, WithdrawFeeCommand
  <1>9. CASE c.fn = "set-total-fee"
    BY <1>9, One DEF Transaction, SetTotalFeeScript, CreateSetTotalFee
  <1>10. CASE c.fn = "settlement-atas"
    BY <1>10, AtaOnly, Both DEF Transaction, SettlementAtasScript
  <1>11. CASE c.fn = "claim"
    <2>1. Plain(<<ClaimIx(c, got)>>)
      BY One DEF ClaimIx
    <2>2. Plain(ClaimAndRefundAtaAndProtocolAtaIfNeeded(c, got))
      BY <2>1, AtaOnly, Both DEF ClaimAndRefundAtaAndProtocolAtaIfNeeded
    <2> QED  BY <1>11, <2>2 DEF Transaction, ClaimScript
  <1>12. CASE c.fn = "close-trade-only"
    BY <1>12, One DEF Transaction, CloseTradeOnly, CreateCloseFinishedTrade
  <1>13. CASE c.fn = "payment"
    <2>1. Plain(CreatePayment(c))
      BY One DEF CreatePayment
    <2>2. Plain(PaymentAndRefundAtaAndProtocolAtaIfNeeded(c, got))
      BY <2>1, AtaOnly, Both DEF PaymentAndRefundAtaAndProtocolAtaIfNeeded
    <2> QED  BY <1>13, <2>2 DEF Transaction, PaymentScript
  <1>14. CASE c.fn = "close-receipt"
    BY <1>14, One DEF Transaction, ClosePaymentReceiptScript, CreateClosePaymentReceipt
  <1> QED
    BY <1>1, <1>2, <1>3, <1>4, <1>5, <1>6, <1>7, <1>8, <1>9, <1>10, <1>11, <1>12, <1>13, <1>14
       DEF PlainCommands, CommandNames

(* Short sequences put together.                                           *)
LEMMA Together ==
  ASSUME NEW x, NEW y
  PROVE  /\ <<x>> \o <<y>> = <<x, y>>
         /\ <<x>> \o <<>> = <<x>>
         /\ <<>> \o <<x>> = <<x>>
  <1>1. /\ <<x>> \in Seq({x, y}) /\ <<y>> \in Seq({x, y}) /\ <<>> \in Seq({x, y})
        /\ <<x, y>> \in Seq({x, y})
    OBVIOUS
  <1>2. <<x>> \o <<y>> = <<x, y>>
    <2>1. <<x>> \o <<y>> \in Seq({x, y}) /\ Len(<<x>> \o <<y>>) = 2
      BY <1>1
    <2>2. (<<x>> \o <<y>>)[1] = x /\ (<<x>> \o <<y>>)[2] = y
      BY <1>1
    <2> DEFINE u == <<x>> \o <<y>>
               v == <<x, y>>
    <2>3. /\ u \in Seq({x, y}) /\ Len(u) = 2 /\ u[1] = x /\ u[2] = y
          /\ v \in Seq({x, y}) /\ Len(v) = 2 /\ v[1] = x /\ v[2] = y
      BY <1>1, <2>1, <2>2
    <2> HIDE DEF u, v
    <2>4. \A i \in 1..Len(u) : u[i] = v[i]
      BY <2>3
    <2>5. u = v
      BY <2>3, <2>4, SeqEqual
    <2> QED  BY <2>5 DEF u, v
  <1>3. <<x>> \o <<>> = <<x>> /\ <<>> \o <<x>> = <<x>>
    BY <1>1
  <1> QED
    BY <1>2, <1>3

(* update-whitelist creates the protocol's token account after the entry,  *)
(* unless its read has found it.                                           *)
LEMMA UpdateWhitelistIs ==
  ASSUME NEW c, NEW got, c.fn = "update-whitelist", c.token # None, Len(got) \in Nat, Len(got) >= 1
  PROVE  LET s == Transaction(c, got).instructions
         IN  /\ IsSequence(s)
             /\ s[1].op = "addOrUpdateWhitelist" /\ s[1].token = c.token
             /\ \/ got[1] # None /\ Len(s) = 1
                \/ /\ got[1] = None /\ Len(s) = 2
                   /\ s[2].op = "createAta" /\ s[2].owner = ProtocolPda /\ s[2].token = c.token
  <1> DEFINE s == Transaction(c, got).instructions
             w == [op |-> "addOrUpdateWhitelist", operator |-> c.operator, token |-> c.token,
                   amount |-> c.amount]
             a == CreateAtaIx(c.operator, ProtocolPda, c.token)
  <1>1. s = <<w>> \o CreateAtaIfNeeded(c.operator, ProtocolPda, c.token, Nth(got, 1))
    BY DEF Transaction, UpdateWhitelistCommand, CreateAddOrUpdateWhitelist, Tx
  <1>2. Nth(got, 1) = <<got[1]>>
    BY DEF Nth
  <1>3. CASE got[1] = None
    <2>1. s = <<w>> \o <<a>>
      BY <1>1, <1>2, <1>3 DEF CreateAtaIfNeeded
    <2> HIDE DEF w, a
    <2>2. s = <<w, a>>
      BY <2>1, Together
    <2> QED  BY <1>3, <2>2 DEF IsSequence, CreateAtaIx, w, a
  <1>4. CASE got[1] # None
    <2>1. <<got[1]>> # <<None>>
      BY <1>4
    <2>2. s = <<w>> \o <<>>
      BY <1>1, <1>2, <2>1 DEF CreateAtaIfNeeded
    <2> HIDE DEF w
    <2>3. s = <<w>>
      BY <2>2, Together
    <2> QED  BY <1>4, <2>3 DEF IsSequence, w
  <1> QED
    BY <1>3, <1>4

\* The deposit of call c, and its nonce account at the end.
Opens(s, c) ==
    /\ IsSequence(s) /\ Len(s) >= 2
    /\ \A n \in 1..Len(s) - 2 : s[n].op \notin {"deposit", "withdrawNonce"}
    /\ LET d == s[Len(s) - 1]
       IN  d.op = "deposit" /\ d.trade = c.trade /\ d.ephemeral = c.ephemeral
    /\ LET k == s[Len(s)]
       IN  k.op = "createNonce" /\ k.ephemeral = c.ephemeral

\* The close of call c, and the withdrawal of its nonce account.
Closes(s, c) ==
    /\ IsSequence(s) /\ Len(s) = 2
    /\ s[1].op = "closeFinishedTrade" /\ s[1].trade = c.trade
    /\ s[2].op = "withdrawNonce" /\ s[2].ephemeral = c.ephemeral

(* update-whitelist is about no trade.                                     *)
LEMMA UpdateWhitelistOps ==
  ASSUME NEW c, NEW got, c.fn = "update-whitelist"
  PROVE  Without(Transaction(c, got).instructions, {"deposit", "withdrawNonce"})
  <1>1. Without(CreateAddOrUpdateWhitelist(c), {"deposit", "withdrawNonce"})
    BY One DEF CreateAddOrUpdateWhitelist
  <1>2. Without(CreateAtaIfNeeded(c.operator, ProtocolPda, c.token, Nth(got, 1)),
                {"deposit", "withdrawNonce"})
    BY AtaOnly
  <1> QED
    BY <1>1, <1>2, Both DEF Transaction, UpdateWhitelistCommand, Tx

(* The deposit script ends with the deposit and the nonce account.         *)
LEMMA DepositIs ==
  ASSUME NEW c, NEW got, c.fn = "deposit"
  PROVE  /\ Opens(Transaction(c, got).instructions, c)
         /\ Without(Transaction(c, got).instructions, {"addOrUpdateWhitelist"})
  <1> DEFINE s == Transaction(c, got).instructions
             u == CreateAtaIfNeeded(c.user, VaultPda(c.trade), Input[c.trade].token, Nth(got, 1))
             d == CreateDeposit(c)[1]
             k == CreateEphemeralNonceAccount(c.user, c.ephemeral)[1]
             S == {u[n] : n \in 1..Len(u)} \cup {d, k}
  <1>1. s = (u \o <<d>>) \o <<k>>
    BY DEF Transaction, DepositScript, DepositAndVaultAtaIfNeededAndNonceAccount,
           DepositAndVaultAtaIfNeeded, CreateDeposit, CreateEphemeralNonceAccount, Tx
  <1>2. Plain(u)
    BY AtaOnly DEF Plain, NotPlain
  <1>3. /\ d.op = "deposit" /\ d.trade = c.trade /\ d.ephemeral = c.ephemeral
        /\ k.op = "createNonce" /\ k.ephemeral = c.ephemeral
    BY DEF CreateDeposit, CreateEphemeralNonceAccount
  <1>4. u \in Seq(S) /\ d \in S /\ k \in S
    <2>1. u \in Seq({u[n] : n \in 1..Len(u)})
      BY <1>2, SequenceOf DEF Plain, Without
    <2> HIDE DEF u, d, k
    <2>2. {u[n] : n \in 1..Len(u)} \subseteq S
      OBVIOUS
    <2> QED  BY <2>1, <2>2, SeqMonotonic
  <1>5. \A n \in 1..Len(u) : u[n].op \notin NotPlain
    BY <1>2 DEF Plain, Without
  <1> HIDE DEF s, u, d, k, S
  <1>6. /\ u \o <<d>> \in Seq(S) /\ Len(u \o <<d>>) = Len(u) + 1
        /\ \A n \in 1..Len(u) : (u \o <<d>>)[n] = u[n]
        /\ (u \o <<d>>)[Len(u) + 1] = d
    BY <1>4
  <1> DEFINE v == u \o <<d>>
  <1>7. s = v \o <<k>> /\ Len(u) \in Nat
    BY <1>1, <1>4
  <1>8. /\ v \in Seq(S) /\ Len(v) = Len(u) + 1
        /\ \A n \in 1..Len(u) : v[n] = u[n]
        /\ v[Len(u) + 1] = d
    BY <1>6
  <1> HIDE DEF v
  <1>9. /\ s \in Seq(S) /\ Len(s) = Len(u) + 2 /\ s[Len(u) + 2] = k
        /\ \A n \in 1..Len(u) + 1 : s[n] = v[n]
    BY <1>4, <1>7, <1>8
  <1>10. /\ s[Len(s)] = k /\ s[Len(s) - 1] = d
         /\ \A n \in 1..Len(s) - 2 : s[n].op \notin NotPlain
    BY <1>5, <1>7, <1>8, <1>9
  <1>11. \A n \in 1..Len(s) : n = Len(s) \/ n = Len(s) - 1 \/ n \in 1..Len(s) - 2
    BY <1>7, <1>9
  <1>12. IsSequence(s) /\ Len(s) >= 2
    <2>1. IsSequence(s)
      BY <1>9, IsSequenceOf
    <2> QED  BY <1>7, <1>9, <2>1
  <1>13. \A n \in 1..Len(s) : s[n].op # "addOrUpdateWhitelist"
    BY <1>3, <1>10, <1>11 DEF NotPlain
  <1> QED
    BY <1>3, <1>10, <1>12, <1>13 DEF Opens, Without, NotPlain, s

(* The closing script closes the trade and withdraws the nonce account.    *)
LEMMA CloseTradeIs ==
  ASSUME NEW c, NEW got, c.fn = "close-trade"
  PROVE  /\ Closes(Transaction(c, got).instructions, c)
         /\ Without(Transaction(c, got).instructions, {"addOrUpdateWhitelist"})
  <1> DEFINE s == Transaction(c, got).instructions
             x == CreateCloseFinishedTrade(c, got)[1]
             y == WithdrawNonceIx(c)
  <1>1. s = <<x>> \o <<y>>
    BY DEF Transaction, CloseTradeAndNonceScript, CreateCloseFinishedTrade, Tx
  <1>2. /\ x.op = "closeFinishedTrade" /\ x.trade = c.trade
        /\ y.op = "withdrawNonce" /\ y.ephemeral = c.ephemeral
    BY DEF CreateCloseFinishedTrade, WithdrawNonceIx
  <1> HIDE DEF s, x, y
  <1>3. s = <<x, y>>
    BY <1>1, Together
  <1> QED
    BY <1>2, <1>3 DEF Closes, Without, IsSequence, s

(* No command but update-whitelist makes an entry in the whitelist.        *)
LEMMA OnlyUpdateLists ==
  ASSUME NEW c, NEW got, c.fn \in CommandNames, c.fn # "update-whitelist"
  PROVE  Without(Transaction(c, got).instructions, {"addOrUpdateWhitelist"})
  <1>1. CASE c.fn \in PlainCommands
    BY <1>1, TransactionPlain DEF Plain, Without, NotPlain
  <1>2. CASE c.fn \in {"deposit", "close-trade"}
    BY <1>2, DepositIs, CloseTradeIs
  <1>3. CASE c.fn = "close-nonce"
    BY <1>3, One DEF Transaction, CloseNonceScript, WithdrawNonceIx, Tx
  <1>4. CASE c.fn = "deposit-only"
    <2>1. Without(CreateDeposit(c), {"addOrUpdateWhitelist"})
      BY One DEF CreateDeposit
    <2>2. Without(DepositAndVaultAtaIfNeeded(c, got), {"addOrUpdateWhitelist"})
      BY <2>1, AtaOnly, Both DEF DepositAndVaultAtaIfNeeded
    <2> QED  BY <1>4, <2>2 DEF Transaction, DepositOnly, Tx
  <1> QED
    BY <1>1, <1>2, <1>3, <1>4 DEF PlainCommands

-----------------------------------------------------------------------------
(* What every transaction under way looks like.                            *)

\* None stands for what is not there, so it is no transaction.
NoneIsNoTransaction ==
    \A call, signers, rest, before :
        [call |-> call, signers |-> signers, rest |-> rest, before |-> before] # None

IsTransaction(tx) ==
    tx = [call |-> tx.call, signers |-> tx.signers, rest |-> tx.rest, before |-> tx.before]

(* A transaction goes on as a transaction.                                 *)
LEMMA GoesOn ==
  ASSUME NoneIsNoTransaction, NEW tx, IsTransaction(tx), NEW rest
  PROVE  LET next == [tx EXCEPT !.rest = rest]
         IN  /\ IsTransaction(next) /\ next # None
             /\ next.rest = rest /\ next.before = tx.before
  <1>1. [tx EXCEPT !.rest = rest] =
          [call |-> tx.call, signers |-> tx.signers, rest |-> rest, before |-> tx.before]
    BY DEF IsTransaction
  <1> QED
    BY <1>1 DEF IsTransaction, NoneIsNoTransaction

-----------------------------------------------------------------------------
(* The whitelist and the protocol's token accounts.                        *)

ProtocolAta(m) == Ata(ProtocolPda, m)

\* Does i create the protocol's token account for m?
Creates(i, m) == i.op = "createAta" /\ i.owner = ProtocolPda /\ i.token = m

\* It is there, or an instruction of s after the nth will create it.
Covered(s, n, m) ==
    ProtocolAta(m) \in atas \/ \E k \in n + 1..Len(s) : Creates(s[k], m)

EntriesHaveAtas(entries, accounts) ==
    /\ entries = [m \in Mints |-> entries[m]]
    /\ \A m \in Mints : entries[m] # None => ProtocolAta(m) \in accounts

\* What a call has read of the token account is still so.
ReadsHold(accounts) ==
    \A c \in Calls :
        c.fn = "update-whitelist" /\ jobs[c] # None /\ Len(jobs[c]) # 0 /\ jobs[c][1] # None =>
            ProtocolAta(c.token) \in accounts

JobsAreSequences ==
    /\ jobs = [c \in Calls |-> jobs[c]]
    /\ \A c \in Calls : jobs[c] # None => IsSequence(jobs[c])

\* The invariant.  Between transactions every entry has its token account.
\* While one executes, that is so of what it would give back, no token account
\* of the protocol has gone since, and what is missing is still to come.
WhitelistInv ==
    /\ JobsAreSequences
    /\ IF running = None
       THEN EntriesHaveAtas(whitelist, atas) /\ ReadsHold(atas)
       ELSE /\ IsTransaction(running) /\ IsSequence(running.rest) /\ Len(running.rest) # 0
            /\ EntriesHaveAtas(running.before.whitelist, running.before.atas)
            /\ ReadsHold(running.before.atas)
            /\ \A m \in Mints :
                  ProtocolAta(m) \in running.before.atas => ProtocolAta(m) \in atas
            /\ whitelist = [m \in Mints |-> whitelist[m]]
            /\ \A m \in Mints : whitelist[m] # None => Covered(running.rest, 0, m)
            /\ \A n \in 1..Len(running.rest) :
                  running.rest[n].op = "addOrUpdateWhitelist" =>
                      Covered(running.rest, n, running.rest[n].token)

\* What operators have whitelisted before has its token account.
StartHasAtas == \A m \in Mints : StartWhitelist[m] # None => ProtocolAta(m) \in Start.atas

(* No step closes a token account of the protocol.                         *)
LEMMA ProtocolAtasApart ==
  ASSUME NEW m, NEW n
  PROVE  /\ \A t : ProtocolAta(m) # Ata(VaultPda(t), n)
         /\ \A k \in Wallets : ProtocolAta(m) # Ata(k, n)
  <1>1. \A t : ProtocolPda # VaultPda(t)
    BY DEF ProtocolPda, VaultPda
  <1>2. \A k \in Wallets : ProtocolPda # k
    BY KeysAssumption DEF Pda
  <1>3. \A o : ProtocolAta(m) = Ata(o, n) => ProtocolPda = o
    BY DEF ProtocolAta, Ata
  <1> QED
    BY <1>1, <1>2, <1>3

(* No instruction does.                                                    *)
LEMMA ExecuteAtas ==
  ASSUME NEW i, Execute(i), NEW m, ProtocolAta(m) \in atas
  PROVE  ProtocolAta(m) \in atas'
  <1>1. CASE OnConfig(i)
    BY <1>1 DEF OnConfig, InitConfig, AddOperator, RemoveOperator, AddOrUpdateWhitelist,
                RemoveWhitelist, SetCloseWaitDuration, AddFeeReceiver, RemoveFeeReceiver, ledgerVars
  <1>2. CASE OnTrade(i)
    <2>1. CASE CloseFinishedTradeEntry(i)
      <3>1. \/ atas' = atas
            \/ atas' = atas \ {Ata(VaultPda(i.trade), tradeDetail[i.trade].token)}
        BY <2>1 DEF CloseFinishedTradeEntry, CloseFinishedTrade, CloseVaultAta
      <3> QED  BY <3>1, ProtocolAtasApart
    <2> QED
      BY <1>2, <2>1 DEF OnTrade, DepositEntry, Deposit, SetTotalFeeEntry, SetTotalFee,
                        SettlementEntry, Settlement, ClaimEntry, Claim, ledgerVars
  <1>3. CASE OnPayment(i)
    BY <1>3 DEF OnPayment, Pay, ClosePaymentReceipt, WithdrawTotalFee
  <1>4. CASE System(i)
    BY <1>4 DEF System, CreateAta, CreateNonceAccount, WithdrawNonce, WithdrawNonceAccount
  <1> QED
    BY <1>1, <1>2, <1>3, <1>4 DEF Execute, Program

(* The instruction that is to create it does.                              *)
LEMMA CreatesAta ==
  ASSUME NEW i, Execute(i), NEW m, Creates(i, m)
  PROVE  ProtocolAta(m) \in atas'
  <1>1. System(i) /\ i.op = "createAta"
    BY DEF Creates, Execute, Program, OnConfig, OnTrade, OnPayment, DepositEntry,
           SetTotalFeeEntry, SettlementEntry, ClaimEntry, CloseFinishedTradeEntry
  <1>2. CreateAta(i.signer, ProtocolPda, m)
    BY <1>1 DEF System, Creates
  <1> QED
    BY <1>2 DEF CreateAta, ProtocolAta

(* An entry appears by the one instruction that makes entries.             *)
LEMMA ExecuteEntries ==
  ASSUME NEW i, Execute(i), whitelist = [m \in Mints |-> whitelist[m]]
  PROVE  /\ whitelist' = [m \in Mints |-> whitelist'[m]]
         /\ \A m \in Mints : whitelist'[m] # None =>
               whitelist[m] # None \/ (i.op = "addOrUpdateWhitelist" /\ i.token = m)
  <1>1. CASE i.op = "addOrUpdateWhitelist" /\ whitelist' = [whitelist EXCEPT ![i.token] = i.amount]
    BY <1>1
  <1>2. CASE whitelist' = [whitelist EXCEPT ![i.entry] = None]
    BY <1>2
  <1>3. CASE UNCHANGED whitelist
    BY <1>3
  <1>4. CASE OnConfig(i)
    BY <1>1, <1>2, <1>3, <1>4
       DEF OnConfig, InitConfig, AddOperator, RemoveOperator, AddOrUpdateWhitelist,
           RemoveWhitelist, SetCloseWaitDuration, AddFeeReceiver, RemoveFeeReceiver
  <1>5. CASE OnTrade(i)
    <2>1. UNCHANGED whitelist
      BY <1>5 DEF OnTrade, DepositEntry, Deposit, SetTotalFeeEntry, SetTotalFee, SettlementEntry,
                  Settlement, ClaimEntry, Claim, CloseFinishedTradeEntry, CloseFinishedTrade,
                  configVars
    <2> QED  BY <2>1, <1>3
  <1>6. CASE OnPayment(i)
    <2>1. UNCHANGED whitelist
      BY <1>6 DEF OnPayment, Pay, ClosePaymentReceipt, WithdrawTotalFee, configVars
    <2> QED  BY <2>1, <1>3
  <1>7. CASE System(i)
    <2>1. UNCHANGED whitelist
      BY <1>7 DEF System, CreateNonceAccount, WithdrawNonce, WithdrawNonceAccount, configVars
    <2> QED  BY <2>1, <1>3
  <1> QED
    BY <1>4, <1>5, <1>6, <1>7 DEF Execute, Program

(* A call is made, answered or given up: what is on the chain stays, and   *)
(* what a call knows is either old, forgotten or has just been read.       *)
LEMMA JobsStep ==
  ASSUME WhitelistInv, NEW c \in Calls,
         Call(c) \/ Ask(c) \/ GiveUp(c)
  PROVE  WhitelistInv'
  <1>1. UNCHANGED <<atas, whitelist, running>>
    BY DEF Call, Ask, GiveUp, chain, ledgerVars, configVars
  <1>2. jobs = [d \in Calls |-> jobs[d]]
    BY DEF WhitelistInv, JobsAreSequences
  <1>3. CASE Call(c) \/ GiveUp(c)
    <2>1. PICK x \in {None, <<>>} : jobs' = [jobs EXCEPT ![c] = x]
      BY <1>3 DEF Call, GiveUp
    <2>2. /\ jobs' = [d \in Calls |-> jobs'[d]]
          /\ \A d \in Calls : jobs'[d] = IF d = c THEN x ELSE jobs[d]
      BY <1>2, <2>1
    <2>3. IsSequence(<<>>) /\ Len(<<>>) = 0
      BY DEF IsSequence
    <2>4. JobsAreSequences'
      BY <2>2, <2>3 DEF WhitelistInv, JobsAreSequences
    <2>5. ASSUME NEW accounts, ReadsHold(accounts)
          PROVE  ReadsHold(accounts)'
      BY <2>2, <2>3, <2>5 DEF ReadsHold
    <2>6. ReadsHold(atas) => ReadsHold(atas)'
      BY <1>1, <2>2, <2>3 DEF ReadsHold
    <2>7. ReadsHold(running.before.atas) => ReadsHold(running.before.atas)'
      BY <1>1, <2>2, <2>3 DEF ReadsHold
    <2> QED
      BY <1>1, <2>4, <2>6, <2>7 DEF WhitelistInv, Covered
  <1>4. CASE Ask(c)
    <2> DEFINE read == Reads(c, jobs[c])[Len(jobs[c]) + 1]
               answer == Answer(read)
    <2>1. /\ running = None /\ jobs[c] # None
          /\ jobs' = [jobs EXCEPT ![c] = IF read.required /\ answer = None THEN None
                                         ELSE Append(jobs[c], answer)]
      BY <1>4 DEF Ask, Called
    <2>2. IsSequence(jobs[c])
      BY <2>1 DEF WhitelistInv, JobsAreSequences
    <2>3. /\ IsSequence(Append(jobs[c], answer))
          /\ Len(Append(jobs[c], answer)) = Len(jobs[c]) + 1
          /\ Append(jobs[c], answer)[1] = IF Len(jobs[c]) = 0 THEN answer ELSE jobs[c][1]
      <3> DEFINE S == {jobs[c][n] : n \in 1..Len(jobs[c])} \cup {answer}
      <3>1. jobs[c] \in Seq(S) /\ answer \in S /\ Len(jobs[c]) \in Nat
        <4>1. {jobs[c][n] : n \in 1..Len(jobs[c])} \subseteq S
          OBVIOUS
        <4> QED  BY <2>2, <4>1, SequenceOf, SeqMonotonic DEF IsSequence
      <3> HIDE DEF S, answer
      <3>2. /\ Append(jobs[c], answer) \in Seq(S)
            /\ Len(Append(jobs[c], answer)) = Len(jobs[c]) + 1
            /\ Append(jobs[c], answer)[1] = IF Len(jobs[c]) = 0 THEN answer ELSE jobs[c][1]
        BY <3>1
      <3> QED  BY <3>2, IsSequenceOf
    <2>4. /\ jobs' = [d \in Calls |-> jobs'[d]]
          /\ \A d \in Calls : d # c => jobs'[d] = jobs[d]
          /\ jobs'[c] = None \/ jobs'[c] = Append(jobs[c], answer)
      BY <1>2, <2>1
    <2>5. c.fn = "update-whitelist" /\ Len(jobs[c]) = 0 /\ answer # None =>
             ProtocolAta(c.token) \in atas
      <3> SUFFICES ASSUME c.fn = "update-whitelist", Len(jobs[c]) = 0
                   PROVE  answer # None => ProtocolAta(c.token) \in atas
        OBVIOUS
      <3>1. c.token # None
        BY CallsAssumption, LedgerAssumption
      <3>2. Reads(c, jobs[c]) = <<ReadAta(ProtocolPda, c.token)>> \o <<ReadEntry(c.token, FALSE)>>
        BY <3>1 DEF Reads, UpdateWhitelistReads, AtaReads
      <3>3. Reads(c, jobs[c]) = <<ReadAta(ProtocolPda, c.token), ReadEntry(c.token, FALSE)>>
        BY <3>2, Together
      <3>4. read = ReadAta(ProtocolPda, c.token)
        BY <3>3
      <3> HIDE DEF read
      <3> QED
        BY <3>4 DEF ReadAta, Read, Answer, ProtocolAta
    <2> HIDE DEF read, answer
    <2>6. JobsAreSequences'
      BY <2>3, <2>4 DEF WhitelistInv, JobsAreSequences
    <2>7. ReadsHold(atas)'
      <3> SUFFICES ASSUME NEW d \in Calls, d.fn = "update-whitelist", jobs'[d] # None,
                          Len(jobs'[d]) # 0, jobs'[d][1] # None
                   PROVE  ProtocolAta(d.token) \in atas
        BY <1>1 DEF ReadsHold
      <3>1. ReadsHold(atas)
        BY <2>1 DEF WhitelistInv
      <3>2. CASE d # c
        BY <2>4, <3>1, <3>2 DEF ReadsHold
      <3>3. CASE d = c
        BY <2>1, <2>3, <2>4, <2>5, <3>1, <3>3 DEF ReadsHold
      <3> QED  BY <3>2, <3>3
    <2> QED
      BY <1>1, <2>1, <2>6, <2>7 DEF WhitelistInv
  <1> QED
    BY <1>3, <1>4

(* A transaction begins.  That of update-whitelist creates the token       *)
(* account unless it has been read, and no other makes an entry.           *)
LEMMA WhitelistLand ==
  ASSUME NoneIsNoTransaction, WhitelistInv, NEW c \in Calls, Land(c)
  PROVE  WhitelistInv'
  <1> DEFINE s == Transaction(c, jobs[c]).instructions
  <1>1. /\ running = None /\ Ready(c) /\ s # <<>> /\ UNCHANGED <<atas, whitelist, jobs>>
        /\ running' = [call |-> c, signers |-> Transaction(c, jobs[c]).signers, rest |-> s,
                       before |-> State]
    BY DEF Land, chain, ledgerVars, configVars
  <1>2. /\ IsTransaction(running') /\ running' # None
        /\ running'.rest = s
        /\ running'.before.atas = atas /\ running'.before.whitelist = whitelist
    BY <1>1 DEF IsTransaction, NoneIsNoTransaction, State
  <1>3. IsSequence(jobs[c])
    BY <1>1 DEF WhitelistInv, JobsAreSequences, Ready, Called
  <1>4. /\ IsSequence(s)
        /\ \A n \in 1..Len(s) : s[n].op = "addOrUpdateWhitelist" => Covered(s, n, s[n].token)
    <2>1. CASE c.fn = "update-whitelist"
      <3>1. c.token # None
        BY <2>1, CallsAssumption, LedgerAssumption
      <3>2. Len(jobs[c]) = 2
        <4>1. Reads(c, jobs[c]) = <<ReadAta(ProtocolPda, c.token)>> \o <<ReadEntry(c.token, FALSE)>>
          BY <2>1, <3>1 DEF Reads, UpdateWhitelistReads, AtaReads
        <4>2. Reads(c, jobs[c]) = <<ReadAta(ProtocolPda, c.token), ReadEntry(c.token, FALSE)>>
          BY <4>1, Together
        <4> QED  BY <1>1, <4>2 DEF Ready
      <3>3. jobs[c][1] # None => ProtocolAta(c.token) \in atas
        BY <1>1, <2>1, <3>2 DEF WhitelistInv, ReadsHold, Ready, Called
      <3>4. /\ IsSequence(s)
            /\ s[1].op = "addOrUpdateWhitelist" /\ s[1].token = c.token
            /\ \/ jobs[c][1] # None /\ Len(s) = 1
               \/ /\ jobs[c][1] = None /\ Len(s) = 2
                  /\ s[2].op = "createAta" /\ s[2].owner = ProtocolPda /\ s[2].token = c.token
        BY <2>1, <3>1, <3>2, UpdateWhitelistIs
      <3> HIDE DEF s
      <3>5. CASE jobs[c][1] # None /\ Len(s) = 1
        BY <3>3, <3>4, <3>5 DEF Covered
      <3>6. CASE Len(s) = 2 /\ Creates(s[2], c.token)
        <4>1. Covered(s, 1, c.token)
          BY <3>6 DEF Covered
        <4>2. s[2].op # "addOrUpdateWhitelist"
          BY <3>6 DEF Creates
        <4>3. \A n \in 1..Len(s) : n = 1 \/ n = 2
          BY <3>6
        <4> QED  BY <3>4, <4>1, <4>2, <4>3
      <3> QED  BY <3>4, <3>5, <3>6 DEF Creates
    <2>2. CASE c.fn # "update-whitelist"
      BY <2>2, CallsAssumption, OnlyUpdateLists DEF Without
    <2> QED
      BY <2>1, <2>2
  <1>5. Len(s) # 0
    BY <1>1, <1>4 DEF IsSequence
  <1> HIDE DEF s
  <1>6. JobsAreSequences' /\ ReadsHold(running.before.atas)'
    BY <1>1, <1>2 DEF WhitelistInv, JobsAreSequences, ReadsHold
  <1>7. EntriesHaveAtas(whitelist, atas)
    BY <1>1 DEF WhitelistInv
  <1>8. \A n, m : Covered(s, n, m) => Covered(running.rest, n, m)'
    BY <1>1, <1>2 DEF Covered
  <1>9. \A m \in Mints : whitelist'[m] # None => Covered(running.rest, 0, m)'
    BY <1>1, <1>7 DEF EntriesHaveAtas, Covered
  <1>10. EntriesHaveAtas(running.before.whitelist, running.before.atas)'
    BY <1>2, <1>7 DEF EntriesHaveAtas
  <1>11. \A n \in 1..Len(running'.rest) : running'.rest[n].op = "addOrUpdateWhitelist" =>
            Covered(running.rest, n, running.rest[n].token)'
    BY <1>2, <1>4, <1>8
  <1>12. whitelist' = [m \in Mints |-> whitelist'[m]]
    BY <1>1, <1>7 DEF EntriesHaveAtas
  <1>13. /\ IsSequence(running'.rest) /\ Len(running'.rest) # 0
         /\ \A m \in Mints : ProtocolAta(m) \in running'.before.atas => ProtocolAta(m) \in atas'
    BY <1>1, <1>2, <1>4, <1>5
  <1> QED
    BY <1>2, <1>6, <1>9, <1>10, <1>11, <1>12, <1>13 DEF WhitelistInv

(* An instruction is executed.  An entry it makes is covered by what comes *)
(* after it, and a token account that was to come has come.                *)
LEMMA WhitelistExecute ==
  ASSUME NoneIsNoTransaction, WhitelistInv, ExecuteNext
  PROVE  WhitelistInv'
  <1> DEFINE s == running.rest
             i == Head(s)
  <1>1. /\ running # None /\ Execute(i)
        /\ IsTransaction(running) /\ IsSequence(s) /\ Len(s) # 0 /\ Len(s) \in Nat
    BY DEF WhitelistInv, ExecuteNext, Next1, IsSequence
  <1>2. /\ i = s[1] /\ IsSequence(Tail(s)) /\ Len(Tail(s)) = Len(s) - 1
        /\ \A n \in 1..Len(s) - 1 : Tail(s)[n] = s[n + 1]
    BY <1>1, TailIs
  <1>3. /\ EntriesHaveAtas(running.before.whitelist, running.before.atas)
        /\ ReadsHold(running.before.atas)
        /\ \A m \in Mints : ProtocolAta(m) \in running.before.atas => ProtocolAta(m) \in atas
        /\ whitelist = [m \in Mints |-> whitelist[m]]
        /\ \A m \in Mints : whitelist[m] # None => Covered(s, 0, m)
        /\ \A n \in 1..Len(s) :
              s[n].op = "addOrUpdateWhitelist" => Covered(s, n, s[n].token)
    BY <1>1 DEF WhitelistInv
  <1>4. /\ \A m : ProtocolAta(m) \in atas => ProtocolAta(m) \in atas'
        /\ \A m : Creates(i, m) => ProtocolAta(m) \in atas'
    BY <1>1, ExecuteAtas, CreatesAta
  <1>5. /\ whitelist' = [m \in Mints |-> whitelist'[m]]
        /\ \A m \in Mints : whitelist'[m] # None =>
              whitelist[m] # None \/ (i.op = "addOrUpdateWhitelist" /\ i.token = m)
    BY <1>1, <1>3, ExecuteEntries
  <1>6. CASE Len(s) = 1
    <2>1. /\ jobs' = [jobs EXCEPT ![running.call] = None] /\ running' = None
      BY <1>6 DEF ExecuteNext, Done
    <2>2. /\ jobs' = [d \in Calls |-> jobs'[d]]
          /\ \A d \in Calls : jobs'[d] = None \/ jobs'[d] = jobs[d]
      BY <2>1 DEF WhitelistInv, JobsAreSequences
    <2>3. JobsAreSequences'
      BY <2>2 DEF WhitelistInv, JobsAreSequences
    <2> HIDE DEF s, i
    <2>4. ASSUME NEW m \in Mints, whitelist'[m] # None
          PROVE  ProtocolAta(m) \in atas'
      <3>1. Covered(s, 0, m) \/ Covered(s, 1, m)
        BY <1>1, <1>2, <1>3, <1>5, <2>4
      <3>2. \A k \in 1..Len(s) : s[k] = i
        BY <1>2, <1>6
      <3>3. ASSUME NEW n \in {0, 1}, Covered(s, n, m)
            PROVE  ProtocolAta(m) \in atas'
        BY <1>4, <1>6, <3>2, <3>3 DEF Covered
      <3> QED
        BY <3>1, <3>3
    <2>5. ReadsHold(atas)'
      <3> SUFFICES ASSUME NEW d \in Calls, d.fn = "update-whitelist", jobs'[d] # None,
                          Len(jobs'[d]) # 0, jobs'[d][1] # None
                   PROVE  ProtocolAta(d.token) \in atas'
        BY DEF ReadsHold
      <3>1. jobs'[d] = jobs[d]
        BY <2>2
      <3>2. ProtocolAta(d.token) \in running.before.atas
        BY <1>3, <3>1 DEF ReadsHold
      <3>3. d.token \in Mints
        BY CallsAssumption
      <3> QED
        BY <1>3, <1>4, <3>2, <3>3
    <2> QED
      BY <1>5, <2>1, <2>3, <2>4, <2>5 DEF WhitelistInv, EntriesHaveAtas
  <1>7. CASE Len(s) # 1
    <2>1. running' = [running EXCEPT !.rest = Tail(s)] /\ UNCHANGED jobs
      BY <1>7 DEF ExecuteNext
    <2> HIDE DEF s, i
    <2>2. /\ IsTransaction(running') /\ running' # None
          /\ running'.rest = Tail(s) /\ running'.before = running.before
      BY <1>1, <2>1, GoesOn
    <2>3. ASSUME NEW n \in Nat, NEW m, Covered(s, n + 1, m)
          PROVE  Covered(running.rest, n, m)'
      <3>1. CASE ProtocolAta(m) \in atas
        BY <1>4, <3>1 DEF Covered
      <3>2. CASE \E k \in n + 2..Len(s) : Creates(s[k], m)
        <4>1. PICK k \in n + 2..Len(s) : Creates(s[k], m)
          BY <3>2
        <4>2. k - 1 \in n + 1..Len(Tail(s)) /\ Tail(s)[k - 1] = s[k]
          BY <1>1, <1>2
        <4> QED  BY <2>2, <4>1, <4>2 DEF Covered
      <3> QED
        BY <2>3, <3>1, <3>2 DEF Covered
    <2>4. ASSUME NEW m, Covered(s, 0, m)
          PROVE  Covered(running.rest, 0, m)'
      <3>1. CASE ProtocolAta(m) \in atas \/ Creates(i, m)
        BY <1>4, <3>1 DEF Covered
      <3>2. CASE \E k \in 2..Len(s) : Creates(s[k], m)
        <4>1. Covered(s, 1, m)
          BY <3>2 DEF Covered
        <4> QED  BY <2>3, <4>1
      <3>3. \A k \in 1..Len(s) : k = 1 \/ k \in 2..Len(s)
        BY <1>1
      <3> QED
        BY <1>2, <2>4, <3>1, <3>2, <3>3 DEF Covered
    <2>5. ASSUME NEW m \in Mints, whitelist'[m] # None
          PROVE  Covered(running.rest, 0, m)'
      <3>1. Covered(s, 0, m) \/ Covered(s, 1, m)
        BY <1>1, <1>2, <1>3, <1>5, <2>5
      <3> QED
        BY <2>3, <2>4, <3>1
    <2>6. ASSUME NEW n \in 1..Len(Tail(s)), Tail(s)[n].op = "addOrUpdateWhitelist",
                 NEW m, m = Tail(s)[n].token
          PROVE  Covered(running.rest, n, m)'
      <3>1. n \in Nat /\ n + 1 \in 1..Len(s) /\ Tail(s)[n] = s[n + 1]
        BY <1>1, <1>2
      <3>2. Covered(s, n + 1, m)
        BY <1>3, <2>6, <3>1
      <3> QED
        BY <2>3, <3>1, <3>2
    <2>7. JobsAreSequences' /\ ReadsHold(running.before.atas)'
      BY <1>3, <2>1, <2>2 DEF WhitelistInv, JobsAreSequences, ReadsHold
    <2>8. EntriesHaveAtas(running.before.whitelist, running.before.atas)'
      BY <1>3, <2>2 DEF EntriesHaveAtas
    <2>9. \A m \in Mints : ProtocolAta(m) \in running'.before.atas => ProtocolAta(m) \in atas'
      BY <1>3, <1>4, <2>2
    <2>10. IsSequence(running'.rest) /\ Len(running'.rest) # 0
      BY <1>1, <1>2, <1>7, <2>2
    <2>11. \A n \in 1..Len(running'.rest) : running'.rest[n].op = "addOrUpdateWhitelist" =>
              Covered(running.rest, n, running.rest[n].token)'
      <3> SUFFICES ASSUME NEW n \in 1..Len(running'.rest),
                          running'.rest[n].op = "addOrUpdateWhitelist",
                          NEW m, m = running'.rest[n].token
                   PROVE  Covered(running.rest, n, m)'
        BY DEF Covered
      <3> QED
        BY <2>2, <2>6
    <2> QED
      BY <1>5, <2>2, <2>5, <2>7, <2>8, <2>9, <2>10, <2>11 DEF WhitelistInv
  <1> QED
    BY <1>6, <1>7

(* A transaction fails, and all is as before.                              *)
LEMMA WhitelistAbort ==
  ASSUME WhitelistInv, Abort
  PROVE  WhitelistInv'
  <1>1. /\ running # None /\ running' = None
        /\ atas' = running.before.atas /\ whitelist' = running.before.whitelist
        /\ jobs' = [jobs EXCEPT ![running.call] = None]
    BY DEF Abort, Restore, Done
  <1>2. /\ jobs' = [d \in Calls |-> jobs'[d]]
        /\ \A d \in Calls : jobs'[d] = None \/ jobs'[d] = jobs[d]
    BY <1>1 DEF WhitelistInv, JobsAreSequences
  <1>3. JobsAreSequences'
    BY <1>2 DEF WhitelistInv, JobsAreSequences
  <1>4. EntriesHaveAtas(whitelist, atas)'
    BY <1>1 DEF WhitelistInv, EntriesHaveAtas
  <1>5. ReadsHold(atas)'
    BY <1>1, <1>2 DEF WhitelistInv, ReadsHold
  <1> QED
    BY <1>1, <1>3, <1>4, <1>5 DEF WhitelistInv

(* Outsiders close token accounts of wallets only.                         *)
LEMMA WhitelistElsewhere ==
  ASSUME WhitelistInv, Elsewhere
  PROVE  WhitelistInv'
  <1>1. running = None /\ running' = None /\ UNCHANGED <<whitelist, jobs>> /\ LedgerNext
    BY DEF Elsewhere, configVars
  <1>2. ASSUME NEW m, ProtocolAta(m) \in atas
        PROVE  ProtocolAta(m) \in atas'
    <2>1. ASSUME NEW o \in Wallets, NEW n, CloseAta(o, n)
          PROVE  ProtocolAta(m) \in atas'
      BY <1>2, <2>1, ProtocolAtasApart DEF CloseAta
    <2> QED
      BY <1>1, <1>2, <2>1 DEF LedgerNext, Tick, CreateAta, GiveLamports, GiveTokens
  <1>3. JobsAreSequences' /\ ReadsHold(atas)'
    BY <1>1, <1>2 DEF WhitelistInv, JobsAreSequences, ReadsHold
  <1>4. EntriesHaveAtas(whitelist, atas)'
    BY <1>1, <1>2 DEF WhitelistInv, EntriesHaveAtas
  <1> QED
    BY <1>1, <1>3, <1>4 DEF WhitelistInv

(* Theorem.  Whatever commands run at once, and however they race, fail or *)
(* are lost: between two transactions every whitelisted token has a token  *)
(* account of the protocol.  update-whitelist creates it together with the *)
(* entry unless it has read it before, and nothing closes it.              *)
THEOREM WhitelistedAlwaysHasProtocolAta ==
  ASSUME NoneIsNoTransaction, StartHasAtas
  PROVE  ClientSpec => []WhitelistedHasProtocolAta
  <1>1. ClientInit => WhitelistInv
    <2> SUFFICES ASSUME ClientInit
                 PROVE  WhitelistInv
      OBVIOUS
    <2>1. /\ whitelist = StartWhitelist /\ atas = Start.atas /\ running = None
          /\ jobs = [c \in Calls |-> None]
      BY DEF ClientInit, InterfaceInit, TradeInit, DeploymentInit, LedgerInit
    <2>2. EntriesHaveAtas(whitelist, atas)
      BY <2>1, StartIsSetUp DEF EntriesHaveAtas, StartHasAtas
    <2>3. JobsAreSequences /\ ReadsHold(atas)
      BY <2>1 DEF JobsAreSequences, ReadsHold
    <2> QED
      BY <2>1, <2>2, <2>3 DEF WhitelistInv
  <1>2. WhitelistInv /\ [ClientNext]_allClient => WhitelistInv'
    <2> SUFFICES ASSUME WhitelistInv, [ClientNext]_allClient
                 PROVE  WhitelistInv'
      OBVIOUS
    <2>1. CASE \E c \in Calls : Call(c) \/ Ask(c) \/ GiveUp(c)
      BY <2>1, JobsStep
    <2>2. CASE \E c \in Calls : Land(c)
      BY <2>2, WhitelistLand
    <2>3. CASE UNCHANGED allClient
      <3>1. UNCHANGED <<atas, whitelist, jobs, running>>
        BY <2>3 DEF allClient, chain, ledgerVars, configVars
      <3> QED
        BY <3>1 DEF WhitelistInv, JobsAreSequences, ReadsHold, EntriesHaveAtas, Covered
    <2> QED
      BY <2>1, <2>2, <2>3, WhitelistExecute, WhitelistAbort, WhitelistElsewhere DEF ClientNext
  <1>3. WhitelistInv => WhitelistedHasProtocolAta
    BY DEF WhitelistInv, WhitelistedHasProtocolAta, EntriesHaveAtas, ProtocolAta
  <1> QED
    BY <1>1, <1>2, <1>3, PTL DEF ClientSpec

-----------------------------------------------------------------------------
(* The keys of trades.                                                     *)

\* The trade accounts are a function of the trade ids, to records with a key.
Keyed(detail) ==
    /\ detail = [t \in TradeIds |-> detail[t]]
    /\ \A t \in TradeIds : detail[t] # None => "eph" \in DOMAIN detail[t]

\* An instruction gives a trade a key only when it opens the trade, and then
\* one that holds no nonce account; it gives no open trade another key.
KeysStay ==
    /\ Keyed(tradeDetail')
    /\ \A t \in TradeIds : tradeDetail'[t] # None =>
         IF tradeDetail[t] = None THEN tradeDetail'[t].eph \notin nonceAccount'
         ELSE tradeDetail'[t].eph = tradeDetail[t].eph

(* A change of other fields changes no key.                                *)
LEMMA OtherFields ==
  ASSUME NEW d, NEW x, NEW y, "eph" \in DOMAIN d
  PROVE  /\ [d EXCEPT !.status = x].eph = d.eph
         /\ "eph" \in DOMAIN [d EXCEPT !.status = x]
         /\ [d EXCEPT !.totalFee = x].eph = d.eph
         /\ "eph" \in DOMAIN [d EXCEPT !.totalFee = x]
         /\ [d EXCEPT !.status = x, !.settledPmm = y].eph = d.eph
         /\ "eph" \in DOMAIN [d EXCEPT !.status = x, !.settledPmm = y]
  OBVIOUS

(* A new trade has the ephemeral key it was given.                         *)
LEMMA NewTradeKey ==
  ASSUME NEW t, NEW timeout, NEW mpc, NEW refund, NEW e
  PROVE  LET d == NewTrade(t, timeout, mpc, refund, e)
         IN  d.eph = e /\ "eph" \in DOMAIN d
  BY DEF NewTrade

(* One trade whose account is replaced by another with the same key.       *)
LEMMA OneTrade ==
  ASSUME Keyed(tradeDetail), NEW t, NEW d, tradeDetail' = [tradeDetail EXCEPT ![t] = d],
         t \in TradeIds => \/ d = None
                           \/ /\ "eph" \in DOMAIN d
                              /\ IF tradeDetail[t] = None THEN d.eph \notin nonceAccount'
                                 ELSE d.eph = tradeDetail[t].eph
  PROVE  KeysStay
  <1>1. /\ tradeDetail' = [u \in TradeIds |-> tradeDetail'[u]]
        /\ \A u \in TradeIds : tradeDetail'[u] = IF u = t THEN d ELSE tradeDetail[u]
    BY DEF Keyed
  <1> QED
    BY <1>1 DEF Keyed, KeysStay

(* Nor does a step that leaves the trades as they are.                     *)
LEMMA SameTrades ==
  ASSUME Keyed(tradeDetail), UNCHANGED tradeDetail
  PROVE  KeysStay
  BY DEF Keyed, KeysStay

(* Every instruction leaves the keys of the trades that stay open alone.   *)
LEMMA DepositKeys ==
  ASSUME Keyed(tradeDetail), NEW i, DepositEntry(i)
  PROVE  KeysStay
  <1>1. /\ ~Exists(i.trade) /\ i.ephemeral \notin nonceAccount /\ UNCHANGED nonceAccount
        /\ tradeDetail' = [tradeDetail EXCEPT ![i.trade] =
                             NewTrade(i.trade, i.timeout, i.mpc, i.refund, i.ephemeral)]
    BY DEF DepositEntry, Deposit, NonceFree
  <1> DEFINE d == NewTrade(i.trade, i.timeout, i.mpc, i.refund, i.ephemeral)
  <1>2. tradeDetail[i.trade] = None
    BY <1>1 DEF Exists
  <1>3. d.eph \notin nonceAccount' /\ "eph" \in DOMAIN d
    BY <1>1, NewTradeKey
  <1>4. tradeDetail' = [tradeDetail EXCEPT ![i.trade] = d]
    BY <1>1
  <1> HIDE DEF d
  <1> QED
    BY <1>2, <1>3, <1>4, OneTrade

(* set_total_fee changes no key.                                           *)
LEMMA SetTotalFeeKeys ==
  ASSUME Keyed(tradeDetail), NEW i, SetTotalFeeEntry(i)
  PROVE  KeysStay
  <1>1. /\ tradeDetail[i.trade] # None
        /\ tradeDetail' = [tradeDetail EXCEPT ![i.trade] =
                             [tradeDetail[i.trade] EXCEPT !.totalFee = i.amount]]
    BY DEF SetTotalFeeEntry, SetTotalFee, Exists
  <1> QED
    BY <1>1, OtherFields, OneTrade DEF Keyed

(* A settlement changes no key, and no durable nonce account.              *)
LEMMA SettlementKeys ==
  ASSUME Keyed(tradeDetail), NEW i, SettlementEntry(i)
  PROVE  KeysStay /\ UNCHANGED nonceAccount /\ tradeDetail[i.trade] # None
  <1>1. /\ tradeDetail[i.trade] # None /\ UNCHANGED nonceAccount
        /\ tradeDetail' = [tradeDetail EXCEPT ![i.trade] =
              [tradeDetail[i.trade] EXCEPT !.status = "Settled", !.settledPmm = i.pmm]]
    BY DEF SettlementEntry, Settlement, Settled, Exists
  <1> QED
    BY <1>1, OtherFields, OneTrade DEF Keyed

(* A claim changes no key.                                                 *)
LEMMA ClaimKeys ==
  ASSUME Keyed(tradeDetail), NEW i, ClaimEntry(i)
  PROVE  KeysStay
  <1>1. /\ tradeDetail[i.trade] # None
        /\ tradeDetail' = [tradeDetail EXCEPT ![i.trade] =
                             [tradeDetail[i.trade] EXCEPT !.status = "Claimed"]]
    BY DEF ClaimEntry, Claim, Exists
  <1> QED
    BY <1>1, OtherFields, OneTrade DEF Keyed

(* Closing removes a trade with its key.                                   *)
LEMMA CloseKeys ==
  ASSUME Keyed(tradeDetail), NEW i, CloseFinishedTradeEntry(i)
  PROVE  KeysStay
  <1>1. tradeDetail' = [tradeDetail EXCEPT ![i.trade] = None]
    BY DEF CloseFinishedTradeEntry, CloseFinishedTrade
  <1> QED
    BY <1>1, OneTrade

(* So no instruction gives a trade that stays open another key.            *)
LEMMA ExecuteKeys ==
  ASSUME Keyed(tradeDetail), NEW i, Execute(i)
  PROVE  KeysStay
  <1>1. CASE OnTrade(i)
    BY <1>1, DepositKeys, SetTotalFeeKeys, SettlementKeys, ClaimKeys, CloseKeys DEF OnTrade
  <1>2. CASE UNCHANGED tradeDetail
    BY <1>2, SameTrades
  <1>3. CASE System(i)
    BY <1>3, <1>2 DEF System, WithdrawNonce, CreateNonceAccount, WithdrawNonceAccount, tradeVars
  <1> QED
    BY <1>1, <1>2, <1>3 DEF Execute, Program, tradeVars


-----------------------------------------------------------------------------
(* Trades and their durable nonce accounts.                                *)

\* A deposit call has opened t with the key e.
Deposited(t, e) == \E c \in Calls : c.fn = "deposit" /\ c.trade = t /\ c.ephemeral = e

\* Every trade has a nonce account at its key, which is the key of a call that
\* deposits it, and no other trade's.
KeysHeld(detail, accounts) ==
    /\ Keyed(detail)
    /\ \A t \in TradeIds : detail[t] # None =>
          detail[t].eph \in accounts /\ Deposited(t, detail[t].eph)
    /\ \A t, u \in TradeIds :
          detail[t] # None /\ detail[u] # None /\ detail[t].eph = detail[u].eph => t = u

\* No trade has the key e.
Unused(detail, e) == \A t \in TradeIds : detail[t] # None => detail[t].eph # e

TradeOps == {"deposit", "withdrawNonce"}

\* How far a transaction has come.  Only between a deposit and the nonce
\* account that follows it is a trade without one.
Stage(s) ==
    \/ /\ Without(s, TradeOps)
       /\ KeysHeld(tradeDetail, nonceAccount)
    \/ /\ \E c \in Calls : c.fn = "deposit" /\ Opens(s, c)
       /\ KeysHeld(tradeDetail, nonceAccount)
    \/ /\ IsSequence(s) /\ Len(s) = 1 /\ s[1].op = "createNonce"
       /\ KeysHeld(tradeDetail, nonceAccount \cup {s[1].ephemeral})
    \/ /\ \E c \in Calls : c.fn = "close-trade" /\ Closes(s, c)
       /\ KeysHeld(tradeDetail, nonceAccount)
    \/ /\ IsSequence(s) /\ Len(s) = 1 /\ s[1].op = "withdrawNonce"
       /\ KeysHeld(tradeDetail, nonceAccount) /\ Unused(tradeDetail, s[1].ephemeral)

\* The invariant.  Trades have their nonce accounts between transactions, and
\* so in what a transaction under way would give back.
NonceInv ==
    IF running = None THEN KeysHeld(tradeDetail, nonceAccount)
    ELSE /\ IsTransaction(running) /\ IsSequence(running.rest) /\ Len(running.rest) # 0
         /\ KeysHeld(running.before.tradeDetail, running.before.nonceAccount)
         /\ Stage(running.rest)

\* Trades are opened and closed by the scripts that see to their nonce
\* accounts as well.
ScriptsOnly ==
    \A c \in Calls : c.fn \notin {"deposit-only", "close-nonce"}

\* Who closes a trade names the key that it was deposited with.
KeysMatch ==
    \A c, d \in Calls : c.fn = "deposit" /\ d.fn = "close-trade" /\ c.trade = d.trade =>
        c.ephemeral = d.ephemeral

(* An instruction other than deposit opens no trade.                       *)
LEMMA NoNewTrade ==
  ASSUME Keyed(tradeDetail), NEW i, Execute(i), i.op # "deposit"
  PROVE  /\ Keyed(tradeDetail')
         /\ \A t \in TradeIds : tradeDetail'[t] # None =>
               tradeDetail[t] # None /\ tradeDetail'[t].eph = tradeDetail[t].eph
  <1>1. KeysStay
    BY ExecuteKeys
  <1>2. ASSUME NEW t, NEW d, tradeDetail' = [tradeDetail EXCEPT ![t] = d],
               tradeDetail[t] = None => d = None
        PROVE  \A u \in TradeIds : tradeDetail'[u] # None => tradeDetail[u] # None
    BY <1>2 DEF Keyed
  <1>3. CASE SetTotalFeeEntry(i)
    <2>1. /\ tradeDetail[i.trade] # None
          /\ tradeDetail' = [tradeDetail EXCEPT ![i.trade] =
                               [tradeDetail[i.trade] EXCEPT !.totalFee = i.amount]]
      BY <1>3 DEF SetTotalFeeEntry, SetTotalFee, Exists
    <2> QED  BY <1>1, <1>2, <2>1 DEF KeysStay
  <1>4. CASE SettlementEntry(i)
    <2>1. /\ tradeDetail[i.trade] # None
          /\ tradeDetail' = [tradeDetail EXCEPT ![i.trade] = Settled(i.trade, i.pmm)]
      BY <1>4 DEF SettlementEntry, Settlement, Exists
    <2> QED  BY <1>1, <1>2, <2>1 DEF KeysStay
  <1>5. CASE ClaimEntry(i)
    <2>1. /\ tradeDetail[i.trade] # None
          /\ tradeDetail' = [tradeDetail EXCEPT ![i.trade] =
                               [tradeDetail[i.trade] EXCEPT !.status = "Claimed"]]
      BY <1>5 DEF ClaimEntry, Claim, Exists
    <2> QED  BY <1>1, <1>2, <2>1 DEF KeysStay
  <1>6. CASE CloseFinishedTradeEntry(i)
    <2>1. tradeDetail' = [tradeDetail EXCEPT ![i.trade] = None]
      BY <1>6 DEF CloseFinishedTradeEntry, CloseFinishedTrade
    <2> QED  BY <1>1, <1>2, <2>1 DEF KeysStay
  <1>7. CASE UNCHANGED tradeDetail
    BY <1>7 DEF Keyed
  <1>8. CASE System(i)
    BY <1>7, <1>8 DEF System, WithdrawNonce, CreateNonceAccount, WithdrawNonceAccount, tradeVars
  <1> QED
    BY <1>3, <1>4, <1>5, <1>6, <1>7, <1>8
       DEF Execute, Program, OnTrade, DepositEntry, tradeVars

(* An instruction other than the withdrawal of the account at a key leaves *)
(* the nonce account there.                                                *)
LEMMA NonceAccountStays ==
  ASSUME NEW i, Execute(i), NEW e \in nonceAccount,
         i.op # "withdrawNonce" \/ i.ephemeral # e
  PROVE  e \in nonceAccount'
  <1>1. CASE UNCHANGED nonceAccount
    BY <1>1
  <1>2. CASE OnTrade(i)
    BY <1>2, <1>1 DEF OnTrade, DepositEntry, Deposit, SetTotalFeeEntry, SetTotalFee,
                      SettlementEntry, Settlement, ClaimEntry, Claim,
                      CloseFinishedTradeEntry, CloseFinishedTrade
  <1>3. CASE System(i)
    BY <1>1, <1>3 DEF System, CreateNonceAccount, WithdrawNonce, WithdrawNonceAccount, tradeVars
  <1> QED
    BY <1>1, <1>2, <1>3 DEF Execute, Program, tradeVars

(* What opens no trade and withdraws no account of one keeps all keys.     *)
LEMMA KeysHeldOn ==
  ASSUME NEW accounts, KeysHeld(tradeDetail, accounts), NEW i, Execute(i), i.op # "deposit",
         NEW remaining,
         \A t \in TradeIds : tradeDetail'[t] # None =>
             (tradeDetail[t].eph \in accounts => tradeDetail[t].eph \in remaining)
  PROVE  KeysHeld(tradeDetail', remaining)
  <1>1. /\ Keyed(tradeDetail')
        /\ \A t \in TradeIds : tradeDetail'[t] # None =>
              tradeDetail[t] # None /\ tradeDetail'[t].eph = tradeDetail[t].eph
    BY NoNewTrade DEF KeysHeld
  <1> QED
    BY <1>1 DEF KeysHeld

(* deposit opens a trade with a key that holds no nonce account.           *)
LEMMA DepositOpens ==
  ASSUME KeysHeld(tradeDetail, nonceAccount), NEW i, Execute(i), i.op = "deposit",
         Deposited(i.trade, i.ephemeral)
  PROVE  KeysHeld(tradeDetail', nonceAccount' \cup {i.ephemeral})
  <1>1. DepositEntry(i)
    BY DEF Execute, Program, System, OnConfig, OnTrade, OnPayment, SetTotalFeeEntry,
           SettlementEntry, ClaimEntry, CloseFinishedTradeEntry
  <1> DEFINE d == NewTrade(i.trade, i.timeout, i.mpc, i.refund, i.ephemeral)
  <1>2. /\ i.ephemeral \notin nonceAccount /\ UNCHANGED nonceAccount
        /\ tradeDetail' = [tradeDetail EXCEPT ![i.trade] = d]
    BY <1>1 DEF DepositEntry, Deposit, NonceFree
  <1>3. d.eph = i.ephemeral /\ "eph" \in DOMAIN d
    BY NewTradeKey
  <1> HIDE DEF d
  <1>4. /\ tradeDetail' = [u \in TradeIds |-> tradeDetail'[u]]
        /\ \A u \in TradeIds : tradeDetail'[u] = IF u = i.trade THEN d ELSE tradeDetail[u]
    BY <1>2 DEF KeysHeld, Keyed
  <1>5. Keyed(tradeDetail')
    BY <1>3, <1>4 DEF KeysHeld, Keyed
  <1>6. ASSUME NEW t \in TradeIds, tradeDetail'[t] # None
        PROVE  /\ tradeDetail'[t].eph \in nonceAccount' \cup {i.ephemeral}
               /\ Deposited(t, tradeDetail'[t].eph)
    BY <1>2, <1>3, <1>4, <1>6 DEF KeysHeld
  <1>7. ASSUME NEW t \in TradeIds, NEW u \in TradeIds, tradeDetail'[t] # None,
               tradeDetail'[u] # None, tradeDetail'[t].eph = tradeDetail'[u].eph
        PROVE  t = u
    BY <1>2, <1>3, <1>4, <1>7 DEF KeysHeld
  <1> QED
    BY <1>5, <1>6, <1>7 DEF KeysHeld

(* A transaction begins, at the stage of its command.                      *)
LEMMA NonceLand ==
  ASSUME NoneIsNoTransaction, ScriptsOnly, NonceInv, NEW c \in Calls, Land(c)
  PROVE  NonceInv'
  <1> DEFINE s == Transaction(c, jobs[c]).instructions
  <1>1. /\ running = None /\ s # <<>> /\ UNCHANGED <<tradeDetail, nonceAccount>>
        /\ running' = [call |-> c, signers |-> Transaction(c, jobs[c]).signers, rest |-> s,
                       before |-> State]
    BY DEF Land, chain, tradeVars
  <1>2. /\ IsTransaction(running') /\ running' # None
        /\ running'.rest = s
        /\ running'.before.tradeDetail = tradeDetail
        /\ running'.before.nonceAccount = nonceAccount
    BY <1>1 DEF IsTransaction, NoneIsNoTransaction, State
  <1>3. KeysHeld(tradeDetail, nonceAccount)
    BY <1>1 DEF NonceInv
  <1>4. IsSequence(s) /\ Stage(s)
    <2>1. CASE c.fn = "deposit"
      <3>1. Opens(s, c)
        BY <2>1, DepositIs
      <3> HIDE DEF s
      <3> QED  BY <1>3, <2>1, <3>1 DEF Stage, Opens
    <2>2. CASE c.fn = "close-trade"
      <3>1. Closes(s, c)
        BY <2>2, CloseTradeIs
      <3> HIDE DEF s
      <3> QED  BY <1>3, <2>2, <3>1 DEF Stage, Closes
    <2>3. CASE c.fn = "update-whitelist" \/ c.fn \in PlainCommands
      <3>1. Without(s, TradeOps)
        <4>1. CASE c.fn \in PlainCommands
          BY <4>1, TransactionPlain DEF Plain, Without, NotPlain, TradeOps
        <4>2. CASE c.fn = "update-whitelist"
          BY <4>2, UpdateWhitelistOps DEF TradeOps
        <4> QED  BY <2>3, <4>1, <4>2
      <3> HIDE DEF s
      <3> QED  BY <1>3, <3>1 DEF Stage, Without
    <2> QED
      BY <2>1, <2>2, <2>3, CallsAssumption DEF ScriptsOnly, PlainCommands
  <1>5. Len(s) # 0
    BY <1>1, <1>4 DEF IsSequence
  <1> HIDE DEF s
  <1>6. Stage(running.rest)'
    BY <1>1, <1>2, <1>4 DEF Stage
  <1> QED
    BY <1>1, <1>2, <1>3, <1>4, <1>5, <1>6 DEF NonceInv

(* An instruction takes a transaction from stage to stage, and at the end  *)
(* every trade has its nonce account.                                      *)
LEMMA StageStep ==
  ASSUME KeysMatch, NEW s, IsSequence(s), Len(s) # 0, Stage(s), Execute(s[1]),
         NEW u, IsSequence(u), Len(u) = Len(s) - 1, \A n \in 1..Len(s) - 1 : u[n] = s[n + 1]
  PROVE  /\ Len(s) = 1 => KeysHeld(tradeDetail', nonceAccount')
         /\ Len(s) # 1 => Stage(u)'
  <1> DEFINE i == s[1]
  <1>0. Len(s) \in Nat /\ Len(u) \in Nat
    BY DEF IsSequence
  <1>1. CASE Without(s, TradeOps) /\ KeysHeld(tradeDetail, nonceAccount)
    <2>1. i.op \notin TradeOps
      BY <1>0, <1>1 DEF Without
    <2>2. KeysHeld(tradeDetail', nonceAccount')
      BY <1>1, <2>1, KeysHeldOn, NonceAccountStays DEF TradeOps
    <2>3. Without(u, TradeOps)
      BY <1>0, <1>1 DEF Without
    <2> QED
      BY <2>2, <2>3 DEF Stage
  <1>2. ASSUME NEW c \in Calls, c.fn = "deposit", Opens(s, c), KeysHeld(tradeDetail, nonceAccount)
        PROVE  Stage(u)' /\ Len(s) # 1
    <2>1. CASE Len(s) = 2
      <3>1. i.op = "deposit" /\ i.trade = c.trade /\ i.ephemeral = c.ephemeral
        BY <1>2, <2>1 DEF Opens
      <3>2. Deposited(i.trade, i.ephemeral)
        BY <1>2, <3>1 DEF Deposited
      <3>3. KeysHeld(tradeDetail', nonceAccount' \cup {i.ephemeral})
        BY <1>2, <3>1, <3>2, DepositOpens
      <3>4. Len(u) = 1 /\ u[1].op = "createNonce" /\ u[1].ephemeral = i.ephemeral
        BY <1>0, <1>2, <2>1, <3>1 DEF Opens
      <3> QED
        BY <2>1, <3>3, <3>4 DEF Stage
    <2>2. CASE Len(s) > 2
      <3>1. i.op \notin TradeOps
        BY <1>0, <1>2, <2>2 DEF Opens, TradeOps
      <3>2. KeysHeld(tradeDetail', nonceAccount')
        BY <1>2, <3>1, KeysHeldOn, NonceAccountStays DEF TradeOps
      <3>3. Opens(u, c)
        <4>1. u[Len(u)] = s[Len(s)] /\ u[Len(u) - 1] = s[Len(s) - 1]
          BY <1>0, <2>2
        <4>2. \A n \in 1..Len(u) - 2 : u[n].op \notin {"deposit", "withdrawNonce"}
          BY <1>0, <1>2 DEF Opens
        <4> QED
          BY <1>0, <1>2, <2>2, <4>1, <4>2 DEF Opens
      <3> QED
        BY <1>2, <2>2, <3>2, <3>3 DEF Stage
    <2> QED
      BY <1>0, <1>2, <2>1, <2>2 DEF Opens
  <1>3. CASE /\ Len(s) = 1 /\ i.op = "createNonce"
             /\ KeysHeld(tradeDetail, nonceAccount \cup {i.ephemeral})
    <2>1. CreateNonceAccount(i.signer, i.ephemeral)
      BY <1>3 DEF Execute, Program, System, OnConfig, OnTrade, OnPayment, DepositEntry,
                  SetTotalFeeEntry, SettlementEntry, ClaimEntry, CloseFinishedTradeEntry
    <2>2. tradeDetail' = tradeDetail /\ nonceAccount' = nonceAccount \cup {i.ephemeral}
      BY <2>1 DEF CreateNonceAccount
    <2> QED
      BY <1>3, <2>2
  <1>4. ASSUME NEW c \in Calls, c.fn = "close-trade", Closes(s, c),
               KeysHeld(tradeDetail, nonceAccount)
        PROVE  Stage(u)' /\ Len(s) # 1
    <2>1. /\ Len(s) = 2 /\ i.op = "closeFinishedTrade" /\ i.trade = c.trade
          /\ s[2].op = "withdrawNonce" /\ s[2].ephemeral = c.ephemeral
      BY <1>4 DEF Closes
    <2>2. CloseFinishedTradeEntry(i)
      BY <2>1 DEF Execute, Program, System, OnConfig, OnTrade, OnPayment, DepositEntry,
                  SetTotalFeeEntry, SettlementEntry, ClaimEntry
    <2>3. /\ tradeDetail[c.trade] # None /\ nonceAccount' = nonceAccount
          /\ tradeDetail' = [tradeDetail EXCEPT ![c.trade] = None]
      BY <2>1, <2>2 DEF CloseFinishedTradeEntry, CloseFinishedTrade, Exists
    <2>4. KeysHeld(tradeDetail', nonceAccount')
      BY <1>4, <2>1, KeysHeldOn, NonceAccountStays
    <2>5. Unused(tradeDetail', c.ephemeral)
      <3> SUFFICES ASSUME NEW t \in TradeIds, tradeDetail'[t] # None
                   PROVE  tradeDetail'[t].eph # c.ephemeral
        BY DEF Unused
      <3>1. t # c.trade /\ tradeDetail'[t] = tradeDetail[t]
        BY <1>4, <2>3 DEF KeysHeld, Keyed
      <3>2. c.trade \in TradeIds
        BY <1>4, CallsAssumption
      <3>3. Deposited(c.trade, tradeDetail[c.trade].eph)
        BY <1>4, <2>3, <3>2 DEF KeysHeld
      <3>4. tradeDetail[c.trade].eph = c.ephemeral
        BY <1>4, <3>3 DEF Deposited, KeysMatch
      <3> QED
        BY <1>4, <2>3, <3>1, <3>2, <3>4 DEF KeysHeld
    <2>6. IsSequence(u) /\ Len(u) = 1 /\ u[1] = s[2]
      BY <1>0, <2>1
    <2> QED
      BY <2>1, <2>4, <2>5, <2>6 DEF Stage
  <1>5. CASE /\ Len(s) = 1 /\ i.op = "withdrawNonce"
             /\ KeysHeld(tradeDetail, nonceAccount) /\ Unused(tradeDetail, i.ephemeral)
    <2>1. tradeDetail' = tradeDetail
      BY <1>5 DEF Execute, Program, System, OnConfig, OnTrade, OnPayment, DepositEntry,
                  SetTotalFeeEntry, SettlementEntry, ClaimEntry, CloseFinishedTradeEntry,
                  WithdrawNonce, WithdrawNonceAccount, tradeVars
    <2>2. \A t \in TradeIds : tradeDetail'[t] # None =>
             (tradeDetail[t].eph \in nonceAccount => tradeDetail[t].eph \in nonceAccount')
      BY <1>5, <2>1, NonceAccountStays DEF Unused
    <2>3. KeysHeld(tradeDetail', nonceAccount')
      BY <1>5, <2>2, KeysHeldOn
    <2> QED
      BY <1>5, <2>3
  <1> QED
    BY <1>1, <1>2, <1>3, <1>4, <1>5 DEF Stage

(* An instruction is executed, the last or one before.                     *)
LEMMA NonceExecute ==
  ASSUME NoneIsNoTransaction, KeysMatch, NonceInv, ExecuteNext
  PROVE  NonceInv'
  <1> DEFINE s == running.rest
  <1>1. /\ running # None /\ Execute(Head(s)) /\ IsTransaction(running)
        /\ IsSequence(s) /\ Len(s) # 0 /\ Len(s) \in Nat /\ Stage(s)
        /\ KeysHeld(running.before.tradeDetail, running.before.nonceAccount)
    BY DEF NonceInv, ExecuteNext, Next1, IsSequence
  <1>2. /\ Head(s) = s[1] /\ IsSequence(Tail(s)) /\ Len(Tail(s)) = Len(s) - 1
        /\ \A n \in 1..Len(s) - 1 : Tail(s)[n] = s[n + 1]
    BY <1>1, TailIs
  <1>3. CASE Len(s) = 1
    <2>1. running' = None
      BY <1>3 DEF ExecuteNext, Done
    <2> HIDE DEF s
    <2>2. KeysHeld(tradeDetail', nonceAccount')
      BY <1>1, <1>2, <1>3, StageStep
    <2> QED
      BY <2>1, <2>2 DEF NonceInv
  <1>4. CASE Len(s) # 1
    <2>1. running' = [running EXCEPT !.rest = Tail(s)]
      BY <1>4 DEF ExecuteNext
    <2>2. PICK u : u = Tail(s)
      OBVIOUS
    <2> HIDE DEF s
    <2>3. /\ IsTransaction(running') /\ running' # None
          /\ running'.rest = u /\ running'.before = running.before
      BY <1>1, <2>1, <2>2, GoesOn
    <2>4. Stage(u)'
      BY <1>1, <1>2, <1>4, <2>2, StageStep
    <2>5. IsSequence(u) /\ Len(u) # 0
      BY <1>1, <1>2, <1>4, <2>2
    <2>6. Stage(running.rest)'
      BY <2>3, <2>4 DEF Stage
    <2> QED
      BY <1>1, <2>3, <2>5, <2>6 DEF NonceInv
  <1> QED
    BY <1>3, <1>4

(* Theorem.  While trades are made by the deposit script and closed by the *)
(* script that withdraws the nonce account too, and whoever closes a trade *)
(* names its key: between two transactions every trade has a durable nonce *)
(* account, however these scripts race, fail or are lost.  Deposit and     *)
(* nonce account come in one transaction, and a key with a nonce account   *)
(* is refused for another deposit.                                         *)
THEOREM NonceAlwaysWithTrade ==
  ASSUME NoneIsNoTransaction, ScriptsOnly, KeysMatch
  PROVE  ClientSpec => []NonceWithTrade
  <1>1. ClientInit => NonceInv
    <2> SUFFICES ASSUME ClientInit
                 PROVE  NonceInv
      OBVIOUS
    <2>1. tradeDetail = [t \in TradeIds |-> None] /\ running = None
      BY DEF ClientInit, InterfaceInit, TradeInit
    <2> QED
      BY <2>1 DEF NonceInv, KeysHeld, Keyed
  <1>2. NonceInv /\ [ClientNext]_allClient => NonceInv'
    <2> SUFFICES ASSUME NonceInv, [ClientNext]_allClient
                 PROVE  NonceInv'
      OBVIOUS
    <2>1. CASE UNCHANGED <<tradeDetail, nonceAccount, running>>
      BY <2>1 DEF NonceInv, Stage
    <2>2. CASE \E c \in Calls : Call(c) \/ Ask(c) \/ GiveUp(c)
      BY <2>1, <2>2 DEF Call, Ask, GiveUp, chain, tradeVars
    <2>3. CASE Abort
      BY <2>3 DEF Abort, Restore, Done, NonceInv
    <2>4. CASE Elsewhere \/ UNCHANGED allClient
      BY <2>1, <2>4 DEF Elsewhere, allClient, chain, tradeVars
    <2> QED
      BY <2>2, <2>3, <2>4, NonceLand, NonceExecute DEF ClientNext
  <1>3. NonceInv => NonceWithTrade
    BY DEF NonceInv, NonceWithTrade, KeysHeld, Exists
  <1> QED
    BY <1>1, <1>2, <1>3, PTL DEF ClientSpec

-----------------------------------------------------------------------------
(* Settlement in advance.                                                  *)

(* Only the entry point of settlement executes one.                        *)
LEMMA SettlementOnly ==
  ASSUME NEW i, Execute(i), i.op = "settlement"
  PROVE  SettlementEntry(i)
  BY DEF Execute, Program, System, OnConfig, OnTrade, OnPayment, DepositEntry,
         SetTotalFeeEntry, ClaimEntry, CloseFinishedTradeEntry

-----------------------------------------------------------------------------
(* The invariant.  Of the chain as it is, and as a transaction under way   *)
(* may leave it when it fails: a nonce value is at most as new as epoch,   *)
(* and where a trade has the key of a presign, and the key a nonce account *)
(* with the value of the presign, the trade is still the deposit during    *)
(* which the presign was made.                                             *)
Takes(p, detail, accounts, value) ==
    /\ detail[p.ix.trade] # None /\ detail[p.ix.trade].eph = p.ix.ephemeral
    /\ p.ix.ephemeral \in accounts /\ value[p.ix.ephemeral] = p.nonce

Numbered(detail, accounts, value, made) ==
    /\ Keyed(detail)
    /\ value = [e \in DOMAIN value |-> value[e]] /\ accounts \subseteq DOMAIN value
    /\ \A e \in DOMAIN value : value[e] \in Nat /\ value[e] <= epoch
    /\ \A p \in presigns : Takes(p, detail, accounts, value) => p.during = made[p.ix.trade]

IsSettlement(ix) == ix.op = "settlement" /\ ix.trade \in TradeIds /\ ix.pmm \in Pmms

PresignsSound ==
    /\ signing # None => IsSettlement(signing.ix)
    /\ \A p \in presigns : IsSettlement(p.ix) /\ p.nonce \in Nat /\ p.nonce <= epoch
    /\ verifying # None => "presign" \in DOMAIN verifying /\ verifying.presign \in presigns
    /\ \A v \in verified : v.presign \in presigns

NumberedNow == Numbered(tradeDetail, nonceAccount, nonceValue, deposits)

NumberedBefore == running # None =>
    /\ "before" \in DOMAIN running
    /\ Numbered(running.before.tradeDetail, running.before.nonceAccount,
                kept.nonceValue, kept.deposits)

PresignInv == epoch \in Nat /\ PresignsSound /\ NumberedNow /\ NumberedBefore

(* Whatever leaves the presigns alone.                                     *)
LEMMA PresignsKept ==
  ASSUME PresignInv, UNCHANGED presignVars, epoch' \in Nat, epoch' >= epoch
  PROVE  PresignsSound'
  BY DEF PresignInv, PresignsSound, presignVars, IsSettlement

(* What leaves the trades and the nonce accounts alone.                    *)
LEMMA NowKept ==
  ASSUME PresignInv, UNCHANGED <<tradeDetail, nonceAccount, nonceValue, deposits, presigns>>,
         epoch' \in Nat, epoch' >= epoch
  PROVE  NumberedNow'
  BY DEF PresignInv, NumberedNow, Numbered, Takes, Keyed

(* What leaves the state before the transaction alone, or ends it.         *)
LEMMA BeforeKept ==
  ASSUME PresignInv, UNCHANGED presigns, epoch' \in Nat, epoch' >= epoch,
         \/ running' = None
         \/ /\ running # None /\ "before" \in DOMAIN running'
            /\ running'.before = running.before /\ kept' = kept
  PROVE  NumberedBefore'
  <1>1. CASE running' = None
    BY <1>1 DEF NumberedBefore
  <1>2. CASE /\ running # None /\ "before" \in DOMAIN running'
             /\ running'.before = running.before /\ kept' = kept
    BY <1>2 DEF PresignInv, NumberedBefore, Numbered, Takes, Keyed
  <1> QED
    BY <1>1, <1>2

(* A transaction begins.                                                   *)
LEMMA LandStep ==
  ASSUME PresignInv, UNCHANGED presignVars, NEW c \in Calls, Land(c), Begin
  PROVE  PresignInv'
  <1>1. /\ UNCHANGED <<tradeDetail, nonceAccount, nonceValue, deposits, presigns, epoch>>
        /\ epoch \in Nat
    BY DEF Land, Begin, chain, tradeVars, presignVars, PresignInv
  <1>2. /\ "before" \in DOMAIN running'
        /\ running'.before.tradeDetail = tradeDetail
        /\ running'.before.nonceAccount = nonceAccount
    BY DEF Land, State
  <1>3. kept'.nonceValue = nonceValue /\ kept'.deposits = deposits
    BY DEF Begin
  <1>4. PresignsSound' /\ NumberedNow'
    BY <1>1, PresignsKept, NowKept
  <1>5. NumberedBefore'
    BY <1>1, <1>2, <1>3 DEF PresignInv, NumberedNow, NumberedBefore, Numbered, Takes, Keyed
  <1> QED
    BY <1>1, <1>4, <1>5 DEF PresignInv

(* An instruction is executed.  A trade it opens has a key that holds no   *)
(* nonce account, and a nonce account it opens a value that nobody has     *)
(* signed.                                                                 *)
LEMMA FollowStep ==
  ASSUME PresignInv, UNCHANGED presignVars, ExecuteNext, Follow
  PROVE  PresignInv'
  <1>1. epoch \in Nat /\ epoch' \in Nat /\ epoch' >= epoch /\ presigns' = presigns
    BY DEF Follow, PresignInv, presignVars
  <1>2. Keyed(tradeDetail) /\ KeysStay
    BY ExecuteKeys DEF ExecuteNext, PresignInv, NumberedNow, Numbered
  <1>3. NumberedNow'
    <2>1. /\ nonceValue' = [e \in DOMAIN nonceValue' |-> nonceValue'[e]]
          /\ nonceAccount' \subseteq DOMAIN nonceValue'
      BY DEF Follow, Renewed, PresignInv, NumberedNow, Numbered
    <2>2. \A e \in DOMAIN nonceValue' :
             IF e \in Renewed THEN nonceValue'[e] = epoch' /\ epoch' = epoch + 1
             ELSE e \in DOMAIN nonceValue /\ nonceValue'[e] = nonceValue[e]
      BY DEF Follow
    <2>3. \A e \in DOMAIN nonceValue' : nonceValue'[e] \in Nat /\ nonceValue'[e] <= epoch'
      BY <1>1, <2>2 DEF PresignInv, NumberedNow, Numbered
    <2>4. ASSUME NEW p \in presigns, Takes(p, tradeDetail', nonceAccount', nonceValue')
          PROVE  p.during = deposits'[p.ix.trade]
      <3> DEFINE t == p.ix.trade
                 e == p.ix.ephemeral
      <3>1. t \in TradeIds /\ p.nonce \in Nat /\ p.nonce <= epoch
        BY DEF PresignInv, PresignsSound, IsSettlement
      <3>2. tradeDetail[t] # None /\ tradeDetail[t].eph = e
        BY <1>2, <2>4, <3>1 DEF KeysStay, Takes
      <3>3. t \notin Opened /\ deposits'[t] = deposits[t]
        BY <3>1, <3>2 DEF Opened, Follow
      <3>4. e \in DOMAIN nonceValue'
        BY <2>1, <2>4 DEF Takes
      <3>5. e \notin Renewed
        BY <1>1, <2>2, <2>4, <3>1, <3>4 DEF Takes
      <3>6. e \in nonceAccount /\ nonceValue[e] = p.nonce
        BY <2>2, <2>4, <3>4, <3>5 DEF Takes, Renewed
      <3>7. p.during = deposits[t]
        BY <3>2, <3>6 DEF Takes, PresignInv, NumberedNow, Numbered
      <3> QED
        BY <3>3, <3>7
    <2> QED
      BY <1>1, <1>2, <2>1, <2>3, <2>4 DEF NumberedNow, Numbered, Takes, KeysStay, Keyed
  <1>4. NumberedBefore'
    <2>1. CASE running' = None
      BY <1>1, <2>1, BeforeKept
    <2>2. CASE running' # None
      <3>1. running # None /\ running' = [running EXCEPT !.rest = Tail(running.rest)]
        BY <2>2 DEF ExecuteNext, Done
      <3>2. "before" \in DOMAIN running
        BY <3>1 DEF PresignInv, NumberedBefore
      <3>3. "before" \in DOMAIN running' /\ running'.before = running.before
        BY <3>1, <3>2
      <3>4. kept' = kept
        BY <2>2 DEF Follow
      <3> QED
        BY <1>1, <3>1, <3>3, <3>4, BeforeKept
    <2> QED
      BY <2>1, <2>2
  <1> QED
    BY <1>1, <1>3, <1>4, PresignsKept DEF PresignInv

(* A transaction fails, and gives back what it did.                        *)
LEMMA AbortStep ==
  ASSUME PresignInv, UNCHANGED presignVars, Abort, GiveBack
  PROVE  PresignInv'
  <1>1. epoch \in Nat /\ epoch' = epoch /\ presigns' = presigns
    BY DEF GiveBack, PresignInv, presignVars
  <1>2. /\ running # None /\ running' = None
        /\ tradeDetail' = running.before.tradeDetail
        /\ nonceAccount' = running.before.nonceAccount
    BY DEF Abort, Restore, Done
  <1>3. nonceValue' = kept.nonceValue /\ deposits' = kept.deposits
    BY DEF GiveBack
  <1>4. NumberedNow'
    BY <1>1, <1>2, <1>3 DEF PresignInv, NumberedNow, NumberedBefore, Numbered, Takes, Keyed
  <1> QED
    BY <1>1, <1>2, <1>4, PresignsKept, BeforeKept DEF PresignInv

(* Clients that make no presign disturb none.                              *)
LEMMA ClientsStep ==
  ASSUME PresignInv, UNCHANGED presignVars, Clients
  PROVE  PresignInv'
  <1>1. ASSUME UNCHANGED <<tradeVars, running, nonceVars>>
        PROVE  PresignInv'
    <2>1. /\ UNCHANGED <<tradeDetail, nonceAccount, nonceValue, deposits, presigns, epoch>>
          /\ UNCHANGED <<running, kept>> /\ epoch \in Nat
      BY <1>1 DEF tradeVars, nonceVars, presignVars, PresignInv
    <2>2. PresignsSound' /\ NumberedNow'
      BY <2>1, PresignsKept, NowKept
    <2>3. NumberedBefore'
      BY <2>1, BeforeKept DEF PresignInv, NumberedBefore
    <2> QED
      BY <2>1, <2>2, <2>3 DEF PresignInv
  <1>2. CASE (\E c \in Calls : Call(c) \/ Ask(c) \/ GiveUp(c)) /\ UNCHANGED nonceVars
    BY <1>1, <1>2 DEF Call, Ask, GiveUp, chain
  <1>3. CASE Elsewhere /\ UNCHANGED nonceVars
    BY <1>1, <1>3 DEF Elsewhere
  <1> QED
    BY <1>2, <1>3, LandStep, FollowStep, AbortStep DEF Clients

-----------------------------------------------------------------------------
(* The depositor and the mpc.                                              *)

(* What is signed in advance is a settlement.                              *)
LEMMA SettlementIxFacts ==
  ASSUME NEW t \in TradeIds, NEW d, NEW mpc, NEW e, NEW pmm \in Pmms
  PROVE  IsSettlement(SettlementIx(t, d, mpc, e, pmm))
  BY DEF SettlementIx, CreateSettlement, IsSettlement

\* What changes neither the chain nor the presigns.
LEMMA OffChain ==
  ASSUME PresignInv, UNCHANGED <<allClient, nonceVars, presigns>>
  PROVE  epoch' \in Nat /\ epoch' = epoch /\ NumberedNow' /\ NumberedBefore'
  <1>1. /\ UNCHANGED <<tradeDetail, nonceAccount, nonceValue, deposits, presigns, epoch>>
        /\ UNCHANGED <<running, kept>> /\ epoch \in Nat
    BY DEF allClient, chain, tradeVars, nonceVars, PresignInv
  <1> QED
    BY <1>1, NowKept, BeforeKept DEF PresignInv, NumberedBefore

(* Signing takes the nonce of the deposit that is there.                   *)
LEMMA SignStep ==
  ASSUME PresignInv, Sign
  PROVE  PresignInv'
  <1> DEFINE ix == signing.ix
             p0 == [ix |-> ix, nonce |-> nonceValue[ix.ephemeral], during |-> deposits[ix.trade]]
  <1>1. /\ UNCHANGED <<tradeDetail, nonceAccount, nonceValue, deposits, epoch>>
        /\ running' = None /\ signing' = None /\ UNCHANGED <<verifying, verified>>
        /\ epoch \in Nat /\ IsSettlement(ix)
    BY DEF Sign, allClient, chain, tradeVars, nonceVars, PresignInv, PresignsSound
  <1>2. \/ presigns' = presigns
        \/ ix.ephemeral \in nonceAccount /\ presigns' = presigns \cup {p0}
    BY DEF Sign
  <1>3. ix.ephemeral \in nonceAccount => p0.nonce \in Nat /\ p0.nonce <= epoch
    BY DEF PresignInv, NumberedNow, Numbered
  <1>4. PresignsSound'
    <2>1. \A p \in presigns' : IsSettlement(p.ix) /\ p.nonce \in Nat /\ p.nonce <= epoch
      BY <1>1, <1>2, <1>3 DEF PresignInv, PresignsSound
    <2> QED
      BY <1>1, <1>2, <2>1 DEF PresignInv, PresignsSound, IsSettlement
  <1>5. NumberedNow'
    <2>1. \A p \in presigns' : Takes(p, tradeDetail, nonceAccount, nonceValue) =>
             p.during = deposits[p.ix.trade]
      BY <1>2 DEF PresignInv, NumberedNow, Numbered
    <2> QED
      BY <1>1, <2>1 DEF PresignInv, NumberedNow, Numbered, Takes, Keyed
  <1>6. NumberedBefore'
    BY <1>1 DEF NumberedBefore
  <1> QED
    BY <1>1, <1>4, <1>5, <1>6 DEF PresignInv

(* Building, checking and rebuilding a presign change nothing on chain.    *)
LEMMA OffChainStep ==
  ASSUME PresignInv,
         \/ \E t \in TradeIds, pmm \in PresignPmms : StartSigning(t, pmm)
         \/ \E p \in presigns : StartVerifying(p)
         \/ Rebuild
         \/ FinishVerifying
  PROVE  PresignInv'
  <1>1. UNCHANGED <<allClient, nonceVars, presigns>>
    BY DEF StartSigning, StartVerifying, Rebuild, FinishVerifying
  <1>2. epoch' = epoch /\ epoch' \in Nat /\ NumberedNow' /\ NumberedBefore'
    BY <1>1, OffChain
  <1>3. \A p \in presigns' : (IsSettlement(p.ix) /\ p.nonce \in Nat /\ p.nonce <= epoch)'
    BY <1>1, <1>2 DEF PresignInv, PresignsSound, IsSettlement
  <1>4. signing' # None => IsSettlement(signing'.ix)
    <2>1. ASSUME NEW t \in TradeIds, NEW pmm \in PresignPmms, StartSigning(t, pmm)
          PROVE  IsSettlement(signing'.ix)
      BY <2>1, SettlementIxFacts, PresignBounds DEF StartSigning
    <2> QED
      BY <2>1 DEF StartVerifying, Rebuild, FinishVerifying, PresignInv, PresignsSound
  <1>5. verifying' # None =>
          "presign" \in DOMAIN verifying' /\ verifying'.presign \in presigns'
    <2>1. CASE UNCHANGED verifying
      BY <1>1, <2>1 DEF PresignInv, PresignsSound
    <2>2. CASE \E p \in presigns : StartVerifying(p)
      BY <1>1, <2>2 DEF StartVerifying
    <2>3. CASE Rebuild
      <3>1. ASSUME NEW ix, verifying # None, verifying' = [verifying EXCEPT !.ix = ix]
            PROVE  "presign" \in DOMAIN verifying' /\ verifying'.presign \in presigns'
        <4>1. "presign" \in DOMAIN verifying /\ verifying.presign \in presigns
          BY <3>1 DEF PresignInv, PresignsSound
        <4>2. "presign" \in DOMAIN verifying' /\ verifying'.presign = verifying.presign
          BY <3>1, <4>1
        <4> QED
          BY <1>1, <4>1, <4>2
      <3> QED
        BY <2>3, <3>1 DEF Rebuild
    <2>4. CASE FinishVerifying
      BY <2>4 DEF FinishVerifying
    <2>5. CASE \E t \in TradeIds, pmm \in PresignPmms : StartSigning(t, pmm)
      BY <2>1, <2>5 DEF StartSigning
    <2> QED
      BY <2>2, <2>3, <2>4, <2>5
  <1>6. \A v \in verified' : v.presign \in presigns'
    <2>1. CASE FinishVerifying
      BY <1>1, <2>1 DEF FinishVerifying, PresignInv, PresignsSound
    <2>2. CASE UNCHANGED verified
      BY <1>1, <2>2 DEF PresignInv, PresignsSound
    <2> QED
      BY <2>1, <2>2 DEF StartSigning, StartVerifying, Rebuild
  <1> QED
    BY <1>2, <1>3, <1>4, <1>5, <1>6 DEF PresignInv, PresignsSound, IsSettlement

(* A presign is delivered: the nonce advances to a value nobody has signed.*)
LEMMA DeliveredStep ==
  ASSUME PresignInv, NEW v \in verified, Settle(v) \/ Burn(v)
  PROVE  PresignInv'
  <1> DEFINE e0 == v.presign.ix.ephemeral
  <1>1. /\ epoch \in Nat /\ epoch' = epoch + 1
        /\ nonceValue' = [nonceValue EXCEPT ![e0] = epoch + 1]
        /\ UNCHANGED deposits /\ UNCHANGED presignVars /\ running = None /\ running' = None
    BY DEF Settle, Burn, Delivered, Advance, PresignInv
  <1>2. KeysStay /\ UNCHANGED nonceAccount
    <2>1. Keyed(tradeDetail)
      BY DEF PresignInv, NumberedNow, Numbered
    <2>2. CASE Burn(v)
      BY <2>1, <2>2, SameTrades DEF Burn, chain, tradeVars
    <2>3. CASE Settle(v)
      <3>1. SettlementEntry(v.presign.ix)
        BY <2>3, SettlementOnly DEF Settle, PresignInv, PresignsSound, IsSettlement
      <3> QED
        BY <2>1, <3>1, SettlementKeys
    <2> QED
      BY <2>2, <2>3
  <1>3. NumberedNow'
    <2>1. /\ nonceValue' = [e \in DOMAIN nonceValue |-> nonceValue'[e]]
          /\ DOMAIN nonceValue' = DOMAIN nonceValue
          /\ \A e \in DOMAIN nonceValue :
                nonceValue'[e] = IF e = e0 THEN epoch' ELSE nonceValue[e]
      BY <1>1
    <2>2. \A e \in DOMAIN nonceValue' : nonceValue'[e] \in Nat /\ nonceValue'[e] <= epoch'
      BY <1>1, <2>1 DEF PresignInv, NumberedNow, Numbered
    <2>3. ASSUME NEW p \in presigns, Takes(p, tradeDetail', nonceAccount', nonceValue')
          PROVE  p.during = deposits'[p.ix.trade]
      <3> DEFINE t == p.ix.trade
                 e == p.ix.ephemeral
      <3>1. t \in TradeIds /\ p.nonce \in Nat /\ p.nonce <= epoch
        BY DEF PresignInv, PresignsSound, IsSettlement
      <3>2. tradeDetail[t] # None /\ tradeDetail[t].eph = e
        BY <1>2, <2>3, <3>1 DEF KeysStay, Takes
      <3>3. e \in nonceAccount /\ e \in DOMAIN nonceValue
        BY <1>2, <2>3 DEF Takes, PresignInv, NumberedNow, Numbered
      <3>4. nonceValue[e] = p.nonce
        BY <1>1, <2>1, <2>3, <3>1, <3>3 DEF Takes
      <3> QED
        BY <1>1, <3>2, <3>3, <3>4 DEF Takes, PresignInv, NumberedNow, Numbered
    <2> QED
      BY <1>1, <1>2, <2>1, <2>2, <2>3
         DEF NumberedNow, Numbered, KeysStay, presignVars, PresignInv
  <1> QED
    BY <1>1, <1>3, PresignsKept, BeforeKept DEF PresignInv, presignVars

-----------------------------------------------------------------------------
(* Every step keeps the invariant.                                         *)
LEMMA PresignStep ==
  ASSUME PresignInv, [PresignNext]_allPresign
  PROVE  PresignInv'
  <1>1. CASE Clients /\ UNCHANGED presignVars
    BY <1>1, ClientsStep
  <1>2. CASE Sign
    BY <1>2, SignStep
  <1>3. CASE \E v \in verified : Settle(v) \/ Burn(v)
    BY <1>3, DeliveredStep
  <1>4. CASE UNCHANGED allPresign
    <2>1. UNCHANGED <<allClient, nonceVars, presigns, presignVars, epoch>>
      BY <1>4 DEF allPresign, presignVars, nonceVars
    <2> QED
      BY <2>1, OffChain, PresignsKept DEF PresignInv
  <1> QED
    BY <1>1, <1>2, <1>3, <1>4, OffChainStep DEF PresignNext

(* It holds at the start.                                                  *)
LEMMA PresignStart == PresignInit => PresignInv
  <1> SUFFICES ASSUME PresignInit
               PROVE  PresignInv
    OBVIOUS
  <1>1. /\ tradeDetail = [t \in TradeIds |-> None] /\ nonceAccount = {} /\ running = None
        /\ epoch = 0 /\ nonceValue = [e \in Ephemerals |-> 0]
        /\ signing = None /\ presigns = {} /\ verifying = None /\ verified = {}
    BY DEF PresignInit, ClientInit, InterfaceInit, TradeInit
  <1>2. NumberedNow
    BY <1>1 DEF NumberedNow, Numbered, Keyed
  <1> QED
    BY <1>1, <1>2 DEF PresignInv, PresignsSound, NumberedBefore

(* Theorem.  However late or often the mpc sends what depositors have      *)
(* signed, and however many deposits are made meanwhile with the same      *)
(* trade id, ephemeral key and accounts: a presign settles the deposit     *)
(* during which it was signed, or none.  Deposit refuses a key that holds  *)
(* a nonce account, and a nonce account that is new has a new value.       *)
THEOREM PresignSettlesOwnDeposit == PresignSpec => SettlesOwnDeposit
  <1>1. PresignInv => \A v \in verified : Settle(v) => v.presign.during = deposits[v.presign.ix.trade]
    <2> SUFFICES ASSUME PresignInv, NEW v \in verified, Settle(v)
                 PROVE  v.presign.during = deposits[v.presign.ix.trade]
      OBVIOUS
    <2>1. v.presign \in presigns /\ v.presign.ix.op = "settlement"
      BY DEF PresignInv, PresignsSound, IsSettlement
    <2>2. SettlementEntry(v.presign.ix) /\ Current(v.presign)
      BY <2>1, SettlementOnly DEF Settle, Delivered
    <2>3. Takes(v.presign, tradeDetail, nonceAccount, nonceValue)
      BY <2>2 DEF SettlementEntry, Current, Exists, Takes
    <2> QED
      BY <2>1, <2>3 DEF PresignInv, NumberedNow, Numbered
  <1>2. PresignInv /\ [PresignNext]_allPresign => PresignInv'
    BY PresignStep
  <1> QED
    BY <1>1, <1>2, PresignStart, PTL DEF PresignSpec, SettlesOwnDeposit
-----------------------------------------------------------------------------
(* The program's guarantees on a ledger on which clients work.             *)

\* The state to which the transaction under way would return if it failed,
\* and what has to hold there.
Before == INSTANCE Interface WITH
    lamports <- running.before.lamports, atas <- running.before.atas,
    tokens <- running.before.tokens, config <- running.before.config,
    whitelist <- running.before.whitelist, feeReceivers <- running.before.feeReceivers,
    tradeDetail <- running.before.tradeDetail, tradeVault <- running.before.tradeVault,
    nonceCheck <- running.before.nonceCheck, nonceAccount <- running.before.nonceAccount,
    receipts <- running.before.receipts, paid <- running.before.paid

PreparedBefore ==
    LET detail == running.before.tradeDetail
    IN  /\ running.before.config # None
        /\ \A t \in TradeIds : detail[t] # None =>
             /\ Before!Fee(t) <= detail[t].amount
             /\ detail[t].token # None => Ata(VaultPda(t), detail[t].token) \in running.before.atas

InvBefore ==
    /\ Before!TradeTypeOK /\ Before!PaymentTypeOK
    /\ Before!NonceGuardsOneTrade /\ Before!VaultSolvent /\ Before!TradeRentHeld
    /\ PreparedBefore /\ Before!ConfigRentHeld /\ Before!ReceiptRentHeld

(* Addresses are the same everywhere.                                      *)
LEMMA SameAddresses ==
    /\ Before!ConfigPda = ConfigPda /\ Before!ProtocolPda = ProtocolPda
    /\ \A x : /\ Before!TradePda(x) = TradePda(x) /\ Before!VaultPda(x) = VaultPda(x)
             /\ Before!NoncePda(x) = NoncePda(x) /\ Before!WhitelistPda(x) = WhitelistPda(x)
             /\ Before!ReceiverPda(x) = ReceiverPda(x) /\ Before!ReceiptPda(x) = ReceiptPda(x)
    /\ \A o, m : Before!Ata(o, m) = Ata(o, m)
    /\ Before!TokenAccount = TokenAccount /\ Before!Account = Account
    /\ Before!ConfigRecord = ConfigRecord /\ Before!TradeDetail = TradeDetail
  <1> USE DEF Before!ConfigPda, ConfigPda, Before!ProtocolPda, ProtocolPda, Before!TradePda, TradePda,
      Before!VaultPda, VaultPda, Before!NoncePda, NoncePda, Before!WhitelistPda, WhitelistPda,
      Before!ReceiverPda, ReceiverPda, Before!ReceiptPda, ReceiptPda, Before!Ata, Ata,
      Before!LegacyVaultPda, LegacyVaultPda
  <1>1. Before!Recipient = Recipient /\ Before!Owner = Owner
    BY DEF Before!Recipient, Recipient, Before!Owner, Owner
  <1>2. Before!TokenAccount = TokenAccount
    BY <1>1 DEF Before!TokenAccount, TokenAccount
  <1>3. Before!Pda = Pda
    BY DEF Before!Pda, Pda
  <1>4. Before!Account = Account
    BY <1>2, <1>3 DEF Before!Account, Account
  <1>5. Before!TradeDetail = TradeDetail
    BY <1>1 DEF Before!TradeDetail, TradeDetail, Before!TradeStatus, TradeStatus
  <1>6. Before!ConfigRecord = ConfigRecord
    BY DEF Before!ConfigRecord, ConfigRecord
  <1> QED
    BY <1>2, <1>4, <1>5, <1>6

(* A state that is given back satisfies what it satisfied.                 *)
LEMMA GivenBack ==
  ASSUME InvBefore, Restore(running.before), UNCHANGED now
  PROVE  InterfaceInv'
  <1> USE DEF Restore, InvBefore
  <1>1. TradeTypeOK'
    BY SameAddresses DEF Before!TradeTypeOK, TradeTypeOK, Before!ConfigTypeOK, ConfigTypeOK,
       Before!LedgerTypeOK, LedgerTypeOK
  <1>2. PaymentTypeOK'
    BY SameAddresses DEF Before!PaymentTypeOK, PaymentTypeOK, Before!Made, Made,
       Before!ConfigTypeOK, ConfigTypeOK, Before!LedgerTypeOK, LedgerTypeOK
  <1>3. NonceGuardsOneTrade'
    BY DEF Before!NonceGuardsOneTrade, NonceGuardsOneTrade, Before!Open, Open,
       Before!Exists, Exists
  <1>4. VaultSolvent'
    BY SameAddresses DEF Before!VaultSolvent, VaultSolvent, Before!Open, Open,
       Before!Exists, Exists, Before!Custody, Custody
  <1>5. TradeRentHeld'
    BY SameAddresses DEF Before!TradeRentHeld, TradeRentHeld, Before!Exists, Exists
  <1>6. Prepared'
    BY DEF PreparedBefore, Prepared, Exists, Before!Fee, Fee, VaultAta
  <1>7. ConfigRentHeld'
    BY SameAddresses DEF Before!ConfigRentHeld, ConfigRentHeld
  <1>8. ReceiptRentHeld'
    BY SameAddresses DEF Before!ReceiptRentHeld, ReceiptRentHeld
  <1> QED
    BY <1>1, <1>2, <1>3, <1>4, <1>5, <1>6, <1>7, <1>8 DEF InterfaceInv

(* The state in which a transaction begins is what it would give back.     *)
LEMMA Remembered ==
  ASSUME InterfaceInv, running'.before = State, UNCHANGED now
  PROVE  InvBefore'
  <1> USE DEF State, InterfaceInv
  <1>1. Before!TradeTypeOK'
    BY SameAddresses DEF Before!TradeTypeOK, TradeTypeOK, Before!ConfigTypeOK, ConfigTypeOK,
       Before!LedgerTypeOK, LedgerTypeOK
  <1>2. Before!PaymentTypeOK'
    BY SameAddresses DEF Before!PaymentTypeOK, PaymentTypeOK, Before!Made, Made,
       Before!ConfigTypeOK, ConfigTypeOK, Before!LedgerTypeOK, LedgerTypeOK
  <1>3. Before!NonceGuardsOneTrade'
    BY DEF Before!NonceGuardsOneTrade, NonceGuardsOneTrade, Before!Open, Open,
       Before!Exists, Exists
  <1>4. Before!VaultSolvent'
    BY SameAddresses DEF Before!VaultSolvent, VaultSolvent, Before!Open, Open,
       Before!Exists, Exists, Before!Custody, Custody
  <1>5. Before!TradeRentHeld'
    BY SameAddresses DEF Before!TradeRentHeld, TradeRentHeld, Before!Exists, Exists
  <1>6. PreparedBefore'
    BY DEF PreparedBefore, Prepared, Exists, Before!Fee, Fee, VaultAta
  <1>7. Before!ConfigRentHeld'
    BY SameAddresses DEF Before!ConfigRentHeld, ConfigRentHeld
  <1>8. Before!ReceiptRentHeld'
    BY SameAddresses DEF Before!ReceiptRentHeld, ReceiptRentHeld
  <1> QED
    BY <1>1, <1>2, <1>3, <1>4, <1>5, <1>6, <1>7, <1>8 DEF InvBefore

(* It is kept in mind while the transaction goes on.                       *)
LEMMA KeptInMind ==
  ASSUME InvBefore, running'.before = running.before, UNCHANGED now
  PROVE  InvBefore'
  BY DEF InvBefore, Before!TradeTypeOK, Before!PaymentTypeOK, Before!ConfigTypeOK,
     Before!LedgerTypeOK, Before!NonceGuardsOneTrade, Before!Open, Before!Exists,
     Before!VaultSolvent, Before!Custody, Before!TradeRentHeld, PreparedBefore, Before!Fee,
     Before!ConfigRentHeld, Before!ReceiptRentHeld

-----------------------------------------------------------------------------
(* What the commands send.                                                 *)

\* Instructions, all within the bounds.
AllWithin(s) == IsSequence(s) /\ \A n \in 1..Len(s) : WithinBounds(s[n])

(* One instruction.                                                        *)
LEMMA OneWithin ==
  ASSUME NEW i, WithinBounds(i)
  PROVE  AllWithin(<<i>>)
  BY DEF AllWithin, IsSequence

(* Two sequences of instructions.                                          *)
LEMMA BothWithin ==
  ASSUME NEW s, NEW u, AllWithin(s), AllWithin(u)
  PROVE  AllWithin(s \o u)
  <1> DEFINE S == {s[n] : n \in 1..Len(s)} \cup {u[n] : n \in 1..Len(u)}
  <1>1. s \in Seq(S) /\ u \in Seq(S)
    BY DEF AllWithin, IsSequence
  <1>2. \A x \in S : WithinBounds(x)
    BY DEF AllWithin
  <1> HIDE DEF S
  <1>3. s \o u \in Seq(S)
    BY <1>1
  <1>4. IsSequence(s \o u)
    BY <1>3, IsSequenceOf
  <1>5. \A n \in 1..Len(s \o u) : (s \o u)[n] \in S
    BY <1>3
  <1> QED
    BY <1>2, <1>4, <1>5 DEF AllWithin

(* A token account that is created if needed.                              *)
LEMMA AtaWithin ==
  ASSUME NEW payer \in Wallets, NEW o, NEW token, NEW answer
  PROVE  AllWithin(CreateAtaIfNeeded(payer, o, token, answer))
  <1>1. AllWithin(<<CreateAtaIx(payer, o, token)>>)
    BY OneWithin DEF CreateAtaIx, WithinBounds
  <1>2. AllWithin(<<>>)
    BY DEF AllWithin, IsSequence
  <1> QED
    BY <1>1, <1>2 DEF CreateAtaIfNeeded

\* The balance that withdraw-fee has read last, when it has read all.
BalanceRead(c, got) ==
    /\ IsSequence(got)
    /\ Len(got) = Len(WithdrawReads(c)) =>
         LET balance == got[Len(got)]
         IN  balance \in Nat /\ (c.token = None => balance >= Rent["wallet"])

(* What every command sends is within the bounds.                          *)
LEMMA TransactionWithin ==
  ASSUME NEW c \in Calls, NEW got,
         c.fn = "withdraw-fee" => BalanceRead(c, got) /\ Len(got) = Len(WithdrawReads(c))
  PROVE  AllWithin(Transaction(c, got).instructions)
  <1> USE CallsBounds DEF Tx
  <1>1. CASE c.fn = "initialize"
    BY <1>1, OneWithin DEF WithinBounds, Transaction, InitializeCommand, CreateInitializeProgram
  <1>2. CASE c.fn = "add-operator"
    BY <1>2, OneWithin DEF WithinBounds, Transaction, AddOperatorCommand, CreateAddOperator
  <1>3. CASE c.fn = "remove-operator"
    BY <1>3, OneWithin DEF WithinBounds, Transaction, RemoveOperatorCommand, CreateRemoveOperator
  <1>4. CASE c.fn = "add-receiver"
    BY <1>4, OneWithin DEF WithinBounds, Transaction, AddReceiverCommand, CreateAddFeeReceiver
  <1>5. CASE c.fn = "remove-receiver"
    BY <1>5, OneWithin DEF WithinBounds, Transaction, RemoveReceiverCommand, CreateRemoveFeeReceiver
  <1>6. CASE c.fn = "set-close-duration"
    BY <1>6, OneWithin DEF WithinBounds, Transaction, SetCloseDurationCommand,
       CreateSetCloseWaitDuration
  <1>7. CASE c.fn = "update-whitelist"
    <2>1. AllWithin(CreateAddOrUpdateWhitelist(c))
      BY <1>7, OneWithin, LedgerAssumption, CallsAssumption DEF WithinBounds, CreateAddOrUpdateWhitelist
    <2>2. AllWithin(CreateAtaIfNeeded(c.operator, ProtocolPda, c.token, Nth(got, 1)))
      BY <1>7, AtaWithin
    <2> QED  BY <1>7, <2>1, <2>2, BothWithin DEF Transaction, UpdateWhitelistCommand
  <1>8. CASE c.fn = "remove-whitelist"
    BY <1>8, OneWithin DEF WithinBounds, Transaction, RemoveWhitelistCommand, CreateRemoveWhitelist
  <1>9. CASE c.fn = "withdraw-fee"
    <2>1. WithdrawAmount(c, got) \in Nat
      BY <1>9, LedgerAssumption DEF BalanceRead, WithdrawAmount, Available, RentKind
    <2> DEFINE x == [op |-> "withdrawTotalFee", signer |-> c.signer, to |-> c.receiver,
                     token |-> c.token, amount |-> WithdrawAmount(c, got)]
    <2>2. AllWithin(<<x>>)
      BY <1>9, <2>1, OneWithin DEF WithinBounds
    <2>3. AllWithin(CreateAtaIfNeeded(c.signer, c.receiver, c.token, Nth(got, Len(got) - 1)))
      BY <1>9, AtaWithin
    <2> QED  BY <1>9, <2>2, <2>3, BothWithin DEF Transaction, WithdrawFeeCommand,
                ReceiverAtaIfNeededAndWithdrawTotalFee
  <1>10. CASE c.fn \in {"deposit", "deposit-only"}
    <2>1. AllWithin(CreateDeposit(c))
      BY <1>10, OneWithin DEF WithinBounds, CreateDeposit
    <2>2. AllWithin(DepositAndVaultAtaIfNeeded(c, got))
      BY <1>10, <2>1, AtaWithin, BothWithin DEF DepositAndVaultAtaIfNeeded
    <2>3. AllWithin(CreateEphemeralNonceAccount(c.user, c.ephemeral))
      BY <1>10, OneWithin DEF WithinBounds, CreateEphemeralNonceAccount
    <2> QED  BY <1>10, <2>2, <2>3, BothWithin DEF Transaction, DepositScript, DepositOnly,
                DepositAndVaultAtaIfNeededAndNonceAccount
  <1>11. CASE c.fn = "set-total-fee"
    BY <1>11, OneWithin DEF WithinBounds, Transaction, SetTotalFeeScript, CreateSetTotalFee
  <1>12. CASE c.fn = "settlement-atas"
    BY <1>12, AtaWithin, BothWithin DEF Transaction, SettlementAtasScript
  <1>13. CASE c.fn = "claim"
    <2>1. AllWithin(<<ClaimIx(c, got)>>)
      BY <1>13, OneWithin DEF WithinBounds, ClaimIx
    <2> QED  BY <1>13, <2>1, AtaWithin, BothWithin DEF Transaction, ClaimScript,
                ClaimAndRefundAtaAndProtocolAtaIfNeeded
  <1>14. CASE c.fn \in {"close-nonce", "close-trade", "close-trade-only"}
    <2>1. c.fn # "close-nonce" => AllWithin(CreateCloseFinishedTrade(c, got))
      BY <1>14, OneWithin DEF WithinBounds, CreateCloseFinishedTrade
    <2>2. c.fn # "close-trade-only" => AllWithin(<<WithdrawNonceIx(c)>>)
      BY <1>14, OneWithin, LedgerAssumption DEF WithinBounds, WithdrawNonceIx, RentKind
    <2> QED  BY <1>14, <2>1, <2>2, BothWithin DEF Transaction, CloseNonceScript,
                CloseTradeAndNonceScript, CloseTradeOnly
  <1>15. CASE c.fn = "payment"
    <2>1. AllWithin(CreatePayment(c))
      BY <1>15, OneWithin DEF WithinBounds, CreatePayment
    <2> QED  BY <1>15, <2>1, AtaWithin, BothWithin DEF Transaction, PaymentScript,
                PaymentAndRefundAtaAndProtocolAtaIfNeeded
  <1>16. CASE c.fn = "close-receipt"
    BY <1>16, OneWithin DEF WithinBounds, Transaction, ClosePaymentReceiptScript,
       CreateClosePaymentReceipt
  <1> QED
    BY <1>1, <1>2, <1>3, <1>4, <1>5, <1>6, <1>7, <1>8, <1>9, <1>10, <1>11, <1>12, <1>13, <1>14,
       <1>15, <1>16, CallsAssumption DEF CommandNames

-----------------------------------------------------------------------------
(* The invariant.                                                          *)

(* Instructions take no time.                                              *)
LEMMA ClockStands ==
  ASSUME NEW i, Execute(i)
  PROVE  UNCHANGED now
  <1>1. CASE OnConfig(i)
    BY <1>1 DEF OnConfig, InitConfig, AddOperator, RemoveOperator, AddOrUpdateWhitelist,
       RemoveWhitelist, SetCloseWaitDuration, AddFeeReceiver, RemoveFeeReceiver, ledgerVars
  <1>2. CASE OnTrade(i)
    BY <1>2 DEF OnTrade, DepositEntry, Deposit, SetTotalFeeEntry, SetTotalFee, SettlementEntry,
       Settlement, ClaimEntry, Claim, CloseFinishedTradeEntry, CloseFinishedTrade, ledgerVars
  <1>3. CASE OnPayment(i)
    BY <1>3 DEF OnPayment, Pay, ClosePaymentReceipt, WithdrawTotalFee
  <1>4. CASE System(i)
    BY <1>4 DEF System, CreateAta, CreateNonceAccount, WithdrawNonce, WithdrawNonceAccount
  <1> QED
    BY <1>1, <1>2, <1>3, <1>4 DEF Execute, Program

\* What withdraw-fee has read.
BalancesRead ==
    /\ jobs = [c \in Calls |-> jobs[c]]
    /\ \A c \in Calls : c.fn = "withdraw-fee" /\ jobs[c] # None => BalanceRead(c, jobs[c])

UnderWay ==
    /\ IsTransaction(running)
    /\ AllWithin(running.rest) /\ Len(running.rest) # 0
    /\ InvBefore

\* What holds of the ledger also holds of the state to which a transaction
\* under way may return.
ClientInv ==
    /\ InterfaceInv
    /\ BalancesRead
    /\ running # None => UnderWay

(* What a call does before its transaction executes.                       *)
LEMMA BalanceAnswered ==
  ASSUME InterfaceInv, BalancesRead, NEW c \in Calls, Call(c) \/ Ask(c) \/ GiveUp(c)
  PROVE  BalancesRead'
  <1>1. CASE Call(c) \/ GiveUp(c)
    <2>1. PICK x \in {None, <<>>} : jobs' = [jobs EXCEPT ![c] = x]
      BY <1>1 DEF Call, GiveUp
    <2>2. /\ jobs' = [d \in Calls |-> jobs'[d]]
          /\ \A d \in Calls : jobs'[d] = IF d = c THEN x ELSE jobs[d]
      BY <2>1 DEF BalancesRead
    <2>3. c.fn = "withdraw-fee" => BalanceRead(c, <<>>)
      <3>1. Len(WithdrawReads(c)) # 0
        <4>1. WithdrawReads(c) = <<ReadBalance(ProtocolPda, c.token)>>
                \/ WithdrawReads(c) = <<ReadAta(c.receiver, c.token), ReadBalance(ProtocolPda, c.token)>>
          BY Together DEF WithdrawReads, AtaReads
        <4> QED  BY <4>1
      <3>2. IsSequence(<<>>) /\ Len(<<>>) = 0
        BY DEF IsSequence
      <3> QED  BY <3>1, <3>2 DEF BalanceRead
    <2> QED  BY <2>2, <2>3 DEF BalancesRead
  <1>2. CASE Ask(c)
    <2> DEFINE read == Reads(c, jobs[c])[Len(jobs[c]) + 1]
               answer == Answer(read)
               got == Append(jobs[c], answer)
    <2>1. /\ jobs[c] # None
          /\ jobs' = [jobs EXCEPT ![c] = IF read.required /\ answer = None THEN None ELSE got]
      BY <1>2 DEF Ask, Called
    <2>2. ASSUME c.fn = "withdraw-fee", ~(read.required /\ answer = None)
          PROVE  BalanceRead(c, got)
      <3>1. IsSequence(jobs[c])
        BY <2>1, <2>2 DEF BalancesRead, BalanceRead
      <3>2. IsSequence(got) /\ Len(got) = Len(jobs[c]) + 1 /\ got[Len(got)] = answer
        <4> DEFINE S == {jobs[c][n] : n \in 1..Len(jobs[c])} \cup {answer}
        <4>1. jobs[c] \in Seq(S) /\ answer \in S /\ Len(jobs[c]) \in Nat
          <5>1. {jobs[c][n] : n \in 1..Len(jobs[c])} \subseteq S
            OBVIOUS
          <5> QED  BY <3>1, <5>1, SequenceOf, SeqMonotonic DEF IsSequence
        <4> HIDE DEF S, answer
        <4>2. got \in Seq(S) /\ Len(got) = Len(jobs[c]) + 1 /\ got[Len(jobs[c]) + 1] = answer
          BY <4>1
        <4> QED  BY <4>2, IsSequenceOf
      <3> HIDE DEF got
      <3> SUFFICES ASSUME Len(got) = Len(WithdrawReads(c))
                   PROVE  answer \in Nat /\ (c.token = None => answer >= Rent["wallet"])
        BY <3>2 DEF BalanceRead
      <3>3. /\ Reads(c, jobs[c]) = WithdrawReads(c)
            /\ WithdrawReads(c)[Len(WithdrawReads(c))] = ReadBalance(ProtocolPda, c.token)
        <4>1. \/ WithdrawReads(c) = <<ReadBalance(ProtocolPda, c.token)>>
              \/ WithdrawReads(c) = <<ReadAta(c.receiver, c.token),
                                      ReadBalance(ProtocolPda, c.token)>>
          BY Together DEF WithdrawReads, AtaReads
        <4> QED  BY <2>2, <4>1 DEF Reads
      <3>4. read = ReadBalance(ProtocolPda, c.token)
        BY <3>2, <3>3
      <3> HIDE DEF read
      <3>5. answer # None
        BY <2>2, <3>4 DEF ReadBalance, Read
      <3>6. /\ lamports[ProtocolPda] \in Nat /\ lamports[ProtocolPda] >= Rent["wallet"]
            /\ \A a \in atas : tokens[a] \in Nat
        BY Addresses, LedgerFacts DEF InterfaceInv, TradeTypeOK, ConfigTypeOK, LedgerTypeOK,
           ConfigRentHeld, Prepared
      <3>7. answer = IF c.token = None THEN lamports[ProtocolPda]
                     ELSE IF Ata(ProtocolPda, c.token) \in atas
                          THEN tokens[Ata(ProtocolPda, c.token)] ELSE None
        <4>1. Ata(ProtocolPda, None) \notin atas
          <5>1. \A o, m : Ata(ProtocolPda, None) = Ata(o, m) => m = None
            BY DEF Ata
          <5>2. atas \subseteq TokenAccount
            BY LedgerFacts DEF InterfaceInv
          <5> QED  BY <5>1, <5>2, LedgerAssumption DEF TokenAccount
        <4> QED  BY <3>4, <4>1 DEF ReadBalance, Read, Answer
      <3> HIDE DEF answer
      <3> QED
        BY <3>5, <3>6, <3>7
    <2> HIDE DEF read, answer, got
    <2>3. /\ jobs' = [d \in Calls |-> jobs'[d]]
          /\ \A d \in Calls : d # c => jobs'[d] = jobs[d]
          /\ jobs'[c] = IF read.required /\ answer = None THEN None ELSE got
      BY <2>1 DEF BalancesRead
    <2> QED
      BY <2>2, <2>3 DEF BalancesRead
  <1> QED
    BY <1>1, <1>2

(* A call that is over is forgotten.                                       *)
LEMMA CallOver ==
  ASSUME BalancesRead, Done
  PROVE  BalancesRead'
  <1>1. /\ jobs' = [d \in Calls |-> jobs'[d]]
        /\ \A d \in Calls : jobs'[d] = None \/ jobs'[d] = jobs[d]
    BY DEF BalancesRead, Done
  <1> QED
    BY <1>1 DEF BalancesRead

(* A step that leaves the chain alone leaves what holds of it.             *)
LEMMA ChainStands ==
  ASSUME InterfaceInv, UNCHANGED chain
  PROVE  InterfaceInv'
  BY OthersBeside

(* A transaction begins, of instructions within the bounds.                *)
LEMMA ClientLand ==
  ASSUME NoneIsNoTransaction, ClientInv, NEW c \in Calls, Land(c)
  PROVE  ClientInv'
  <1> DEFINE s == Transaction(c, jobs[c]).instructions
  <1>1. /\ Ready(c) /\ s # <<>> /\ UNCHANGED <<chain, jobs>>
        /\ running' = [call |-> c, signers |-> Transaction(c, jobs[c]).signers, rest |-> s,
                       before |-> State]
    BY DEF Land
  <1>2. AllWithin(s)
    BY <1>1, TransactionWithin DEF ClientInv, BalancesRead, Ready, Called, Reads
  <1>3. Len(s) # 0
    BY <1>1, <1>2 DEF AllWithin, IsSequence
  <1> HIDE DEF s
  <1>4. /\ IsTransaction(running') /\ running' # None
        /\ running'.rest = s /\ running'.before = State
    BY <1>1 DEF IsTransaction, NoneIsNoTransaction
  <1>5. InvBefore'
    BY <1>1, <1>4, Remembered DEF ClientInv, chain, ledgerVars
  <1>6. InterfaceInv' /\ BalancesRead'
    BY <1>1, ChainStands DEF ClientInv, BalancesRead
  <1> QED
    BY <1>2, <1>3, <1>4, <1>5, <1>6 DEF ClientInv, UnderWay

(* An instruction executes, as if it were a transaction of its own.        *)
LEMMA ClientExecute ==
  ASSUME NoneIsNoTransaction, ClientInv, ExecuteNext
  PROVE  ClientInv' /\ [AnyNext]_chain
  <1> DEFINE s == running.rest
  <1>1. /\ running # None /\ Execute(Head(s))
        /\ IsTransaction(running) /\ AllWithin(s) /\ Len(s) # 0 /\ InvBefore
    BY DEF ClientInv, UnderWay, ExecuteNext, Next1
  <1>2. IsSequence(s) /\ Len(s) \in Nat
    BY <1>1 DEF AllWithin, IsSequence
  <1>3. /\ IsSequence(Tail(s)) /\ Len(Tail(s)) = Len(s) - 1
        /\ \A n \in 1..Len(s) - 1 : Tail(s)[n] = s[n + 1]
        /\ Head(s) = s[1]
    BY <1>1, <1>2, TailIs
  <1>4. WithinBounds(Head(s)) /\ AllWithin(Tail(s))
    BY <1>1, <1>2, <1>3 DEF AllWithin
  <1> HIDE DEF s
  <1>5. [AnyNext]_chain
    BY <1>1, <1>4 DEF AnyNext
  <1>6. InterfaceInv'
    BY <1>5, InterfaceStep DEF ClientInv
  <1>7. UNCHANGED now
    BY <1>1, ClockStands
  <1>8. CASE Len(s) = 1
    <2>1. Done
      BY <1>8 DEF ExecuteNext, s
    <2> QED  BY <1>5, <1>6, <2>1, CallOver DEF ClientInv, Done
  <1>9. CASE Len(s) # 1
    <2>1. running' = [running EXCEPT !.rest = Tail(s)] /\ UNCHANGED jobs
      BY <1>9 DEF ExecuteNext, s
    <2>2. /\ IsTransaction(running') /\ running' # None
          /\ running'.rest = Tail(s) /\ running'.before = running.before
      BY <1>1, <2>1, GoesOn
    <2>3. InvBefore'
      BY <1>1, <1>7, <2>2, KeptInMind
    <2>4. BalancesRead'
      BY <2>1 DEF ClientInv, BalancesRead
    <2> QED  BY <1>2, <1>3, <1>4, <1>5, <1>6, <1>9, <2>2, <2>3, <2>4 DEF ClientInv, UnderWay
  <1> QED
    BY <1>8, <1>9

(* One fails, and all is as before.                                        *)
LEMMA ClientAbort ==
  ASSUME ClientInv, Abort
  PROVE  ClientInv'
  <1>1. InvBefore /\ Restore(running.before) /\ UNCHANGED now /\ Done
    BY DEF ClientInv, UnderWay, Abort
  <1> QED
    BY <1>1, GivenBack, CallOver DEF ClientInv, Done

\* What clients do, and what is delivered besides for those who sign in advance.
AnyClientNext ==
    \/ ClientNext
    \/ /\ running = None
       /\ UNCHANGED <<jobs, running>>
       /\ \E i : WithinBounds(i) /\ Execute(i)

AnyClientSpec == ClientInit /\ [][AnyClientNext]_allClient

(* Clients do nothing else.                                                *)
LEMMA ClientAny == ClientSpec => AnyClientSpec
  <1>1. [ClientNext]_allClient => [AnyClientNext]_allClient
    BY DEF AnyClientNext
  <1> QED
    BY <1>1, PTL DEF ClientSpec, AnyClientSpec

(* Nor do clients, depositors who sign and an mpc who sends what they have *)
(* signed: it is a settlement, and within the bounds.                      *)
LEMMA PresignAny == PresignSpec => AnyClientSpec
  <1>1. PresignInv /\ [PresignNext]_allPresign => [AnyClientNext]_allClient
    <2> SUFFICES ASSUME PresignInv, [PresignNext]_allPresign
                 PROVE  [AnyClientNext]_allClient
      OBVIOUS
    <2>1. CASE Clients /\ UNCHANGED presignVars
      BY <2>1 DEF Clients, ClientNext, AnyClientNext
    <2>2. ASSUME NEW v \in verified, Settle(v)
          PROVE  [AnyClientNext]_allClient
      <3>1. v.presign \in presigns /\ IsSettlement(v.presign.ix)
        BY DEF PresignInv, PresignsSound
      <3>2. WithinBounds(v.presign.ix)
        BY <3>1 DEF IsSettlement, WithinBounds
      <3> QED  BY <2>2, <3>2 DEF Settle, Delivered, AnyClientNext
    <2>3. CASE \/ \E t \in TradeIds, pmm \in PresignPmms : StartSigning(t, pmm)
               \/ Sign
               \/ \E p \in presigns : StartVerifying(p)
               \/ Rebuild
               \/ FinishVerifying
               \/ UNCHANGED allPresign
      BY <2>3 DEF StartSigning, Sign, StartVerifying, Rebuild, FinishVerifying, allPresign
    <2>4. ASSUME NEW v \in verified, Burn(v)
          PROVE  UNCHANGED allClient
      BY <2>4 DEF Burn, Delivered, allClient
    <2> QED  BY <2>1, <2>2, <2>3, <2>4 DEF PresignNext
  <1>2. PresignInit => ClientInit
    BY DEF PresignInit
  <1>3. PresignInv /\ [PresignNext]_allPresign => PresignInv'
    BY PresignStep
  <1> QED
    BY <1>1, <1>2, <1>3, PresignStart, PTL DEF PresignSpec, AnyClientSpec

(* A step is an instruction, or one of others, or leaves the chain alone,  *)
(* or gives back all that the transaction under way did.                   *)
LEMMA ClientSteps ==
  ASSUME NoneIsNoTransaction, ClientInv, [AnyClientNext]_allClient
  PROVE  /\ ClientInv'
         /\ \/ [AnyNext]_chain
            \/ running # None /\ Restore(running.before) /\ UNCHANGED now /\ running' = None
  <1>1. ASSUME NEW c \in Calls, Call(c) \/ Ask(c) \/ GiveUp(c)
        PROVE  ClientInv' /\ UNCHANGED chain
    <2>1. UNCHANGED <<chain, running>>
      BY <1>1 DEF Call, Ask, GiveUp
    <2>2. InterfaceInv' /\ BalancesRead'
      BY <1>1, <2>1, ChainStands, BalanceAnswered DEF ClientInv
    <2>3. InvBefore => InvBefore'
      BY <2>1, KeptInMind DEF chain, ledgerVars
    <2> QED  BY <2>1, <2>2, <2>3 DEF ClientInv, UnderWay
  <1>2. ASSUME NEW c \in Calls, Land(c)
        PROVE  ClientInv' /\ UNCHANGED chain
    BY <1>2, ClientLand DEF Land
  <1>3. CASE Elsewhere
    <2>1. /\ running = None /\ running' = None /\ UNCHANGED jobs
          /\ AnyLedgerNext /\ UNCHANGED <<configVars, tradeVars, paymentVars>>
      BY <1>3 DEF Elsewhere, AnyLedgerNext
    <2>2. [AnyNext]_chain
      BY <2>1 DEF AnyNext
    <2>3. InterfaceInv' /\ BalancesRead'
      BY <2>1, <2>2, InterfaceStep DEF ClientInv, BalancesRead
    <2> QED  BY <2>1, <2>2, <2>3 DEF ClientInv
  <1>4. CASE UNCHANGED allClient
    <2>1. UNCHANGED <<chain, jobs, running>> /\ UNCHANGED now
      BY <1>4 DEF allClient, chain, ledgerVars
    <2>2. InterfaceInv' /\ BalancesRead' /\ (InvBefore => InvBefore')
      BY <2>1, ChainStands, KeptInMind DEF ClientInv, BalancesRead
    <2> QED  BY <2>1, <2>2 DEF ClientInv, UnderWay
  <1>5. CASE Abort
    BY <1>5, ClientAbort DEF Abort, Done
  <1>6. CASE ExecuteNext
    BY <1>6, ClientExecute
  <1>7. CASE /\ running = None /\ UNCHANGED <<jobs, running>>
             /\ \E i : WithinBounds(i) /\ Execute(i)
    <2>1. [AnyNext]_chain
      BY <1>7 DEF AnyNext
    <2>2. InterfaceInv' /\ BalancesRead'
      BY <1>7, <2>1, InterfaceStep DEF ClientInv, BalancesRead
    <2> QED  BY <1>7, <2>1, <2>2 DEF ClientInv
  <1> QED
    BY <1>1, <1>2, <1>3, <1>4, <1>5, <1>6, <1>7 DEF ClientNext, AnyClientNext

(* It holds at the start.                                                  *)
LEMMA ClientStarts == ClientInit => ClientInv
  BY InterfaceStarts DEF ClientInit, ClientInv, BalancesRead

(* It always holds.                                                        *)
LEMMA ClientAlways ==
  ASSUME NoneIsNoTransaction
  PROVE  AnyClientSpec => []ClientInv
  <1>1. ClientInv /\ [AnyClientNext]_allClient => ClientInv'
    BY ClientSteps
  <1> QED
    BY <1>1, ClientStarts, PTL DEF AnyClientSpec

(* Theorem.  While clients work, also in the middle of a transaction and   *)
(* after one that was undone, the vault of every open trade holds what the *)
(* trade is owed, every open trade has its nonce check PDA to itself, and  *)
(* the accounts of a trade hold their rent.                                *)
THEOREM DepositsSafeWithClients ==
  ASSUME NoneIsNoTransaction
  PROVE  /\ ClientSpec => [](VaultSolvent /\ NonceGuardsOneTrade /\ TradeRentHeld)
         /\ PresignSpec => [](VaultSolvent /\ NonceGuardsOneTrade /\ TradeRentHeld)
  <1>1. ClientInv => VaultSolvent /\ NonceGuardsOneTrade /\ TradeRentHeld
    BY DEF ClientInv, InterfaceInv
  <1> QED
    BY <1>1, ClientAlways, ClientAny, PresignAny, PTL

(* Theorem.  However clients race and whatever is undone, nothing that the *)
(* program did earlier stands in the way: an open trade can be settled in  *)
(* time or claimed after it and a claimed one closed, as soon as those who *)
(* are to be paid can be, the fees collected can be withdrawn to the last, *)
(* and every receipt holds the rent that its close returns.                *)
THEOREM NothingBlockedWithClients ==
  ASSUME NoneIsNoTransaction
  PROVE  /\ ClientSpec => [](NeverBlocked /\ FeesPayable /\ ReceiptRentHeld)
         /\ PresignSpec => [](NeverBlocked /\ FeesPayable /\ ReceiptRentHeld)
  <1>1. ClientInv => NeverBlocked /\ FeesPayable /\ ReceiptRentHeld
    BY NothingBlocks, NoFeeStranded DEF ClientInv, InterfaceInv, TradeInv
  <1> QED
    BY <1>1, ClientAlways, ClientAny, PresignAny, PTL

(* What a transaction would give back is what was there at its beginning,  *)
(* and time stands still while it executes.                                *)
LEMMA BeforeStays ==
  ASSUME NoneIsNoTransaction, ClientInv, [AnyClientNext]_allClient, running' # None
  PROVE  \/ running # None /\ running'.before = running.before /\ UNCHANGED now
         \/ running'.before = State /\ UNCHANGED chain
  <1>1. CASE UNCHANGED allClient \/ \E c \in Calls : Call(c) \/ Ask(c) \/ GiveUp(c)
    BY <1>1 DEF Call, Ask, GiveUp, allClient, chain, ledgerVars
  <1>2. CASE \E c \in Calls : Land(c)
    BY <1>2 DEF Land
  <1>3. CASE ExecuteNext
    <2>1. /\ running # None /\ UNCHANGED now
          /\ running' = [running EXCEPT !.rest = Tail(running.rest)]
      BY <1>3, ClockStands DEF ExecuteNext, Next1, Done
    <2> QED  BY <2>1, GoesOn DEF ClientInv, UnderWay
  <1>4. CASE Abort \/ Elsewhere
    BY <1>4 DEF Abort, Done, Elsewhere
  <1> QED
    BY <1>1, <1>2, <1>3, <1>4 DEF ClientNext, AnyClientNext

-----------------------------------------------------------------------------
(* Value, and payments.                                                    *)

\* These lamports and tokens add up to those of the start.
AddUp(sol, held) ==
    /\ SumFunction(sol) = SumFunction(Start.lamports)
    /\ \A m \in Mints :
         LET accounts == {Ata(o, m) : o \in Owner}
         IN  SumFunctionOnSet(held, accounts) = SumFunctionOnSet(Start.tokens, accounts)

ValueInv ==
    /\ AddUp(lamports, tokens)
    /\ running # None => AddUp(running.before.lamports, running.before.tokens)

(* Theorem.  No transaction of a client mints or burns lamports or tokens, *)
(* neither when it goes through nor when a failure gives back everything   *)
(* that it did.                                                            *)
THEOREM ValueConservedWithClients ==
  ASSUME NoneIsNoTransaction, IsFiniteSet(Account)
  PROVE  /\ ClientSpec => []ValueConserved
         /\ PresignSpec => []ValueConserved
  <1>1. ValueConserved <=> AddUp(lamports, tokens)
    BY DEF ValueConserved, AddUp
  <1>2. ValueConserved' <=> AddUp(lamports', tokens')
    BY DEF ValueConserved, AddUp
  <1>3. ClientInit => ValueInv
    BY DEF ClientInit, InterfaceInit, TradeInit, DeploymentInit, LedgerInit, ValueInv, AddUp
  <1>4. ClientInv /\ ValueInv /\ [AnyClientNext]_allClient => ValueInv'
    <2> SUFFICES ASSUME ClientInv, ValueInv, [AnyClientNext]_allClient
                 PROVE  ValueInv'
      OBVIOUS
    <2>1. AddUp(lamports', tokens')
      <3>1. CASE [AnyNext]_chain
        BY <1>1, <1>2, <3>1, InterfaceAddsUp, ValueStep, LedgerFacts
           DEF ClientInv, InterfaceInv, ValueInv
      <3>2. CASE running # None /\ Restore(running.before)
        BY <3>2 DEF ValueInv, Restore
      <3> QED  BY <3>1, <3>2, ClientSteps
    <2>2. ASSUME running' # None
          PROVE  AddUp(running'.before.lamports, running'.before.tokens)
      <3>1. CASE running # None /\ running'.before = running.before
        BY <3>1 DEF ValueInv
      <3>2. CASE running'.before = State
        BY <3>2 DEF ValueInv, State
      <3> QED  BY <2>2, <3>1, <3>2, BeforeStays
    <2>3. ValueInv' <=> /\ AddUp(lamports', tokens')
                        /\ running' # None =>
                             AddUp(running'.before.lamports, running'.before.tokens)
      BY DEF ValueInv, AddUp
    <2> QED  BY <2>1, <2>2, <2>3
  <1>5. ValueInv => ValueConserved
    BY <1>1 DEF ValueInv
  <1>6. AnyClientSpec => []ValueConserved
    BY <1>3, <1>4, <1>5, ClientAlways, PTL DEF AnyClientSpec
  <1> QED
    BY <1>6, ClientAny, PresignAny, PTL

\* OnceInv of these records, at the present time.
OnceOf(cfg, receipt, history) ==
    /\ cfg # None /\ cfg.closePayment \in CloseDurations
    /\ \A p \in Payments : \A i, j \in DOMAIN history[p] : i < j =>
         \E duration \in CloseDurations : history[p][j].deadline > history[p][i].time + duration
    /\ \A p \in Payments : \A i \in DOMAIN history[p] :
         \/ \E duration \in CloseDurations : now > history[p][i].time + duration
         \/ receipt[p] = history[p][i].time

\* It holds now, and of the state that a failure would give back.
OnceEver ==
    /\ OnceOf(config, receipts, paid)
    /\ running # None =>
         OnceOf(running.before.config, running.before.receipts, running.before.paid)

(* Theorem.  Clients that repeat a payment, because they do not know       *)
(* whether it went through or was undone with its transaction, pay again   *)
(* only with a deadline beyond the time of every payment that stands plus  *)
(* a close duration: as the payment script does, which takes a new         *)
(* deadline whenever it runs, once the receipt has been closed.            *)
THEOREM CopiesRefusedWithClients ==
  ASSUME NoneIsNoTransaction
  PROVE  /\ ClientSpec => []CopiesRefused
         /\ PresignSpec => []CopiesRefused
  <1>1. OnceInv <=> OnceOf(config, receipts, paid)
    BY DEF OnceInv, DurationKnown, CopiesRefused, Lapsed, OnceOf
  <1>2. OnceInv' <=> OnceOf(config, receipts, paid)'
    BY DEF OnceInv, DurationKnown, CopiesRefused, Lapsed, OnceOf
  <1>3. ClientInit => OnceEver
    <2>1. InterfaceInit => OnceInv
      BY OnceStarts DEF InterfaceInit, PaymentInit
    <2> QED  BY <1>1, <2>1 DEF ClientInit, OnceEver
  <1>4. ClientInv /\ OnceEver /\ [AnyClientNext]_allClient => OnceEver'
    <2> SUFFICES ASSUME ClientInv, OnceEver, [AnyClientNext]_allClient
                 PROVE  OnceEver'
      OBVIOUS
    <2>1. OnceOf(config, receipts, paid)'
      <3>1. CASE [AnyNext]_chain
        BY <1>1, <1>2, <3>1, OnceKept DEF ClientInv, OnceEver
      <3>2. CASE running # None /\ Restore(running.before) /\ UNCHANGED now
        BY <3>2 DEF OnceEver, OnceOf, Restore
      <3> QED  BY <3>1, <3>2, ClientSteps
    <2>2. ASSUME running' # None
          PROVE  OnceOf(running.before.config, running.before.receipts, running.before.paid)'
      <3>1. CASE running # None /\ running'.before = running.before /\ UNCHANGED now
        BY <3>1 DEF OnceEver, OnceOf
      <3>2. CASE running'.before = State /\ UNCHANGED chain
        BY <3>2 DEF OnceEver, OnceOf, State, chain, ledgerVars
      <3> QED  BY <2>2, <3>1, <3>2, BeforeStays
    <2> QED  BY <2>1, <2>2 DEF OnceEver
  <1>5. OnceEver => CopiesRefused
    BY <1>1 DEF OnceEver, OnceInv
  <1>6. AnyClientSpec => []CopiesRefused
    BY <1>3, <1>4, <1>5, ClientAlways, PTL DEF AnyClientSpec
  <1> QED
    BY <1>6, ClientAny, PresignAny, PTL

-----------------------------------------------------------------------------
(* Trades, as they are between transactions.                               *)

\* The instructions that an escrow may notice.
EscrowOps == {"deposit", "setTotalFee", "settlement", "claim", "closeFinishedTrade"}

\* Instructions with one for a trade at most.
OneEscrowOp(s) ==
    /\ IsSequence(s)
    /\ \A n, k \in 1..Len(s) : s[n].op \in EscrowOps /\ s[k].op \in EscrowOps => n = k

(* A single instruction.                                                   *)
LEMMA SingleEscrowOp ==
  ASSUME NEW i
  PROVE  OneEscrowOp(<<i>>)
  BY DEF OneEscrowOp, IsSequence

(* None.                                                                   *)
LEMMA NoEscrowOp ==
  ASSUME NEW s, Without(s, EscrowOps)
  PROVE  OneEscrowOp(s)
  BY DEF OneEscrowOp, Without

(* Two sequences, one of them without.                                     *)
LEMMA EscrowOpOfBoth ==
  ASSUME NEW s, NEW u, OneEscrowOp(s), OneEscrowOp(u),
         Without(s, EscrowOps) \/ Without(u, EscrowOps)
  PROVE  OneEscrowOp(s \o u)
  <1> DEFINE S == {s[n] : n \in 1..Len(s)} \cup {u[n] : n \in 1..Len(u)}
             v == s \o u
  <1>1. s \in Seq(S) /\ u \in Seq(S) /\ Len(s) \in Nat /\ Len(u) \in Nat
    BY DEF OneEscrowOp, IsSequence
  <1> HIDE DEF S
  <1>2. /\ v \in Seq(S) /\ Len(v) = Len(s) + Len(u)
        /\ \A n \in 1..Len(s) : v[n] = s[n]
        /\ \A n \in 1..Len(u) : v[Len(s) + n] = u[n]
    BY <1>1
  <1>3. IsSequence(v)
    BY <1>2, IsSequenceOf
  <1> HIDE DEF v
  <1>4. \A n \in 1..Len(v) : n \in 1..Len(s) \/ (n - Len(s) \in 1..Len(u) /\ v[n] = u[n - Len(s)])
    BY <1>1, <1>2
  <1>5. ASSUME NEW n \in 1..Len(v), NEW k \in 1..Len(v), v[n].op \in EscrowOps, v[k].op \in EscrowOps
        PROVE  n = k
    <2>1. CASE n \in 1..Len(s) /\ k \in 1..Len(s)
      BY <1>2, <1>5, <2>1 DEF OneEscrowOp
    <2>2. CASE n \notin 1..Len(s) /\ k \notin 1..Len(s)
      <3>1. n - Len(s) = k - Len(s)
        BY <1>4, <1>5, <2>2 DEF OneEscrowOp
      <3> QED  BY <1>1, <1>2, <3>1
    <2>3. CASE n \in 1..Len(s) /\ k \notin 1..Len(s)
      BY <1>2, <1>4, <1>5, <2>3 DEF Without
    <2>4. CASE n \notin 1..Len(s) /\ k \in 1..Len(s)
      BY <1>2, <1>4, <1>5, <2>4 DEF Without
    <2> QED  BY <2>1, <2>2, <2>3, <2>4
  <1>6. OneEscrowOp(v)
    BY <1>3, <1>5 DEF OneEscrowOp
  <1> QED
    BY <1>6 DEF v

(* No command sends two instructions for trades.                           *)
LEMMA TransactionTrades ==
  ASSUME NEW c \in Calls, NEW got
  PROVE  OneEscrowOp(Transaction(c, got).instructions)
  <1> USE DEF Tx
  <1>1. ASSUME NEW p, NEW o, NEW m, NEW a
        PROVE  /\ Without(CreateAtaIfNeeded(p, o, m, a), EscrowOps)
               /\ OneEscrowOp(CreateAtaIfNeeded(p, o, m, a))
    BY AtaOnly, NoEscrowOp DEF EscrowOps
  <1>2. CASE c.fn \in {"initialize", "add-operator", "remove-operator", "add-receiver",
                       "remove-receiver", "set-close-duration", "remove-whitelist",
                       "set-total-fee", "close-nonce", "close-trade-only", "close-receipt"}
    <2>1. \E i : Transaction(c, got).instructions = <<i>>
      BY <1>2 DEF Transaction, InitializeCommand, CreateInitializeProgram, AddOperatorCommand,
         CreateAddOperator, RemoveOperatorCommand, CreateRemoveOperator, AddReceiverCommand,
         CreateAddFeeReceiver, RemoveReceiverCommand, CreateRemoveFeeReceiver,
         SetCloseDurationCommand, CreateSetCloseWaitDuration, RemoveWhitelistCommand,
         CreateRemoveWhitelist, SetTotalFeeScript, CreateSetTotalFee, CloseNonceScript,
         CloseTradeOnly, CreateCloseFinishedTrade, ClosePaymentReceiptScript,
         CreateClosePaymentReceipt
    <2> QED  BY <2>1, SingleEscrowOp
  <1>3. CASE c.fn = "update-whitelist"
    <2>1. OneEscrowOp(CreateAddOrUpdateWhitelist(c))
      BY SingleEscrowOp DEF CreateAddOrUpdateWhitelist
    <2> QED  BY <1>1, <1>3, <2>1, EscrowOpOfBoth DEF Transaction, UpdateWhitelistCommand
  <1>4. CASE c.fn = "withdraw-fee"
    <2> DEFINE x == [op |-> "withdrawTotalFee", signer |-> c.signer, to |-> c.receiver,
                     token |-> c.token, amount |-> WithdrawAmount(c, got)]
    <2>1. OneEscrowOp(<<x>>)
      BY SingleEscrowOp
    <2> QED  BY <1>1, <1>4, <2>1, EscrowOpOfBoth
                DEF Transaction, WithdrawFeeCommand, ReceiverAtaIfNeededAndWithdrawTotalFee
  <1>5. CASE c.fn \in {"deposit", "deposit-only"}
    <2>1. OneEscrowOp(CreateDeposit(c))
      BY SingleEscrowOp DEF CreateDeposit
    <2>2. OneEscrowOp(DepositAndVaultAtaIfNeeded(c, got))
      BY <1>1, <2>1, EscrowOpOfBoth DEF DepositAndVaultAtaIfNeeded
    <2>3. Without(CreateEphemeralNonceAccount(c.user, c.ephemeral), EscrowOps)
      BY One DEF EscrowOps, CreateEphemeralNonceAccount
    <2> QED  BY <1>5, <2>2, <2>3, NoEscrowOp, EscrowOpOfBoth
                DEF Transaction, DepositScript, DepositOnly,
                    DepositAndVaultAtaIfNeededAndNonceAccount
  <1>6. CASE c.fn = "settlement-atas"
    BY <1>1, <1>6, EscrowOpOfBoth DEF Transaction, SettlementAtasScript
  <1>7. CASE c.fn = "claim"
    <2>1. OneEscrowOp(<<ClaimIx(c, got)>>)
      BY SingleEscrowOp
    <2>2. Without(CreateAtaIfNeeded(c.user, got[1].refund, got[1].token, Nth(got, 3))
                    \o CreateAtaIfNeeded(c.user, ProtocolPda, got[1].token, Nth(got, 4)), EscrowOps)
      BY <1>1, Both
    <2> QED  BY <1>7, <2>1, <2>2, NoEscrowOp, EscrowOpOfBoth
                DEF Transaction, ClaimScript, ClaimAndRefundAtaAndProtocolAtaIfNeeded
  <1>8. CASE c.fn = "close-trade"
    <2>1. OneEscrowOp(CreateCloseFinishedTrade(c, got))
      BY SingleEscrowOp DEF CreateCloseFinishedTrade
    <2>2. Without(<<WithdrawNonceIx(c)>>, EscrowOps)
      BY One DEF EscrowOps, WithdrawNonceIx
    <2> QED  BY <1>8, <2>1, <2>2, NoEscrowOp, EscrowOpOfBoth DEF Transaction, CloseTradeAndNonceScript
  <1>9. CASE c.fn = "payment"
    <2>1. OneEscrowOp(CreatePayment(c))
      BY SingleEscrowOp DEF CreatePayment
    <2>2. Without(CreateAtaIfNeeded(c.payment.from, c.payment.to, c.payment.token, Nth(got, 1))
                    \o CreateAtaIfNeeded(c.payment.from, ProtocolPda, c.payment.token, Nth(got, 2)),
                  EscrowOps)
      BY <1>1, Both
    <2> QED  BY <1>9, <2>1, <2>2, NoEscrowOp, EscrowOpOfBoth
                DEF Transaction, PaymentScript, PaymentAndRefundAtaAndProtocolAtaIfNeeded
  <1> QED
    BY <1>2, <1>3, <1>4, <1>5, <1>6, <1>7, <1>8, <1>9, CallsAssumption DEF CommandNames

-----------------------------------------------------------------------------
(* What one instruction does to the escrows.                               *)

\* One step of the escrow of t other than the clock's, from was to is.
Moves(was, is, t) ==
    \/ /\ was[t] = None
       /\ is = [was EXCEPT ![t] = is[t]]
       /\ is[t] # None /\ is[t].phase = "Deposited"
       /\ is[t].due > 0 /\ is[t].deadline >= now /\ is[t].held >= is[t].due
    \/ /\ was[t] # None /\ was[t].phase = "Deposited"
       /\ is = [was EXCEPT ![t].phase = "Settled", ![t].held = @ - was[t].due]
       /\ now <= was[t].deadline
    \/ /\ was[t] # None /\ was[t].phase = "Deposited"
       /\ is = [was EXCEPT ![t].phase = "Claimed", ![t].held = @ - was[t].due]
       /\ now > was[t].deadline
    \/ /\ was[t] # None /\ is[t] # None
       /\ is = [was EXCEPT ![t].held = is[t].held]
       /\ is[t].held > was[t].held
    \/ /\ was[t] # None /\ was[t].phase \in {"Settled", "Claimed"}
       /\ is = [was EXCEPT ![t] = None]

\* What there is when no transaction is under way, or when none was.
CommittedView == IF running = None THEN EscrowView ELSE Before!EscrowView

Committed == INSTANCE Escrow WITH escrow <- CommittedView

(* Steps of the escrow are these.                                          *)
LEMMA EscrowMoves ==
  ASSUME Escrowed!Next, UNCHANGED now, now \in Nat
  PROVE  \E t \in TradeIds : Moves(EscrowView, EscrowView', t)
  <1>1. ~Escrowed!Clock
    BY DEF Escrowed!Clock
  <1>2. PICK t \in TradeIds : \/ Escrowed!Lock(t) \/ Escrowed!Pay(t) \/ Escrowed!Refund(t)
                              \/ Escrowed!Add(t) \/ Escrowed!Release(t)
    BY <1>1 DEF Escrowed!Next
  <1>3. Moves(EscrowView, EscrowView', t)
    BY <1>2 DEF Moves, Escrowed!Lock, Escrowed!Pay, Escrowed!Refund, Escrowed!Add,
       Escrowed!Release, Escrowed!Leave, Escrowed!Is, Escrowed!OnlyOf
  <1> QED
    BY <1>3

(* And these are steps of the escrow.                                      *)
LEMMA CommittedMoves ==
  ASSUME NEW t \in TradeIds, Moves(CommittedView, CommittedView', t), UNCHANGED now
  PROVE  Committed!Next
  <1>1. \/ Committed!Lock(t) \/ Committed!Pay(t) \/ Committed!Refund(t)
        \/ Committed!Add(t) \/ Committed!Release(t)
    BY DEF Moves, Committed!Lock, Committed!Pay, Committed!Refund, Committed!Add,
       Committed!Release, Committed!Leave, Committed!Is, Committed!OnlyOf
  <1> QED
    BY <1>1 DEF Committed!Next

(* An instruction for anything but a trade is invisible in the escrows.    *)
LEMMA NotForTrades ==
  ASSUME InterfaceInv, NEW i, WithinBounds(i), Execute(i), i.op \notin EscrowOps
  PROVE  UNCHANGED EscrowView
  <1> DEFINE Goal == UNCHANGED <<now, tradeDetail>> /\ \A t \in TradeIds : VaultSame(t)
  <1>0. TradeTypeOK /\ PaymentTypeOK /\ ConfigTypeOK /\ LedgerTypeOK
    BY DEF InterfaceInv, TradeTypeOK, ConfigTypeOK
  <1> SUFFICES Goal
    BY <1>0, AllSame
  <1>1. ~OnTrade(i)
    BY DEF EscrowOps, OnTrade, DepositEntry, SetTotalFeeEntry, SettlementEntry, ClaimEntry,
       CloseFinishedTradeEntry
  <1>2. UNCHANGED now
    BY ClockStands
  <1>3. CASE OnConfig(i) /\ UNCHANGED <<tradeVars, paymentVars>>
    <2>1. ConfigNext /\ UNCHANGED tradeDetail
      BY <1>3, ConfigSent DEF tradeVars
    <2> QED  BY <1>0, <1>2, <2>1, ConfigVaults
  <1>4. CASE OnPayment(i) /\ UNCHANGED tradeVars
    <2>1. AnyPaymentStep /\ UNCHANGED tradeDetail
      BY <1>4, PaymentSent DEF tradeVars
    <2> QED  BY <1>0, <1>2, <1>4, <2>1, PaymentSpares DEF TradesSpared
  <1>5. CASE System(i)
    <2>1. CASE AnyNonceStep
      <3>1. UNCHANGED tradeDetail
        BY <2>1 DEF AnyNonceStep, CreateNonceAccount, WithdrawNonceAccount
      <3> QED  BY <1>0, <1>2, <2>1, <3>1, NonceVaults
    <2>2. CASE PartWithdrawn
      <3>1. UNCHANGED tradeDetail
        BY <2>2 DEF PartWithdrawn, tradeVars
      <3> QED  BY <1>0, <1>2, <2>2, <3>1, PartSpares DEF TradesSpared
    <2>3. CASE AnyLedgerNext /\ UNCHANGED <<configVars, tradeVars>> /\ i.op = "createAta"
      <3>1. CreateAta(i.signer, i.owner, i.token) /\ i.signer \in Wallets /\ UNCHANGED tradeDetail
        BY <1>5, <2>3 DEF System, WithinBounds, tradeVars
      <3>2. PICK o \in Owner, m \in Mints : Ata(i.owner, i.token) = Ata(o, m)
        BY <3>1, LedgerAssumption DEF CreateAta, TokenAccount
      <3>3. i.owner = o /\ i.token = m
        BY <3>2 DEF Ata
      <3> QED  BY <1>0, <1>2, <3>1, <3>3, AtaVaults
    <2>4. CASE i.op # "createAta"
      <3>1. AnyNonceStep \/ PartWithdrawn
        <4>1. CASE i.op = "createNonce" /\ CreateNonceAccount(i.signer, i.ephemeral)
          BY <4>1 DEF WithinBounds, AnyNonceStep
        <4>2. CASE i.op = "withdrawNonce" /\ WithdrawNonce(i.to, i.ephemeral, i.lamports)
          BY <4>2 DEF WithinBounds, WithdrawNonce, AnyNonceStep, PartWithdrawn
        <4> QED  BY <1>5, <2>4, <4>1, <4>2 DEF System
      <3> QED  BY <2>1, <2>2, <3>1
    <2> HIDE DEF Goal
    <2>5. AnyNonceStep \/ PartWithdrawn \/ (AnyLedgerNext /\ UNCHANGED <<configVars, tradeVars>>)
      BY <1>5, SystemSent
    <2> QED  BY <2>1, <2>2, <2>3, <2>4, <2>5
  <1> HIDE DEF Goal
  <1> QED
    BY <1>1, <1>3, <1>4, <1>5 DEF Execute, Program

(* Any other moves the escrow of one trade, or none.                       *)
LEMMA OneMoves ==
  ASSUME InterfaceInv, InterfaceInv', NEW i, WithinBounds(i), Execute(i)
  PROVE  \/ UNCHANGED EscrowView
         \/ \E t \in TradeIds : Moves(EscrowView, EscrowView', t)
  <1>1. UNCHANGED now /\ now \in Nat
    BY ClockStands DEF InterfaceInv, TradeTypeOK, ConfigTypeOK, LedgerTypeOK
  <1>2. [AnyNext]_chain
    BY DEF AnyNext
  <1>3. [Escrowed!Next]_<<now, EscrowView>>
    BY <1>2, EscrowBeside
  <1> HIDE DEF Escrowed!Next
  <1> QED
    BY <1>1, <1>3, EscrowMoves

-----------------------------------------------------------------------------
(* The escrows as a transaction found them.                                *)

(* They are given back with the rest.                                      *)
LEMMA ViewGivenBack ==
  ASSUME Restore(running.before)
  PROVE  EscrowView' = Before!EscrowView
  BY SameAddresses DEF Restore, EscrowView, Before!EscrowView, Exists, Before!Exists,
     Custody, Before!Custody

(* They are what they are when it begins.                                  *)
LEMMA ViewRemembered ==
  ASSUME running'.before = State
  PROVE  Before!EscrowView' = EscrowView
  BY SameAddresses DEF State, EscrowView, Before!EscrowView, Exists, Before!Exists,
     Custody, Before!Custody

(* And they stay that.                                                     *)
LEMMA ViewInMind ==
  ASSUME running'.before = running.before
  PROVE  Before!EscrowView' = Before!EscrowView
  BY DEF Before!EscrowView, Before!Exists, Before!Custody

\* A transaction under way has done nothing to the escrows yet, or has moved
\* one of them and will move no other.
ViewInv == running # None =>
    \/ EscrowView = Before!EscrowView /\ OneEscrowOp(running.rest)
    \/ /\ \E t \in TradeIds : Moves(Before!EscrowView, EscrowView, t)
       /\ Without(running.rest, EscrowOps)

(* What remains of a transaction, and what it has done.                    *)
LEMMA ViewExecute ==
  ASSUME ClientInv, ClientInv', ViewInv, ExecuteNext
  PROVE  LET rest == Tail(running.rest)
         IN  /\ UNCHANGED now
             /\ \/ EscrowView' = Before!EscrowView /\ OneEscrowOp(rest)
                \/ /\ \E t \in TradeIds : Moves(Before!EscrowView, EscrowView', t)
                   /\ Without(rest, EscrowOps)
  <1> DEFINE s == running.rest
             i == Head(s)
             was == Before!EscrowView
  <1>1. /\ running # None /\ Execute(i) /\ AllWithin(s) /\ Len(s) # 0
        /\ InterfaceInv /\ InterfaceInv'
    BY DEF ClientInv, UnderWay, ExecuteNext, Next1
  <1>2. /\ IsSequence(Tail(s)) /\ Len(Tail(s)) = Len(s) - 1
        /\ \A n \in 1..Len(s) - 1 : Tail(s)[n] = s[n + 1]
        /\ i = s[1] /\ IsSequence(s) /\ Len(s) \in Nat /\ WithinBounds(i)
    BY <1>1, TailIs DEF AllWithin, IsSequence
  <1>3. UNCHANGED now
    BY <1>1, ClockStands
  <1>4. CASE i.op \notin EscrowOps
    <2>1. EscrowView' = EscrowView
      BY <1>1, <1>2, <1>4, NotForTrades
    <2>2. OneEscrowOp(s) => OneEscrowOp(Tail(s))
      <3> HIDE DEF s
      <3> QED  BY <1>2 DEF OneEscrowOp
    <2>3. Without(s, EscrowOps) => Without(Tail(s), EscrowOps)
      <3> HIDE DEF s
      <3> QED  BY <1>2 DEF Without
    <2> QED  BY <1>1, <1>3, <2>1, <2>2, <2>3 DEF ViewInv
  <1>5. CASE i.op \in EscrowOps
    <2>1. ~Without(s, EscrowOps)
      <3> HIDE DEF s
      <3> QED  BY <1>1, <1>2, <1>5 DEF Without
    <2>2. EscrowView = was /\ OneEscrowOp(s)
      BY <1>1, <2>1 DEF ViewInv
    <2>3. Without(Tail(s), EscrowOps)
      <3> HIDE DEF s
      <3> QED  BY <1>1, <1>2, <1>5, <2>2 DEF Without, OneEscrowOp
    <2>4. EscrowView' = was \/ \E t \in TradeIds : Moves(was, EscrowView', t)
      <3> HIDE DEF s, i, was
      <3> QED  BY <1>1, <1>2, <2>2, OneMoves
    <2> QED  BY <1>3, <2>3, <2>4, NoEscrowOp
  <1> QED
    BY <1>4, <1>5

(* With no transaction under way, before or after, the steps of the        *)
(* escrows are steps of what is committed.                                 *)
LEMMA CommittedBetween ==
  ASSUME InterfaceInv, running = None, running' = None, [Escrowed!Next]_<<now, EscrowView>>
  PROVE  [Committed!Next]_<<now, CommittedView>>
  <1>1. CommittedView = EscrowView /\ CommittedView' = EscrowView' /\ now \in Nat
    BY DEF CommittedView, InterfaceInv, TradeTypeOK, ConfigTypeOK, LedgerTypeOK
  <1> HIDE DEF CommittedView
  <1>2. CASE UNCHANGED <<now, EscrowView>>
    BY <1>1, <1>2
  <1>3. CASE Escrowed!Next
    <2>1. CASE UNCHANGED now
      <3>1. PICK t \in TradeIds : Moves(EscrowView, EscrowView', t)
        BY <1>1, <1>3, <2>1, EscrowMoves
      <3>2. Moves(CommittedView, CommittedView', t)
        BY <1>1, <3>1
      <3>3. Committed!Next
        BY <2>1, <3>2, CommittedMoves
      <3> QED  BY <3>3
    <2>2. CASE now' # now
      <3>1. Escrowed!Clock
        BY <1>3, <2>2 DEF Escrowed!Next, Escrowed!Lock, Escrowed!Pay, Escrowed!Refund,
           Escrowed!Add, Escrowed!Release, Escrowed!Leave, Escrowed!OnlyOf
      <3>2. Committed!Next
        BY <1>1, <3>1 DEF Escrowed!Clock, Committed!Clock, Committed!Next
      <3> QED  BY <3>2
    <2> QED  BY <2>1, <2>2
  <1> QED
    BY <1>2, <1>3

(* While a transaction is under way nothing is committed.                  *)
LEMMA NothingCommitted ==
  ASSUME running # None, running' # None, running'.before = running.before
  PROVE  CommittedView' = CommittedView
  BY ViewInMind DEF CommittedView

(* An instruction that is not the last of its transaction commits nothing. *)
(* The last commits the one move there has been, if any.                   *)
LEMMA CommitExecute ==
  ASSUME NoneIsNoTransaction, ClientInv, ClientInv', ViewInv, ExecuteNext
  PROVE  ViewInv' /\ [Committed!Next]_<<now, CommittedView>>
  <1>1. /\ UNCHANGED now
        /\ \/ EscrowView' = Before!EscrowView /\ OneEscrowOp(Tail(running.rest))
           \/ /\ \E t \in TradeIds : Moves(Before!EscrowView, EscrowView', t)
              /\ Without(Tail(running.rest), EscrowOps)
    BY ViewExecute
  <1>2. running # None /\ IsTransaction(running)
    BY DEF ClientInv, UnderWay, ExecuteNext
  <1>3. CommittedView = Before!EscrowView
    BY <1>2 DEF CommittedView
  <1>4. CASE Len(running.rest) = 1
    <2>1. running' = None
      BY <1>4 DEF ExecuteNext, Done
    <2>2. CommittedView' = EscrowView'
      BY <2>1 DEF CommittedView
    <2>3. CommittedView' = CommittedView \/ \E t \in TradeIds : Moves(CommittedView, CommittedView', t)
      <3> HIDE DEF CommittedView
      <3> QED  BY <1>1, <1>3, <2>2
    <2>4. CASE CommittedView' = CommittedView
      BY <1>1, <2>1, <2>4 DEF ViewInv
    <2>5. ASSUME NEW t \in TradeIds, Moves(CommittedView, CommittedView', t)
          PROVE  Committed!Next
      BY <1>1, <2>5, CommittedMoves
    <2> HIDE DEF CommittedView, Committed!Next
    <2>6. ViewInv'
      BY <2>1 DEF ViewInv
    <2> QED  BY <2>3, <2>4, <2>5, <2>6
  <1>5. CASE Len(running.rest) # 1
    <2>1. running' = [running EXCEPT !.rest = Tail(running.rest)]
      BY <1>5 DEF ExecuteNext
    <2>2. /\ running' # None
          /\ running'.rest = Tail(running.rest) /\ running'.before = running.before
      BY <1>2, <2>1, GoesOn
    <2>3. Before!EscrowView' = Before!EscrowView /\ CommittedView' = CommittedView
      BY <1>2, <2>2, ViewInMind, NothingCommitted
    <2>4. ViewInv'
      <3>1. CASE EscrowView' = Before!EscrowView /\ OneEscrowOp(Tail(running.rest))
        <4>1. EscrowView' = Before!EscrowView' /\ OneEscrowOp(running'.rest)
          BY <2>2, <2>3, <3>1
        <4> QED  BY <4>1 DEF ViewInv, OneEscrowOp
      <3>2. CASE /\ \E t \in TradeIds : Moves(Before!EscrowView, EscrowView', t)
                 /\ Without(Tail(running.rest), EscrowOps)
        <4>1. PICK t \in TradeIds : Moves(Before!EscrowView, EscrowView', t)
          BY <3>2
        <4>2. Moves(Before!EscrowView, EscrowView, t)'
          <5> DEFINE was  == Before!EscrowView
                     then == Before!EscrowView'
                     is   == EscrowView'
          <5>1. Moves(was, is, t) /\ then = was /\ now' = now
            BY <1>1, <2>3, <4>1
          <5> HIDE DEF was, then, is
          <5>2. Moves(then, is, t)
            BY <5>1
          <5> QED  BY <5>1, <5>2 DEF Moves, then, is
        <4>3. Without(running'.rest, EscrowOps)
          BY <2>2, <3>2
        <4> QED  BY <4>2, <4>3 DEF ViewInv, Without
      <3> QED  BY <1>1, <3>1, <3>2
    <2> QED  BY <1>1, <2>3, <2>4
  <1> QED
    BY <1>4, <1>5

(* Every step commits one move of one escrow, or none.                     *)
LEMMA CommitStep ==
  ASSUME NoneIsNoTransaction, ClientInv, ClientInv', ViewInv, [AnyClientNext]_allClient
  PROVE  ViewInv' /\ [Committed!Next]_<<now, CommittedView>>
  <1>0. ASSUME UNCHANGED chain
        PROVE  UNCHANGED <<now, EscrowView>>
    BY <1>0 DEF chain, ledgerVars, tradeVars, EscrowView, Exists, Custody
  <1>1. CASE UNCHANGED allClient \/ \E c \in Calls : Call(c) \/ Ask(c) \/ GiveUp(c)
    <2>1. UNCHANGED <<chain, running>>
      BY <1>1 DEF Call, Ask, GiveUp, allClient
    <2>2. UNCHANGED <<now, EscrowView>> /\ Before!EscrowView' = Before!EscrowView
      BY <1>0, <2>1, ViewInMind
    <2>3. CommittedView' = CommittedView
      BY <2>1, <2>2 DEF CommittedView
    <2>4. ViewInv'
      <3>1. CASE running = None
        BY <2>1, <3>1 DEF ViewInv
      <3>2. CASE running # None /\ EscrowView = Before!EscrowView /\ OneEscrowOp(running.rest)
        <4>1. EscrowView' = Before!EscrowView' /\ OneEscrowOp(running'.rest)
          BY <2>1, <2>2, <3>2
        <4> QED  BY <4>1 DEF ViewInv, OneEscrowOp
      <3>3. CASE /\ \E t \in TradeIds : Moves(Before!EscrowView, EscrowView, t)
                 /\ Without(running.rest, EscrowOps)
        <4>1. PICK t \in TradeIds : Moves(Before!EscrowView, EscrowView, t)
          BY <3>3
        <4>2. Moves(Before!EscrowView, EscrowView, t)'
          <5> DEFINE was   == Before!EscrowView
                     then  == Before!EscrowView'
                     is    == EscrowView
                     isNow == EscrowView'
          <5>1. Moves(was, is, t) /\ then = was /\ isNow = is /\ now' = now
            BY <2>2, <4>1
          <5> HIDE DEF was, then, is, isNow
          <5>2. Moves(then, isNow, t)
            BY <5>1
          <5> QED  BY <5>1, <5>2 DEF Moves, then, isNow
        <4>3. Without(running'.rest, EscrowOps)
          BY <2>1, <3>3
        <4> QED  BY <4>2, <4>3 DEF ViewInv, Without
      <3> QED  BY <3>1, <3>2, <3>3 DEF ViewInv
    <2> QED  BY <2>2, <2>3, <2>4
  <1>2. ASSUME NEW c \in Calls, Land(c)
        PROVE  ViewInv' /\ UNCHANGED <<now, CommittedView>>
    <2> DEFINE s == Transaction(c, jobs[c]).instructions
    <2>1. /\ running = None /\ UNCHANGED chain
          /\ running' = [call |-> c, signers |-> Transaction(c, jobs[c]).signers, rest |-> s,
                         before |-> State]
      BY <1>2 DEF Land
    <2>2. OneEscrowOp(s)
      BY TransactionTrades
    <2> HIDE DEF s
    <2>3. running' # None /\ running'.rest = s /\ running'.before = State
      BY <2>1 DEF NoneIsNoTransaction
    <2>4. UNCHANGED <<now, EscrowView>> /\ Before!EscrowView' = EscrowView
      BY <1>0, <2>1, <2>3, ViewRemembered
    <2>5. CommittedView' = CommittedView
      BY <2>1, <2>3, <2>4 DEF CommittedView
    <2>6. EscrowView' = Before!EscrowView' /\ OneEscrowOp(running'.rest)
      BY <2>2, <2>3, <2>4
    <2>7. ViewInv'
      BY <2>6 DEF ViewInv, OneEscrowOp
    <2> QED  BY <2>4, <2>5, <2>7
  <1>3. CASE ExecuteNext
    BY <1>3, CommitExecute
  <1>4. CASE Abort
    <2>1. running # None /\ running' = None /\ Restore(running.before) /\ UNCHANGED now
      BY <1>4 DEF Abort, Done
    <2>2. CommittedView' = CommittedView
      BY <2>1, ViewGivenBack DEF CommittedView
    <2> QED  BY <2>1, <2>2 DEF ViewInv
  <1>5. CASE \/ Elsewhere
             \/ /\ running = None /\ UNCHANGED <<jobs, running>>
                /\ \E i : WithinBounds(i) /\ Execute(i)
    <2>1. running = None /\ running' = None /\ [AnyNext]_chain
      BY <1>5 DEF Elsewhere, AnyNext, AnyLedgerNext
    <2>2. InterfaceInv /\ InterfaceInv'
      BY DEF ClientInv
    <2>3. [Escrowed!Next]_<<now, EscrowView>>
      BY <2>1, <2>2, EscrowBeside
    <2>4. [Committed!Next]_<<now, CommittedView>>
      BY <2>1, <2>2, <2>3, CommittedBetween
    <2> QED  BY <2>1, <2>4 DEF ViewInv
  <1> HIDE DEF Committed!Next
  <1> QED
    BY <1>1, <1>2, <1>3, <1>4, <1>5 DEF AnyClientNext, ClientNext

(* Theorem.  With clients who race, fail and are undone at work, and with  *)
(* presigns delivered between them, the trades are escrows to whoever      *)
(* looks between transactions: a transaction moves the escrow of one trade *)
(* by one step that module Escrow allows, or moves none.                   *)
THEOREM ClientsImplementEscrow ==
  ASSUME NoneIsNoTransaction
  PROVE  (ClientSpec => Committed!Spec) /\ (PresignSpec => Committed!Spec)
  <1>1. ClientInit => ViewInv /\ Committed!Init
    <2> SUFFICES ASSUME ClientInit
                 PROVE  ViewInv /\ Committed!Init
      OBVIOUS
    <2>1. running = None /\ \A t \in TradeIds : View(t) = None
      BY DEF ClientInit, InterfaceInit, TradeInit, View, Exists
    <2>2. CommittedView = [t \in TradeIds |-> None]
      BY <2>1, Views DEF CommittedView
    <2> QED  BY <2>1, <2>2 DEF ViewInv, Committed!Init
  <1>2. ClientInv /\ ClientInv' /\ ViewInv /\ [AnyClientNext]_allClient
          => ViewInv' /\ [Committed!Next]_<<now, CommittedView>>
    BY CommitStep
  <1>3. AnyClientSpec => Committed!Spec
    BY <1>1, <1>2, ClientAlways, PTL DEF AnyClientSpec, Committed!Spec
  <1> QED
    BY <1>3, ClientAny, PresignAny, PTL
=============================================================================
