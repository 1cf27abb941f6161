# Optimex: models, checks and proofs

TLA+ models of the Optimex Solana program and of how its SDK and command line drive it,
the TLC configurations that check them on small instances, and proofs, checked by TLAPS,
of what matters most for every instance. Below, `P/` stands for
`src/programs/optimex-sol-smartcontract/src/` and `JS/` for `src/solana-js/`.

## 1. The system

A cross-chain trade has two sides. On this side a depositor locks SOL or SPL tokens in a
vault. An mpc (multi-party computation committee) pays a market maker (the pmm) from the
vault once the pmm has paid the depositor on the other chain; if it does not do so by the
timeout, anyone may have the deposit refunded. The pmm's own payments on Solana leave
receipts that, while they exist, prevent a payment from being made twice. The depositor signs the settlement
in advance, over a durable nonce, and the mpc adds its own signature later.

Solana executes a transaction atomically, so there is no interleaving *inside* a
transaction. What is hard is between them: many parties (depositors with several
trades, mpc, pmm, operators, admin, upgrade authority, strangers) send them in any order,
any account may be sent lamports or tokens unasked, token accounts come and go, the clock
moves, and one side of a race decides by the timestamp. The clients on their side read
several accounts one after the other, build a transaction of what they have read, and send
it to a chain that has gone on meanwhile and may lose, repeat or drop it.

### Inventory

| Component | State | Operations | Interacts with | What is hard, and what makes it correct |
|---|---|---|---|---|
| Ledger (`P/utils.rs`, Anchor constraints, runtime) | lamports, token accounts and balances, clock | init/close of accounts, `transfer_sol`, `transfer_spl_token`; strangers' transfers | everything | rent exemption of every live account; lamports moved by hand must add up; an account may hold lamports before it is created; a token account that a payout needs may not exist |
| Configuration (`P/instructions/admin_and_operator/`, `P/state/config.rs`, `whitelist_token.rs`, `fee_receiver.rs`) | config PDA (admin, operators, two durations), whitelist PDAs, fee receiver PDAs | init, add/remove operator, add/update/remove whitelist, set close durations, add/remove fee receiver | `deposit` and `payment` read the whitelist, the closing instructions the durations, `withdraw_total_fee` the receivers | re-running init must not lose what is set; three operators at most; removal must close the entry it means |
| Trade lifecycle (`deposit.rs`, `set_total_fee.rs`, `settlement.rs`, `claim.rs`, `close_finished_trade.rs`, `P/state/vault.rs`) | trade detail PDA, vault PDA and its token account | the five instructions | ledger, configuration, nonce check | settlement and claim race at the timeout; solvency of every vault; nothing stuck; the rent returns; re-deposit of a closed trade id |
| Nonce check (`P/state/nonce_check_account.rs`) and durable nonces (`JS/instructions/emepheral_nonce_account.ts`) | nonce check PDA per ephemeral key; the nonce account at that key | created by deposit, closed by settlement and claim; nonce account created by the SDK, withdrawn by its authority | deposit | an ephemeral key signs one settlement in advance and must not serve two open trades |
| Presigned settlement (`JS/instructions/settlement.ts`, `helpers.ts`) | a signed transaction kept off-chain, valid for one nonce value | presign, verify, send | trade, durable nonce | verify-then-use; sent late or twice; a nonce advanced by a failure |
| Payment (`payment.rs`, `close_payment_receipt.rs`) | payment receipt PDA | payment, close receipt | ledger, configuration | a retry after a lost answer must not pay twice, also after the receipt is closed |
| Protocol fee (`withdraw_total_fee.rs` and its SDK builder) | the protocol PDA's lamports and tokens | withdraw | settlement and payment pay in | the SDK withdraws a balance it read earlier; rent of the protocol PDA must stay, all above it come out |
| Generated interface (`JS/artifacts/`), dispatch (`P/lib.rs`) | none | fifteen instructions | runtime, SDK | signers and writable accounts must be what the handlers need |
| SDK builders, addresses, reads (`JS/instructions/`, `JS/pda/`) | none that lasts | one transaction each, from several reads | all | reads before use: existence of token accounts, balances, trades |
| What the SDK reads back (`JS/pda/get_pda_address.ts`) | none | `getCreatedPdaInTx`, `getClosedNonceCheck` | confirmed transactions | reading events off balances and inner instructions |
| Encoding (`P/utils.rs`, `TradeInput`, `JS/utils/`) | none | trade id, session id, amount as hex, bytes, numbers | deposit, payment, lookups | 64- and 256-bit boundaries; leading zeros |
| Command line and scripts (`src/scripts/`) | none | commands put together from the builders, filters over fetched accounts | all | two operators at once; a script that is repeated |
| Sending loop (`src/scripts/new-apis/sendTransaction.ts`) | one call's loop | send, poll, give up | cluster | forks, nodes that are behind, a time-out that must be final |

`PROJECT.json` lists each with its sources, what is modelled of it and why the rest is not,
and the hazards, each at the line where it bites with the properties that would catch it.

## 2. Modules

    SolanaLedger - Config - Deployment -+- Trade (implements Escrow) -+- Interface -+- Watch
                                        '- Payment -------------------'             |
                                                        Builders - Commands - Client - Presign
    Send      Encoding                                  (Builders extends Interface)

    Config_proofs -+- Trade_proofs - TradeValue_proofs -+- Interface_proofs
                   '- Payment_proofs -------------------'        |
                                                          Client_proofs
    Send_proofs      Encoding_proofs

Each module extends the one to its left; Interface extends both Trade and Payment,
Interface_proofs also Watch, and Client_proofs also Presign. The
`MC` modules give an instance's constants: MCConfig, MCTrade, MCPayment, MCWatch, MCClient,
MCPresign. Send and Encoding need none.

**SolanaLedger** is the ground everything stands on: addresses (a PDA is the record of its
seeds, so that different seeds give different addresses), `lamports`, the set `atas` of
token accounts that exist, their `tokens`, and the clock `now`. `Fund`, `Drain` and `Move`
are Anchor's `init`, Anchor's `close` and a transfer; `SplTransfer` is `transfer_spl_token`.
Its own steps are what others do: time passes, anyone creates an associated token account
for anyone, a wallet closes an empty one of its own, anyone sends lamports or tokens
anywhere. An instruction whose payer cannot afford it, or that would leave a wallet between
zero and rent exemption, fails as a whole, i.e. its action is not enabled (`Afforded`,
`RentState`).

**Config** adds the seven administrative instructions, one action each (operator
addition and removal are two actions: they are the two branches of one handler).
**Deployment** is a program that has been set up (init has run), on which trades and payments
run, and the sums that no step may change.

**Trade** is the trade lifecycle. `tradeDetail[t]` is the trade detail PDA (`None` when there
is none), `tradeVault` the set of trades with a vault PDA, `nonceCheck` the ephemeral keys
with a nonce check PDA, `nonceAccount` those that hold a durable nonce account. A trade id is
a hash of the trade input, so it *determines* depositor, token and amount (constant `Input`);
timeout, mpc, ephemeral key and refund address are not hashed and may differ when the id is
used again. `Deposit`, `SetTotalFee`, `Settlement`, `Claim` and `CloseFinishedTrade` are each
the whole handler with the constraints of its accounts, including the accounts Anchor
creates before it and closes after it. `CreateNonceAccount` and `WithdrawNonceAccount` are
what the SDK and the scripts do with the ephemeral key's own account.

**Escrow** says what a trade promises without accounts, rent or nonces: an amount is locked
until a deadline; up to it the amount can only be paid out, after it only refunded; it leaves
once and whole; strangers can only add; what they added stays until the release. `Trade`
implements it under the mapping `EscrowView`, where `held` is what the vault holds beyond
its rent.

**Payment** is `payment`, `close_payment_receipt` and `withdraw_total_fee`. The seeds of a
receipt are the payment itself (trade, payer, payee, token, amount, fee), so a payment *is*
its receipt's address; `receipts[p]` is the time in it, and `paid[p]`, a history variable,
records the time and the deadline of each time that `p` was made.

**Interface** puts both behind the dispatch of `lib.rs`: an instruction is a record of its
arguments and the accounts its client chooses (`Instruction` lists the fifteen, and those of
other programs that clients send beside them); `Accounts(i)` are the signers and the
writable accounts that the generated interface declares; `Execute(i)` runs the handler
behind the address constraints. **Watch** adds what the SDK derives from a confirmed
transaction: the PDAs it created, from inner system instructions, and the nonce check it
closed, from balances.

**Builders** are the SDK's builders, each split into the sequence of its *reads* and the
*instructions* it makes of the answers (`XxxReads`, then the instruction list);
**Commands** are the transactions that command line and scripts compose of them, with their
signers. **Client** lets any number of such calls run at once: `Call`, `Ask` (one read),
`GiveUp` (parameters refused, or the transaction lost), `Land` (the transaction reaches the
leader), `ExecuteNext` and `Abort` (the runtime: instruction by instruction, and everything
undone if one fails, for which `State`/`Restore` keep what was before). While a
transaction runs, `running` holds what is left of it, and nobody else moves. `CommandNames`
are the commands that there are.

**Presign** is the settlement in advance, over the clients and the program: the depositor
reads the trade, then the nonce, and signs; the mpc verifies with its three separate reads,
keeps the result and delivers it any time, any number of times. The runtime takes it only
while the nonce has the signed value and advances the nonce even when the settlement
fails (`Burn`). Values of nonces and deposits are numbered (`epoch`), so that each is new; a
transaction that fails gives back the old ones (`kept`, `GiveBack`).

**Send** is `createAndSendTransactionWithKeypair` statement by statement between its awaits,
over a cluster that makes blocks, executes a copy while its blockhash is good, drops
forks and confirms, and whose nodes may answer with an old height. **Encoding** is the
conversion of session ids, amounts and trade ids between SDK and program and the lookups
that compare them, with base and widths as parameters.

Definitions marked *Mistaken variant* are plausible mistakes in a handler or builder, kept
next to the definition they would replace. No specification uses them; each property
is known to fail when the variant takes the place of the definition.

## 3. What the runs show

| Run | Instance | Properties | Distinct states |
|---|---|---|---|
| `config` | 4 wallets, 2 mints, payers that run out of lamports, an undeployed program | `ConfigTypeOK`, `OperatorsFit`, `ConfigRentHeld`, `ConfigSurvivesInit` | 133 k |
| `native` | one SOL trade, 2 ephemeral keys, gifts to the vault, durations and whitelist changing | `TradeTypeOK`, `TradeRentHeld`, `NeverStuck`, `ValueConserved`, `CloseReturnsEverything` | 154 k |
| `two_trades` | two SOL trades of one depositor, 2 ephemeral keys | `VaultSolvent`, `NonceGuardsOneTrade`, `ImplementsEscrow` | 53 k |
| `token` | one token trade, token accounts opened and closed at any time, gifts of both kinds | `CloseReturnsEverything`, `ImplementsEscrow`, `DepositResolves`, `RentReturns` | 31 k |
| `payment` | a payment in SOL and one in tokens, retries, closes, withdrawals, gifts, configuration changing | `CopiesRefused`, `ReceiptRentHeld`, `ConfigRentHeld`, `FeesReachable`, `ReceiptAttests`, `ReceiptReturns` | 322 k |
| `watch` | all fifteen instructions on one ledger | `NobodyPaysUnsigned`, `WritesDeclared`, `CreatedPdaListed`, `ClosedNonceSeen` | 33 k |
| `client_trade` | the scripts around a token trade beside operators' commands | `NonceWithTrade`, `OnlyRacesAbort`, `RefundArrives` | 108 k |
| `client_fees` | payments, withdrawals of the fees and whitelist commands, two at a time | `WhitelistedHasProtocolAta`, `OnlyRacesAbort` | 567 k |
| `presign` | two presigns, a token trade deposited again with the same id and key | `SettlesOwnDeposit`, `VerifiedSettles` | 385 k |
| `send` | validity and tries of three, eight blocks | `ConfirmedIsExecuted`, `TimeoutIsFinal`, `CallEnds` | 27 k |
| `encoding` | base 2, words of two bytes, u64 of one | `DepositIsAsMeant`, `U64OfAnyLength`, `ReceiptFoundById`, `FetchFindsById` | 31 k |
| `remove_other_token` | violation, see below | `RemovedTokenIsNotWhitelisted` | |

The properties, by the hazard they are for:

* *The race at the timeout*: `ImplementsEscrow` (exactly one of pay and refund, by the deadline,
  for the whole amount) and `NeverStuck` (no gap between the two either, checked with
  `ENABLED` in every reachable state).
* *Solvency*: `VaultSolvent`. *Keys and nonces*: `NonceGuardsOneTrade`.
* *Lamports by hand*: `ValueConserved` compares the sum of all lamports, and of each mint's
  tokens, with the start; `TradeRentHeld`, `ConfigRentHeld`, `ReceiptRentHeld` watch the rent.
* *Uninvited transfers and the end of a trade*: `CloseReturnsEverything`.
* *The configuration changes under a trade or payment*: `NeverStuck`, `DepositResolves`,
  `RentReturns`, `ReceiptReturns`, `FeesReachable`.
* *Administration in any order*: `OperatorsFit`, `ConfigSurvivesInit`, `WhitelistedHasProtocolAta`.
* *Retry of a payment*: `CopiesRefused` (the receipt outlives the time in which a copy could be
  accepted, as far as the close duration allows); *the receipt as evidence*: `ReceiptAttests`.
* *Declared accounts*: `WritesDeclared` (what a handler changes is writable in the
  interface, or every such transaction fails), `NobodyPaysUnsigned`.
* *Reading back*: `CreatedPdaListed`, `ClosedNonceSeen`, `FetchFindsById`, `ReceiptFoundById`.
* *Read, then send*: `OnlyRacesAbort` (a transaction whose reads are still true fails only if it
  came too early or too late: builders leave nothing out that the program needs),
  `RefundArrives`, `NonceWithTrade`.
* *Signed, kept, sent later*: `SettlesOwnDeposit` (no presign ever settles a later deposit
  of the same trade id and key), `VerifiedSettles` (what was verified works, unless the time
  has passed, the trade is over or a token account is missing).
* *An unreliable cluster*: `ConfirmedIsExecuted`, `TimeoutIsFinal`, `CallEnds`.

### Where code and documentation disagree

`remove_other_token`: `P/instructions/admin_and_operator/remove_whitelist.rs:33` calls `token` the
mint to remove from the whitelist. Nothing ties the entry that is closed (line 27) to that
mint, so the mint named may stay whitelisted while another is removed. Only operators can do
this; the SDK always passes the matching pair.

Met while modelling, without a run of their own:

* `P/lib.rs:143` says of the total fee that it is deducted when settling. `set_total_fee` checks
  the timeout but not the status, so the mpc can store another fee in a trade that is
  already settled, and the recorded fee is then not the one deducted. No funds depend on it.
* The fetch commands compare the trade id they are given with one that has lost its leading
  zeros (`src/scripts/cli/index.ts:88`), so a trade whose id starts with a zero is not
  found by the id that the SDK returns. `FetchFindsById` states exactly what is found.
* `getCreatedPdaInTx` (`JS/pda/get_pda_address.ts:184`) looks for `createAccount`; a PDA at an address
  that was sent lamports before is created by other system instructions and is not listed.
  `CreatedPdaListed` therefore excludes such gifts by its instance.
* What stops a second payment is the receipt, and it can be closed once the close duration has
  passed since the payment. A copy of a payment made at `s` with deadline `d` is therefore refused for
  good only if the duration in force at the close is at least `d - s`, the time that the payment had
  left; `P/state/payment_receipt.rs:51` compares the duration with nothing else. That is an obligation of
  the operators, toward the lifetime that payers choose (3000 seconds in
  `src/scripts/new-apis/payment.ts:33`), and the program does not enforce it. Nor does any duration stop
  a payer who repeats a payment under a *fresh* deadline after closing its receipt, as running the
  script again does: the seeds of the receipt do not contain the deadline (`P/instructions/payment.rs:146`).
  `CopiesRefused` states exactly what is refused, and both kinds of second payment occur in the run.

### Bounds, and why they are enough

Rents are one lamport, two for the trade detail, so that paying rent out of the wrong account
or to the wrong one shows; the amount is two and the whitelist minimum two, so that a
fee of one splits it. Timeouts are 0 and 1 and the clock runs past them (`MaxTime`): before, at
and after each timeout, and with a close duration of 0 or 1 also at and after the time to
close. Payments have deadlines 0 and 1, close durations 0 and 1, and the clock runs to 3: a copy that
the duration covers and one that it does not, a payment again under a later deadline through a
receipt at the same address, and the moment at which a close would come one too early all occur
(with the shortest duration, as the property asks for one of those in force at some time). Two trades of one
depositor and two ephemeral keys are the smallest instance in which a vault or a key could
serve the wrong trade; trades do not interact otherwise, and the proofs cover any number.
Purses are small enough that some deposits, payments and account creations cannot be afforded.
Four wallets are one more than the operators' limit.

What the environment tries is bounded by constants that limit choices of inputs, never a
guard of the program: `Helpers` (who does what any wallet may do), `Givers`, `Gifts`, `GiftTargets`
(uninvited transfers), `Openable` (token accounts that come and go), `Timeouts`, `Mpcs`, `Refunds`,
`Pmms`, `Fees`, `Admins`, `Durations`, `MinAmounts`, `Deadlines`, `Withdrawals`, `Sent` (the
instructions of Interface's own step), `Calls` and `MaxOpen` (which client calls, how many under way
at once), `PresignPmms`, `MaxPresigns` and `MaxEpoch` (how many presigns; how many deposits and
nonce values), `MaxHeight`, `MaxNumber`, `MaxLength`, `MaxTime`. In the mutually exclusive
instances one of them is left empty (no gifts with two trades, none beside clients, no
duration changes with tokens) to keep each run near two minutes. A second trade with
clients, or more than two of their calls at once, does not fit in that time; every race the
builders have is between one read and one other transaction, which two calls show.

In `presign` five values are enough for a deposit with its nonce account, a presign that
is spent, a close, and a second deposit with a new nonce account at the same key.
In `encoding` a byte is four, a "uint256" two bytes and a "u64" one; all numbers from zero
past the largest word and all byte strings up to one byte more than a word are tried, so
every boundary is crossed. The definitions take base and widths as parameters and mention
no others; the theorems are about all of them.

The trade, payment and client runs start from a protocol that has been set up; `config` starts
from nothing.

### Fairness

`DepositResolves` and `RentReturns` (`FairTradeSpec`) assume: time passes; somebody who can
create a missing token account keeps trying; somebody who can claim keeps trying; the
depositor keeps trying to close a finished trade. They assume nothing of the mpc, the pmm,
the operators or the admin. `claim` and, after the duration, `close_finished_trade` need no
particular signer, so the depositor can carry all of this out alone. Strong fairness is used
for claim and close because a token account they need may be closed again and again by its
owner; a transaction that creates the account and pays in one go, as the SDK builds it
(`JS/instructions/helpers.ts`), cannot be interrupted so. The helper is assumed able to
pay for a token account. An operator may change the close duration at any moment, to one of
`Durations`; a duration raised again and again without bound would postpone the close for
ever, and the program does not exclude that.

`ReceiptReturns` (`FairPaymentSpec`) assumes that time passes and that the payer keeps asking:
once the duration is over the close stays possible, so weak fairness is enough.

`RefundArrives` (`FairClientSpec`) derives the same for a depositor who works through the SDK: time
passes (strongly fair, for a transaction under way postpones it for a moment), the runtime
finishes a transaction it has begun, and the depositor's claim script (`Insistent`) is run
again whenever it has failed, gets its answers, and is not lost for ever. Here the missing
token account is no assumption: the script creates it.

`CallEnds` assumes only that every await of the loop returns; blocks need not be made.

## 4. What is proved

For every number of wallets, keys, trades, mints and payments, every rent schedule with
the wallet's minimum lowest, every starting balance and every choice of the bounds:

| Theorem | Says |
|---|---|
| *One component* | |
| `Config_proofs!ConfigTypeCorrect` | `ConfigSpec => []ConfigTypeOK` |
| `Config_proofs!OperatorsAlwaysFit` | `ConfigSpec => []OperatorsFit` |
| `Config_proofs!ConfigRentAlwaysHeld` | `ConfigSpec => []ConfigRentHeld` |
| `Config_proofs!ConfigAlwaysSurvivesInit` | `ConfigSpec => ConfigSurvivesInit` |
| `Trade_proofs!TradeTypeCorrect` | `TradeSpec => []TradeTypeOK`: no balance is ever overdrawn |
| `Trade_proofs!NonceAlwaysGuardsOneTrade` | `TradeSpec => []NonceGuardsOneTrade` |
| `Trade_proofs!VaultAlwaysSolvent` | `TradeSpec => []VaultSolvent` |
| `Trade_proofs!TradeImplementsEscrow` | `TradeSpec => ImplementsEscrow`: the refinement |
| `TradeValue_proofs!TradeRentAlwaysHeld` | `TradeSpec => []TradeRentHeld` |
| `TradeValue_proofs!TradeKeepsConfigRent` | `TradeSpec => []ConfigRentHeld` |
| `TradeValue_proofs!TradeConservesValue` | `TradeSpec => []ValueConserved` |
| `TradeValue_proofs!CloseAlwaysReturnsEverything` | `TradeSpec => CloseReturnsEverything` |
| `TradeValue_proofs!GuardsDecide` | claim, settlement and close are a condition on the state before and a value for each variable after |
| `TradeValue_proofs!TradeNeverBlocked` | `TradeSpec => []NeverBlocked`: `NeverStuck`, with those conditions for `ENABLED` |
| `Payment_proofs!PaymentTypeCorrect` | `PaymentSpec => []PaymentTypeOK` |
| `Payment_proofs!PaymentRentAlwaysHeld` | `PaymentSpec =>` receipts and configuration keep their rent |
| `Payment_proofs!CopiesAlwaysRefused` | `PaymentSpec => []CopiesRefused` |
| `Payment_proofs!PaidOnce` | while no close duration is shorter than a lifetime, a payment accepted with at most that left until its deadline is not accepted again, nor an older copy |
| `Payment_proofs!ReceiptsAttest` | `PaymentSpec => ReceiptAttests` |
| `Payment_proofs!PaymentConservesValue` | `PaymentSpec => []ValueConserved` |
| `Payment_proofs!WithdrawGuardDecides` | as `GuardsDecide`, of the withdrawal |
| `Payment_proofs!FeesAlwaysPayable` | `PaymentSpec => []FeesPayable`: `FeesReachable`, with the condition for `ENABLED` |
| `Send_proofs!SendTypeCorrect` | `SendSpec => []SendTypeOK` |
| `Send_proofs!SuccessIsFinal` | `SendSpec => []ConfirmedIsExecuted` |
| `Send_proofs!TimeoutStands` | `SendSpec => TimeoutIsFinal`, for every validity and number of tries |
| `Encoding_proofs!DepositAlwaysAsMeant` | `EncodingSpec => []DepositIsAsMeant`, for every base and width |
| `Encoding_proofs!U64AtEveryLength` | `EncodingSpec => []U64OfAnyLength` |
| `Encoding_proofs!ReceiptsFoundById` | `EncodingSpec => []ReceiptFoundById` |
| `Encoding_proofs!FetchFindsAsStated` | `EncodingSpec => []FetchFindsById` |
| *Everything on one ledger* | |
| `Interface_proofs!WritesAlwaysDeclared` | `InterfaceSpec => WritesDeclared` |
| `Interface_proofs!NobodyEverPaysUnsigned` | `InterfaceSpec => NobodyPaysUnsigned` |
| `Interface_proofs!DepositsSafeTogether` | `InterfaceSpec => [](VaultSolvent /\ NonceGuardsOneTrade /\ TradeRentHeld)` |
| `Interface_proofs!NothingBlockedTogether` | `InterfaceSpec => [](NeverBlocked /\ FeesPayable /\ ReceiptRentHeld)` |
| `Interface_proofs!ValueConservedTogether` | `InterfaceSpec => []ValueConserved` |
| `Interface_proofs!CopiesRefusedTogether` | `InterfaceSpec => []CopiesRefused` |
| `Interface_proofs!EscrowTogether` | `InterfaceSpec => ImplementsEscrow` |
| `Interface_proofs!CloseReturnsTogether` | `InterfaceSpec => CloseReturnsEverything` |
| `Interface_proofs!ReceiptsAttestTogether` | `InterfaceSpec => ReceiptAttests` |
| `Interface_proofs!CreatedAlwaysListed` | `InterfaceSpec => CreatedPdaListed` |
| `Interface_proofs!ClosedAlwaysSeen` | `InterfaceSpec => ClosedNonceSeen` |
| *Clients* | |
| `Client_proofs!WhitelistedAlwaysHasProtocolAta` | `ClientSpec => []WhitelistedHasProtocolAta`, for any calls |
| `Client_proofs!NonceAlwaysWithTrade` | `ClientSpec => []NonceWithTrade`, for the calls it is stated of |
| `Client_proofs!PresignSettlesOwnDeposit` | `PresignSpec => SettlesOwnDeposit`, for any calls, presigns and deposits |
| *The program under clients, each for `ClientSpec` and for `PresignSpec`* | |
| `Client_proofs!DepositsSafeWithClients` | `[](VaultSolvent /\ NonceGuardsOneTrade /\ TradeRentHeld)` |
| `Client_proofs!NothingBlockedWithClients` | `[](NeverBlocked /\ FeesPayable /\ ReceiptRentHeld)` |
| `Client_proofs!ValueConservedWithClients` | `[]ValueConserved` |
| `Client_proofs!CopiesRefusedWithClients` | `[]CopiesRefused` |
| `Client_proofs!ClientsImplementEscrow` | `Committed!Spec`: between transactions the trades are escrows |

### Assumptions

Those named ASSUME in the modules. The ones with content are that key pairs are not
program-derived addresses (`KeysAssumption`), that a trade id determines its input
(`InputAssumption`), that the protocol has been set up before the first trade
(`StartIsSetUp`, used for the initial state only), that what is sent is an instruction of the
interface (`SentAssumption`), that a call is of a command, for tokens and trades that there are
(`CallsAssumption`), and that its arguments, and the pmms that depositors sign for, are among
those that the handlers are modelled for (`CallsBounds`, `PresignBounds`). TLC evaluates all of
them in the runs.

The constants that bound what others try do not bound the proofs where clients go beyond them: the
lemmas about steps are about any wallet that pays for a token account or a nonce account, not only
`Helpers`, and about any amount withdrawn, not only `Withdrawals` (`AnyNonceStep`, `AnyLedgerNext`,
`AnyPaymentStep`). So they also cover what a command sends, whose amount is a balance that it
has read.

A theorem that needs more has it in its statement:

* `PaidOnce`: no close duration is shorter than `lifetime`, the operators' obligation. It bounds the
  time that a payment has left, not its deadline, so later payments are not excluded.
  `CopiesAlwaysRefused` and its two companions assume nothing of durations and deadlines.
* `TradeConservesValue`, `PaymentConservesValue`, `ValueConservedTogether` and
  `ValueConservedWithClients`: the set of accounts is finite, for the sum over it to have a meaning.
* `CreatedAlwaysListed`: nobody has sent lamports to an address of the program where there is no
  account yet (`StartsEmpty`), and nobody does (`NoGiftsToPdas`). Without it the property is false of the
  code, as section 3 says of `getCreatedPdaInTx`.
* `ClosedAlwaysSeen`: a nonce check PDA costs rent, or its balance could not tell that it is gone. Gifts
  to it do no harm.
* All about clients but `PresignSettlesOwnDeposit`: `NoneIsNoTransaction` (`None` is no record; in
  the runs it is a model value). `WhitelistedAlwaysHasProtocolAta` also `StartHasAtas`: the whitelist it starts from has
  its token accounts. `NonceAlwaysWithTrade` also what the property says of the calls: trades are
  made and closed by the scripts that see to the nonce account (`ScriptsOnly`), and who closes a
  trade names the key that it was deposited with (`KeysMatch`). The program checks neither: a
  script that closes a trade and withdraws the nonce account of another key would leave an open trade
  without one.

### The arguments

*Types*: of every expression for the new lamports one shows that it takes only
from a payer that can afford it, or from an account that is drained to zero, or from a vault
after the comparison with the amount.

*Solvency*: `VaultSolvent` is inductive relative to the types. Its core is the predicate
`VaultKept(t)` (a step takes neither lamports nor tokens from the vault of `t` and does not close
its token account): each step is shown to keep every vault except, for settlement, claim and
close, that of its own trade, because a vault is no wallet, signs nothing for others and has an
address different from every other account (`PdasApart`, `VaultApart`, `AtasApart`); and after
those three the trade is no longer open. Deposit is shown to fill the vault (`Holds`), which
uses that Anchor tops the vault up to its rent *before* the amount arrives, so that lamports
sent to the address beforehand cannot stand in for it.

*Nonces*: `NonceGuardsOneTrade` is inductive as it stands: deposit refuses a key that has a check
PDA, hence one of an open trade, and what ends a trade removes its own key, which no other
open trade shares.

*Refinement*: each step is mapped to a step of Escrow or to a stutter, under types and
solvency. The abstract step depends on what becomes of each vault exactly, not only on a
bound: `VaultSame` for the steps that leave it alone, `Given` for gifts, `AmountTaken` for
settlement and claim, and the whole view of the one trade that a step is about (`View`).

*Rent*: a step takes lamports only from wallets and from accounts that it closes, with one
exception, the vault of a native payout; that its remainder is its rent is
`VaultSolvent`. So `RentFrame` says what any step preserves once its exception is named
(`KeptBut`), and each instruction only shows what it opens and closes. The configuration's rent and
the receipts' follow a simpler frame over PDAs alone (`PdasKeptBut`).

*Sums*: the library's fold over a set is a recursive function over finite subsets, chosen by
`CHOOSE`. Its law for one more element is proved by induction over the set of the subsets for
which it holds, which needs no operator as a parameter; from it follows that a move between two
accounts keeps the sum. Every new value of the lamports or tokens is a composition of moves, `Fund`
and `Drain` among them, so each instruction adds up by naming its accounts. Payer and payee may
be one account: `Move` takes before it gives.

*Closing*: `CloseReturnsEverything` compares what the depositor has afterwards with all that
was at the trade's accounts, gifts included. The close is the only step that ends a trade, and each
of its drains leaves a zero behind and goes to the depositor, whose address differs from
the accounts drained.

*Nothing is stuck*: `ENABLED` is out of the prover's reach, so the claim is split. `GuardsDecide`
shows each handler equivalent to a condition on the present state and an assignment to every
variable; such an action is enabled exactly when the condition holds. `TradeNeverBlocked` then
shows of every reachable state that the conditions hold as soon as the receiving side can take
the payment: the vault has the amount (solvency), the key its check PDA (`NonceGuardsOneTrade`), the
trade its vault and the protocol its configuration (`Prepared`). The fee needs that it was
compared with the amount when it was set. The withdrawal of fees is treated alike.

*Payments*: `CopiesRefused` is about the past, so its invariant (`OnceInv`) adds what is true now: every
payment in the history has lapsed (`now` is beyond its time plus some close duration), but for the
last one while its receipt is there and bears its time. A close turns the second case into the first,
by the duration in force, which is one of those ever set (`DurationKnown`); time only moves on; and
a new payment finds no receipt, so all before it have lapsed, and its deadline is not before `now`.

*Receipts as evidence*: only `payment` writes a receipt, and two moves out of one account
(`TwoMoves`), which is never the protocol's, give payee and protocol what they must, also where
the payee is one of the two.

*Composition*: `InterfaceInv` is the conjunction of what trades and payments keep alone. A step of
trades keeps the part about trades by the lemmas of `TradeValue_proofs`; a payment, a withdrawal of
fees or of a part of a nonce account spares them (`TradesSpared`: it takes from no account of a
trade and changes none of its state), and the reverse for payments. So every property of one
component is carried over without a second proof of its steps, refinement included: a step that
spares trades is a stutter of Escrow, or a gift.

*Declared accounts*: of each instruction one shows that its moves change accounts of a set W only, and
take lamports and tokens from accounts of two sets only (`Taken`); `Within` compares the three
with `Accounts(i)`. The constraints of the accounts a client chooses
make the comparison true: what the handler takes from the trade is what the client has named.

*Reading back*: that an address is always created by `createAccount` needs an invariant of its own,
`NothingLeft`: an address of the program without an account holds no lamports. `WritesAlwaysDeclared`
confines each instruction to the accounts it declares, and `OpenedKinds` names the few that declare an
account of each kind which can be closed; so per kind only its opening and closing remain, and every
close drains to zero. For the nonce check, `WhileOpen` says what becomes of an open trade: it keeps its
key, or nothing is left of the check of its key.

*Encoding*: all conversions are described by one object, the values of the prefixes of a string of
digits (`PrefixValues`), each being the one before times the base plus a digit. Reading a
string computes them from the left; writing a number takes them off from the right, as quotients. That
digits and values determine each other, that leading zeros change nothing and that a value is below
`Power` of its length follow by induction over the set of lengths for which they hold
(`NatSetInduction`). So the theorems cover base 16, words of 32 bytes and numbers of 8, which no
run can enumerate.

*Clients*: an invariant over concurrent calls and half-executed transactions has three parts: what
holds between transactions; the same of what a transaction under way would give back if it failed;
and of the state in its middle, what is missing is what the rest of the transaction will do
(`Covered`: the token account exists or is still to be created; `Stage`: how far a deposit or
close has come). Of what a call has read one needs only that it is still true when it matters:
the protocol's token account, once seen, stays, for nobody can close it. For the nonce account the
deposit need not have read anything: the program itself refuses a key that has one, so two
trades never share one (`KeysHeld`).

*Presigns*: the invariant (`PresignInv`) is that wherever a trade has the ephemeral key of a
presign, and that key a nonce account with the presign's value, the trade is the deposit
during which the presign was made (`Numbered`). A step breaks it neither by opening a
trade, whose key holds no nonce account (`KeysStay`, the guard in deposit), nor by opening or
advancing a nonce account, whose value is new. Because a failing transaction gives back what it
did, the same is required of what it would give back (`NumberedBefore`). Nothing is assumed of
the calls that clients make or of the types of the state.

*The program under clients*: a failing instruction undoes what those before it in its transaction
did, so the ledger may step back to an earlier state, which no lemma about instructions covers. The
invariant `ClientInv` therefore has `InterfaceInv` twice: of the present state, and, while a
transaction is under way, of the state that it would give back, through a second instance of
Interface over `running.before` (`Before`, `InvBefore`). An instruction keeps the first
(`InterfaceStep`) and leaves the second alone, for it takes no time; a transaction that begins makes
the second of the first (`Remembered`), and one that is undone the first of the second
(`GivenBack`). What the commands send is shown to be within the handlers' bounds
(`TransactionWithin`); only `withdraw-fee` needs what it has read for that, namely that the balance
of the protocol PDA covered its rent when it was read (`BalanceRead`). The other invariants about
values and payments are doubled alike. A presign that is delivered is a transaction of one
instruction, so clients with and without presigns are instances of one specification
(`AnyClientSpec`).

*Escrows under clients*: seen at every instruction, the trades are not escrows: the script that
closes a trade also withdraws its nonce account, and where that fails, for somebody has withdrawn it
meanwhile, the close is undone and a released escrow is there again. To others nothing has
happened. So the mapping (`CommittedView`) shows the escrows as the transaction under way found
them, and the present ones between transactions. No command sends two instructions that concern a
trade (`TransactionTrades`), and every other instruction is invisible (`NotForTrades`); hence, while a
transaction is under way, it has either moved no escrow or has moved one and will move no other
(`ViewInv`), and its last instruction commits that one move.

*Sending*: the TTL is at least the validity beyond the blockhash plus one, and an answer that is
behind can only understate the height; so at the time-out the blockhash is no longer
acceptable, and heights only grow. The other direction is that a transaction seen confirmed is
never dropped.

`Config_proofs` begins with the facts about addresses, balances and sums that all proofs share. Its
operator `Amount` is `Int` under a name that proofs leave closed: it lets the solver
match an amount that is the value of a record or a function.

### Only model-checked

`NeverStuck` and `FeesReachable` in the form with `ENABLED` (the forms with conditions are proved);
`OnlyRacesAbort` and `VerifiedSettles`, where failing *means* not being enabled; all liveness
(`DepositResolves`, `RentReturns`, `ReceiptReturns`, `RefundArrives`, `CallEnds`). `ENABLED` and fairness are out of the prover's reach.

## 5. What is not modelled, and why

* Transaction fees, compute limits, events, log and error codes: no property depends on them.
* The other chain: what the mpc knows of it is its decision to settle.
* 64-bit width in the program. `overflow-checks` is on in the release profile
  (`src/Cargo.toml`), so an overflow aborts the instruction; where amounts enter is modelled in
  Encoding. The sum of timeout and duration (`P/state/vault.rs:211`) overflows only for durations above
  2^63 seconds, which operators can set back.
* Token-2022 and its extensions: `transfer_spl_token` loads the mint as a classic SPL mint.
  Freeze authorities of mints.
* The lamports of a wrapped-SOL token account: its tokens are counted, its lamports beyond rent are not.
* Payouts to addresses other than wallets and the protocol PDA.
* The rent check on the vault after settlement, which never fails: `TradeRentHeld`.
* A refund in SOL that is below the rent exemption of an empty wallet fails until
  someone funds the wallet; this *is* modelled (`RentState`, `Payable`).
* `JS/pda/decode_account.ts` (Anchor's decoder over a batch), `getSolanaUserEphemeralKeys`,
  `getBlockTime`, `encodeAddress`: conversions without state. Chain and network names in the trade input.
* Of the command line, `parse-transaction` and the fetch commands that only print; `wrapSol.ts`; scripts of
  one line that repeat a command. Discriminators, event and error tables of the interface. PDF audit.

## 6. What is left

1. Runs of several trades with clients, and of the mpc's own script concurrently with itself; the
   instances have one trade each. The theorems of section 4 about clients are about any number.
2. The sum of `P/state/vault.rs:211` at its width of 64 bits.
3. `OnlyRacesAbort` and `VerifiedSettles` as theorems, with a condition on the state in place of
   `ENABLED` as `NeverBlocked` has it for `NeverStuck`.
