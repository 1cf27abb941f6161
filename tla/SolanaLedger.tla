---------------------------- MODULE SolanaLedger ----------------------------
(***************************************************************************)
(* The ledger on which the Optimex program runs: addresses, lamports, SPL  *)
(* token balances and the cluster clock, with the runtime rules that the   *)
(* program's instructions rely on (rent, account creation and closing,     *)
(* token transfers).  A transaction is atomic: an instruction either       *)
(* performs all its moves or none, so every instruction of the program is  *)
(* one action.  The fee of a transaction is not modelled.                  *)
(***************************************************************************)
EXTENDS Integers

CONSTANTS
    Wallets,     \* key pairs that sign, pay and own tokens
    Ephemerals,  \* key pairs made for one trade; they only ever sign
    TradeIds,    \* 32-byte trade ids
    Mints,       \* SPL mints
    Payments,    \* payments, each the seeds of its receipt: see Payment
    None,        \* Option::None, and "there is no account here"
    Rent,        \* Rent[kind]: rent-exempt minimum of an account of that kind
    Start,       \* the lamports, atas and tokens the model starts from
    MaxTime,     \* bound on the clock
    Helpers,     \* bound: the wallets that do what any wallet may do
    Givers,      \* bound: the wallets that send something unasked
    Gifts,       \* bound: the amounts they send
    GiftTargets, \* bound: the addresses that receive such transfers
    Openable     \* bound: the token accounts that are opened and closed

VARIABLES
    now,         \* Clock::unix_timestamp
    lamports,    \* address -> lamports
    atas,        \* the associated token accounts that exist
    tokens       \* associated token account -> amount it holds

ledgerVars == <<now, lamports, atas, tokens>>

-----------------------------------------------------------------------------
(* Addresses.  A program-derived address is a record of its seeds.         *)

ConfigPda          == [kind |-> "config"]
ProtocolPda        == [kind |-> "protocol"]
LegacyVaultPda     == [kind |-> "legacy vault"]
TradePda(t)        == [kind |-> "trade", of |-> t]
VaultPda(t)        == [kind |-> "vault", of |-> t]
NoncePda(e)        == [kind |-> "nonce", of |-> e]
WhitelistPda(m)    == [kind |-> "whitelist", of |-> m]
ReceiverPda(k)     == [kind |-> "receiver", of |-> k]
ReceiptPda(p)      == [kind |-> "receipt", of |-> p]

\* The associated token account of owner o for mint m.
Ata(o, m)          == [kind |-> "ata", of |-> o, mint |-> m]

\* Where a payout may be addressed: a wallet, or the protocol PDA.
Recipient == Wallets \cup {ProtocolPda}

Owner == Recipient \cup {VaultPda(t) : t \in TradeIds}

TokenAccount == {Ata(o, m) : o \in Owner, m \in Mints}

Pda == {ConfigPda, ProtocolPda, LegacyVaultPda}
         \cup {TradePda(t) : t \in TradeIds}
         \cup {VaultPda(t) : t \in TradeIds}
         \cup {NoncePda(e) : e \in Ephemerals}
         \cup {WhitelistPda(m) : m \in Mints}
         \cup {ReceiverPda(k) : k \in Wallets}
         \cup {ReceiptPda(p) : p \in Payments}

Account == Wallets \cup Ephemerals \cup Pda \cup TokenAccount

RentKind == {"wallet", "config", "trade", "vault", "nonce", "whitelist",
             "receiver", "receipt", "ata", "durable"}

ASSUME LedgerAssumption ==
    /\ Rent \in [RentKind -> Nat]
    /\ \A kind \in RentKind : Rent["wallet"] <= Rent[kind]  \* no data, least rent
    /\ MaxTime \in Nat
    /\ Helpers \subseteq Wallets /\ Givers \subseteq Wallets
    /\ Gifts \subseteq Nat
    /\ GiftTargets \subseteq Account
    /\ Openable \subseteq TokenAccount
    /\ None \notin Nat /\ None \notin Mints /\ None \notin Recipient

\* A key pair is never a program-derived address: those are off the curve.
ASSUME KeysAssumption ==
    /\ Wallets \cap Ephemerals = {}
    /\ (Wallets \cup Ephemerals) \cap (Pda \cup TokenAccount) = {}

ASSUME StartAssumption ==
    /\ Start.lamports \in [Account -> Nat]
    /\ Start.atas \subseteq TokenAccount
    /\ Start.tokens \in [TokenAccount -> Nat]

LedgerTypeOK ==
    /\ now \in 0..MaxTime
    /\ lamports \in [Account -> Nat]
    /\ atas \subseteq TokenAccount
    /\ tokens \in [TokenAccount -> Nat]

LedgerInit ==
    /\ now = 0
    /\ lamports = Start.lamports
    /\ atas = Start.atas
    /\ tokens = Start.tokens

-----------------------------------------------------------------------------
(* Moving balances, lamports or tokens alike.                              *)

Move(bal, from, to, n) ==
    LET taken == [bal EXCEPT ![from] = @ - n]
    IN  [taken EXCEPT ![to] = @ + n]

\* Anchor's init: the payer tops the address up to the rent-exempt minimum.
Fund(bal, payer, a, min) ==
    Move(bal, payer, a, IF bal[a] < min THEN min - bal[a] ELSE 0)

\* Anchor's close: everything at the address goes to the destination.
Drain(bal, a, to) == Move(bal, a, to, bal[a])

\* A transaction may leave a wallet empty or rent exempt, nothing between.
RentState(n) == n = 0 \/ n >= Rent["wallet"]

\* The payer of a transaction can afford what the transaction took from it.
Afforded(bal, payer) == bal[payer] >= 0 /\ RentState(bal[payer])

(* transfer_spl_token: n tokens to the associated account of to, then the  *)
(* fee, if there is one, to that of the protocol PDA.  Both must exist.    *)
SplTransfer(bal, from, to, m, n, fee) ==
    LET paid == Move(bal, Ata(from, m), Ata(to, m), n)
    IN  IF fee = None THEN paid
        ELSE Move(paid, Ata(from, m), Ata(ProtocolPda, m), fee)

SplTransferOk(bal, from, to, m, n, fee) ==
    /\ {Ata(from, m), Ata(to, m)} \subseteq atas
    /\ bal[Ata(from, m)] >= n
    /\ fee # None =>
         /\ Ata(ProtocolPda, m) \in atas
         /\ SplTransfer(bal, from, to, m, n, None)[Ata(from, m)] >= fee

-----------------------------------------------------------------------------
(* What the cluster and outsiders do.                                      *)

Tick ==
    /\ now < MaxTime
    /\ now' = now + 1
    /\ UNCHANGED <<lamports, atas, tokens>>

\* Anyone may create the associated token account of anyone, and pays for it.
CreateAta(payer, o, m) ==
    /\ Ata(o, m) \in Openable \ atas
    /\ lamports' = Fund(lamports, payer, Ata(o, m), Rent["ata"])
    /\ Afforded(lamports', payer)
    /\ atas' = atas \cup {Ata(o, m)}
    /\ UNCHANGED <<now, tokens>>

\* A wallet may close a token account of its own once that is empty.
CloseAta(o, m) ==
    /\ Ata(o, m) \in Openable \cap atas
    /\ tokens[Ata(o, m)] = 0
    /\ lamports' = Drain(lamports, Ata(o, m), o)
    /\ atas' = atas \ {Ata(o, m)}
    /\ UNCHANGED <<now, tokens>>

\* A plain system transfer to any address, before, while or after an account
\* of the program lives there.
GiveLamports(giver, a, n) ==
    /\ lamports' = Move(lamports, giver, a, n)
    /\ Afforded(lamports', giver)
    /\ RentState(lamports'[a])
    /\ UNCHANGED <<now, atas, tokens>>

GiveTokens(giver, o, m, n) ==
    /\ SplTransferOk(tokens, giver, o, m, n, None)
    /\ tokens' = SplTransfer(tokens, giver, o, m, n, None)
    /\ UNCHANGED <<now, lamports, atas>>

LedgerNext ==
    \/ Tick
    \/ \E payer \in Helpers, o \in Owner, m \in Mints : CreateAta(payer, o, m)
    \/ \E o \in Wallets, m \in Mints : CloseAta(o, m)
    \/ \E giver \in Givers, a \in GiftTargets, n \in Gifts : GiveLamports(giver, a, n)
    \/ \E giver \in Givers, o \in GiftTargets \cap Owner, m \in Mints, n \in Gifts :
          GiveTokens(giver, o, m, n)
=============================================================================
