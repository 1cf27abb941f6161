------------------------------- MODULE Config -------------------------------
(***************************************************************************)
(* The protocol's configuration and the seven instructions that change it: *)
(* init (upgrade authority), add_or_remove_operator and the fee receivers  *)
(* (admin), the whitelist and the close durations (operators).  The vector *)
(* of operators is a set, because add_operator refuses a duplicate.        *)
(***************************************************************************)
EXTENDS SolanaLedger, FiniteSets

CONSTANTS
    UpgradeAuthority,  \* the wallet that may upgrade the program
    Admins,            \* bound: wallets that init names as admin
    Durations,         \* bound: close durations an operator sets
    MinAmounts         \* bound: minimum amounts an operator whitelists

VARIABLES
    config,        \* the config PDA, None before init
    whitelist,     \* mint -> minimum amount, None when there is no PDA
    feeReceivers   \* the wallets that have a fee receiver PDA

configVars == <<config, whitelist, feeReceivers>>

OperatorsSize == 3

ASSUME ConfigAssumption ==
    /\ UpgradeAuthority \in Wallets
    /\ Admins \subseteq Wallets
    /\ Durations \subseteq Nat
    /\ MinAmounts \subseteq Nat

ConfigRecord == [admin : Wallets \cup {None}, operators : SUBSET Wallets,
                 closeTrade : Nat, closePayment : Nat]

ConfigTypeOK ==
    /\ LedgerTypeOK
    /\ config \in ConfigRecord \cup {None}
    /\ whitelist \in [Mints -> Nat \cup {None}]
    /\ feeReceivers \subseteq Wallets

ASSUME NoneIsNoConfig == None \notin ConfigRecord

IsAdmin(k)    == config # None /\ config.admin = k
IsOperator(k) == config # None /\ k \in config.operators

-----------------------------------------------------------------------------
(* Mistaken variants of the handlers below, of which the properties at the *)
(* end of this module must disapprove.  Next does not use them.            *)

\* The limit is compared with > instead of >=.
AddOperatorOverLimit(signer, operator) ==
    /\ IsAdmin(signer)
    /\ operator \notin config.operators
    /\ Cardinality(config.operators) <= OperatorsSize
    /\ config' = [config EXCEPT !.operators = @ \cup {operator}]
    /\ UNCHANGED <<ledgerVars, whitelist, feeReceivers>>

\* The Option is stored without being matched.
SetCloseWaitDurationUnmatched(operator, trade, payment) ==
    /\ IsOperator(operator)
    /\ config' = [config EXCEPT !.closeTrade = trade, !.closePayment = payment]
    /\ UNCHANGED <<ledgerVars, whitelist, feeReceivers>>

\* The rent that is paid out is that of the entry of token.
RemoveWhitelistCrossed(operator, token, m) ==
    /\ IsOperator(operator)
    /\ whitelist[m] # None
    /\ lamports' = Drain(lamports, WhitelistPda(token), operator)
    /\ whitelist' = [whitelist EXCEPT ![m] = None]
    /\ UNCHANGED <<now, atas, tokens, config, feeReceivers>>

-----------------------------------------------------------------------------
\* A config PDA as Anchor allocates it: every field zero, so no key is admin.
ZeroConfig == [admin |-> None, operators |-> {}, closeTrade |-> 0, closePayment |-> 0]

\* The three accounts of the instruction are created together, the first time.
FundInit(signer) ==
    LET legacy   == Fund(lamports, signer, LegacyVaultPda, Rent["wallet"])
        protocol == Fund(legacy, signer, ProtocolPda, Rent["wallet"])
    IN  Fund(protocol, signer, ConfigPda, Rent["config"])

\* Mistaken variant: init writes the argument whether it is there or not.
InitConfigUnconditional(signer, admin) ==
    /\ signer = UpgradeAuthority
    /\ lamports' = IF config = None THEN FundInit(signer) ELSE lamports
    /\ Afforded(lamports', signer)
    /\ LET old == IF config = None THEN ZeroConfig ELSE config
       IN  config' = [old EXCEPT !.admin = admin]
    /\ UNCHANGED <<now, atas, tokens, whitelist, feeReceivers>>

InitConfig(signer, admin) ==
    /\ signer = UpgradeAuthority
    /\ lamports' = IF config = None THEN FundInit(signer) ELSE lamports
    /\ Afforded(lamports', signer)
    /\ LET old == IF config = None THEN ZeroConfig ELSE config
       IN  config' = IF admin = None THEN old ELSE [old EXCEPT !.admin = admin]
    /\ UNCHANGED <<now, atas, tokens, whitelist, feeReceivers>>

AddOperator(signer, operator) ==
    /\ IsAdmin(signer)
    /\ operator \notin config.operators
    /\ Cardinality(config.operators) < OperatorsSize
    /\ config' = [config EXCEPT !.operators = @ \cup {operator}]
    /\ UNCHANGED <<ledgerVars, whitelist, feeReceivers>>

RemoveOperator(signer, operator) ==
    /\ IsAdmin(signer)
    /\ operator \in config.operators
    /\ config' = [config EXCEPT !.operators = @ \ {operator}]
    /\ UNCHANGED <<ledgerVars, whitelist, feeReceivers>>

\* Each duration is an Option: None leaves the field as it is.
SetCloseWaitDuration(operator, trade, payment) ==
    /\ IsOperator(operator)
    /\ config' = [config EXCEPT !.closeTrade   = IF trade = None THEN @ ELSE trade,
                                !.closePayment = IF payment = None THEN @ ELSE payment]
    /\ UNCHANGED <<ledgerVars, whitelist, feeReceivers>>

AddOrUpdateWhitelist(operator, m, amount) ==
    /\ IsOperator(operator)
    /\ lamports' = IF whitelist[m] # None THEN lamports
                   ELSE Fund(lamports, operator, WhitelistPda(m), Rent["whitelist"])
    /\ Afforded(lamports', operator)
    /\ whitelist' = [whitelist EXCEPT ![m] = amount]
    /\ UNCHANGED <<now, atas, tokens, config, feeReceivers>>

\* The entry m that is closed and the mint account named token are separate
\* arguments, and nothing relates them.
RemoveWhitelist(operator, token, m) ==
    /\ IsOperator(operator)
    /\ token \in Mints
    /\ whitelist[m] # None
    /\ lamports' = Drain(lamports, WhitelistPda(m), operator)
    /\ whitelist' = [whitelist EXCEPT ![m] = None]
    /\ UNCHANGED <<now, atas, tokens, config, feeReceivers>>

AddFeeReceiver(signer, receiver) ==
    /\ IsAdmin(signer)
    /\ receiver \notin feeReceivers
    /\ lamports' = Fund(lamports, signer, ReceiverPda(receiver), Rent["receiver"])
    /\ Afforded(lamports', signer)
    /\ feeReceivers' = feeReceivers \cup {receiver}
    /\ UNCHANGED <<now, atas, tokens, config, whitelist>>

RemoveFeeReceiver(signer, receiver) ==
    /\ IsAdmin(signer)
    /\ receiver \in feeReceivers
    /\ lamports' = Drain(lamports, ReceiverPda(receiver), signer)
    /\ feeReceivers' = feeReceivers \ {receiver}
    /\ UNCHANGED <<now, atas, tokens, config, whitelist>>

ConfigNext ==
    \/ \E signer \in Wallets, admin \in Admins \cup {None} : InitConfig(signer, admin)
    \/ \E signer, operator \in Wallets : AddOperator(signer, operator)
    \/ \E signer, operator \in Wallets : RemoveOperator(signer, operator)
    \/ \E operator \in Wallets, trade, payment \in Durations \cup {None} :
          SetCloseWaitDuration(operator, trade, payment)
    \/ \E operator \in Wallets, m \in Mints, amount \in MinAmounts :
          AddOrUpdateWhitelist(operator, m, amount)
    \/ \E operator \in Wallets, token, m \in Mints : RemoveWhitelist(operator, token, m)
    \/ \E signer, receiver \in Wallets : AddFeeReceiver(signer, receiver)
    \/ \E signer, receiver \in Wallets : RemoveFeeReceiver(signer, receiver)

ConfigInit ==
    /\ LedgerInit
    /\ config = None
    /\ whitelist = [m \in Mints |-> None]
    /\ feeReceivers = {}

ConfigSpec == ConfigInit /\ [][ConfigNext]_<<ledgerVars, configVars>>

-----------------------------------------------------------------------------
(* Safety.  The config account is allocated once for OPERATORS_SIZE        *)
(* operators (Config::SPACE): add and remove, in any order and by any      *)
(* succession of admins, never outgrow it.                                 *)
OperatorsFit == config # None => Cardinality(config.operators) <= OperatorsSize

(* Safety.  Every account the program counts on exists and is rent exempt, *)
(* whatever order init, whitelisting, fee receivers and their removal, or  *)
(* a re-creation of what was removed, come in.                             *)
ConfigRentHeld ==
    /\ config # None =>
         /\ lamports[ConfigPda] >= Rent["config"]
         /\ lamports[ProtocolPda] >= Rent["wallet"]
    /\ \A m \in Mints :
         whitelist[m] # None => lamports[WhitelistPda(m)] >= Rent["whitelist"]
    /\ \A k \in feeReceivers : lamports[ReceiverPda(k)] >= Rent["receiver"]

(* Action property.  init may be sent again, with or without an admin: the *)
(* admin in office is never lost to the zero key, and neither a new admin  *)
(* nor a new set of operators disturbs the rest of the configuration.      *)
ConfigSurvivesInit ==
    [][config # None =>
         /\ config' # None
         /\ config.admin # None => config'.admin # None
         /\ config'.admin # config.admin =>
              config' = [config EXCEPT !.admin = config'.admin]
         /\ config'.operators # config.operators =>
              config' = [config EXCEPT !.operators = config'.operators]
      ]_<<ledgerVars, configVars>>

(* What remove_whitelist.rs:33 says of the token account: it is the mint   *)
(* whose whitelisting ends.  The instruction closes the entry it is given. *)
RemovedTokenIsNotWhitelisted ==
    [][\A operator \in Wallets, token, m \in Mints :
          RemoveWhitelist(operator, token, m) => whitelist'[token] = None
      ]_<<ledgerVars, configVars>>

=============================================================================
