----------------------------- MODULE Deployment ------------------------------
(***************************************************************************)
(* A deployment on which trades and payments run: init has been called,    *)
(* and whatever configuration and whitelist the operators have made since. *)
(***************************************************************************)
EXTENDS Config, Functions

CONSTANTS
    Wsol,            \* the mint under which native SOL is whitelisted
    StartConfig,     \* the configuration the model starts from
    StartWhitelist   \* the whitelist the model starts from

\* What is whitelisted and what token accounts exist have their rent.
ASSUME StartIsSetUp ==
    /\ Wsol \in Mints
    /\ StartConfig \in ConfigRecord
    /\ StartWhitelist \in [Mints -> Nat \cup {None}]
    /\ Start.lamports[ConfigPda] >= Rent["config"]
    /\ Start.lamports[ProtocolPda] >= Rent["wallet"]
    /\ \A m \in Mints : StartWhitelist[m] # None =>
          Start.lamports[WhitelistPda(m)] >= Rent["whitelist"]
    /\ \A a \in Start.atas : Start.lamports[a] >= Rent["ata"]

\* Native SOL needs the entry of WSOL; a token needs its own.
Listed(token) == IF token = None THEN Wsol ELSE token

DeploymentInit ==
    /\ LedgerInit
    /\ config = StartConfig
    /\ whitelist = StartWhitelist
    /\ feeReceivers = {}

-----------------------------------------------------------------------------
(* No step mints or burns: settlement's three-way split and the withdrawal *)
(* of lamports by hand, the draining of closed accounts and the token      *)
(* transfers add up.                                                       *)
ValueConserved ==
    /\ SumFunction(lamports) = SumFunction(Start.lamports)
    /\ \A m \in Mints :
         LET held == {Ata(o, m) : o \in Owner}
         IN  SumFunctionOnSet(tokens, held) = SumFunctionOnSet(Start.tokens, held)
=============================================================================
