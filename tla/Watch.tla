-------------------------------- MODULE Watch ---------------------------------
(***************************************************************************)
(* What the SDK reads from a confirmed transaction: the PDAs it created,   *)
(* from the system instructions that the program's instruction called, and *)
(* the nonce check PDA it closed, from the balances before and after.  A   *)
(* transaction of one instruction is a step of Interface.                  *)
(***************************************************************************)
EXTENDS Interface

\* The accounts that the program owns.
ProgramAccounts ==
    (IF config = None THEN {} ELSE {ConfigPda, ProtocolPda, LegacyVaultPda})
      \cup {TradePda(t) : t \in {u \in TradeIds : Exists(u)}}
      \cup {VaultPda(t) : t \in tradeVault}
      \cup {NoncePda(e) : e \in nonceCheck}
      \cup {WhitelistPda(m) : m \in {n \in Mints : whitelist[n] # None}}
      \cup {ReceiverPda(k) : k \in feeReceivers}
      \cup {ReceiptPda(p) : p \in {q \in Payments : receipts[q] # None}}

CreatedBy(owner) ==
    IF owner = "program" THEN ProgramAccounts' \ ProgramAccounts ELSE atas' \ atas

\* Anchor, like the associated token program, calls createAccount for an empty
\* address, and transfer, allocate and assign for one that holds lamports.
InnerSystemIns ==
    UNION {{[type |-> IF lamports[a] = 0 THEN "createAccount" ELSE "assign",
             account |-> a, owner |-> owner] : a \in CreatedBy(owner)} :
               owner \in {"program", "token"}}

\* Mistaken variant: accounts of other programs are listed too.
GetCreatedPdaInTxOfAnyOwner ==
    {ix.account : ix \in {x \in InnerSystemIns : x.type = "createAccount"}}

GetCreatedPdaInTx ==
    {ix.account : ix \in {x \in InnerSystemIns : x.type = "createAccount" /\ x.owner = "program"}}

\* The accounts of the transaction that held lamports before, and none after.
Emptied(i) == {a \in Accounts(i).writes \cap Account : lamports[a] # 0 /\ lamports'[a] = 0}

\* Mistaken variant: whichever account is emptied is taken for it.
GetClosedNonceCheckOfAny(i, nonceAccnt) == Emptied(i) # {}

GetClosedNonceCheck(i, nonceAccnt) == NoncePda(nonceAccnt) \in Emptied(i)

-----------------------------------------------------------------------------
(* Action property.  getCreatedPdaInTx lists the accounts of the program   *)
(* that the transaction created, again and again at the same addresses:    *)
(* that rests on every close leaving nothing there.  (An address to which  *)
(* somebody has sent lamports is created without createAccount, and is not *)
(* listed; nobody sends any in the instance.)                              *)
CreatedPdaListed ==
    [][\A i \in Sent : Execute(i) => GetCreatedPdaInTx = ProgramAccounts' \ ProgramAccounts]_chain

(* Action property.  getClosedNonceCheck tells, of every transaction, just *)
(* whether it has settled or refunded an open trade with that ephemeral    *)
(* key.                                                                    *)
ClosedNonceSeen ==
    [][\A i \in Sent, e \in Ephemerals : Execute(i) =>
         (GetClosedNonceCheck(i, e) <=>
            \E t \in TradeIds : Open(t) /\ tradeDetail[t].eph = e /\ ~Open(t)')
      ]_chain
=============================================================================
