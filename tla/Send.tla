--------------------------------- MODULE Send --------------------------------
(***************************************************************************)
(* createAndSendTransactionWithKeypair: one signed transaction is sent     *)
(* again and again until its signature is seen to be confirmed, the call   *)
(* finds that its time is up, or the tries run out.  Meanwhile blocks are  *)
(* made, copies of the transaction reach the leaders, the block that holds *)
(* it may be dropped with its fork, or be confirmed and finalized.         *)
(***************************************************************************)
EXTENDS Naturals

CONSTANTS
    Validity,    \* blocks for which a blockhash is accepted: 150
    NumTry,      \* 30
    MaxHeight    \* bound: the last block of a run

ASSUME SendAssumption == {Validity, NumTry, MaxHeight} \subseteq Nat \ {0}

VARIABLES
    skipPreflight,    \* the caller's choice
    height,           \* the block height at commitment confirmed
    blockhash,        \* the height whose hash the transaction names
    transactionTTL,
    pc,               \* what the call does next
    tries,            \* i in the loop
    sent,             \* whether copies of the transaction are under way
    status,           \* "none", "processed", "confirmed", "finalized"
    err,              \* whether the transaction failed where it was executed
    outcome           \* "pending", or how the call has ended

call  == <<skipPreflight, blockhash, transactionTTL, pc, tries, outcome>>
chain == <<height, status, err>>
vars  == <<call, chain, sent>>

Status == {"none", "processed", "confirmed", "finalized"}

SendTypeOK ==
    /\ skipPreflight \in BOOLEAN /\ sent \in BOOLEAN /\ err \in BOOLEAN
    /\ {height, blockhash} \subseteq 0..MaxHeight
    /\ transactionTTL \in Nat /\ tries \in 0..NumTry
    /\ pc \in {"hash", "height", "check", "send", "status", "done"}
    /\ status \in Status
    /\ outcome \in {"pending", "confirmed", "exhausted", "refused",
                    "ONCHAIN_TIMEOUT", "UNKNOWN_TRANSACTION"}

SendInit ==
    /\ skipPreflight \in BOOLEAN
    /\ height = 0 /\ blockhash = 0 /\ transactionTTL = 0
    /\ pc = "hash" /\ tries = 0
    /\ sent = FALSE /\ status = "none" /\ err = FALSE
    /\ outcome = "pending"

-----------------------------------------------------------------------------
(* The call.  Each step ends with an await.                                *)

End(o) == pc' = "done" /\ outcome' = o

GetLatestBlockhash ==
    /\ pc = "hash"
    /\ blockhash' = height
    /\ pc' = "height"
    /\ UNCHANGED <<skipPreflight, transactionTTL, tries, outcome, chain, sent>>

\* Mistaken variant: the transaction is given up while it can still land.
TTLTooShort == height + Validity

\* minContextSlot: no node that is behind the blockhash answers.
TTL == height + Validity + 1

GetBlockHeight ==
    /\ pc = "height"
    /\ transactionTTL' = TTL
    /\ pc' = "check"
    /\ UNCHANGED <<skipPreflight, blockhash, tries, outcome, chain, sent>>

TriesLeft == tries < NumTry

\* The answer may be that of a node that is behind.
CheckTTL ==
    /\ pc = "check"
    /\ IF ~TriesLeft THEN End("exhausted")
       ELSE \E seen \in 0..height :
              IF seen >= transactionTTL THEN End("ONCHAIN_TIMEOUT")
              ELSE pc' = "send" /\ UNCHANGED outcome
    /\ UNCHANGED <<skipPreflight, blockhash, transactionTTL, tries, chain, sent>>

Acceptable == height <= blockhash + Validity

\* The first simulation replaces the blockhash and its result is not looked
\* at.  The preflight refuses what is known already, too old, or would fail.
SendRawTransaction ==
    /\ pc = "send"
    /\ \/ /\ skipPreflight \/ (status = "none" /\ Acceptable)
          /\ sent' = TRUE
          /\ pc' = "status"
          /\ UNCHANGED outcome
       \/ ~skipPreflight /\ End("refused") /\ UNCHANGED sent
    /\ UNCHANGED <<skipPreflight, blockhash, transactionTTL, tries, chain>>

\* Mistaken variant: a transaction that was processed is taken for confirmed.
SeenConfirmedOrProcessed == status # "none"

SeenConfirmed == status = "confirmed"

\* Mistaken variant: a try counts when the transaction is known at its end.
NextTryIfKnown == IF status = "none" THEN tries ELSE tries + 1

NextTry == tries + 1

GetSignatureStatus ==
    /\ pc = "status"
    /\ \/ status # "none" /\ err /\ End("UNKNOWN_TRANSACTION") /\ UNCHANGED tries
       \/ ~err /\ SeenConfirmed /\ End("confirmed") /\ UNCHANGED tries
       \/ /\ ~err /\ ~SeenConfirmed
          /\ pc' = "check" /\ tries' = NextTry
          /\ UNCHANGED outcome
    /\ UNCHANGED <<skipPreflight, blockhash, transactionTTL, chain, sent>>

-----------------------------------------------------------------------------
(* The cluster                                                             *)

NextBlock ==
    /\ height < MaxHeight
    /\ height' = height + 1
    /\ UNCHANGED <<call, status, err, sent>>

\* A copy is executed, once only, and may fail.
Execute ==
    /\ sent /\ status = "none" /\ Acceptable
    /\ status' = "processed"
    /\ err' \in BOOLEAN
    /\ UNCHANGED <<call, height, sent>>

Drop ==
    /\ status = "processed"
    /\ status' = "none" /\ err' = FALSE
    /\ UNCHANGED <<call, height, sent>>

Vote ==
    /\ \/ status = "processed" /\ status' = "confirmed"
       \/ status = "confirmed" /\ status' = "finalized"
    /\ UNCHANGED <<call, height, err, sent>>

Stop == pc = "done" /\ height = MaxHeight /\ UNCHANGED vars

Call    == GetLatestBlockhash \/ GetBlockHeight \/ CheckTTL \/ SendRawTransaction
             \/ GetSignatureStatus
Cluster == NextBlock \/ Execute \/ Drop \/ Vote

SendNext == Call \/ Cluster \/ Stop

\* The nodes answer.
SendSpec == SendInit /\ [][SendNext]_vars /\ WF_vars(Call)

-----------------------------------------------------------------------------
(* Action property.  After ONCHAIN_TIMEOUT the transaction is not executed *)
(* any more: what had not happened by then can safely be tried anew.  That *)
(* rests on the 151 blocks of the TTL being more than the 150 for which a  *)
(* blockhash is good, and counting from a later block.                     *)
TimeoutIsFinal ==
    [][outcome = "ONCHAIN_TIMEOUT" /\ status = "none" => status' = "none"]_vars

(* Safety.  The call returns from the loop by break only when the          *)
(* transaction has succeeded in a block that will not be dropped.          *)
ConfirmedIsExecuted ==
    outcome = "confirmed" => status \in {"confirmed", "finalized"} /\ ~err

(* Liveness.  The call ends, whatever the cluster does: with blocks that do*)
(* not come, the tries run out.                                            *)
CallEnds == <>(outcome # "pending")
=============================================================================
