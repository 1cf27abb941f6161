----------------------------- MODULE Send_proofs -----------------------------
(***************************************************************************)
(* For every validity of blockhashes, number of tries and length of run:   *)
(* a call that reports success has succeeded for good, and one that reports*)
(* a timeout leaves a transaction that will not be executed any more.      *)
(***************************************************************************)
EXTENDS Send, TLAPS

\* No block from here on takes the transaction.
Expired == height >= blockhash + Validity + 1

\* Besides the types and ConfirmedIsExecuted: a try that is under way is
\* within the bound; the blockhash is not newer than the chain; the time to
\* live reaches past the last block that takes the transaction, and so does
\* a timeout that was reported.
SendInv ==
    /\ SendTypeOK
    /\ ConfirmedIsExecuted
    /\ pc \in {"send", "status"} => tries < NumTry
    /\ pc = "height" => blockhash <= height
    /\ pc \in {"check", "send", "status", "done"} =>
         transactionTTL >= blockhash + Validity + 1
    /\ outcome = "ONCHAIN_TIMEOUT" => pc = "done" /\ Expired

\* One step of the call, of the cluster, or of nobody keeps the invariant.
LEMMA SendStep == SendInv /\ [SendNext]_vars => SendInv'
<1>1. SUFFICES ASSUME SendInv, [SendNext]_vars PROVE SendInv'
  OBVIOUS
<1>2. Validity \in Nat /\ NumTry \in Nat /\ MaxHeight \in Nat
  BY SendAssumption
<1> USE <1>1, <1>2 DEF SendInv, SendTypeOK, ConfirmedIsExecuted, Expired, Status
<1>3. CASE GetLatestBlockhash
  BY <1>3 DEF GetLatestBlockhash, chain
<1>4. CASE GetBlockHeight
  BY <1>4 DEF GetBlockHeight, TTL, chain
<1>5. CASE CheckTTL
  BY <1>5 DEF CheckTTL, TriesLeft, End, chain
<1>6. CASE SendRawTransaction
  BY <1>6 DEF SendRawTransaction, End, chain
<1>7. CASE GetSignatureStatus
  <2>1. CASE pc' = "done"
    BY <1>7, <2>1 DEF GetSignatureStatus, SeenConfirmed, NextTry, End, chain
  <2>2. CASE pc' = "check" /\ tries' = NextTry
    BY <1>7, <2>2 DEF GetSignatureStatus, SeenConfirmed, NextTry, End, chain
  <2> QED
    BY <1>7, <2>1, <2>2 DEF GetSignatureStatus, End
<1>8. CASE NextBlock
  BY <1>8 DEF NextBlock, call
<1>9. CASE Execute
  BY <1>9 DEF Execute, Acceptable, call
<1>10. CASE Drop
  BY <1>10 DEF Drop, call
<1>11. CASE Vote
  BY <1>11 DEF Vote, call
<1>12. CASE UNCHANGED vars
  BY <1>12 DEF vars, call, chain
<1> QED
  BY <1>3, <1>4, <1>5, <1>6, <1>7, <1>8, <1>9, <1>10, <1>11, <1>12
     DEF SendNext, Call, Cluster, Stop

(* The invariant holds in every reachable state.                           *)
LEMMA SendInvariant == SendSpec => []SendInv
<1>1. SendInit => SendInv
  <2>1. 0 \in 0..MaxHeight /\ 0 \in 0..NumTry
    BY SendAssumption
  <2>2. SendInit => SendTypeOK
    <3>1. SUFFICES ASSUME SendInit PROVE SendTypeOK
      OBVIOUS
    <3>2. skipPreflight \in BOOLEAN /\ sent \in BOOLEAN /\ err \in BOOLEAN
      BY <3>1, Zenon DEF SendInit
    <3>3. height = 0 /\ blockhash = 0 /\ transactionTTL = 0 /\ tries = 0
      BY <3>1 DEF SendInit
    <3>4. status = "none" /\ outcome = "pending" /\ pc = "hash"
      BY <3>1 DEF SendInit
    <3> QED
      BY <2>1, <3>2, <3>3, <3>4 DEF SendTypeOK, Status
  <2>3. SendInit => pc = "hash" /\ outcome = "pending"
    BY DEF SendInit
  <2> QED
    BY <2>2, <2>3 DEF SendInv, ConfirmedIsExecuted
<1> QED
  BY <1>1, SendStep, PTL DEF SendSpec

(* Every variable keeps its type; in particular no more than NumTry tries  *)
(* are ever begun.                                                         *)
THEOREM SendTypeCorrect == SendSpec => []SendTypeOK
<1>1. SendInv => SendTypeOK
  BY DEF SendInv
<1> QED
  BY <1>1, SendInvariant, PTL

(* A call that returns because it has seen its transaction confirmed: the  *)
(* transaction has succeeded, in a block that stays.                       *)
THEOREM SuccessIsFinal == SendSpec => []ConfirmedIsExecuted
<1>1. SendInv => ConfirmedIsExecuted
  BY DEF SendInv
<1> QED
  BY <1>1, SendInvariant, PTL

(* After ONCHAIN_TIMEOUT a transaction that has not been executed is never *)
(* executed, whatever copies of it are still under way.                    *)
THEOREM TimeoutStands == SendSpec => TimeoutIsFinal
<1>1. SendInv /\ [SendNext]_vars
        => [outcome = "ONCHAIN_TIMEOUT" /\ status = "none" => status' = "none"]_vars
  <2>1. SUFFICES ASSUME SendInv, SendNext, outcome = "ONCHAIN_TIMEOUT", status = "none"
                 PROVE  status' = "none"
    BY DEF vars
  <2>2. Validity \in Nat /\ height \in Nat /\ blockhash \in Nat
    BY <2>1, SendAssumption DEF SendInv, SendTypeOK
  <2>3. ~Acceptable /\ pc = "done"
    BY <2>1, <2>2 DEF SendInv, Expired, Acceptable
  <2>4. CASE Call
    BY <2>3, <2>4 DEF Call, GetLatestBlockhash, GetBlockHeight, CheckTTL, SendRawTransaction,
                      GetSignatureStatus
  <2>5. CASE Cluster
    BY <2>1, <2>3, <2>5 DEF Cluster, NextBlock, Execute, Drop, Vote
  <2>6. CASE Stop
    BY <2>1, <2>6 DEF Stop, vars, chain
  <2> QED
    BY <2>1, <2>4, <2>5, <2>6 DEF SendNext
<1> QED
  BY <1>1, SendInvariant, PTL DEF SendSpec, TimeoutIsFinal
=============================================================================
