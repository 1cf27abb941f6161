------------------------------- MODULE Presign -------------------------------
(***************************************************************************)
(* Settlement in advance.  The depositor signs the settlement of an open   *)
(* trade with its ephemeral key, over the value of the durable nonce that  *)
(* the trade's nonce account holds; the mpc verifies the presign, keeps    *)
(* it, and signs and sends it later, perhaps several times.  The runtime   *)
(* takes it only while the nonce has that value, and then advances the     *)
(* nonce whether the settlement succeeds or not.  All the while trades are *)
(* claimed, closed and made again, with the same trade id and keys.        *)
(***************************************************************************)
EXTENDS Client

CONSTANTS
    PresignPmms,   \* bound: the pmms for which depositors sign
    AgreedPmm,     \* the pmm whom the mpc is to pay
    MaxPresigns,   \* bound: how many presigns are made
    MaxEpoch       \* bound: trades and nonce values made in a run

\* What depositors sign is within the bounds of the handlers.
ASSUME PresignBounds == PresignPmms \subseteq Pmms

VARIABLES
    epoch,       \* counts trades and nonce values, so that each is new
    nonceValue,  \* ephemeral key -> the value its nonce account holds
    deposits,    \* history: trade id -> the epoch of its last deposit
    kept,        \* what of these the transaction under way may give back
    signing,     \* the depositor's build under way, or None
    presigns,    \* what depositors have signed
    verifying,   \* the mpc's verification under way, or None
    verified     \* what the mpc has verified and keeps

nonceVars   == <<epoch, nonceValue, deposits, kept>>
presignVars == <<signing, presigns, verifying, verified>>
allPresign  == <<allClient, nonceVars, presignVars>>

-----------------------------------------------------------------------------
(* createUserPresignSettlementTransaction: reads the trade for the accounts*)
(* of the settlement, then the nonce account for its value.                *)

SettlementIx(t, d, mpc, e, pmm) ==
    Head(CreateSettlement([trade |-> t, mpc |-> mpc, ephemeral |-> e, pmm |-> pmm], <<d>>))

StartSigning(t, pmm) ==
    /\ running = None /\ signing = None
    /\ Cardinality(presigns) < MaxPresigns
    /\ Exists(t)
    /\ signing' = [ix |-> SettlementIx(t, tradeDetail[t], tradeDetail[t].mpc,
                                       tradeDetail[t].eph, pmm)]
    /\ UNCHANGED <<allClient, nonceVars, presigns, verifying, verified>>

\* Without a nonce account there is no presign: nonceAccountInfo is null.
Sign ==
    /\ running = None /\ signing # None
    /\ LET ix == signing.ix
       IN  presigns' = IF ix.ephemeral \notin nonceAccount THEN presigns
                       ELSE presigns \cup {[ix |-> ix, nonce |-> nonceValue[ix.ephemeral],
                                            during |-> deposits[ix.trade]]}
    /\ signing' = None
    /\ UNCHANGED <<allClient, nonceVars, verifying, verified>>

-----------------------------------------------------------------------------
(* verifyPresignSettlement: reads the trade, compares the mpc, rebuilds the*)
(* settlement from a second read of the trade and from the value of the    *)
(* nonce, and asks whether that is what the ephemeral key has signed.      *)

StartVerifying(p) ==
    /\ running = None /\ verifying = None
    /\ p \notin {v.presign : v \in verified}
    /\ Exists(p.ix.trade)
    /\ LET d == tradeDetail[p.ix.trade]
       IN  verifying' = IF p.ix.signer # d.mpc THEN None
                        ELSE [presign |-> p, mpc |-> d.mpc, eph |-> d.eph, ix |-> None,
                              during |-> deposits[p.ix.trade]]
    /\ UNCHANGED <<allClient, nonceVars, signing, presigns, verified>>

Rebuild ==
    /\ running = None /\ verifying # None /\ verifying.ix = None
    /\ LET t == verifying.presign.ix.trade
       IN  verifying' = IF ~Exists(t) THEN None
                        ELSE [verifying EXCEPT !.ix =
                                SettlementIx(t, tradeDetail[t], verifying.mpc, verifying.eph,
                                             AgreedPmm)]
    /\ UNCHANGED <<allClient, nonceVars, signing, presigns, verified>>

\* Mistaken variant: that the ephemeral key has signed something is enough.
SameMessageAnySigned(v) == v.presign.ix.ephemeral = v.eph

SameMessage(v) ==
    v.presign.ix = v.ix /\ v.presign.nonce = nonceValue[v.eph]

FinishVerifying ==
    /\ running = None /\ verifying # None /\ verifying.ix # None
    /\ verified' = IF verifying.eph \in nonceAccount /\ SameMessage(verifying)
                   THEN verified \cup {[presign |-> verifying.presign,
                                        during |-> verifying.during]}
                   ELSE verified
    /\ verifying' = None
    /\ UNCHANGED <<allClient, nonceVars, signing, presigns>>

-----------------------------------------------------------------------------
(* Delivery of what the mpc has signed and sent, early, late or again.     *)

Current(p) ==
    LET e == p.ix.ephemeral IN e \in nonceAccount /\ nonceValue[e] = p.nonce

Advance(e) ==
    /\ epoch < MaxEpoch
    /\ epoch' = epoch + 1
    /\ nonceValue' = [nonceValue EXCEPT ![e] = epoch + 1]
    /\ UNCHANGED <<deposits, kept>>

Delivered(v) ==
    /\ running = None
    /\ Current(v.presign)
    /\ Advance(v.presign.ix.ephemeral)
    /\ UNCHANGED <<jobs, running, presignVars>>

Settle(v) == Delivered(v) /\ Execute(v.presign.ix)

Refused(ix) == ~ENABLED Execute(ix)

\* The settlement fails, and the nonce is advanced all the same.
Burn(v) == Delivered(v) /\ Refused(v.presign.ix) /\ UNCHANGED chain

-----------------------------------------------------------------------------
(* The transactions of the clients, and what they do to nonces.            *)

Opened == {t \in TradeIds : tradeDetail[t] = None /\ tradeDetail'[t] # None}
Renewed == nonceAccount' \ nonceAccount

Begin ==
    /\ kept' = [nonceValue |-> nonceValue, deposits |-> deposits]
    /\ UNCHANGED <<epoch, nonceValue, deposits>>

Follow ==
    /\ epoch' = IF Opened = {} /\ Renewed = {} THEN epoch ELSE epoch + 1
    /\ nonceValue' = [e \in DOMAIN nonceValue \cup Renewed |->
                        IF e \in Renewed THEN epoch' ELSE nonceValue[e]]
    /\ deposits' = [t \in TradeIds |-> IF t \in Opened THEN epoch' ELSE deposits[t]]
    /\ kept' = IF running' = None THEN None ELSE kept

GiveBack ==
    /\ nonceValue' = kept.nonceValue /\ deposits' = kept.deposits
    /\ kept' = None
    /\ UNCHANGED epoch

Deposits(c) == c.fn \in {"deposit", "deposit-only"}

Clients ==
    \/ (\E c \in Calls : Call(c) \/ Ask(c) \/ GiveUp(c)) /\ UNCHANGED nonceVars
    \/ (\E c \in Calls : Land(c) /\ (Deposits(c) => epoch + 2 <= MaxEpoch)) /\ Begin
    \/ ExecuteNext /\ Follow
    \/ Abort /\ GiveBack
    \/ Elsewhere /\ UNCHANGED nonceVars

PresignInit ==
    /\ ClientInit
    /\ epoch = 0
    /\ nonceValue = [e \in Ephemerals |-> 0]
    /\ deposits = [t \in TradeIds |-> 0]
    /\ kept = None
    /\ signing = None /\ presigns = {}
    /\ verifying = None /\ verified = {}

PresignNext ==
    \/ Clients /\ UNCHANGED presignVars
    \/ \E t \in TradeIds, pmm \in PresignPmms : StartSigning(t, pmm)
    \/ Sign
    \/ \E p \in presigns : StartVerifying(p)
    \/ Rebuild
    \/ FinishVerifying
    \/ \E v \in verified : Settle(v) \/ Burn(v)

PresignSpec == PresignInit /\ [][PresignNext]_allPresign

-----------------------------------------------------------------------------
(* Action property.  However late or often a presign is sent, it settles   *)
(* no other deposit than the one during which it was signed, although a    *)
(* later one may have the same trade id, ephemeral key and accounts.       *)
SettlesOwnDeposit ==
    [][\A v \in verified : Settle(v) => v.presign.during = deposits[v.presign.ix.trade]
      ]_allPresign

(* Action property.  A verified presign of a deposit does its work when it *)
(* is taken: it pays the agreed pmm.  It is spent in vain only after the   *)
(* timeout, once the trade is settled or closed, or for want of a token    *)
(* account that nobody keeps open for it.                                  *)
VerifiedSettles ==
    [][\A v \in verified :
         LET p == v.presign
             t == p.ix.trade
             owners == {VaultPda(t), AgreedPmm, ProtocolPda}
         IN  /\ Settle(v) => p.ix.pmm = AgreedPmm
             /\ Burn(v) /\ v.during = deposits[t] =>
                  \/ ~Open(t) \/ now > tradeDetail[t].timeout
                  \/ ~(TokenMetas(owners, p.ix.token) \subseteq atas)
      ]_allPresign
=============================================================================
