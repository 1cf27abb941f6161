------------------------------- MODULE Escrow -------------------------------
(***************************************************************************)
(* What the vault of a trade promises, without accounts, rent, tokens or   *)
(* nonces: an amount is locked until a deadline, up to which it can only   *)
(* be paid out and after which it can only be refunded; it leaves exactly  *)
(* once and whole; strangers can only add to it; and what they added stays *)
(* until the finished escrow is released.                                  *)
(***************************************************************************)
EXTENDS Integers

CONSTANTS TradeIds, None

VARIABLES
    now,
    escrow   \* trade id -> [phase, due, deadline, held], None when there is none

Is(t, phase) == escrow[t] # None /\ escrow[t].phase = phase

\* Only the escrow of t changes, to whatever the conjuncts beside it say.
OnlyOf(t) == escrow' = [escrow EXCEPT ![t] = escrow'[t]] /\ UNCHANGED now

Init == escrow = [t \in TradeIds |-> None]

Lock(t) ==
    /\ escrow[t] = None
    /\ OnlyOf(t)
    /\ Is(t, "Deposited")'
    /\ escrow'[t].due > 0
    /\ escrow'[t].deadline >= now
    /\ escrow'[t].held >= escrow'[t].due

Leave(t, phase) ==
    /\ Is(t, "Deposited")
    /\ escrow' = [escrow EXCEPT ![t].phase = phase, ![t].held = @ - escrow[t].due]
    /\ UNCHANGED now

Pay(t)    == Leave(t, "Settled") /\ now <= escrow[t].deadline
Refund(t) == Leave(t, "Claimed") /\ now > escrow[t].deadline

Add(t) ==
    /\ escrow[t] # None /\ escrow'[t] # None
    /\ escrow' = [escrow EXCEPT ![t].held = escrow'[t].held]
    /\ escrow'[t].held > escrow[t].held
    /\ UNCHANGED now

Release(t) ==
    /\ Is(t, "Settled") \/ Is(t, "Claimed")
    /\ escrow' = [escrow EXCEPT ![t] = None]
    /\ UNCHANGED now

Clock == now' > now /\ UNCHANGED escrow

Next ==
    \/ Clock
    \/ \E t \in TradeIds : Lock(t) \/ Pay(t) \/ Refund(t) \/ Add(t) \/ Release(t)

Spec == Init /\ [][Next]_<<now, escrow>>
=============================================================================
