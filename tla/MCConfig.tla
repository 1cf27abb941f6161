------------------------------ MODULE MCConfig ------------------------------
(* Four wallets, so that the limit of three operators can be passed; two   *)
(* mints, so that the whitelist entry closed may be the wrong one.  The    *)
(* upgrade authority and one operator can pay, the other wallets are empty.*)
EXTENDS Config

CONSTANTS authority, alice, bob, carol, gold, wsol

MCWallets == {authority, alice, bob, carol}

MCRent == [kind \in RentKind |-> IF kind = "config" THEN 2 ELSE 1]

MCStart ==
    [lamports |-> [a \in Account |-> CASE a = authority -> 6 [] a = alice -> 2
                                       [] a = ReceiverPda(bob) -> 1
                                       [] OTHER -> 0],
     atas     |-> {},
     tokens   |-> [a \in TokenAccount |-> 0]]
=============================================================================
