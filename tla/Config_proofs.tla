---------------------------- MODULE Config_proofs ----------------------------
(***************************************************************************)
(* First what all proofs rest on: sums over finite sets of accounts, the   *)
(* addresses, the balance operators of SolanaLedger and its steps.  Then   *)
(* what the configuration's instructions keep: the types, the limit on the *)
(* operators for which the config account is allocated, the rents, the     *)
(* vaults, and the sum of all balances.                                    *)
(***************************************************************************)
EXTENDS Deployment, FiniteSetTheorems, WellFoundedInduction, TLAPS

-----------------------------------------------------------------------------
(* Sums.  Induction is over sets, which the provers handle, and not over   *)
(* predicates: the theorem that the order of the naturals is well founded  *)
(* is all that is taken from the library.                                  *)

\* The order of the natural numbers as a set of pairs.
Below == {p \in Nat \X Nat : p[1] < p[2]}

(* Induction over the natural numbers, for a set instead of a predicate.   *)
LEMMA NatSetInduction ==
  ASSUME NEW G \in SUBSET Nat, 0 \in G, \A n \in G : n + 1 \in G
  PROVE  G = Nat
  <1> DEFINE Bad == Nat \ G
  <1>1. SUFFICES ASSUME Bad # {}
                 PROVE  FALSE
    OBVIOUS
  <1> HIDE DEF Bad
  <1>2. IsWellFoundedOn(Below, Nat)
    BY NatLessThanWellFounded DEF OpToRel, Below
  <1>3. PICK n \in Bad : \A k \in Bad : <<k, n>> \notin Below
    BY <1>1, <1>2, WFMin DEF Bad
  <1>4. n \in Nat /\ n # 0 /\ n \notin G
    BY <1>3 DEF Bad
  <1>5. n - 1 \in Nat /\ <<n - 1, n>> \in Below
    BY <1>4 DEF Below
  <1>6. n - 1 \in G
    BY <1>3, <1>5 DEF Bad
  <1> QED
    BY <1>4, <1>5, <1>6

(* Induction over the subsets of a finite set, for a set of them.          *)
LEMMA SubsetInduction ==
  ASSUME NEW S, IsFiniteSet(S), NEW G \in SUBSET SUBSET S,
         \A s \in SUBSET S : (\A x \in s : s \ {x} \in G) => s \in G
  PROVE  G = SUBSET S
  <1> DEFINE Small(n) == {s \in SUBSET S : Cardinality(s) <= n}
             N == {n \in Nat : Small(n) \subseteq G}
  <1>1. \A s \in SUBSET S : IsFiniteSet(s) /\ Cardinality(s) \in Nat
    BY FS_Subset, FS_CardinalityType
  <1>2. 0 \in N
    <2>1. ASSUME NEW s \in Small(0)
          PROVE  s \in G
      <3>1. s = {}
        BY <1>1, FS_EmptySet
      <3> QED  BY <3>1
    <2> QED  BY <2>1
  <1>3. ASSUME NEW n \in N
        PROVE  n + 1 \in N
    <2>1. ASSUME NEW s \in Small(n + 1)
          PROVE  s \in G
      <3>1. ASSUME NEW x \in s
            PROVE  s \ {x} \in G
        <4>1. Cardinality(s \ {x}) = Cardinality(s) - 1
          BY <1>1, FS_RemoveElement
        <4>2. s \ {x} \in Small(n)
          BY <1>1, <4>1
        <4> QED  BY <4>2
      <3> QED  BY <3>1
    <2> QED  BY <2>1
  <1>4. N = Nat
    <2> HIDE DEF N
    <2>1. N \in SUBSET Nat
      BY DEF N
    <2> QED BY <1>2, <1>3, <2>1, NatSetInduction
  <1>5. ASSUME NEW s \in SUBSET S
        PROVE  s \in G
    <2>1. Cardinality(s) \in N
      BY <1>1, <1>4
    <2>2. s \in Small(Cardinality(s))
      BY <1>1
    <2> QED  BY <2>1, <2>2
  <1> QED
    BY <1>5

-----------------------------------------------------------------------------
\* The element of s that the folds of the library begin with.
pick(s) == CHOOSE x \in s : TRUE

\* What the sum of f is computed from: the sums over all subsets of S.
IsSum(g, f, S) ==
    g = [s \in SUBSET S |-> IF s = {} THEN 0 ELSE f[pick(s)] + g[s \ {pick(s)}]]

(* There is such a function: step by step, for sets of more elements.      *)
LEMMA SumsExist ==
  ASSUME NEW A, NEW S \in SUBSET A, IsFiniteSet(S), NEW f \in [A -> Int]
  PROVE  \E g \in [SUBSET S -> Int] : IsSum(g, f, S)
  <1> DEFINE Next(g) == [s \in SUBSET S |->
                            IF s = {} THEN 0 ELSE f[pick(s)] + g[s \ {pick(s)}]]
             Upto(n, g) == \A s \in SUBSET S : Cardinality(s) <= n => g[s] = Next(g)[s]
             N == {n \in Nat : \E g \in [SUBSET S -> Int] : Upto(n, g)}
  <1>1. \A s \in SUBSET S : IsFiniteSet(s) /\ Cardinality(s) \in Nat
    BY FS_Subset, FS_CardinalityType
  <1>2. ASSUME NEW s \in SUBSET S, s # {}
        PROVE  /\ pick(s) \in s /\ f[pick(s)] \in Int
               /\ s \ {pick(s)} \in SUBSET S
               /\ Cardinality(s \ {pick(s)}) = Cardinality(s) - 1
    <2>1. pick(s) \in s
      BY <1>2 DEF pick
    <2> HIDE DEF pick
    <2>2. Cardinality(s \ {pick(s)}) = Cardinality(s) - 1
      BY <1>1, <2>1, FS_RemoveElement
    <2> QED  BY <2>1, <2>2
  <1> HIDE DEF pick
  <1>3. ASSUME NEW g \in [SUBSET S -> Int]
        PROVE  Next(g) \in [SUBSET S -> Int]
    <2>1. ASSUME NEW s \in SUBSET S
          PROVE  (IF s = {} THEN 0 ELSE f[pick(s)] + g[s \ {pick(s)}]) \in Int
      <3>1. CASE s = {}
        BY <3>1
      <3>2. CASE s # {}
        <4>1. g[s \ {pick(s)}] \in Int /\ f[pick(s)] \in Int
          BY <1>2, <3>2
        <4> QED  BY <3>2, <4>1
      <3> QED  BY <3>1, <3>2
    <2> QED  BY <2>1
  <1>4. 0 \in N
    <2> DEFINE zero == [s \in SUBSET S |-> 0]
    <2>1. zero \in [SUBSET S -> Int]
      OBVIOUS
    <2>2. \A s \in SUBSET S : Cardinality(s) <= 0 => s = {}
      BY <1>1, FS_EmptySet
    <2>3. Upto(0, zero)
      BY <2>2
    <2> QED  BY <2>1, <2>3
  <1>5. ASSUME NEW n \in N
        PROVE  n + 1 \in N
    <2>1. PICK g \in [SUBSET S -> Int] : Upto(n, g)
      OBVIOUS
    <2>2. ASSUME NEW s \in SUBSET S, Cardinality(s) <= n + 1
          PROVE  Next(g)[s] = Next(Next(g))[s]
      <3>1. CASE s = {}
        BY <3>1
      <3>2. CASE s # {}
        <4>1. /\ s \ {pick(s)} \in SUBSET S
              /\ Cardinality(s \ {pick(s)}) <= n
          BY <1>1, <1>2, <2>2, <3>2
        <4>2. g[s \ {pick(s)}] = Next(g)[s \ {pick(s)}]
          BY <2>1, <4>1
        <4> QED  BY <3>2, <4>2
      <3> QED  BY <3>1, <3>2
    <2>3. Upto(n + 1, Next(g))
      BY <2>2
    <2>4. n + 1 \in Nat
      OBVIOUS
    <2>5. Next(g) \in [SUBSET S -> Int]
      BY <1>3
    <2> HIDE DEF Upto, Next
    <2> QED  BY <2>3, <2>4, <2>5
  <1>6. N = Nat
    <2> HIDE DEF N
    <2>1. N \in SUBSET Nat
      BY DEF N
    <2> QED  BY <1>4, <1>5, <2>1, NatSetInduction
  <1>7. PICK g \in [SUBSET S -> Int] : Upto(Cardinality(S), g)
    BY <1>1, <1>6
  <1>8. \A s \in SUBSET S : Cardinality(s) <= Cardinality(S)
    BY FS_Subset
  <1>9. g = Next(g)
    BY <1>7, <1>8
  <1> QED
    BY <1>9 DEF IsSum

(* So SumFunctionOnSet, which chooses one, is its value.                   *)
LEMMA SumIs ==
  ASSUME NEW A, NEW S \in SUBSET A, IsFiniteSet(S), NEW f \in [A -> Int]
  PROVE  \E g : IsSum(g, f, S) /\ SumFunctionOnSet(f, S) = g[S]
  <1> DEFINE k == CHOOSE g : IsSum(g, f, S)
  <1>1. PICK h : IsSum(h, f, S)
    BY SumsExist
  <1>2. IsSum(k, f, S)
    BY <1>1, Zenon
  <1>3. SumFunctionOnSet(f, S) = k[S]
    BY DEF IsSum, SumFunctionOnSet, FoldFunctionOnSet, MapThenFoldSet, pick
  <1> QED
    BY <1>2, <1>3

(* Sums that are computed in the same order differ by what the functions   *)
(* differ by, here in one place.                                           *)
LEMMA SumsDiffer ==
  ASSUME NEW A, NEW S \in SUBSET A, IsFiniteSet(S), NEW f \in [A -> Int], NEW h \in [A -> Int],
         NEW x \in A, \A a \in A \ {x} : h[a] = f[a],
         NEW g, NEW k, IsSum(g, f, S), IsSum(k, h, S)
  PROVE  \A s \in SUBSET S : /\ g[s] \in Int
                             /\ k[s] = g[s] + IF x \in s THEN h[x] - f[x] ELSE 0
  <1> DEFINE Differ(s) == /\ g[s] \in Int
                          /\ k[s] = g[s] + IF x \in s THEN h[x] - f[x] ELSE 0
             G == {s \in SUBSET S : Differ(s)}
  <1>1. ASSUME NEW s \in SUBSET S, \A y \in s : s \ {y} \in G
        PROVE  s \in G
    <2>1. CASE s = {}
      BY <2>1 DEF IsSum
    <2>2. CASE s # {}
      <3> DEFINE p == pick(s)
                 r == s \ {p}
      <3>1. p \in s /\ p \in A
        BY <2>2 DEF pick
      <3>2. /\ g[s] = f[p] + g[r]
            /\ k[s] = h[p] + k[r]
        BY <2>2 DEF IsSum
      <3>3. Differ(r)
        BY <1>1, <3>1
      <3> HIDE DEF p
      <3>4. CASE p = x
        <4>1. k[r] = g[r] + 0 /\ g[r] \in Int
          BY <3>3, <3>4
        <4> QED  BY <3>1, <3>2, <3>4, <4>1
      <3>5. CASE p # x
        <4>1. h[p] = f[p] /\ (x \in r <=> x \in s)
          BY <3>1, <3>5
        <4>2. f[p] \in Int /\ f[x] \in Int /\ h[x] \in Int
          BY <3>1
        <4> HIDE DEF r
        <4> QED  BY <3>2, <3>3, <4>1, <4>2
      <3> QED  BY <3>4, <3>5
    <2> QED  BY <2>1, <2>2
  <1> HIDE DEF Differ
  <1>2. G = SUBSET S
    <2> HIDE DEF G
    <2>1. G \in SUBSET SUBSET S
      BY DEF G
    <2> QED BY <1>1, <2>1, SubsetInduction
  <1> QED  BY <1>2 DEF Differ

(* Changing one summand changes the sum by as much.                        *)
LEMMA SumUpdate ==
  ASSUME NEW A, NEW S \in SUBSET A, IsFiniteSet(S), NEW f \in [A -> Int], NEW h \in [A -> Int],
         NEW x \in A, \A a \in A \ {x} : h[a] = f[a]
  PROVE  /\ SumFunctionOnSet(f, S) \in Int
         /\ SumFunctionOnSet(h, S) =
              SumFunctionOnSet(f, S) + IF x \in S THEN h[x] - f[x] ELSE 0
  BY SumIs, SumsDiffer

(* A sum of zeros.                                                         *)
LEMMA SumOfZeros ==
  ASSUME NEW A, NEW S \in SUBSET A, IsFiniteSet(S), NEW f \in [A -> Int],
         \A x \in S : f[x] = 0
  PROVE  SumFunctionOnSet(f, S) = 0
  <1>1. PICK g : IsSum(g, f, S) /\ SumFunctionOnSet(f, S) = g[S]
    BY SumIs
  <1> DEFINE G == {s \in SUBSET S : g[s] = 0}
  <1>2. ASSUME NEW s \in SUBSET S, \A y \in s : s \ {y} \in G
        PROVE  s \in G
    <2>1. CASE s = {}
      BY <1>1, <2>1 DEF IsSum
    <2>2. CASE s # {}
      <3> DEFINE p == pick(s)
      <3>1. p \in s /\ f[p] = 0
        BY <2>2 DEF pick
      <3>2. g[s] = f[p] + g[s \ {p}]
        BY <1>1, <2>2 DEF IsSum
      <3> HIDE DEF p
      <3> QED  BY <1>2, <3>1, <3>2
    <2> QED  BY <2>1, <2>2
  <1>3. G = SUBSET S
    <2> HIDE DEF G
    <2>1. G \in SUBSET SUBSET S
      BY DEF G
    <2> QED BY <1>2, <2>1, SubsetInduction
  <1> QED
    BY <1>1, <1>3

-----------------------------------------------------------------------------
(* The ledger: addresses, balances, and the steps of outsiders.            *)


\* The amounts of the lemmas below.  The name is kept hidden in proofs, so that
\* the solver matches an amount that is the value of a record or a function.
Amount == Int

(* Where the addresses of the program lie.                                 *)
LEMMA Addresses ==
    /\ Wallets \subseteq Account
    /\ Ephemerals \subseteq Account
    /\ TokenAccount \subseteq Account
    /\ Wallets \subseteq Recipient
    /\ Recipient \subseteq Account
    /\ Recipient \subseteq Owner
    /\ {ConfigPda, ProtocolPda, LegacyVaultPda} \subseteq Account
    /\ \A t \in TradeIds : TradePda(t) \in Account /\ VaultPda(t) \in Account
                             /\ VaultPda(t) \in Owner
    /\ \A e \in Ephemerals : NoncePda(e) \in Account
    /\ \A m \in Mints : WhitelistPda(m) \in Account
    /\ \A k \in Wallets : ReceiverPda(k) \in Account
    /\ \A o \in Owner, m \in Mints : Ata(o, m) \in TokenAccount
  BY DEF Account, Recipient, Owner, Pda, TokenAccount

(* A key pair is no PDA and no token account.                              *)
LEMMA KeysApart ==
    /\ \A k \in Wallets : k \notin Ephemerals
    /\ \A k \in Wallets \cup Ephemerals :
         /\ k \notin TokenAccount
         /\ k \notin {ConfigPda, ProtocolPda, LegacyVaultPda}
         /\ \A t \in TradeIds : k # TradePda(t) /\ k # VaultPda(t)
         /\ \A e \in Ephemerals : k # NoncePda(e)
         /\ \A m \in Mints : k # WhitelistPda(m)
         /\ \A w \in Wallets : k # ReceiverPda(w)
  BY KeysAssumption DEF Pda

(* PDAs of different seeds are different accounts.                         *)
LEMMA PdasApart ==
    /\ LegacyVaultPda # ProtocolPda /\ LegacyVaultPda # ConfigPda /\ ProtocolPda # ConfigPda
    /\ \A t, u : /\ TradePda(t) = TradePda(u) => t = u
                 /\ VaultPda(t) = VaultPda(u) => t = u
                 /\ NoncePda(t) = NoncePda(u) => t = u
                 /\ TradePda(t) # VaultPda(u)
                 /\ TradePda(t) # NoncePda(u)
                 /\ VaultPda(t) # NoncePda(u)
  <1>1. LegacyVaultPda # ProtocolPda /\ LegacyVaultPda # ConfigPda /\ ProtocolPda # ConfigPda
    BY DEF LegacyVaultPda, ProtocolPda, ConfigPda
  <1>2. ASSUME NEW t, NEW u
        PROVE  /\ TradePda(t) = TradePda(u) => t = u
               /\ VaultPda(t) = VaultPda(u) => t = u
               /\ NoncePda(t) = NoncePda(u) => t = u
    BY DEF TradePda, VaultPda, NoncePda
  <1>3. \A t, u : TradePda(t) # VaultPda(u)
    BY DEF TradePda, VaultPda
  <1>4. \A t, u : TradePda(t) # NoncePda(u)
    BY DEF TradePda, NoncePda
  <1>5. \A t, u : VaultPda(t) # NoncePda(u)
    BY DEF VaultPda, NoncePda
  <1> QED
    BY <1>1, <1>2, <1>3, <1>4, <1>5

(* The vault of a trade is none of the accounts that the configuration's   *)
(* instructions and the ledger's own rules take lamports from.             *)
LEMMA VaultApart ==
  ASSUME NEW t \in TradeIds
  PROVE  /\ VaultPda(t) \notin Recipient
         /\ VaultPda(t) \notin TokenAccount
         /\ VaultPda(t) # ConfigPda /\ VaultPda(t) # LegacyVaultPda
         /\ \A m : VaultPda(t) # WhitelistPda(m)
         /\ \A k : VaultPda(t) # ReceiverPda(k)
  <1>1. VaultPda(t) # ProtocolPda
    BY DEF VaultPda, ProtocolPda
  <1>2. VaultPda(t) \notin Recipient
    BY <1>1, KeysApart DEF Recipient
  <1>3. VaultPda(t) # ConfigPda /\ VaultPda(t) # LegacyVaultPda
    BY DEF VaultPda, ConfigPda, LegacyVaultPda
  <1>4. \A o, m : VaultPda(t) # Ata(o, m)
    BY DEF VaultPda, Ata
  <1>5. \A m : VaultPda(t) # WhitelistPda(m)
    BY DEF VaultPda, WhitelistPda
  <1>6. \A k : VaultPda(t) # ReceiverPda(k)
    BY DEF VaultPda, ReceiverPda
  <1> QED
    BY <1>2, <1>3, <1>4, <1>5, <1>6 DEF TokenAccount

(* Different owners or mints have different token accounts.                *)
LEMMA AtasApart == \A o, p, m, n : Ata(o, m) = Ata(p, n) => o = p /\ m = n
  BY DEF Ata

-----------------------------------------------------------------------------
(* Move takes n from one entry and adds it to another.                     *)
LEMMA MoveFacts ==
  \A S : \A bal \in [S -> Int], from, to \in S, n \in Amount :
    /\ Move(bal, from, to, n) \in [S -> Int]
    /\ from # to => /\ Move(bal, from, to, n)[from] = bal[from] - n
                    /\ Move(bal, from, to, n)[to] = bal[to] + n
    /\ from = to => Move(bal, from, to, n)[to] = bal[to]
    /\ \A x \in S \ {from, to} : Move(bal, from, to, n)[x] = bal[x]
  BY DEF Move, Amount

(* Fund takes from the payer only, and leaves at least the minimum.        *)
LEMMA FundFacts ==
  \A S : \A bal \in [S -> Int], payer, a \in S, min \in Amount : payer # a =>
    /\ Fund(bal, payer, a, min) \in [S -> Int]
    /\ Fund(bal, payer, a, min)[a] >= min
    /\ \A x \in S \ {payer} : Fund(bal, payer, a, min)[x] >= bal[x]
    /\ \A x \in S \ {payer, a} : Fund(bal, payer, a, min)[x] = bal[x]
  BY DEF Fund, Move, Amount

(* Drain empties one account into another.                                 *)
LEMMA DrainFacts ==
  \A S : \A bal \in [S -> Int], a, to \in S : a # to =>
    /\ Drain(bal, a, to) \in [S -> Int]
    /\ Drain(bal, a, to)[a] = 0
    /\ Drain(bal, a, to)[to] = bal[to] + bal[a]
    /\ \A x \in S \ {a, to} : Drain(bal, a, to)[x] = bal[x]
  BY DEF Drain, Move

(* Draining keeps balances natural, and takes from the drained account     *)
(* only.                                                                   *)
LEMMA DrainNat ==
  \A S : \A bal \in [S -> Nat], a, to \in S : a # to =>
    /\ Drain(bal, a, to) \in [S -> Nat]
    /\ \A x \in S \ {a} : Drain(bal, a, to)[x] >= bal[x]
  BY DEF Drain, Move

(* If nobody but a payer that can afford it has lost anything, then no     *)
(* balance is overdrawn.                                                   *)
LEMMA OnlyPayerPays ==
  \A S : \A old \in [S -> Nat], new \in [S -> Int], payer \in S :
    Afforded(new, payer) /\ (\A x \in S \ {payer} : new[x] >= old[x])
      => new \in [S -> Nat]
  BY DEF Afforded

(* A rent-exempt minimum is an amount.                                     *)
LEMMA Rents ==
    /\ \A kind \in RentKind : Rent[kind] \in Amount /\ Rent[kind] \in Nat
    /\ {"wallet", "config", "trade", "vault", "nonce", "whitelist", "receiver", "ata",
        "durable"} \subseteq RentKind
  BY LedgerAssumption DEF Amount, RentKind

(* A token transfer, with or without a fee, overdraws nothing and takes    *)
(* from the sender's account only.                                         *)
LEMMA SplTransferFacts ==
  ASSUME NEW bal \in [TokenAccount -> Nat], NEW from \in Owner, NEW to \in Owner,
         NEW m \in Mints, NEW n \in Amount, n >= 0,
         NEW fee, fee # None => fee \in Amount /\ fee >= 0,
         SplTransferOk(bal, from, to, m, n, fee)
  PROVE  /\ SplTransfer(bal, from, to, m, n, fee) \in [TokenAccount -> Nat]
         /\ \A a \in TokenAccount \ {Ata(from, m)} :
              SplTransfer(bal, from, to, m, n, fee)[a] >= bal[a]
         /\ from # to =>
              SplTransfer(bal, from, to, m, n, fee)[Ata(to, m)] >= bal[Ata(to, m)] + n
         /\ {Ata(from, m), Ata(to, m)} \subseteq atas
  <1> DEFINE src  == Ata(from, m)
             dst  == Ata(to, m)
             fees == Ata(ProtocolPda, m)
             paid == Move(bal, src, dst, n)
  <1>1. src \in TokenAccount /\ dst \in TokenAccount /\ fees \in TokenAccount
    BY Addresses DEF Recipient
  <1>2. n \in Int /\ bal \in [TokenAccount -> Int] /\ bal[src] >= n
    <2>1. n \in Int
      BY DEF Amount
    <2>2. bal[src] >= n
      BY DEF SplTransferOk
    <2>3. bal \in [TokenAccount -> Int]
      OBVIOUS
    <2> QED  BY <2>1, <2>2, <2>3
  <1>3. /\ paid \in [TokenAccount -> Int]
        /\ paid[src] >= 0
        /\ \A a \in TokenAccount \ {src} : paid[a] >= bal[a]
        /\ src # dst => paid[dst] = bal[dst] + n
    <2> HIDE DEF src, dst
    <2>1. bal[src] \in Nat /\ bal[dst] \in Nat
      BY <1>1
    <2>2. CASE src = dst
      BY <1>1, <1>2, <2>1, <2>2, MoveFacts
    <2>3. CASE src # dst
      BY <1>1, <1>2, <2>1, <2>3, MoveFacts
    <2> QED  BY <2>2, <2>3
  <1>4. /\ \A a \in TokenAccount : paid[a] >= 0
        /\ paid \in [TokenAccount -> Nat]
    <2> HIDE DEF paid, src
    <2>1. \A a \in TokenAccount : paid[a] >= 0
      BY <1>3
    <2> QED  BY <1>3, <2>1
  <1>5. from # to => src # dst
    BY AtasApart
  <1>6. {src, dst} \subseteq atas
    BY DEF SplTransferOk
  <1>7. CASE fee = None
    <2>1. SplTransfer(bal, from, to, m, n, fee) = paid
      BY <1>7 DEF SplTransfer
    <2> HIDE DEF paid, src, dst
    <2>2. paid[dst] >= bal[dst] + n  \/ src = dst
      BY <1>1, <1>2, <1>3
    <2> QED  BY <1>3, <1>4, <1>5, <1>6, <2>1, <2>2 DEF src, dst
  <1>8. CASE fee # None
    <2> DEFINE both == Move(paid, src, fees, fee)
    <2>1. /\ SplTransfer(bal, from, to, m, n, fee) = both
          /\ SplTransfer(bal, from, to, m, n, None) = paid
      BY <1>8 DEF SplTransfer
    <2>2. fee \in Int /\ fee >= 0 /\ paid[src] >= fee
      BY <1>8, <2>1 DEF SplTransferOk, Amount
    <2> HIDE DEF paid, src, dst, fees
    <2>3. /\ both \in [TokenAccount -> Nat]
          /\ \A a \in TokenAccount \ {src} : both[a] >= paid[a]
      BY <1>1, <1>4, <2>2 DEF Move
    <2> HIDE DEF both
    <2>4. \A a \in TokenAccount \ {src} : both[a] >= bal[a]
      BY <1>3, <1>4, <2>3
    <2>5. both[dst] >= bal[dst] + n \/ src = dst
      BY <1>1, <1>2, <1>3, <1>4, <2>3
    <2> QED  BY <1>5, <1>6, <2>1, <2>3, <2>4, <2>5 DEF src, dst
  <1> QED
    BY <1>7, <1>8

-----------------------------------------------------------------------------
\* A step takes nothing from the vault of t, neither lamports nor tokens.
VaultKept(t) ==
    /\ lamports'[VaultPda(t)] >= lamports[VaultPda(t)]
    /\ \A m \in Mints :
         /\ tokens'[Ata(VaultPda(t), m)] >= tokens[Ata(VaultPda(t), m)]
         /\ Ata(VaultPda(t), m) \in atas => Ata(VaultPda(t), m) \in atas'

(* What is left alone is kept.                                             *)
LEMMA LamportsKept ==
  ASSUME LedgerTypeOK, NEW t \in TradeIds, UNCHANGED <<atas, tokens>>,
         lamports'[VaultPda(t)] >= lamports[VaultPda(t)]
  PROVE  VaultKept(t)
  BY Addresses DEF LedgerTypeOK, VaultKept

\* The ledger's steps, whichever wallet pays for them.
AnyLedgerNext ==
    \/ LedgerNext
    \/ \E payer \in Wallets, o \in Owner, m \in Mints : CreateAta(payer, o, m)

(* The steps of the cluster and of outsiders keep the ledger's types, and  *)
(* take nothing from a vault, which signs none of them.                    *)
LEMMA LedgerStep ==
  ASSUME LedgerTypeOK, AnyLedgerNext
  PROVE  LedgerTypeOK' /\ \A t \in TradeIds : VaultKept(t)
  <1> USE DEF LedgerTypeOK
  <1>0. lamports \in [Account -> Int]
    OBVIOUS
  <1>1. CASE Tick
    <2>1. \A t \in TradeIds : VaultPda(t) \in Account
                                /\ \A m \in Mints : Ata(VaultPda(t), m) \in TokenAccount
      BY Addresses
    <2> QED  BY <1>1, <2>1, LedgerAssumption DEF Tick, VaultKept
  <1>2. ASSUME NEW payer \in Wallets, NEW o \in Owner, NEW m \in Mints, CreateAta(payer, o, m)
        PROVE  LedgerTypeOK' /\ \A t \in TradeIds : VaultKept(t)
    <2>1. /\ payer \in Wallets /\ payer \in Account
          /\ Ata(o, m) \in TokenAccount /\ Ata(o, m) \in Account /\ payer # Ata(o, m)
      BY LedgerAssumption, Addresses, KeysApart
    <2>2. /\ lamports' \in [Account -> Int]
          /\ \A x \in Account \ {payer} : lamports'[x] >= lamports[x]
      BY <1>0, <1>2, <2>1, FundFacts, Rents DEF CreateAta
    <2>3. lamports' \in [Account -> Nat]
      BY <1>2, <2>1, <2>2, OnlyPayerPays DEF CreateAta
    <2>4. atas' \subseteq TokenAccount /\ atas \subseteq atas' /\ UNCHANGED <<now, tokens>>
      BY <1>2, <2>1 DEF CreateAta
    <2>5. ASSUME NEW t \in TradeIds
          PROVE  VaultKept(t)
      <3>1. VaultPda(t) \in Account \ {payer}
        BY <2>1, Addresses, VaultApart DEF Recipient
      <3>2. \A n \in Mints : Ata(VaultPda(t), n) \in TokenAccount
        BY Addresses
      <3> QED  BY <2>2, <2>4, <3>1, <3>2 DEF VaultKept
    <2> QED  BY <2>3, <2>4, <2>5
  <1>3. ASSUME NEW o \in Wallets, NEW m \in Mints, CloseAta(o, m)
        PROVE  LedgerTypeOK' /\ \A t \in TradeIds : VaultKept(t)
    <2>1. /\ o \in Owner /\ o \in Account
          /\ Ata(o, m) \in TokenAccount /\ Ata(o, m) \in Account /\ o # Ata(o, m)
      BY Addresses, KeysApart
    <2>2. /\ lamports' \in [Account -> Nat]
          /\ \A x \in Account \ {Ata(o, m)} : lamports'[x] >= lamports[x]
      BY <1>3, <2>1, DrainNat DEF CloseAta
    <2>3. atas' = atas \ {Ata(o, m)} /\ UNCHANGED <<now, tokens>>
      BY <1>3 DEF CloseAta
    <2>4. ASSUME NEW t \in TradeIds
          PROVE  VaultKept(t)
      <3>1. VaultPda(t) \in Account \ {Ata(o, m)} /\ VaultPda(t) # o
        BY <2>1, Addresses, VaultApart DEF Recipient
      <3>2. \A n \in Mints : /\ Ata(VaultPda(t), n) \in TokenAccount
                             /\ Ata(VaultPda(t), n) # Ata(o, m)
        BY <3>1, Addresses, AtasApart
      <3> QED  BY <2>2, <2>3, <3>1, <3>2 DEF VaultKept
    <2> QED  BY <2>2, <2>3, <2>4
  <1>4. ASSUME NEW giver \in Givers, NEW a \in GiftTargets, NEW n \in Gifts,
               GiveLamports(giver, a, n)
        PROVE  LedgerTypeOK' /\ \A t \in TradeIds : VaultKept(t)
    <2>1. /\ giver \in Wallets /\ giver \in Account /\ a \in Account
          /\ n \in Nat /\ n \in Amount
      BY LedgerAssumption, Addresses DEF Amount
    <2>2. /\ lamports' \in [Account -> Int]
          /\ \A x \in Account \ {giver} : lamports'[x] >= lamports[x]
      BY <1>0, <1>4, <2>1 DEF GiveLamports, Move
    <2>3. lamports' \in [Account -> Nat]
      BY <1>4, <2>1, <2>2, OnlyPayerPays DEF GiveLamports
    <2>4. UNCHANGED <<now, atas, tokens>>
      BY <1>4 DEF GiveLamports
    <2>5. ASSUME NEW t \in TradeIds
          PROVE  VaultKept(t)
      <3>1. VaultPda(t) \in Account \ {giver}
        BY <2>1, Addresses, VaultApart DEF Recipient
      <3> QED  BY <2>2, <2>4, <3>1, LamportsKept
    <2> QED  BY <2>3, <2>4, <2>5
  <1>5. ASSUME NEW giver \in Givers, NEW o \in GiftTargets \cap Owner, NEW m \in Mints,
               NEW n \in Gifts, GiveTokens(giver, o, m, n)
        PROVE  LedgerTypeOK' /\ \A t \in TradeIds : VaultKept(t)
    <2>1. giver \in Wallets /\ giver \in Owner /\ n \in Amount /\ n >= 0
      BY LedgerAssumption, Addresses DEF Amount
    <2>2. /\ tokens' \in [TokenAccount -> Nat]
          /\ \A a \in TokenAccount \ {Ata(giver, m)} : tokens'[a] >= tokens[a]
      BY <1>5, <2>1, SplTransferFacts DEF GiveTokens
    <2>3. UNCHANGED <<now, atas, lamports>>
      BY <1>5 DEF GiveTokens
    <2>4. ASSUME NEW t \in TradeIds
          PROVE  VaultKept(t)
      <3>1. VaultPda(t) \in Account /\ VaultPda(t) # giver
        BY <2>1, Addresses, VaultApart DEF Recipient
      <3>2. \A k \in Mints : Ata(VaultPda(t), k) \in TokenAccount \ {Ata(giver, m)}
        BY <3>1, Addresses, AtasApart
      <3> QED  BY <2>2, <2>3, <3>1, <3>2 DEF VaultKept
    <2> QED  BY <2>2, <2>3, <2>4
  <1> QED
    BY <1>1, <1>2, <1>3, <1>4, <1>5, LedgerAssumption DEF AnyLedgerNext, LedgerNext

-----------------------------------------------------------------------------
\* The balances bal and after of the accounts A add up to the same over S.
SameSum(A, S, bal, after) ==
    /\ after \in [A -> Int]
    /\ SumFunctionOnSet(after, S) = SumFunctionOnSet(bal, S)

(* One step after another.                                                 *)
LEMMA SameSumTwice ==
  ASSUME NEW A, NEW S, NEW bal, NEW between, NEW after,
         SameSum(A, S, bal, between), SameSum(A, S, between, after)
  PROVE  SameSum(A, S, bal, after)
  BY DEF SameSum

(* A move within the accounts of a sum, or outside of them, leaves the sum *)
(* as it is.                                                               *)
LEMMA MoveSum ==
  ASSUME NEW A, NEW S \in SUBSET A, IsFiniteSet(S), NEW bal \in [A -> Int],
         NEW from \in A, NEW to \in A, from \in S <=> to \in S, NEW n \in Int
  PROVE  SameSum(A, S, bal, Move(bal, from, to, n))
  <1> DEFINE taken == [bal EXCEPT ![from] = @ - n]
             moved == [taken EXCEPT ![to] = @ + n]
  <1>1. /\ taken \in [A -> Int] /\ taken[from] - bal[from] = 0 - n
        /\ \A a \in A \ {from} : taken[a] = bal[a]
    OBVIOUS
  <1>2. /\ SumFunctionOnSet(bal, S) \in Int
        /\ SumFunctionOnSet(taken, S) =
             SumFunctionOnSet(bal, S) + IF from \in S THEN 0 - n ELSE 0
    <2> HIDE DEF taken
    <2> QED  BY <1>1, SumUpdate
  <1>3. /\ moved \in [A -> Int] /\ moved[to] - taken[to] = n
        /\ \A a \in A \ {to} : moved[a] = taken[a]
    <2> HIDE DEF taken
    <2> QED  BY <1>1
  <1>4. SumFunctionOnSet(moved, S) = SumFunctionOnSet(taken, S) + IF to \in S THEN n ELSE 0
    <2> HIDE DEF taken, moved
    <2> QED  BY <1>1, <1>3, SumUpdate
  <1>5. Move(bal, from, to, n) = moved
    BY DEF Move
  <1> HIDE DEF taken, moved
  <1> QED
    BY <1>2, <1>3, <1>4, <1>5 DEF SameSum

(* Opening and closing accounts are moves.                                 *)
LEMMA FundSum ==
  ASSUME NEW A, IsFiniteSet(A), NEW bal \in [A -> Int],
         NEW payer \in A, NEW a \in A, NEW min \in Int
  PROVE  SameSum(A, A, bal, Fund(bal, payer, a, min))
  <1> DEFINE n == IF bal[a] < min THEN min - bal[a] ELSE 0
  <1>1. n \in Int /\ Fund(bal, payer, a, min) = Move(bal, payer, a, n)
    BY DEF Fund
  <1> HIDE DEF n
  <1> QED
    BY <1>1, MoveSum

(* Nor does emptying an account into another.                              *)
LEMMA DrainSum ==
  ASSUME NEW A, NEW S \in SUBSET A, IsFiniteSet(S), NEW bal \in [A -> Int],
         NEW a \in A, NEW to \in A, a \in S <=> to \in S
  PROVE  SameSum(A, S, bal, Drain(bal, a, to))
  <1>1. bal[a] \in Int /\ Drain(bal, a, to) = Move(bal, a, to, bal[a])
    BY DEF Drain
  <1> QED
    BY <1>1, MoveSum

\* The token accounts of mint m.
Held(m) == {Ata(o, m) : o \in Owner}

(* The token accounts of two mints have none in common.                    *)
LEMMA HeldFacts ==
    /\ \A m \in Mints : Held(m) \subseteq TokenAccount
    /\ \A k, m \in Mints, o \in Owner : Ata(o, m) \in Held(k) <=> m = k
  BY AtasApart DEF Held, TokenAccount

(* A token transfer leaves the sum of every mint as it is.                 *)
LEMMA SplTransferSum ==
  ASSUME IsFiniteSet(TokenAccount), NEW bal \in [TokenAccount -> Int], NEW k \in Mints,
         NEW from \in Owner, NEW to \in Owner, NEW m \in Mints, NEW n \in Int,
         NEW fee, fee # None => fee \in Int
  PROVE  SameSum(TokenAccount, Held(k), bal, SplTransfer(bal, from, to, m, n, fee))
  <1> DEFINE paid == Move(bal, Ata(from, m), Ata(to, m), n)
  <1>1. /\ {from, to, ProtocolPda} \subseteq Owner
        /\ {Ata(from, m), Ata(to, m), Ata(ProtocolPda, m)} \subseteq TokenAccount
        /\ Held(k) \in SUBSET TokenAccount /\ IsFiniteSet(Held(k))
        /\ Ata(from, m) \in Held(k) <=> Ata(to, m) \in Held(k)
        /\ Ata(from, m) \in Held(k) <=> Ata(ProtocolPda, m) \in Held(k)
    BY Addresses, HeldFacts, FS_Subset DEF Owner, Recipient
  <1>2. SameSum(TokenAccount, Held(k), bal, paid)
    BY <1>1, MoveSum
  <1> HIDE DEF paid
  <1>3. CASE fee = None
    <2>1. SplTransfer(bal, from, to, m, n, fee) = paid
      BY <1>3 DEF SplTransfer, paid
    <2> QED  BY <1>2, <2>1
  <1>4. CASE fee # None
    <2>1. SplTransfer(bal, from, to, m, n, fee) = Move(paid, Ata(from, m), Ata(ProtocolPda, m), fee)
      BY <1>4 DEF SplTransfer, paid
    <2>2. fee \in Int
      BY <1>4
    <2>3. paid \in [TokenAccount -> Int]
      BY <1>2 DEF SameSum
    <2>4. SameSum(TokenAccount, Held(k), paid, SplTransfer(bal, from, to, m, n, fee))
      BY <1>1, <2>1, <2>2, <2>3, MoveSum
    <2> QED  BY <1>2, <2>4, SameSumTwice
  <1> QED
    BY <1>3, <1>4

\* A step creates and destroys nothing.
LamportsAddUp == SameSum(Account, Account, lamports, lamports')

TokensAddUp == \A k \in Mints : SameSum(TokenAccount, Held(k), tokens, tokens')

(* What is left alone adds up.                                             *)
LEMMA NothingMoved ==
  ASSUME LedgerTypeOK
  PROVE  /\ UNCHANGED lamports => LamportsAddUp
         /\ UNCHANGED tokens => TokensAddUp
  BY DEF LedgerTypeOK, LamportsAddUp, TokensAddUp, SameSum

(* A step that opens an account, closes one or moves lamports adds up.     *)
LEMMA LamportsMoved ==
  ASSUME IsFiniteSet(Account), LedgerTypeOK, NEW x \in Account, NEW a \in Account,
         NEW n \in Int,
         \/ lamports' = Move(lamports, x, a, n)
         \/ lamports' = Fund(lamports, x, a, n)
         \/ lamports' = Drain(lamports, a, x)
  PROVE  LamportsAddUp
  <1>1. lamports \in [Account -> Int] /\ Account \in SUBSET Account
    BY DEF LedgerTypeOK
  <1>2. /\ SameSum(Account, Account, lamports, Move(lamports, x, a, n))
        /\ SameSum(Account, Account, lamports, Fund(lamports, x, a, n))
        /\ SameSum(Account, Account, lamports, Drain(lamports, a, x))
    BY <1>1, MoveSum, FundSum, DrainSum
  <1> QED
    BY <1>2 DEF LamportsAddUp

(* With finitely many accounts there are finitely many token accounts.     *)
LEMMA FiniteLedger ==
  ASSUME IsFiniteSet(Account)
  PROVE  /\ IsFiniteSet(TokenAccount)
         /\ \A k \in Mints : IsFiniteSet(Held(k)) /\ Held(k) \in SUBSET TokenAccount
  BY Addresses, HeldFacts, FS_Subset

(* A transfer, with its fee or without, conserves the tokens of its mint.  *)
LEMMA TransferAddsUp ==
  ASSUME IsFiniteSet(Account), LedgerTypeOK, NEW from \in Owner, NEW to \in Owner,
         NEW m \in Mints, NEW n \in Int, NEW fee, fee # None => fee \in Int,
         tokens' = SplTransfer(tokens, from, to, m, n, fee)
  PROVE  TokensAddUp
  <1>1. tokens \in [TokenAccount -> Int]
    BY DEF LedgerTypeOK
  <1> QED
    BY <1>1, FiniteLedger, SplTransferSum DEF TokensAddUp

(* The cluster and outsiders mint and burn nothing.                        *)
LEMMA LedgerAddsUp ==
  ASSUME IsFiniteSet(Account), LedgerTypeOK, AnyLedgerNext
  PROVE  LamportsAddUp /\ TokensAddUp
  <1>2. CASE Tick
    BY <1>2, NothingMoved DEF Tick
  <1>3. ASSUME NEW payer \in Wallets, NEW o \in Owner, NEW m \in Mints, CreateAta(payer, o, m)
        PROVE  LamportsAddUp /\ TokensAddUp
    <2>1. payer \in Account /\ Ata(o, m) \in Account /\ Rent["ata"] \in Int
      BY LedgerAssumption, Addresses, Rents
    <2>2. lamports' = Fund(lamports, payer, Ata(o, m), Rent["ata"]) /\ UNCHANGED tokens
      BY <1>3 DEF CreateAta
    <2> QED  BY <2>1, <2>2, LamportsMoved, NothingMoved
  <1>4. ASSUME NEW o \in Wallets, NEW m \in Mints, CloseAta(o, m)
        PROVE  LamportsAddUp /\ TokensAddUp
    <2>1. o \in Account /\ Ata(o, m) \in Account /\ 0 \in Int
      BY Addresses
    <2>2. lamports' = Drain(lamports, Ata(o, m), o) /\ UNCHANGED tokens
      BY <1>4 DEF CloseAta
    <2> QED  BY <2>1, <2>2, LamportsMoved, NothingMoved
  <1>5. ASSUME NEW giver \in Givers, NEW a \in GiftTargets, NEW n \in Gifts,
               GiveLamports(giver, a, n)
        PROVE  LamportsAddUp /\ TokensAddUp
    <2>1. giver \in Account /\ a \in Account /\ n \in Int
      BY LedgerAssumption, Addresses
    <2>2. lamports' = Move(lamports, giver, a, n) /\ UNCHANGED tokens
      BY <1>5 DEF GiveLamports
    <2> QED  BY <2>1, <2>2, LamportsMoved, NothingMoved
  <1>6. ASSUME NEW giver \in Givers, NEW o \in GiftTargets \cap Owner, NEW m \in Mints,
               NEW n \in Gifts, GiveTokens(giver, o, m, n)
        PROVE  LamportsAddUp /\ TokensAddUp
    <2>1. giver \in Owner /\ n \in Int
      BY LedgerAssumption, Addresses
    <2>2. tokens' = SplTransfer(tokens, giver, o, m, n, None) /\ UNCHANGED lamports
      BY <1>6 DEF GiveTokens
    <2> QED  BY <2>1, <2>2, TransferAddsUp, NothingMoved
  <1> QED
    BY <1>2, <1>3, <1>4, <1>5, <1>6, LedgerAssumption DEF AnyLedgerNext, LedgerNext

-----------------------------------------------------------------------------
(* The configuration.                                                      *)


\* The payer of an instruction pays for one account more.
Paid(signer) ==
    /\ lamports' \in [Account -> Int]
    /\ \A x \in Account \ {signer} : lamports'[x] >= lamports[x]
    /\ Afforded(lamports', signer)

(* A payment that is afforded overdraws nothing and keeps the vaults.      *)
LEMMA PaidKeeps ==
  ASSUME LedgerTypeOK, NEW signer \in Wallets, Paid(signer), UNCHANGED <<now, atas, tokens>>
  PROVE  LedgerTypeOK' /\ \A t \in TradeIds : VaultKept(t)
  <1>1. signer \in Account
    BY Addresses
  <1>2. lamports' \in [Account -> Nat]
    BY <1>1, OnlyPayerPays DEF Paid, LedgerTypeOK
  <1>3. ASSUME NEW t \in TradeIds
        PROVE  VaultKept(t)
    <2>1. VaultPda(t) \in Account \ {signer}
      BY Addresses, VaultApart DEF Recipient
    <2> QED  BY <2>1, LamportsKept DEF Paid
  <1> QED
    BY <1>2, <1>3 DEF LedgerTypeOK

(* Closing an account that is no vault to a signer keeps the vaults.       *)
LEMMA DrainKeeps ==
  ASSUME LedgerTypeOK, NEW signer \in Wallets, NEW a \in Account, a # signer,
         \A t \in TradeIds : VaultPda(t) # a,
         lamports' = Drain(lamports, a, signer), UNCHANGED <<now, atas, tokens>>
  PROVE  LedgerTypeOK' /\ \A t \in TradeIds : VaultKept(t)
  <1>1. signer \in Account
    BY Addresses
  <1>2. /\ lamports' \in [Account -> Nat]
        /\ \A x \in Account \ {a} : lamports'[x] >= lamports[x]
    BY <1>1, DrainNat DEF LedgerTypeOK
  <1>3. ASSUME NEW t \in TradeIds
        PROVE  VaultKept(t)
    BY <1>2, Addresses, LamportsKept
  <1> QED
    BY <1>2, <1>3 DEF LedgerTypeOK

(* What leaves the ledger alone keeps it.                                  *)
LEMMA LedgerUnchanged ==
  ASSUME LedgerTypeOK, UNCHANGED ledgerVars
  PROVE  LedgerTypeOK' /\ \A t \in TradeIds : VaultKept(t)
  <1>1. \A t \in TradeIds : VaultPda(t) \in Account /\ lamports[VaultPda(t)] \in Int
    BY Addresses DEF LedgerTypeOK
  <1>2. \A t \in TradeIds : lamports'[VaultPda(t)] >= lamports[VaultPda(t)]
    BY <1>1 DEF ledgerVars
  <1> QED
    BY <1>2, LamportsKept DEF LedgerTypeOK, ledgerVars

(* init is affordable and touches only its signer and its three accounts.  *)
LEMMA InitPaid ==
  ASSUME LedgerTypeOK, NEW signer \in Wallets
  PROVE  /\ FundInit(signer) \in [Account -> Int]
         /\ \A x \in Account \ {signer} : FundInit(signer)[x] >= lamports[x]
  <1> DEFINE legacy   == Fund(lamports, signer, LegacyVaultPda, Rent["wallet"])
             protocol == Fund(legacy, signer, ProtocolPda, Rent["wallet"])
             all      == Fund(protocol, signer, ConfigPda, Rent["config"])
  <1>1. /\ signer \in Account /\ {LegacyVaultPda, ProtocolPda, ConfigPda} \subseteq Account
        /\ signer \notin {LegacyVaultPda, ProtocolPda, ConfigPda}
        /\ lamports \in [Account -> Int]
    BY Addresses, KeysApart DEF LedgerTypeOK
  <1>2. FundInit(signer) = all
    BY DEF FundInit
  <1>3. /\ legacy \in [Account -> Int]
        /\ \A x \in Account \ {signer} : legacy[x] >= lamports[x]
    BY <1>1, FundFacts, Rents
  <1> HIDE DEF legacy
  <1>4. /\ protocol \in [Account -> Int]
        /\ \A x \in Account \ {signer} : protocol[x] >= legacy[x]
    BY <1>1, <1>3, FundFacts, Rents
  <1> HIDE DEF protocol
  <1>5. /\ all \in [Account -> Int]
        /\ \A x \in Account \ {signer} : all[x] >= protocol[x]
    BY <1>1, <1>4, FundFacts, Rents
  <1> HIDE DEF all
  <1>6. \A x \in Account \ {signer} : all[x] >= lamports[x]
    BY <1>1, <1>3, <1>4, <1>5
  <1> QED
    BY <1>2, <1>5, <1>6

-----------------------------------------------------------------------------
(* Every instruction of the configuration keeps the types and the vaults.  *)
LEMMA ConfigStep ==
  ASSUME ConfigTypeOK, ConfigNext
  PROVE  ConfigTypeOK' /\ \A t \in TradeIds : VaultKept(t)
  <1> DEFINE Goal == ConfigTypeOK' /\ \A t \in TradeIds : VaultKept(t)
  <1>0. LedgerTypeOK /\ lamports \in [Account -> Int]
    BY DEF ConfigTypeOK, LedgerTypeOK
  <1>1. ASSUME NEW signer \in Wallets, NEW admin \in Admins \cup {None},
               InitConfig(signer, admin)
        PROVE  Goal
    <2>1. Paid(signer)
      <3>1. CASE config = None
        BY <1>0, <1>1, <3>1, InitPaid DEF InitConfig, Paid
      <3>2. CASE config # None
        BY <1>0, <1>1, <3>2 DEF InitConfig, Paid, LedgerTypeOK
      <3> QED  BY <3>1, <3>2
    <2>2. config' \in ConfigRecord
      <3>1. ZeroConfig \in ConfigRecord
        BY DEF ZeroConfig, ConfigRecord
      <3> QED
        BY <1>1, <3>1, ConfigAssumption DEF InitConfig, ConfigTypeOK, ConfigRecord
    <2>3. UNCHANGED <<now, atas, tokens, whitelist, feeReceivers>>
      BY <1>1 DEF InitConfig
    <2> QED  BY <1>0, <2>1, <2>2, <2>3, PaidKeeps DEF ConfigTypeOK
  <1>2. ASSUME NEW signer \in Wallets, NEW operator \in Wallets,
               AddOperator(signer, operator) \/ RemoveOperator(signer, operator)
        PROVE  Goal
    <2>1. config # None /\ config \in ConfigRecord
      BY <1>2 DEF AddOperator, RemoveOperator, IsAdmin, ConfigTypeOK
    <2>2. config' \in ConfigRecord
      BY <1>2, <2>1 DEF AddOperator, RemoveOperator, ConfigRecord
    <2>3. UNCHANGED <<ledgerVars, whitelist, feeReceivers>>
      BY <1>2 DEF AddOperator, RemoveOperator
    <2> QED  BY <1>0, <2>2, <2>3, LedgerUnchanged DEF ConfigTypeOK
  <1>3. ASSUME NEW operator \in Wallets, NEW trade \in Durations \cup {None},
               NEW payment \in Durations \cup {None},
               SetCloseWaitDuration(operator, trade, payment)
        PROVE  Goal
    <2>1. config # None /\ config \in ConfigRecord
      BY <1>3 DEF SetCloseWaitDuration, IsOperator, ConfigTypeOK
    <2>2. config' \in ConfigRecord
      BY <1>3, <2>1, ConfigAssumption DEF SetCloseWaitDuration, ConfigRecord
    <2>3. UNCHANGED <<ledgerVars, whitelist, feeReceivers>>
      BY <1>3 DEF SetCloseWaitDuration
    <2> QED  BY <1>0, <2>2, <2>3, LedgerUnchanged DEF ConfigTypeOK
  <1>4. ASSUME NEW operator \in Wallets, NEW m \in Mints, NEW amount \in MinAmounts,
               AddOrUpdateWhitelist(operator, m, amount)
        PROVE  Goal
    <2>1. /\ operator \in Account /\ WhitelistPda(m) \in Account
          /\ operator # WhitelistPda(m)
      BY Addresses, KeysApart
    <2>2. Paid(operator)
      <3>1. CASE whitelist[m] = None
        BY <1>0, <1>4, <2>1, <3>1, FundFacts, Rents DEF AddOrUpdateWhitelist, Paid
      <3>2. CASE whitelist[m] # None
        BY <1>0, <1>4, <3>2 DEF AddOrUpdateWhitelist, Paid, LedgerTypeOK
      <3> QED  BY <3>1, <3>2
    <2>3. whitelist' \in [Mints -> Nat \cup {None}]
      BY <1>4, ConfigAssumption DEF AddOrUpdateWhitelist, ConfigTypeOK
    <2>4. UNCHANGED <<now, atas, tokens, config, feeReceivers>>
      BY <1>4 DEF AddOrUpdateWhitelist
    <2> QED  BY <1>0, <2>2, <2>3, <2>4, PaidKeeps DEF ConfigTypeOK
  <1>5. ASSUME NEW operator \in Wallets, NEW token \in Mints, NEW m \in Mints,
               RemoveWhitelist(operator, token, m)
        PROVE  Goal
    <2>1. /\ operator \in Account /\ WhitelistPda(m) \in Account
          /\ operator # WhitelistPda(m)
          /\ \A t \in TradeIds : VaultPda(t) # WhitelistPda(m)
      BY Addresses, KeysApart, VaultApart
    <2>2. whitelist' \in [Mints -> Nat \cup {None}]
      BY <1>5 DEF RemoveWhitelist, ConfigTypeOK
    <2>3. /\ lamports' = Drain(lamports, WhitelistPda(m), operator)
          /\ UNCHANGED <<now, atas, tokens, config, feeReceivers>>
      BY <1>5 DEF RemoveWhitelist
    <2> QED  BY <1>0, <2>1, <2>2, <2>3, DrainKeeps DEF ConfigTypeOK
  <1>6. ASSUME NEW signer \in Wallets, NEW receiver \in Wallets,
               AddFeeReceiver(signer, receiver)
        PROVE  Goal
    <2>1. /\ signer \in Account /\ ReceiverPda(receiver) \in Account
          /\ signer # ReceiverPda(receiver)
      BY Addresses, KeysApart
    <2>2. Paid(signer)
      BY <1>0, <1>6, <2>1, FundFacts, Rents DEF AddFeeReceiver, Paid
    <2>3. feeReceivers' \subseteq Wallets /\ UNCHANGED <<now, atas, tokens, config, whitelist>>
      BY <1>6 DEF AddFeeReceiver, ConfigTypeOK
    <2> QED  BY <1>0, <2>2, <2>3, PaidKeeps DEF ConfigTypeOK
  <1>7. ASSUME NEW signer \in Wallets, NEW receiver \in Wallets,
               RemoveFeeReceiver(signer, receiver)
        PROVE  Goal
    <2>1. /\ signer \in Account /\ ReceiverPda(receiver) \in Account
          /\ signer # ReceiverPda(receiver)
          /\ \A t \in TradeIds : VaultPda(t) # ReceiverPda(receiver)
      BY Addresses, KeysApart, VaultApart
    <2>2. feeReceivers' \subseteq Wallets
      BY <1>7 DEF RemoveFeeReceiver, ConfigTypeOK
    <2>3. /\ lamports' = Drain(lamports, ReceiverPda(receiver), signer)
          /\ UNCHANGED <<now, atas, tokens, config, whitelist>>
      BY <1>7 DEF RemoveFeeReceiver
    <2> QED  BY <1>0, <2>1, <2>2, <2>3, DrainKeeps DEF ConfigTypeOK
  <1> QED
    BY <1>1, <1>2, <1>3, <1>4, <1>5, <1>6, <1>7 DEF ConfigNext

(* Type correctness of the configuration, from an empty ledger on.         *)
THEOREM ConfigTypeCorrect == ConfigSpec => []ConfigTypeOK
  <1>1. ConfigInit => ConfigTypeOK
    BY StartAssumption, LedgerAssumption
    DEF ConfigInit, ConfigTypeOK, LedgerInit, LedgerTypeOK
  <1>2. ConfigTypeOK /\ [ConfigNext]_<<ledgerVars, configVars>> => ConfigTypeOK'
    <2>1. ASSUME ConfigTypeOK, UNCHANGED <<ledgerVars, configVars>>
          PROVE  ConfigTypeOK'
      BY <2>1 DEF ConfigTypeOK, LedgerTypeOK, ledgerVars, configVars
    <2> QED  BY <2>1, ConfigStep
  <1> QED
    BY <1>1, <1>2, PTL DEF ConfigSpec

-----------------------------------------------------------------------------
\* The operators' limit is inductive once the set is known to be finite.
OperatorsInv == config # None =>
    /\ IsFiniteSet(config.operators)
    /\ Cardinality(config.operators) <= OperatorsSize

(* A single instruction keeps the operators few: only add_operator adds,   *)
(* one, and below the limit.                                               *)
LEMMA OperatorsStep ==
  ASSUME ConfigTypeOK, OperatorsInv, [ConfigNext]_<<ledgerVars, configVars>>
  PROVE  OperatorsInv'
  <1>1. ASSUME config' = config
        PROVE  OperatorsInv'
    BY <1>1 DEF OperatorsInv
  <1>2. ASSUME NEW signer \in Wallets, NEW admin \in Admins \cup {None},
               InitConfig(signer, admin)
        PROVE  OperatorsInv'
    <2>1. CASE config = None
      <3>1. config'.operators = {}
        BY <1>2, <2>1 DEF InitConfig, ZeroConfig
      <3>2. IsFiniteSet({}) /\ Cardinality({}) = 0
        BY FS_EmptySet
      <3> QED  BY <3>1, <3>2 DEF OperatorsInv, OperatorsSize
    <2>2. CASE config # None
      <3>1. config'.operators = config.operators
        BY <1>2, <2>2 DEF InitConfig, ConfigTypeOK, ConfigRecord
      <3> QED  BY <2>2, <3>1 DEF OperatorsInv
    <2> QED  BY <2>1, <2>2
  <1>3. ASSUME NEW signer \in Wallets, NEW operator \in Wallets, AddOperator(signer, operator)
        PROVE  OperatorsInv'
    <2>1. /\ config # None
          /\ config'.operators = config.operators \cup {operator}
          /\ operator \notin config.operators
          /\ Cardinality(config.operators) < OperatorsSize
      BY <1>3 DEF AddOperator, IsAdmin, ConfigTypeOK, ConfigRecord
    <2>2. IsFiniteSet(config.operators) /\ Cardinality(config.operators) \in Nat
      BY <2>1, FS_CardinalityType DEF OperatorsInv
    <2>3. /\ IsFiniteSet(config'.operators)
          /\ Cardinality(config'.operators) = Cardinality(config.operators) + 1
      <3> DEFINE old == config.operators
      <3>1. IsFiniteSet(old) /\ operator \notin old
        BY <2>1, <2>2
      <3> HIDE DEF old
      <3>2. /\ IsFiniteSet(old \cup {operator})
            /\ Cardinality(old \cup {operator}) = Cardinality(old) + 1
        BY <3>1, FS_AddElement
      <3> QED  BY <2>1, <3>2 DEF old
    <2> QED  BY <2>1, <2>2, <2>3 DEF OperatorsInv, OperatorsSize
  <1>4. ASSUME NEW signer \in Wallets, NEW operator \in Wallets,
               RemoveOperator(signer, operator)
        PROVE  OperatorsInv'
    <2>1. /\ config # None
          /\ config'.operators = config.operators \ {operator}
          /\ operator \in config.operators
      BY <1>4 DEF RemoveOperator, IsAdmin, ConfigTypeOK, ConfigRecord
    <2>2. IsFiniteSet(config.operators) /\ Cardinality(config.operators) \in Nat
      BY <2>1, FS_CardinalityType DEF OperatorsInv
    <2>3. /\ IsFiniteSet(config'.operators)
          /\ Cardinality(config'.operators) = Cardinality(config.operators) - 1
      BY <2>1, <2>2, FS_RemoveElement
    <2> QED  BY <2>1, <2>2, <2>3 DEF OperatorsInv, OperatorsSize
  <1>5. ASSUME NEW operator \in Wallets, NEW trade \in Durations \cup {None},
               NEW payment \in Durations \cup {None},
               SetCloseWaitDuration(operator, trade, payment)
        PROVE  OperatorsInv'
    <2>1. config # None /\ config'.operators = config.operators
      BY <1>5 DEF SetCloseWaitDuration, IsOperator, ConfigTypeOK, ConfigRecord
    <2> QED  BY <2>1 DEF OperatorsInv
  <1>6. ASSUME ConfigNext,
               \A signer \in Wallets, admin \in Admins \cup {None} : ~InitConfig(signer, admin),
               \A signer, operator \in Wallets :
                 ~AddOperator(signer, operator) /\ ~RemoveOperator(signer, operator),
               \A operator \in Wallets, trade, payment \in Durations \cup {None} :
                 ~SetCloseWaitDuration(operator, trade, payment)
        PROVE  config' = config
    BY <1>6 DEF ConfigNext, AddOrUpdateWhitelist, RemoveWhitelist, AddFeeReceiver,
                RemoveFeeReceiver
  <1> QED
    BY <1>1, <1>2, <1>3, <1>4, <1>5, <1>6 DEF configVars

(* The config account is never outgrown, for any number of wallets.        *)
THEOREM OperatorsAlwaysFit == ConfigSpec => []OperatorsFit
  <1>1. ConfigInit => OperatorsInv
    BY DEF ConfigInit, OperatorsInv
  <1>2. ConfigTypeOK /\ OperatorsInv /\ [ConfigNext]_<<ledgerVars, configVars>>
          => OperatorsInv'
    BY OperatorsStep
  <1>3. OperatorsInv => OperatorsFit
    BY DEF OperatorsInv, OperatorsFit
  <1> QED
    BY <1>1, <1>2, <1>3, ConfigTypeCorrect, PTL DEF ConfigSpec
-----------------------------------------------------------------------------
(* Two PDAs of one kind are equal only for equal seeds.                     *)
LEMMA PdaOfSeed ==
    \A x, y : /\ WhitelistPda(x) = WhitelistPda(y) => x = y
              /\ ReceiverPda(x) = ReceiverPda(y) => x = y
              /\ ReceiptPda(x) = ReceiptPda(y) => x = y
  BY DEF WhitelistPda, ReceiverPda, ReceiptPda

(* The whitelist, receiver and receipt PDAs are of different kinds.        *)
LEMMA PdaKindsApart ==
    \A x, y : /\ WhitelistPda(x) # ReceiverPda(y)
              /\ WhitelistPda(x) # ReceiptPda(y)
              /\ ReceiverPda(x) # ReceiptPda(y)
  BY DEF WhitelistPda, ReceiverPda, ReceiptPda

(* None of them is one of the program's single accounts.                   *)
LEMMA SeededPdasApart ==
    \A x : /\ WhitelistPda(x) \notin {ConfigPda, ProtocolPda}
           /\ ReceiverPda(x) \notin {ConfigPda, ProtocolPda}
           /\ ReceiptPda(x) \notin {ConfigPda, ProtocolPda, LegacyVaultPda}
  BY DEF WhitelistPda, ReceiverPda, ReceiptPda, ConfigPda, ProtocolPda, LegacyVaultPda

(* init leaves the config and the protocol PDA rent exempt.                *)
LEMMA InitFunds ==
  ASSUME LedgerTypeOK, NEW signer \in Wallets
  PROVE  /\ FundInit(signer)[ConfigPda] >= Rent["config"]
         /\ FundInit(signer)[ProtocolPda] >= Rent["wallet"]
  <1> DEFINE legacy   == Fund(lamports, signer, LegacyVaultPda, Rent["wallet"])
             protocol == Fund(legacy, signer, ProtocolPda, Rent["wallet"])
             all      == Fund(protocol, signer, ConfigPda, Rent["config"])
  <1>1. /\ signer \in Account /\ {LegacyVaultPda, ProtocolPda, ConfigPda} \subseteq Account
        /\ signer \notin {LegacyVaultPda, ProtocolPda, ConfigPda}
        /\ lamports \in [Account -> Int]
    BY Addresses, KeysApart DEF LedgerTypeOK
  <1>2. FundInit(signer) = all
    BY DEF FundInit
  <1>3. legacy \in [Account -> Int]
    BY <1>1, FundFacts, Rents
  <1> HIDE DEF legacy
  <1>4. protocol \in [Account -> Int] /\ protocol[ProtocolPda] >= Rent["wallet"]
    BY <1>1, <1>3, FundFacts, Rents
  <1> HIDE DEF protocol
  <1>5. /\ all \in [Account -> Int] /\ all[ConfigPda] >= Rent["config"]
        /\ all[ProtocolPda] >= protocol[ProtocolPda]
    BY <1>1, <1>4, FundFacts, Rents
  <1> HIDE DEF all
  <1>6. all[ProtocolPda] >= Rent["wallet"]
    BY <1>1, <1>4, <1>5, Rents DEF Amount
  <1> QED
    BY <1>2, <1>5, <1>6

\* A step takes no lamports from any PDA outside S.
PdasKeptBut(S) == \A a \in Pda \ S : lamports'[a] >= lamports[a]

(* Where the PDAs of the configuration lie.                                *)
LEMMA ConfigPdas ==
    /\ {ConfigPda, ProtocolPda} \subseteq Pda
    /\ \A m \in Mints : WhitelistPda(m) \in Pda
    /\ \A k \in Wallets : ReceiverPda(k) \in Pda /\ k \notin Pda
    /\ \A p \in Payments : ReceiptPda(p) \in Pda
    /\ Pda \subseteq Account
  BY KeysAssumption DEF Pda, Account

(* A payment out of a wallet takes from no PDA.                            *)
LEMMA PaidKeepsPdas ==
  ASSUME NEW signer \in Wallets, Paid(signer)
  PROVE  PdasKeptBut({})
  BY ConfigPdas DEF Paid, PdasKeptBut

(* No PDA is a token account.                                              *)
LEMMA PdaNoAta == \A a \in Pda : a \notin TokenAccount
  <1>1. \A o, m : ConfigPda # Ata(o, m) /\ ProtocolPda # Ata(o, m) /\ LegacyVaultPda # Ata(o, m)
    BY DEF ConfigPda, ProtocolPda, LegacyVaultPda, Ata
  <1>2. \A x, o, m : TradePda(x) # Ata(o, m) /\ VaultPda(x) # Ata(o, m) /\ NoncePda(x) # Ata(o, m)
    BY DEF TradePda, VaultPda, NoncePda, Ata
  <1>3. \A x, o, m : /\ WhitelistPda(x) # Ata(o, m) /\ ReceiverPda(x) # Ata(o, m)
                     /\ ReceiptPda(x) # Ata(o, m)
    BY DEF WhitelistPda, ReceiverPda, ReceiptPda, Ata
  <1> QED
    BY <1>1, <1>2, <1>3 DEF Pda, TokenAccount

(* A move of a natural amount takes from its source only.                  *)
LEMMA MoveTakes ==
  \A S : \A bal \in [S -> Int], from, to \in S, n \in Amount : n >= 0 =>
    /\ Move(bal, from, to, n) \in [S -> Int]
    /\ \A x \in S \ {from} : Move(bal, from, to, n)[x] >= bal[x]
  BY DEF Move, Amount

(* The cluster and outsiders take lamports from no PDA.                    *)
LEMMA LedgerKeepsPdas ==
  ASSUME LedgerTypeOK, AnyLedgerNext
  PROVE  PdasKeptBut({})
  <1>0. lamports \in [Account -> Nat] /\ lamports \in [Account -> Int] /\ Pda \subseteq Account
    BY ConfigPdas DEF LedgerTypeOK
  <1>1. ASSUME UNCHANGED lamports
        PROVE  PdasKeptBut({})
    BY <1>0, <1>1 DEF PdasKeptBut
  <1>2. ASSUME NEW payer \in Wallets, \A x \in Account \ {payer} : lamports'[x] >= lamports[x]
        PROVE  PdasKeptBut({})
    BY <1>0, <1>2, KeysAssumption DEF PdasKeptBut
  <1>3. ASSUME NEW payer \in Wallets, NEW o \in Owner, NEW m \in Mints, CreateAta(payer, o, m)
        PROVE  PdasKeptBut({})
    <2>1. /\ payer \in Wallets /\ payer \in Account
          /\ Ata(o, m) \in Account /\ payer # Ata(o, m)
      BY LedgerAssumption, Addresses, KeysApart
    <2> QED
      BY <1>0, <1>2, <1>3, <2>1, FundFacts, Rents DEF CreateAta
  <1>4. ASSUME NEW o \in Wallets, NEW m \in Mints, CloseAta(o, m)
        PROVE  PdasKeptBut({})
    <2>1. /\ o \in Account /\ Ata(o, m) \in Account /\ o # Ata(o, m)
          /\ Ata(o, m) \notin Pda
      BY Addresses, KeysApart, PdaNoAta
    <2> QED
      BY <1>0, <1>4, <2>1, DrainNat DEF CloseAta, PdasKeptBut
  <1>5. ASSUME NEW giver \in Givers, NEW a \in GiftTargets, NEW n \in Gifts,
               GiveLamports(giver, a, n)
        PROVE  PdasKeptBut({})
    <2>1. /\ giver \in Wallets /\ giver \in Account /\ a \in Account
          /\ n \in Amount /\ n >= 0
      BY LedgerAssumption, Addresses DEF Amount
    <2> QED
      BY <1>0, <1>2, <1>5, <2>1, MoveTakes DEF GiveLamports
  <1> QED
    BY <1>1, <1>3, <1>4, <1>5, LedgerAssumption DEF AnyLedgerNext, LedgerNext, Tick, GiveTokens

(* Each instruction of the configuration takes lamports from a PDA only    *)
(* when it closes it, and what it opens is rent exempt.                    *)
LEMMA ConfigRentStep ==
  ASSUME ConfigTypeOK, ConfigRentHeld, ConfigNext
  PROVE  ConfigRentHeld' /\ \A p \in Payments : lamports'[ReceiptPda(p)] >= lamports[ReceiptPda(p)]
  <1> DEFINE Goal == /\ ConfigRentHeld'
                     /\ \A p \in Payments : lamports'[ReceiptPda(p)] >= lamports[ReceiptPda(p)]
  <1>0. /\ LedgerTypeOK /\ lamports \in [Account -> Int]
        /\ LedgerTypeOK' /\ lamports' \in [Account -> Int]
        /\ \A kind \in {"config", "wallet", "whitelist", "receiver"} : Rent[kind] \in Int
    BY ConfigStep, Rents DEF ConfigTypeOK, LedgerTypeOK
  <1>1. ASSUME NEW signer \in Wallets, NEW admin \in Admins \cup {None},
               InitConfig(signer, admin)
        PROVE  Goal
    <2>1. UNCHANGED <<whitelist, feeReceivers>>
      BY <1>1 DEF InitConfig
    <2>2. CASE config = None
      <3>1. Paid(signer)
        BY <1>0, <1>1, <2>2, InitPaid DEF InitConfig, Paid
      <3>2. PdasKeptBut({})
        BY <3>1, PaidKeepsPdas
      <3>3. lamports'[ConfigPda] >= Rent["config"] /\ lamports'[ProtocolPda] >= Rent["wallet"]
        BY <1>0, <1>1, <2>2, InitFunds DEF InitConfig
      <3> QED
        BY <1>0, <2>1, <3>2, <3>3, ConfigPdas DEF ConfigRentHeld, PdasKeptBut, ConfigTypeOK
    <2>3. CASE config # None
      <3>1. lamports' = lamports
        BY <1>1, <2>3 DEF InitConfig
      <3> QED
        BY <1>0, <2>1, <2>3, <3>1, ConfigPdas DEF ConfigRentHeld
    <2> QED  BY <2>2, <2>3
  <1>2. ASSUME config # None, UNCHANGED <<lamports, whitelist, feeReceivers>>
        PROVE  Goal
    BY <1>0, <1>2, ConfigPdas DEF ConfigRentHeld
  <1>3. ASSUME NEW signer \in Wallets, NEW operator \in Wallets,
               AddOperator(signer, operator) \/ RemoveOperator(signer, operator)
        PROVE  Goal
    BY <1>2, <1>3 DEF AddOperator, RemoveOperator, IsAdmin, ledgerVars
  <1>4. ASSUME NEW operator \in Wallets, NEW trade \in Durations \cup {None},
               NEW payment \in Durations \cup {None},
               SetCloseWaitDuration(operator, trade, payment)
        PROVE  Goal
    BY <1>2, <1>4 DEF SetCloseWaitDuration, IsOperator, ledgerVars
  <1>5. ASSUME NEW operator \in Wallets, NEW m \in Mints, NEW amount \in MinAmounts,
               AddOrUpdateWhitelist(operator, m, amount)
        PROVE  Goal
    <2>1. /\ operator \in Account /\ WhitelistPda(m) \in Account
          /\ operator # WhitelistPda(m)
      BY Addresses, KeysApart
    <2>2. /\ Paid(operator)
          /\ lamports'[WhitelistPda(m)] >= Rent["whitelist"]
      <3>1. CASE whitelist[m] = None
        BY <1>0, <1>5, <2>1, <3>1, FundFacts, Rents DEF AddOrUpdateWhitelist, Paid
      <3>2. CASE whitelist[m] # None
        BY <1>0, <1>5, <3>2 DEF AddOrUpdateWhitelist, Paid, ConfigRentHeld
      <3> QED  BY <3>1, <3>2
    <2>3. PdasKeptBut({})
      BY <2>2, PaidKeepsPdas
    <2>4. /\ UNCHANGED <<config, feeReceivers>>
          /\ \A n \in Mints \ {m} : whitelist'[n] = whitelist[n]
      BY <1>5 DEF AddOrUpdateWhitelist, ConfigTypeOK
    <2> QED
      BY <1>0, <2>2, <2>3, <2>4, ConfigPdas DEF ConfigRentHeld, PdasKeptBut, ConfigTypeOK
  <1>6. ASSUME NEW operator \in Wallets, NEW token \in Mints, NEW m \in Mints,
               RemoveWhitelist(operator, token, m)
        PROVE  Goal
    <2>1. /\ operator \in Account /\ WhitelistPda(m) \in Account
          /\ operator # WhitelistPda(m)
      BY Addresses, KeysApart
    <2>2. PdasKeptBut({WhitelistPda(m)})
      BY <1>0, <1>6, <2>1, DrainNat, ConfigPdas DEF RemoveWhitelist, PdasKeptBut, LedgerTypeOK
    <2>3. /\ UNCHANGED <<config, feeReceivers>>
          /\ whitelist'[m] = None
          /\ \A n \in Mints \ {m} : whitelist'[n] = whitelist[n]
      BY <1>6 DEF RemoveWhitelist, ConfigTypeOK
    <2>4. /\ {ConfigPda, ProtocolPda} \subseteq Pda \ {WhitelistPda(m)}
          /\ \A n \in Mints \ {m} : WhitelistPda(n) \in Pda \ {WhitelistPda(m)}
          /\ \A k \in Wallets : ReceiverPda(k) \in Pda \ {WhitelistPda(m)}
          /\ \A p \in Payments : ReceiptPda(p) \in Pda \ {WhitelistPda(m)}
      BY ConfigPdas, PdaOfSeed, PdaKindsApart, SeededPdasApart, PdasApart
    <2> QED
      BY <1>0, <2>2, <2>3, <2>4, ConfigPdas DEF ConfigRentHeld, PdasKeptBut, ConfigTypeOK
  <1>7. ASSUME NEW signer \in Wallets, NEW receiver \in Wallets,
               AddFeeReceiver(signer, receiver)
        PROVE  Goal
    <2>1. /\ signer \in Account /\ ReceiverPda(receiver) \in Account
          /\ signer # ReceiverPda(receiver)
      BY Addresses, KeysApart
    <2>2. Paid(signer) /\ lamports'[ReceiverPda(receiver)] >= Rent["receiver"]
      BY <1>0, <1>7, <2>1, FundFacts, Rents DEF AddFeeReceiver, Paid
    <2>3. PdasKeptBut({})
      BY <2>2, PaidKeepsPdas
    <2>4. UNCHANGED <<config, whitelist>> /\ feeReceivers' = feeReceivers \cup {receiver}
      BY <1>7 DEF AddFeeReceiver
    <2> QED
      BY <1>0, <2>2, <2>3, <2>4, ConfigPdas DEF ConfigRentHeld, PdasKeptBut, ConfigTypeOK
  <1>8. ASSUME NEW signer \in Wallets, NEW receiver \in Wallets,
               RemoveFeeReceiver(signer, receiver)
        PROVE  Goal
    <2>1. /\ signer \in Account /\ ReceiverPda(receiver) \in Account
          /\ signer # ReceiverPda(receiver)
      BY Addresses, KeysApart
    <2>2. PdasKeptBut({ReceiverPda(receiver)})
      BY <1>0, <1>8, <2>1, DrainNat, ConfigPdas DEF RemoveFeeReceiver, PdasKeptBut, LedgerTypeOK
    <2>3. UNCHANGED <<config, whitelist>> /\ feeReceivers' = feeReceivers \ {receiver}
      BY <1>8 DEF RemoveFeeReceiver
    <2>4. /\ {ConfigPda, ProtocolPda} \subseteq Pda \ {ReceiverPda(receiver)}
          /\ \A n \in Mints : WhitelistPda(n) \in Pda \ {ReceiverPda(receiver)}
          /\ \A k \in Wallets \ {receiver} : ReceiverPda(k) \in Pda \ {ReceiverPda(receiver)}
          /\ \A p \in Payments : ReceiptPda(p) \in Pda \ {ReceiverPda(receiver)}
      BY ConfigPdas, PdaOfSeed, PdaKindsApart, SeededPdasApart, PdasApart
    <2> QED
      BY <1>0, <2>2, <2>3, <2>4, ConfigPdas DEF ConfigRentHeld, PdasKeptBut, ConfigTypeOK
  <1> QED
    BY <1>1, <1>3, <1>4, <1>5, <1>6, <1>7, <1>8 DEF ConfigNext

(* Every account of the configuration is rent exempt while it exists,      *)
(* whatever init, whitelisting, fee receivers and their removal do in any  *)
(* order.                                                                  *)
THEOREM ConfigRentAlwaysHeld == ConfigSpec => []ConfigRentHeld
  <1>1. ConfigInit => ConfigRentHeld
    BY DEF ConfigInit, ConfigRentHeld
  <1>2. ConfigTypeOK /\ ConfigRentHeld /\ [ConfigNext]_<<ledgerVars, configVars>>
          => ConfigRentHeld'
    <2>1. ASSUME ConfigRentHeld, UNCHANGED <<ledgerVars, configVars>>
          PROVE  ConfigRentHeld'
      BY <2>1 DEF ConfigRentHeld, ledgerVars, configVars
    <2> QED  BY <2>1, ConfigRentStep
  <1> QED
    BY <1>1, <1>2, ConfigTypeCorrect, PTL DEF ConfigSpec

-----------------------------------------------------------------------------
(* A configuration that is there stays.                                    *)
LEMMA ConfigStays ==
  ASSUME ConfigTypeOK, config # None, ConfigNext
  PROVE  config' # None
  <1>0. config \in ConfigRecord
    BY DEF ConfigTypeOK
  <1>1. ASSUME NEW signer \in Wallets, NEW admin \in Admins \cup {None}, InitConfig(signer, admin)
        PROVE  config' # None
    BY <1>0, <1>1, NoneIsNoConfig, ConfigAssumption DEF InitConfig, ConfigRecord
  <1>2. ASSUME NEW signer \in Wallets, NEW operator \in Wallets,
               AddOperator(signer, operator) \/ RemoveOperator(signer, operator)
        PROVE  config' # None
    BY <1>0, <1>2, NoneIsNoConfig DEF AddOperator, RemoveOperator, ConfigRecord
  <1>3. ASSUME NEW operator \in Wallets, NEW trade \in Durations \cup {None},
               NEW payment \in Durations \cup {None},
               SetCloseWaitDuration(operator, trade, payment)
        PROVE  config' # None
    BY <1>0, <1>3, NoneIsNoConfig, ConfigAssumption DEF SetCloseWaitDuration, ConfigRecord
  <1> QED
    BY <1>1, <1>2, <1>3 DEF ConfigNext, AddOrUpdateWhitelist, RemoveWhitelist, AddFeeReceiver,
                            RemoveFeeReceiver

-----------------------------------------------------------------------------
(* init on a live deployment, like every other instruction, changes one    *)
(* part of the configuration and loses no admin.                           *)
THEOREM ConfigAlwaysSurvivesInit == ConfigSpec => ConfigSurvivesInit
  <1> DEFINE Survives ==
        config # None =>
          /\ config' # None
          /\ config.admin # None => config'.admin # None
          /\ config'.admin # config.admin => config' = [config EXCEPT !.admin = config'.admin]
          /\ config'.operators # config.operators =>
               config' = [config EXCEPT !.operators = config'.operators]
  <1>1. ASSUME ConfigTypeOK, ConfigNext, config # None
        PROVE  Survives
    <2>0. config \in ConfigRecord
      BY <1>1 DEF ConfigTypeOK
    <2>1. CASE config' = config
      BY <1>1, <2>1
    <2>2. ASSUME NEW signer \in Wallets, NEW admin \in Admins \cup {None},
                 InitConfig(signer, admin)
          PROVE  Survives
      BY <1>1, <2>0, <2>2, NoneIsNoConfig, ConfigAssumption DEF InitConfig, ConfigRecord
    <2>3. ASSUME NEW signer \in Wallets, NEW operator \in Wallets,
                 AddOperator(signer, operator) \/ RemoveOperator(signer, operator)
          PROVE  Survives
      BY <1>1, <2>0, <2>3, NoneIsNoConfig DEF AddOperator, RemoveOperator, ConfigRecord
    <2>4. ASSUME NEW operator \in Wallets, NEW trade \in Durations \cup {None},
                 NEW payment \in Durations \cup {None},
                 SetCloseWaitDuration(operator, trade, payment)
          PROVE  Survives
      BY <1>1, <2>0, <2>4, NoneIsNoConfig, ConfigAssumption
         DEF SetCloseWaitDuration, ConfigRecord
    <2>5. ASSUME \A signer \in Wallets, admin \in Admins \cup {None} : ~InitConfig(signer, admin),
                 \A signer, operator \in Wallets :
                   ~AddOperator(signer, operator) /\ ~RemoveOperator(signer, operator),
                 \A operator \in Wallets, trade, payment \in Durations \cup {None} :
                   ~SetCloseWaitDuration(operator, trade, payment)
          PROVE  config' = config
      BY <1>1, <2>5 DEF ConfigNext, AddOrUpdateWhitelist, RemoveWhitelist, AddFeeReceiver,
                        RemoveFeeReceiver
    <2> QED
      BY <2>1, <2>2, <2>3, <2>4, <2>5
  <1>2. ConfigTypeOK /\ [ConfigNext]_<<ledgerVars, configVars>>
          => [Survives]_<<ledgerVars, configVars>>
    BY <1>1
  <1> QED
    BY <1>2, ConfigTypeCorrect, PTL DEF ConfigSpec, ConfigSurvivesInit

-----------------------------------------------------------------------------
(* The configuration's instructions move lamports between the signer and   *)
(* the accounts they open and close, and no tokens.                        *)
LEMMA ConfigAddsUp ==
  ASSUME IsFiniteSet(Account), ConfigTypeOK, ConfigNext
  PROVE  LamportsAddUp /\ TokensAddUp
  <1> DEFINE Goal == LamportsAddUp /\ TokensAddUp
             Opens(signer, a, min) == lamports' = Fund(lamports, signer, a, min)
             Closes(a, to) == lamports' = Drain(lamports, a, to)
  <1>0. LedgerTypeOK /\ lamports \in [Account -> Int]
    BY DEF ConfigTypeOK, LedgerTypeOK
  <1>1. /\ Wallets \subseteq Account
        /\ ConfigPda \in Account /\ ProtocolPda \in Account /\ LegacyVaultPda \in Account
        /\ \A m \in Mints : WhitelistPda(m) \in Account
        /\ \A k \in Wallets : ReceiverPda(k) \in Account
        /\ Rent["wallet"] \in Int /\ Rent["config"] \in Int
        /\ Rent["whitelist"] \in Int /\ Rent["receiver"] \in Int
    BY Addresses, Rents
  <1>2. /\ UNCHANGED tokens => TokensAddUp
        /\ UNCHANGED lamports => LamportsAddUp
    BY <1>0, NothingMoved
  <1>4. ASSUME NEW signer \in Wallets, NEW admin \in Admins \cup {None},
               InitConfig(signer, admin)
        PROVE  Goal
    <2> DEFINE legacy   == Fund(lamports, signer, LegacyVaultPda, Rent["wallet"])
               protocol == Fund(legacy, signer, ProtocolPda, Rent["wallet"])
               whole    == Fund(protocol, signer, ConfigPda, Rent["config"])
    <2>0. signer \in Account
      BY <1>1
    <2>1. SameSum(Account, Account, lamports, legacy)
      BY <1>0, <1>1, <2>0, FundSum
    <2> HIDE DEF legacy
    <2>2. SameSum(Account, Account, legacy, protocol)
      <3>1. legacy \in [Account -> Int]
        BY <2>1 DEF SameSum
      <3> QED  BY <1>1, <2>0, <3>1, FundSum
    <2> HIDE DEF protocol
    <2>3. SameSum(Account, Account, protocol, whole)
      <3>1. protocol \in [Account -> Int]
        BY <2>2 DEF SameSum
      <3> QED  BY <1>1, <2>0, <3>1, FundSum
    <2>4. FundInit(signer) = whole
      BY DEF FundInit, legacy, protocol
    <2> HIDE DEF whole
    <2>5. lamports' \in {lamports, whole} /\ UNCHANGED tokens
      BY <1>4, <2>4 DEF InitConfig
    <2>6. SameSum(Account, Account, lamports, whole)
      BY <2>1, <2>2, <2>3, SameSumTwice
    <2> QED  BY <1>2, <2>5, <2>6 DEF LamportsAddUp
  <1>5. ASSUME NEW signer \in Wallets, NEW operator \in Wallets,
               AddOperator(signer, operator) \/ RemoveOperator(signer, operator)
        PROVE  Goal
    BY <1>2, <1>5 DEF AddOperator, RemoveOperator, ledgerVars
  <1>6. ASSUME NEW operator \in Wallets, NEW trade \in Durations \cup {None},
               NEW payment \in Durations \cup {None},
               SetCloseWaitDuration(operator, trade, payment)
        PROVE  Goal
    BY <1>2, <1>6 DEF SetCloseWaitDuration, ledgerVars
  <1>7. ASSUME NEW signer \in Wallets, NEW a \in Account, NEW min \in Int,
               Opens(signer, a, min) \/ Closes(a, signer), UNCHANGED tokens
        PROVE  Goal
    BY <1>0, <1>1, <1>2, <1>7, LamportsMoved
  <1>8. ASSUME NEW operator \in Wallets, NEW m \in Mints, NEW amount \in MinAmounts,
               AddOrUpdateWhitelist(operator, m, amount)
        PROVE  Goal
    <2>1. /\ UNCHANGED lamports \/ Opens(operator, WhitelistPda(m), Rent["whitelist"])
          /\ UNCHANGED tokens
      BY <1>8 DEF AddOrUpdateWhitelist
    <2> QED  BY <1>1, <1>2, <1>7, <2>1
  <1>9. ASSUME NEW operator \in Wallets, NEW token \in Mints, NEW m \in Mints,
               RemoveWhitelist(operator, token, m)
        PROVE  Goal
    <2>1. Closes(WhitelistPda(m), operator) /\ UNCHANGED tokens
      BY <1>9 DEF RemoveWhitelist
    <2> QED  BY <1>1, <1>7, <2>1
  <1>10. ASSUME NEW signer \in Wallets, NEW receiver \in Wallets,
                AddFeeReceiver(signer, receiver)
         PROVE  Goal
    <2>1. Opens(signer, ReceiverPda(receiver), Rent["receiver"]) /\ UNCHANGED tokens
      BY <1>10 DEF AddFeeReceiver
    <2> QED  BY <1>1, <1>7, <2>1
  <1>11. ASSUME NEW signer \in Wallets, NEW receiver \in Wallets,
                RemoveFeeReceiver(signer, receiver)
         PROVE  Goal
    <2>1. Closes(ReceiverPda(receiver), signer) /\ UNCHANGED tokens
      BY <1>11 DEF RemoveFeeReceiver
    <2> QED  BY <1>1, <1>7, <2>1
  <1> QED
    BY <1>4, <1>5, <1>6, <1>8, <1>9, <1>10, <1>11 DEF ConfigNext

(* A step that adds up keeps the value there was at the start.             *)
LEMMA ValueStep ==
  ASSUME LedgerTypeOK, ValueConserved, LamportsAddUp, TokensAddUp
  PROVE  ValueConserved'
  <1>1. /\ DOMAIN lamports = Account /\ DOMAIN lamports' = Account
        /\ DOMAIN Start.lamports = Account
    BY StartAssumption DEF LedgerTypeOK, LamportsAddUp, SameSum
  <1>2. SumFunction(lamports)' = SumFunction(Start.lamports)
    BY <1>1 DEF ValueConserved, LamportsAddUp, SameSum, SumFunction
  <1>3. \A m \in Mints : SumFunctionOnSet(tokens', Held(m)) = SumFunctionOnSet(Start.tokens, Held(m))
    BY DEF ValueConserved, TokensAddUp, SameSum, Held
  <1> QED
    BY <1>2, <1>3 DEF ValueConserved, Held

(* A token account drained into another of the same mint.                  *)
LEMMA TokensDrained ==
  ASSUME IsFiniteSet(Account), LedgerTypeOK, NEW o \in Owner, NEW p \in Owner, NEW m \in Mints,
         tokens' = Drain(tokens, Ata(o, m), Ata(p, m))
  PROVE  TokensAddUp
  <1>1. /\ tokens \in [TokenAccount -> Int]
        /\ Ata(o, m) \in TokenAccount /\ Ata(p, m) \in TokenAccount
    BY Addresses DEF LedgerTypeOK
  <1>2. ASSUME NEW k \in Mints
        PROVE  SameSum(TokenAccount, Held(k), tokens, Drain(tokens, Ata(o, m), Ata(p, m)))
    <2>1. /\ Held(k) \in SUBSET TokenAccount /\ IsFiniteSet(Held(k))
          /\ Ata(o, m) \in Held(k) <=> Ata(p, m) \in Held(k)
      BY FiniteLedger, HeldFacts
    <2> QED  BY <1>1, <2>1, DrainSum
  <1> QED
    BY <1>2 DEF TokensAddUp
=============================================================================
