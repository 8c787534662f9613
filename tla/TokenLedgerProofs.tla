------------------------- MODULE TokenLedgerProofs -------------------------
(***************************************************************************)
(* The ledger conserves its tokens, for any number of addresses and any    *)
(* U64Max.  TypeOK needs Conserved (a Move has no overflow check) and      *)
(* Conserved needs HoldersHaveMints, so the three are proved together.     *)
(***************************************************************************)
EXTENDS TokenLedger, TotalsTheorems

LedgerInv == TypeOK /\ HoldersHaveMints /\ Conserved

\* The holdings of a mint are amounts, so their total is a number.
LEMMA HoldingType ==
    ASSUME TypeOK, NEW m \in Key
    PROVE  /\ Holding(m) \in [Key -> U64]
           /\ Total(Holding(m)) \in Nat
<1>1. Holding(m) \in [Key -> U64]
  BY U64Assumption DEF TypeOK, Holding, U64
<1> HIDE DEF Holding
<1> QED
  BY <1>1, TotalType, LedgerAssumption

\* No holder has more than its mint issued, two holders included.
LEMMA BalancesFitSupply ==
    ASSUME LedgerInv, NEW a \in Key, NEW b \in Key,
           a # b, mintOf[a] # None, mintOf[b] = mintOf[a]
    PROVE  balance[a] + balance[b] <= U64Max
<1> DEFINE m == mintOf[a]
<1>1. m \in Key /\ supply[m] \in U64 /\ supply[m] = Total(Holding(m))
  BY DEF LedgerInv, TypeOK, HoldersHaveMints, Conserved
<1>2. Holding(m)[a] = balance[a] /\ Holding(m)[b] = balance[b]
  BY DEF Holding
<1>3. Holding(m) \in [Key -> U64]
  BY <1>1, HoldingType DEF LedgerInv
<1>4. balance[a] + balance[b] <= supply[m]
  <2> DEFINE f == Holding(m)
  <2>1. f \in [Key -> U64] /\ f[a] = balance[a] /\ f[b] = balance[b]
    BY <1>2, <1>3
  <2>2. f[a] + f[b] <= Total(f)
    <3> HIDE DEF f
    <3> QED
      BY <2>1, TotalBoundsTwo, LedgerAssumption
  <2> QED
    BY <1>1, <2>1, <2>2
<1>5. /\ balance[a] \in Nat /\ balance[b] \in Nat
      /\ supply[m] \in Nat /\ supply[m] <= U64Max
  BY <1>1, U64Assumption DEF LedgerInv, TypeOK, U64
<1> QED
  BY <1>4, <1>5, U64Assumption

LEMMA InitEstablishesLedgerInv == Init => LedgerInv
<1> SUFFICES ASSUME Init PROVE LedgerInv
  OBVIOUS
<1>1. TypeOK /\ HoldersHaveMints
  BY U64Assumption DEF Init, TypeOK, HoldersHaveMints, U64
<1>2. ASSUME NEW m \in Key, supply[m] # None
      PROVE  supply[m] = Total(Holding(m))
  <2>1. Holding(m) \in [Key -> U64] /\ \A k \in Key : Holding(m)[k] = 0
    BY U64Assumption DEF Init, Holding, U64
  <2>2. Total(Holding(m)) = 0
    <3> HIDE DEF Holding
    <3> QED
      BY <2>1, TotalZero
  <2> QED
    BY <1>2, <2>2 DEF Init
<1> QED
  BY <1>1, <1>2 DEF LedgerInv, Conserved

LEMMA CreateMintKeepsLedgerInv ==
    ASSUME LedgerInv, NEW m \in Key, CreateMint(m)
    PROVE  LedgerInv'
<1> USE DEF LedgerInv
<1>1. TypeOK' /\ HoldersHaveMints'
  BY U64Assumption, LedgerAssumption
     DEF CreateMint, TypeOK, HoldersHaveMints, U64
<1>2. ASSUME NEW p \in Key, supply'[p] # None
      PROVE  supply'[p] = Total(Holding(p)')
  <2>1. Holding(p)' = Holding(p)
    BY DEF CreateMint, Holding
  <2>2. CASE p = m
    <3>1. Holding(p) \in [Key -> U64] /\ \A k \in Key : Holding(p)[k] = 0
      BY <2>2, U64Assumption
         DEF CreateMint, TypeOK, HoldersHaveMints, Holding, U64
    <3>2. Total(Holding(p)) = 0
      <4> HIDE DEF Holding
      <4> QED
        BY <3>1, TotalZero
    <3> QED
      BY <2>1, <2>2, <3>2 DEF CreateMint, TypeOK
  <2>3. CASE p # m
    BY <1>2, <2>1, <2>3 DEF CreateMint, TypeOK, Conserved
  <2> QED
    BY <2>2, <2>3
<1> QED
  BY <1>1, <1>2 DEF Conserved

LEMMA OpenKeepsLedgerInv ==
    ASSUME LedgerInv, NEW h \in Key, NEW m \in Key, Open(h, m)
    PROVE  LedgerInv'
<1> USE DEF LedgerInv
<1>1. TypeOK' /\ HoldersHaveMints'
  BY LedgerAssumption DEF Open, TypeOK, HoldersHaveMints
<1>2. ASSUME NEW p \in Key PROVE Holding(p)' = Holding(p)
  BY DEF Open, TypeOK, HoldersHaveMints, Holding
<1> QED
  BY <1>1, <1>2 DEF Open, Conserved

LEMMA CloseKeepsLedgerInv ==
    ASSUME LedgerInv, NEW h \in Key, Close(h)
    PROVE  LedgerInv'
<1> USE DEF LedgerInv
<1>1. TypeOK' /\ HoldersHaveMints'
  BY LedgerAssumption DEF Close, TypeOK, HoldersHaveMints
<1>2. ASSUME NEW p \in Key PROVE Holding(p)' = Holding(p)
  BY LedgerAssumption DEF Close, TypeOK, Holding
<1> QED
  BY <1>1, <1>2 DEF Close, Conserved

LEMMA MintKeepsLedgerInv ==
    ASSUME LedgerInv, NEW h \in Key, NEW n \in U64, Mint(h, n)
    PROVE  LedgerInv'
<1> DEFINE m == mintOf[h]
<1>1. /\ m \in Key /\ supply[m] \in U64 /\ balance[h] \in U64
      /\ supply[m] = Total(Holding(m))
      /\ Holding(m) \in [Key -> U64] /\ Holding(m)[h] = balance[h]
  BY HoldingType
     DEF Mint, LedgerInv, TypeOK, HoldersHaveMints, Conserved, Holding
<1>2. balance[h] <= supply[m]
  <2>1. Holding(m)[h] <= Total(Holding(m))
    <3> HIDE DEF Holding, m
    <3> QED
      BY <1>1, TotalBounds, LedgerAssumption
  <2> QED
    BY <1>1, <2>1
<1>3. supply[m] + n \in U64 /\ balance[h] + n \in U64
  BY <1>1, <1>2, U64Assumption DEF Mint, U64
<1>4. TypeOK' /\ HoldersHaveMints'
  BY <1>1, <1>3, LedgerAssumption
     DEF Mint, LedgerInv, TypeOK, HoldersHaveMints
<1>5. Holding(m)' = [Holding(m) EXCEPT ![h] = Holding(m)[h] + n]
  BY <1>1 DEF Mint, LedgerInv, TypeOK, Holding
<1>6. Total(Holding(m)') = Total(Holding(m)) + n
  <2>1. n \in Nat /\ Holding(m)[h] + n <= U64Max
    BY <1>1, <1>3, U64Assumption DEF U64
  <2> DEFINE f == Holding(m)
  <2>2. Total([f EXCEPT ![h] = f[h] + n]) = Total(f) + n
    <3>1. f \in [Key -> U64] /\ n \in Nat /\ f[h] + n <= U64Max
      BY <1>1, <2>1
    <3>2. IsFiniteSet(Key)
      BY LedgerAssumption
    <3> HIDE DEF f
    <3> QED
      BY <3>1, <3>2, TotalCredit, ZenonT(60)
  <2> QED
    BY <1>5, <2>2
<1>7. ASSUME NEW p \in Key, p # m PROVE Holding(p)' = Holding(p)
  BY <1>7 DEF Mint, LedgerInv, TypeOK, Holding
<1> QED
  BY <1>1, <1>4, <1>6, <1>7 DEF Mint, LedgerInv, TypeOK, Conserved

LEMMA BurnKeepsLedgerInv ==
    ASSUME LedgerInv, NEW h \in Key, NEW n \in U64, Burn(h, n)
    PROVE  LedgerInv'
<1> DEFINE m == mintOf[h]
<1>1. /\ m \in Key /\ supply[m] \in U64 /\ balance[h] \in U64
      /\ supply[m] = Total(Holding(m))
      /\ Holding(m) \in [Key -> U64] /\ Holding(m)[h] = balance[h]
  BY HoldingType
     DEF Burn, LedgerInv, TypeOK, HoldersHaveMints, Conserved, Holding
<1>2. balance[h] <= supply[m]
  <2>1. Holding(m)[h] <= Total(Holding(m))
    <3> HIDE DEF Holding, m
    <3> QED
      BY <1>1, TotalBounds, LedgerAssumption
  <2> QED
    BY <1>1, <2>1
<1>3. supply[m] - n \in U64 /\ balance[h] - n \in U64
  BY <1>1, <1>2, U64Assumption DEF Burn, U64
<1>4. TypeOK' /\ HoldersHaveMints'
  BY <1>1, <1>3, LedgerAssumption
     DEF Burn, LedgerInv, TypeOK, HoldersHaveMints
<1>5. Holding(m)' = [Holding(m) EXCEPT ![h] = Holding(m)[h] - n]
  BY <1>1 DEF Burn, LedgerInv, TypeOK, Holding
<1>6. Total(Holding(m)') = Total(Holding(m)) - n
  <2>1. n \in Nat /\ n <= Holding(m)[h]
    BY <1>1, U64Assumption DEF Burn, U64
  <2> DEFINE f == Holding(m)
  <2>2. Total([f EXCEPT ![h] = f[h] - n]) = Total(f) - n
    <3>1. f \in [Key -> U64] /\ n \in Nat /\ n <= f[h]
      BY <1>1, <2>1
    <3>2. IsFiniteSet(Key)
      BY LedgerAssumption
    <3> HIDE DEF f
    <3> QED
      BY <3>1, <3>2, TotalDebit, ZenonT(60)
  <2> QED
    BY <1>5, <2>2
<1>7. ASSUME NEW p \in Key, p # m PROVE Holding(p)' = Holding(p)
  BY <1>7 DEF Burn, LedgerInv, TypeOK, Holding
<1> QED
  BY <1>1, <1>4, <1>6, <1>7 DEF Burn, LedgerInv, TypeOK, Conserved

LEMMA MoveKeepsLedgerInv ==
    ASSUME LedgerInv, NEW a \in Key, NEW b \in Key, NEW n \in U64,
           Move(a, b, n)
    PROVE  LedgerInv'
<1> DEFINE m == mintOf[a]
<1>1. /\ m \in Key /\ balance[a] \in U64 /\ balance[b] \in U64
      /\ Holding(m) \in [Key -> U64]
      /\ Holding(m)[a] = balance[a] /\ Holding(m)[b] = balance[b]
  BY HoldingType, ZenonT(60)
     DEF Move, LedgerInv, TypeOK, HoldersHaveMints, Holding
<1>2. balance[a] + balance[b] <= U64Max
  BY BalancesFitSupply DEF Move
<1>3. balance[a] - n \in U64 /\ balance[b] + n \in U64
  BY <1>1, <1>2, U64Assumption DEF Move, U64
<1>4. TypeOK' /\ HoldersHaveMints'
  BY <1>3 DEF Move, LedgerInv, TypeOK, HoldersHaveMints
<1>5. Total(Holding(m)') = Total(Holding(m))
  <2> DEFINE f == Holding(m)
             g == Holding(m)'
  <2>1. /\ f \in [Key -> U64] /\ g \in [Key -> U64] /\ n \in Nat
        /\ g[a] = f[a] - n /\ g[b] = f[b] + n
        /\ \A k \in Key : k # a /\ k # b => g[k] = f[k]
    BY <1>1, <1>3, <1>4, U64Assumption DEF Move, LedgerInv, TypeOK, Holding, U64
  <2>2. a # b /\ IsFiniteSet(Key)
    BY LedgerAssumption DEF Move
  <2> HIDE DEF f, g
  <2>3. Total(g) = Total(f)
    BY <2>1, <2>2, TotalMove
  <2> QED
    BY <2>3 DEF f, g
<1>6. ASSUME NEW p \in Key, p # m PROVE Holding(p)' = Holding(p)
  BY <1>6 DEF Move, LedgerInv, TypeOK, Holding
<1> QED
  BY <1>4, <1>5, <1>6 DEF Move, LedgerInv, TypeOK, Conserved

LEMMA NextKeepsLedgerInv == LedgerInv /\ [Next]_ledgerVars => LedgerInv'
<1> SUFFICES ASSUME LedgerInv, [Next]_ledgerVars PROVE LedgerInv'
  OBVIOUS
<1>1. ASSUME NEW m \in Key, CreateMint(m) PROVE LedgerInv'
  BY <1>1, CreateMintKeepsLedgerInv
<1>2. ASSUME NEW h \in Key, NEW m \in Key, Open(h, m) PROVE LedgerInv'
  BY <1>2, OpenKeepsLedgerInv
<1>3. ASSUME NEW h \in Key, Close(h) PROVE LedgerInv'
  BY <1>3, CloseKeepsLedgerInv
<1>4. ASSUME NEW h \in Key, NEW n \in U64, Mint(h, n) PROVE LedgerInv'
  BY <1>4, MintKeepsLedgerInv
<1>5. ASSUME NEW h \in Key, NEW n \in U64, Burn(h, n) PROVE LedgerInv'
  BY <1>5, BurnKeepsLedgerInv
<1>6. ASSUME NEW a \in Key, NEW b \in Key, NEW n \in U64, Move(a, b, n)
      PROVE  LedgerInv'
  BY <1>6, MoveKeepsLedgerInv
<1>7. CASE UNCHANGED ledgerVars
  BY <1>7 DEF ledgerVars, LedgerInv, TypeOK, HoldersHaveMints, Conserved,
              Holding
<1> QED
  BY <1>1, <1>2, <1>3, <1>4, <1>5, <1>6, <1>7 DEF Next

\* The variables of the ledger keep their types: no balance or supply
\* overflows or goes below zero.
THEOREM LedgerTypeOK == Spec => []TypeOK
<1>1. Init => LedgerInv
  BY InitEstablishesLedgerInv
<1>2. LedgerInv /\ [Next]_ledgerVars => LedgerInv'
  BY NextKeepsLedgerInv
<1>3. LedgerInv => TypeOK
  BY DEF LedgerInv
<1> QED
  BY <1>1, <1>2, <1>3, PTL DEF Spec

\* The supply of every mint is the sum of the balances of its accounts, and
\* no account outlives its mint.
THEOREM LedgerConserved == Spec => [](Conserved /\ HoldersHaveMints)
<1>1. Init => LedgerInv
  BY InitEstablishesLedgerInv
<1>2. LedgerInv /\ [Next]_ledgerVars => LedgerInv'
  BY NextKeepsLedgerInv
<1>3. LedgerInv => Conserved /\ HoldersHaveMints
  BY DEF LedgerInv
<1> QED
  BY <1>1, <1>2, <1>3, PTL DEF Spec

=============================================================================
