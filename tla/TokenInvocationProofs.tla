------------------------ MODULE TokenInvocationProofs ------------------------
(***************************************************************************)
(* The step-by-step program implements Token, for every set of clients,    *)
(* addresses and amounts.                                                  *)
(*                                                                         *)
(* Nothing is committed before the last step, so the accounts a handler    *)
(* was given are there to compare with until then.  Before is the handler  *)
(* that looks at them still; the invariant says of every stage what the    *)
(* handler has found out about them, and while it writes, that what is     *)
(* left to write leads from the accounts at hand to where all its writes   *)
(* lead from the committed ones.  When the runtime commits, these findings *)
(* are the guard, and the writes the effect, of an action of Token.        *)
(***************************************************************************)
EXTENDS TokenInvocationProperties, SequenceTheorems, FiniteSetTheorems, TLAPS

-----------------------------------------------------------------------------
(* Instructions.                                                           *)

\* An entry of the account list.
AccountMeta ==
    [pubkey : Key \cup {RentSysvar}, is_signer : BOOLEAN, is_writable : BOOLEAN]

\* What clients pass as the n-th account.
Places(tag, n) ==
    IF \/ tag \in {"InitializeMint", "InitializeMultisig"} /\ n = 2
       \/ tag = "InitializeAccount" /\ n = 4
       \/ tag = "InitializeAccount2" /\ n = 3
    THEN {RentSysvar}
    ELSE IF tag = "InitializeAccount" /\ n = 3 THEN Owners
    ELSE IF \/ tag = "InitializeMultisig" /\ n > 2
            \/ tag = "InitializeMultisig2" /\ n > 1
    THEN Signer
    ELSE IF \/ tag = "Approve" /\ n = 2
            \/ tag = "ApproveChecked" /\ n = 3
    THEN Delegates
    ELSE IF tag = "CloseAccount" /\ n = 2 THEN Refund
    ELSE Key

\* What they pass as the operands.
AreOperands(op) ==
    /\ op.tag \in {"InitializeMint", "InitializeMint2"} =>
          /\ op.decimals \in Decimals
          /\ op.mint_authority \in MintAuthorities
          /\ op.freeze_authority \in FreezeAuthorities \cup {None}
    /\ op.tag \in {"InitializeAccount2", "InitializeAccount3"} => op.owner \in Owners
    /\ op.tag \in {"InitializeMultisig", "InitializeMultisig2"} =>
          op.m \in 0 .. MaxSigners + 1
    /\ op.tag \in {"Transfer", "TransferChecked", "MintTo", "MintToChecked",
                   "Burn", "BurnChecked"} => op.amount \in Amount
    /\ op.tag \in {"Approve", "ApproveChecked"} => op.amount \in Allowance
    /\ op.tag \in {"TransferChecked", "ApproveChecked", "MintToChecked", "BurnChecked"} =>
          op.decimals \in Decimals
    /\ op.tag = "SetAuthority" =>
          \/ /\ op.authority_type \in AuthorityType
             /\ op.new_authority = None
          \/ op.authority_type = "MintTokens" /\ op.new_authority \in MintAuthorities
          \/ op.authority_type = "FreezeAccount" /\ op.new_authority \in FreezeAuthorities
          \/ op.authority_type = "AccountOwner" /\ op.new_authority \in Owners
          \/ op.authority_type = "CloseAccount" /\ op.new_authority \in CloseAuthorities

IsInstruction(c) ==
    /\ c.accounts \in Seq(AccountMeta)
    /\ AreOperands(c.data)
    /\ \A n \in 1 .. Len(c.accounts) :
          c.accounts[n].pubkey \in Places(c.data.tag, n)

-----------------------------------------------------------------------------
(* Short lists.                                                            *)

LEMMA JoinOne ==
    \A v, w : <<>> \o <<v>> = <<v>> /\ <<v>> \o <<w>> = <<v, w>>
<1> SUFFICES ASSUME NEW v, NEW w
             PROVE  <<>> \o <<v>> = <<v>> /\ <<v>> \o <<w>> = <<v, w>>
  OBVIOUS
<1> DEFINE S == {v, w}
<1>1. <<v>> \in Seq(S) /\ <<w>> \in Seq(S) /\ <<v, w>> \in Seq(S)
  OBVIOUS
<1>2. /\ <<v>> \o <<w>> \in Seq(S) /\ Len(<<v>> \o <<w>>) = 2
      /\ \A i \in 1 .. 2 : (<<v>> \o <<w>>)[i] = <<v, w>>[i]
  BY <1>1, ConcatProperties
<1>3. <<v>> \o <<w>> = <<v, w>>
  BY <1>1, <1>2, SeqEqual
<1> QED
  BY <1>1, <1>3, ConcatEmptySeq

LEMMA JoinTwo ==
    \A v, w, x, y : <<v, w>> \o <<x, y>> = <<v, w, x, y>>
<1> SUFFICES ASSUME NEW v, NEW w, NEW x, NEW y
             PROVE  <<v, w>> \o <<x, y>> = <<v, w, x, y>>
  OBVIOUS
<1> DEFINE S == {v, w, x, y}
<1>1. <<v, w>> \in Seq(S) /\ <<x, y>> \in Seq(S) /\ <<v, w, x, y>> \in Seq(S)
  OBVIOUS
<1>2. /\ <<v, w>> \o <<x, y>> \in Seq(S) /\ Len(<<v, w>> \o <<x, y>>) = 4
      /\ \A i \in 1 .. 4 : (<<v, w>> \o <<x, y>>)[i] = <<v, w, x, y>>[i]
  BY <1>1, ConcatProperties
<1> QED
  BY <1>1, <1>2, SeqEqual

LEMMA JoinThird ==
    \A v, w, x : <<v, w>> \o <<x>> = <<v, w, x>>
<1> SUFFICES ASSUME NEW v, NEW w, NEW x
             PROVE  <<v, w>> \o <<x>> = <<v, w, x>>
  OBVIOUS
<1> DEFINE S == {v, w, x}
<1>1. <<v, w>> \in Seq(S) /\ <<x>> \in Seq(S) /\ <<v, w, x>> \in Seq(S)
  OBVIOUS
<1>2. /\ <<v, w>> \o <<x>> \in Seq(S) /\ Len(<<v, w>> \o <<x>>) = 3
      /\ \A i \in 1 .. 3 : (<<v, w>> \o <<x>>)[i] = <<v, w, x>>[i]
  BY <1>1, ConcatProperties
<1> QED
  BY <1>1, <1>2, SeqEqual

LEMMA JoinFourth ==
    \A v, w, x, y : <<v, w, x>> \o <<y>> = <<v, w, x, y>>
<1> SUFFICES ASSUME NEW v, NEW w, NEW x, NEW y
             PROVE  <<v, w, x>> \o <<y>> = <<v, w, x, y>>
  OBVIOUS
<1> DEFINE S == {v, w, x, y}
<1>1. <<v, w, x>> \in Seq(S) /\ <<y>> \in Seq(S) /\ <<v, w, x, y>> \in Seq(S)
  OBVIOUS
<1>2. /\ <<v, w, x>> \o <<y>> \in Seq(S) /\ Len(<<v, w, x>> \o <<y>>) = 4
      /\ \A i \in 1 .. 4 : (<<v, w, x>> \o <<y>>)[i] = <<v, w, x, y>>[i]
  BY <1>1, ConcatProperties
<1> QED
  BY <1>1, <1>2, SeqEqual

-----------------------------------------------------------------------------
(* What the builders list.                                                 *)

\* The accounts a builder lists before the signers of a multisig.
Leading(i) ==
    CASE i.tag = "InitializeMint" -> <<i.mint, RentSysvar>>
      [] i.tag = "InitializeMint2" -> <<i.mint>>
      [] i.tag = "InitializeAccount" -> <<i.account, i.mint, i.owner, RentSysvar>>
      [] i.tag = "InitializeAccount2" -> <<i.account, i.mint, RentSysvar>>
      [] i.tag = "InitializeAccount3" -> <<i.account, i.mint>>
      [] i.tag = "InitializeMultisig" -> <<i.multisig, RentSysvar>>
      [] i.tag = "InitializeMultisig2" -> <<i.multisig>>
      [] i.tag = "Transfer" -> <<i.source, i.destination, i.authority>>
      [] i.tag = "TransferChecked" -> <<i.source, i.mint, i.destination, i.authority>>
      [] i.tag = "Approve" -> <<i.source, i.delegate, i.authority>>
      [] i.tag = "ApproveChecked" -> <<i.source, i.mint, i.delegate, i.authority>>
      [] i.tag = "Revoke" -> <<i.source, i.authority>>
      [] i.tag = "SetAuthority" -> <<i.owned, i.authority>>
      [] i.tag \in {"MintTo", "MintToChecked"} -> <<i.mint, i.account, i.authority>>
      [] i.tag \in {"Burn", "BurnChecked", "FreezeAccount", "ThawAccount"} ->
            <<i.account, i.mint, i.authority>>
      [] i.tag = "CloseAccount" -> <<i.account, i.destination, i.authority>>
      [] i.tag \in {"SyncNative", "InitializeImmutableOwner"} -> <<i.account>>
      [] OTHER -> <<i.mint>>

\* The operands are those of the intent.
Carries(op, i) ==
    /\ op.tag = i.tag
    /\ i.tag \in {"InitializeMint", "InitializeMint2"} =>
          /\ op.decimals = i.decimals
          /\ op.mint_authority = i.mint_authority
          /\ op.freeze_authority = i.freeze_authority
    /\ i.tag \in {"InitializeAccount2", "InitializeAccount3"} => op.owner = i.owner
    /\ i.tag \in {"InitializeMultisig", "InitializeMultisig2"} => op.m = i.m
    /\ i.tag \in {"Transfer", "TransferChecked", "MintTo", "MintToChecked", "Burn",
                  "BurnChecked", "Approve", "ApproveChecked"} => op.amount = i.amount
    /\ i.tag \in {"TransferChecked", "ApproveChecked", "MintToChecked", "BurnChecked"} =>
          op.decimals = i.decimals
    /\ i.tag = "SetAuthority" =>
          op.authority_type = i.change[1] /\ op.new_authority = i.change[2]

\* A list of accounts: first the keys, then others.
Lists(l, keys, others) ==
    /\ l \in Seq(AccountMeta)
    /\ Len(keys) <= Len(l)
    /\ \A n \in 1 .. Len(l) :
          IF n <= Len(keys) THEN l[n].pubkey = keys[n] ELSE l[n].pubkey \in others

\* An entry of the list.
Entry(k, isSigner, isWritable) ==
    [pubkey |-> k, is_signer |-> isSigner, is_writable |-> isWritable]

LEMMA EntryIsMeta ==
    ASSUME NEW k \in Key \cup {RentSysvar}, NEW b \in BOOLEAN, NEW c \in BOOLEAN
    PROVE  Entry(k, b, c) \in AccountMeta /\ Entry(k, b, c).pubkey = k
BY DEF Entry, AccountMeta

\* What the builders list an account with.
IsItem(a, k) == k \in Key \cup {RentSysvar} /\ a \in {Writable(k), Readonly(k)}

LEMMA ItemIsMeta ==
    ASSUME NEW a, NEW k, IsItem(a, k)
    PROVE  \E v \in AccountMeta : v.pubkey = k /\ a = <<v>>
<1>1. k \in Key \cup {RentSysvar}
  BY DEF IsItem
<1>2. CASE a = Writable(k)
  <2>1. a = <<Entry(k, FALSE, TRUE)>>
    BY <1>2 DEF Writable, Entry
  <2>2. Entry(k, FALSE, TRUE) \in AccountMeta /\ Entry(k, FALSE, TRUE).pubkey = k
    BY <1>1, EntryIsMeta
  <2> QED
    BY <2>1, <2>2
<1>3. CASE a = Readonly(k)
  <2>1. a = <<Entry(k, FALSE, FALSE)>>
    BY <1>3 DEF Readonly, Entry
  <2>2. Entry(k, FALSE, FALSE) \in AccountMeta /\ Entry(k, FALSE, FALSE).pubkey = k
    BY <1>1, EntryIsMeta
  <2> QED
    BY <2>1, <2>2
<1> QED
  BY <1>2, <1>3 DEF IsItem

LEMMA FunctionIsList ==
    ASSUME NEW S, NEW n \in Nat, NEW f \in [1 .. n -> S]
    PROVE  f \in Seq(S) /\ Len(f) = n
OBVIOUS

LEMMA ListedAre ==
    ASSUME NEW S \in SUBSET Key, NEW s \in Seq(S), NEW b \in BOOLEAN
    PROVE  /\ Listed(s, b) \in Seq(AccountMeta) /\ Len(Listed(s, b)) = Len(s)
           /\ \A n \in 1 .. Len(s) : Listed(s, b)[n].pubkey = s[n]
<1> DEFINE n == Len(s)
           f == [p \in 1 .. n |-> Entry(s[p], b, FALSE)]
<1>1. n \in Nat /\ DOMAIN s = 1 .. n /\ \A p \in 1 .. n : s[p] \in S
  OBVIOUS
<1>2. Listed(s, b) = f
  BY <1>1 DEF Listed, Entry
<1>3. \A p \in 1 .. n : Entry(s[p], b, FALSE) \in AccountMeta
  BY <1>1, EntryIsMeta
<1>4. f \in [1 .. n -> AccountMeta]
  BY <1>3
<1>5. \A p \in 1 .. n : f[p] = Entry(s[p], b, FALSE)
  OBVIOUS
<1> HIDE DEF f
<1>6. f \in Seq(AccountMeta) /\ Len(f) = n
  <2>1. n \in Nat
    BY <1>1
  <2> QED
    BY <1>4, <2>1, FunctionIsList
<1>7. \A p \in 1 .. n : f[p].pubkey = s[p]
  <2>1. \A p \in 1 .. n : Entry(s[p], b, FALSE).pubkey = s[p]
    BY DEF Entry
  <2> QED
    BY <1>5, <2>1
<1> DEFINE g == Listed(s, b)
<1>8. g = f
  BY <1>2
<1> HIDE DEF g
<1>9. /\ g \in Seq(AccountMeta) /\ Len(g) = Len(s)
      /\ \A p \in 1 .. Len(s) : g[p].pubkey = s[p]
  BY <1>6, <1>7, <1>8
<1> QED
  BY <1>9, Zenon DEF g

LEMMA KeyInKey == Key \in SUBSET Key
OBVIOUS

\* Accounts, and nothing after them.
LEMMA ListsOne ==
    ASSUME NEW a, NEW j, IsItem(a, j)
    PROVE  Lists(a, <<j>>, Key)
<1>1. PICK v \in AccountMeta : v.pubkey = j /\ a = <<v>>
  BY ItemIsMeta
<1>2. Lists(<<v>>, <<j>>, Key)
  BY <1>1 DEF Lists
<1> QED
  BY <1>1, <1>2

LEMMA ListsTwo ==
    ASSUME NEW a, NEW j, NEW b, NEW k, IsItem(a, j), IsItem(b, k)
    PROVE  Lists(a \o b, <<j, k>>, Key)
<1>1. PICK v \in AccountMeta : v.pubkey = j /\ a = <<v>>
  BY ItemIsMeta
<1>2. PICK w \in AccountMeta : w.pubkey = k /\ b = <<w>>
  BY ItemIsMeta
<1>3. Lists(<<v, w>>, <<j, k>>, Key)
  BY <1>1, <1>2 DEF Lists
<1>4. <<v>> \o <<w>> = <<v, w>>
  BY JoinOne
<1> QED
  BY <1>1, <1>2, <1>3, <1>4

LEMMA ListsThree ==
    ASSUME NEW a, NEW j, NEW b, NEW k, NEW c, NEW l,
           IsItem(a, j), IsItem(b, k), IsItem(c, l)
    PROVE  Lists(a \o b \o c, <<j, k, l>>, Key)
<1>1. PICK v \in AccountMeta : v.pubkey = j /\ a = <<v>>
  BY ItemIsMeta
<1>2. PICK w \in AccountMeta : w.pubkey = k /\ b = <<w>>
  BY ItemIsMeta
<1>3. PICK x \in AccountMeta : x.pubkey = l /\ c = <<x>>
  BY ItemIsMeta
<1>4. Lists(<<v, w, x>>, <<j, k, l>>, Key)
  BY <1>1, <1>2, <1>3 DEF Lists
<1>5. /\ <<v>> \o <<w>> = <<v, w>>
      /\ <<v, w>> \o <<x>> = <<v, w, x>>
  BY JoinOne, JoinThird
<1> QED
  BY <1>1, <1>2, <1>3, <1>4, <1>5

LEMMA ListsFour ==
    ASSUME NEW a, NEW j, NEW b, NEW k, NEW c, NEW l, NEW d, NEW m,
           IsItem(a, j), IsItem(b, k), IsItem(c, l), IsItem(d, m)
    PROVE  Lists(a \o b \o c \o d, <<j, k, l, m>>, Key)
<1>1. PICK v \in AccountMeta : v.pubkey = j /\ a = <<v>>
  BY ItemIsMeta
<1>2. PICK w \in AccountMeta : w.pubkey = k /\ b = <<w>>
  BY ItemIsMeta
<1>3. PICK x \in AccountMeta : x.pubkey = l /\ c = <<x>>
  BY ItemIsMeta
<1>4. PICK y \in AccountMeta : y.pubkey = m /\ d = <<y>>
  BY ItemIsMeta
<1>5. Lists(<<v, w, x, y>>, <<j, k, l, m>>, Key)
  BY <1>1, <1>2, <1>3, <1>4 DEF Lists
<1>6. /\ <<v>> \o <<w>> = <<v, w>>
      /\ <<v, w>> \o <<x>> = <<v, w, x>>
      /\ <<v, w, x>> \o <<y>> = <<v, w, x, y>>
  BY JoinOne, JoinThird, JoinFourth
<1> QED
  BY <1>1, <1>2, <1>3, <1>4, <1>5, <1>6

\* Entries listed after a head.
LEMMA ListsThen ==
    ASSUME NEW h \in Seq(AccountMeta), NEW t \in Seq(AccountMeta), NEW S,
           NEW s \in Seq(S), Len(t) = Len(s), \A n \in 1 .. Len(s) : t[n].pubkey = s[n]
    PROVE  /\ h \o t \in Seq(AccountMeta)
           /\ Len(h \o t) = Len(h) + Len(s)
           /\ \A n \in 1 .. Len(h) : (h \o t)[n] = h[n]
           /\ \A n \in 1 .. Len(s) : (h \o t)[Len(h) + n].pubkey = s[n]
           /\ \A n \in Len(h) + 1 .. Len(h \o t) : (h \o t)[n].pubkey \in S
<1> DEFINE l == h \o t
<1>1. /\ l \in Seq(AccountMeta) /\ Len(l) = Len(h) + Len(t)
      /\ \A n \in 1 .. Len(l) : l[n] = IF n <= Len(h) THEN h[n] ELSE t[n - Len(h)]
  <2>1. /\ l \in Seq(AccountMeta) /\ Len(l) = Len(h) + Len(t)
        /\ \A n \in 1 .. Len(h) + Len(t) :
              l[n] = IF n <= Len(h) THEN h[n] ELSE t[n - Len(h)]
    BY ConcatProperties, Zenon
  <2> QED
    BY <2>1, Zenon
<1>2. Len(h) \in Nat /\ Len(s) \in Nat /\ \A n \in 1 .. Len(s) : s[n] \in S
  OBVIOUS
<1> HIDE DEF l
<1>3. \A n \in 1 .. Len(s) : l[Len(h) + n].pubkey = s[n]
  BY <1>1, <1>2
<1>4. ASSUME NEW n \in Len(h) + 1 .. Len(l)
      PROVE  l[n].pubkey \in S
  <2>1. n - Len(h) \in 1 .. Len(s) /\ l[n] = t[n - Len(h)]
    BY <1>1, <1>2
  <2> QED
    BY <1>2, <2>1
<1>5. \A n \in 1 .. Len(h) : l[n] = h[n]
  BY <1>1, <1>2
<1>6. Len(l) = Len(h) + Len(s)
  BY <1>1
<1> QED
  BY <1>1, <1>3, <1>4, <1>5, <1>6 DEF l

\* An authority after a head, and the signers given for it.
LEMMA ListsAuthority ==
    ASSUME NEW h \in Seq(AccountMeta), NEW k \in Key, NEW s \in Seq(Key)
    PROVE  /\ h \o AuthorisedBy(k, s) \in Seq(AccountMeta)
           /\ Len(h \o AuthorisedBy(k, s)) >= Len(h) + 1
           /\ \A n \in 1 .. Len(h) : (h \o AuthorisedBy(k, s))[n] = h[n]
           /\ (h \o AuthorisedBy(k, s))[Len(h) + 1].pubkey = k
           /\ \A n \in 1 .. Len(h \o AuthorisedBy(k, s)) :
                 n > Len(h) => (h \o AuthorisedBy(k, s))[n].pubkey \in Key
<1> DEFINE b == s = <<>>
           c == TRUE
           v == Listed(<<k>>, b)
           t == Listed(s, c)
<1>1. AuthorisedBy(k, s) = v \o t
  BY DEF AuthorisedBy
<1>2. /\ v \in Seq(AccountMeta) /\ Len(v) = 1 /\ v[1].pubkey = k
  <2>1. <<k>> \in Seq(Key) /\ Len(<<k>>) = 1 /\ b \in BOOLEAN /\ <<k>>[1] = k
    OBVIOUS
  <2>2. /\ v \in Seq(AccountMeta) /\ Len(v) = Len(<<k>>)
        /\ \A n \in 1 .. Len(<<k>>) : v[n].pubkey = <<k>>[n]
    <3> HIDE DEF b
    <3> QED
      BY <2>1, KeyInKey, ListedAre, Zenon
  <2> HIDE DEF v, b
  <2> QED
    BY <2>1, <2>2
<1>3. /\ t \in Seq(AccountMeta)
      /\ v \o t \in Seq(AccountMeta)
      /\ Len(v \o t) = 1 + Len(s)
      /\ (v \o t)[1] = v[1]
      /\ \A n \in 2 .. Len(v \o t) : (v \o t)[n].pubkey \in Key
  <2>1. c \in BOOLEAN /\ 1 \in 1 .. 1
    OBVIOUS
  <2> HIDE DEF v
  <2>2. t \in Seq(AccountMeta) /\ Len(t) = Len(s)
    BY <2>1, KeyInKey, ListedAre, Zenon
  <2>3. \A n \in 1 .. Len(s) : t[n].pubkey = s[n]
    <3> HIDE DEF c
    <3> QED
      BY <2>1, KeyInKey, ListedAre, Zenon
  <2> HIDE DEF t
  <2>4. /\ v \o t \in Seq(AccountMeta)
        /\ Len(v \o t) = Len(v) + Len(s)
        /\ \A n \in 1 .. Len(v) : (v \o t)[n] = v[n]
        /\ \A n \in 1 .. Len(s) : (v \o t)[Len(v) + n].pubkey = s[n]
        /\ \A n \in Len(v) + 1 .. Len(v \o t) : (v \o t)[n].pubkey \in Key
    <3>1. v \in Seq(AccountMeta)
      BY <1>2
    <3> QED
      BY <3>1, <2>2, <2>3, ListsThen, Zenon
  <2> QED
    BY <1>2, <2>1, <2>2, <2>4
<1> DEFINE u == v \o t
<1> HIDE DEF v, t, u
<1>4. /\ h \o u \in Seq(AccountMeta) /\ Len(h \o u) = Len(h) + Len(u)
      /\ \A n \in 1 .. Len(h \o u) :
            (h \o u)[n] = IF n <= Len(h) THEN h[n] ELSE u[n - Len(h)]
  <2>1. u \in Seq(AccountMeta)
    BY <1>3 DEF u
  <2> QED
    BY <2>1, ConcatProperties
<1>5. /\ Len(u) \in Nat /\ Len(h) \in Nat /\ Len(s) \in Nat /\ Len(u) >= 1
      /\ \A n \in 1 .. Len(u) : u[n].pubkey \in Key
      /\ u[1].pubkey = k
  BY <1>2, <1>3 DEF u
<1>6. \A n \in 1 .. Len(h \o u) : n > Len(h) => (h \o u)[n].pubkey \in Key
  BY <1>4, <1>5
<1> QED
  BY <1>1, <1>4, <1>5, <1>6 DEF u

\* Accounts before an authority.
LEMMA ListsOneAndAuthority ==
    ASSUME NEW a, NEW j, IsItem(a, j),
           NEW authority \in Key, NEW s \in Seq(Key)
    PROVE  Lists(a \o AuthorisedBy(authority, s), <<j, authority>>, Key)
<1> DEFINE h == a
           list == h \o AuthorisedBy(authority, s)
<1>1. PICK v \in AccountMeta : v.pubkey = j /\ a = <<v>>
  BY ItemIsMeta
<1>2. h = <<v>>
  BY <1>1
<1> HIDE DEF h
<1>3. h \in Seq(AccountMeta) /\ Len(h) = 1
  BY <1>2
<1>4. h[1].pubkey = j
  BY <1>1, <1>2
<1>5. /\ list \in Seq(AccountMeta) /\ Len(list) >= Len(h) + 1
      /\ \A n \in 1 .. Len(h) : list[n] = h[n]
      /\ list[Len(h) + 1].pubkey = authority
      /\ \A n \in 1 .. Len(list) : n > Len(h) => list[n].pubkey \in Key
  BY <1>3, ListsAuthority, Zenon
<1> HIDE DEF list
<1>6. Lists(list, <<j, authority>>, Key)
  BY <1>3, <1>4, <1>5 DEF Lists
<1> QED
  BY <1>6 DEF h, list

LEMMA ListsTwoAndAuthority ==
    ASSUME NEW a, NEW j, NEW b, NEW k, IsItem(a, j), IsItem(b, k),
           NEW authority \in Key, NEW s \in Seq(Key)
    PROVE  Lists(a \o b \o AuthorisedBy(authority, s), <<j, k, authority>>, Key)
<1> DEFINE h == a \o b
           list == h \o AuthorisedBy(authority, s)
<1>1. PICK v \in AccountMeta : v.pubkey = j /\ a = <<v>>
  BY ItemIsMeta
<1>2. PICK w \in AccountMeta : w.pubkey = k /\ b = <<w>>
  BY ItemIsMeta
<1>3. h = <<v, w>>
  BY <1>1, <1>2, JoinOne
<1> HIDE DEF h
<1>4. h \in Seq(AccountMeta) /\ Len(h) = 2
  BY <1>3
<1>5. h[1].pubkey = j /\ h[2].pubkey = k
  BY <1>1, <1>2, <1>3
<1>6. /\ list \in Seq(AccountMeta) /\ Len(list) >= Len(h) + 1
      /\ \A n \in 1 .. Len(h) : list[n] = h[n]
      /\ list[Len(h) + 1].pubkey = authority
      /\ \A n \in 1 .. Len(list) : n > Len(h) => list[n].pubkey \in Key
  BY <1>4, ListsAuthority, Zenon
<1> HIDE DEF list
<1>7. Lists(list, <<j, k, authority>>, Key)
  BY <1>4, <1>5, <1>6 DEF Lists
<1> QED
  BY <1>7 DEF h, list

LEMMA ListsThreeAndAuthority ==
    ASSUME NEW a, NEW j, NEW b, NEW k, NEW c, NEW l,
           IsItem(a, j), IsItem(b, k), IsItem(c, l),
           NEW authority \in Key, NEW s \in Seq(Key)
    PROVE  Lists(a \o b \o c \o AuthorisedBy(authority, s), <<j, k, l, authority>>, Key)
<1> DEFINE h == a \o b \o c
           list == h \o AuthorisedBy(authority, s)
<1>1. PICK v \in AccountMeta : v.pubkey = j /\ a = <<v>>
  BY ItemIsMeta
<1>2. PICK w \in AccountMeta : w.pubkey = k /\ b = <<w>>
  BY ItemIsMeta
<1>3. PICK x \in AccountMeta : x.pubkey = l /\ c = <<x>>
  BY ItemIsMeta
<1>4. h = <<v, w, x>>
  <2>1. a \o b = <<v, w>>
    BY <1>1, <1>2, JoinOne
  <2>2. <<v, w>> \o <<x>> = <<v, w, x>>
    BY JoinThird
  <2> QED
    BY <1>3, <2>1, <2>2
<1> HIDE DEF h
<1>5. h \in Seq(AccountMeta) /\ Len(h) = 3
  BY <1>4
<1>6. h[1].pubkey = j /\ h[2].pubkey = k /\ h[3].pubkey = l
  BY <1>1, <1>2, <1>3, <1>4
<1>7. /\ list \in Seq(AccountMeta) /\ Len(list) >= Len(h) + 1
      /\ \A n \in 1 .. Len(h) : list[n] = h[n]
      /\ list[Len(h) + 1].pubkey = authority
      /\ \A n \in 1 .. Len(list) : n > Len(h) => list[n].pubkey \in Key
  BY <1>5, ListsAuthority, Zenon
<1> HIDE DEF list
<1>8. Lists(list, <<j, k, l, authority>>, Key)
  BY <1>5, <1>6, <1>7 DEF Lists
<1> QED
  BY <1>8 DEF h, list

-----------------------------------------------------------------------------
(* What clients mean to do.                                                *)

\* What an intent names.
IsIntent(i) ==
    /\ i.tag \in {"InitializeMint", "InitializeMint2"} =>
          /\ i.mint \in Key /\ i.mint_authority \in MintAuthorities
          /\ i.freeze_authority \in FreezeAuthorities \cup {None} /\ i.decimals \in Decimals
    /\ i.tag \in {"InitializeAccount", "InitializeAccount2", "InitializeAccount3"} =>
          i.account \in Key /\ i.mint \in Key /\ i.owner \in Owners
    /\ i.tag \in {"InitializeMultisig", "InitializeMultisig2"} =>
          i.multisig \in Key /\ i.signers \in Seq(Signer) /\ i.m \in 0 .. MaxSigners + 1
    /\ i.tag \in {"SyncNative", "InitializeImmutableOwner"} => i.account \in Key
    /\ i.tag \in {"Approve", "ApproveChecked", "Revoke", "Transfer", "TransferChecked"} =>
          i.source \in Key
    /\ i.tag \in {"Approve", "ApproveChecked"} =>
          i.delegate \in Delegates /\ i.amount \in Allowance
    /\ i.tag \in {"Transfer", "TransferChecked"} => i.destination \in Key
    /\ i.tag = "CloseAccount" => i.account \in Key /\ i.destination \in Refund
    /\ i.tag \in {"FreezeAccount", "ThawAccount", "MintTo", "MintToChecked", "Burn",
                  "BurnChecked"} => i.account \in Key /\ i.mint \in Key
    /\ i.tag \in {"Transfer", "TransferChecked", "MintTo", "MintToChecked", "Burn",
                  "BurnChecked"} => i.amount \in Amount
    /\ i.tag \in {"ApproveChecked", "TransferChecked"} => i.mint \in Key
    /\ i.tag \in {"ApproveChecked", "TransferChecked", "MintToChecked", "BurnChecked"} =>
          i.decimals \in Decimals
    /\ i.tag = "SetAuthority" =>
          /\ i.owned \in Key
          /\ \/ i.change[1] \in AuthorityType /\ i.change[2] = None
             \/ i.change[1] = "MintTokens" /\ i.change[2] \in MintAuthorities
             \/ i.change[1] = "FreezeAccount" /\ i.change[2] \in FreezeAuthorities
             \/ i.change[1] = "AccountOwner" /\ i.change[2] \in Owners
             \/ i.change[1] = "CloseAccount" /\ i.change[2] \in CloseAuthorities
    /\ i.tag \in {"Approve", "ApproveChecked", "Revoke", "SetAuthority", "CloseAccount",
                  "FreezeAccount", "ThawAccount", "Transfer", "TransferChecked", "MintTo",
                  "MintToChecked", "Burn", "BurnChecked"} =>
          i.authority \in Key /\ i.signers \in Seq(Key)
    /\ i.tag \in {"GetAccountDataSize", "AmountToUiAmount", "UiAmountToAmount"} =>
          i.mint \in Key
    /\ i.tag \in {"ApproveChecked", "TransferChecked", "MintToChecked", "BurnChecked"} =>
          "decimals" \in DOMAIN i
    /\ i.tag \in {"Approve", "Transfer", "MintTo", "Burn"} => "decimals" \notin DOMAIN i
    /\ i.tag \in {"Approve", "Transfer"} => "mint" \notin DOMAIN i

\* The tags of intents.
IntentTags ==
    {"InitializeMint", "InitializeMint2", "InitializeAccount", "InitializeAccount2",
     "InitializeAccount3", "InitializeMultisig", "InitializeMultisig2", "SyncNative",
     "InitializeImmutableOwner", "Approve", "ApproveChecked", "Revoke", "SetAuthority",
     "CloseAccount", "FreezeAccount", "ThawAccount", "Transfer", "TransferChecked",
     "MintTo", "MintToChecked", "Burn", "BurnChecked", "GetAccountDataSize",
     "AmountToUiAmount", "UiAmountToAmount"}

LEMMA IntentsAreTyped ==
    ASSUME client \in Clients, NEW i \in Intents[client]
    PROVE  IsIntent(i) /\ i.tag \in IntentTags
<1> DEFINE c == client
           A == Authorities(c)
           S == c.cosigners
<1>1. /\ c.mints \subseteq Key /\ c.accounts \subseteq Key /\ c.multisigs \subseteq Key
      /\ c.owners \subseteq Owners /\ c.mint_authorities \subseteq MintAuthorities
      /\ c.freeze_authorities \subseteq FreezeAuthorities
      /\ c.close_authorities \subseteq CloseAuthorities
      /\ c.delegates \subseteq Delegates /\ c.refund \subseteq Refund
      /\ c.amounts \subseteq Amount /\ c.allowances \subseteq Allowance
      /\ c.precisions \subseteq Decimals /\ S \subseteq Seq(Key)
  BY ClientsAssumption, ClientAssumption
<1>2. Mints(c) \subseteq Key /\ A \subseteq Key
  BY <1>1, KeyAssumption, InputAssumption DEF Mints, Authorities
<1>3. BoundedSeq(Signer, MaxSigners + 1) \subseteq Seq(Signer)
  <2> SUFFICES ASSUME NEW s \in BoundedSeq(Signer, MaxSigners + 1)
               PROVE  s \in Seq(Signer)
    OBVIOUS
  <2>1. PICK n \in 0 .. MaxSigners + 1 : s \in [1 .. n -> Signer]
    BY DEF BoundedSeq, SeqOf
  <2> QED
    BY <2>1, SizeAssumption, FunctionIsList
<1>4. \A x \in AuthorityChanges(c) :
         \/ x[1] \in AuthorityType /\ x[2] = None
         \/ x[1] = "MintTokens" /\ x[2] \in MintAuthorities
         \/ x[1] = "FreezeAccount" /\ x[2] \in FreezeAuthorities
         \/ x[1] = "AccountOwner" /\ x[2] \in Owners
         \/ x[1] = "CloseAccount" /\ x[2] \in CloseAuthorities
  <2> SUFFICES ASSUME NEW x \in AuthorityChanges(c)
               PROVE  \/ x[1] \in AuthorityType /\ x[2] = None
                      \/ x[1] = "MintTokens" /\ x[2] \in MintAuthorities
                      \/ x[1] = "FreezeAccount" /\ x[2] \in FreezeAuthorities
                      \/ x[1] = "AccountOwner" /\ x[2] \in Owners
                      \/ x[1] = "CloseAccount" /\ x[2] \in CloseAuthorities
    OBVIOUS
  <2> DEFINE named(type) ==
               CASE type = "MintTokens"    -> c.mint_authorities
                 [] type = "FreezeAccount" -> c.freeze_authorities
                 [] type = "AccountOwner"  -> c.owners
                 [] type = "CloseAccount"  -> c.close_authorities
  <2>1. /\ named("MintTokens") = c.mint_authorities
        /\ named("FreezeAccount") = c.freeze_authorities
        /\ named("AccountOwner") = c.owners
        /\ named("CloseAccount") = c.close_authorities
    OBVIOUS
  <2> DEFINE pairs(type) == {type} \X named(type)
  <2>2. AuthorityChanges(c)
          = (UNION {pairs(type) : type \in AuthorityType}) \cup AuthorityType \X {None}
    BY DEF AuthorityChanges
  <2> HIDE DEF named, pairs
  <2>3. x \in AuthorityType \X {None} \/ \E type \in AuthorityType : x \in pairs(type)
    BY <2>2
  <2>4. \A type : x \in pairs(type) => x[1] = type /\ x[2] \in named(type)
    BY DEF pairs
  <2> QED
    BY <1>1, <2>1, <2>3, <2>4 DEF AuthorityType
<1>5. i \in InitializerIntents(c) \cup AuthorityIntents(c) \cup AmountIntents(c)
  BY DEF Intents
<1> HIDE DEF c, A, S
<1>6. CASE i \in
           [tag : {"InitializeMint", "InitializeMint2"}, mint : c.mints,
            mint_authority : c.mint_authorities,
            freeze_authority : c.freeze_authorities \cup {None}, decimals : c.precisions]
  BY <1>1, <1>2, <1>3, <1>4, <1>6 DEF IsIntent, IntentTags
<1>7. CASE i \in
           [tag : {"InitializeAccount", "InitializeAccount2", "InitializeAccount3"},
            account : c.accounts, mint : Mints(c), owner : c.owners]
  BY <1>1, <1>2, <1>3, <1>4, <1>7 DEF IsIntent, IntentTags
<1>8. CASE i \in
           [tag : {"InitializeMultisig", "InitializeMultisig2"}, multisig : c.multisigs,
            signers : BoundedSeq(Signer, MaxSigners + 1), m : 0 .. MaxSigners + 1]
  BY <1>1, <1>2, <1>3, <1>4, <1>8 DEF IsIntent, IntentTags
<1>9. CASE i \in
           [tag : {"SyncNative", "InitializeImmutableOwner"}, account : c.accounts]
  BY <1>1, <1>2, <1>3, <1>4, <1>9 DEF IsIntent, IntentTags
<1>10. CASE i \in
           [tag : {"Approve"}, source : c.accounts, delegate : c.delegates,
            amount : c.allowances, authority : A, signers : S]
  BY <1>1, <1>2, <1>3, <1>4, <1>10 DEF IsIntent, IntentTags
<1>11. CASE i \in
           [tag : {"ApproveChecked"}, source : c.accounts, mint : Mints(c),
            delegate : c.delegates, amount : c.allowances, decimals : c.precisions,
            authority : A, signers : S]
  BY <1>1, <1>2, <1>3, <1>4, <1>11 DEF IsIntent, IntentTags
<1>12. CASE i \in
           [tag : {"Revoke"}, source : c.accounts, authority : A, signers : S]
  BY <1>1, <1>2, <1>3, <1>4, <1>12 DEF IsIntent, IntentTags
<1>13. CASE i \in
           [tag : {"SetAuthority"}, owned : c.accounts \cup c.mints \cup c.multisigs,
            change : AuthorityChanges(c), authority : A, signers : S]
  BY <1>1, <1>2, <1>3, <1>4, <1>13 DEF IsIntent, IntentTags
<1>14. CASE i \in
           [tag : {"CloseAccount"}, account : c.accounts, destination : c.refund,
            authority : A, signers : S]
  BY <1>1, <1>2, <1>3, <1>4, <1>14 DEF IsIntent, IntentTags
<1>15. CASE i \in
           [tag : {"FreezeAccount", "ThawAccount"}, account : c.accounts, mint : Mints(c),
            authority : A, signers : S]
  BY <1>1, <1>2, <1>3, <1>4, <1>15 DEF IsIntent, IntentTags
<1>16. CASE i \in
           [tag : {"Transfer"}, source : c.accounts, destination : c.accounts,
            amount : c.amounts, authority : A, signers : S]
  BY <1>1, <1>2, <1>3, <1>4, <1>16 DEF IsIntent, IntentTags
<1>17. CASE i \in
           [tag : {"TransferChecked"}, source : c.accounts, mint : Mints(c),
            destination : c.accounts, amount : c.amounts, decimals : c.precisions,
            authority : A, signers : S]
  BY <1>1, <1>2, <1>3, <1>4, <1>17 DEF IsIntent, IntentTags
<1>18. CASE i \in
           [tag : {"MintTo", "Burn"}, mint : Mints(c), account : c.accounts,
            amount : c.amounts, authority : A, signers : S]
  BY <1>1, <1>2, <1>3, <1>4, <1>18 DEF IsIntent, IntentTags
<1>19. CASE i \in
           [tag : {"MintToChecked", "BurnChecked"}, mint : Mints(c), account : c.accounts,
            amount : c.amounts, decimals : c.precisions, authority : A, signers : S]
  BY <1>1, <1>2, <1>3, <1>4, <1>19 DEF IsIntent, IntentTags
<1>20. CASE i \in
           [tag : {"GetAccountDataSize"}, mint : Mints(c) \cup c.accounts]
  BY <1>1, <1>2, <1>3, <1>4, <1>20 DEF IsIntent, IntentTags
<1>21. CASE i \in
           [tag : {"AmountToUiAmount"}, mint : Mints(c), amount : c.amounts]
  BY <1>1, <1>2, <1>3, <1>4, <1>21 DEF IsIntent, IntentTags
<1>22. CASE i \in
           [tag : {"UiAmountToAmount"}, mint : Mints(c), ui_amount : UiText]
  BY <1>1, <1>2, <1>3, <1>4, <1>22 DEF IsIntent, IntentTags
<1>23. CASE i \in InitializerIntents(c)
  BY <1>23, <1>6, <1>7, <1>8, <1>9 DEF InitializerIntents
<1>24. CASE i \in AuthorityIntents(c)
  BY <1>24, <1>10, <1>11, <1>12, <1>13, <1>14, <1>15 DEF AuthorityIntents, A, S
<1>25. CASE i \in AmountIntents(c)
  BY <1>25, <1>16, <1>17, <1>18, <1>19, <1>20, <1>21, <1>22
     DEF AmountIntents, A, S
<1> QED
  BY <1>5, <1>23, <1>24, <1>25

-----------------------------------------------------------------------------
(* What the builders make of it.                                           *)

\* An instruction a builder made: its accounts and operands.
IsOf(c, i) ==
    /\ {"accounts", "data"} \subseteq DOMAIN c
    /\ Lists(c.accounts, Leading(i), Key)
    /\ Carries(c.data, i)

LEMMA BuiltParts ==
    ASSUME NEW a, NEW o, IsBuilt(Built(TokenProgram, a, o))
    PROVE  /\ {"accounts", "data"} \subseteq DOMAIN Built(TokenProgram, a, o)
           /\ Built(TokenProgram, a, o).accounts = a
           /\ Built(TokenProgram, a, o).data = o
BY DEF Built, IsBuilt

LEMMA BuildersList ==
    ASSUME NEW i, IsIntent(i), i.tag \in IntentTags, IsBuilt(Build(i)),
           i.tag \notin {"InitializeMultisig", "InitializeMultisig2"}
    PROVE  IsOf(Build(i), i)
<1>1. \A k \in Key \cup {RentSysvar} : IsItem(Writable(k), k) /\ IsItem(Readonly(k), k)
  BY DEF IsItem
<1>2. Owners \cup Delegates \cup Refund \subseteq Key
  BY InputAssumption
<1>3. ASSUME NEW a, NEW op, Build(i) = Built(TokenProgram, a, op),
             Lists(a, Leading(i), Key), Carries(op, i)
      PROVE  IsOf(Build(i), i)
  BY <1>3, BuiltParts DEF IsOf
<1>4. CASE i.tag = "InitializeMint"
  <2> DEFINE a == Writable(i.mint) \o Readonly(RentSysvar)
             op == [tag |-> "InitializeMint", decimals |-> i.decimals,
                    mint_authority |-> i.mint_authority, freeze_authority |-> i.freeze_authority]
  <2>1. i.mint \in Key
    BY <1>2, <1>4 DEF IsIntent
  <2>2. Lists(a, <<i.mint, RentSysvar>>, Key)
    BY <1>1, <2>1, ListsTwo
  <2>3. /\ Build(i) = Built(TokenProgram, a, op)
        /\ Leading(i) = <<i.mint, RentSysvar>>
    BY <1>4 DEF Build, initialize_mint, Leading
  <2>4. Carries(op, i)
    BY <1>4 DEF Carries
  <2> HIDE DEF a, op
  <2> QED
    BY <1>3, <2>2, <2>3, <2>4
<1>5. CASE i.tag = "InitializeMint2"
  <2> DEFINE a == Writable(i.mint)
             op == [tag |-> "InitializeMint2", decimals |-> i.decimals,
                    mint_authority |-> i.mint_authority, freeze_authority |-> i.freeze_authority]
  <2>1. i.mint \in Key
    BY <1>2, <1>5 DEF IsIntent
  <2>2. Lists(a, <<i.mint>>, Key)
    BY <1>1, <2>1, ListsOne
  <2>3. /\ Build(i) = Built(TokenProgram, a, op)
        /\ Leading(i) = <<i.mint>>
    BY <1>5 DEF Build, initialize_mint2, Leading
  <2>4. Carries(op, i)
    BY <1>5 DEF Carries
  <2> HIDE DEF a, op
  <2> QED
    BY <1>3, <2>2, <2>3, <2>4
<1>6. CASE i.tag = "InitializeAccount"
  <2> DEFINE a == Writable(i.account) \o Readonly(i.mint) \o Readonly(i.owner)
                   \o Readonly(RentSysvar)
             op == [tag |-> "InitializeAccount"]
  <2>1. i.account \in Key /\ i.mint \in Key /\ i.owner \in Key
    BY <1>2, <1>6 DEF IsIntent
  <2>2. Lists(a, <<i.account, i.mint, i.owner, RentSysvar>>, Key)
    BY <1>1, <2>1, ListsFour
  <2>3. /\ Build(i) = Built(TokenProgram, a, op)
        /\ Leading(i) = <<i.account, i.mint, i.owner, RentSysvar>>
    BY <1>6 DEF Build, Plain, initialize_account, Leading
  <2>4. Carries(op, i)
    BY <1>6 DEF Carries
  <2> HIDE DEF a, op
  <2> QED
    BY <1>3, <2>2, <2>3, <2>4
<1>7. CASE i.tag = "InitializeAccount2"
  <2> DEFINE a == Writable(i.account) \o Readonly(i.mint) \o Readonly(RentSysvar)
             op == [tag |-> "InitializeAccount2", owner |-> i.owner]
  <2>1. i.account \in Key /\ i.mint \in Key
    BY <1>2, <1>7 DEF IsIntent
  <2>2. Lists(a, <<i.account, i.mint, RentSysvar>>, Key)
    BY <1>1, <2>1, ListsThree
  <2>3. /\ Build(i) = Built(TokenProgram, a, op)
        /\ Leading(i) = <<i.account, i.mint, RentSysvar>>
    BY <1>7 DEF Build, initialize_account2, Leading
  <2>4. Carries(op, i)
    BY <1>7 DEF Carries
  <2> HIDE DEF a, op
  <2> QED
    BY <1>3, <2>2, <2>3, <2>4
<1>8. CASE i.tag = "InitializeAccount3"
  <2> DEFINE a == Writable(i.account) \o Readonly(i.mint)
             op == [tag |-> "InitializeAccount3", owner |-> i.owner]
  <2>1. i.account \in Key /\ i.mint \in Key
    BY <1>2, <1>8 DEF IsIntent
  <2>2. Lists(a, <<i.account, i.mint>>, Key)
    BY <1>1, <2>1, ListsTwo
  <2>3. /\ Build(i) = Built(TokenProgram, a, op)
        /\ Leading(i) = <<i.account, i.mint>>
    BY <1>8 DEF Build, initialize_account3, Leading
  <2>4. Carries(op, i)
    BY <1>8 DEF Carries
  <2> HIDE DEF a, op
  <2> QED
    BY <1>3, <2>2, <2>3, <2>4
<1>9. CASE i.tag = "SyncNative"
  <2> DEFINE a == Writable(i.account)
             op == [tag |-> "SyncNative"]
  <2>1. i.account \in Key
    BY <1>2, <1>9 DEF IsIntent
  <2>2. Lists(a, <<i.account>>, Key)
    BY <1>1, <2>1, ListsOne
  <2>3. /\ Build(i) = Built(TokenProgram, a, op)
        /\ Leading(i) = <<i.account>>
    BY <1>9 DEF Build, Plain, sync_native, Leading
  <2>4. Carries(op, i)
    BY <1>9 DEF Carries
  <2> HIDE DEF a, op
  <2> QED
    BY <1>3, <2>2, <2>3, <2>4
<1>10. CASE i.tag = "InitializeImmutableOwner"
  <2> DEFINE a == Writable(i.account)
             op == [tag |-> "InitializeImmutableOwner"]
  <2>1. i.account \in Key
    BY <1>2, <1>10 DEF IsIntent
  <2>2. Lists(a, <<i.account>>, Key)
    BY <1>1, <2>1, ListsOne
  <2>3. /\ Build(i) = Built(TokenProgram, a, op)
        /\ Leading(i) = <<i.account>>
    BY <1>10 DEF Build, Plain, initialize_immutable_owner, Leading
  <2>4. Carries(op, i)
    BY <1>10 DEF Carries
  <2> HIDE DEF a, op
  <2> QED
    BY <1>3, <2>2, <2>3, <2>4
<1>11. CASE i.tag = "Approve"
  <2> DEFINE a == Writable(i.source) \o Readonly(i.delegate)
                   \o AuthorisedBy(i.authority, i.signers)
             op == [tag |-> "Approve", amount |-> i.amount]
  <2>1. /\ i.source \in Key /\ i.delegate \in Key /\ i.authority \in Key
        /\ i.signers \in Seq(Key)
    BY <1>2, <1>11 DEF IsIntent
  <2>2. Lists(a, <<i.source, i.delegate, i.authority>>, Key)
    BY <1>1, <2>1, ListsTwoAndAuthority
  <2>3. /\ Build(i) = Built(TokenProgram, a, op)
        /\ Leading(i) = <<i.source, i.delegate, i.authority>>
    BY <1>11 DEF Build, approve, Leading
  <2>4. Carries(op, i)
    BY <1>11 DEF Carries
  <2> HIDE DEF a, op
  <2> QED
    BY <1>3, <2>2, <2>3, <2>4
<1>12. CASE i.tag = "ApproveChecked"
  <2> DEFINE a == Writable(i.source) \o Readonly(i.mint) \o Readonly(i.delegate)
                   \o AuthorisedBy(i.authority, i.signers)
             op == [tag |-> "ApproveChecked", amount |-> i.amount, decimals |-> i.decimals]
  <2>1. /\ i.source \in Key /\ i.mint \in Key /\ i.delegate \in Key
        /\ i.authority \in Key /\ i.signers \in Seq(Key)
    BY <1>2, <1>12 DEF IsIntent
  <2>2. Lists(a, <<i.source, i.mint, i.delegate, i.authority>>, Key)
    BY <1>1, <2>1, ListsThreeAndAuthority
  <2>3. /\ Build(i) = Built(TokenProgram, a, op)
        /\ Leading(i) = <<i.source, i.mint, i.delegate, i.authority>>
    BY <1>12 DEF Build, approve_checked, Leading
  <2>4. Carries(op, i)
    BY <1>12 DEF Carries
  <2> HIDE DEF a, op
  <2> QED
    BY <1>3, <2>2, <2>3, <2>4
<1>13. CASE i.tag = "Revoke"
  <2> DEFINE a == Writable(i.source) \o AuthorisedBy(i.authority, i.signers)
             op == [tag |-> "Revoke"]
  <2>1. i.source \in Key /\ i.authority \in Key /\ i.signers \in Seq(Key)
    BY <1>2, <1>13 DEF IsIntent
  <2>2. Lists(a, <<i.source, i.authority>>, Key)
    BY <1>1, <2>1, ListsOneAndAuthority
  <2>3. /\ Build(i) = Built(TokenProgram, a, op)
        /\ Leading(i) = <<i.source, i.authority>>
    BY <1>13 DEF Build, Plain, revoke, Leading
  <2>4. Carries(op, i)
    BY <1>13 DEF Carries
  <2> HIDE DEF a, op
  <2> QED
    BY <1>3, <2>2, <2>3, <2>4
<1>14. CASE i.tag = "SetAuthority"
  <2> DEFINE a == Writable(i.owned) \o AuthorisedBy(i.authority, i.signers)
             op == [tag |-> "SetAuthority", authority_type |-> i.change[1],
                    new_authority |-> i.change[2]]
  <2>1. i.owned \in Key /\ i.authority \in Key /\ i.signers \in Seq(Key)
    BY <1>2, <1>14 DEF IsIntent
  <2>2. Lists(a, <<i.owned, i.authority>>, Key)
    BY <1>1, <2>1, ListsOneAndAuthority
  <2>3. /\ Build(i) = Built(TokenProgram, a, op)
        /\ Leading(i) = <<i.owned, i.authority>>
    BY <1>14 DEF Build, set_authority, Leading
  <2>4. Carries(op, i)
    BY <1>14 DEF Carries
  <2> HIDE DEF a, op
  <2> QED
    BY <1>3, <2>2, <2>3, <2>4
<1>15. CASE i.tag = "CloseAccount"
  <2> DEFINE a == Writable(i.account) \o Writable(i.destination)
                   \o AuthorisedBy(i.authority, i.signers)
             op == [tag |-> "CloseAccount"]
  <2>1. /\ i.account \in Key /\ i.destination \in Key /\ i.authority \in Key
        /\ i.signers \in Seq(Key)
    BY <1>2, <1>15 DEF IsIntent
  <2>2. Lists(a, <<i.account, i.destination, i.authority>>, Key)
    BY <1>1, <2>1, ListsTwoAndAuthority
  <2>3. /\ Build(i) = Built(TokenProgram, a, op)
        /\ Leading(i) = <<i.account, i.destination, i.authority>>
    BY <1>15 DEF Build, Plain, close_account, Leading
  <2>4. Carries(op, i)
    BY <1>15 DEF Carries
  <2> HIDE DEF a, op
  <2> QED
    BY <1>3, <2>2, <2>3, <2>4
<1>16. CASE i.tag = "FreezeAccount"
  <2> DEFINE a == Writable(i.account) \o Readonly(i.mint)
                   \o AuthorisedBy(i.authority, i.signers)
             op == [tag |-> "FreezeAccount"]
  <2>1. /\ i.account \in Key /\ i.mint \in Key /\ i.authority \in Key
        /\ i.signers \in Seq(Key)
    BY <1>2, <1>16 DEF IsIntent
  <2>2. Lists(a, <<i.account, i.mint, i.authority>>, Key)
    BY <1>1, <2>1, ListsTwoAndAuthority
  <2>3. /\ Build(i) = Built(TokenProgram, a, op)
        /\ Leading(i) = <<i.account, i.mint, i.authority>>
    BY <1>16 DEF Build, Plain, freeze_account, Leading
  <2>4. Carries(op, i)
    BY <1>16 DEF Carries
  <2> HIDE DEF a, op
  <2> QED
    BY <1>3, <2>2, <2>3, <2>4
<1>17. CASE i.tag = "ThawAccount"
  <2> DEFINE a == Writable(i.account) \o Readonly(i.mint)
                   \o AuthorisedBy(i.authority, i.signers)
             op == [tag |-> "ThawAccount"]
  <2>1. /\ i.account \in Key /\ i.mint \in Key /\ i.authority \in Key
        /\ i.signers \in Seq(Key)
    BY <1>2, <1>17 DEF IsIntent
  <2>2. Lists(a, <<i.account, i.mint, i.authority>>, Key)
    BY <1>1, <2>1, ListsTwoAndAuthority
  <2>3. /\ Build(i) = Built(TokenProgram, a, op)
        /\ Leading(i) = <<i.account, i.mint, i.authority>>
    BY <1>17 DEF Build, Plain, thaw_account, Leading
  <2>4. Carries(op, i)
    BY <1>17 DEF Carries
  <2> HIDE DEF a, op
  <2> QED
    BY <1>3, <2>2, <2>3, <2>4
<1>18. CASE i.tag = "Transfer"
  <2> DEFINE a == Writable(i.source) \o Writable(i.destination)
                   \o AuthorisedBy(i.authority, i.signers)
             op == [tag |-> "Transfer", amount |-> i.amount]
  <2>1. /\ i.source \in Key /\ i.destination \in Key /\ i.authority \in Key
        /\ i.signers \in Seq(Key)
    BY <1>2, <1>18 DEF IsIntent
  <2>2. Lists(a, <<i.source, i.destination, i.authority>>, Key)
    BY <1>1, <2>1, ListsTwoAndAuthority
  <2>3. /\ Build(i) = Built(TokenProgram, a, op)
        /\ Leading(i) = <<i.source, i.destination, i.authority>>
    BY <1>18 DEF Build, transfer, Leading
  <2>4. Carries(op, i)
    BY <1>18 DEF Carries
  <2> HIDE DEF a, op
  <2> QED
    BY <1>3, <2>2, <2>3, <2>4
<1>19. CASE i.tag = "TransferChecked"
  <2> DEFINE a == Writable(i.source) \o Readonly(i.mint) \o Writable(i.destination)
                   \o AuthorisedBy(i.authority, i.signers)
             op == [tag |-> "TransferChecked", amount |-> i.amount, decimals |-> i.decimals]
  <2>1. /\ i.source \in Key /\ i.mint \in Key /\ i.destination \in Key
        /\ i.authority \in Key /\ i.signers \in Seq(Key)
    BY <1>2, <1>19 DEF IsIntent
  <2>2. Lists(a, <<i.source, i.mint, i.destination, i.authority>>, Key)
    BY <1>1, <2>1, ListsThreeAndAuthority
  <2>3. /\ Build(i) = Built(TokenProgram, a, op)
        /\ Leading(i) = <<i.source, i.mint, i.destination, i.authority>>
    BY <1>19 DEF Build, transfer_checked, Leading
  <2>4. Carries(op, i)
    BY <1>19 DEF Carries
  <2> HIDE DEF a, op
  <2> QED
    BY <1>3, <2>2, <2>3, <2>4
<1>20. CASE i.tag = "MintTo"
  <2> DEFINE a == Writable(i.mint) \o Writable(i.account)
                   \o AuthorisedBy(i.authority, i.signers)
             op == [tag |-> "MintTo", amount |-> i.amount]
  <2>1. /\ i.mint \in Key /\ i.account \in Key /\ i.authority \in Key
        /\ i.signers \in Seq(Key)
    BY <1>2, <1>20 DEF IsIntent
  <2>2. Lists(a, <<i.mint, i.account, i.authority>>, Key)
    BY <1>1, <2>1, ListsTwoAndAuthority
  <2>3. /\ Build(i) = Built(TokenProgram, a, op)
        /\ Leading(i) = <<i.mint, i.account, i.authority>>
    BY <1>20 DEF Build, mint_to, Leading
  <2>4. Carries(op, i)
    BY <1>20 DEF Carries
  <2> HIDE DEF a, op
  <2> QED
    BY <1>3, <2>2, <2>3, <2>4
<1>21. CASE i.tag = "MintToChecked"
  <2> DEFINE a == Writable(i.mint) \o Writable(i.account)
                   \o AuthorisedBy(i.authority, i.signers)
             op == [tag |-> "MintToChecked", amount |-> i.amount, decimals |-> i.decimals]
  <2>1. /\ i.mint \in Key /\ i.account \in Key /\ i.authority \in Key
        /\ i.signers \in Seq(Key)
    BY <1>2, <1>21 DEF IsIntent
  <2>2. Lists(a, <<i.mint, i.account, i.authority>>, Key)
    BY <1>1, <2>1, ListsTwoAndAuthority
  <2>3. /\ Build(i) = Built(TokenProgram, a, op)
        /\ Leading(i) = <<i.mint, i.account, i.authority>>
    BY <1>21 DEF Build, mint_to_checked, Leading
  <2>4. Carries(op, i)
    BY <1>21 DEF Carries
  <2> HIDE DEF a, op
  <2> QED
    BY <1>3, <2>2, <2>3, <2>4
<1>22. CASE i.tag = "Burn"
  <2> DEFINE a == Writable(i.account) \o Writable(i.mint)
                   \o AuthorisedBy(i.authority, i.signers)
             op == [tag |-> "Burn", amount |-> i.amount]
  <2>1. /\ i.account \in Key /\ i.mint \in Key /\ i.authority \in Key
        /\ i.signers \in Seq(Key)
    BY <1>2, <1>22 DEF IsIntent
  <2>2. Lists(a, <<i.account, i.mint, i.authority>>, Key)
    BY <1>1, <2>1, ListsTwoAndAuthority
  <2>3. /\ Build(i) = Built(TokenProgram, a, op)
        /\ Leading(i) = <<i.account, i.mint, i.authority>>
    BY <1>22 DEF Build, burn, Leading
  <2>4. Carries(op, i)
    BY <1>22 DEF Carries
  <2> HIDE DEF a, op
  <2> QED
    BY <1>3, <2>2, <2>3, <2>4
<1>23. CASE i.tag = "BurnChecked"
  <2> DEFINE a == Writable(i.account) \o Writable(i.mint)
                   \o AuthorisedBy(i.authority, i.signers)
             op == [tag |-> "BurnChecked", amount |-> i.amount, decimals |-> i.decimals]
  <2>1. /\ i.account \in Key /\ i.mint \in Key /\ i.authority \in Key
        /\ i.signers \in Seq(Key)
    BY <1>2, <1>23 DEF IsIntent
  <2>2. Lists(a, <<i.account, i.mint, i.authority>>, Key)
    BY <1>1, <2>1, ListsTwoAndAuthority
  <2>3. /\ Build(i) = Built(TokenProgram, a, op)
        /\ Leading(i) = <<i.account, i.mint, i.authority>>
    BY <1>23 DEF Build, burn_checked, Leading
  <2>4. Carries(op, i)
    BY <1>23 DEF Carries
  <2> HIDE DEF a, op
  <2> QED
    BY <1>3, <2>2, <2>3, <2>4
<1>24. CASE i.tag = "GetAccountDataSize"
  <2> DEFINE a == Readonly(i.mint)
             op == [tag |-> "GetAccountDataSize"]
  <2>1. i.mint \in Key
    BY <1>2, <1>24 DEF IsIntent
  <2>2. Lists(a, <<i.mint>>, Key)
    BY <1>1, <2>1, ListsOne
  <2>3. /\ Build(i) = Built(TokenProgram, a, op)
        /\ Leading(i) = <<i.mint>>
    BY <1>24 DEF Build, Plain, get_account_data_size, Leading
  <2>4. Carries(op, i)
    BY <1>24 DEF Carries
  <2> HIDE DEF a, op
  <2> QED
    BY <1>3, <2>2, <2>3, <2>4
<1>25. CASE i.tag = "AmountToUiAmount"
  <2> DEFINE a == Readonly(i.mint)
             op == [tag |-> "AmountToUiAmount", amount |-> i.amount]
  <2>1. i.mint \in Key
    BY <1>2, <1>25 DEF IsIntent
  <2>2. Lists(a, <<i.mint>>, Key)
    BY <1>1, <2>1, ListsOne
  <2>3. /\ Build(i) = Built(TokenProgram, a, op)
        /\ Leading(i) = <<i.mint>>
    BY <1>25 DEF Build, amount_to_ui_amount, Leading
  <2>4. Carries(op, i)
    BY <1>25 DEF Carries
  <2> HIDE DEF a, op
  <2> QED
    BY <1>3, <2>2, <2>3, <2>4
<1>26. CASE i.tag = "UiAmountToAmount"
  <2> DEFINE a == Readonly(i.mint)
             op == [tag |-> "UiAmountToAmount", ui_amount |-> i.ui_amount]
  <2>1. i.mint \in Key
    BY <1>2, <1>26 DEF IsIntent
  <2>2. Lists(a, <<i.mint>>, Key)
    BY <1>1, <2>1, ListsOne
  <2>3. /\ Build(i) = Built(TokenProgram, a, op)
        /\ Leading(i) = <<i.mint>>
    BY <1>26 DEF Build, ui_amount_to_amount, Leading
  <2>4. Carries(op, i)
    BY <1>26 DEF Carries
  <2> HIDE DEF a, op
  <2> QED
    BY <1>3, <2>2, <2>3, <2>4
<1> QED
  BY <1>4, <1>5, <1>6, <1>7, <1>8, <1>9, <1>10, <1>11, <1>12, <1>13, <1>14, <1>15,
     <1>16, <1>17, <1>18, <1>19, <1>20, <1>21, <1>22, <1>23, <1>24, <1>25, <1>26 DEF
     IntentTags

LEMMA OperandsAreTyped ==
    ASSUME NEW i, NEW op, IsIntent(i), Carries(op, i)
    PROVE  AreOperands(op)
BY DEF IsIntent, Carries, AreOperands

\* Every account is where the program expects it.
LEMMA LeadingPlaced ==
    ASSUME NEW i, IsIntent(i), i.tag \in IntentTags, NEW n \in Nat \ {0}
    PROVE  /\ Len(Leading(i)) \in Nat \ {0}
           /\ n <= Len(Leading(i)) => Leading(i)[n] \in Places(i.tag, n)
           /\ (/\ n > Len(Leading(i))
               /\ i.tag \notin {"InitializeMultisig", "InitializeMultisig2"})
                 => Places(i.tag, n) = Key
<1>1. Owners \cup Delegates \cup Refund \subseteq Key
  BY InputAssumption
<1>2. CASE i.tag = "InitializeMint"
  <2>1. Leading(i) = <<i.mint, RentSysvar>>
    BY <1>2 DEF Leading
  <2> QED
    BY <1>1, <1>2, <2>1 DEF IsIntent, Places
<1>3. CASE i.tag = "InitializeMint2"
  <2>1. Leading(i) = <<i.mint>>
    BY <1>3 DEF Leading
  <2> QED
    BY <1>1, <1>3, <2>1 DEF IsIntent, Places
<1>4. CASE i.tag = "InitializeAccount"
  <2>1. Leading(i) = <<i.account, i.mint, i.owner, RentSysvar>>
    BY <1>4 DEF Leading
  <2> QED
    BY <1>1, <1>4, <2>1 DEF IsIntent, Places
<1>5. CASE i.tag = "InitializeAccount2"
  <2>1. Leading(i) = <<i.account, i.mint, RentSysvar>>
    BY <1>5 DEF Leading
  <2> QED
    BY <1>1, <1>5, <2>1 DEF IsIntent, Places
<1>6. CASE i.tag = "InitializeAccount3"
  <2>1. Leading(i) = <<i.account, i.mint>>
    BY <1>6 DEF Leading
  <2> QED
    BY <1>1, <1>6, <2>1 DEF IsIntent, Places
<1>7. CASE i.tag = "InitializeMultisig"
  <2>1. Leading(i) = <<i.multisig, RentSysvar>>
    BY <1>7 DEF Leading
  <2> QED
    BY <1>1, <1>7, <2>1 DEF IsIntent, Places
<1>8. CASE i.tag = "InitializeMultisig2"
  <2>1. Leading(i) = <<i.multisig>>
    BY <1>8 DEF Leading
  <2> QED
    BY <1>1, <1>8, <2>1 DEF IsIntent, Places
<1>9. CASE i.tag = "Transfer"
  <2>1. Leading(i) = <<i.source, i.destination, i.authority>>
    BY <1>9 DEF Leading
  <2> QED
    BY <1>1, <1>9, <2>1 DEF IsIntent, Places
<1>10. CASE i.tag = "TransferChecked"
  <2>1. Leading(i) = <<i.source, i.mint, i.destination, i.authority>>
    BY <1>10 DEF Leading
  <2> QED
    BY <1>1, <1>10, <2>1 DEF IsIntent, Places
<1>11. CASE i.tag = "Approve"
  <2>1. Leading(i) = <<i.source, i.delegate, i.authority>>
    BY <1>11 DEF Leading
  <2> QED
    BY <1>1, <1>11, <2>1 DEF IsIntent, Places
<1>12. CASE i.tag = "ApproveChecked"
  <2>1. Leading(i) = <<i.source, i.mint, i.delegate, i.authority>>
    BY <1>12 DEF Leading
  <2> QED
    BY <1>1, <1>12, <2>1 DEF IsIntent, Places
<1>13. CASE i.tag = "Revoke"
  <2>1. Leading(i) = <<i.source, i.authority>>
    BY <1>13 DEF Leading
  <2> QED
    BY <1>1, <1>13, <2>1 DEF IsIntent, Places
<1>14. CASE i.tag = "SetAuthority"
  <2>1. Leading(i) = <<i.owned, i.authority>>
    BY <1>14 DEF Leading
  <2> QED
    BY <1>1, <1>14, <2>1 DEF IsIntent, Places
<1>15. CASE i.tag \in {"MintTo", "MintToChecked"}
  <2>1. Leading(i) = <<i.mint, i.account, i.authority>>
    BY <1>15 DEF Leading
  <2> QED
    BY <1>1, <1>15, <2>1 DEF IsIntent, Places
<1>16. CASE i.tag \in {"Burn", "BurnChecked", "FreezeAccount", "ThawAccount"}
  <2>1. Leading(i) = <<i.account, i.mint, i.authority>>
    BY <1>16 DEF Leading
  <2> QED
    BY <1>1, <1>16, <2>1 DEF IsIntent, Places
<1>17. CASE i.tag = "CloseAccount"
  <2>1. Leading(i) = <<i.account, i.destination, i.authority>>
    BY <1>17 DEF Leading
  <2> QED
    BY <1>1, <1>17, <2>1 DEF IsIntent, Places
<1>18. CASE i.tag \in {"SyncNative", "InitializeImmutableOwner"}
  <2>1. Leading(i) = <<i.account>>
    BY <1>18 DEF Leading
  <2> QED
    BY <1>1, <1>18, <2>1 DEF IsIntent, Places
<1>19. CASE i.tag \in {"GetAccountDataSize", "AmountToUiAmount", "UiAmountToAmount"}
  <2>1. Leading(i) = <<i.mint>>
    BY <1>19 DEF Leading
  <2> QED
    BY <1>1, <1>19, <2>1 DEF IsIntent, Places
<1> QED
  BY <1>2, <1>3, <1>4, <1>5, <1>6, <1>7, <1>8, <1>9, <1>10, <1>11, <1>12, <1>13,
     <1>14, <1>15, <1>16, <1>17, <1>18, <1>19 DEF IntentTags

LEMMA MultisigBuildersList ==
    ASSUME NEW i, IsIntent(i), IsBuilt(Build(i)),
           i.tag \in {"InitializeMultisig", "InitializeMultisig2"}
    PROVE  /\ {"accounts", "data"} \subseteq DOMAIN Build(i)
           /\ Lists(Build(i).accounts, Leading(i), Signer)
           /\ Carries(Build(i).data, i)
           /\ Len(Build(i).accounts) = Len(Leading(i)) + Len(i.signers)
           /\ \A n \in 1 .. Len(i.signers) :
                 Build(i).accounts[Len(Leading(i)) + n].pubkey = i.signers[n]
           /\ IsQuorum(i.m, i.signers)
<1> DEFINE h == IF i.tag = "InitializeMultisig"
                THEN Writable(i.multisig) \o Readonly(RentSysvar)
                ELSE Writable(i.multisig)
           no == FALSE
           t == Listed(i.signers, no)
           op == [tag |-> i.tag, m |-> i.m]
           list == h \o t
<1>1. i.multisig \in Key /\ i.signers \in Seq(Signer)
  BY DEF IsIntent
<1>2. IsItem(Writable(i.multisig), i.multisig) /\ IsItem(Readonly(RentSysvar), RentSysvar)
  BY <1>1 DEF IsItem
<1>3. /\ Lists(h, Leading(i), Key) /\ Len(h) = Len(Leading(i))
      /\ h \in Seq(AccountMeta)
  <2>1. CASE i.tag = "InitializeMultisig"
    <3>1. /\ Leading(i) = <<i.multisig, RentSysvar>>
          /\ h = Writable(i.multisig) \o Readonly(RentSysvar)
      BY <2>1 DEF Leading
    <3>2. Lists(h, Leading(i), Key)
      BY <1>2, <3>1, ListsTwo
    <3>3. Len(h) = 2
      BY <3>1, JoinOne DEF Writable, Readonly
    <3> QED
      BY <3>1, <3>2, <3>3 DEF Lists
  <2>2. CASE i.tag = "InitializeMultisig2"
    <3>1. Leading(i) = <<i.multisig>> /\ h = Writable(i.multisig)
      BY <2>2 DEF Leading
    <3>2. Lists(h, Leading(i), Key)
      BY <1>2, <3>1, ListsOne
    <3>3. Len(h) = 1
      BY <3>1 DEF Writable
    <3> QED
      BY <3>1, <3>2, <3>3 DEF Lists
  <2> QED
    BY <2>1, <2>2
<1>4. Build(i) = Built(TokenProgram, list, op) /\ IsQuorum(i.m, i.signers)
  <2>1. CASE i.tag = "InitializeMultisig"
    BY <2>1 DEF Build, initialize_multisig, Built, IsBuilt
  <2>2. CASE i.tag = "InitializeMultisig2"
    BY <2>2 DEF Build, initialize_multisig2, Built, IsBuilt
  <2> QED
    BY <2>1, <2>2
<1>5. /\ t \in Seq(AccountMeta) /\ Len(t) = Len(i.signers)
      /\ \A n \in 1 .. Len(i.signers) : t[n].pubkey = i.signers[n]
  <2>1. Signer \in SUBSET Key /\ no \in BOOLEAN
    BY ClientAssumption
  <2> HIDE DEF no
  <2> QED
    BY <1>1, <2>1, ListedAre, Zenon
<1>6. Carries(op, i)
  BY DEF Carries
<1> HIDE DEF h, t, op
<1>7. /\ list \in Seq(AccountMeta)
      /\ Len(list) = Len(h) + Len(i.signers)
      /\ \A n \in 1 .. Len(h) : list[n] = h[n]
      /\ \A n \in 1 .. Len(i.signers) : list[Len(h) + n].pubkey = i.signers[n]
      /\ \A n \in Len(h) + 1 .. Len(list) : list[n].pubkey \in Signer
  <2>1. t \in Seq(AccountMeta) /\ Len(t) = Len(i.signers) /\ h \in Seq(AccountMeta)
    BY <1>3, <1>5
  <2>2. \A n \in 1 .. Len(i.signers) : t[n].pubkey = i.signers[n]
    BY <1>5
  <2> QED
    BY <1>1, <2>1, <2>2, ListsThen, Zenon
<1> HIDE DEF list
<1>8. Lists(list, Leading(i), Signer)
  BY <1>1, <1>3, <1>7 DEF Lists
<1> QED
  BY <1>3, <1>4, <1>6, <1>7, <1>8, BuiltParts

LEMMA BuiltIsInstruction ==
    ASSUME NEW i, IsIntent(i), i.tag \in IntentTags, IsBuilt(Build(i))
    PROVE  /\ {"accounts", "data"} \subseteq DOMAIN Build(i)
           /\ Len(Build(i).accounts) >= 1
           /\ IsInstruction(Build(i))
<1> DEFINE c == Build(i)
           multisig == i.tag \in {"InitializeMultisig", "InitializeMultisig2"}
<1>1. /\ {"accounts", "data"} \subseteq DOMAIN c
      /\ Lists(c.accounts, Leading(i), IF multisig THEN Signer ELSE Key)
      /\ Carries(c.data, i)
  BY BuildersList, MultisigBuildersList DEF IsOf
<1>2. /\ c.accounts \in Seq(AccountMeta) /\ Len(c.accounts) \in Nat
      /\ Len(Leading(i)) \in Nat \ {0} /\ Len(Leading(i)) <= Len(c.accounts)
      /\ c.data.tag = i.tag
  BY <1>1, LeadingPlaced DEF Lists, Carries
<1>3. AreOperands(c.data)
  BY <1>1, OperandsAreTyped
<1>4. ASSUME NEW n \in 1 .. Len(c.accounts)
      PROVE  c.accounts[n].pubkey \in Places(i.tag, n)
  <2>1. n \in Nat \ {0}
    BY <1>2
  <2>2. CASE n <= Len(Leading(i))
    <3>1. c.accounts[n].pubkey = Leading(i)[n]
      BY <1>1, <2>2 DEF Lists
    <3> QED
      BY <2>1, <2>2, <3>1, LeadingPlaced
  <2>3. CASE ~(n <= Len(Leading(i)))
    <3>1. c.accounts[n].pubkey \in IF multisig THEN Signer ELSE Key
      BY <1>1, <2>3 DEF Lists
    <3>2. CASE multisig
      <4>1. \/ i.tag = "InitializeMultisig" /\ n > 2
            \/ i.tag = "InitializeMultisig2" /\ n > 1
        BY <1>2, <2>3, <3>2 DEF Leading
      <4> QED
        BY <3>1, <3>2, <4>1 DEF Places
    <3>3. CASE ~multisig
      BY <1>2, <2>1, <2>3, <3>1, <3>3, LeadingPlaced
    <3> QED
      BY <3>2, <3>3
  <2> QED
    BY <2>2, <2>3
<1> QED
  BY <1>1, <1>2, <1>3, <1>4 DEF IsInstruction

-----------------------------------------------------------------------------
(* The requests of clients, built and written by hand.                     *)

LEMMA ReflaggedIsInstruction ==
    ASSUME NEW c, IsInstruction(c), {"accounts", "data"} \subseteq DOMAIN c,
           NEW isSigner \in BOOLEAN, NEW isWritable \in BOOLEAN
    PROVE  IsInstruction(WithFlag(c, isSigner, isWritable))
<1> DEFINE l == [p \in DOMAIN c.accounts |->
                    [pubkey |-> c.accounts[p].pubkey,
                     is_signer |-> isSigner /\ c.accounts[p].is_signer,
                     is_writable |-> isWritable /\ c.accounts[p].is_writable]]
           n == Len(c.accounts)
<1>1. /\ c.accounts \in Seq(AccountMeta) /\ n \in Nat /\ DOMAIN c.accounts = 1 .. n
      /\ \A p \in 1 .. n : c.accounts[p] \in AccountMeta
  BY DEF IsInstruction
<1>2. \A p \in 1 .. n : l[p] \in AccountMeta /\ l[p].pubkey = c.accounts[p].pubkey
  BY <1>1 DEF AccountMeta
<1>3. DOMAIN l = 1 .. n /\ l = [p \in 1 .. n |-> l[p]]
  BY <1>1
<1>4. WithFlag(c, isSigner, isWritable).accounts = l
      /\ WithFlag(c, isSigner, isWritable).data = c.data
  BY DEF WithFlag
<1> HIDE DEF l
<1>5. l \in [1 .. n -> AccountMeta]
  BY <1>2, <1>3
<1>6. l \in Seq(AccountMeta) /\ Len(l) = n
  BY <1>1, <1>5, FunctionIsList
<1> QED
  BY <1>1, <1>2, <1>4, <1>6 DEF IsInstruction

LEMMA ShortenedIsInstruction ==
    ASSUME NEW c, IsInstruction(c), {"accounts", "data"} \subseteq DOMAIN c,
           Len(c.accounts) >= 1
    PROVE  IsInstruction([c EXCEPT !.accounts = Front(@)])
<1> DEFINE l == Front(c.accounts)
           n == Len(c.accounts)
<1>1. c.accounts \in Seq(AccountMeta) /\ n \in Nat \ {0} /\ n - 1 \in Nat
  BY DEF IsInstruction
<1>2. \A p \in 1 .. n - 1 : c.accounts[p] \in AccountMeta
  BY <1>1
<1>3. /\ l \in Seq(AccountMeta) /\ Len(l) = n - 1
      /\ \A p \in 1 .. n - 1 : l[p] = c.accounts[p]
  <2> DEFINE r == n - 1
  <2>1. l = SubSeq(c.accounts, 1, r)
    BY DEF Front
  <2>2. r \in Nat /\ 1 \in 1 .. Len(c.accounts) + 1 /\ r \in 1 - 1 .. Len(c.accounts)
    BY <1>1
  <2> HIDE DEF r
  <2>3. /\ SubSeq(c.accounts, 1, r) \in Seq(AccountMeta)
        /\ Len(SubSeq(c.accounts, 1, r)) = IF 1 <= r THEN r - 1 + 1 ELSE 0
        /\ \A p \in 1 .. r - 1 + 1 : SubSeq(c.accounts, 1, r)[p] = c.accounts[1 + p - 1]
    BY <1>1, <1>2, <2>2, SubSeqProperties
  <2>4. l \in Seq(AccountMeta) /\ Len(l) = r /\ \A p \in 1 .. r : l[p] = c.accounts[p]
    <3> HIDE DEF l
    <3> QED
      BY <2>1, <2>2, <2>3
  <2> QED
    BY <2>4 DEF r
<1> HIDE DEF l
<1>4. /\ [c EXCEPT !.accounts = l].accounts = l
      /\ [c EXCEPT !.accounts = l].data = c.data
  OBVIOUS
<1>5. IsInstruction([c EXCEPT !.accounts = l])
  BY <1>1, <1>3, <1>4 DEF IsInstruction
<1> QED
  BY <1>5 DEF l

LEMMA MultisigByHandIsInstruction ==
    ASSUME NEW k \in Key, NEW signer \in Signer, NEW n \in Nat, NEW m \in 0 .. MaxSigners + 1
    PROVE  IsInstruction(MultisigByHand(k, signer, n, m))
<1> DEFINE s == [p \in 1 .. n |-> signer]
           no == FALSE
           t == Listed(s, no)
           h == Writable(k)
           l == h \o t
<1>1. s \in Seq(Signer) /\ Len(s) = n
  <2>1. s \in [1 .. n -> Signer]
    OBVIOUS
  <2> HIDE DEF s
  <2> QED
    BY <2>1, FunctionIsList
<1> HIDE DEF s
<1>2. /\ t \in Seq(AccountMeta) /\ Len(t) = Len(s)
      /\ \A p \in 1 .. Len(s) : t[p].pubkey = s[p]
  <2>1. Signer \in SUBSET Key /\ no \in BOOLEAN
    BY ClientAssumption
  <2> HIDE DEF no
  <2> QED
    BY <1>1, <2>1, ListedAre, Zenon
<1>3. h \in Seq(AccountMeta) /\ Len(h) = 1 /\ h[1].pubkey = k
  <2>1. IsItem(h, k)
    BY DEF IsItem
  <2>2. PICK v \in AccountMeta : v.pubkey = k /\ h = <<v>>
    BY <2>1, ItemIsMeta
  <2> QED
    BY <2>2
<1> HIDE DEF h, t
<1>4. /\ l \in Seq(AccountMeta)
      /\ Len(l) = Len(h) + Len(s)
      /\ \A p \in 1 .. Len(h) : l[p] = h[p]
      /\ \A p \in 1 .. Len(s) : l[Len(h) + p].pubkey = s[p]
      /\ \A p \in Len(h) + 1 .. Len(l) : l[p].pubkey \in Signer
  <2>1. t \in Seq(AccountMeta) /\ Len(t) = Len(s) /\ h \in Seq(AccountMeta)
    BY <1>2, <1>3
  <2>2. \A p \in 1 .. Len(s) : t[p].pubkey = s[p]
    BY <1>2
  <2> QED
    BY <1>1, <2>1, <2>2, ListsThen, Zenon
<1> HIDE DEF l
<1>5. AreOperands([tag |-> "InitializeMultisig2", m |-> m])
  BY DEF AreOperands
<1>6. ASSUME NEW p \in 1 .. Len(l)
      PROVE  l[p].pubkey \in Places("InitializeMultisig2", p)
  <2>1. CASE p = 1
    BY <1>3, <1>4, <2>1 DEF Places
  <2>2. CASE p # 1
    BY <1>3, <1>4, <2>2 DEF Places
  <2> QED
    BY <2>1, <2>2
<1>7. IsInstruction([program_id |-> TokenProgram, accounts |-> l,
                     data |-> [tag |-> "InitializeMultisig2", m |-> m]])
  BY <1>4, <1>5, <1>6 DEF IsInstruction
<1> QED
  BY <1>7, Zenon DEF l, h, t, s, MultisigByHand

LEMMA HandmadeIsInstruction ==
    ASSUME client \in Clients, client.by_hand, NEW c \in HandmadeRequests[client]
    PROVE  IsInstruction(c)
<1>1. ASSUME NEW b \in BuiltRequests(client)
      PROVE  /\ {"accounts", "data"} \subseteq DOMAIN b
             /\ Len(b.accounts) >= 1
             /\ IsInstruction(b)
  BY IntentsAreTyped, BuiltIsInstruction DEF BuiltRequests
<1>2. client.multisigs \subseteq Key
  BY ClientsAssumption, ClientAssumption
<1>3. (0 .. MaxSigners + 1) \cup {IndexSpan + 1} \subseteq Nat
  BY SizeAssumption, IndexAssumption
<1> DEFINE multisigs == MultisigsByHand(client)
           readonly == {WithFlag(i, TRUE, FALSE) : i \in BuiltRequests(client)}
           unsigned == {WithFlag(i, FALSE, TRUE) : i \in BuiltRequests(client)}
           shortened == {[i EXCEPT !.accounts = Front(@)] : i \in BuiltRequests(client)}
<1>4. c \in unsigned \cup readonly \cup shortened \cup multisigs
  <2>1. client \in {d \in Clients : d.by_hand}
    OBVIOUS
  <2> QED
    BY <2>1, Zenon DEF HandmadeRequests
<1>5. ASSUME c \in unsigned \cup readonly
      PROVE  IsInstruction(c)
  <2>1. TRUE \in BOOLEAN /\ FALSE \in BOOLEAN
    OBVIOUS
  <2>2. PICK b \in BuiltRequests(client) :
           c = WithFlag(b, FALSE, TRUE) \/ c = WithFlag(b, TRUE, FALSE)
    BY <1>5, Zenon
  <2> QED
    BY <1>1, <2>1, <2>2, ReflaggedIsInstruction
<1>6. ASSUME c \in shortened
      PROVE  IsInstruction(c)
  <2>1. PICK b \in BuiltRequests(client) : c = [b EXCEPT !.accounts = Front(@)]
    BY <1>6, Zenon
  <2> QED
    BY <1>1, <2>1, ShortenedIsInstruction
<1>7. ASSUME c \in multisigs
      PROVE  IsInstruction(c)
  <2>1. PICK k \in client.multisigs, signer \in Signer,
             n \in (0 .. MaxSigners + 1) \cup {IndexSpan + 1}, m \in 0 .. MaxSigners + 1 :
             c = MultisigByHand(k, signer, n, m)
    BY <1>7 DEF MultisigsByHand
  <2>2. k \in Key /\ n \in Nat
    BY <1>2, <1>3
  <2> QED
    BY <2>1, <2>2, MultisigByHandIsInstruction
<1> HIDE DEF unsigned, readonly, shortened, multisigs
<1> QED
  BY <1>4, <1>5, <1>6, <1>7

-----------------------------------------------------------------------------
(* The theorems about Token.                                               *)

Facts == INSTANCE TokenProofs

\* The constants satisfy what those theorems assume.
LEMMA FactsConstants ==
    /\ U64Max \in Nat
    /\ Facts!IsFiniteSet(Key)
    /\ {SystemProgram, Incinerator, NativeMint} \subseteq Key
    /\ None \notin Key
    /\ None \notin Nat
    /\ Decimals \subseteq Nat
    /\ NativeDecimals \in Decimals
    /\ MaxSigners \in Nat \ {0}
    /\ SystemProgram # Incinerator
    /\ NativeMint \notin {SystemProgram, Incinerator}
    /\ TokenProgram \notin {SystemProgram, OtherProgram}
    /\ SystemProgram # OtherProgram
    /\ (Signer \cup MintKey \cup AccountKey \cup MultisigKey \cup ForeignKey)
          \subseteq Key
    /\ ForeignData \subseteq Facts!Data
    /\ MinBalance \in [{"mint", "account", "multisig"} -> Facts!U64]
    /\ GenesisLamports \in [Key -> Facts!U64]
    /\ FundAmount \subseteq Facts!U64
    /\ GiftAmount \subseteq Facts!U64
    /\ {SystemProgram, Incinerator} \cap Signer = {}
    /\ Facts!Total(GenesisLamports) <= U64Max
    /\ MinBalance["mint"] <= GenesisLamports[NativeMint]
    /\ (MintAuthorities \cup FreezeAuthorities \cup Owners
          \cup CloseAuthorities \cup Delegates \cup Refund) \subseteq Key
    /\ Amount \cup Allowance \subseteq Facts!U64
<1>1. U64 = Facts!U64
  BY DEF U64, Facts!U64
<1>2. Data = Facts!Data
  BY DEF U64, Facts!U64, Data, Facts!Data, EmptyData, Facts!EmptyData,
     MintData, Facts!MintData, AccountData, Facts!AccountData,
     MultisigData, Facts!MultisigData, OptionalKey, Facts!OptionalKey,
     AccountState, Facts!AccountState
<1>3. Facts!Total(GenesisLamports) = Total(GenesisLamports)
  <2>1. Facts!Units(GenesisLamports) = Units(GenesisLamports)
    BY DEF Facts!Units, Units
  <2>2. Facts!Cardinality(Units(GenesisLamports))
           = Cardinality(Units(GenesisLamports))
    BY DEF Facts!Cardinality, Cardinality
  <2> QED
    BY <2>1, <2>2 DEF Facts!Total, Total
<1>4. Facts!IsFiniteSet(Key)
  BY KeyAssumption DEF Facts!IsFiniteSet, IsFiniteSet
<1> QED
  BY <1>1, <1>2, <1>3, <1>4, InputAssumption, U64Assumption, KeyAssumption,
     SizeAssumption, DistinctKeys, ProgramAssumption, ClientAssumption, UnsignableAssumption,
     LamportsAssumption

\* Token keeps its invariant.
LEMMA FactsKept ==
    ASSUME Facts!ChainInv, [Facts!Next]_(Facts!vars)
    PROVE  Facts!ChainInv'
<1>1. [Facts!AnyRentNext]_(Facts!vars)
  BY FactsConstants, Facts!NextIsAnyRent
<1> QED
  BY <1>1, FactsConstants, Facts!ChainKept

LEMMA FactsLamports ==
    ASSUME Facts!ChainInv, NEW j \in Key, NEW k \in Key, j # k
    PROVE  lamports[j] + lamports[k] <= U64Max
BY FactsConstants, Facts!LamportsFit

\* Two instances of the same module: the one the refinement is stated with, and
\* the one the theorems are about.  Their definitions read the same.
LEMMA FactsStep ==
    [Bank!Next]_(Bank!vars) => [Facts!Next]_(Facts!vars)
BY Zenon DEF
   Bank!Cardinality, Facts!Cardinality, Bank!Next, Bank!vars, Bank!Environment, Bank!Permissionless,
   Bank!SignedBy, Bank!SystemTransfer, Bank!Layouts, Bank!CreateAccount,
   Bank!EmptyData, Bank!OtherProgramWrites, Bank!OtherProgramAssigns,
   Bank!MintAccounts, Bank!InitializeMint, Bank!TokenAccounts,
   Bank!InitializeAccount, Bank!MultisigAccounts, Bank!SignerLists,
   Bank!InitializeMultisig, Bank!SyncNative, Bank!Expected, Bank!Transfer,
   Bank!Approve, Bank!Revoke, Bank!SetAuthority, Bank!MintTo, Bank!Burn,
   Bank!CloseAccount, Bank!ToggleFreezeAccount, Bank!IsWallet, Bank!Pay,
   Bank!ZeroMint, Bank!ZeroAccount, Bank!ZeroMultisig, Bank!AlreadyInUse,
   Bank!IsRentExempt, Bank!Pack, Bank!IsValidMint, Bank!IsValidSignerIndex,
   Bank!CheckAccountOwner, Bank!IsAccount, Bank!IsNative, Bank!Wrapped,
   Bank!IsFrozen, Bank!DecimalsMatch, Bank!MaySpend, Bank!IsSelfTransfer,
   Bank!CheckedAddFits, Bank!ReduceAllowance, Bank!RuntimeAccepts,
   Bank!ValidateOwner, Bank!SetAccountOwner, Bank!SetCloseAuthority,
   Bank!SetMintAuthority, Bank!SetFreezeAuthority, Bank!IsMint,
   Bank!IsOwnedBySystemProgramOrIncinerator, Bank!IsClosableInto,
   Bank!IsClosable, Bank!MayReceiveAbandoned, Bank!Closer,
   Bank!DeleteAccount, Bank!IsMultisig, Bank!Zeroed, Bank!HandOver,
   Bank!FreezeSetter, Facts!Next, Facts!vars, Facts!Environment,
   Facts!Permissionless, Facts!SignedBy, Facts!SystemTransfer,
   Facts!Layouts, Facts!CreateAccount, Facts!EmptyData,
   Facts!OtherProgramWrites, Facts!OtherProgramAssigns,
   Facts!MintAccounts, Facts!InitializeMint, Facts!TokenAccounts,
   Facts!InitializeAccount, Facts!MultisigAccounts,
   Facts!SignerLists, Facts!InitializeMultisig, Facts!SyncNative,
   Facts!Expected, Facts!Transfer, Facts!Approve,
   Facts!Revoke, Facts!SetAuthority, Facts!MintTo,
   Facts!Burn, Facts!CloseAccount, Facts!ToggleFreezeAccount,
   Facts!IsWallet, Facts!Pay, Facts!ZeroMint,
   Facts!ZeroAccount, Facts!ZeroMultisig, Facts!AlreadyInUse,
   Facts!IsRentExempt, Facts!Pack, Facts!IsValidMint,
   Facts!IsValidSignerIndex, Facts!CheckAccountOwner,
   Facts!IsAccount, Facts!IsNative, Facts!Wrapped,
   Facts!IsFrozen, Facts!DecimalsMatch, Facts!MaySpend,
   Facts!IsSelfTransfer, Facts!CheckedAddFits,
   Facts!ReduceAllowance, Facts!RuntimeAccepts,
   Facts!ValidateOwner, Facts!SetAccountOwner,
   Facts!SetCloseAuthority, Facts!SetMintAuthority,
   Facts!SetFreezeAuthority, Facts!IsMint,
   Facts!IsOwnedBySystemProgramOrIncinerator, Facts!IsClosableInto,
   Facts!IsClosable, Facts!MayReceiveAbandoned, Facts!Closer,
   Facts!DeleteAccount, Facts!IsMultisig, Facts!Zeroed,
   Facts!HandOver, Facts!FreezeSetter

-----------------------------------------------------------------------------
(* The handler, looking at the committed accounts.                         *)

Committed == [lamports |-> lamports, owner |-> owner, data |-> data]

Before == INSTANCE TokenInvocation WITH cells <- Committed

\* The ? of Rust.
LEMMA GoesOn ==
    \A a, b : (a & b) = Ok <=> a = Ok /\ b = Ok
BY DEF &, Ok

LEMMA GoesOnBefore ==
    \A a, b : Before!&(a, b) = (a & b)
<1> SUFFICES ASSUME NEW a, NEW b PROVE Before!&(a, b) = (a & b)
  OBVIOUS
<1> QED
  BY DEF &, Before!&, Ok, Before!Ok

\* As long as nothing is written, the handler sees what is committed.
LEMMA SeesCommitted ==
    ASSUME cells = Committed
    PROVE  /\ ExpectedOwner = Before!ExpectedOwner
           /\ ChecksAfterwards = Before!ChecksAfterwards
           /\ Writes = Before!Writes
BY DEF Committed, Ok, Before!Ok, Op, Before!Op, K, Before!K, D, Before!D, Shift,
       Before!Shift, CheckAccountOwner, Before!CheckAccountOwner, SignerInfos,
       Before!SignerInfos, SpendsAllowance, Before!SpendsAllowance,
       IsAbandoned, Before!IsAbandoned, AuthorityAt, Before!AuthorityAt,
       SpenderOf, Before!SpenderOf, CloserOf, Before!CloserOf, OwnedAuthority,
       Before!OwnedAuthority, ExpectedOwner, Before!ExpectedOwner,
       WithinAllowance, Before!WithinAllowance, OwnersAreToken,
       Before!OwnersAreToken, IsSelfTransfer, Before!IsSelfTransfer,
       TransferAfterwards, Before!TransferAfterwards, MintToAfterwards,
       Before!MintToAfterwards, BurnAfterwards, Before!BurnAfterwards,
       ChecksAfterwards, Before!ChecksAfterwards, Write, Before!Write, Add,
       Before!Add, DeleteAccount, Before!DeleteAccount,
       InitializeAccountWrites, Before!InitializeAccountWrites, Spent,
       Before!Spent, TransferWrites, Before!TransferWrites,
       SetAuthorityWrites, Before!SetAuthorityWrites, BurnWrites,
       Before!BurnWrites, CloseAccountWrites, Before!CloseAccountWrites,
       Writes, Before!Writes, Ensure, Before!Ensure, &, Before!&, IsNative,
       Before!IsNative, IsOwnedBySystemProgramOrIncinerator,
       Before!IsOwnedBySystemProgramOrIncinerator, EmptyData, Before!EmptyData

LEMMA ReadsCommitted ==
    ASSUME cells = Committed
    PROVE  /\ Before!Op = Op
           /\ Before!Shift = Shift
           /\ Before!SignerInfos = SignerInfos
           /\ \A n : Before!Has(n) = Has(n)
           /\ \A n : Before!K(n) = K(n)
           /\ \A n : Before!D(n) = D(n)
           /\ \A n : Before!Rent(n) = Rent(n)
           /\ \A n : Before!CheckAccountOwner(n) = CheckAccountOwner(n)
           /\ \A n : Before!ValidMint(n) = ValidMint(n)
           /\ \A n : Before!ExpectedDecimals(n) = ExpectedDecimals(n)
           /\ \A d, kind : Before!Unpack(d, kind) = Unpack(d, kind)
           /\ \A d, kind : Before!UnpackUnchecked(d, kind) = UnpackUnchecked(d, kind)
           /\ \A d : Before!NotFrozen(d) = NotFrozen(d)
           /\ \A d : Before!NotNative(d) = NotNative(d)
           /\ \A d : Before!IsInitialized(d) = IsInitialized(d)
           /\ \A d : Before!IsFrozen(d) = IsFrozen(d)
           /\ \A d : Before!IsNative(d) = IsNative(d)
           /\ \A kind : Before!Claimable(kind) = Claimable(kind)
           /\ \A d : Before!ExpectedMint(d) = ExpectedMint(d)
           /\ \A c, e : Before!Ensure(c, e) = Ensure(c, e)
BY GoesOnBefore, Zenon
   DEF Committed, Op, Before!Op, Shift, Before!Shift, SignerInfos, Before!SignerInfos,
       Has, Before!Has, K, Before!K, D, Before!D, Rent, Before!Rent,
       CheckAccountOwner, Before!CheckAccountOwner, ValidMint,
       Before!ValidMint, ExpectedDecimals, Before!ExpectedDecimals, Unpack,
       Before!Unpack, UnpackUnchecked, Before!UnpackUnchecked, NotFrozen,
       Before!NotFrozen, NotNative, Before!NotNative, IsInitialized,
       Before!IsInitialized, IsFrozen, Before!IsFrozen, IsNative,
       Before!IsNative, Claimable, Before!Claimable, ExpectedMint,
       Before!ExpectedMint, Ensure, Before!Ensure, Ok, Before!Ok, IsMint,
       Before!IsMint, IsAccount, Before!IsAccount, IsMultisig,
       Before!IsMultisig, HasDecimals, Before!HasDecimals

LEMMA ChecksCommitted ==
    ASSUME cells = Committed, Op.tag # "UiAmountToAmount"
    PROVE  Before!Checks = Checks
<1>1. Before!InitializeAccountChecks = InitializeAccountChecks
  BY GoesOnBefore
     DEF Committed, InitializeAccountChecks, Before!InitializeAccountChecks,
         Ok, Before!Ok, Op, Before!Op, Has, Before!Has, K, Before!K, D,
         Before!D, Rent, Before!Rent, UnpackUnchecked, Before!UnpackUnchecked,
         IsInitialized, Before!IsInitialized, CheckAccountOwner,
         Before!CheckAccountOwner, Claimable, Before!Claimable, ValidMint,
         Before!ValidMint, Ensure, Before!Ensure, IsMint, Before!IsMint,
         IsAccount, Before!IsAccount, IsMultisig, Before!IsMultisig
<1>2. /\ Before!InitializeMintChecks = InitializeMintChecks
      /\ Before!InitializeMultisigChecks = InitializeMultisigChecks
      /\ Before!TransferChecks = TransferChecks
      /\ Before!ApproveChecks = ApproveChecks
      /\ Before!RevokeChecks = RevokeChecks
      /\ Before!SetAuthorityChecks = SetAuthorityChecks
      /\ Before!MintToChecks = MintToChecks
      /\ Before!BurnChecks = BurnChecks
      /\ Before!CloseAccountChecks = CloseAccountChecks
      /\ Before!ToggleFreezeAccountChecks = ToggleFreezeAccountChecks
      /\ Before!SyncNativeChecks = SyncNativeChecks
      /\ Before!InitializeImmutableOwnerChecks = InitializeImmutableOwnerChecks
      /\ Before!GetAccountDataSizeChecks = GetAccountDataSizeChecks
      /\ Before!AmountToUiAmountChecks = AmountToUiAmountChecks
  BY GoesOnBefore, ReadsCommitted
     DEF Committed,
         IsValidSignerIndex, Before!IsValidSignerIndex,
         IsOwnedBySystemProgramOrIncinerator,
         Before!IsOwnedBySystemProgramOrIncinerator, InitializeMintChecks,
         Before!InitializeMintChecks, InitializeMultisigChecks,
         Before!InitializeMultisigChecks, TransferChecks,
         Before!TransferChecks, ApproveChecks, Before!ApproveChecks,
         RevokeChecks, Before!RevokeChecks, SetAuthorityChecks,
         Before!SetAuthorityChecks, MintToChecks, Before!MintToChecks,
         BurnChecks, Before!BurnChecks, CloseAccountChecks,
         Before!CloseAccountChecks, ToggleFreezeAccountChecks,
         Before!ToggleFreezeAccountChecks, SyncNativeChecks,
         Before!SyncNativeChecks, InitializeImmutableOwnerChecks,
         Before!InitializeImmutableOwnerChecks, GetAccountDataSizeChecks,
         Before!GetAccountDataSizeChecks, AmountToUiAmountChecks,
         Before!AmountToUiAmountChecks
<1> QED
  BY <1>1, <1>2 DEF Checks, Before!Checks, Op, Before!Op

\* What it found out of them stays true until the next commit.
LEMMA FindingsLast ==
    ASSUME UNCHANGED <<lamports, owner, data, call>>
    PROVE  /\ Before!ExpectedOwner' = Before!ExpectedOwner
           /\ Before!ChecksAfterwards' = Before!ChecksAfterwards
           /\ Before!Writes' = Before!Writes
BY DEF Committed, Before!Ok, Before!Op, Before!K, Before!D, Before!Shift,
       Before!CheckAccountOwner, Before!SignerInfos, Before!SpendsAllowance,
       Before!IsAbandoned, Before!AuthorityAt, Before!SpenderOf,
       Before!CloserOf, Before!OwnedAuthority, Before!ExpectedOwner,
       Before!WithinAllowance, Before!OwnersAreToken, Before!IsSelfTransfer,
       Before!TransferAfterwards, Before!MintToAfterwards,
       Before!BurnAfterwards, Before!ChecksAfterwards, Before!Write,
       Before!Add, Before!DeleteAccount, Before!InitializeAccountWrites,
       Before!Spent, Before!TransferWrites, Before!SetAuthorityWrites,
       Before!BurnWrites, Before!CloseAccountWrites, Before!Writes,
       Before!Ensure, Before!&, Before!IsNative,
       Before!IsOwnedBySystemProgramOrIncinerator, Before!EmptyData, Op

LEMMA ChecksLast ==
    ASSUME UNCHANGED <<lamports, owner, data, call>>, Op.tag # "UiAmountToAmount"
    PROVE  Before!Checks' = Before!Checks
<1>1. /\ Before!InitializeMintChecks' = Before!InitializeMintChecks
      /\ Before!InitializeAccountChecks' = Before!InitializeAccountChecks
      /\ Before!InitializeMultisigChecks' = Before!InitializeMultisigChecks
      /\ Before!TransferChecks' = Before!TransferChecks
      /\ Before!ApproveChecks' = Before!ApproveChecks
      /\ Before!RevokeChecks' = Before!RevokeChecks
      /\ Before!SetAuthorityChecks' = Before!SetAuthorityChecks
      /\ Before!MintToChecks' = Before!MintToChecks
      /\ Before!BurnChecks' = Before!BurnChecks
      /\ Before!CloseAccountChecks' = Before!CloseAccountChecks
      /\ Before!ToggleFreezeAccountChecks' = Before!ToggleFreezeAccountChecks
      /\ Before!SyncNativeChecks' = Before!SyncNativeChecks
      /\ Before!InitializeImmutableOwnerChecks' = Before!InitializeImmutableOwnerChecks
      /\ Before!GetAccountDataSizeChecks' = Before!GetAccountDataSizeChecks
      /\ Before!AmountToUiAmountChecks' = Before!AmountToUiAmountChecks
  BY DEF Committed, Op,
         Before!Op, Before!Shift, Before!SignerInfos, Before!Has, Before!K,
         Before!D, Before!Rent, Before!CheckAccountOwner, Before!ValidMint,
         Before!ExpectedDecimals, Before!Unpack, Before!UnpackUnchecked,
         Before!NotFrozen, Before!NotNative, Before!IsInitialized,
         Before!IsFrozen, Before!IsNative, Before!Claimable,
         Before!ExpectedMint, Before!Ensure, Before!Ok, Before!IsMint,
         Before!IsAccount, Before!IsMultisig, Before!HasDecimals,
         Before!IsValidSignerIndex,
         Before!IsOwnedBySystemProgramOrIncinerator,
         Before!InitializeMintChecks, Before!InitializeAccountChecks,
         Before!InitializeMultisigChecks, Before!TransferChecks,
         Before!ApproveChecks, Before!RevokeChecks, Before!SetAuthorityChecks,
         Before!MintToChecks, Before!BurnChecks, Before!CloseAccountChecks,
         Before!ToggleFreezeAccountChecks, Before!SyncNativeChecks,
         Before!InitializeImmutableOwnerChecks,
         Before!GetAccountDataSizeChecks, Before!AmountToUiAmountChecks
<1> QED
  BY <1>1 DEF Before!Checks, Before!Op, Op

-----------------------------------------------------------------------------
(* The stages of an invocation.                                            *)

\* The signatures of the transaction.
Signatures == IF intent = None THEN Signer ELSE SignersOf(intent)

\* The call is one of a client, and carries its intent when a builder made it.
CallGiven ==
    /\ IsInstruction(call)
    /\ intent # None \/ ~client.by_hand =>
          intent \in Intents[client] /\ IsBuilt(Build(intent)) /\ call = Build(intent)

\* The runtime has seen the signatures the call asks for.
Signed ==
    \A p \in DOMAIN call.accounts :
        call.accounts[p].is_signer => call.accounts[p].pubkey \in Signatures

Vetted == Op.tag # "UiAmountToAmount" => Before!Checks = Ok

\* So far the loop has matched positions of signers who did sign.
Counting ==
    LET k == K(AuthorityAt)
    IN  /\ Before!ExpectedOwner = k /\ k # None
        /\ owner[k] = TokenProgram /\ IsMultisig(data[k])
        /\ matching.matched \subseteq
              {p \in DOMAIN data[k].signers : data[k].signers[p] \in Signatures}
        /\ matching.count = Cardinality(matching.matched)

Consented ==
    \/ Before!ExpectedOwner = None
    \/ /\ Before!ExpectedOwner = K(AuthorityAt)
       /\ Bank!ValidateOwner(K(AuthorityAt), Signatures)

\* A write made on the copies c.
Done(c, e) ==
    [c EXCEPT ![e.field][e.at] = IF e.field = "lamports" THEN @ + e.by ELSE e.to]

\* The copies after the first n of the writes w.
After(w, n) ==
    IF n = 0 THEN Committed
    ELSE IF n = 1 THEN Done(Committed, w[1])
    ELSE IF n = 2 THEN Done(Done(Committed, w[1]), w[2])
    ELSE IF n = 3 THEN Done(Done(Done(Committed, w[1]), w[2]), w[3])
    ELSE Done(Done(Done(Done(Committed, w[1]), w[2]), w[3]), w[4])

\* The first n of the writes w are made, and the others are left.
Written(w, n) ==
    /\ cells = After(w, n)
    /\ effects \in Seq(Range(w))
    /\ Len(effects) = Len(w) - n
    /\ \A i \in 1 .. Len(effects) : effects[i] = w[n + i]

\* Some of the writes that the processor decided on are made.
Writing == \E n \in 0 .. Len(Before!Writes) : Written(Before!Writes, n)

StageInv ==
    /\ pc \in {"idle", "check", "authorise", "signers", "apply", "write", "exit"}
    /\ pc = "idle" => intent = None /\ effects = <<>>
    /\ pc # "idle" => CallGiven /\ (result = Ok => Signed)
    /\ pc \in {"check", "authorise", "signers", "apply"} =>
          cells = Committed /\ effects = <<>>
    /\ pc \in {"check", "authorise", "signers", "apply", "write"} => result = Ok
    /\ pc \notin {"idle", "check"} /\ result = Ok => Vetted
    /\ pc = "authorise" => Before!ExpectedOwner # None
    /\ pc = "signers" => Counting
    /\ pc \in {"apply", "write", "exit"} /\ result = Ok => Consented
    /\ pc \in {"write", "exit"} /\ result = Ok =>
          Before!ChecksAfterwards = Ok /\ Writing
    /\ pc = "exit" /\ result = Ok => effects = <<>>
    /\ pc = "exit" /\ result # Ok /\ effects # <<>> => owner[K(1)] # TokenProgram

\* All of it lasts until the next commit.
LEMMA StageLasts ==
    ASSUME UNCHANGED <<lamports, owner, data, intent, call, client>>
    PROVE  /\ CallGiven => CallGiven'
           /\ Signed => Signed'
           /\ Vetted => Vetted'
           /\ Consented => Consented'
           /\ Before!ExpectedOwner' = Before!ExpectedOwner
           /\ Before!ChecksAfterwards' = Before!ChecksAfterwards
           /\ Before!Writes' = Before!Writes
           /\ Committed' = Committed
           /\ Signatures' = Signatures
           /\ K(AuthorityAt)' = K(AuthorityAt) /\ K(1)' = K(1)
<1>1. /\ Before!ExpectedOwner' = Before!ExpectedOwner
      /\ Before!ChecksAfterwards' = Before!ChecksAfterwards
      /\ Before!Writes' = Before!Writes
  BY FindingsLast
<1>2. Committed' = Committed
  BY DEF Committed
<1>3. Signatures' = Signatures
  BY DEF Signatures
<1>4. K(AuthorityAt)' = K(AuthorityAt) /\ K(1)' = K(1)
  BY DEF K, AuthorityAt, Shift, Op
<1>5. CallGiven => CallGiven'
  BY DEF CallGiven
<1>6. Signed => Signed'
  BY <1>3 DEF Signed
<1>7. Vetted => Vetted'
  BY ChecksLast DEF Vetted, Op
<1>8. Consented => Consented'
  BY <1>1, <1>3, <1>4 DEF Consented, Bank!ValidateOwner
<1> QED
  BY <1>1, <1>2, <1>3, <1>4, <1>5, <1>6, <1>7, <1>8

\* A step that leaves the list of writes alone makes the first n of them when
\* its copies and the writes it leaves say so.
LEMMA SameWritten ==
    ASSUME NEW n, Before!Writes' = Before!Writes,
           cells' = After(Before!Writes, n)',
           effects' \in Seq(Range(Before!Writes)),
           Len(effects') = Len(Before!Writes) - n,
           \A i \in 1 .. Len(effects') : effects'[i] = Before!Writes[n + i]
    PROVE  Written(Before!Writes, n)'
<1> DEFINE w == Before!Writes
<1>1. w' = w
  OBVIOUS
<1>2. /\ cells' = After(w, n)'
      /\ effects' \in Seq(Range(w'))
      /\ Len(effects') = Len(w') - n
      /\ \A i \in 1 .. Len(effects') : effects'[i] = w'[n + i]
  BY <1>1
<1> HIDE DEF w
<1>3. Written(w, n)'
  BY <1>2 DEF Written, Range
<1> QED
  BY <1>3 DEF w

\* The copies the first n writes make are the same while the list is.
LEMMA AfterLasts ==
    ASSUME NEW n, Before!Writes' = Before!Writes, Committed' = Committed
    PROVE  After(Before!Writes, n)' = After(Before!Writes, n)
<1> DEFINE w  == Before!Writes
           c0 == Committed
           c1 == Done(c0, w[1])
           c2 == Done(c1, w[2])
           c3 == Done(c2, w[3])
           c4 == Done(c3, w[4])
<1>1. w' = w /\ c0' = c0
  OBVIOUS
<1>2. After(w, n) = IF n = 0 THEN c0 ELSE IF n = 1 THEN c1
                    ELSE IF n = 2 THEN c2 ELSE IF n = 3 THEN c3 ELSE c4
  BY Zenon DEF After
<1>3. After(w, n)' = IF n = 0 THEN c0' ELSE IF n = 1 THEN c1'
                     ELSE IF n = 2 THEN c2' ELSE IF n = 3 THEN c3' ELSE c4'
  BY Zenon DEF After
<1> HIDE DEF w, c0
<1>4. c1' = c1
  BY <1>1, Zenon DEF Done
<1> HIDE DEF c1
<1>5. c2' = c2
  BY <1>1, <1>4, Zenon DEF Done
<1> HIDE DEF c2
<1>6. c3' = c3
  BY <1>1, <1>5, Zenon DEF Done
<1> HIDE DEF c3
<1>7. c4' = c4
  BY <1>1, <1>6, Zenon DEF Done
<1> HIDE DEF c4
<1>8. After(w, n)' = After(w, n)
  BY <1>1, <1>2, <1>3, <1>4, <1>5, <1>6, <1>7, Zenon
<1> QED
  BY <1>8, Zenon DEF w

\* What is written stays written until the next write or the commit.
LEMMA WritingLasts ==
    ASSUME UNCHANGED <<cells, effects>>,
           Before!Writes' = Before!Writes, Committed' = Committed
    PROVE  Writing => Writing'
<1> SUFFICES ASSUME Writing
             PROVE  Writing'
  OBVIOUS
<1>1. PICK n \in 0 .. Len(Before!Writes) : Written(Before!Writes, n)
  BY DEF Writing
<1>2. After(Before!Writes, n)' = After(Before!Writes, n)
  BY AfterLasts
<1>3. /\ cells = After(Before!Writes, n)
      /\ effects \in Seq(Range(Before!Writes))
      /\ Len(effects) = Len(Before!Writes) - n
      /\ \A i \in 1 .. Len(effects) : effects[i] = Before!Writes[n + i]
  BY <1>1 DEF Written
<1>4. Written(Before!Writes, n)'
  BY <1>2, <1>3, SameWritten
<1>5. n \in (0 .. Len(Before!Writes))'
  OBVIOUS
<1> QED
  BY <1>4, <1>5 DEF Writing

-----------------------------------------------------------------------------
(* Every step keeps to the stages.                                         *)

LEMMA BeforeReads ==
    /\ Before!Op = Op
    /\ \A n : Before!K(n) = K(n) /\ Before!D(n) = data[K(n)]
    /\ Before!Shift = Shift
    /\ Before!AuthorityAt = AuthorityAt
BY DEF Before!Op, Op, Before!K, K, Before!D, Committed, Before!Shift, Shift,
       Before!AuthorityAt, AuthorityAt

\* The writes of the handlers, one by one.
Put(n, d) == [field |-> "data", at |-> K(n), to |-> d]

Give(n, amount) == [field |-> "lamports", at |-> K(n), by |-> amount]

LEMMA WriteIsPut ==
    ASSUME NEW n, NEW d
    PROVE  Before!Write(n, d) = <<Put(n, d)>> /\ Before!Add(n, d) = <<Give(n, d)>>
BY DEF Before!Write, Before!Add, Put, Give, Before!K, K

LEMMA TransferWritesAre ==
    LET dst == 2 + Shift
        a == data[K(1)]
        spend == Put(1, Before!Spent(a))
        receive == Put(dst, [data[K(dst)] EXCEPT !.amount = @ + Op.amount])
    IN  Before!TransferWrites =
          IF K(1) = K(dst) THEN <<>>
          ELSE IF IsNative(a)
          THEN <<Give(1, -Op.amount), Give(dst, Op.amount), spend, receive>>
          ELSE <<spend, receive>>
<1> DEFINE dst == 2 + Shift
           a == data[K(1)]
           spend == Put(1, Before!Spent(a))
           receive == Put(dst, [data[K(dst)] EXCEPT !.amount = @ + Op.amount])
           move == IF IsNative(a) THEN <<Give(1, -Op.amount)>> \o <<Give(dst, Op.amount)>>
                   ELSE <<>>
<1>1. Before!TransferWrites = IF K(1) = K(dst) THEN <<>> ELSE move \o <<spend>> \o <<receive>>
  BY BeforeReads, WriteIsPut
     DEF Before!TransferWrites, Before!IsSelfTransfer, Before!IsNative, IsNative
<1>2. IsNative(a) => move = <<Give(1, -Op.amount), Give(dst, Op.amount)>>
  BY JoinOne
<1>3. ~IsNative(a) => move = <<>>
  OBVIOUS
<1> HIDE DEF spend, receive, move
<1>4. IsNative(a) =>
         move \o <<spend>> \o <<receive>>
            = <<Give(1, -Op.amount), Give(dst, Op.amount), spend, receive>>
  <2>1. <<Give(1, -Op.amount), Give(dst, Op.amount)>> \o <<spend>>
           = <<Give(1, -Op.amount), Give(dst, Op.amount), spend>>
    BY JoinThird
  <2>2. <<Give(1, -Op.amount), Give(dst, Op.amount), spend>> \o <<receive>>
           = <<Give(1, -Op.amount), Give(dst, Op.amount), spend, receive>>
    BY JoinFourth
  <2> QED
    BY <1>2, <2>1, <2>2
<1>5. ~IsNative(a) => move \o <<spend>> \o <<receive>> = <<spend, receive>>
  BY <1>3, JoinOne
<1>6. Before!TransferWrites =
        IF K(1) = K(dst) THEN <<>>
        ELSE IF IsNative(a)
        THEN <<Give(1, -Op.amount), Give(dst, Op.amount), spend, receive>>
        ELSE <<spend, receive>>
  BY <1>1, <1>4, <1>5
<1> QED
  BY <1>6 DEF spend, receive

LEMMA BurnWritesAre ==
    LET a == data[K(1)]
    IN  Before!BurnWrites =
          <<Put(1, IF Before!IsAbandoned THEN [a EXCEPT !.amount = @ - Op.amount]
                   ELSE Before!Spent(a)),
            Put(2, [data[K(2)] EXCEPT !.supply = @ - Op.amount])>>
<1> DEFINE x == IF Before!IsAbandoned THEN [data[K(1)] EXCEPT !.amount = @ - Op.amount]
                ELSE Before!Spent(data[K(1)])
           y == [data[K(2)] EXCEPT !.supply = @ - Op.amount]
<1>1. Before!BurnWrites = Before!Write(1, x) \o Before!Write(2, y)
  BY BeforeReads DEF Before!BurnWrites
<1> HIDE DEF x, y
<1>2. Before!BurnWrites = <<Put(1, x), Put(2, y)>>
  BY <1>1, WriteIsPut, JoinOne
<1> QED
  BY <1>2 DEF x, y

LEMMA CloseAccountWritesAre ==
    Before!CloseAccountWrites =
        <<Give(2, lamports[K(1)]), Give(1, -lamports[K(1)]),
          [field |-> "owner", at |-> K(1), to |-> SystemProgram], Put(1, EmptyData)>>
<1> DEFINE leave == [field |-> "owner", at |-> K(1), to |-> SystemProgram]
<1>1. Before!CloseAccountWrites =
        (<<Give(2, lamports[K(1)])>> \o <<Give(1, -lamports[K(1)])>>)
          \o (<<leave>> \o <<Put(1, EmptyData)>>)
  BY BeforeReads, WriteIsPut
     DEF Before!CloseAccountWrites, Before!DeleteAccount, Committed, EmptyData,
         Before!EmptyData
<1> HIDE DEF leave
<1>2. Before!CloseAccountWrites =
        <<Give(2, lamports[K(1)]), Give(1, -lamports[K(1)]), leave, Put(1, EmptyData)>>
  <2>1. /\ <<Give(2, lamports[K(1)])>> \o <<Give(1, -lamports[K(1)])>>
              = <<Give(2, lamports[K(1)]), Give(1, -lamports[K(1)])>>
        /\ <<leave>> \o <<Put(1, EmptyData)>> = <<leave, Put(1, EmptyData)>>
    BY JoinOne
  <2> QED
    BY <1>1, <2>1, JoinTwo
<1> QED
  BY <1>2 DEF leave

LEMMA WritesAre ==
    LET a == data[K(1)]
        b == data[K(2)]
    IN
    /\ Op.tag \in {"InitializeMint", "InitializeMint2"} =>
          Before!Writes =
             <<Put(1, [a EXCEPT !.mint_authority = Op.mint_authority,
                                !.decimals = Op.decimals, !.is_initialized = TRUE,
                                !.freeze_authority = Op.freeze_authority])>>
    /\ Op.tag \in {"InitializeAccount", "InitializeAccount2", "InitializeAccount3"} =>
          Before!Writes = Before!InitializeAccountWrites
    /\ Op.tag \in {"InitializeMultisig", "InitializeMultisig2"} =>
          Before!Writes =
             <<Put(1, [kind |-> "multisig", m |-> Op.m, is_initialized |-> TRUE,
                       signers |-> [p \in DOMAIN SignerInfos |-> SignerInfos[p].pubkey]])>>
    /\ Op.tag \in {"Transfer", "TransferChecked"} => Before!Writes = Before!TransferWrites
    /\ Op.tag \in {"Approve", "ApproveChecked"} =>
          Before!Writes = <<Put(1, [a EXCEPT !.delegate = K(2 + Shift),
                                             !.delegated_amount = Op.amount])>>
    /\ Op.tag = "Revoke" =>
          Before!Writes = <<Put(1, [a EXCEPT !.delegate = None, !.delegated_amount = 0])>>
    /\ Op.tag = "SetAuthority" => Before!Writes = Before!SetAuthorityWrites
    /\ Op.tag \in {"MintTo", "MintToChecked"} =>
          Before!Writes = <<Put(2, [b EXCEPT !.amount = @ + Op.amount]),
                            Put(1, [a EXCEPT !.supply = @ + Op.amount])>>
    /\ Op.tag \in {"Burn", "BurnChecked"} => Before!Writes = Before!BurnWrites
    /\ Op.tag = "CloseAccount" => Before!Writes = Before!CloseAccountWrites
    /\ Op.tag \in {"FreezeAccount", "ThawAccount"} =>
          Before!Writes = <<Put(1, [a EXCEPT !.state = IF Op.tag = "FreezeAccount"
                                                       THEN "Frozen" ELSE "Initialized"])>>
    /\ Op.tag = "SyncNative" =>
          Before!Writes = <<Put(1, [a EXCEPT !.amount = lamports[K(1)] - a.is_native])>>
    /\ Op.tag \notin {"InitializeMint", "InitializeMint2", "InitializeAccount",
                      "InitializeAccount2", "InitializeAccount3", "InitializeMultisig",
                      "InitializeMultisig2", "Transfer", "TransferChecked", "Approve",
                      "ApproveChecked", "Revoke", "SetAuthority", "MintTo",
                      "MintToChecked", "Burn", "BurnChecked", "CloseAccount",
                      "FreezeAccount", "ThawAccount", "SyncNative"} =>
          Before!Writes = <<>>
<1> DEFINE one == Put(2, [data[K(2)] EXCEPT !.amount = @ + Op.amount])
           other == Put(1, [data[K(1)] EXCEPT !.supply = @ + Op.amount])
<1>1. Op.tag \in {"MintTo", "MintToChecked"} => Before!Writes = <<one>> \o <<other>>
  BY BeforeReads, WriteIsPut DEF Before!Writes
<1>2. <<one>> \o <<other>> = <<one, other>>
  BY JoinOne
<1>3. Before!SignerInfos = SignerInfos /\ Committed.lamports = lamports
  BY BeforeReads DEF Before!SignerInfos, SignerInfos, Committed
<1> QED
  BY BeforeReads, WriteIsPut, <1>1, <1>2, <1>3, Zenon DEF Before!Writes

LEMMA WritesAreFew ==
    LET w == Before!Writes
    IN  w \in Seq(Range(w)) /\ Len(w) \in 0 .. 4
<1>1. \/ Before!Writes = <<>>
      \/ \E a : Before!Writes = <<a>>
      \/ \E a, b : Before!Writes = <<a, b>>
      \/ \E a, b, c, d : Before!Writes = <<a, b, c, d>>
  <2>1. /\ \E a : Before!InitializeAccountWrites = <<a>>
        /\ \E a : Before!SetAuthorityWrites = <<a>>
    BY WriteIsPut DEF Before!InitializeAccountWrites, Before!SetAuthorityWrites
  <2>2. \/ Before!TransferWrites = <<>>
        \/ \E a, b : Before!TransferWrites = <<a, b>>
        \/ \E a, b, c, d : Before!TransferWrites = <<a, b, c, d>>
    BY TransferWritesAre
  <2>3. /\ \E a, b : Before!BurnWrites = <<a, b>>
        /\ \E a, b, c, d : Before!CloseAccountWrites = <<a, b, c, d>>
    BY BurnWritesAre, CloseAccountWritesAre
  <2> QED
    BY <2>1, <2>2, <2>3, WritesAre
<1>2. ASSUME NEW w, NEW S, w \in Seq(S)
      PROVE  w \in Seq(Range(w))
  BY <1>2, SeqOfRange
<1>3. \E S : Before!Writes \in Seq(S) /\ Len(Before!Writes) \in {0, 1, 2, 4}
  <2>1. CASE Before!Writes = <<>>
    BY <2>1, EmptySeq
  <2>2. ASSUME NEW a, Before!Writes = <<a>>
        PROVE  Before!Writes \in Seq({a}) /\ Len(Before!Writes) = 1
    BY <2>2
  <2>3. ASSUME NEW a, NEW b, Before!Writes = <<a, b>>
        PROVE  Before!Writes \in Seq({a, b}) /\ Len(Before!Writes) = 2
    BY <2>3
  <2>4. ASSUME NEW a, NEW b, NEW c, NEW d, Before!Writes = <<a, b, c, d>>
        PROVE  Before!Writes \in Seq({a, b, c, d}) /\ Len(Before!Writes) = 4
    BY <2>4
  <2> QED
    BY <1>1, <2>1, <2>2, <2>3, <2>4
<1> QED
  BY <1>2, <1>3

LEMMA CheckStage ==
    ASSUME StageInv, Check, UNCHANGED client
    PROVE  StageInv'
<1>1. /\ pc = "check" /\ result = Ok /\ cells = Committed /\ effects = <<>>
      /\ CallGiven /\ Signed
  BY DEF Check, StageInv
<1>2. UNCHANGED <<lamports, owner, data, intent, call, cells, effects>>
  BY DEF Check, Fail, Goto
<1>3. /\ CallGiven' /\ Signed' /\ cells' = Committed' /\ effects' = <<>>
      /\ Before!ExpectedOwner' = Before!ExpectedOwner
  BY <1>1, <1>2, StageLasts
<1>4. CASE Checks # Ok
  BY <1>3, <1>4 DEF Check, Fail, StageInv, Ok
<1>5. CASE Checks = Ok
  <2>1. Vetted'
    BY <1>1, <1>2, <1>5, ChecksCommitted, StageLasts DEF Vetted
  <2>2. ExpectedOwner = Before!ExpectedOwner
    BY <1>1, SeesCommitted
  <2>3. ExpectedOwner = None => Consented'
    BY <1>3, <2>2 DEF Consented
  <2>4. /\ result' = Ok
        /\ pc' = IF ExpectedOwner = None THEN "apply" ELSE "authorise"
    BY <1>1, <1>5 DEF Check, Goto
  <2> QED
    BY <1>3, <2>1, <2>2, <2>3, <2>4 DEF StageInv
<1> QED
  BY <1>4, <1>5

LEMMA SignerSigned ==
    ASSUME Signed, NEW k, IsSigner(k)
    PROVE  k \in Signatures
BY DEF Signed, IsSigner, Meta, K

LEMMA AuthoriseStage ==
    ASSUME StageInv, Authorise, UNCHANGED client
    PROVE  StageInv'
<1> DEFINE k == K(AuthorityAt)
           isMultisig == cells.owner[k] = TokenProgram /\ cells.data[k].kind = "multisig"
           error == Ensure(ExpectedOwner = k, "OwnerMismatch")
                    & (IF isMultisig THEN Unpack(cells.data[k], "multisig")
                       ELSE Ensure(IsSigner(k), "MissingRequiredSignature"))
<1>1. /\ pc = "authorise" /\ result = Ok /\ cells = Committed /\ effects = <<>>
      /\ CallGiven /\ Signed /\ Vetted /\ Before!ExpectedOwner # None
  BY DEF Authorise, StageInv
<1>2. UNCHANGED <<lamports, owner, data, intent, call, cells, effects>>
  BY DEF Authorise, Fail, Goto
<1>3. /\ CallGiven' /\ Signed' /\ Vetted' /\ cells' = Committed' /\ effects' = <<>>
      /\ Before!ExpectedOwner' = Before!ExpectedOwner
      /\ K(AuthorityAt)' = k /\ Signatures' = Signatures
      /\ Consented => Consented'
  BY <1>1, <1>2, StageLasts
<1>4. CASE error # Ok
  BY <1>3, <1>4 DEF Authorise, Fail, StageInv, Ok
<1>5. CASE error = Ok
  <2>1. /\ Ensure(ExpectedOwner = k, "OwnerMismatch") = Ok
        /\ (IF isMultisig THEN Unpack(cells.data[k], "multisig")
            ELSE Ensure(IsSigner(k), "MissingRequiredSignature")) = Ok
    BY <1>5, GoesOn
  <2>2. Before!ExpectedOwner = k
    BY <1>1, <2>1, SeesCommitted DEF Ensure, Ok
  <2>3. isMultisig <=> owner[k] = TokenProgram /\ data[k].kind = "multisig"
    BY <1>1 DEF Committed
  <2>4. result' = Ok /\ pc' = IF isMultisig THEN "signers" ELSE "apply"
    BY <1>1, <1>5 DEF Authorise, Goto
  <2>5. CASE isMultisig
    <3>1. IsMultisig(data[k])
      BY <1>1, <2>1, <2>3, <2>5, GoesOn
         DEF Unpack, UnpackUnchecked, Ensure, Ok, IsInitialized, IsMint, IsAccount,
             IsMultisig, Committed
    <3>2. matching'.matched = {} /\ matching'.count = 0
      BY <1>5, <2>5 DEF Authorise, NoLoop
    <3>3. Counting'
      BY <1>1, <1>2, <1>3, <2>2, <2>3, <2>5, <3>1, <3>2, FS_EmptySet DEF Counting
    <3> QED
      BY <1>3, <2>4, <2>5, <3>3 DEF StageInv
  <2>6. CASE ~isMultisig
    <3>1. k \in Signatures
      BY <1>1, <2>1, <2>6, SignerSigned DEF Ensure, Ok
    <3>2. Consented
      BY <2>2, <2>3, <2>6, <3>1 DEF Consented, Bank!ValidateOwner
    <3> QED
      BY <1>3, <2>4, <2>6, <3>2 DEF StageInv
  <2> QED
    BY <2>5, <2>6
<1> QED
  BY <1>4, <1>5

\* What the invariant of Token says, in the words of this module.
LEMMA FactsTyped ==
    ASSUME Facts!ChainInv
    PROVE  /\ lamports \in [Key -> U64]
           /\ owner \in [Key -> {SystemProgram, TokenProgram, OtherProgram}]
           /\ data \in [Key -> Data]
BY DEF Facts!ChainInv, Facts!TokenInv, Facts!TypeOK, Facts!Program, U64, Facts!U64,
       Data, Facts!Data, EmptyData, Facts!EmptyData, MintData, Facts!MintData,
       AccountData, Facts!AccountData, MultisigData, Facts!MultisigData,
       OptionalKey, Facts!OptionalKey, AccountState, Facts!AccountState

LEMMA FactsWrapped ==
    ASSUME Facts!ChainInv, NEW k \in Key, owner[k] = TokenProgram,
           IsAccount(data[k]), IsNative(data[k])
    PROVE  data[k].is_native \in Nat /\ data[k].is_native + data[k].amount <= lamports[k]
<1>1. data[k] \in AccountData
  <2>1. data[k] \in Data /\ data[k].kind = "account"
    BY FactsTyped DEF IsAccount
  <2> QED
    BY <2>1 DEF Data, EmptyData, MintData, MultisigData
<1>2. Facts!IsLiveAccount(k) /\ Facts!IsNative(data[k])
  BY DEF Facts!IsLiveAccount, Facts!IsAccount, IsAccount, Facts!IsNative, IsNative
<1>3. data[k].is_native + data[k].amount <= lamports[k]
  BY <1>2 DEF Facts!ChainInv, Facts!MoneyInv, Facts!WrappedLamportsBacked
<1> QED
  BY <1>1, <1>3 DEF AccountData, U64, IsNative

LEMMA FactsRoles ==
    ASSUME Facts!ChainInv
    PROVE  /\ IsMint(data[NativeMint])
           /\ \A k \in Key : owner[k] = TokenProgram /\ IsAccount(data[k]) =>
                 /\ data[k].owner \in Owners
                 /\ data[k].delegate \in Delegates \cup {None}
BY DEF Facts!ChainInv, Facts!RolesAreNamed, Facts!IsLiveMint, Facts!IsMint, IsMint,
       Facts!IsLiveAccount, Facts!IsAccount, IsAccount

-----------------------------------------------------------------------------
(* The loop over the signers.                                              *)

\* A multisig's list is finite.
LEMMA ListedPositions ==
    ASSUME Facts!ChainInv, NEW k \in Key, IsMultisig(data[k])
    PROVE  IsFiniteSet(DOMAIN data[k].signers)
<1>1. data[k] \in MultisigData
  <2>1. data[k] \in Data /\ data[k].kind = "multisig"
    BY FactsTyped DEF IsMultisig
  <2> QED
    BY <2>1 DEF Data, EmptyData, MintData, AccountData
<1>2. PICK n \in 0 .. MaxSigners : data[k].signers \in [1 .. n -> Key]
  BY <1>1 DEF MultisigData
<1> QED
  BY <1>2, SizeAssumption, FS_Interval

LEMMA MatchSignerStage ==
    ASSUME Facts!ChainInv, StageInv, K(AuthorityAt) \in Key, MatchSigner, UNCHANGED client
    PROVE  StageInv'
<1> DEFINE k == K(AuthorityAt)
           signer == Head(matching.rest)
           positions == Positions(signer.pubkey)
<1>1. /\ pc = "signers" /\ result = Ok /\ cells = Committed /\ effects = <<>>
      /\ CallGiven /\ Signed /\ Vetted /\ Counting
  BY DEF MatchSigner, StageInv
<1>2. UNCHANGED <<lamports, owner, data, intent, call, cells, effects>>
  BY DEF MatchSigner, Fail, Goto
<1>3. /\ CallGiven' /\ Signed' /\ Vetted' /\ cells' = Committed' /\ effects' = <<>>
      /\ Before!ExpectedOwner' = Before!ExpectedOwner
      /\ K(AuthorityAt)' = k /\ Signatures' = Signatures
  BY <1>1, <1>2, StageLasts
<1>4. CASE positions # {} /\ ~IsSigner(signer.pubkey)
  BY <1>3, <1>4 DEF MatchSigner, Fail, StageInv, Ok
<1>5. CASE positions = {} \/ IsSigner(signer.pubkey)
  <2> DEFINE signed == {p \in DOMAIN data[k].signers : data[k].signers[p] \in Signatures}
  <2>1. /\ matching'.matched = matching.matched \cup positions
        /\ matching'.count = matching.count + Cardinality(positions)
        /\ result' = Ok /\ pc' = "signers"
    BY <1>1, <1>5 DEF MatchSigner, Goto
  <2>2. positions = {p \in DOMAIN data[k].signers :
                        data[k].signers[p] = signer.pubkey} \ matching.matched
    BY <1>1 DEF Positions, Multisig, Committed
  <2>3. positions \subseteq signed
    BY <1>1, <1>5, <2>2, SignerSigned
  <2>4. matching.matched \subseteq signed /\ matching.count = Cardinality(matching.matched)
    BY <1>1 DEF Counting
  <2>5. IsFiniteSet(signed)
    BY <1>1, ListedPositions, FS_Subset DEF Counting
  <2>6. IsFiniteSet(matching.matched) /\ IsFiniteSet(positions)
    BY <2>3, <2>4, <2>5, FS_Subset
  <2>7. Cardinality(matching.matched \cup positions)
           = Cardinality(matching.matched) + Cardinality(positions)
    <3>1. matching.matched \cap positions = {}
      BY <2>2
    <3>2. Cardinality(matching.matched \cap positions) = 0
      BY <3>1, FS_EmptySet
    <3> HIDE DEF positions
    <3>3. /\ Cardinality(matching.matched \cup positions)
               = Cardinality(matching.matched) + Cardinality(positions)
                    - Cardinality(matching.matched \cap positions)
          /\ Cardinality(matching.matched) \in Nat /\ Cardinality(positions) \in Nat
      BY <2>6, FS_Union, FS_CardinalityType
    <3> QED
      BY <3>2, <3>3
  <2>8. Counting'
    BY <1>1, <1>2, <1>3, <2>1, <2>3, <2>4, <2>7 DEF Counting
  <2> QED
    BY <1>3, <2>1, <2>8 DEF StageInv
<1> QED
  BY <1>4, <1>5

LEMMA CountSignersStage ==
    ASSUME Facts!ChainInv, StageInv, K(AuthorityAt) \in Key, CountSigners, UNCHANGED client
    PROVE  StageInv'
<1> DEFINE k == K(AuthorityAt)
           signed == {p \in DOMAIN data[k].signers : data[k].signers[p] \in Signatures}
<1>1. /\ pc = "signers" /\ result = Ok /\ cells = Committed /\ effects = <<>>
      /\ CallGiven /\ Signed /\ Vetted /\ Counting
  BY DEF CountSigners, StageInv
<1>2. UNCHANGED <<lamports, owner, data, intent, call, cells, effects>>
  BY DEF CountSigners, Fail, Goto
<1>3. /\ CallGiven' /\ Signed' /\ Vetted' /\ cells' = Committed' /\ effects' = <<>>
      /\ Consented => Consented'
  BY <1>1, <1>2, StageLasts
<1>4. CASE matching.count < Multisig.m
  BY <1>3, <1>4 DEF CountSigners, Fail, StageInv, Ok
<1>5. CASE ~(matching.count < Multisig.m)
  <2>1. result' = Ok /\ pc' = "apply"
    BY <1>1, <1>5 DEF CountSigners, Goto
  <2>2. IsFiniteSet(signed)
    BY <1>1, ListedPositions, FS_Subset DEF Counting
  <2>3. /\ Cardinality(matching.matched) <= Cardinality(signed)
        /\ Cardinality(matching.matched) \in Nat /\ Cardinality(signed) \in Nat
    BY <1>1, <2>2, FS_Subset, FS_CardinalityType DEF Counting
  <2>4. data[k].m \in Nat
    <3>1. data[k] \in Data /\ data[k].kind = "multisig"
      BY <1>1, FactsTyped DEF Counting, IsMultisig
    <3> QED
      BY <3>1, SizeAssumption
         DEF Data, EmptyData, MintData, AccountData, MultisigData
  <2>5. data[k].m <= Cardinality(signed)
    BY <1>1, <1>5, <2>3, <2>4 DEF Counting, Multisig, Committed
  <2>6. Bank!Cardinality(signed) = Cardinality(signed)
    BY DEF Bank!Cardinality, Cardinality
  <2>7. Consented
    BY <1>1, <2>5, <2>6
       DEF Counting, Consented, Bank!ValidateOwner, Bank!IsMultisig, IsMultisig
  <2> QED
    BY <1>3, <2>1, <2>7 DEF StageInv
<1> QED
  BY <1>4, <1>5

-----------------------------------------------------------------------------
(* The writes.                                                             *)

LEMMA ApplyStage ==
    ASSUME StageInv, Apply, UNCHANGED client
    PROVE  StageInv'
<1>1. /\ pc = "apply" /\ result = Ok /\ cells = Committed /\ effects = <<>>
      /\ CallGiven /\ Signed /\ Vetted /\ Consented
  BY DEF Apply, StageInv
<1>2. UNCHANGED <<lamports, owner, data, intent, call, cells>>
  BY DEF Apply, Fail
<1>3. /\ CallGiven' /\ Signed' /\ Vetted' /\ Consented' /\ cells' = Committed'
      /\ Before!ChecksAfterwards' = Before!ChecksAfterwards
      /\ Before!Writes' = Before!Writes
  BY <1>1, <1>2, StageLasts
<1>4. CASE ChecksAfterwards # Ok
  BY <1>1, <1>3, <1>4 DEF Apply, Fail, StageInv, Ok
<1>5. CASE ChecksAfterwards = Ok
  <2>1. result' = Ok /\ pc' = "write" /\ effects' = Before!Writes
    BY <1>1, <1>5, SeesCommitted DEF Apply
  <2>2. Before!ChecksAfterwards' = Ok
    BY <1>1, <1>3, <1>5, SeesCommitted
  <2>3. Writing'
    <3> DEFINE w == Before!Writes
    <3>1. w \in Seq(Range(w)) /\ Len(w) \in 0 .. 4
      BY WritesAreFew
    <3>2. cells' = After(w, 0)'
      BY <1>3 DEF After
    <3>3. 0 \in 0 .. Len(w)
      BY <3>1
    <3>4. /\ effects' \in Seq(Range(w))
          /\ Len(effects') = Len(w) - 0
          /\ \A i \in 1 .. Len(effects') : effects'[i] = w[0 + i]
      BY <2>1, <3>1
    <3>5. Written(w, 0)'
      BY <1>3, <3>2, <3>4, SameWritten
    <3> QED
      BY <1>3, <3>3, <3>5 DEF Writing
  <2> QED
    BY <1>3, <2>1, <2>2, <2>3 DEF StageInv, Ok
<1> QED
  BY <1>4, <1>5

-----------------------------------------------------------------------------
(* What a handler has found out when its checks have passed.               *)

LEMMA CheckMeans ==
    /\ \A d : Before!Unpack(d, "mint") = Ok => IsMint(d)
    /\ \A d : Before!Unpack(d, "account") = Ok => IsAccount(d)
    /\ \A d, kind : Before!UnpackUnchecked(d, kind) = Ok => d.kind = kind
    /\ \A n : Before!Has(n) = Ok => n <= Len(call.accounts)
    /\ \A d : Before!NotFrozen(d) = Ok => ~IsFrozen(d)
    /\ \A d : Before!NotNative(d) = Ok => ~IsNative(d)
    /\ \A n : Before!CheckAccountOwner(n) = Ok => owner[K(n)] = TokenProgram
    /\ \A n : Before!ValidMint(n) = Ok =>
          owner[K(n)] = TokenProgram /\ IsMint(data[K(n)])
    /\ \A n : Before!ExpectedDecimals(n) = Ok /\ HasDecimals =>
          Op.decimals = data[K(n)].decimals
    /\ \A kind : Before!Claimable(kind) = Ok =>
          /\ data[K(1)].kind = kind
          /\ ~(IsMint(data[K(1)]) \/ IsAccount(data[K(1)]) \/ IsMultisig(data[K(1)]))
          /\ lamports[K(1)] >= MinBalance[kind]
<1>1. /\ \A d : Before!Unpack(d, "mint") = Ok => IsMint(d)
      /\ \A d : Before!Unpack(d, "account") = Ok => IsAccount(d)
      /\ \A d, kind : Before!UnpackUnchecked(d, kind) = Ok => d.kind = kind
  BY GoesOn, GoesOnBefore
     DEF Before!Unpack, Before!UnpackUnchecked, Before!Ensure, Before!IsInitialized,
         Ok, IsMint, IsAccount, Before!IsMint, Before!IsAccount, Before!IsMultisig
<1>2. /\ \A n : Before!Has(n) = Ok => n <= Len(call.accounts)
      /\ \A d : Before!NotFrozen(d) = Ok => ~IsFrozen(d)
      /\ \A d : Before!NotNative(d) = Ok => ~IsNative(d)
      /\ \A n : Before!CheckAccountOwner(n) = Ok => owner[K(n)] = TokenProgram
  BY BeforeReads
     DEF Before!Has, Before!NotFrozen, Before!NotNative, Before!CheckAccountOwner,
         Before!Ensure, Ok, Before!IsFrozen, IsFrozen, Before!IsNative, IsNative, Committed
<1>3. \A n : Before!ValidMint(n) = Ok =>
          owner[K(n)] = TokenProgram /\ IsMint(data[K(n)])
  BY <1>2, BeforeReads, GoesOn, GoesOnBefore
     DEF Before!ValidMint, Before!Ensure, Ok, Before!IsMint, IsMint
<1>4. \A n : Before!ExpectedDecimals(n) = Ok /\ HasDecimals =>
          Op.decimals = data[K(n)].decimals
  BY BeforeReads
     DEF Before!ExpectedDecimals, Before!HasDecimals, HasDecimals, Before!Ensure, Ok
<1>5. \A kind : Before!Claimable(kind) = Ok =>
          /\ data[K(1)].kind = kind
          /\ ~(IsMint(data[K(1)]) \/ IsAccount(data[K(1)]) \/ IsMultisig(data[K(1)]))
          /\ lamports[K(1)] >= MinBalance[kind]
  BY <1>1, BeforeReads, GoesOn, GoesOnBefore
     DEF Before!Claimable, Before!Ensure, Ok, Before!IsInitialized, IsMint, IsAccount,
         IsMultisig, Before!IsMint, Before!IsAccount, Before!IsMultisig, Committed
<1> QED
  BY <1>1, <1>2, <1>3, <1>4, <1>5

\* The mint passed to TransferChecked and ApproveChecked.
LEMMA MintExpected ==
    ASSUME NEW a, Before!ExpectedMint(a) = Ok, Shift = 1
    PROVE  /\ K(2) = a.mint /\ IsMint(data[K(2)])
           /\ Op.decimals = data[K(2)].decimals
<1>1. HasDecimals
  BY DEF Shift, HasDecimals
<1>2. /\ Before!Ensure(Before!K(2) = a.mint, "MintMismatch") = Ok
      /\ Before!Unpack(Before!D(2), "mint") = Ok
      /\ Before!ExpectedDecimals(2) = Ok
  BY BeforeReads, GoesOn, GoesOnBefore DEF Before!ExpectedMint
<1> QED
  BY <1>1, <1>2, BeforeReads, CheckMeans DEF Before!Ensure, Ok

LEMMA InitializeMintVetted ==
    ASSUME Vetted, Op.tag \in {"InitializeMint", "InitializeMint2"}
    PROVE  /\ 1 <= Len(call.accounts)
           /\ data[K(1)].kind = "mint"
           /\ ~(IsMint(data[K(1)]) \/ IsAccount(data[K(1)]) \/ IsMultisig(data[K(1)]))
           /\ lamports[K(1)] >= MinBalance["mint"]
<1>1. Before!InitializeMintChecks = Ok
  BY BeforeReads DEF Vetted, Before!Checks
<1> QED
  BY <1>1, CheckMeans, GoesOn, GoesOnBefore DEF Before!InitializeMintChecks

LEMMA InitializeAccountVetted ==
    ASSUME Vetted, Op.tag \in {"InitializeAccount", "InitializeAccount2", "InitializeAccount3"}
    PROVE  /\ (IF Op.tag = "InitializeAccount" THEN 3 ELSE 2) <= Len(call.accounts)
           /\ data[K(1)].kind = "account"
           /\ ~(IsMint(data[K(1)]) \/ IsAccount(data[K(1)]) \/ IsMultisig(data[K(1)]))
           /\ lamports[K(1)] >= MinBalance["account"]
           /\ K(2) # NativeMint => owner[K(2)] = TokenProgram /\ IsMint(data[K(2)])
<1>1. Before!InitializeAccountChecks = Ok
  BY BeforeReads DEF Vetted, Before!Checks
<1> QED
  BY <1>1, CheckMeans, GoesOn, GoesOnBefore, BeforeReads DEF Before!InitializeAccountChecks

LEMMA InitializeMultisigVetted ==
    ASSUME Vetted, Op.tag \in {"InitializeMultisig", "InitializeMultisig2"},
           Len(call.accounts) \in Nat, Len(SignerInfos) \in Nat
    PROVE  /\ (IF Op.tag = "InitializeMultisig" THEN 2 ELSE 1) <= Len(call.accounts)
           /\ data[K(1)].kind = "multisig"
           /\ ~(IsMint(data[K(1)]) \/ IsAccount(data[K(1)]) \/ IsMultisig(data[K(1)]))
           /\ lamports[K(1)] >= MinBalance["multisig"]
           /\ IsValidSignerIndex(Len(SignerInfos))
           /\ IsValidSignerIndex(Op.m)
<1>1. Before!InitializeMultisigChecks = Ok
  BY BeforeReads DEF Vetted, Before!Checks
<1>2. Before!SignerInfos = SignerInfos
  BY BeforeReads DEF Before!SignerInfos, SignerInfos
<1>3. /\ Before!Has(1) = Ok /\ Before!Rent(2) = Ok /\ Before!Claimable("multisig") = Ok
      /\ IsValidSignerIndex(Len(SignerInfos) % IndexSpan)
      /\ IsValidSignerIndex(Op.m)
      /\ Len(SignerInfos) <= MaxSigners
  BY <1>1, <1>2, GoesOn, GoesOnBefore, BeforeReads
     DEF Before!InitializeMultisigChecks, Before!Ensure, Ok, Before!IsValidSignerIndex,
         IsValidSignerIndex
<1>4. Op.tag = "InitializeMultisig" => Before!Has(2) = Ok
  BY <1>3, GoesOn, GoesOnBefore, BeforeReads DEF Before!Rent
<1>5. Len(SignerInfos) % IndexSpan = Len(SignerInfos)
  BY <1>3, IndexAssumption, SizeAssumption
<1> QED
  BY <1>3, <1>4, <1>5, CheckMeans

LEMMA TransferVetted ==
    ASSUME Vetted, Op.tag \in {"Transfer", "TransferChecked"}
    PROVE  /\ 3 + Shift <= Len(call.accounts)
           /\ IsAccount(data[K(1)]) /\ IsAccount(data[K(2 + Shift)])
           /\ ~IsFrozen(data[K(1)]) /\ ~IsFrozen(data[K(2 + Shift)])
           /\ Op.amount <= data[K(1)].amount
           /\ data[K(1)].mint = data[K(2 + Shift)].mint
           /\ Shift = 1 => /\ K(2) = data[K(1)].mint /\ IsMint(data[K(2)])
                           /\ Op.decimals = data[K(2)].decimals
<1>1. Before!TransferChecks = Ok
  BY BeforeReads DEF Vetted, Before!Checks
<1>2. /\ Before!Has(3 + Shift) = Ok
      /\ Before!Unpack(data[K(1)], "account") = Ok
      /\ Before!Unpack(data[K(2 + Shift)], "account") = Ok
      /\ Before!NotFrozen(data[K(1)]) = Ok /\ Before!NotFrozen(data[K(2 + Shift)]) = Ok
      /\ Op.amount <= data[K(1)].amount
      /\ data[K(1)].mint = data[K(2 + Shift)].mint
      /\ Before!ExpectedMint(data[K(1)]) = Ok
  BY <1>1, GoesOn, GoesOnBefore, BeforeReads DEF Before!TransferChecks, Before!Ensure, Ok
<1> QED
  BY <1>2, CheckMeans, MintExpected

LEMMA ApproveVetted ==
    ASSUME Vetted, Op.tag \in {"Approve", "ApproveChecked"}
    PROVE  /\ 3 + Shift <= Len(call.accounts)
           /\ IsAccount(data[K(1)]) /\ ~IsFrozen(data[K(1)])
           /\ Shift = 1 => /\ K(2) = data[K(1)].mint /\ IsMint(data[K(2)])
                           /\ Op.decimals = data[K(2)].decimals
<1>1. Before!ApproveChecks = Ok
  BY BeforeReads DEF Vetted, Before!Checks
<1>2. /\ Before!Has(3 + Shift) = Ok
      /\ Before!Unpack(data[K(1)], "account") = Ok /\ Before!NotFrozen(data[K(1)]) = Ok
      /\ Before!ExpectedMint(data[K(1)]) = Ok
  BY <1>1, GoesOn, GoesOnBefore, BeforeReads DEF Before!ApproveChecks
<1> QED
  BY <1>2, CheckMeans, MintExpected

LEMMA RevokeVetted ==
    ASSUME Vetted, Op.tag = "Revoke"
    PROVE  /\ 2 <= Len(call.accounts)
           /\ IsAccount(data[K(1)]) /\ ~IsFrozen(data[K(1)])
<1>1. Before!RevokeChecks = Ok
  BY BeforeReads DEF Vetted, Before!Checks
<1> QED
  BY <1>1, GoesOn, GoesOnBefore, BeforeReads, CheckMeans DEF Before!RevokeChecks

LEMMA SetAuthorityVetted ==
    ASSUME Vetted, Op.tag = "SetAuthority"
    PROVE  /\ 2 <= Len(call.accounts)
           /\ \/ /\ IsAccount(data[K(1)]) /\ ~IsFrozen(data[K(1)])
                 /\ Op.authority_type \in {"AccountOwner", "CloseAccount"}
              \/ /\ IsMint(data[K(1)])
                 /\ Op.authority_type \in {"MintTokens", "FreezeAccount"}
                 /\ Op.authority_type = "MintTokens" => data[K(1)].mint_authority # None
                 /\ Op.authority_type = "FreezeAccount" => data[K(1)].freeze_authority # None
<1> DEFINE a == data[K(1)]
           type == Op.authority_type
<1>1. Before!SetAuthorityChecks = Ok
  BY BeforeReads DEF Vetted, Before!Checks
<1>2. Before!Has(2) = Ok
  BY <1>1, GoesOn, GoesOnBefore DEF Before!SetAuthorityChecks
<1>3. CASE a.kind = "account"
  <2>1. /\ Before!Unpack(a, "account") = Ok /\ Before!NotFrozen(a) = Ok
        /\ type \in {"AccountOwner", "CloseAccount"}
    BY <1>1, <1>3, GoesOn, GoesOnBefore, BeforeReads
       DEF Before!SetAuthorityChecks, Before!Ensure, Ok
  <2> QED
    BY <1>2, <2>1, CheckMeans
<1>4. CASE a.kind = "mint"
  <2>1. /\ Before!Unpack(a, "mint") = Ok
        /\ type \in {"MintTokens", "FreezeAccount"}
        /\ type = "MintTokens" => a.mint_authority # None
        /\ type = "FreezeAccount" => a.freeze_authority # None
    BY <1>1, <1>4, GoesOn, GoesOnBefore, BeforeReads
       DEF Before!SetAuthorityChecks, Before!Ensure, Ok
  <2> QED
    BY <1>2, <2>1, CheckMeans
<1>5. CASE a.kind \notin {"account", "mint"}
  BY <1>1, <1>5, GoesOn, GoesOnBefore, BeforeReads DEF Before!SetAuthorityChecks, Ok
<1> QED
  BY <1>3, <1>4, <1>5

LEMMA MintToVetted ==
    ASSUME Vetted, Op.tag \in {"MintTo", "MintToChecked"}
    PROVE  /\ 3 <= Len(call.accounts)
           /\ IsAccount(data[K(2)]) /\ ~IsFrozen(data[K(2)]) /\ ~IsNative(data[K(2)])
           /\ K(1) = data[K(2)].mint /\ IsMint(data[K(1)])
           /\ HasDecimals => Op.decimals = data[K(1)].decimals
           /\ data[K(1)].mint_authority # None
<1>1. Before!MintToChecks = Ok
  BY BeforeReads DEF Vetted, Before!Checks
<1>2. /\ Before!Has(3) = Ok
      /\ Before!Unpack(data[K(2)], "account") = Ok
      /\ Before!NotFrozen(data[K(2)]) = Ok /\ Before!NotNative(data[K(2)]) = Ok
      /\ K(1) = data[K(2)].mint
      /\ Before!Unpack(data[K(1)], "mint") = Ok /\ Before!ExpectedDecimals(1) = Ok
      /\ data[K(1)].mint_authority # None
  BY <1>1, GoesOn, GoesOnBefore, BeforeReads DEF Before!MintToChecks, Before!Ensure, Ok
<1> QED
  BY <1>2, CheckMeans

LEMMA BurnVetted ==
    ASSUME Vetted, Op.tag \in {"Burn", "BurnChecked"}
    PROVE  /\ 3 <= Len(call.accounts)
           /\ IsAccount(data[K(1)]) /\ IsMint(data[K(2)])
           /\ ~IsFrozen(data[K(1)]) /\ ~IsNative(data[K(1)])
           /\ Op.amount <= data[K(1)].amount
           /\ K(2) = data[K(1)].mint
           /\ HasDecimals => Op.decimals = data[K(2)].decimals
<1>1. Before!BurnChecks = Ok
  BY BeforeReads DEF Vetted, Before!Checks
<1>2. /\ Before!Has(3) = Ok
      /\ Before!Unpack(data[K(1)], "account") = Ok /\ Before!Unpack(data[K(2)], "mint") = Ok
      /\ Before!NotFrozen(data[K(1)]) = Ok /\ Before!NotNative(data[K(1)]) = Ok
      /\ Op.amount <= data[K(1)].amount
      /\ K(2) = data[K(1)].mint /\ Before!ExpectedDecimals(2) = Ok
  BY <1>1, GoesOn, GoesOnBefore, BeforeReads DEF Before!BurnChecks, Before!Ensure, Ok
<1> QED
  BY <1>2, CheckMeans

LEMMA CloseAccountVetted ==
    ASSUME Vetted, Op.tag = "CloseAccount"
    PROVE  /\ 3 <= Len(call.accounts)
           /\ K(1) # K(2)
           /\ IsAccount(data[K(1)])
           /\ IsNative(data[K(1)]) \/ data[K(1)].amount = 0
           /\ IsOwnedBySystemProgramOrIncinerator(data[K(1)]) => K(2) = Incinerator
<1>1. Before!CloseAccountChecks = Ok
  BY BeforeReads DEF Vetted, Before!Checks
<1>2. /\ Before!Has(3) = Ok /\ K(1) # K(2)
      /\ Before!Unpack(data[K(1)], "account") = Ok
      /\ IsNative(data[K(1)]) \/ data[K(1)].amount = 0
      /\ IsOwnedBySystemProgramOrIncinerator(data[K(1)]) => K(2) = Incinerator
  BY <1>1, GoesOn, GoesOnBefore, BeforeReads
     DEF Before!CloseAccountChecks, Before!Ensure, Ok, Before!IsNative, IsNative,
         Before!IsOwnedBySystemProgramOrIncinerator, IsOwnedBySystemProgramOrIncinerator
<1> QED
  BY <1>2, CheckMeans

LEMMA ToggleFreezeAccountVetted ==
    ASSUME Vetted, Op.tag \in {"FreezeAccount", "ThawAccount"}
    PROVE  /\ 3 <= Len(call.accounts)
           /\ IsAccount(data[K(1)]) /\ ~IsNative(data[K(1)])
           /\ (Op.tag = "FreezeAccount") # IsFrozen(data[K(1)])
           /\ K(2) = data[K(1)].mint
           /\ IsMint(data[K(2)])
           /\ data[K(2)].freeze_authority # None
<1>1. Before!ToggleFreezeAccountChecks = Ok
  BY BeforeReads DEF Vetted, Before!Checks
<1>2. /\ Before!Has(3) = Ok
      /\ Before!Unpack(data[K(1)], "account") = Ok /\ Before!NotNative(data[K(1)]) = Ok
      /\ (Op.tag = "FreezeAccount") # IsFrozen(data[K(1)])
      /\ K(2) = data[K(1)].mint
      /\ Before!Unpack(data[K(2)], "mint") = Ok
      /\ data[K(2)].freeze_authority # None
  BY <1>1, GoesOn, GoesOnBefore, BeforeReads
     DEF Before!ToggleFreezeAccountChecks, Before!Ensure, Ok, Before!IsFrozen, IsFrozen
<1> QED
  BY <1>2, CheckMeans

LEMMA SyncNativeVetted ==
    ASSUME Vetted, Op.tag = "SyncNative"
    PROVE  /\ 1 <= Len(call.accounts)
           /\ owner[K(1)] = TokenProgram
           /\ IsAccount(data[K(1)]) /\ IsNative(data[K(1)])
           /\ lamports[K(1)] - data[K(1)].is_native >= data[K(1)].amount
<1>1. Before!SyncNativeChecks = Ok
  BY BeforeReads DEF Vetted, Before!Checks
<1>2. /\ Before!Has(1) = Ok /\ Before!CheckAccountOwner(1) = Ok
      /\ Before!Unpack(data[K(1)], "account") = Ok
      /\ IsNative(data[K(1)])
      /\ lamports[K(1)] - data[K(1)].is_native >= data[K(1)].amount
  BY <1>1, GoesOn, GoesOnBefore, BeforeReads
     DEF Before!SyncNativeChecks, Before!Ensure, Ok, Before!IsNative, IsNative, Committed
<1> QED
  BY <1>2, CheckMeans

-----------------------------------------------------------------------------
(* Where the accounts of a call are.                                       *)

LEMMA Placed ==
    ASSUME IsInstruction(call), NEW n \in 1 .. Len(call.accounts)
    PROVE  /\ K(n) \in Places(Op.tag, n)
           /\ Places(Op.tag, n) # {RentSysvar} => K(n) \in Key
<1>1. K(n) \in Places(Op.tag, n)
  BY DEF IsInstruction, K, Op
<1> QED
  BY <1>1, InputAssumption, ClientAssumption DEF Places

LEMMA AuthorityPlaced ==
    ASSUME IsInstruction(call), Vetted, Before!ExpectedOwner # None
    PROVE  AuthorityAt \in 1 .. Len(call.accounts) /\ K(AuthorityAt) \in Key
<1> DEFINE n == AuthorityAt
<1>1. Len(call.accounts) \in Nat
  BY DEF IsInstruction
<1>2. Op.tag \in {"Transfer", "TransferChecked", "Approve", "ApproveChecked", "Revoke",
                  "SetAuthority", "MintTo", "MintToChecked", "Burn", "BurnChecked",
                  "CloseAccount", "FreezeAccount", "ThawAccount"}
  BY BeforeReads DEF Before!ExpectedOwner
<1>3. n \in 1 .. Len(call.accounts)
  BY <1>1, <1>2, TransferVetted, ApproveVetted, RevokeVetted, SetAuthorityVetted,
     MintToVetted, BurnVetted, CloseAccountVetted, ToggleFreezeAccountVetted
     DEF AuthorityAt, Shift
<1>4. Places(Op.tag, n) = Key
  BY <1>2 DEF Places, AuthorityAt, Shift
<1>5. K(n) \in Places(Op.tag, n)
  BY <1>3, Placed
<1> QED
  BY <1>3, <1>4, <1>5

-----------------------------------------------------------------------------
(* The writes, continued.                                                  *)

\* The lamports of the token program's own accounts are there to be moved.
LEMMA LamportsAreThere ==
    ASSUME Facts!ChainInv, IsInstruction(call), Vetted, owner[K(1)] = TokenProgram,
           NEW n \in 0 .. Len(Before!Writes) - 1,
           Before!Writes[n + 1].field = "lamports"
    PROVE  After(Before!Writes, n).lamports[Before!Writes[n + 1].at]
              + Before!Writes[n + 1].by \in U64
<1> DEFINE w == Before!Writes
           dst == 2 + Shift
<1>1. Len(call.accounts) \in Nat /\ lamports \in [Key -> U64] /\ U64Max \in Nat
  BY FactsTyped, U64Assumption DEF IsInstruction
<1>2. ~(\E n1, d : w = <<Put(n1, d)>>)
  BY DEF Put
<1>3. ~(\E n1, d, n2, e : w = <<Put(n1, d), Put(n2, e)>>)
  BY DEF Put
<1>4. w # <<>>
  OBVIOUS
<1>5. \/ /\ Op.tag \in {"Transfer", "TransferChecked"}
         /\ K(1) # K(dst) /\ IsNative(data[K(1)])
      \/ Op.tag = "CloseAccount"
  <2>1. /\ Before!InitializeAccountWrites # w
        /\ Before!SetAuthorityWrites # w
    BY <1>2, WriteIsPut DEF Before!InitializeAccountWrites, Before!SetAuthorityWrites
  <2>2. Before!BurnWrites # w
    BY <1>3, BurnWritesAre
  <2>3. Before!TransferWrites = w => K(1) # K(dst) /\ IsNative(data[K(1)])
    BY <1>3, <1>4, TransferWritesAre
  <2> QED
    BY <1>2, <1>3, <1>4, <2>1, <2>2, <2>3, WritesAre
<1>6. CASE Op.tag \in {"Transfer", "TransferChecked"}
  <2> DEFINE a == data[K(1)]
             amount == Op.amount
  <2>1. K(1) # K(dst) /\ IsNative(a)
    BY <1>5, <1>6
  <2>2. 3 + Shift <= Len(call.accounts) /\ IsAccount(a) /\ amount <= a.amount
    BY <1>6, TransferVetted
  <2>3. K(1) \in Key /\ K(dst) \in Key
    <3>1. Places(Op.tag, 1) = Key /\ Places(Op.tag, dst) = Key
      BY <1>6 DEF Places, Shift
    <3>2. 1 \in 1 .. Len(call.accounts) /\ dst \in 1 .. Len(call.accounts)
      BY <1>1, <2>2 DEF Shift
    <3> QED
      BY <3>1, <3>2, Placed
  <2>4. amount \in U64
    BY <1>6, InputAssumption DEF IsInstruction, AreOperands, Op
  <2>5. lamports[K(1)] \in Nat /\ lamports[K(dst)] \in Nat /\ amount \in Nat
        /\ lamports[K(1)] <= U64Max
    BY <1>1, <2>3, <2>4 DEF U64
  <2>6. amount <= lamports[K(1)]
    <3>1. a.is_native \in Nat /\ a.is_native + a.amount <= lamports[K(1)]
      BY <2>1, <2>2, <2>3, FactsWrapped
    <3>2. a.amount \in Nat
      <4>1. a \in Data /\ a.kind = "account"
        BY <2>2, <2>3, FactsTyped DEF IsAccount
      <4> QED
        BY <4>1 DEF Data, EmptyData, MintData, MultisigData, AccountData, U64
    <3> QED
      BY <2>2, <2>5, <3>1, <3>2
  <2>7. lamports[K(1)] + lamports[K(dst)] <= U64Max
    BY <2>1, <2>3, FactsLamports
  <2> DEFINE spend == Put(1, Before!Spent(a))
             receive == Put(dst, [data[K(dst)] EXCEPT !.amount = @ + amount])
  <2>8. w = <<Give(1, -amount), Give(dst, amount), spend, receive>>
    BY <1>6, <2>1, WritesAre, TransferWritesAre
  <2>9. spend.field = "data" /\ receive.field = "data"
    BY DEF Put
  <2> HIDE DEF spend, receive
  <2>10. n \in {0, 1}
    <3>1. n \in {0, 1, 2, 3}
      BY <2>8
    <3>2. n = 2 => w[n + 1] = spend
      BY <2>8
    <3>3. n = 3 => w[n + 1] = receive
      BY <2>8
    <3> QED
      BY <2>9, <3>1, <3>2, <3>3
  <2>11. CASE n = 0
    <3>1. w[n + 1] = Give(1, -amount) /\ After(w, n) = Committed
      BY <2>8, <2>11 DEF After
    <3>2. lamports[K(1)] + (-amount) \in U64
      BY <1>1, <2>5, <2>6 DEF U64
    <3> QED
      BY <3>1, <3>2 DEF Give, Committed
  <2>12. CASE n = 1
    <3>1. w[n + 1] = Give(dst, amount) /\ After(w, n) = Done(Committed, Give(1, -amount))
      BY <2>8, <2>12 DEF After
    <3>2. Done(Committed, Give(1, -amount)).lamports[K(dst)] = lamports[K(dst)]
      BY <2>1 DEF Done, Give, Committed
    <3>3. lamports[K(dst)] + amount \in U64
      BY <1>1, <2>5, <2>6, <2>7 DEF U64
    <3> QED
      BY <3>1, <3>2, <3>3 DEF Give
  <2> QED
    BY <2>10, <2>11, <2>12
<1>7. CASE Op.tag = "CloseAccount"
  <2>1. 3 <= Len(call.accounts) /\ K(1) # K(2)
    BY <1>7, CloseAccountVetted
  <2>2. K(1) \in Key /\ K(2) \in Key
    <3>1. Places(Op.tag, 1) # {RentSysvar} /\ Places(Op.tag, 2) # {RentSysvar}
      BY <1>7, RentAssumption, InputAssumption, KeyAssumption DEF Places
    <3>2. 1 \in 1 .. Len(call.accounts) /\ 2 \in 1 .. Len(call.accounts)
      BY <1>1, <2>1
    <3> QED
      BY <3>1, <3>2, Placed
  <2>3. lamports[K(1)] \in Nat /\ lamports[K(2)] \in Nat
    BY <1>1, <2>2 DEF U64
  <2>4. lamports[K(2)] + lamports[K(1)] <= U64Max
    BY <2>1, <2>2, FactsLamports
  <2> DEFINE leave == [field |-> "owner", at |-> K(1), to |-> SystemProgram]
             empty == Put(1, EmptyData)
  <2>5. w = <<Give(2, lamports[K(1)]), Give(1, -lamports[K(1)]), leave, empty>>
    BY <1>7, WritesAre, CloseAccountWritesAre
  <2>6. leave.field = "owner" /\ empty.field = "data"
    BY DEF Put
  <2> HIDE DEF leave, empty
  <2>7. n \in {0, 1}
    <3>1. n \in {0, 1, 2, 3}
      BY <2>5
    <3>2. n = 2 => w[n + 1] = leave
      BY <2>5
    <3>3. n = 3 => w[n + 1] = empty
      BY <2>5
    <3> QED
      BY <2>6, <3>1, <3>2, <3>3
  <2>8. CASE n = 0
    <3>1. w[n + 1] = Give(2, lamports[K(1)]) /\ After(w, n) = Committed
      BY <2>5, <2>8 DEF After
    <3>2. lamports[K(2)] + lamports[K(1)] \in U64
      BY <1>1, <2>3, <2>4 DEF U64
    <3> QED
      BY <3>1, <3>2 DEF Give, Committed
  <2>9. CASE n = 1
    <3>1. /\ w[n + 1] = Give(1, -lamports[K(1)])
          /\ After(w, n) = Done(Committed, Give(2, lamports[K(1)]))
      BY <2>5, <2>9 DEF After
    <3>2. Done(Committed, Give(2, lamports[K(1)])).lamports[K(1)] = lamports[K(1)]
      BY <2>1 DEF Done, Give, Committed
    <3>3. lamports[K(1)] + (-lamports[K(1)]) \in U64
      BY <1>1, <2>3 DEF U64
    <3> QED
      BY <3>1, <3>2, <3>3 DEF Give
  <2> QED
    BY <2>7, <2>8, <2>9
<1> QED
  BY <1>5, <1>6, <1>7

LEMMA DoWriteStage ==
    ASSUME Facts!ChainInv, StageInv, DoWrite, UNCHANGED client
    PROVE  StageInv'
<1> DEFINE w == Before!Writes
           e == Head(effects)
<1>1. /\ pc = "write" /\ result = Ok /\ effects # <<>>
      /\ CallGiven /\ Signed /\ Vetted /\ Consented
      /\ Before!ChecksAfterwards = Ok /\ Writing
  BY DEF DoWrite, StageInv
<1>2. UNCHANGED <<lamports, owner, data, intent, call>>
  BY DEF DoWrite, Fail
<1>3. /\ CallGiven' /\ Signed' /\ Vetted' /\ Consented'
      /\ Before!ChecksAfterwards' = Before!ChecksAfterwards
      /\ Before!Writes' = w /\ Committed' = Committed
      /\ K(1)' = K(1)
  BY <1>1, <1>2, StageLasts
<1>4. w \in Seq(Range(w)) /\ Len(w) \in 0 .. 4
  BY WritesAreFew
<1>5. PICK n \in 0 .. Len(w) :
         /\ cells = After(w, n)
         /\ effects \in Seq(Range(w))
         /\ Len(effects) = Len(w) - n
         /\ \A i \in 1 .. Len(effects) : effects[i] = w[n + i]
  BY <1>1 DEF Writing, Written
<1>6. n \in 0 .. Len(w) - 1 /\ e = w[n + 1]
  <2>1. Len(effects) \in Nat \ {0} /\ e = effects[1]
    BY <1>1, <1>5, HeadTailProperties, EmptySeq
  <2> QED
    BY <1>4, <1>5, <2>1
<1>7. CASE e.field = "lamports" /\ cells.lamports[e.at] + e.by \notin U64
  <2>1. pc' = "exit" /\ result' = "Overflow"
    BY <1>1, <1>7 DEF DoWrite, Fail
  <2>2. owner[K(1)] # TokenProgram
    BY <1>1, <1>5, <1>6, <1>7, LamportsAreThere DEF CallGiven
  <2>3. owner[K(1)]' # TokenProgram
    BY <1>2, <1>3, <2>2
  <2> QED
    BY <1>3, <2>1, <2>3 DEF StageInv, Ok
<1>8. CASE ~(e.field = "lamports" /\ cells.lamports[e.at] + e.by \notin U64)
  <2>1. pc' = "write" /\ result' = Ok /\ cells' = Done(cells, e) /\ effects' = Tail(effects)
    BY <1>1, <1>8 DEF DoWrite, Done
  <2>2. cells' = After(w, n + 1)
    <3>1. n \in {0, 1, 2, 3}
      BY <1>4, <1>6
    <3> QED
      BY <1>5, <1>6, <2>1, <3>1 DEF After
  <2>3. After(w, n + 1)' = After(w, n + 1)
    BY <1>3, AfterLasts
  <2>4. /\ effects' \in Seq(Range(w))
        /\ Len(effects') = Len(w) - (n + 1)
        /\ \A i \in 1 .. Len(effects') : effects'[i] = w[(n + 1) + i]
    BY <1>1, <1>4, <1>5, <1>6, <2>1, HeadTailProperties
  <2>5. n + 1 \in 0 .. Len(w)
    BY <1>4, <1>6
  <2>6. Writing'
    <3>1. Written(w, n + 1)'
      BY <1>3, <2>2, <2>3, <2>4, SameWritten
    <3> QED
      BY <1>3, <2>5, <3>1 DEF Writing
  <2> QED
    BY <1>1, <1>3, <2>1, <2>6 DEF StageInv
<1> QED
  BY <1>7, <1>8

LEMMA ReturnStage ==
    ASSUME StageInv, Return, UNCHANGED client
    PROVE  StageInv'
<1>1. /\ pc = "write" /\ result = Ok /\ effects = <<>>
      /\ CallGiven /\ Signed /\ Vetted /\ Consented
      /\ Before!ChecksAfterwards = Ok /\ Writing
  BY DEF Return, StageInv
<1>2. UNCHANGED <<lamports, owner, data, intent, call, cells, effects, result>>
  BY DEF Return
<1>3. /\ CallGiven' /\ Signed' /\ Vetted' /\ Consented'
      /\ Before!ChecksAfterwards' = Before!ChecksAfterwards
      /\ Before!Writes' = Before!Writes /\ Committed' = Committed
  BY <1>1, <1>2, StageLasts
<1>4. Writing'
  BY <1>1, <1>2, <1>3, WritingLasts
<1>5. pc' = "exit"
  BY DEF Return
<1> QED
  BY <1>1, <1>2, <1>3, <1>4, <1>5 DEF StageInv

\* When the invocation is over, so are its findings.
LEMMA FinishStage ==
    ASSUME Finish
    PROVE  StageInv'
BY DEF Finish, StageInv

-----------------------------------------------------------------------------
(* The commit.                                                             *)

\* Only success is reported as success.
LEMMA CodesTell ==
    ASSUME NEW e, ReturnCode(e) = <<0, 0>>
    PROVE  e = "Ok"
BY DEF ReturnCode, Code, ProgramErrorCode, Aborted

\* All writes are made, and the runtime lets them stand.
Committing ==
    /\ Facts!ChainInv /\ CallGiven /\ Signed /\ Vetted /\ Consented
    /\ Before!ChecksAfterwards = Ok
    /\ Verified
    /\ cells = After(Before!Writes, Len(Before!Writes))
    /\ lamports' = cells.lamports /\ owner' = cells.owner /\ data' = cells.data

LEMMA CommitIsComplete ==
    ASSUME Facts!ChainInv, StageInv, Commit
    PROVE  Committing
<1>1. pc = "exit" /\ result = Ok /\ effects = <<>>
  BY CodesTell DEF Commit, Succeeds, StageInv, Ok
<1>2. PICK n \in 0 .. Len(Before!Writes) :
         cells = After(Before!Writes, n) /\ Len(effects) = Len(Before!Writes) - n
  BY <1>1 DEF StageInv, Writing, Written
<1>3. n = Len(Before!Writes)
  <2>1. Len(effects) = 0
    BY <1>1
  <2>2. Len(Before!Writes) \in Nat
    BY WritesAreFew
  <2> QED
    BY <1>2, <2>1, <2>2
<1> QED
  BY <1>1, <1>2, <1>3 DEF StageInv, Commit, Succeeds, Committing

LEMMA NothingWritten ==
    ASSUME Committing, Before!Writes = <<>>
    PROVE  UNCHANGED <<lamports, owner, data>>
BY DEF Committing, After, Committed

LEMMA OneWritten ==
    ASSUME Committing, NEW n, NEW d, Before!Writes = <<Put(n, d)>>
    PROVE  data' = [data EXCEPT ![K(n)] = d] /\ UNCHANGED <<lamports, owner>>
<1>1. Len(Before!Writes) = 1 /\ Before!Writes[1] = Put(n, d)
  OBVIOUS
<1>2. cells = Done(Committed, Put(n, d))
  BY <1>1 DEF Committing, After
<1> QED
  BY <1>2 DEF Committing, Done, Put, Committed

LEMMA TwoWritten ==
    ASSUME Committing, NEW m, NEW n, NEW d, NEW e,
           Before!Writes = <<Put(m, d), Put(n, e)>>
    PROVE  /\ data' = [data EXCEPT ![K(m)] = d, ![K(n)] = e]
           /\ UNCHANGED <<lamports, owner>>
<1>1. /\ Len(Before!Writes) = 2
      /\ Before!Writes[1] = Put(m, d) /\ Before!Writes[2] = Put(n, e)
  OBVIOUS
<1>2. cells = Done(Done(Committed, Put(m, d)), Put(n, e))
  BY <1>1 DEF Committing, After
<1> QED
  BY <1>2 DEF Committing, Done, Put, Committed

\* What the runtime verified is what Token asks of it.
LEMMA RuntimeVerified ==
    ASSUME Committing,
           \A k \in Key : lamports'[k] \in Int,
           \A k \in Key : owner'[k] # owner[k] => data'[k] \in Bank!Zeroed
    PROVE  Bank!RuntimeAccepts(TokenProgram)
<1> SUFFICES ASSUME NEW k \in Key
             PROVE  /\ data'[k] # data[k] => owner[k] = TokenProgram
                    /\ lamports'[k] < lamports[k] => owner[k] = TokenProgram
                    /\ owner'[k] # owner[k] => owner[k] = TokenProgram
  BY DEF Bank!RuntimeAccepts
<1>1. \/ owner[k] = TokenProgram
      \/ /\ data'[k] = data[k] /\ owner'[k] = owner[k]
         /\ lamports'[k] >= lamports[k]
  BY DEF Committing, Verified
<1>2. lamports[k] \in Nat
  BY FactsTyped, U64Assumption DEF Committing, U64
<1>3. lamports'[k] >= lamports[k] => ~(lamports'[k] < lamports[k])
  BY <1>2
<1> QED
  BY <1>1, <1>3

LEMMA Packed ==
    ASSUME Committing, NEW newData, data' = newData, UNCHANGED <<lamports, owner>>
    PROVE  Bank!Pack(newData)
<1>1. \A k \in Key : owner'[k] # owner[k] => data'[k] \in Bank!Zeroed
  OBVIOUS
<1>2. \A k \in Key : lamports'[k] \in Int
  BY FactsTyped, U64Assumption DEF Committing, U64
<1> QED
  BY <1>1, <1>2, RuntimeVerified DEF Bank!Pack

\* Two instances of what Token says of data.
LEMMA BankReads ==
    /\ \A d : Bank!IsMint(d) = IsMint(d) /\ Bank!IsAccount(d) = IsAccount(d)
    /\ \A d : Bank!IsMultisig(d) = IsMultisig(d) /\ Bank!IsFrozen(d) = IsFrozen(d)
    /\ \A d : Bank!IsNative(d) = IsNative(d)
    /\ \A d : Bank!IsOwnedBySystemProgramOrIncinerator(d)
                 = IsOwnedBySystemProgramOrIncinerator(d)
    /\ \A n : Bank!IsValidSignerIndex(n) = IsValidSignerIndex(n)
    /\ \A k : Bank!CheckAccountOwner(k) <=> owner[k] = TokenProgram
BY DEF Bank!IsMint, IsMint, Bank!IsAccount, IsAccount, Bank!IsMultisig, IsMultisig,
       Bank!IsFrozen, IsFrozen, Bank!IsNative, IsNative,
       Bank!IsOwnedBySystemProgramOrIncinerator, IsOwnedBySystemProgramOrIncinerator,
       Bank!IsValidSignerIndex, IsValidSignerIndex, Bank!CheckAccountOwner

-----------------------------------------------------------------------------
(* The handlers.                                                           *)

LEMMA CommitInitializeMint ==
    ASSUME Committing, Op.tag \in {"InitializeMint", "InitializeMint2"}
    PROVE  /\ K(1) \in Key
           /\ Bank!InitializeMint(K(1), Op.decimals, Op.mint_authority, Op.freeze_authority)
<1>1. /\ 1 <= Len(call.accounts) /\ data[K(1)].kind = "mint"
      /\ ~(IsMint(data[K(1)]) \/ IsAccount(data[K(1)]) \/ IsMultisig(data[K(1)]))
      /\ lamports[K(1)] >= MinBalance["mint"]
  BY InitializeMintVetted DEF Committing
<1>2. K(1) \in Key
  <2>1. 1 \in 1 .. Len(call.accounts) /\ Places(Op.tag, 1) = Key
    BY <1>1 DEF Places, Committing, CallGiven, IsInstruction
  <2> QED
    BY <2>1, Placed DEF Committing, CallGiven
<1>3. Bank!Pack([data EXCEPT ![K(1)] =
         [data[K(1)] EXCEPT !.mint_authority = Op.mint_authority,
                            !.decimals = Op.decimals, !.is_initialized = TRUE,
                            !.freeze_authority = Op.freeze_authority]])
  BY WritesAre, OneWritten, Packed
<1> QED
  BY <1>1, <1>2, <1>3, BankReads
     DEF Bank!InitializeMint, Bank!AlreadyInUse, Bank!IsRentExempt

LEMMA CommitInitializeAccount ==
    ASSUME Committing,
           Op.tag \in {"InitializeAccount", "InitializeAccount2", "InitializeAccount3"}
    PROVE  /\ K(1) \in Key /\ K(2) \in Key
           /\ Bank!InitializeAccount(K(1), K(2),
                 IF Op.tag = "InitializeAccount" THEN K(3) ELSE Op.owner)
<1>1. /\ 2 <= Len(call.accounts) /\ data[K(1)].kind = "account"
      /\ ~(IsMint(data[K(1)]) \/ IsAccount(data[K(1)]) \/ IsMultisig(data[K(1)]))
      /\ lamports[K(1)] >= MinBalance["account"]
      /\ K(2) # NativeMint => owner[K(2)] = TokenProgram /\ IsMint(data[K(2)])
  BY InitializeAccountVetted DEF Committing, CallGiven, IsInstruction
<1>2. K(1) \in Key /\ K(2) \in Key
  <2>1. 1 \in 1 .. Len(call.accounts) /\ 2 \in 1 .. Len(call.accounts)
    BY <1>1 DEF Committing, CallGiven, IsInstruction
  <2>2. Places(Op.tag, 1) = Key /\ Places(Op.tag, 2) = Key
    BY DEF Places
  <2> QED
    BY <2>1, <2>2, Placed DEF Committing, CallGiven
<1>3. Bank!Pack([data EXCEPT ![K(1)] =
         [kind |-> "account", mint |-> K(2),
          owner |-> IF Op.tag = "InitializeAccount" THEN K(3) ELSE Op.owner,
          amount |-> IF K(2) = NativeMint
                     THEN lamports[K(1)] - MinBalance["account"] ELSE 0,
          delegate |-> None, state |-> "Initialized",
          is_native |-> IF K(2) = NativeMint THEN MinBalance["account"] ELSE None,
          delegated_amount |-> 0, close_authority |-> None]])
  BY WritesAre, WriteIsPut, BeforeReads, OneWritten, Packed
     DEF Before!InitializeAccountWrites, Committed
<1> QED
  BY <1>1, <1>2, <1>3, BankReads
     DEF Bank!InitializeAccount, Bank!AlreadyInUse, Bank!IsRentExempt, Bank!IsValidMint

\* Where the signers of a multisig begin, and who they are.
FirstSigner == IF Op.tag = "InitializeMultisig" THEN 3 ELSE 2

LEMMA SignerInfosAre ==
    ASSUME call.accounts \in Seq(AccountMeta)
    PROVE  /\ SignerInfos \in Seq(AccountMeta)
           /\ Len(SignerInfos) \in Nat /\ DOMAIN SignerInfos = 1 .. Len(SignerInfos)
           /\ Len(SignerInfos) = IF FirstSigner <= Len(call.accounts)
                                 THEN Len(call.accounts) - FirstSigner + 1 ELSE 0
           /\ \A p \in 1 .. Len(SignerInfos) :
                 SignerInfos[p] = call.accounts[FirstSigner + p - 1]
<1>1. FirstSigner \in 1 .. 3 /\ Len(call.accounts) \in Nat
  BY DEF FirstSigner
<1>2. \A i \in FirstSigner .. Len(call.accounts) : call.accounts[i] \in AccountMeta
  BY <1>1
<1>3. SignerInfos = SubSeq(call.accounts, FirstSigner, Len(call.accounts))
  BY DEF SignerInfos, FirstSigner
<1>4. /\ SignerInfos \in Seq(AccountMeta)
      /\ Len(SignerInfos) = IF FirstSigner <= Len(call.accounts)
                            THEN Len(call.accounts) - FirstSigner + 1 ELSE 0
      /\ \A p \in 1 .. Len(call.accounts) - FirstSigner + 1 :
            SignerInfos[p] = call.accounts[FirstSigner + p - 1]
  BY <1>1, <1>2, <1>3, SubSeqProperties
<1>5. Len(SignerInfos) \in Nat /\ DOMAIN SignerInfos = 1 .. Len(SignerInfos)
  BY <1>4, LenProperties
<1> QED
  BY <1>1, <1>4, <1>5

LEMMA CommitInitializeMultisig ==
    ASSUME Committing, Op.tag \in {"InitializeMultisig", "InitializeMultisig2"}
    PROVE  LET signers == [p \in DOMAIN SignerInfos |-> SignerInfos[p].pubkey]
           IN  /\ K(1) \in Key
               /\ signers \in Bank!SignerLists
               /\ Bank!InitializeMultisig(K(1), Op.m, signers)
<1> DEFINE signers == [p \in DOMAIN SignerInfos |-> SignerInfos[p].pubkey]
           first == IF Op.tag = "InitializeMultisig" THEN 3 ELSE 2
           n == Len(SignerInfos)
<1>1. /\ call.accounts \in Seq(AccountMeta) /\ Len(call.accounts) \in Nat
      /\ IsInstruction(call)
  BY DEF Committing, CallGiven, IsInstruction
<1>2. /\ SignerInfos \in Seq(AccountMeta)
      /\ n = IF first <= Len(call.accounts) THEN Len(call.accounts) - first + 1 ELSE 0
      /\ \A p \in 1 .. n : SignerInfos[p] = call.accounts[first + p - 1]
  BY <1>1, SignerInfosAre DEF FirstSigner
<1>3. n \in Nat /\ DOMAIN SignerInfos = 1 .. n
  BY <1>1, SignerInfosAre
<1>4. /\ first - 1 <= Len(call.accounts)
      /\ data[K(1)].kind = "multisig"
      /\ ~(IsMint(data[K(1)]) \/ IsAccount(data[K(1)]) \/ IsMultisig(data[K(1)]))
      /\ lamports[K(1)] >= MinBalance["multisig"]
      /\ IsValidSignerIndex(n) /\ IsValidSignerIndex(Op.m)
  BY <1>1, <1>3, InitializeMultisigVetted DEF Committing
<1>5. K(1) \in Key
  <2>1. 1 \in 1 .. Len(call.accounts) /\ Places(Op.tag, 1) = Key
    BY <1>1, <1>4 DEF Places
  <2> QED
    BY <1>1, <2>1, Placed
<1>6. signers \in [1 .. n -> Signer]
  <2>1. ASSUME NEW p \in 1 .. n PROVE SignerInfos[p].pubkey \in Signer
    <3>1. /\ first + p - 1 \in 1 .. Len(call.accounts)
          /\ SignerInfos[p].pubkey = K(first + p - 1)
          /\ first + p - 1 > first - 1
      BY <1>1, <1>2, <1>3, <2>1 DEF K
    <3>2. Places(Op.tag, first + p - 1) = Signer
      BY <3>1 DEF Places
    <3> QED
      BY <1>1, <3>1, <3>2, Placed
  <2> QED
    BY <1>3, <2>1
<1>7. n \in 1 .. MaxSigners
  BY <1>4 DEF IsValidSignerIndex
<1>8. signers \in Bank!SignerLists
  <2>1. n \in 0 .. MaxSigners + 1
    BY <1>7, SizeAssumption
  <2> HIDE DEF n, signers
  <2> QED
    BY <1>6, <2>1 DEF Bank!SignerLists
<1>9. Bank!Cardinality(DOMAIN signers) = n
  <2>1. Cardinality(1 .. n) = n
    BY <1>3, <1>7, FS_Interval
  <2>2. Bank!Cardinality(1 .. n) = Cardinality(1 .. n)
    BY DEF Bank!Cardinality, Cardinality
  <2> QED
    BY <1>3, <2>1, <2>2
<1>10. Bank!Pack([data EXCEPT ![K(1)] =
          [kind |-> "multisig", m |-> Op.m, is_initialized |-> TRUE, signers |-> signers]])
  BY WritesAre, OneWritten, Packed
<1>11. Bank!InitializeMultisig(K(1), Op.m, signers)
  <2> HIDE DEF signers
  <2> QED
    BY <1>4, <1>9, <1>10, BankReads
       DEF Bank!InitializeMultisig, Bank!AlreadyInUse, Bank!IsRentExempt
<1> QED
  BY <1>5, <1>8, <1>11

LEMMA CommitSyncNative ==
    ASSUME Committing, Op.tag = "SyncNative"
    PROVE  K(1) \in Key /\ Bank!SyncNative(K(1))
<1>1. /\ 1 <= Len(call.accounts) /\ owner[K(1)] = TokenProgram
      /\ IsAccount(data[K(1)]) /\ IsNative(data[K(1)])
      /\ lamports[K(1)] - data[K(1)].is_native >= data[K(1)].amount
  BY SyncNativeVetted DEF Committing
<1>2. K(1) \in Key
  <2>1. 1 \in 1 .. Len(call.accounts) /\ Places(Op.tag, 1) = Key
    BY <1>1 DEF Places, Committing, CallGiven, IsInstruction
  <2> QED
    BY <2>1, Placed DEF Committing, CallGiven
<1>3. Bank!Pack([data EXCEPT ![K(1)] =
         [data[K(1)] EXCEPT !.amount = lamports[K(1)] - data[K(1)].is_native]])
  BY WritesAre, OneWritten, Packed
<1> QED
  BY <1>1, <1>2, <1>3, BankReads DEF Bank!SyncNative, Bank!Wrapped

\* The decimals a checked instruction expects.
ExpectedOperand == IF HasDecimals THEN Op.decimals ELSE None

LEMMA AccountTyped ==
    ASSUME Facts!ChainInv, NEW k \in Key, IsAccount(data[k])
    PROVE  data[k] \in AccountData
<1>1. data[k] \in Data /\ data[k].kind = "account"
  BY FactsTyped DEF IsAccount
<1> QED
  BY <1>1 DEF Data, EmptyData, MintData, MultisigData

LEMMA MintTyped ==
    ASSUME Facts!ChainInv, NEW k \in Key, IsMint(data[k])
    PROVE  data[k] \in MintData
<1>1. data[k] \in Data /\ data[k].kind = "mint"
  BY FactsTyped DEF IsMint
<1> QED
  BY <1>1 DEF Data, EmptyData, AccountData, MultisigData

LEMMA Consent ==
    ASSUME Committing, Before!ExpectedOwner # None
    PROVE  /\ Before!ExpectedOwner = K(AuthorityAt)
           /\ Bank!ValidateOwner(K(AuthorityAt), Signatures)
           /\ K(AuthorityAt) \in Key
BY AuthorityPlaced DEF Committing, Consented, CallGiven

LEMMA PlacedKey ==
    ASSUME Committing, NEW n \in Nat \ {0}, n <= Len(call.accounts),
           Places(Op.tag, n) = Key
    PROVE  K(n) \in Key
<1>1. Len(call.accounts) \in Nat
  BY DEF Committing, CallGiven, IsInstruction
<1> QED
  BY <1>1, Placed DEF Committing, CallGiven

LEMMA SpentIs ==
    ASSUME NEW a \in AccountData, NEW auth, auth = K(AuthorityAt), a = data[K(1)]
    PROVE  Before!Spent(a) = [Bank!ReduceAllowance(a, auth, Op.amount)
                                 EXCEPT !.amount = a.amount - Op.amount]
<1>1. CASE a.delegate = auth
  <2>1. Before!Spent(a) = [a EXCEPT !.amount = a.amount - Op.amount,
                             !.delegated_amount = a.delegated_amount - Op.amount,
                             !.delegate = IF a.delegated_amount = Op.amount THEN None
                                          ELSE a.delegate]
    BY <1>1, BeforeReads DEF Before!Spent, Before!SpendsAllowance, AccountData
  <2>2. Bank!ReduceAllowance(a, auth, Op.amount)
          = [a EXCEPT !.delegated_amount = a.delegated_amount - Op.amount,
                      !.delegate = IF a.delegated_amount = Op.amount THEN None
                                   ELSE a.delegate]
    BY <1>1 DEF Bank!ReduceAllowance
  <2> QED
    BY <2>1, <2>2, Zenon DEF AccountData
<1>2. CASE a.delegate # auth
  <2>1. Before!Spent(a) = [a EXCEPT !.amount = a.amount - Op.amount]
    BY <1>2, BeforeReads DEF Before!Spent, Before!SpendsAllowance, AccountData
  <2>2. Bank!ReduceAllowance(a, auth, Op.amount) = a
    BY <1>2 DEF Bank!ReduceAllowance
  <2> QED
    BY <2>1, <2>2
<1> QED
  BY <1>1, <1>2

LEMMA TransferPassed ==
    ASSUME Committing, Op.tag \in {"Transfer", "TransferChecked"}
    PROVE  LET a == data[K(1)]
               auth == K(3 + Shift)
           IN  /\ K(1) \in Key /\ K(2 + Shift) \in Key
               /\ Op.amount \in U64
               /\ Bank!MaySpend(a, auth, Op.amount, Signatures)
               /\ (K(1) = K(2 + Shift) \/ Op.amount = 0) =>
                     owner[K(1)] = TokenProgram /\ owner[K(2 + Shift)] = TokenProgram
               /\ K(1) # K(2 + Shift) => data[K(2 + Shift)].amount + Op.amount <= U64Max
<1> DEFINE a == data[K(1)]
           auth == K(3 + Shift)
<1>1. 3 + Shift <= Len(call.accounts) /\ IsAccount(a)
  BY TransferVetted DEF Committing
<1>2. K(1) \in Key /\ K(2 + Shift) \in Key /\ auth \in Key
  <2>1. Places(Op.tag, 1) = Key /\ Places(Op.tag, 2 + Shift) = Key
        /\ Places(Op.tag, 3 + Shift) = Key
    BY DEF Places, Shift
  <2>2. Len(call.accounts) \in Nat
    BY DEF Committing, CallGiven, IsInstruction
  <2>3. /\ 1 <= Len(call.accounts) /\ 2 + Shift <= Len(call.accounts)
        /\ 2 + Shift \in Nat \ {0} /\ 3 + Shift \in Nat \ {0}
    BY <1>1, <2>2 DEF Shift
  <2> QED
    BY <1>1, <2>1, <2>3, PlacedKey
<1>3. Op.amount \in U64
  BY InputAssumption DEF Committing, CallGiven, IsInstruction, AreOperands, Op
<1>4. /\ Before!AuthorityAt = 3 + Shift /\ AuthorityAt = 3 + Shift
  BY BeforeReads DEF AuthorityAt
<1>5. Before!ExpectedOwner = IF a.delegate = auth THEN a.delegate ELSE a.owner
  BY <1>4, BeforeReads
     DEF Before!ExpectedOwner, Before!SpenderOf, Before!SpendsAllowance
<1>6. a.owner # None
  BY <1>1, <1>2, AccountTyped, KeyAssumption DEF AccountData, Committing
<1>7. Before!ExpectedOwner # None
  BY <1>2, <1>5, <1>6, KeyAssumption
<1>8. /\ Before!WithinAllowance = Ok
      /\ (K(1) = K(2 + Shift) \/ Op.amount = 0) => Before!OwnersAreToken(1, 2 + Shift) = Ok
      /\ K(1) = K(2 + Shift) \/ data[K(2 + Shift)].amount + Op.amount <= U64Max
  <2>1. Before!TransferAfterwards = Ok
    BY BeforeReads DEF Committing, Before!ChecksAfterwards
  <2> QED
    BY <2>1, GoesOn, GoesOnBefore, BeforeReads
       DEF Before!TransferAfterwards, Before!IsSelfTransfer, Before!Ensure, Ok
<1>9. a.delegate = auth => Op.amount <= a.delegated_amount
  BY <1>4, <1>8, BeforeReads
     DEF Before!WithinAllowance, Before!SpendsAllowance, Before!Ensure, Ok
<1>10. Bank!MaySpend(a, auth, Op.amount, Signatures)
  <2>1. Before!ExpectedOwner = auth /\ Bank!ValidateOwner(auth, Signatures)
    BY <1>4, <1>7, Consent
  <2> QED
    BY <1>5, <1>9, <2>1 DEF Bank!MaySpend
<1>11. (K(1) = K(2 + Shift) \/ Op.amount = 0) =>
          owner[K(1)] = TokenProgram /\ owner[K(2 + Shift)] = TokenProgram
  BY <1>8, GoesOn, GoesOnBefore, CheckMeans DEF Before!OwnersAreToken
<1> QED
  BY <1>2, <1>3, <1>8, <1>10, <1>11

LEMMA CommitTransfer ==
    ASSUME Committing, Op.tag \in {"Transfer", "TransferChecked"}
    PROVE  /\ K(1) \in Key /\ K(2 + Shift) \in Key /\ owner[K(1)] = TokenProgram
           /\ Bank!Transfer(Signatures, K(1), K(2 + Shift), K(3 + Shift),
                            Op.amount, ExpectedOperand)
<1> DEFINE src == K(1)
           dst == K(2 + Shift)
           auth == K(3 + Shift)
           a == data[src]
           b == data[dst]
           amount == Op.amount
           spent == [Bank!ReduceAllowance(a, auth, amount) EXCEPT !.amount = a.amount - amount]
           received == [b EXCEPT !.amount = b.amount + amount]
<1>1. /\ IsAccount(a) /\ IsAccount(b) /\ ~IsFrozen(a) /\ ~IsFrozen(b)
      /\ amount <= a.amount /\ a.mint = b.mint
      /\ Shift = 1 => /\ K(2) = a.mint /\ IsMint(data[K(2)])
                      /\ Op.decimals = data[K(2)].decimals
  BY TransferVetted DEF Committing
<1>2. /\ src \in Key /\ dst \in Key /\ amount \in U64
      /\ Bank!MaySpend(a, auth, amount, Signatures)
      /\ (src = dst \/ amount = 0) => owner[src] = TokenProgram /\ owner[dst] = TokenProgram
      /\ src # dst => b.amount + amount <= U64Max
  BY TransferPassed
<1>3. a \in AccountData /\ b \in AccountData
  BY <1>1, <1>2, AccountTyped DEF Committing
<1>4. Bank!DecimalsMatch(a.mint, ExpectedOperand)
  <2>1. HasDecimals <=> Shift = 1
    BY DEF HasDecimals, Shift
  <2> QED
    BY <1>1, <2>1, BankReads DEF Bank!DecimalsMatch, ExpectedOperand
<1>5. CASE src = dst
  <2>1. Before!Writes = <<>>
    BY <1>5, WritesAre, TransferWritesAre
  <2>2. UNCHANGED <<lamports, owner, data>>
    BY <2>1, NothingWritten
  <2> HIDE DEF spent, received
  <2> QED
    BY <1>1, <1>2, <1>4, <1>5, <2>2, BankReads
       DEF Bank!Transfer, Bank!IsSelfTransfer, Bank!vars
<1>6. CASE src # dst
  <2>1. Before!Spent(a) = spent
    <3>1. AuthorityAt = 3 + Shift
      BY DEF AuthorityAt
    <3> QED
      BY <1>3, <3>1, SpentIs
  <2>2. /\ data' = [data EXCEPT ![src] = spent, ![dst] = received]
        /\ UNCHANGED owner
        /\ lamports' = IF IsNative(a)
                       THEN [lamports EXCEPT ![src] = lamports[src] + (-amount),
                                             ![dst] = lamports[dst] + amount]
                       ELSE lamports
    <3> HIDE DEF spent
    <3>1. CASE ~IsNative(a)
      <4>1. Before!Writes = <<Put(1, spent), Put(2 + Shift, received)>>
        BY <1>6, <2>1, <3>1, WritesAre, TransferWritesAre
      <4> HIDE DEF received
      <4> QED
        BY <3>1, <4>1, TwoWritten
    <3>2. CASE IsNative(a)
      <4>1. Before!Writes = <<Give(1, -amount), Give(2 + Shift, amount),
                              Put(1, spent), Put(2 + Shift, received)>>
        BY <1>6, <2>1, <3>2, WritesAre, TransferWritesAre
      <4> HIDE DEF received, amount
      <4>2. /\ Len(Before!Writes) = 4
            /\ Before!Writes[1] = Give(1, -amount)
            /\ Before!Writes[2] = Give(2 + Shift, amount)
            /\ Before!Writes[3] = Put(1, spent)
            /\ Before!Writes[4] = Put(2 + Shift, received)
        BY <4>1
      <4>3. cells = Done(Done(Done(Done(Committed, Give(1, -amount)), Give(2 + Shift, amount)),
                              Put(1, spent)), Put(2 + Shift, received))
        BY <4>2 DEF Committing, After
      <4>4. /\ cells.owner = owner
            /\ cells.data = [data EXCEPT ![src] = spent, ![dst] = received]
            /\ cells.lamports = [[lamports EXCEPT ![src] = @ + (-amount)]
                                    EXCEPT ![dst] = @ + amount]
        BY <4>3, Zenon DEF Done, Put, Give, Committed
      <4>5. [[lamports EXCEPT ![src] = @ + (-amount)] EXCEPT ![dst] = @ + amount]
              = [lamports EXCEPT ![src] = lamports[src] + (-amount),
                                 ![dst] = lamports[dst] + amount]
        BY <1>2, <1>6, FactsTyped DEF Committing
      <4> QED
        BY <3>2, <4>4, <4>5 DEF Committing
    <3> QED
      BY <3>1, <3>2
  <2>3. /\ lamports[src] \in Nat /\ lamports[dst] \in Nat /\ amount \in Nat
        /\ a.amount \in Nat /\ lamports \in [Key -> Nat] /\ data \in [Key -> Data]
    BY <1>2, <1>3, FactsTyped, U64Assumption DEF AccountData, U64, Committing
  <2>4. owner[src] = TokenProgram
    <3>1. CASE amount = 0
      BY <1>2, <3>1
    <3>2. CASE amount # 0
      <4>1. data'[src] = spent
        <5> HIDE DEF spent, received
        <5> QED
          BY <1>2, <1>6, <2>2, <2>3
      <4>2. spent.amount = a.amount - amount
        BY <1>3 DEF Bank!ReduceAllowance, AccountData
      <4>3. data'[src].amount # data[src].amount
        <5> HIDE DEF spent
        <5> QED
          BY <2>3, <3>2, <4>1, <4>2
      <4> QED
        BY <1>2, <4>3 DEF Committing, Verified
    <3> QED
      BY <3>1, <3>2
  <2> HIDE DEF spent, received
  <2>5. IF IsNative(a) THEN Bank!Pay(src, dst, amount) ELSE UNCHANGED lamports
    <3>1. CASE IsNative(a)
      <4>1. a.is_native \in Nat /\ a.is_native + a.amount <= lamports[src]
        BY <1>1, <1>2, <2>4, <3>1, FactsWrapped DEF Committing
      <4>2. amount <= lamports[src]
        BY <1>1, <2>3, <4>1
      <4>3. lamports[src] + lamports[dst] <= U64Max
        BY <1>2, <1>6, FactsLamports DEF Committing
      <4>4. lamports[dst] + amount <= U64Max
        BY <2>3, <4>2, <4>3, U64Assumption
      <4>5. lamports' = [lamports EXCEPT ![src] = lamports[src] - amount,
                                         ![dst] = lamports[dst] + amount]
        BY <2>2, <2>3, <3>1
      <4> QED
        BY <1>6, <3>1, <4>2, <4>4, <4>5 DEF Bank!Pay
    <3> QED
      BY <2>2, <3>1
  <2>6. Bank!RuntimeAccepts(TokenProgram)
    <3>1. \A k \in Key : lamports'[k] \in Int
      BY <2>2, <2>3
    <3> QED
      BY <2>2, <3>1, RuntimeVerified
  <2>7. Bank!CheckedAddFits(b.amount, amount)
    BY <1>2, <1>6 DEF Bank!CheckedAddFits
  <2>8. data' = [data EXCEPT
            ![src] = [Bank!ReduceAllowance(a, auth, amount) EXCEPT !.amount = a.amount - amount],
            ![dst] = [b EXCEPT !.amount = b.amount + amount]]
    BY <2>2 DEF spent, received
  <2>9. Bank!Transfer(Signatures, src, dst, auth, amount, ExpectedOperand)
    <3>1. /\ Bank!IsAccount(a) /\ Bank!IsAccount(b) /\ ~Bank!IsFrozen(a) /\ ~Bank!IsFrozen(b)
          /\ Bank!IsNative(a) = IsNative(a)
          /\ (src = dst \/ amount = 0) =>
                Bank!CheckAccountOwner(src) /\ Bank!CheckAccountOwner(dst)
      BY <1>1, <1>2, BankReads
    <3> QED
      BY <1>1, <1>2, <1>4, <1>6, <2>2, <2>5, <2>6, <2>7, <2>8, <3>1
         DEF Bank!Transfer, Bank!IsSelfTransfer
  <2> QED
    BY <1>2, <2>4, <2>9
<1> QED
  BY <1>2, <1>5, <1>6

LEMMA CommitApprove ==
    ASSUME Committing, Op.tag \in {"Approve", "ApproveChecked"}
    PROVE  /\ K(1) \in Key /\ IsAccount(data[K(1)])
           /\ 2 + Shift \in 1 .. Len(call.accounts)
           /\ K(3 + Shift) = data[K(1)].owner
           /\ Bank!Approve(Signatures, K(1), K(2 + Shift), Op.amount, ExpectedOperand)
<1>1. /\ 3 + Shift <= Len(call.accounts)
      /\ IsAccount(data[K(1)]) /\ ~IsFrozen(data[K(1)])
      /\ Shift = 1 => /\ K(2) = data[K(1)].mint /\ IsMint(data[K(2)])
                      /\ Op.decimals = data[K(2)].decimals
  BY ApproveVetted DEF Committing
<1>2. Len(call.accounts) \in Nat
  BY DEF Committing, CallGiven, IsInstruction
<1>3. K(1) \in Key
  <2>1. Places(Op.tag, 1) = Key /\ 1 <= Len(call.accounts)
    BY <1>1, <1>2 DEF Places, Shift
  <2> QED
    BY <2>1, PlacedKey
<1>4. 2 + Shift \in 1 .. Len(call.accounts)
  BY <1>1, <1>2 DEF Shift
<1>5. Before!ExpectedOwner = data[K(1)].owner /\ data[K(1)].owner # None
  BY <1>1, <1>3, BeforeReads, AccountTyped, KeyAssumption
     DEF Before!ExpectedOwner, Committing, AccountData
<1>6. /\ K(3 + Shift) = data[K(1)].owner
      /\ Bank!ValidateOwner(data[K(1)].owner, Signatures)
  <2>1. AuthorityAt = 3 + Shift
    BY DEF AuthorityAt
  <2> QED
    BY <1>5, <2>1, Consent
<1>7. Bank!DecimalsMatch(data[K(1)].mint, ExpectedOperand)
  <2>1. HasDecimals <=> Shift = 1
    BY DEF HasDecimals, Shift
  <2> QED
    BY <1>1, <2>1, BankReads DEF Bank!DecimalsMatch, ExpectedOperand
<1>8. Bank!Pack([data EXCEPT ![K(1)] =
         [data[K(1)] EXCEPT !.delegate = K(2 + Shift), !.delegated_amount = Op.amount]])
  BY WritesAre, OneWritten, Packed
<1> QED
  BY <1>1, <1>3, <1>4, <1>6, <1>7, <1>8, BankReads DEF Bank!Approve

LEMMA CommitRevoke ==
    ASSUME Committing, Op.tag = "Revoke"
    PROVE  /\ K(1) \in Key /\ IsAccount(data[K(1)])
           /\ K(2) = data[K(1)].owner
           /\ Bank!Revoke(Signatures, K(1))
<1>1. 2 <= Len(call.accounts) /\ IsAccount(data[K(1)]) /\ ~IsFrozen(data[K(1)])
  BY RevokeVetted DEF Committing
<1>2. K(1) \in Key
  <2>1. Places(Op.tag, 1) = Key /\ 1 <= Len(call.accounts)
    BY <1>1 DEF Places, Committing, CallGiven, IsInstruction
  <2> QED
    BY <2>1, PlacedKey
<1>3. Before!ExpectedOwner = data[K(1)].owner /\ data[K(1)].owner # None
  BY <1>1, <1>2, BeforeReads, AccountTyped, KeyAssumption
     DEF Before!ExpectedOwner, Committing, AccountData
<1>4. K(2) = data[K(1)].owner /\ Bank!ValidateOwner(data[K(1)].owner, Signatures)
  <2>1. AuthorityAt = 2
    BY DEF AuthorityAt
  <2> QED
    BY <1>3, <2>1, Consent
<1>5. Bank!Pack([data EXCEPT ![K(1)] =
         [data[K(1)] EXCEPT !.delegate = None, !.delegated_amount = 0]])
  BY WritesAre, OneWritten, Packed
<1> QED
  BY <1>1, <1>2, <1>4, <1>5, BankReads DEF Bank!Revoke

LEMMA CommitSetAuthority ==
    ASSUME Committing, Op.tag = "SetAuthority"
    PROVE  LET d == data[K(1)]
               type == Op.authority_type
               new == Op.new_authority
           IN  /\ K(1) \in Key
               /\ \/ /\ type = "AccountOwner" /\ IsAccount(d)
                     /\ K(2) = d.owner /\ new \in Owners
                     /\ Bank!SetAccountOwner(Signatures, K(1), new)
                  \/ /\ type = "CloseAccount" /\ IsAccount(d)
                     /\ K(2) = Bank!Closer(d) /\ new \in CloseAuthorities \cup {None}
                     /\ Bank!SetCloseAuthority(Signatures, K(1), new)
                  \/ /\ type = "MintTokens" /\ IsMint(d)
                     /\ K(2) = d.mint_authority /\ new \in MintAuthorities \cup {None}
                     /\ Bank!SetMintAuthority(Signatures, K(1), new)
                  \/ /\ type = "FreezeAccount" /\ IsMint(d)
                     /\ K(2) = d.freeze_authority /\ new \in FreezeAuthorities \cup {None}
                     /\ Bank!SetFreezeAuthority(Signatures, K(1), new)
<1> DEFINE d == data[K(1)]
           type == Op.authority_type
           new == Op.new_authority
<1>1. /\ 2 <= Len(call.accounts)
      /\ \/ IsAccount(d) /\ ~IsFrozen(d) /\ type \in {"AccountOwner", "CloseAccount"}
         \/ /\ IsMint(d) /\ type \in {"MintTokens", "FreezeAccount"}
            /\ type = "MintTokens" => d.mint_authority # None
            /\ type = "FreezeAccount" => d.freeze_authority # None
  BY SetAuthorityVetted DEF Committing
<1>2. K(1) \in Key
  <2>1. Places(Op.tag, 1) = Key /\ 1 <= Len(call.accounts)
    BY <1>1 DEF Places, Committing, CallGiven, IsInstruction
  <2> QED
    BY <2>1, PlacedKey
<1>3. \/ type \in AuthorityType /\ new = None
      \/ type = "MintTokens" /\ new \in MintAuthorities
      \/ type = "FreezeAccount" /\ new \in FreezeAuthorities
      \/ type = "AccountOwner" /\ new \in Owners
      \/ type = "CloseAccount" /\ new \in CloseAuthorities
  BY DEF Committing, CallGiven, IsInstruction, AreOperands, Op
<1>4. AuthorityAt = 2 /\ Before!ExpectedOwner = Before!OwnedAuthority
  BY BeforeReads DEF AuthorityAt, Before!ExpectedOwner
<1>5. Before!OwnedAuthority # None =>
         /\ Before!OwnedAuthority = K(2)
         /\ Bank!ValidateOwner(K(2), Signatures)
  BY <1>4, Consent
<1>6. IsAccount(d) => d.owner # None
  BY <1>2, AccountTyped, KeyAssumption DEF Committing, AccountData
<1>7. CASE type = "AccountOwner"
  <2>1. IsAccount(d) /\ ~IsFrozen(d)
    BY <1>1, <1>7
  <2>2. Before!OwnedAuthority = d.owner
    BY <1>7, BeforeReads DEF Before!OwnedAuthority
  <2>3. new # None
    <3>1. Before!Ensure(Op.authority_type = "AccountOwner" => Op.new_authority # None,
                        "InvalidInstruction") = Ok
      BY BeforeReads DEF Committing, Before!ChecksAfterwards
    <3> QED
      BY <1>7, <3>1 DEF Before!Ensure, Ok
  <2>4. Bank!Pack([data EXCEPT ![K(1)] = Bank!HandOver(d, new)])
    <3>1. Before!Writes = <<Put(1, Bank!HandOver(d, new))>>
      <4> DEFINE x == [d EXCEPT !.owner = new, !.delegate = None, !.delegated_amount = 0,
                                !.close_authority = IF IsNative(d) THEN None
                                                    ELSE d.close_authority]
      <4>1. Bank!HandOver(d, new) = x
        BY DEF Bank!HandOver, Bank!IsNative, IsNative
      <4>2. Before!SetAuthorityWrites = Before!Write(1, x)
        BY <1>7, BeforeReads DEF Before!SetAuthorityWrites, Before!IsNative, IsNative
      <4> HIDE DEF x
      <4> QED
        BY <4>1, <4>2, WritesAre, WriteIsPut
    <3> QED
      BY <3>1, OneWritten, Packed
  <2>5. Bank!SetAccountOwner(Signatures, K(1), new)
    BY <1>5, <1>6, <2>1, <2>2, <2>4, BankReads DEF Bank!SetAccountOwner
  <2> QED
    BY <1>2, <1>3, <1>5, <1>6, <1>7, <2>1, <2>2, <2>3, <2>5
<1>8. CASE type = "CloseAccount"
  <2>1. IsAccount(d) /\ ~IsFrozen(d)
    BY <1>1, <1>8
  <2>2. Before!OwnedAuthority = Bank!Closer(d) /\ Bank!Closer(d) # None
    BY <1>6, <1>8, <2>1, BeforeReads
       DEF Before!OwnedAuthority, Before!CloserOf, Bank!Closer
  <2>3. Bank!Pack([data EXCEPT ![K(1)] = [d EXCEPT !.close_authority = new]])
    <3>1. Before!Writes = <<Put(1, [d EXCEPT !.close_authority = new])>>
      BY <1>8, WritesAre, WriteIsPut, BeforeReads DEF Before!SetAuthorityWrites
    <3> QED
      BY <3>1, OneWritten, Packed
  <2>4. Bank!SetCloseAuthority(Signatures, K(1), new)
    BY <1>5, <2>1, <2>2, <2>3, BankReads DEF Bank!SetCloseAuthority
  <2> QED
    BY <1>2, <1>3, <1>5, <1>8, <2>1, <2>2, <2>4
<1>9. CASE type = "MintTokens"
  <2>1. IsMint(d) /\ d.mint_authority # None
    BY <1>1, <1>9
  <2>2. Before!OwnedAuthority = d.mint_authority
    BY <1>9, BeforeReads DEF Before!OwnedAuthority
  <2>3. Bank!Pack([data EXCEPT ![K(1)] = [d EXCEPT !.mint_authority = new]])
    <3>1. Before!Writes = <<Put(1, [d EXCEPT !.mint_authority = new])>>
      BY <1>9, WritesAre, WriteIsPut, BeforeReads DEF Before!SetAuthorityWrites
    <3> QED
      BY <3>1, OneWritten, Packed
  <2>4. Bank!SetMintAuthority(Signatures, K(1), new)
    BY <1>5, <2>1, <2>2, <2>3, BankReads DEF Bank!SetMintAuthority
  <2> QED
    BY <1>2, <1>3, <1>5, <1>9, <2>1, <2>2, <2>4
<1>10. CASE type = "FreezeAccount"
  <2>1. IsMint(d) /\ d.freeze_authority # None
    BY <1>1, <1>10
  <2>2. Before!OwnedAuthority = d.freeze_authority
    BY <1>10, BeforeReads DEF Before!OwnedAuthority
  <2>3. Bank!Pack([data EXCEPT ![K(1)] = [d EXCEPT !.freeze_authority = new]])
    <3>1. Before!Writes = <<Put(1, [d EXCEPT !.freeze_authority = new])>>
      BY <1>10, WritesAre, WriteIsPut, BeforeReads DEF Before!SetAuthorityWrites
    <3> QED
      BY <3>1, OneWritten, Packed
  <2>4. Bank!SetFreezeAuthority(Signatures, K(1), new)
    BY <1>5, <2>1, <2>2, <2>3, BankReads DEF Bank!SetFreezeAuthority, Bank!FreezeSetter
  <2> QED
    BY <1>2, <1>3, <1>5, <1>10, <2>1, <2>2, <2>4
<1> QED
  BY <1>1, <1>7, <1>8, <1>9, <1>10

LEMMA CommitMintTo ==
    ASSUME Committing, Op.tag \in {"MintTo", "MintToChecked"}
    PROVE  /\ K(1) \in Key /\ K(2) \in Key /\ IsMint(data[K(1)]) /\ IsAccount(data[K(2)])
           /\ K(3) = data[K(1)].mint_authority
           /\ Op.amount \in Amount
           /\ Bank!MintTo(Signatures, K(1), K(2), Op.amount, ExpectedOperand)
<1> DEFINE m == data[K(1)]
           b == data[K(2)]
<1>1. /\ 3 <= Len(call.accounts)
      /\ IsAccount(b) /\ ~IsFrozen(b) /\ ~IsNative(b)
      /\ K(1) = b.mint /\ IsMint(m)
      /\ HasDecimals => Op.decimals = m.decimals
      /\ m.mint_authority # None
  BY MintToVetted DEF Committing
<1>2. K(1) \in Key /\ K(2) \in Key
  <2>1. Places(Op.tag, 1) = Key /\ Places(Op.tag, 2) = Key
    BY DEF Places
  <2>2. 1 <= Len(call.accounts) /\ 2 <= Len(call.accounts)
    BY <1>1 DEF Committing, CallGiven, IsInstruction
  <2> QED
    BY <2>1, <2>2, PlacedKey
<1>3. Op.amount \in Amount
  BY DEF Committing, CallGiven, IsInstruction, AreOperands, Op
<1>4. K(3) = m.mint_authority /\ Bank!ValidateOwner(m.mint_authority, Signatures)
  <2>1. Before!ExpectedOwner = m.mint_authority /\ AuthorityAt = 3
    BY BeforeReads DEF Before!ExpectedOwner, AuthorityAt
  <2> QED
    BY <1>1, <2>1, Consent
<1>5. Bank!DecimalsMatch(K(1), ExpectedOperand)
  BY <1>1, BankReads DEF Bank!DecimalsMatch, ExpectedOperand
<1>6. /\ Op.amount = 0 => owner[K(1)] = TokenProgram /\ owner[K(2)] = TokenProgram
      /\ b.amount + Op.amount <= U64Max
      /\ m.supply + Op.amount <= U64Max
  <2>1. Before!MintToAfterwards = Ok
    BY BeforeReads DEF Committing, Before!ChecksAfterwards
  <2>2. /\ Op.amount = 0 => Before!OwnersAreToken(1, 2) = Ok
        /\ b.amount + Op.amount <= U64Max /\ m.supply + Op.amount <= U64Max
    BY <2>1, GoesOn, GoesOnBefore, BeforeReads
       DEF Before!MintToAfterwards, Before!Ensure, Ok
  <2> QED
    BY <2>2, GoesOn, GoesOnBefore, CheckMeans DEF Before!OwnersAreToken
<1>7. Bank!Pack([data EXCEPT
         ![K(2)] = [b EXCEPT !.amount = b.amount + Op.amount],
         ![K(1)] = [m EXCEPT !.supply = m.supply + Op.amount]])
  <2>1. Before!Writes = <<Put(2, [b EXCEPT !.amount = b.amount + Op.amount]),
                          Put(1, [m EXCEPT !.supply = m.supply + Op.amount])>>
    BY WritesAre
  <2> QED
    BY <2>1, TwoWritten, Packed
<1>8. Bank!MintTo(Signatures, K(1), K(2), Op.amount, ExpectedOperand)
  BY <1>1, <1>4, <1>5, <1>6, <1>7, BankReads DEF Bank!MintTo, Bank!CheckedAddFits
<1> QED
  BY <1>1, <1>2, <1>3, <1>4, <1>8

\* Nobody in particular has to sign for what is abandoned.
LEMMA CommitBurn ==
    ASSUME Committing, Op.tag \in {"Burn", "BurnChecked"}
    PROVE  /\ K(1) \in Key /\ K(2) \in Key /\ IsAccount(data[K(1)]) /\ IsMint(data[K(2)])
           /\ owner[K(1)] = TokenProgram
           /\ Op.amount \in Amount
           /\ IsOwnedBySystemProgramOrIncinerator(data[K(1)])
                 \/ K(3) \in {data[K(1)].owner, data[K(1)].delegate}
           /\ \A auth : auth = K(3) \/ IsOwnedBySystemProgramOrIncinerator(data[K(1)]) =>
                 Bank!Burn(Signatures, K(1), K(2), auth, Op.amount, ExpectedOperand)
<1> DEFINE src == K(1)
           mint == K(2)
           a == data[src]
           m == data[mint]
           amount == Op.amount
           abandoned == IsOwnedBySystemProgramOrIncinerator(a)
<1>1. /\ 3 <= Len(call.accounts)
      /\ IsAccount(a) /\ IsMint(m) /\ ~IsFrozen(a) /\ ~IsNative(a)
      /\ amount <= a.amount /\ mint = a.mint
      /\ HasDecimals => Op.decimals = m.decimals
  BY BurnVetted DEF Committing
<1>2. src \in Key /\ mint \in Key /\ K(3) \in Key
  <2>1. Places(Op.tag, 1) = Key /\ Places(Op.tag, 2) = Key /\ Places(Op.tag, 3) = Key
    BY DEF Places
  <2>2. 1 <= Len(call.accounts) /\ 2 <= Len(call.accounts)
    BY <1>1 DEF Committing, CallGiven, IsInstruction
  <2> QED
    BY <1>1, <2>1, <2>2, PlacedKey
<1>3. Op.amount \in Amount /\ amount \in U64
  BY InputAssumption DEF Committing, CallGiven, IsInstruction, AreOperands, Op
<1>4. a \in AccountData /\ m \in MintData
  BY <1>1, <1>2, AccountTyped, MintTyped DEF Committing
<1>5. a.amount \in Nat /\ amount \in Nat /\ a.owner # None /\ a.owner \in Key
  BY <1>3, <1>4, KeyAssumption DEF AccountData, U64
<1>6. Before!IsAbandoned = abandoned
  BY BeforeReads
     DEF Before!IsAbandoned, Before!IsOwnedBySystemProgramOrIncinerator,
         IsOwnedBySystemProgramOrIncinerator
<1>7. AuthorityAt = 3
  BY DEF AuthorityAt
<1>8. /\ ~abandoned => Before!WithinAllowance = Ok
      /\ amount = 0 => owner[src] = TokenProgram /\ owner[mint] = TokenProgram
      /\ amount <= m.supply
  <2>1. Before!BurnAfterwards = Ok
    BY BeforeReads DEF Committing, Before!ChecksAfterwards
  <2>2. /\ ~abandoned => Before!WithinAllowance = Ok
        /\ amount = 0 => Before!OwnersAreToken(1, 2) = Ok
        /\ amount <= m.supply
    BY <1>6, <2>1, GoesOn, GoesOnBefore, BeforeReads
       DEF Before!BurnAfterwards, Before!Ensure, Ok
  <2> QED
    BY <2>2, GoesOn, GoesOnBefore, CheckMeans DEF Before!OwnersAreToken
<1>9. ~abandoned => /\ Bank!MaySpend(a, K(3), amount, Signatures)
                    /\ K(3) \in {a.owner, a.delegate}
  <2> SUFFICES ASSUME ~abandoned
               PROVE  /\ Bank!MaySpend(a, K(3), amount, Signatures)
                      /\ K(3) \in {a.owner, a.delegate}
    OBVIOUS
  <2>1. Before!ExpectedOwner = IF a.delegate = K(3) THEN a.delegate ELSE a.owner
    BY <1>6, <1>7, BeforeReads
       DEF Before!ExpectedOwner, Before!SpenderOf, Before!SpendsAllowance
  <2>2. Before!ExpectedOwner = K(3) /\ Bank!ValidateOwner(K(3), Signatures)
    BY <1>2, <1>5, <1>7, <2>1, Consent, KeyAssumption
  <2>3. a.delegate = K(3) => amount <= a.delegated_amount
    BY <1>7, <1>8, BeforeReads
       DEF Before!WithinAllowance, Before!SpendsAllowance, Before!Ensure, Ok
  <2> QED
    BY <2>1, <2>2, <2>3 DEF Bank!MaySpend
<1>10. Bank!DecimalsMatch(mint, ExpectedOperand)
  BY <1>1, BankReads DEF Bank!DecimalsMatch, ExpectedOperand
<1> DEFINE burnt == [(IF abandoned THEN a ELSE Bank!ReduceAllowance(a, K(3), amount))
                        EXCEPT !.amount = a.amount - amount]
           reduced == [m EXCEPT !.supply = m.supply - amount]
<1>11. Before!Writes = <<Put(1, burnt), Put(2, reduced)>>
  <2>1. Before!Spent(a) = [Bank!ReduceAllowance(a, K(3), amount)
                              EXCEPT !.amount = a.amount - amount]
    BY <1>4, <1>7, SpentIs
  <2>2. CASE abandoned
    BY <1>6, <2>2, WritesAre, BurnWritesAre
  <2>3. CASE ~abandoned
    BY <1>6, <2>1, <2>3, WritesAre, BurnWritesAre
  <2> QED
    BY <2>2, <2>3
<1>12. /\ data' = [data EXCEPT ![src] = burnt, ![mint] = reduced]
       /\ UNCHANGED <<lamports, owner>>
       /\ Bank!Pack([data EXCEPT ![src] = burnt, ![mint] = reduced])
  <2> HIDE DEF burnt, reduced
  <2> QED
    BY <1>11, TwoWritten, Packed
<1>13. owner[src] = TokenProgram
  <2>1. CASE amount = 0
    BY <1>8, <2>1
  <2>2. CASE amount # 0
    <3>1. burnt.amount = a.amount - amount
      BY <1>4 DEF Bank!ReduceAllowance, AccountData
    <3>2. src # mint
      BY <1>1 DEF IsAccount, IsMint
    <3>3. data \in [Key -> Data]
      BY FactsTyped DEF Committing
    <3>4. data'[src] = burnt
      <4> HIDE DEF burnt, reduced
      <4> QED
        BY <1>2, <1>12, <3>2, <3>3
    <3>5. data'[src].amount # data[src].amount
      <4> HIDE DEF burnt
      <4> QED
        BY <1>5, <2>2, <3>1, <3>4
    <3> QED
      BY <1>2, <3>5 DEF Committing, Verified
  <2> QED
    BY <2>1, <2>2
<1>14. ASSUME NEW auth, auth = K(3) \/ abandoned
       PROVE  Bank!Burn(Signatures, src, mint, auth, amount, ExpectedOperand)
  <2>1. Bank!Pack([data EXCEPT
           ![src] = [(IF abandoned THEN a ELSE Bank!ReduceAllowance(a, auth, amount))
                        EXCEPT !.amount = a.amount - amount],
           ![mint] = reduced])
    BY <1>12, <1>14
  <2>2. abandoned \/ Bank!MaySpend(a, auth, amount, Signatures)
    BY <1>9, <1>14
  <2> QED
    BY <1>1, <1>8, <1>10, <2>1, <2>2, BankReads DEF Bank!Burn
<1> QED
  BY <1>1, <1>2, <1>3, <1>9, <1>13, <1>14

LEMMA CommitCloseAccount ==
    ASSUME Committing, Op.tag = "CloseAccount"
    PROVE  /\ K(1) \in Key /\ K(2) \in Refund /\ IsAccount(data[K(1)])
           /\ IsOwnedBySystemProgramOrIncinerator(data[K(1)])
                 \/ K(3) = Bank!Closer(data[K(1)])
           /\ Bank!CloseAccount(Signatures, K(1), K(2))
<1> DEFINE src == K(1)
           dst == K(2)
           a == data[src]
           abandoned == IsOwnedBySystemProgramOrIncinerator(a)
           leave == [field |-> "owner", at |-> src, to |-> SystemProgram]
<1>1. /\ 3 <= Len(call.accounts) /\ src # dst /\ IsAccount(a)
      /\ IsNative(a) \/ a.amount = 0
      /\ abandoned => dst = Incinerator
  BY CloseAccountVetted DEF Committing
<1>2. src \in Key /\ dst \in Refund /\ dst \in Key
  <2>1. Len(call.accounts) \in Nat
    BY DEF Committing, CallGiven, IsInstruction
  <2>2. Places(Op.tag, 1) = Key /\ Places(Op.tag, 2) = Refund
    BY DEF Places
  <2>3. 1 \in 1 .. Len(call.accounts) /\ 2 \in 1 .. Len(call.accounts)
    BY <1>1, <2>1
  <2>4. src \in Key /\ dst \in Refund
    BY <2>2, <2>3, Placed DEF Committing, CallGiven
  <2> QED
    BY <2>4, InputAssumption
<1>3. ~abandoned => K(3) = Bank!Closer(a) /\ Bank!ValidateOwner(Bank!Closer(a), Signatures)
  <2> SUFFICES ASSUME ~abandoned
               PROVE  K(3) = Bank!Closer(a) /\ Bank!ValidateOwner(Bank!Closer(a), Signatures)
    OBVIOUS
  <2>1. Before!ExpectedOwner = Bank!Closer(a) /\ AuthorityAt = 3
    BY BeforeReads
       DEF Before!ExpectedOwner, Before!IsAbandoned, Before!CloserOf, Bank!Closer,
           Before!IsOwnedBySystemProgramOrIncinerator,
           IsOwnedBySystemProgramOrIncinerator, AuthorityAt
  <2>2. Bank!Closer(a) # None
    BY <1>1, <1>2, AccountTyped, KeyAssumption DEF Bank!Closer, AccountData, Committing
  <2> QED
    BY <2>1, <2>2, Consent
<1>4. lamports \in [Key -> U64] /\ lamports[src] \in Nat /\ lamports[dst] \in Nat
  BY <1>2, FactsTyped, U64Assumption DEF Committing, U64
<1>5. /\ owner' = [owner EXCEPT ![src] = SystemProgram]
      /\ data' = [data EXCEPT ![src] = EmptyData]
      /\ lamports' = [lamports EXCEPT ![dst] = lamports[dst] + lamports[src], ![src] = 0]
  <2>1. Before!Writes = <<Give(2, lamports[src]), Give(1, -lamports[src]), leave,
                          Put(1, EmptyData)>>
    BY WritesAre, CloseAccountWritesAre
  <2>2. /\ Len(Before!Writes) = 4
        /\ Before!Writes[1] = Give(2, lamports[src])
        /\ Before!Writes[2] = Give(1, -lamports[src])
        /\ Before!Writes[3] = leave
        /\ Before!Writes[4] = Put(1, EmptyData)
    BY <2>1
  <2>3. cells = Done(Done(Done(Done(Committed, Give(2, lamports[src])),
                               Give(1, -lamports[src])), leave), Put(1, EmptyData))
    BY <2>2 DEF Committing, After
  <2>4. /\ cells.owner = [owner EXCEPT ![src] = SystemProgram]
        /\ cells.data = [data EXCEPT ![src] = EmptyData]
        /\ cells.lamports = [[lamports EXCEPT ![dst] = @ + lamports[src]]
                                EXCEPT ![src] = @ + (-lamports[src])]
    BY <2>3, Zenon DEF Done, Put, Give, Committed
  <2>5. [[lamports EXCEPT ![dst] = @ + lamports[src]] EXCEPT ![src] = @ + (-lamports[src])]
          = [lamports EXCEPT ![dst] = lamports[dst] + lamports[src], ![src] = 0]
    <3>1. lamports[src] + (-lamports[src]) = 0
      BY <1>4
    <3>2. [lamports EXCEPT ![dst] = @ + lamports[src]][src] = lamports[src]
      BY <1>1, <1>2, <1>4
    <3> QED
      BY <3>1, <3>2
  <2> QED
    BY <2>4, <2>5 DEF Committing
<1>6. Bank!RuntimeAccepts(TokenProgram)
  <2>1. \A k \in Key : lamports'[k] \in Int
    BY <1>2, <1>4, <1>5, U64Assumption DEF U64
  <2>2. \A k \in Key : owner'[k] # owner[k] => data'[k] \in Bank!Zeroed
    BY <1>5, FactsTyped DEF Committing, Bank!Zeroed, Bank!EmptyData, EmptyData
  <2> QED
    BY <2>1, <2>2, RuntimeVerified
<1>7. Bank!CheckedAddFits(lamports[dst], lamports[src])
  BY <1>1, <1>2, FactsLamports DEF Committing, Bank!CheckedAddFits
<1>8. Bank!CloseAccount(Signatures, src, dst)
  BY <1>1, <1>3, <1>5, <1>6, <1>7, BankReads
     DEF Bank!CloseAccount, Bank!IsClosableInto, Bank!IsClosable,
         Bank!MayReceiveAbandoned, Bank!DeleteAccount, Bank!EmptyData, EmptyData
<1> QED
  BY <1>1, <1>2, <1>3, <1>8

LEMMA CommitToggleFreezeAccount ==
    ASSUME Committing, Op.tag \in {"FreezeAccount", "ThawAccount"}
    PROVE  /\ K(1) \in Key /\ K(2) \in Key /\ IsAccount(data[K(1)]) /\ IsMint(data[K(2)])
           /\ K(3) = data[K(2)].freeze_authority
           /\ Bank!ToggleFreezeAccount(Signatures, K(1), K(2), Op.tag = "FreezeAccount")
<1>1. /\ 3 <= Len(call.accounts)
      /\ IsAccount(data[K(1)]) /\ ~IsNative(data[K(1)])
      /\ (Op.tag = "FreezeAccount") # IsFrozen(data[K(1)])
      /\ K(2) = data[K(1)].mint /\ IsMint(data[K(2)])
      /\ data[K(2)].freeze_authority # None
  BY ToggleFreezeAccountVetted DEF Committing
<1>2. K(1) \in Key /\ K(2) \in Key
  <2>1. Places(Op.tag, 1) = Key /\ Places(Op.tag, 2) = Key
    BY DEF Places
  <2>2. 1 <= Len(call.accounts) /\ 2 <= Len(call.accounts)
    BY <1>1 DEF Committing, CallGiven, IsInstruction
  <2> QED
    BY <2>1, <2>2, PlacedKey
<1>3. /\ K(3) = data[K(2)].freeze_authority
      /\ Bank!ValidateOwner(data[K(2)].freeze_authority, Signatures)
  <2>1. Before!ExpectedOwner = data[K(2)].freeze_authority /\ AuthorityAt = 3
    BY BeforeReads DEF Before!ExpectedOwner, AuthorityAt
  <2> QED
    BY <1>1, <2>1, Consent
<1>4. Bank!Pack([data EXCEPT ![K(1)] =
         [data[K(1)] EXCEPT !.state = IF Op.tag = "FreezeAccount"
                                      THEN "Frozen" ELSE "Initialized"]])
  BY WritesAre, OneWritten, Packed
<1> QED
  BY <1>1, <1>2, <1>3, <1>4, BankReads DEF Bank!ToggleFreezeAccount

-----------------------------------------------------------------------------
(* Every step is one of Token.                                             *)

LEMMA SignaturesAreSigners == Signatures \subseteq Signer
BY DEF Signatures, SignersOf

LEMMA CommitIsStep ==
    ASSUME Committing
    PROVE  [Bank!Next]_(Bank!vars)
<1> DEFINE S == Signatures
<1>1. S \in SUBSET Signer
  BY SignaturesAreSigners
<1>2. AreOperands(Op) /\ Len(call.accounts) \in Nat /\ IsInstruction(call)
  BY DEF Committing, CallGiven, IsInstruction, Op
<1>3. ExpectedOperand \in Bank!Expected
  BY <1>2 DEF ExpectedOperand, HasDecimals, AreOperands, Bank!Expected
<1>4. /\ \A k : k \in Key /\ IsAccount(data[k]) => k \in Bank!TokenAccounts
      /\ \A k : k \in Key /\ IsMint(data[k]) => k \in Bank!MintAccounts
      /\ NativeMint \in Bank!MintAccounts
  BY FactsRoles, KeyAssumption
     DEF Bank!TokenAccounts, Bank!MintAccounts, IsAccount, IsMint, Committing
<1>5. CASE Op.tag \in {"InitializeMint", "InitializeMint2"}
  <2>1. K(1) \in Bank!MintAccounts
    BY <1>5, CommitInitializeMint DEF Bank!InitializeMint, Bank!MintAccounts
  <2>2. /\ Op.decimals \in Decimals /\ Op.mint_authority \in MintAuthorities
        /\ Op.freeze_authority \in FreezeAuthorities \cup {None}
    BY <1>2, <1>5 DEF AreOperands
  <2> QED
    BY <1>5, <2>1, <2>2, CommitInitializeMint DEF Bank!Next, Bank!Permissionless
<1>6. CASE Op.tag \in {"InitializeAccount", "InitializeAccount2", "InitializeAccount3"}
  <2> DEFINE newOwner == IF Op.tag = "InitializeAccount" THEN K(3) ELSE Op.owner
  <2>1. K(1) \in Key /\ K(2) \in Key /\ Bank!InitializeAccount(K(1), K(2), newOwner)
    BY <1>6, CommitInitializeAccount
  <2>2. K(1) \in Bank!TokenAccounts
    BY <2>1 DEF Bank!InitializeAccount, Bank!TokenAccounts
  <2>3. K(2) \in Bank!MintAccounts
    BY <1>4, <2>1, BankReads DEF Bank!InitializeAccount, Bank!IsValidMint
  <2>4. newOwner \in Owners
    <3>1. CASE Op.tag = "InitializeAccount"
      <4>1. 3 \in 1 .. Len(call.accounts)
        BY <1>2, <3>1, InitializeAccountVetted DEF Committing
      <4>2. Places(Op.tag, 3) = Owners
        BY <3>1 DEF Places
      <4> QED
        BY <1>2, <3>1, <4>1, <4>2, Placed
    <3>2. CASE Op.tag # "InitializeAccount"
      BY <1>2, <1>6, <3>2 DEF AreOperands
    <3> QED
      BY <3>1, <3>2
  <2> HIDE DEF newOwner
  <2> QED
    BY <2>1, <2>2, <2>3, <2>4 DEF Bank!Next, Bank!Permissionless
<1>7. CASE Op.tag \in {"InitializeMultisig", "InitializeMultisig2"}
  <2> DEFINE signers == [p \in DOMAIN SignerInfos |-> SignerInfos[p].pubkey]
  <2>1. /\ K(1) \in Key /\ signers \in Bank!SignerLists
        /\ Bank!InitializeMultisig(K(1), Op.m, signers)
    BY <1>7, CommitInitializeMultisig
  <2> HIDE DEF signers
  <2>2. K(1) \in Bank!MultisigAccounts
    BY <2>1 DEF Bank!InitializeMultisig, Bank!MultisigAccounts
  <2>3. Op.m \in 0 .. MaxSigners + 1
    BY <1>2, <1>7 DEF AreOperands
  <2> QED
    BY <2>1, <2>2, <2>3 DEF Bank!Next, Bank!Permissionless
<1>8. CASE Op.tag = "SyncNative"
  <2>1. K(1) \in Key /\ Bank!SyncNative(K(1))
    BY <1>8, CommitSyncNative
  <2>2. K(1) \in Bank!TokenAccounts
    BY <2>1 DEF Bank!SyncNative, Bank!TokenAccounts, Bank!IsAccount
  <2> QED
    BY <2>1, <2>2 DEF Bank!Next, Bank!Permissionless
<1>9. CASE Op.tag \in {"Transfer", "TransferChecked"}
  <2>1. /\ K(1) \in Key /\ K(2 + Shift) \in Key /\ owner[K(1)] = TokenProgram
        /\ Bank!Transfer(S, K(1), K(2 + Shift), K(3 + Shift), Op.amount, ExpectedOperand)
    BY <1>9, CommitTransfer
  <2>2. /\ IsAccount(data[K(1)]) /\ IsAccount(data[K(2 + Shift)])
        /\ Bank!MaySpend(data[K(1)], K(3 + Shift), Op.amount, S)
    BY <2>1, BankReads DEF Bank!Transfer
  <2>3. K(3 + Shift) \in Owners \cup Delegates
    <3>1. K(3 + Shift) \in {data[K(1)].owner, data[K(1)].delegate}
      BY <2>2 DEF Bank!MaySpend
    <3>2. data[K(1)].owner \in Owners /\ data[K(1)].delegate \in Delegates \cup {None}
      BY <2>1, <2>2, FactsRoles DEF Committing
    <3>3. K(3 + Shift) # None
      <4>1. 3 + Shift <= Len(call.accounts) /\ 3 + Shift \in Nat \ {0}
        BY <1>9, TransferVetted DEF Committing, Shift
      <4>2. Places(Op.tag, 3 + Shift) = Key
        BY <1>9 DEF Places, Shift
      <4> QED
        BY <4>1, <4>2, PlacedKey, KeyAssumption
    <3> QED
      BY <3>1, <3>2, <3>3
  <2>4. Op.amount \in Amount
    BY <1>2, <1>9 DEF AreOperands
  <2>5. Bank!SignedBy(S)
    BY <1>3, <1>4, <2>1, <2>2, <2>3, <2>4 DEF Bank!SignedBy
  <2> QED
    BY <1>1, <2>5 DEF Bank!Next
<1>10. CASE Op.tag \in {"Approve", "ApproveChecked"}
  <2>1. /\ K(1) \in Key /\ IsAccount(data[K(1)])
        /\ 2 + Shift \in 1 .. Len(call.accounts)
        /\ Bank!Approve(S, K(1), K(2 + Shift), Op.amount, ExpectedOperand)
    BY <1>10, CommitApprove
  <2>2. K(2 + Shift) \in Delegates
    <3>1. Places(Op.tag, 2 + Shift) = Delegates
      BY <1>10 DEF Places, Shift
    <3> QED
      BY <1>2, <2>1, <3>1, Placed
  <2>3. Op.amount \in Allowance
    BY <1>2, <1>10 DEF AreOperands
  <2>4. Bank!SignedBy(S)
    BY <1>3, <1>4, <2>1, <2>2, <2>3 DEF Bank!SignedBy
  <2> QED
    BY <1>1, <2>4 DEF Bank!Next
<1>11. CASE Op.tag = "Revoke"
  <2>1. Bank!SignedBy(S)
    BY <1>4, <1>11, CommitRevoke DEF Bank!SignedBy
  <2> QED
    BY <1>1, <2>1 DEF Bank!Next
<1>12. CASE Op.tag = "SetAuthority"
  <2>1. Bank!SetAuthority(S)
    BY <1>4, <1>12, CommitSetAuthority DEF Bank!SetAuthority
  <2>2. Bank!SignedBy(S)
    BY <2>1 DEF Bank!SignedBy
  <2> QED
    BY <1>1, <2>2 DEF Bank!Next
<1>13. CASE Op.tag \in {"MintTo", "MintToChecked"}
  <2>1. Bank!SignedBy(S)
    BY <1>3, <1>4, <1>13, CommitMintTo DEF Bank!SignedBy
  <2> QED
    BY <1>1, <2>1 DEF Bank!Next
<1>14. CASE Op.tag \in {"Burn", "BurnChecked"}
  <2> DEFINE a == data[K(1)]
             auth == IF IsOwnedBySystemProgramOrIncinerator(a) THEN a.owner ELSE K(3)
  <2>1. /\ K(1) \in Key /\ K(2) \in Key /\ IsAccount(a) /\ IsMint(data[K(2)])
        /\ owner[K(1)] = TokenProgram
        /\ Op.amount \in Amount
        /\ auth \in {a.owner, a.delegate}
        /\ Bank!Burn(S, K(1), K(2), auth, Op.amount, ExpectedOperand)
    BY <1>14, CommitBurn
  <2>2. auth \in Owners \cup Delegates
    <3>1. a.owner \in Owners /\ a.delegate \in Delegates \cup {None}
      BY <2>1, FactsRoles DEF Committing
    <3>2. a.owner # None
      BY <2>1, AccountTyped, KeyAssumption DEF AccountData, Committing
    <3>3. K(3) # None
      <4>1. 3 <= Len(call.accounts) /\ Places(Op.tag, 3) = Key
        BY <1>14, BurnVetted DEF Committing, Places
      <4> QED
        BY <4>1, PlacedKey, KeyAssumption
    <3> QED
      BY <2>1, <3>1, <3>2, <3>3
  <2> HIDE DEF auth
  <2>3. Bank!SignedBy(S)
    BY <1>3, <1>4, <2>1, <2>2 DEF Bank!SignedBy
  <2> QED
    BY <1>1, <2>3 DEF Bank!Next
<1>15. CASE Op.tag = "CloseAccount"
  <2>1. Bank!SignedBy(S)
    BY <1>4, <1>15, CommitCloseAccount DEF Bank!SignedBy
  <2> QED
    BY <1>1, <2>1 DEF Bank!Next
<1>16. CASE Op.tag \in {"FreezeAccount", "ThawAccount"}
  <2>1. Bank!SignedBy(S)
    BY <1>4, <1>16, CommitToggleFreezeAccount DEF Bank!SignedBy
  <2> QED
    BY <1>1, <2>1 DEF Bank!Next
<1>17. CASE Op.tag \notin {"InitializeMint", "InitializeMint2", "InitializeAccount",
                          "InitializeAccount2", "InitializeAccount3", "InitializeMultisig",
                          "InitializeMultisig2", "Transfer", "TransferChecked", "Approve",
                          "ApproveChecked", "Revoke", "SetAuthority", "MintTo",
                          "MintToChecked", "Burn", "BurnChecked", "CloseAccount",
                          "FreezeAccount", "ThawAccount", "SyncNative"}
  <2>1. Before!Writes = <<>>
    BY <1>17, WritesAre
  <2> QED
    BY <2>1, NothingWritten DEF Bank!vars
<1> QED
  BY <1>5, <1>6, <1>7, <1>8, <1>9, <1>10, <1>11, <1>12, <1>13, <1>14, <1>15, <1>16, <1>17

LEMMA PrepareIsStep ==
    ASSUME client \in Clients, Prepare
    PROVE  Bank!Next
<1>1. /\ client.gifts \subseteq Key /\ client.forged \subseteq ForeignKey
      /\ client.deposits \subseteq FundAmount
      /\ client.mints \cup client.accounts \cup client.multisigs \cup client.forged
            \subseteq Key
  BY ClientsAssumption, ClientAssumption
<1>2. /\ \A from, to, n : SystemTransfer(from, to, n) => Bank!SystemTransfer(from, to, n)
      /\ \A from, k, zero, program, n :
            CreateAccount(from, k, zero, program, n)
               => Bank!CreateAccount(from, k, zero, program, n)
      /\ \A k, d : OtherProgramWrites(k, d) => Bank!OtherProgramWrites(k, d)
  BY DEF SystemTransfer, Bank!SystemTransfer, CreateAccount, Bank!CreateAccount,
         OtherProgramWrites, Bank!OtherProgramWrites, IsWallet, Bank!IsWallet,
         Pay, Bank!Pay, EmptyData, Bank!EmptyData
<1>3. (\A k : Layouts(k) = Bank!Layouts(k)) /\ EmptyData = Bank!EmptyData
  BY DEF Layouts, Bank!Layouts, ZeroMint, Bank!ZeroMint, ZeroAccount, Bank!ZeroAccount,
         ZeroMultisig, Bank!ZeroMultisig, EmptyData, Bank!EmptyData
<1>4. Bank!Environment
  <2>1. CASE \E from \in Signer, k \in client.gifts, n \in GiftAmount :
                SystemTransfer(from, k, n)
    BY <1>1, <1>2, <2>1 DEF Bank!Environment
  <2>2. CASE \E from \in Signer, n \in client.deposits :
                \E k \in client.mints \cup client.accounts \cup client.multisigs :
                   \E zero \in Layouts(k) :
                      /\ n + client.savings <= lamports[from]
                      /\ CreateAccount(from, k, zero, TokenProgram, n)
    BY <1>1, <1>2, <1>3, <2>2 DEF Bank!Environment
  <2>3. CASE \E k \in client.forged : \E from \in Signer, n \in client.deposits :
                CreateAccount(from, k, EmptyData, OtherProgram, n)
    BY <1>1, <1>2, <1>3, <2>3 DEF Bank!Environment
  <2>4. CASE \E k \in client.forged : \E d \in ForeignData : OtherProgramWrites(k, d)
    BY <1>1, <1>2, <2>4 DEF Bank!Environment
  <2> QED
    BY <2>1, <2>2, <2>3, <2>4 DEF Prepare
<1> QED
  BY <1>4 DEF Bank!Next

-----------------------------------------------------------------------------
(* The requests of clients.                                                *)

\* The runtime loads what the client sent.
LEMMA SubmitStage ==
    ASSUME StageInv, NEW c, NEW signatures, Submit(c, signatures), UNCHANGED client,
           CallGiven', signatures \subseteq Signatures'
    PROVE  StageInv'
<1>1. /\ pc' \in {"check", "exit"} /\ effects' = <<>>
      /\ pc' = "exit" => result' # Ok
      /\ cells' = Committed'
      /\ pc' = "check" => result' = Ok
  BY DEF Submit, StageInv, Committed, Ok
<1>2. result' = Ok => Signed'
  BY DEF Submit, Signed, Ok
<1> QED
  BY <1>1, <1>2 DEF StageInv

LEMMA SubmitBuiltStage ==
    ASSUME client \in Clients, StageInv, NEW i \in Intents[client], SubmitBuilt(i),
           UNCHANGED client
    PROVE  StageInv'
<1>1. call' = Build(i) /\ intent' = i /\ IsBuilt(Build(i)) /\ Submit(Build(i), SignersOf(i))
  BY DEF SubmitBuilt, Submit
<1>2. IsInstruction(call')
  BY <1>1, IntentsAreTyped, BuiltIsInstruction
<1>3. CallGiven'
  BY <1>1, <1>2 DEF CallGiven
<1>4. CASE i # None
  <2>1. Signatures' = SignersOf(i)
    BY <1>1, <1>4 DEF Signatures
  <2> QED
    BY <1>1, <1>3, <2>1, SubmitStage
<1>5. CASE i = None
  <2>1. Signatures' = Signer /\ SignersOf(i) \subseteq Signer
    BY <1>1, <1>5 DEF Signatures, SignersOf
  <2> QED
    BY <1>1, <1>3, <2>1, SubmitStage
<1> QED
  BY <1>4, <1>5

LEMMA SubmitHandmadeStage ==
    ASSUME client \in Clients, StageInv, client.by_hand, NEW c \in HandmadeRequests[client],
           SubmitHandmade(c), UNCHANGED client
    PROVE  StageInv'
<1>1. /\ call' = c /\ intent' = intent /\ pc = "idle" /\ intent = None
      /\ Submit(c, Signer)
  BY DEF SubmitHandmade, Submit, StageInv
<1>2. IsInstruction(call')
  BY <1>1, HandmadeIsInstruction
<1>3. CallGiven'
  BY <1>1, <1>2 DEF CallGiven
<1>4. Signatures' = Signer
  BY <1>1 DEF Signatures
<1> QED
  BY <1>1, <1>3, <1>4, SubmitStage

-----------------------------------------------------------------------------
(* The invariant.                                                          *)

InvocationInv == client \in Clients /\ Facts!ChainInv /\ StageInv

LEMMA FactsStart ==
    ASSUME Bank!Init
    PROVE  Facts!ChainInv
<1>1. Facts!Init
  BY DEF Bank!Init, Facts!Init, Bank!ZeroMint, Facts!ZeroMint, Bank!EmptyData, Facts!EmptyData
<1> QED
  BY <1>1, FactsConstants, Facts!InitChain

LEMMA InitInvocation ==
    ASSUME Init
    PROVE  InvocationInv
<1>1. Facts!ChainInv
  BY FactsStart DEF Init
<1>2. StageInv
  BY DEF Init, StageInv
<1> QED
  BY <1>1, <1>2 DEF Init, InvocationInv

\* The stages of a call lead from one to the next, and at the end a step of
\* Token is made.
LEMMA ProgressKept ==
    ASSUME InvocationInv, Progress, UNCHANGED client
    PROVE  StageInv' /\ [Bank!Next]_(Bank!vars)
<1> USE DEF InvocationInv
<1>1. ASSUME pc = "signers" PROVE K(AuthorityAt) \in Key
  <2>1. Before!ExpectedOwner = K(AuthorityAt) /\ K(AuthorityAt) # None
    BY <1>1 DEF StageInv, Counting
  <2>2. Vetted /\ IsInstruction(call)
    BY <1>1 DEF StageInv, CallGiven, Ok
  <2> QED
    BY <2>1, <2>2, AuthorityPlaced
<1>2. CASE Check
  BY <1>2, CheckStage DEF Check, Fail, Goto, Bank!vars
<1>3. CASE Authorise
  BY <1>3, AuthoriseStage DEF Authorise, Fail, Goto, Bank!vars
<1>4. CASE MatchSigner
  <2>1. pc = "signers"
    BY <1>4 DEF MatchSigner
  <2>2. StageInv'
    BY <1>1, <1>4, <2>1, MatchSignerStage
  <2> QED
    BY <1>4, <2>2 DEF MatchSigner, Fail, Goto, Bank!vars
<1>5. CASE CountSigners
  <2>1. pc = "signers"
    BY <1>5 DEF CountSigners
  <2>2. StageInv'
    BY <1>1, <1>5, <2>1, CountSignersStage
  <2> QED
    BY <1>5, <2>2 DEF CountSigners, Fail, Goto, Bank!vars
<1>6. CASE Apply
  BY <1>6, ApplyStage DEF Apply, Fail, Bank!vars
<1>7. CASE DoWrite
  BY <1>7, DoWriteStage DEF DoWrite, Fail, Bank!vars
<1>8. CASE Return
  BY <1>8, ReturnStage DEF Return, Bank!vars
<1>9. CASE Commit
  <2>1. StageInv'
    BY <1>9, FinishStage DEF Commit
  <2>2. Committing
    BY <1>9, CommitIsComplete
  <2> QED
    BY <2>1, <2>2, CommitIsStep
<1>10. CASE Rollback
  BY <1>10, FinishStage DEF Rollback, Bank!vars
<1> QED
  BY <1>2, <1>3, <1>4, <1>5, <1>6, <1>7, <1>8, <1>9, <1>10 DEF Progress

LEMMA NextKept ==
    ASSUME InvocationInv, [Next]_clientVars
    PROVE  InvocationInv' /\ [Bank!Next]_(Bank!vars)
<1>1. StageInv' /\ [Bank!Next]_(Bank!vars) /\ UNCHANGED client
  <2>1. CASE \E i \in Intents[client] : SubmitBuilt(i) /\ UNCHANGED client
    <3>1. PICK i \in Intents[client] : SubmitBuilt(i) /\ UNCHANGED client
      BY <2>1
    <3>2. StageInv'
      BY <3>1, SubmitBuiltStage DEF InvocationInv
    <3> QED
      BY <3>1, <3>2 DEF SubmitBuilt, Submit, Bank!vars
  <2>2. CASE /\ client.by_hand /\ UNCHANGED client
             /\ \E c \in HandmadeRequests[client] : SubmitHandmade(c)
    <3>1. PICK c \in HandmadeRequests[client] : SubmitHandmade(c)
      BY <2>2
    <3>2. StageInv'
      BY <2>2, <3>1, SubmitHandmadeStage DEF InvocationInv
    <3> QED
      BY <2>2, <3>1, <3>2 DEF SubmitHandmade, Submit, Bank!vars
  <2>3. CASE pc = "idle" /\ Prepare /\ UNCHANGED run /\ UNCHANGED client
    <3>1. Bank!Next
      BY <2>3, PrepareIsStep DEF InvocationInv
    <3>2. StageInv'
      BY <2>3 DEF InvocationInv, StageInv, run, Ok
    <3> QED
      BY <2>3, <3>1, <3>2
  <2>4. CASE Progress /\ UNCHANGED client
    BY <2>4, ProgressKept
  <2>5. CASE UNCHANGED clientVars
    <3>1. UNCHANGED <<lamports, owner, data, client, run>>
      BY <2>5 DEF clientVars, allVars
    <3>2. UNCHANGED <<pc, intent, call, cells, matching, effects, result>>
      BY <3>1 DEF run
    <3>3. StageInv'
      <4>1. /\ CallGiven => CallGiven'
            /\ Signed => Signed'
            /\ Vetted => Vetted'
            /\ Consented => Consented'
            /\ Before!ExpectedOwner' = Before!ExpectedOwner
            /\ Before!ChecksAfterwards' = Before!ChecksAfterwards
            /\ Before!Writes' = Before!Writes
            /\ Committed' = Committed
            /\ Signatures' = Signatures
            /\ K(AuthorityAt)' = K(AuthorityAt) /\ K(1)' = K(1)
        BY <3>1, <3>2, StageLasts
      <4>2. Counting => Counting'
        BY <3>1, <3>2, <4>1 DEF Counting
      <4>3. Writing => Writing'
        BY <3>2, <4>1, WritingLasts
      <4> QED
        BY <3>1, <3>2, <4>1, <4>2, <4>3 DEF InvocationInv, StageInv
    <3> QED
      BY <3>1, <3>3 DEF Bank!vars
  <2> QED
    BY <2>1, <2>2, <2>3, <2>4, <2>5 DEF Next
<1>2. Facts!ChainInv'
  BY <1>1, FactsStep, FactsKept DEF InvocationInv
<1> QED
  BY <1>1, <1>2 DEF InvocationInv

-----------------------------------------------------------------------------
(* The theorems.                                                           *)

\* The invariant holds in every state.
THEOREM InvocationInvariant == Spec => []InvocationInv
<1>1. Init => InvocationInv
  BY InitInvocation
<1>2. InvocationInv /\ [Next]_clientVars => InvocationInv'
  BY NextKept
<1> QED
  BY <1>1, <1>2, PTL DEF Spec

\* However the steps of an invocation fall, the committed accounts change as
\* the instructions of Token do, each at once.
THEOREM TokenInvocationsAreAtomic == Spec => InvocationsAreAtomic
<1>1. Init => Bank!Init
  BY DEF Init
<1>2. InvocationInv /\ [Next]_clientVars => [Bank!Next]_(Bank!vars)
  BY NextKept
<1> QED
  BY <1>1, <1>2, InvocationInvariant, PTL DEF Spec, InvocationsAreAtomic, Bank!Spec

\* A handler that has begun to write does not fail any more.
THEOREM TokenWritesNeverFail == Spec => []WritesNeverFail
<1>1. InvocationInv => WritesNeverFail
  BY DEF InvocationInv, StageInv, WritesNeverFail
<1> QED
  BY <1>1, InvocationInvariant, PTL

-----------------------------------------------------------------------------
(* What was meant is what is done.                                         *)

\* The accounts and the operands of a built call are those of its intent.
LEMMA IntentSubmitted ==
    ASSUME client \in Clients, CallGiven, intent # None \/ ~client.by_hand
    PROVE  /\ IsIntent(intent) /\ intent.tag \in IntentTags
           /\ IsBuilt(Build(intent)) /\ call = Build(intent)
           /\ Carries(Op, intent) /\ Op.tag = intent.tag
           /\ intent # None => Signatures = SignersOf(intent)
           /\ \A n \in 1 .. Len(Leading(intent)) : K(n) = Leading(intent)[n]
<1>1. intent \in Intents[client] /\ IsBuilt(Build(intent)) /\ call = Build(intent)
  BY DEF CallGiven
<1>2. IsIntent(intent) /\ intent.tag \in IntentTags
  BY <1>1, IntentsAreTyped
<1>3. intent # None => Signatures = SignersOf(intent)
  BY DEF Signatures
<1>4. Carries(call.data, intent) /\ \E others : Lists(call.accounts, Leading(intent), others)
  <2>1. CASE intent.tag \in {"InitializeMultisig", "InitializeMultisig2"}
    BY <1>1, <1>2, <2>1, MultisigBuildersList
  <2>2. CASE intent.tag \notin {"InitializeMultisig", "InitializeMultisig2"}
    BY <1>1, <1>2, <2>2, BuildersList DEF IsOf
  <2> QED
    BY <2>1, <2>2
<1>5. Len(Leading(intent)) \in Nat
  BY <1>2, LeadingPlaced
<1>6. \A n \in 1 .. Len(Leading(intent)) : K(n) = Leading(intent)[n]
  <2>1. PICK others : Lists(call.accounts, Leading(intent), others)
    BY <1>4
  <2>2. Len(call.accounts) \in Nat
    BY <2>1 DEF Lists
  <2> QED
    BY <1>5, <2>1, <2>2 DEF Lists, K
<1> QED
  BY <1>1, <1>2, <1>3, <1>4, <1>6 DEF Carries, Op

\* The signers of a built multisig are those of the intent.
LEMMA IntentSigners ==
    ASSUME client \in Clients, CallGiven, intent # None \/ ~client.by_hand,
           intent.tag \in {"InitializeMultisig", "InitializeMultisig2"}
    PROVE  /\ [p \in DOMAIN SignerInfos |-> SignerInfos[p].pubkey] = intent.signers
           /\ IsQuorum(intent.m, intent.signers)
<1> DEFINE h == Len(Leading(intent))
<1>1. /\ IsIntent(intent) /\ IsBuilt(Build(intent)) /\ call = Build(intent)
      /\ Op.tag = intent.tag
  BY IntentSubmitted
<1>2. /\ call.accounts \in Seq(AccountMeta)
      /\ Len(call.accounts) = h + Len(intent.signers)
      /\ \A n \in 1 .. Len(intent.signers) :
            call.accounts[h + n].pubkey = intent.signers[n]
      /\ IsQuorum(intent.m, intent.signers)
  BY <1>1, MultisigBuildersList DEF Lists
<1>3. h = FirstSigner - 1 /\ FirstSigner \in {2, 3}
  BY <1>1 DEF Leading, FirstSigner
<1>4. intent.signers \in Seq(Signer)
  BY <1>1 DEF IsIntent
<1>5. /\ Len(intent.signers) \in Nat /\ DOMAIN intent.signers = 1 .. Len(intent.signers)
      /\ intent.signers \in [1 .. Len(intent.signers) -> Signer]
  BY <1>4, LenProperties
<1> HIDE DEF h
<1>6. /\ Len(SignerInfos) = Len(intent.signers)
      /\ DOMAIN SignerInfos = 1 .. Len(SignerInfos)
      /\ \A p \in 1 .. Len(SignerInfos) :
            SignerInfos[p] = call.accounts[FirstSigner + p - 1]
  BY <1>2, <1>3, <1>5, SignerInfosAre
<1>7. \A p \in DOMAIN SignerInfos : SignerInfos[p].pubkey = intent.signers[p]
  <2> SUFFICES ASSUME NEW p \in 1 .. Len(intent.signers)
               PROVE  SignerInfos[p].pubkey = intent.signers[p]
    BY <1>6
  <2>1. FirstSigner + p - 1 = h + p
    BY <1>3, <1>5
  <2> QED
    BY <1>2, <1>6, <2>1
<1>8. ASSUME NEW n \in Nat, NEW s \in [1 .. n -> Signer]
      PROVE  s = [p \in 1 .. n |-> s[p]]
  OBVIOUS
<1>9. intent.signers = [p \in 1 .. Len(intent.signers) |-> intent.signers[p]]
  BY <1>5, <1>8
<1> QED
  BY <1>2, <1>5, <1>6, <1>7, <1>9

\* A committed call has done what its intent says.
LEMMA IntentCarriedOut ==
    ASSUME client \in Clients, Committing, intent # None
    PROVE  TokenAction(intent)
<1> DEFINE i == intent
           S == SignersOf(i)
<1>1. /\ IsIntent(i) /\ Op.tag = i.tag /\ Carries(Op, i)
      /\ Signatures = S
      /\ \A n \in 1 .. Len(Leading(i)) : K(n) = Leading(i)[n]
  BY IntentSubmitted DEF Committing
<1> HIDE DEF i, S
<1>2. ASSUME i.tag \in {"Transfer", "TransferChecked", "Approve", "ApproveChecked",
                        "MintTo", "MintToChecked", "Burn", "BurnChecked"}
      PROVE  Op.amount = i.amount /\ ExpectedOperand = Expected(i)
  BY <1>1, <1>2 DEF IsIntent, Carries, ExpectedOperand, HasDecimals, Expected
<1>3. CASE i.tag \in {"InitializeMint", "InitializeMint2"}
  <2>1. /\ K(1) = i.mint /\ Op.decimals = i.decimals
        /\ Op.mint_authority = i.mint_authority
        /\ Op.freeze_authority = i.freeze_authority
    BY <1>1, <1>3 DEF Leading, Carries
  <2> QED
    BY <1>1, <1>3, <2>1, CommitInitializeMint DEF TokenAction, i
<1>4. CASE i.tag \in {"InitializeAccount", "InitializeAccount2", "InitializeAccount3"}
  <2>1. /\ K(1) = i.account /\ K(2) = i.mint
        /\ i.owner = IF Op.tag = "InitializeAccount" THEN K(3) ELSE Op.owner
    BY <1>1, <1>4 DEF Leading, Carries
  <2> QED
    BY <1>1, <1>4, <2>1, CommitInitializeAccount DEF TokenAction, i
<1>5. CASE i.tag \in {"InitializeMultisig", "InitializeMultisig2"}
  <2>1. K(1) = i.multisig /\ Op.m = i.m
    BY <1>1, <1>5 DEF Leading, Carries
  <2>2. [p \in DOMAIN SignerInfos |-> SignerInfos[p].pubkey] = i.signers
    BY <1>5, IntentSigners DEF i, Committing
  <2>3. Bank!InitializeMultisig(K(1), Op.m, i.signers)
    BY <1>1, <1>5, <2>2, CommitInitializeMultisig
  <2> QED
    BY <1>5, <2>1, <2>3 DEF TokenAction, i
<1>6. CASE i.tag \in {"Transfer", "TransferChecked"}
  <2>1. /\ K(1) = i.source /\ K(2 + Shift) = i.destination /\ K(3 + Shift) = i.authority
        /\ Shift = 1 => K(2) = i.mint
    BY <1>1, <1>6 DEF Leading, Shift
  <2>2. /\ IsAccount(data[K(1)]) /\ (Shift = 1 => K(2) = data[K(1)].mint)
    BY <1>1, <1>6, TransferVetted DEF Committing
  <2>3. RightMint(i)
    BY <1>1, <1>6, <2>1, <2>2 DEF RightMint, IsIntent, Shift
  <2>4. Bank!Transfer(S, i.source, i.destination, i.authority, i.amount, Expected(i))
    BY <1>1, <1>2, <1>6, <2>1, CommitTransfer
  <2> QED
    BY <1>6, <2>1, <2>2, <2>3, <2>4 DEF TokenAction, i, S
<1>7. CASE i.tag \in {"Approve", "ApproveChecked"}
  <2>1. /\ K(1) = i.source /\ K(2 + Shift) = i.delegate /\ K(3 + Shift) = i.authority
        /\ Shift = 1 => K(2) = i.mint
    BY <1>1, <1>7 DEF Leading, Shift
  <2>2. IsAccount(data[K(1)]) /\ (Shift = 1 => K(2) = data[K(1)].mint)
    BY <1>1, <1>7, ApproveVetted DEF Committing
  <2>3. RightMint(i)
    BY <1>1, <1>7, <2>1, <2>2 DEF RightMint, IsIntent, Shift
  <2>4. /\ i.authority = data[i.source].owner
        /\ Bank!Approve(S, i.source, i.delegate, i.amount, Expected(i))
    BY <1>1, <1>2, <1>7, <2>1, CommitApprove
  <2> QED
    BY <1>7, <2>1, <2>2, <2>3, <2>4 DEF TokenAction, i, S
<1>8. CASE i.tag = "Revoke"
  <2>1. K(1) = i.source /\ K(2) = i.authority
    BY <1>1, <1>8 DEF Leading
  <2> QED
    BY <1>1, <1>8, <2>1, CommitRevoke DEF TokenAction, i, S
<1>9. CASE i.tag = "SetAuthority"
  <2>1. /\ K(1) = i.owned /\ K(2) = i.authority
        /\ Op.authority_type = i.change[1] /\ Op.new_authority = i.change[2]
    BY <1>1, <1>9 DEF Leading, Carries
  <2>2. None \notin Owners
    BY InputAssumption, ClientAssumption, KeyAssumption
  <2> QED
    BY <1>1, <1>9, <2>1, <2>2, CommitSetAuthority DEF TokenAction, i, S
<1>10. CASE i.tag \in {"MintTo", "MintToChecked"}
  <2>1. K(1) = i.mint /\ K(2) = i.account /\ K(3) = i.authority
    BY <1>1, <1>10 DEF Leading
  <2> QED
    BY <1>1, <1>2, <1>10, <2>1, CommitMintTo DEF TokenAction, i, S
<1>11. CASE i.tag \in {"Burn", "BurnChecked"}
  <2>1. K(1) = i.account /\ K(2) = i.mint /\ K(3) = i.authority
    BY <1>1, <1>11 DEF Leading
  <2> QED
    BY <1>1, <1>2, <1>11, <2>1, CommitBurn DEF TokenAction, i, S
<1>12. CASE i.tag = "CloseAccount"
  <2>1. K(1) = i.account /\ K(2) = i.destination /\ K(3) = i.authority
    BY <1>1, <1>12 DEF Leading
  <2> QED
    BY <1>1, <1>12, <2>1, CommitCloseAccount DEF TokenAction, i, S
<1>13. CASE i.tag \in {"FreezeAccount", "ThawAccount"}
  <2>1. K(1) = i.account /\ K(2) = i.mint /\ K(3) = i.authority
    BY <1>1, <1>13 DEF Leading
  <2> DEFINE freezes == i.tag = "FreezeAccount"
  <2>2. /\ IsMint(data[i.mint]) /\ i.authority = data[i.mint].freeze_authority
        /\ Bank!ToggleFreezeAccount(S, i.account, i.mint, freezes)
    BY <1>1, <1>13, <2>1, CommitToggleFreezeAccount
  <2> QED
    BY <1>13, <2>2 DEF TokenAction, i, S
<1>14. CASE i.tag = "SyncNative"
  <2>1. K(1) = i.account
    BY <1>1, <1>14 DEF Leading
  <2> QED
    BY <1>1, <1>14, <2>1, CommitSyncNative DEF TokenAction, i
<1>15. CASE i.tag \notin {"InitializeMint", "InitializeMint2", "InitializeAccount",
                         "InitializeAccount2", "InitializeAccount3", "InitializeMultisig",
                         "InitializeMultisig2", "Transfer", "TransferChecked", "Approve",
                         "ApproveChecked", "Revoke", "SetAuthority", "MintTo",
                         "MintToChecked", "Burn", "BurnChecked", "CloseAccount",
                         "FreezeAccount", "ThawAccount", "SyncNative"}
  <2>1. Before!Writes = <<>>
    BY <1>1, <1>15, WritesAre
  <2>2. UNCHANGED vars
    BY <2>1, NothingWritten DEF vars
  <2> QED
    BY <1>15, <2>2 DEF TokenAction, i
<1> QED
  BY <1>3, <1>4, <1>5, <1>6, <1>7, <1>8, <1>9, <1>10, <1>11, <1>12, <1>13, <1>14, <1>15
     DEF i

\* An invocation that has succeeded is over when it is committed.
LEMMA SuccessIsCommitted ==
    ASSUME pc = "exit", Succeeds, pc' = "idle", [Next]_clientVars
    PROVE  Commit
<1>1. pc' # pc
  OBVIOUS
<1>2. ~(UNCHANGED clientVars)
  BY <1>1 DEF clientVars, allVars, run
<1>3. Progress
  BY <1>1, <1>2 DEF Next, SubmitBuilt, SubmitHandmade, Submit, run
<1> QED
  BY <1>3 DEF Progress, Check, Authorise, MatchSigner, CountSigners, Apply, DoWrite,
              Return, Rollback

\* A committed call does what the client meant: the builder put every account
\* where the handler looks for it.
THEOREM TokenCallsDoWhatTheySay == Spec => CallsDoWhatTheySay
<1>1. InvocationInv /\ [Next]_clientVars =>
         [pc = "exit" /\ Succeeds /\ pc' = "idle" /\ intent # None
             => TokenAction(intent)]_allVars
  <2> SUFFICES ASSUME InvocationInv, [Next]_clientVars,
                      pc = "exit", Succeeds, pc' = "idle", intent # None
               PROVE  TokenAction(intent)
    OBVIOUS
  <2>1. Commit
    BY SuccessIsCommitted
  <2>2. Committing
    BY <2>1, CommitIsComplete DEF InvocationInv
  <2> QED
    BY <2>2, IntentCarriedOut DEF InvocationInv
<1> QED
  BY <1>1, InvocationInvariant, PTL DEF Spec, CallsDoWhatTheySay

-----------------------------------------------------------------------------
(* Who can sign for a multisig.                                            *)

\* Only InitializeMultisig makes one.
LEMMA CommitMakesNoMultisig ==
    ASSUME Committing, Op.tag \notin {"InitializeMultisig", "InitializeMultisig2"},
           NEW k \in Key, IsMultisig(data'[k])
    PROVE  data'[k] = data[k]
<1>1. data \in [Key -> Data] /\ Facts!ChainInv
  BY FactsTyped DEF Committing
<1>2. ASSUME NEW j, NEW d, data' = [data EXCEPT ![j] = d], d.kind # "multisig"
      PROVE  data'[k] = data[k]
  BY <1>1, <1>2 DEF IsMultisig
<1>3. ASSUME NEW j, NEW c, NEW d, NEW e, data' = [data EXCEPT ![j] = d, ![c] = e],
             d.kind # "multisig", e.kind # "multisig"
      PROVE  data'[k] = data[k]
  BY <1>1, <1>3 DEF IsMultisig
<1>4. \A j \in Key : /\ data[j].kind = "mint" => data[j] \in MintData
                     /\ IsMint(data[j]) => data[j] \in MintData
                     /\ IsAccount(data[j]) => data[j] \in AccountData
  BY <1>1, AccountTyped, MintTyped DEF Data, EmptyData, AccountData, MultisigData
<1>5. CASE Op.tag \in {"InitializeMint", "InitializeMint2"}
  <2> DEFINE d == [data[K(1)] EXCEPT !.mint_authority = Op.mint_authority,
                                     !.decimals = Op.decimals,
                                     !.is_initialized = TRUE,
                                     !.freeze_authority = Op.freeze_authority]
  <2>1. K(1) \in Key /\ data[K(1)].kind = "mint" /\ data' = [data EXCEPT ![K(1)] = d]
    BY <1>5, CommitInitializeMint DEF Bank!InitializeMint, Bank!Pack
  <2>2. d.kind # "multisig"
    BY <1>4, <2>1 DEF MintData
  <2> HIDE DEF d
  <2> QED
    BY <1>2, <2>1, <2>2
<1>6. CASE Op.tag \in {"InitializeAccount", "InitializeAccount2", "InitializeAccount3"}
  <2>1. \E d : d.kind = "account" /\ data' = [data EXCEPT ![K(1)] = d]
    BY <1>6, CommitInitializeAccount DEF Bank!InitializeAccount, Bank!Pack
  <2> QED
    BY <1>2, <2>1
<1>7. CASE Op.tag \in {"Transfer", "TransferChecked"}
  <2> DEFINE a == data[K(1)]
             b == data[K(2 + Shift)]
             d == [Bank!ReduceAllowance(a, K(3 + Shift), Op.amount)
                      EXCEPT !.amount = a.amount - Op.amount]
             e == [b EXCEPT !.amount = b.amount + Op.amount]
  <2>1. /\ K(1) \in Key /\ K(2 + Shift) \in Key /\ IsAccount(a) /\ IsAccount(b)
        /\ \/ data' = data
           \/ data' = [data EXCEPT ![K(1)] = d, ![K(2 + Shift)] = e]
    BY <1>7, CommitTransfer, BankReads DEF Bank!Transfer, Bank!vars
  <2>2. a \in AccountData /\ b \in AccountData
    BY <1>4, <2>1
  <2>3. d.kind # "multisig" /\ e.kind # "multisig"
    BY <2>2 DEF AccountData, Bank!ReduceAllowance
  <2> HIDE DEF d, e
  <2> QED
    BY <1>3, <2>1, <2>3
<1>8. CASE Op.tag \in {"Approve", "ApproveChecked"}
  <2> DEFINE d == [data[K(1)] EXCEPT !.delegate = K(2 + Shift),
                                     !.delegated_amount = Op.amount]
  <2>1. /\ K(1) \in Key /\ data[K(1)] \in AccountData
        /\ data' = [data EXCEPT ![K(1)] = d]
    BY <1>4, <1>8, CommitApprove DEF Bank!Approve, Bank!Pack
  <2>2. d.kind # "multisig"
    BY <2>1 DEF AccountData
  <2> HIDE DEF d
  <2> QED
    BY <1>2, <2>1, <2>2
<1>9. CASE Op.tag = "Revoke"
  <2> DEFINE d == [data[K(1)] EXCEPT !.delegate = None, !.delegated_amount = 0]
  <2>1. /\ K(1) \in Key /\ data[K(1)] \in AccountData
        /\ data' = [data EXCEPT ![K(1)] = d]
    BY <1>4, <1>9, CommitRevoke DEF Bank!Revoke, Bank!Pack
  <2>2. d.kind # "multisig"
    BY <2>1 DEF AccountData
  <2> HIDE DEF d
  <2> QED
    BY <1>2, <2>1, <2>2
<1>10. CASE Op.tag = "SetAuthority"
  <2> DEFINE r == data[K(1)]
             new == Op.new_authority
             owned == Bank!HandOver(r, new)
             closed == [r EXCEPT !.close_authority = new]
             minted == [r EXCEPT !.mint_authority = new]
             frozen == [r EXCEPT !.freeze_authority = new]
  <2>1. /\ K(1) \in Key
        /\ \/ IsAccount(r) /\ data' = [data EXCEPT ![K(1)] = owned]
           \/ IsAccount(r) /\ data' = [data EXCEPT ![K(1)] = closed]
           \/ IsMint(r) /\ data' = [data EXCEPT ![K(1)] = minted]
           \/ IsMint(r) /\ data' = [data EXCEPT ![K(1)] = frozen]
    BY <1>10, CommitSetAuthority
       DEF Bank!SetAccountOwner, Bank!SetCloseAuthority, Bank!SetMintAuthority,
           Bank!SetFreezeAuthority, Bank!Pack
  <2>2. /\ IsAccount(r) => owned.kind # "multisig" /\ closed.kind # "multisig"
        /\ IsMint(r) => minted.kind # "multisig" /\ frozen.kind # "multisig"
    BY <1>4, <2>1 DEF AccountData, MintData, Bank!HandOver
  <2> HIDE DEF owned, closed, minted, frozen
  <2> QED
    BY <1>2, <2>1, <2>2
<1>11. CASE Op.tag \in {"MintTo", "MintToChecked"}
  <2> DEFINE d == [data[K(2)] EXCEPT !.amount = data[K(2)].amount + Op.amount]
             e == [data[K(1)] EXCEPT !.supply = data[K(1)].supply + Op.amount]
  <2>1. /\ K(1) \in Key /\ K(2) \in Key
        /\ data[K(1)] \in MintData /\ data[K(2)] \in AccountData
        /\ data' = [data EXCEPT ![K(2)] = d, ![K(1)] = e]
    BY <1>4, <1>11, CommitMintTo DEF Bank!MintTo, Bank!Pack
  <2>2. d.kind # "multisig" /\ e.kind # "multisig"
    BY <2>1 DEF AccountData, MintData
  <2> HIDE DEF d, e
  <2> QED
    BY <1>3, <2>1, <2>2
<1>12. CASE Op.tag \in {"Burn", "BurnChecked"}
  <2> DEFINE a == data[K(1)]
             abandoned == Bank!IsOwnedBySystemProgramOrIncinerator(a)
             d == [(IF abandoned THEN a ELSE Bank!ReduceAllowance(a, K(3), Op.amount))
                      EXCEPT !.amount = a.amount - Op.amount]
             e == [data[K(2)] EXCEPT !.supply = data[K(2)].supply - Op.amount]
  <2>1. /\ K(1) \in Key /\ K(2) \in Key /\ a \in AccountData /\ data[K(2)] \in MintData
        /\ Bank!Burn(Signatures, K(1), K(2), K(3), Op.amount, ExpectedOperand)
    BY <1>4, <1>12, CommitBurn
  <2>2. data' = [data EXCEPT ![K(1)] = d, ![K(2)] = e]
    BY <2>1 DEF Bank!Burn, Bank!Pack
  <2>3. d.kind # "multisig" /\ e.kind # "multisig"
    BY <2>1 DEF AccountData, MintData, Bank!ReduceAllowance
  <2> HIDE DEF d, e
  <2> QED
    BY <1>3, <2>2, <2>3
<1>13. CASE Op.tag = "CloseAccount"
  <2> DEFINE d == Bank!EmptyData
  <2>1. data' = [data EXCEPT ![K(1)] = d]
    BY <1>13, CommitCloseAccount DEF Bank!CloseAccount, Bank!DeleteAccount
  <2>2. d.kind # "multisig"
    BY DEF Bank!EmptyData
  <2> HIDE DEF d
  <2> QED
    BY <1>2, <2>1, <2>2
<1>14. CASE Op.tag \in {"FreezeAccount", "ThawAccount"}
  <2> DEFINE freezes == Op.tag = "FreezeAccount"
             d == [data[K(1)] EXCEPT !.state = IF freezes THEN "Frozen" ELSE "Initialized"]
  <2>1. /\ K(1) \in Key /\ data[K(1)] \in AccountData
        /\ data' = [data EXCEPT ![K(1)] = d]
    BY <1>4, <1>14, CommitToggleFreezeAccount DEF Bank!ToggleFreezeAccount, Bank!Pack
  <2>2. d.kind # "multisig"
    BY <2>1 DEF AccountData
  <2> HIDE DEF d
  <2> QED
    BY <1>2, <2>1, <2>2
<1>15. CASE Op.tag = "SyncNative"
  <2> DEFINE d == [data[K(1)] EXCEPT !.amount = Bank!Wrapped(K(1))]
  <2>1. /\ K(1) \in Key /\ IsAccount(data[K(1)])
        /\ data' = [data EXCEPT ![K(1)] = d]
    BY <1>15, CommitSyncNative, BankReads DEF Bank!SyncNative, Bank!Pack
  <2>2. d.kind # "multisig"
    BY <1>4, <2>1 DEF AccountData
  <2> HIDE DEF d
  <2> QED
    BY <1>2, <2>1, <2>2
<1>16. CASE Op.tag \notin {"InitializeMint", "InitializeMint2", "InitializeAccount",
                          "InitializeAccount2", "InitializeAccount3",
                          "Transfer", "TransferChecked", "Approve",
                          "ApproveChecked", "Revoke", "SetAuthority", "MintTo",
                          "MintToChecked", "Burn", "BurnChecked", "CloseAccount",
                          "FreezeAccount", "ThawAccount", "SyncNative"}
  <2>1. Before!Writes = <<>>
    BY <1>16, WritesAre
  <2> QED
    BY <2>1, NothingWritten
<1> QED
  BY <1>5, <1>6, <1>7, <1>8, <1>9, <1>10, <1>11, <1>12, <1>13, <1>14, <1>15, <1>16

\* The multisigs of the token program have the signers their quorum takes.
QuorumAt(k) ==
    owner[k] = TokenProgram /\ IsMultisig(data[k]) =>
        data[k].m <= Cardinality(DOMAIN data[k].signers)

QuorumInv == InvocationInv /\ (~client.by_hand => \A k \in Key : QuorumAt(k))

LEMMA QuorumLasts ==
    ASSUME NEW k, QuorumAt(k),
           owner'[k] = TokenProgram /\ IsMultisig(data'[k]) =>
              owner[k] = TokenProgram /\ data'[k] = data[k]
    PROVE  QuorumAt(k)'
BY DEF QuorumAt

LEMMA CommitKeepsQuorum ==
    ASSUME client \in Clients, ~client.by_hand, Committing,
           NEW k \in Key, QuorumAt(k)
    PROVE  QuorumAt(k)'
<1>1. owner'[k] = TokenProgram => owner[k] = TokenProgram
  BY DEF Committing, Verified
<1>2. CASE Op.tag \notin {"InitializeMultisig", "InitializeMultisig2"}
  BY <1>1, <1>2, CommitMakesNoMultisig, QuorumLasts
<1>3. CASE Op.tag \in {"InitializeMultisig", "InitializeMultisig2"}
  <2> DEFINE i == intent
             signers == [p \in DOMAIN SignerInfos |-> SignerInfos[p].pubkey]
             d == [kind |-> "multisig", m |-> Op.m, is_initialized |-> TRUE,
                   signers |-> signers]
  <2>1. i.tag = Op.tag /\ IsIntent(i) /\ Carries(Op, i)
    BY IntentSubmitted DEF Committing
  <2>2. signers = i.signers /\ IsQuorum(i.m, i.signers) /\ Op.m = i.m
    BY <1>3, <2>1, IntentSigners DEF Committing, Carries
  <2>3. K(1) \in Key /\ data' = [data EXCEPT ![K(1)] = d] /\ UNCHANGED owner
    BY <1>3, CommitInitializeMultisig DEF Bank!InitializeMultisig, Bank!Pack
  <2>4. d.m <= Cardinality(DOMAIN d.signers)
    <3>1. i.signers \in Seq(Signer)
      BY <1>3, <2>1 DEF IsIntent
    <3>2. Len(i.signers) \in Nat /\ DOMAIN i.signers = 1 .. Len(i.signers)
      BY <3>1, LenProperties
    <3>3. Cardinality(1 .. Len(i.signers)) = Len(i.signers)
      BY <3>2, FS_Interval
    <3> HIDE DEF signers
    <3> QED
      BY <2>2, <3>2, <3>3 DEF IsQuorum
  <2>5. data \in [Key -> Data]
    BY FactsTyped DEF Committing
  <2> HIDE DEF d
  <2> QED
    BY <2>3, <2>4, <2>5 DEF QuorumAt
<1> QED
  BY <1>2, <1>3

\* A new account is blank, and what another program writes stays its own.
LEMMA PrepareKeepsQuorum ==
    ASSUME InvocationInv, Prepare, NEW k \in Key, QuorumAt(k)
    PROVE  QuorumAt(k)'
<1>1. /\ owner \in [Key -> {SystemProgram, TokenProgram, OtherProgram}]
      /\ data \in [Key -> Data]
  BY FactsTyped DEF InvocationInv
<1>2. OtherProgram # TokenProgram
  BY ProgramAssumption
<1>3. ASSUME NEW from, NEW j, NEW n, SystemTransfer(from, j, n)
      PROVE  QuorumAt(k)'
  BY <1>3 DEF SystemTransfer, QuorumAt
<1>4. ASSUME NEW from, NEW j, NEW zero, NEW program, NEW n,
             ~IsMultisig(zero), CreateAccount(from, j, zero, program, n)
      PROVE  QuorumAt(k)'
  BY <1>1, <1>4 DEF CreateAccount, QuorumAt
<1>5. ASSUME NEW j, NEW d, OtherProgramWrites(j, d)
      PROVE  QuorumAt(k)'
  BY <1>1, <1>2, <1>5 DEF OtherProgramWrites, QuorumAt
<1>6. ~IsMultisig(EmptyData) /\ \A j : \A zero \in Layouts(j) : ~IsMultisig(zero)
  BY DEF IsMultisig, EmptyData, Layouts, ZeroMint, ZeroAccount, ZeroMultisig
<1> QED
  BY <1>3, <1>4, <1>5, <1>6 DEF Prepare

LEMMA NextKeepsQuorum ==
    ASSUME QuorumInv, [Next]_clientVars
    PROVE  QuorumInv'
<1>1. InvocationInv' /\ InvocationInv
  BY NextKept DEF QuorumInv
<1>2. client' = client
  BY DEF Next, clientVars
<1> SUFFICES ASSUME ~client.by_hand, NEW k \in Key, QuorumAt(k)
             PROVE  QuorumAt(k)'
  BY <1>1, <1>2 DEF QuorumInv
<1>3. CASE UNCHANGED <<owner, data>>
  BY <1>3 DEF QuorumAt
<1>4. CASE Prepare
  BY <1>1, <1>4, PrepareKeepsQuorum
<1>5. CASE Commit
  <2>1. Committing
    BY <1>1, <1>5, CommitIsComplete DEF InvocationInv
  <2> QED
    BY <1>1, <2>1, CommitKeepsQuorum DEF InvocationInv
<1> QED
  BY <1>3, <1>4, <1>5
     DEF Next, SubmitBuilt, SubmitHandmade, Submit, Progress, Check, Authorise,
         MatchSigner, CountSigners, Apply, DoWrite, Return, Rollback, Fail, Goto,
         clientVars, allVars

\* The signers of a multisig a builder made can sign for it together.
THEOREM TokenMultisigsCanSign == Spec => []MultisigsCanSign
<1>1. Init => QuorumInv
  <2> SUFFICES ASSUME Init
               PROVE  \A k \in Key : QuorumAt(k)
    BY InitInvocation DEF QuorumInv
  <2>1. \A k \in Key : ~IsMultisig(data[k])
    BY DEF Init, Bank!Init, Bank!ZeroMint, Bank!EmptyData, IsMultisig
  <2> QED
    BY <2>1 DEF QuorumAt
<1>2. QuorumInv /\ [Next]_clientVars => QuorumInv'
  BY NextKeepsQuorum
<1>3. QuorumInv => MultisigsCanSign
  <2> SUFFICES ASSUME QuorumInv, ~client.by_hand, NEW k \in Key,
                      owner[k] = TokenProgram, IsMultisig(data[k])
               PROVE  Bank!ValidateOwner(k,
                         {data[k].signers[p] : p \in DOMAIN data[k].signers})
    BY DEF MultisigsCanSign
  <2> DEFINE signers == data[k].signers
             all == {signers[p] : p \in DOMAIN signers}
  <2>1. {p \in DOMAIN signers : signers[p] \in all} = DOMAIN signers
    OBVIOUS
  <2>2. data[k].m <= Cardinality(DOMAIN signers)
    BY DEF QuorumInv, QuorumAt
  <2>3. Bank!Cardinality(DOMAIN signers) = Cardinality(DOMAIN signers)
    BY DEF Bank!Cardinality, Cardinality
  <2>4. Bank!IsMultisig(data[k]) /\ data[k].kind = "multisig"
    BY BankReads DEF IsMultisig
  <2> HIDE DEF all
  <2>5. Bank!ValidateOwner(k, all)
    BY <2>1, <2>2, <2>3, <2>4 DEF Bank!ValidateOwner
  <2> QED
    BY <2>5 DEF all
<1> QED
  BY <1>1, <1>2, <1>3, PTL DEF Spec
=============================================================================
