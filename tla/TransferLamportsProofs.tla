------------------------ MODULE TransferLamportsProofs ------------------------
(***************************************************************************)
(* What the ports of transfer-lamports do, for any addresses, any lamports *)
(* and any sizes of accounts.                                              *)
(***************************************************************************)
EXTENDS TransferLamports, TotalsTheorems

-----------------------------------------------------------------------------
(* transfer-lamports: arithmetic of a u64.                                 *)

\* A sum or a difference that fits is not wrapped around.
LEMMA Fits ==
    ASSUME NEW x \in Int, NEW w \in Nat, x >= 0, x < w
    PROVE  x % w = x
OBVIOUS

\* Any other wraps around once.
LEMMA WrapsOver ==
    ASSUME NEW x \in Int, NEW w \in Nat, x >= w, x < 2 * w
    PROVE  x % w = x - w
OBVIOUS

LEMMA WrapsUnder ==
    ASSUME NEW x \in Int, NEW w \in Nat, x < 0, x >= -w
    PROVE  x % w = x + w
OBVIOUS

\* What is taken from a place and put back is there again.
LEMMA TakenAndPutBack ==
    ASSUME NEW x \in U64, NEW n \in U64
    PROVE  (((x - n) % Width) + n) % Width = x
<1>1. x \in Nat /\ n \in Nat /\ x < Width /\ n < Width /\ Width \in Nat
  BY U64Assumption DEF U64, Width
<1>2. CASE n <= x
  <2>1. (x - n) % Width = x - n
    BY <1>1, <1>2, Fits
  <2> QED
    BY <1>1, <2>1, Fits
<1>3. CASE n > x
  <2>1. (x - n) % Width = x - n + Width
    BY <1>1, <1>3, WrapsUnder
  <2>2. (x + Width) % Width = x
    <3>1. x + Width >= Width /\ x + Width < 2 * Width /\ x + Width \in Int
      BY <1>1
    <3> QED
      BY <1>1, <3>1, WrapsOver
  <2> QED
    BY <1>1, <2>1, <2>2
<1> QED
  BY <1>1, <1>2, <1>3

\* What is left fits.
LEMMA Remains ==
    ASSUME NEW x \in U64, NEW n \in U64
    PROVE  (x - n) % Width \in U64 /\ (x + n) % Width \in U64
BY U64Assumption DEF U64, Width

-----------------------------------------------------------------------------
(* transfer-lamports: the accounts in the input.                           *)

LEMMA FunctionIsList ==
    ASSUME NEW S, NEW n \in Nat, NEW f \in [1 .. n -> S]
    PROVE  f \in Seq(S) /\ Len(f) = n /\ DOMAIN f = 1 .. n
OBVIOUS

\* The first account starts after the number of accounts, every other where the
\* one before it ends.
LEMMA Starts ==
    ASSUME NEW c \in Calls
    PROVE  /\ Len(c.accounts) \in Nat /\ Len(c.accounts) <= 3
           /\ DOMAIN c.accounts = 1 .. Len(c.accounts)
           /\ StartOf(c, 1) = 8
           /\ \A i \in 1 .. Len(c.accounts) : StartOf(c, i + 1) = StartOf(c, i) + Taken(c, i)
<1>1. /\ Len(c.accounts) \in Nat /\ Len(c.accounts) <= 3
      /\ DOMAIN c.accounts = 1 .. Len(c.accounts)
  <2>1. PICK n \in 0 .. 3 : c.accounts \in [1 .. n -> Key]
    BY DEF Calls
  <2>2. n \in Nat /\ n <= 3
    OBVIOUS
  <2>3. Len(c.accounts) = n /\ DOMAIN c.accounts = 1 .. n
    BY <2>1, <2>2, FunctionIsList
  <2> QED
    BY <2>2, <2>3
<1> DEFINE n == Len(c.accounts)
<1>2. n \in Nat /\ n <= 3
  BY <1>1, Zenon DEF n
<1> HIDE DEF n
<1> DEFINE Step(f) == [i \in 1 .. n + 1 |-> IF i = 1 THEN 8 ELSE f[i - 1] + Taken(c, i - 1)]
           start == CHOOSE f : f = Step(f)
<1>3. \E f : f = Step(f)
  <2> DEFINE t1 == 8 + Taken(c, 1)
             t2 == t1 + Taken(c, 2)
             t3 == t2 + Taken(c, 3)
             g == [i \in 1 .. n + 1 |-> IF i = 1 THEN 8 ELSE IF i = 2 THEN t1
                                        ELSE IF i = 3 THEN t2 ELSE t3]
  <2>1. \A i \in 1 .. n + 1 : g[i] = IF i = 1 THEN 8 ELSE g[i - 1] + Taken(c, i - 1)
    <3>1. \A i \in 1 .. n + 1 : i \in {1, 2, 3, 4}
      BY <1>2
    <3>2. \A i \in 1 .. n + 1 : g[i] = IF i = 1 THEN 8 ELSE IF i = 2 THEN t1
                                        ELSE IF i = 3 THEN t2 ELSE t3
      OBVIOUS
    <3> HIDE DEF g
    <3> QED
      BY <1>2, <3>1, <3>2
  <2>2. g = Step(g)
    BY <2>1
  <2> QED
    BY <2>2
<1>4. start = Step(start)
  BY <1>3
<1>5. \A i \in 1 .. n + 1 : StartOf(c, i) = start[i]
  BY DEF StartOf, n
<1> HIDE DEF start
<1>6. start[1] = 8 /\ \A i \in 1 .. n : start[i + 1] = start[i] + Taken(c, i)
  BY <1>2, <1>4
<1> QED
  BY <1>1, <1>2, <1>5, <1>6 DEF n

\* Accounts take some place.
LEMMA TakenIsPlace ==
    ASSUME NEW c \in Calls, NEW n \in 1 .. Len(c.accounts), size \in [Key -> Nat]
    PROVE  Taken(c, n) \in Nat /\ Taken(c, n) >= 8
<1>1. c.accounts[n] \in Key
  <2>1. PICK m \in 0 .. 3 : c.accounts \in [1 .. m -> Key]
    BY DEF Calls
  <2>2. m \in Nat
    OBVIOUS
  <2> QED
    BY <2>1, <2>2, FunctionIsList
<1>2. size[c.accounts[n]] \in Nat
  BY <1>1
<1> DEFINE x == size[c.accounts[n]]
<1>3. x \in Nat
  BY <1>2
<1>4. Taken(c, n) = IF Repeats(c, n) THEN 8 ELSE 88 + 8 * ((x + 7) \div 8) + 10240 + 8
  BY DEF Taken
<1> HIDE DEF x
<1>5. (x + 7) \div 8 \in Nat
  BY <1>3
<1> QED
  BY <1>4, <1>5

LEMMA StartsArePlaces ==
    ASSUME NEW c \in Calls, size \in [Key -> Nat]
    PROVE  \A n \in 1 .. Len(c.accounts) + 1 : StartOf(c, n) \in Nat /\ StartOf(c, n) >= 8
<1> DEFINE l == Len(c.accounts)
<1>1. /\ l \in Nat /\ l <= 3 /\ StartOf(c, 1) = 8
      /\ \A i \in 1 .. l : StartOf(c, i + 1) = StartOf(c, i) + Taken(c, i)
  BY Starts
<1>2. \A i \in 1 .. l : Taken(c, i) \in Nat /\ Taken(c, i) >= 8
  BY TakenIsPlace
<1> HIDE DEF l
<1>3. l >= 1 => StartOf(c, 2) \in Nat /\ StartOf(c, 2) >= 8
  <2> SUFFICES ASSUME l >= 1 PROVE StartOf(c, 1 + 1) \in Nat /\ StartOf(c, 1 + 1) >= 8
    OBVIOUS
  <2>1. 1 \in 1 .. l
    BY <1>1
  <2> QED
    BY <1>1, <1>2, <2>1
<1>4. l >= 2 => StartOf(c, 3) \in Nat /\ StartOf(c, 3) >= 8
  <2> SUFFICES ASSUME l >= 2 PROVE StartOf(c, 2 + 1) \in Nat /\ StartOf(c, 2 + 1) >= 8
    OBVIOUS
  <2>1. 2 \in 1 .. l
    BY <1>1
  <2> QED
    BY <1>1, <1>2, <1>3, <2>1
<1>5. l >= 3 => StartOf(c, 4) \in Nat /\ StartOf(c, 4) >= 8
  <2> SUFFICES ASSUME l >= 3 PROVE StartOf(c, 3 + 1) \in Nat /\ StartOf(c, 3 + 1) >= 8
    OBVIOUS
  <2>1. 3 \in 1 .. l
    BY <1>1
  <2> QED
    BY <1>1, <1>2, <1>4, <2>1
<1>6. \A n \in 1 .. l + 1 :
         \/ n = 1
         \/ n = 2 /\ l >= 1
         \/ n = 3 /\ l >= 2
         \/ n = 4 /\ l >= 3
  BY <1>1
<1>7. \A n \in 1 .. l + 1 : StartOf(c, n) \in Nat /\ StartOf(c, n) >= 8
  BY <1>1, <1>3, <1>4, <1>5, <1>6
<1> QED
  BY <1>7 DEF l

\* A word that is alone at its address is what is loaded from there.
LEMMA WordIs ==
    ASSUME NEW input, NEW a, NEW x, <<a, x>> \in input,
           \A w \in input : w[1] = a => w[2] = x
    PROVE  Word(input, a) = x
<1>1. PICK w \in input : w = CHOOSE y \in input : y[1] = a
  BY Zenon
<1> QED
  BY <1>1 DEF Word

\* The alignment finds the end of data.
LEMMA AlignUp ==
    ASSUME NEW q \in Nat, NEW n \in Nat
    PROVE  Align(8 * q + n) = 8 * q + 8 * ((n + 7) \div 8)
BY DEF Align

-----------------------------------------------------------------------------
(* transfer-lamports: what the assembly makes of the input.                *)

\* What the invariant below says of the types.
TransferType == lamports \in [Key -> U64] /\ size \in [Key -> Nat]

\* The number of accounts is where it is looked for.
LEMMA CountIsRead ==
    ASSUME TransferType, NEW c \in Calls
    PROVE  Word(Input(c), 0) = Len(c.accounts)
<1> DEFINE l == Len(c.accounts)
           after == StartOf(c, l + 1)
<1>1. l \in Nat /\ DOMAIN c.accounts = 1 .. l
  BY Starts
<1>2. Input(c) = {<<0, l>>, <<after, c.length>>, <<after + 8, c.amount>>}
                 \cup (UNION {AccountWords(c, n) : n \in DOMAIN c.accounts})
  BY Zenon DEF Input
<1>3. <<0, l>> \in Input(c)
  BY <1>2, Zenon
<1>4. \A n \in 1 .. l + 1 : StartOf(c, n) \in Nat /\ StartOf(c, n) >= 8
  BY StartsArePlaces DEF TransferType
<1>5. after \in Nat /\ after >= 8
  <2>1. l + 1 \in 1 .. l + 1
    BY <1>1
  <2> QED
    BY <1>4, <2>1
<1> HIDE DEF l, after
<1>6. ASSUME NEW w \in Input(c), w[1] = 0
      PROVE  w[2] = l
  <2>1. ASSUME NEW n \in 1 .. l, w \in AccountWords(c, n)
        PROVE  FALSE
    <3>1. StartOf(c, n) \in Nat /\ StartOf(c, n) >= 8
      BY <1>1, <1>4
    <3> QED
      BY <1>6, <2>1, <3>1 DEF AccountWords
  <2>2. \A n \in DOMAIN c.accounts : w \notin AccountWords(c, n)
    BY <1>1, <2>1, Zenon
  <2>3. w \in {<<0, l>>, <<after, c.length>>, <<after + 8, c.amount>>}
    BY <1>2, <2>2
  <2> QED
    BY <1>5, <1>6, <2>3
<1>7. Word(Input(c), 0) = l
  BY <1>3, <1>6, WordIs
<1> QED
  BY <1>7 DEF l

\* What the input holds of two accounts, the second of which may repeat the first.
LEMMA InputOfTwo ==
    ASSUME TransferType, NEW c \in Calls, Len(c.accounts) = 2
    PROVE  LET a == c.accounts[1]
               b == c.accounts[2]
               s == StartOf(c, 2)
               t == StartOf(c, 3)
           IN  /\ a \in Key /\ b \in Key
               /\ s = 10344 + 8 * ((size[a] + 7) \div 8)
               /\ a # b => t = s + 10336 + 8 * ((size[b] + 7) \div 8)
               /\ a = b => t = s + 8
               /\ Input(c) =
                    {<<0, 2>>, <<t, c.length>>, <<t + 8, c.amount>>,
                     <<8, 255>>, <<80, lamports[a]>>, <<88, size[a]>>}
                    \cup (IF a = b THEN {<<s, 0>>}
                          ELSE {<<s, 255>>, <<s + 72, lamports[b]>>, <<s + 80, size[b]>>})
<1> DEFINE a == c.accounts[1]
           b == c.accounts[2]
           s == StartOf(c, 2)
           t == StartOf(c, 3)
<1>1. a \in Key /\ b \in Key
  <2>1. PICK m \in 0 .. 3 : c.accounts \in [1 .. m -> Key]
    BY DEF Calls
  <2>2. m \in Nat
    OBVIOUS
  <2>3. m = 2
    BY <2>1, <2>2, FunctionIsList
  <2> QED
    BY <2>1, <2>3
<1>2. DOMAIN c.accounts = {1, 2}
  BY Starts
<1>3. /\ StartOf(c, 1) = 8
      /\ StartOf(c, 1 + 1) = StartOf(c, 1) + Taken(c, 1)
      /\ StartOf(c, 2 + 1) = StartOf(c, 2) + Taken(c, 2)
  <2>1. 1 \in 1 .. Len(c.accounts) /\ 2 \in 1 .. Len(c.accounts)
    OBVIOUS
  <2> QED
    BY <2>1, Starts, Zenon
<1>4. ~Repeats(c, 1) /\ (Repeats(c, 2) <=> a = b)
  BY DEF Repeats
<1>5. Taken(c, 1) = 88 + 8 * ((size[a] + 7) \div 8) + 10240 + 8
  BY <1>4 DEF Taken
<1>6. Taken(c, 2) = IF a = b THEN 8 ELSE 88 + 8 * ((size[b] + 7) \div 8) + 10240 + 8
  BY <1>4 DEF Taken
<1>7. s = 8 + Taken(c, 1) /\ t = s + Taken(c, 2)
  BY <1>3
<1>8. size[a] \in Nat /\ size[b] \in Nat
  BY <1>1 DEF TransferType
<1> DEFINE q == (size[a] + 7) \div 8
           r == (size[b] + 7) \div 8
<1>9. q \in Nat /\ r \in Nat
  BY <1>8
<1>10. AccountWords(c, 1) = {<<8, 255>>, <<80, lamports[a]>>, <<88, size[a]>>}
  <2>1. AccountWords(c, 1) = {<<StartOf(c, 1), 255>>,
                              <<StartOf(c, 1) + 72, lamports[a]>>,
                              <<StartOf(c, 1) + 80, size[a]>>}
    BY <1>4, Zenon DEF AccountWords
  <2>2. StartOf(c, 1) = 8 /\ StartOf(c, 1) + 72 = 80 /\ StartOf(c, 1) + 80 = 88
    BY <1>3
  <2> QED
    BY <2>1, <2>2, Zenon
<1>11. AccountWords(c, 2) =
          IF a = b THEN {<<s, 0>>}
          ELSE {<<s, 255>>, <<s + 72, lamports[b]>>, <<s + 80, size[b]>>}
  BY <1>4, Zenon DEF AccountWords
<1>12. Input(c) = {<<0, 2>>, <<t, c.length>>, <<t + 8, c.amount>>}
                  \cup AccountWords(c, 1) \cup AccountWords(c, 2)
  <2>1. Len(c.accounts) + 1 = 3
    OBVIOUS
  <2>2. Input(c) = {<<0, 2>>, <<t, c.length>>, <<t + 8, c.amount>>}
                   \cup (UNION {AccountWords(c, n) : n \in {1, 2}})
    BY <1>2, <2>1, Zenon DEF Input
  <2> HIDE DEF t
  <2>3. UNION {AccountWords(c, n) : n \in {1, 2}} = AccountWords(c, 1) \cup AccountWords(c, 2)
    OBVIOUS
  <2> QED
    BY <2>2, <2>3
<1>13. Input(c) =
          {<<0, 2>>, <<t, c.length>>, <<t + 8, c.amount>>,
           <<8, 255>>, <<80, lamports[a]>>, <<88, size[a]>>}
          \cup (IF a = b THEN {<<s, 0>>}
                ELSE {<<s, 255>>, <<s + 72, lamports[b]>>, <<s + 80, size[b]>>})
  <2> HIDE DEF a, b, s, t
  <2> QED
    BY <1>10, <1>11, <1>12
<1>14. s = 10344 + 8 * q /\ (a # b => t = s + 10336 + 8 * r) /\ (a = b => t = s + 8)
  <2>1. Taken(c, 1) = 88 + 8 * q + 10240 + 8
    BY <1>5
  <2>2. Taken(c, 2) = IF a = b THEN 8 ELSE 88 + 8 * r + 10240 + 8
    BY <1>6
  <2> HIDE DEF a, b, s, t, q, r
  <2> QED
    BY <1>7, <1>9, <2>1, <2>2
<1> QED
  BY <1>1, <1>13, <1>14

\* The assembly moves the amount between two different accounts when the data is
\* as long as it should be, and refuses everything else.
LEMMA AssemblyMoves ==
    ASSUME TransferType, NEW c \in Calls
    PROVE  Assembly(c) =
             IF Len(c.accounts) = 2 /\ c.accounts[1] # c.accounts[2] /\ c.length = 8
             THEN {Moved(c.amount, c.accounts[1], c.accounts[2])}
             ELSE {Failure}
<1>1. CASE Len(c.accounts) # 2
  <2>1. Word(Input(c), 0) # 2
    BY <1>1, CountIsRead, Zenon
  <2>2. Assembly(c) = {Failure}
    BY <2>1 DEF Assembly
  <2> QED
    BY <1>1, <2>2, Zenon
<1>2. CASE Len(c.accounts) = 2
  <2> DEFINE a == c.accounts[1]
             b == c.accounts[2]
             s == StartOf(c, 2)
             t == StartOf(c, 3)
             q == (size[a] + 7) \div 8
             r == (size[b] + 7) \div 8
             At(address) == Word(Input(c), address)
             r4 == Align(8 + 8 + 32 + 32 + 8 + 8 + 10240 + 8 + At(8 + 80))
             r7 == Align(r4 + 8 + 32 + 32 + 8 + 8 + 10240 + 8 + At(r4 + 80))
  <2>1. /\ a \in Key /\ b \in Key
        /\ s = 10344 + 8 * q
        /\ a # b => t = s + 10336 + 8 * r
        /\ a = b => t = s + 8
        /\ Input(c) =
             {<<0, 2>>, <<t, c.length>>, <<t + 8, c.amount>>,
              <<8, 255>>, <<80, lamports[a]>>, <<88, size[a]>>}
             \cup (IF a = b THEN {<<s, 0>>}
                   ELSE {<<s, 255>>, <<s + 72, lamports[b]>>, <<s + 80, size[b]>>})
    BY <1>2, InputOfTwo
  <2>2. size[a] \in Nat /\ size[b] \in Nat /\ q \in Nat /\ r \in Nat
    <3>1. size[a] \in Nat /\ size[b] \in Nat
      BY <2>1 DEF TransferType
    <3> HIDE DEF a, b
    <3> QED
      BY <3>1
  <2>3. Assembly(c) =
          IF At(0) # 2 \/ At(r4) # 255 \/ At(r7) # 8 THEN {Failure}
          ELSE {[lamports EXCEPT ![a] = (At(8 + 72) - At(r7 + 8)) % Width,
                                 ![b] = (At(r4 + 72) + At(r7 + 8)) % Width]}
    BY DEF Assembly
  <2> HIDE DEF a, b, s, t, q, r
  <2>4. s \in Nat /\ t \in Nat /\ s >= 10344 /\ t >= s + 8 /\ (a # b => t >= s + 10336)
    BY <2>1, <2>2
  <2>5. At(0) = 2
    <3>1. <<0, 2>> \in Input(c)
      BY <2>1
    <3>2. \A w \in Input(c) : w[1] = 0 => w[2] = 2
      BY <2>1, <2>4
    <3> QED
      BY <3>1, <3>2, WordIs
  <2>6. At(80) = lamports[a]
    <3>1. <<80, lamports[a]>> \in Input(c)
      BY <2>1
    <3>2. \A w \in Input(c) : w[1] = 80 => w[2] = lamports[a]
      BY <2>1, <2>4
    <3> QED
      BY <3>1, <3>2, WordIs
  <2>7. At(88) = size[a]
    <3>1. <<88, size[a]>> \in Input(c)
      BY <2>1
    <3>2. \A w \in Input(c) : w[1] = 88 => w[2] = size[a]
      BY <2>1, <2>4
    <3> QED
      BY <3>1, <3>2, WordIs
  <2>8. r4 = s
    <3>1. 8 + 80 = 88 /\ 8 + 8 + 32 + 32 + 8 + 8 + 10240 + 8 = 8 * 1293
      OBVIOUS
    <3>2. r4 = Align(8 * 1293 + size[a])
      BY <2>7, <3>1
    <3>3. Align(8 * 1293 + size[a]) = 8 * 1293 + 8 * ((size[a] + 7) \div 8)
      <4> DEFINE m == 1293
      <4>1. m \in Nat
        OBVIOUS
      <4> HIDE DEF m
      <4>2. Align(8 * m + size[a]) = 8 * m + 8 * ((size[a] + 7) \div 8)
        BY <2>2, <4>1, AlignUp
      <4> QED
        BY <4>2 DEF m
    <3>4. Align(8 * 1293 + size[a]) = 8 * 1293 + 8 * q
      BY <3>3 DEF q
    <3> HIDE DEF r4
    <3> QED
      BY <2>1, <2>2, <3>2, <3>4
  <2>9. CASE a = b
    <3>1. At(s) = 0
      <4>1. <<s, 0>> \in Input(c)
        BY <2>1, <2>9
      <4>2. \A w \in Input(c) : w[1] = s => w[2] = 0
        BY <2>1, <2>4, <2>9
      <4> QED
        BY <4>1, <4>2, WordIs
    <3>2. At(r4) # 255
      <4> HIDE DEF At, r4
      <4> QED
        BY <2>8, <3>1
    <3>3. Assembly(c) = {Failure}
      <4> HIDE DEF At, r4, r7
      <4> QED
        BY <2>3, <3>2
    <3> QED
      BY <2>9, <3>3 DEF a, b
  <2>10. CASE a # b
    <3>1. At(s) = 255
      <4>1. <<s, 255>> \in Input(c)
        BY <2>1, <2>10
      <4>2. \A w \in Input(c) : w[1] = s => w[2] = 255
        BY <2>1, <2>4, <2>10
      <4> QED
        BY <4>1, <4>2, WordIs
    <3>2. At(s + 72) = lamports[b]
      <4>1. <<s + 72, lamports[b]>> \in Input(c)
        BY <2>1, <2>10
      <4>2. \A w \in Input(c) : w[1] = s + 72 => w[2] = lamports[b]
        BY <2>1, <2>4, <2>10
      <4> QED
        BY <4>1, <4>2, WordIs
    <3>3. At(s + 80) = size[b]
      <4>1. <<s + 80, size[b]>> \in Input(c)
        BY <2>1, <2>10
      <4>2. \A w \in Input(c) : w[1] = s + 80 => w[2] = size[b]
        BY <2>1, <2>4, <2>10
      <4> QED
        BY <4>1, <4>2, WordIs
    <3>4. At(t) = c.length
      <4>1. <<t, c.length>> \in Input(c)
        BY <2>1
      <4>2. \A w \in Input(c) : w[1] = t => w[2] = c.length
        BY <2>1, <2>4, <2>10
      <4> QED
        BY <4>1, <4>2, WordIs
    <3>5. At(t + 8) = c.amount
      <4>1. <<t + 8, c.amount>> \in Input(c)
        BY <2>1
      <4>2. \A w \in Input(c) : w[1] = t + 8 => w[2] = c.amount
        BY <2>1, <2>4, <2>10
      <4> QED
        BY <4>1, <4>2, WordIs
    <3>6. r7 = t
      <4>1. r7 = Align(s + 8 + 32 + 32 + 8 + 8 + 10240 + 8 + size[b])
        <5> HIDE DEF At, r4
        <5> QED
          BY <2>8, <3>3
      <4> DEFINE m == 1293 + q + 1292
      <4>2. m \in Nat
        BY <2>2
      <4>3. s + 8 + 32 + 32 + 8 + 8 + 10240 + 8 + size[b] = 8 * m + size[b]
        BY <2>1, <2>2
      <4>4. Align(8 * m + size[b]) = 8 * m + 8 * ((size[b] + 7) \div 8)
        <5> HIDE DEF m
        <5> QED
          BY <2>2, <4>2, AlignUp
      <4>5. Align(8 * m + size[b]) = 8 * m + 8 * r
        BY <4>4 DEF r
      <4>6. t = 8 * m + 8 * r
        BY <2>1, <2>2, <2>10
      <4> HIDE DEF r7, m
      <4> QED
        BY <4>1, <4>3, <4>5, <4>6
    <3>7. 8 + 72 = 80
      OBVIOUS
    <3>8. Assembly(c) =
            IF c.length # 8 THEN {Failure}
            ELSE {[lamports EXCEPT ![a] = (lamports[a] - c.amount) % Width,
                                   ![b] = (lamports[b] + c.amount) % Width]}
      <4> HIDE DEF At, r4, r7
      <4> QED
        BY <2>3, <2>5, <2>6, <2>8, <3>1, <3>2, <3>4, <3>5, <3>6, <3>7
    <3>9. [lamports EXCEPT ![a] = (lamports[a] - c.amount) % Width,
                           ![b] = (lamports[b] + c.amount) % Width]
             = Moved(c.amount, a, b)
      <4> DEFINE x == (lamports[a] - c.amount) % Width
                 taken == [lamports EXCEPT ![a] = x]
                 y == (taken[b] + c.amount) % Width
      <4>1. Moved(c.amount, a, b) = [taken EXCEPT ![b] = y]
        BY DEF Moved
      <4>2. taken[b] = lamports[b]
        BY <2>10
      <4>3. (lamports[b] + c.amount) % Width = y
        BY <4>2, Zenon
      <4> HIDE DEF x, y
      <4>4. [lamports EXCEPT ![a] = x, ![b] = y] = [taken EXCEPT ![b] = y]
        BY <2>1, <2>10 DEF TransferType
      <4> QED
        BY <4>1, <4>3, <4>4, Zenon DEF x
    <3> QED
      BY <1>2, <2>10, <3>8, <3>9 DEF a, b
  <2> QED
    BY <2>9, <2>10
<1> QED
  BY <1>1, <1>2, Zenon

-----------------------------------------------------------------------------
(* transfer-lamports: the outcomes of a call.                              *)

LEMMA CallAccounts ==
    ASSUME NEW c \in Calls
    PROVE  /\ c.amount \in U64
           /\ Len(c.accounts) >= 2 => c.accounts[1] \in Key /\ c.accounts[2] \in Key
<1>1. PICK m \in 0 .. 3 : c.accounts \in [1 .. m -> Key]
  BY DEF Calls
<1>2. m \in Nat
  OBVIOUS
<1>3. m = Len(c.accounts)
  BY <1>1, <1>2, FunctionIsList
<1>4. c.amount \in U64
  BY DEF Calls
<1> QED
  BY <1>1, <1>2, <1>3, <1>4

\* Whatever is moved, the lamports stay lamports.
LEMMA MovedTyped ==
    ASSUME TransferType, NEW n \in U64, NEW a \in Key, NEW b \in Key
    PROVE  /\ Moved(n, a, b) \in [Key -> U64]
           /\ a = b => Moved(n, a, b) = lamports
           /\ a # b => Moved(n, a, b) = [lamports EXCEPT ![a] = (lamports[a] - n) % Width,
                                                         ![b] = (lamports[b] + n) % Width]
<1> DEFINE x == (lamports[a] - n) % Width
           taken == [lamports EXCEPT ![a] = x]
           y == (taken[b] + n) % Width
<1>1. Moved(n, a, b) = [taken EXCEPT ![b] = y]
  BY DEF Moved
<1>2. x \in U64
  BY Remains DEF TransferType
<1>3. taken \in [Key -> U64]
  BY <1>2 DEF TransferType
<1>4. y \in U64
  BY <1>3, Remains
<1>5. a = b => y = lamports[a]
  <2> SUFFICES ASSUME a = b PROVE y = lamports[a]
    OBVIOUS
  <2>1. taken[b] = x
    BY DEF TransferType
  <2>2. lamports[a] \in U64
    BY DEF TransferType
  <2> QED
    BY <2>1, <2>2, TakenAndPutBack
<1>6. a # b => y = (lamports[b] + n) % Width
  BY DEF TransferType
<1> HIDE DEF x, y
<1>7. a = b => [taken EXCEPT ![b] = y] = lamports
  BY <1>5 DEF TransferType
<1>8. a # b => [taken EXCEPT ![b] = y] = [lamports EXCEPT ![a] = x, ![b] = y]
  BY DEF TransferType
<1>9. [taken EXCEPT ![b] = y] \in [Key -> U64]
  BY <1>3, <1>4
<1>10. a # b => [lamports EXCEPT ![a] = x, ![b] = y]
                  = [lamports EXCEPT ![a] = (lamports[a] - n) % Width,
                                     ![b] = (lamports[b] + n) % Width]
  BY <1>6, Zenon DEF x
<1> QED
  BY <1>1, <1>7, <1>8, <1>9, <1>10, Zenon

\* Every port that gets through with a call leaves the same.
LEMMA OneOutcome ==
    ASSUME TransferType, NEW c \in Calls
    PROVE  \E x \in [Key -> U64] : \A port \in Ports : Outcomes(port, c) \subseteq {x, Failure}
<1>1. CASE Len(c.accounts) < 2
  <2>1. Len(c.accounts) \in Nat
    BY Starts
  <2>2. Rust(c) = {Failure} /\ Pinocchio(c) = {Failure} /\ Unchecked(c) = {Failure, lamports}
    BY <1>1, <2>1 DEF Rust, Pinocchio, Unchecked
  <2>3. Assembly(c) = {Failure}
    BY <1>1, <2>1, AssemblyMoves
  <2>4. \A port \in Ports : Outcomes(port, c) \subseteq {lamports, Failure}
    BY <2>2, <2>3 DEF Outcomes, Ports
  <2>5. lamports \in [Key -> U64]
    BY DEF TransferType
  <2> QED
    BY <2>4, <2>5
<1>2. CASE Len(c.accounts) >= 2
  <2> DEFINE m == Moved(c.amount, c.accounts[1], c.accounts[2])
  <2>1. m \in [Key -> U64] /\ (c.accounts[1] = c.accounts[2] => m = lamports)
    BY <1>2, CallAccounts, MovedTyped
  <2>2. Len(c.accounts) \in Nat
    BY Starts
  <2> HIDE DEF m
  <2>3. /\ Rust(c) \subseteq {m, Failure} /\ Pinocchio(c) \subseteq {m, Failure}
        /\ Unchecked(c) \subseteq {m, Failure}
    BY <1>2, <2>1, <2>2 DEF Rust, Pinocchio, Unchecked, m
  <2>4. Assembly(c) \subseteq {m, Failure}
    BY AssemblyMoves DEF m
  <2>5. \A port \in Ports : Outcomes(port, c) \subseteq {m, Failure}
    BY <2>3, <2>4 DEF Outcomes, Ports
  <2> QED
    BY <2>1, <2>5
<1>3. Len(c.accounts) \in Nat
  BY Starts
<1> QED
  BY <1>1, <1>2, <1>3

\* The calls of the README have the same outcome under every port.
LEMMA ProperOutcome ==
    ASSUME TransferType, NEW c \in Proper, NEW port \in Ports
    PROVE  Outcomes(port, c) = {Moved(c.amount, c.accounts[1], c.accounts[2])}
<1>1. /\ c \in Calls /\ c.length = 8 /\ Len(c.accounts) = 2
      /\ c.accounts[1] # c.accounts[2]
  BY DEF Proper
<1> DEFINE m == Moved(c.amount, c.accounts[1], c.accounts[2])
<1>2. Assembly(c) = {m}
  BY <1>1, AssemblyMoves
<1>3. Rust(c) = {m} /\ Pinocchio(c) = {m} /\ Unchecked(c) = {m}
  BY <1>1 DEF Rust, Pinocchio, Unchecked
<1> HIDE DEF m
<1>4. Outcomes(port, c) = {m}
  BY <1>2, <1>3 DEF Outcomes, Ports
<1> QED
  BY <1>4 DEF m

-----------------------------------------------------------------------------
(* transfer-lamports: the theorems.                                        *)

\* There are never more lamports than at genesis, so that an amount one account
\* can pay fits into any other.
TransferInv == TransferType /\ Total(lamports) <= U64Max

LEMMA TransferInvariant == AccountAssumption /\ Spec => []TransferInv
<1> SUFFICES ASSUME AccountAssumption PROVE Spec => []TransferInv
  OBVIOUS
<1>1. Init => TransferInv
  BY DEF Init, TransferInv, TransferType, AccountAssumption
<1>2. TransferInv /\ [Next]_vars => TransferInv'
  <2> SUFFICES ASSUME TransferInv, [Next]_vars PROVE TransferInv'
    OBVIOUS
  <2>1. CASE Next
    <3>1. PICK port \in Ports, c \in Calls : Invoke(port, c)
      BY <2>1 DEF Next
    <3>2. PICK left \in Outcomes(port, c) :
             left # Failure /\ Accepted(left) /\ lamports' = left
      BY <3>1 DEF Invoke, Committed
    <3>3. left \in [Key -> U64]
      BY <3>1, <3>2, OneOutcome DEF TransferInv
    <3>4. Total(left) = Total(lamports)
      BY <3>2 DEF Accepted
    <3>5. Total(lamports)' <= U64Max
      <4>1. Total(lamports)' = Total(left)
        BY <3>2
      <4> QED
        BY <3>4, <4>1 DEF TransferInv
    <3>6. TransferType'
      BY <3>1, <3>2, <3>3 DEF TransferInv, TransferType, Invoke
    <3> QED
      BY <3>5, <3>6 DEF TransferInv
  <2>2. CASE UNCHANGED vars
    BY <2>2 DEF TransferInv, TransferType, vars, Total, Units
  <2> QED
    BY <2>1, <2>2
<1> QED
  BY <1>1, <1>2, PTL DEF Spec

\* An amount the source can pay arrives under every port, whatever the sizes of
\* the accounts: no addition wraps around, the runtime accepts what is left, and
\* the assembly finds the second account and the data.
THEOREM AffordableArrive == AccountAssumption /\ Spec => []AffordableTransfersArrive
<1> SUFFICES ASSUME AccountAssumption PROVE Spec => []AffordableTransfersArrive
  OBVIOUS
<1>1. TransferInv => AffordableTransfersArrive
  <2> SUFFICES ASSUME TransferInv, NEW c \in Proper,
                      c.accounts[1] \in ProgramOwned \/ c.amount = 0,
                      c.amount <= lamports[c.accounts[1]],
                      NEW port \in Ports
               PROVE  Committed(port, c) =
                        {[lamports EXCEPT ![c.accounts[1]] = @ - c.amount,
                                          ![c.accounts[2]] = @ + c.amount]}
    BY DEF AffordableTransfersArrive
  <2> DEFINE a == c.accounts[1]
             b == c.accounts[2]
             n == c.amount
             m == [lamports EXCEPT ![a] = lamports[a] - n, ![b] = lamports[b] + n]
  <2>1. TransferType /\ c \in Calls /\ Len(c.accounts) = 2 /\ a # b
    BY DEF TransferInv, Proper
  <2>2. a \in Key /\ b \in Key /\ n \in U64 /\ n <= lamports[a]
    BY <2>1, CallAccounts
  <2>3. Outcomes(port, c) = {Moved(n, a, b)}
    BY <2>1, ProperOutcome
  <2>4. a \in ProgramOwned \/ n = 0
    OBVIOUS
  <2>5. [lamports EXCEPT ![c.accounts[1]] = @ - c.amount,
                         ![c.accounts[2]] = @ + c.amount] = m
    BY <2>1, <2>2 DEF TransferType
  <2> HIDE DEF a, b, n
  <2>6. IsFiniteSet(Key) /\ lamports \in [Key -> U64]
    BY DEF TransferInv, TransferType, AccountAssumption
  <2>7. /\ lamports[a] \in Nat /\ lamports[b] \in Nat /\ n \in Nat
        /\ lamports[b] + n <= U64Max /\ lamports[a] <= U64Max
    <3>1. lamports[a] + lamports[b] <= Total(lamports)
      BY <2>1, <2>2, <2>6, TotalBoundsTwo, Zenon
    <3>2. Total(lamports) \in Nat /\ Total(lamports) <= U64Max
      BY <2>6, TotalType DEF TransferInv
    <3>3. lamports[a] \in U64 /\ lamports[b] \in U64
      BY <2>1, <2>2 DEF TransferType
    <3>4. lamports[a] \in Nat /\ lamports[b] \in Nat /\ n \in Nat /\ lamports[a] <= U64Max
      BY <2>2, <3>3, U64Assumption DEF U64
    <3> QED
      BY <2>2, <3>1, <3>2, <3>4, U64Assumption
  <2>8. Moved(n, a, b) = m
    <3>1. (lamports[a] - n) % Width = lamports[a] - n
      <4> DEFINE x == lamports[a] - n
      <4>1. x \in Int /\ x >= 0 /\ x < Width /\ Width \in Nat
        BY <2>2, <2>7, U64Assumption DEF Width
      <4> HIDE DEF x
      <4> QED
        <5>1. x % Width = x
          BY <4>1, Fits
        <5> QED
          BY <5>1 DEF x
    <3>2. (lamports[b] + n) % Width = lamports[b] + n
      <4> DEFINE x == lamports[b] + n
      <4>1. x \in Int /\ x >= 0 /\ x < Width /\ Width \in Nat
        BY <2>7, U64Assumption DEF Width
      <4> HIDE DEF x
      <4>2. x % Width = x
        BY <4>1, Fits
      <4> QED
        BY <4>2 DEF x
    <3>3. Moved(n, a, b) = [lamports EXCEPT ![a] = (lamports[a] - n) % Width,
                                            ![b] = (lamports[b] + n) % Width]
      BY <2>1, <2>2, MovedTyped
    <3> QED
      BY <3>1, <3>2, <3>3, Zenon
  <2>9. /\ m \in [Key -> U64]
        /\ m[a] = lamports[a] - n /\ m[b] = lamports[b] + n
        /\ \A k \in Key : k # a /\ k # b => m[k] = lamports[k]
    <3>1. Moved(n, a, b) \in [Key -> U64]
      BY <2>1, <2>2, MovedTyped
    <3>2. m \in [Key -> U64]
      BY <2>8, <3>1, Zenon
    <3> QED
      BY <2>1, <2>2, <3>2 DEF TransferType
  <2> HIDE DEF m
  <2>10. Accepted(m)
    <3>1. Total(m) = Total(lamports)
      BY <2>1, <2>2, <2>7, <2>9, <2>6, TotalMove
    <3>2. ASSUME NEW k \in Key, m[k] < lamports[k] PROVE k \in ProgramOwned
      <4>1. lamports[k] \in Int
        BY <2>1, U64Assumption DEF TransferType, U64
      <4>2. k = a /\ n # 0
        BY <2>7, <2>9, <3>2, <4>1
      <4> QED
        BY <2>4, <4>2
    <3> QED
      BY <3>1, <3>2 DEF Accepted
  <2>11. Committed(port, c) = {m}
    BY <2>3, <2>8, <2>10 DEF Committed
  <2> QED
    BY <2>5, <2>11
<1> QED
  BY <1>1, TransferInvariant, PTL

\* The calls of the README do the same under all five ports, and whatever the
\* call, the ports that accept it leave the same lamports.
THEOREM TransferPortsDoTheSame == AccountAssumption /\ Spec => []TransferPortsAgree
<1> SUFFICES ASSUME AccountAssumption PROVE Spec => []TransferPortsAgree
  OBVIOUS
<1>1. TransferInv => TransferPortsAgree
  <2> SUFFICES ASSUME TransferInv PROVE TransferPortsAgree
    OBVIOUS
  <2>1. ASSUME NEW c \in Proper, NEW port \in Ports
        PROVE  Committed(port, c) = Committed("Rust", c)
    <3>1. "Rust" \in Ports
      BY DEF Ports
    <3>2. Outcomes(port, c) = Outcomes("Rust", c)
      BY <3>1, ProperOutcome DEF TransferInv
    <3> QED
      BY <3>2 DEF Committed
  <2>2. ASSUME NEW c \in Calls
        PROVE  Cardinality((UNION {Committed(port, c) : port \in Ports}) \ {Failure}) <= 1
    <3> DEFINE left == (UNION {Committed(port, c) : port \in Ports}) \ {Failure}
    <3>1. PICK x : \A port \in Ports : Outcomes(port, c) \subseteq {x, Failure}
      BY OneOutcome DEF TransferInv
    <3>2. left \subseteq {x}
      BY <3>1 DEF Committed
    <3>3. IsFiniteSet({x}) /\ Cardinality({x}) = 1
      BY FS_Singleton
    <3> HIDE DEF left
    <3>4. Cardinality(left) <= 1
      BY <3>2, <3>3, FS_Subset
    <3> QED
      BY <3>4 DEF left
  <2> QED
    BY <2>1, <2>2 DEF TransferPortsAgree
<1> QED
  BY <1>1, TransferInvariant, PTL
=============================================================================
