--------------------------- MODULE StateCodecProofs ---------------------------
(***************************************************************************)
(* What the token program stores in an account is what it reads there, and *)
(* what it writes back unchanged changes no byte, for all addresses,       *)
(* amounts and bytes left behind by what was there before.                 *)
(***************************************************************************)
EXTENDS StateCodecProperties, SequenceTheorems, WellFoundedInduction, TLAPS

-----------------------------------------------------------------------------
(* Induction over a set of natural numbers.                                *)

LEMMA SmallestNumber ==
    ASSUME NEW T, T \subseteq Nat, T # {}
    PROVE  \E x \in T : \A y \in T : x <= y
<1>1. PICK x \in T : \A y \in T : ~(<<y, x>> \in OpToRel(<, Nat))
  BY NatLessThanWellFounded, WFMin
<1>2. \A y \in T : ~(y < x)
  BY <1>1 DEF OpToRel
<1> QED
  BY <1>2

LEMMA InductionInSet ==
    ASSUME NEW S, 0 \in S, \A n \in Nat : n \in S => n + 1 \in S
    PROVE  \A n \in Nat : n \in S
<1> SUFFICES ASSUME Nat \ S # {} PROVE FALSE
  OBVIOUS
<1>1. PICK x \in Nat \ S : \A y \in Nat \ S : x <= y
  BY SmallestNumber
<1>2. x # 0 /\ x - 1 \in Nat
  BY <1>1
<1>3. x - 1 \in S
  BY <1>1, <1>2
<1> QED
  BY <1>1, <1>2, <1>3

\* A function defined by recursion on a number exists.
Steps(S, n) == [1 .. n -> [S -> S]]

Follows(f, S, n, first, step) ==
    /\ f \in [0 .. n -> S]
    /\ f[0] = first
    /\ \A i \in 1 .. n : f[i] = step[i][f[i - 1]]

LEMMA RecursionExists ==
    ASSUME NEW S, NEW n \in Nat, NEW first \in S, NEW step \in Steps(S, n)
    PROVE  \E f : Follows(f, S, n, first, step)
<1> DEFINE Defined(k, f) == Follows(f, S, k, first, step)
           T == {k \in Nat : k <= n => \E f : Defined(k, f)}
<1>1. 0 \in T
  <2> DEFINE f == [i \in 0 .. 0 |-> first]
  <2>1. Defined(0, f)
    BY DEF Follows
  <2> HIDE DEF Defined, f
  <2> QED
    BY <2>1
<1>2. ASSUME NEW k \in Nat, k \in T PROVE k + 1 \in T
  <2>1. SUFFICES ASSUME k + 1 <= n PROVE \E f : Defined(k + 1, f)
    <3> HIDE DEF Defined
    <3> QED
      OBVIOUS
  <2>2. PICK f : Defined(k, f)
    <3> HIDE DEF Defined
    <3> QED
      BY <1>2, <2>1
  <2> DEFINE g == [i \in 0 .. k + 1 |-> IF i <= k THEN f[i] ELSE step[k + 1][f[k]]]
  <2>3. step[k + 1][f[k]] \in S /\ \A i \in 0 .. k : f[i] \in S
    BY <2>1, <2>2 DEF Follows, Steps
  <2>4. g \in [0 .. k + 1 -> S]
    BY <2>3
  <2>5. g[0] = first
    BY <2>2 DEF Follows
  <2>6. ASSUME NEW i \in 1 .. k PROVE g[i] = step[i][g[i - 1]]
    BY <2>2 DEF Follows
  <2>7. g[k + 1] = step[k + 1][g[k]]
    OBVIOUS
  <2>8. Defined(k + 1, g)
    <3> HIDE DEF g
    <3>1. ASSUME NEW i \in 1 .. k + 1 PROVE g[i] = step[i][g[i - 1]]
      BY <2>6, <2>7
    <3> QED
      BY <2>4, <2>5, <3>1 DEF Follows
  <2> HIDE DEF Defined
  <2> QED
    BY <2>8
<1>3. n \in T
  <2> HIDE DEF T
  <2> QED
    BY <1>1, <1>2, InductionInSet
<1> HIDE DEF Defined
<1>4. \E f : Defined(n, f)
  BY <1>3
<1> QED
  BY <1>4 DEF Defined

-----------------------------------------------------------------------------
(* Bytes and numbers.                                                      *)

LEMMA ByteRange == \A x : x \in Byte <=> x \in Nat /\ x < 256
BY DEF Byte

\* What is left of a number behind each of its bytes.
Remainders(rest, v, n) ==
    /\ rest \in [0 .. n -> Nat]
    /\ rest[0] = v
    /\ \A p \in 1 .. n : rest[p] = rest[p - 1] \div 256
    /\ LeBytes(v, n) = [p \in 1 .. n |-> rest[p - 1] % 256]

LEMMA BytesOfNumber ==
    ASSUME NEW n \in Nat, NEW v \in Nat
    PROVE  /\ LeBytes(v, n) \in [1 .. n -> Byte]
           /\ \E rest : Remainders(rest, v, n)
<1> DEFINE IsRest(r) == r = [p \in 0 .. n |-> IF p = 0 THEN v ELSE r[p - 1] \div 256]
           rest == CHOOSE r : IsRest(r)
           step == [p \in 1 .. n |-> [x \in Nat |-> x \div 256]]
<1>1. step \in Steps(Nat, n)
  BY DEF Steps
<1>2. \A p \in 1 .. n, x \in Nat : step[p][x] = x \div 256
  OBVIOUS
<1> HIDE DEF step
<1>3. PICK f : Follows(f, Nat, n, v, step)
  BY <1>1, RecursionExists, Zenon
<1>4. f = [p \in 0 .. n |-> IF p = 0 THEN v ELSE f[p - 1] \div 256]
  <2>1. ASSUME NEW p \in 1 .. n PROVE f[p] = f[p - 1] \div 256
    <3>1. f[p - 1] \in Nat /\ f[p] = step[p][f[p - 1]]
      BY <1>3 DEF Follows
    <3> QED
      BY <1>2, <3>1
  <2> QED
    BY <1>3, <2>1 DEF Follows
<1>5. IsRest(rest)
  <2>1. IsRest(f)
    BY <1>4
  <2> HIDE DEF IsRest
  <2> QED
    BY <2>1, Zenon
<1>6. LeBytes(v, n) = [p \in 1 .. n |-> rest[p - 1] % 256]
  BY DEF LeBytes
<1> HIDE DEF rest
<1>7. rest[0] = v /\ \A p \in 1 .. n : rest[p] = rest[p - 1] \div 256
  BY <1>5
<1>8. rest \in [0 .. n -> Nat]
  <2>1. rest = [p \in 0 .. n |-> rest[p]]
    BY <1>5
  <2> DEFINE S == {k \in Nat : k <= n => rest[k] \in Nat}
  <2>2. 0 \in S
    BY <1>7
  <2>3. ASSUME NEW k \in Nat, k \in S PROVE k + 1 \in S
    BY <1>7, <2>3
  <2>4. \A k \in Nat : k \in S
    <3> HIDE DEF S
    <3> QED
      BY <2>2, <2>3, InductionInSet
  <2> QED
    BY <2>1, <2>4
<1>9. \A p \in 1 .. n : rest[p - 1] % 256 \in Byte
  BY <1>8, ByteRange
<1>10. LeBytes(v, n) \in [1 .. n -> Byte]
  BY <1>6, <1>9
<1>11. Remainders(rest, v, n)
  BY <1>6, <1>7, <1>8, Zenon DEF Remainders
<1> QED
  BY <1>10, <1>11, Zenon

\* What the last bytes stand for.
Readings(last, b, n) ==
    /\ last \in [0 .. n -> Nat]
    /\ last[0] = 0
    /\ \A i \in 1 .. n : last[i] = b[n - i + 1] + 256 * last[i - 1]
    /\ FromLeBytes(b) = last[n]

LEMMA NumberOfBytes ==
    ASSUME NEW n \in Nat, NEW b \in [1 .. n -> Byte]
    PROVE  /\ FromLeBytes(b) \in Nat
           /\ \E last : Readings(last, b, n)
<1> DEFINE IsLast(f) ==
              f = [i \in 0 .. Len(b) |->
                     IF i = 0 THEN 0 ELSE b[Len(b) - i + 1] + 256 * f[i - 1]]
           last == CHOOSE f : IsLast(f)
           step == [i \in 1 .. n |-> [x \in Nat |-> b[n - i + 1] + 256 * x]]
<1>1. Len(b) = n
  OBVIOUS
<1>2. \A i \in 1 .. n : b[n - i + 1] \in Nat
  BY ByteRange
<1>3. step \in Steps(Nat, n)
  <2>1. ASSUME NEW i \in 1 .. n PROVE [x \in Nat |-> b[n - i + 1] + 256 * x] \in [Nat -> Nat]
    BY <1>2
  <2> QED
    BY <2>1 DEF Steps
<1>4. ASSUME NEW i \in 1 .. n, NEW x \in Nat PROVE step[i][x] = b[n - i + 1] + 256 * x
  OBVIOUS
<1> HIDE DEF step
<1>5. PICK f : Follows(f, Nat, n, 0, step)
  BY <1>3, RecursionExists, Zenon
<1>6. f = [i \in 0 .. n |-> IF i = 0 THEN 0 ELSE b[n - i + 1] + 256 * f[i - 1]]
  <2>1. ASSUME NEW i \in 1 .. n PROVE f[i] = b[n - i + 1] + 256 * f[i - 1]
    <3>1. f[i - 1] \in Nat /\ f[i] = step[i][f[i - 1]]
      BY <1>5 DEF Follows
    <3> QED
      BY <1>4, <3>1
  <2> QED
    BY <1>5, <2>1 DEF Follows
<1>7. IsLast(last)
  <2>1. IsLast(f)
    BY <1>1, <1>6
  <2> HIDE DEF IsLast
  <2> QED
    BY <2>1, Zenon
<1>8. FromLeBytes(b) = last[Len(b)]
  BY DEF FromLeBytes
<1> HIDE DEF last
<1>9. last[0] = 0 /\ \A i \in 1 .. n : last[i] = b[n - i + 1] + 256 * last[i - 1]
  BY <1>1, <1>7
<1>10. last \in [0 .. n -> Nat]
  <2>1. last = [i \in 0 .. n |-> last[i]]
    BY <1>1, <1>7
  <2> DEFINE S == {k \in Nat : k <= n => last[k] \in Nat}
  <2>2. 0 \in S
    BY <1>9
  <2>3. ASSUME NEW k \in Nat, k \in S PROVE k + 1 \in S
    BY <1>2, <1>9, <2>3
  <2>4. \A k \in Nat : k \in S
    <3> HIDE DEF S
    <3> QED
      BY <2>2, <2>3, InductionInSet
  <2> QED
    BY <2>1, <2>4
<1>11. FromLeBytes(b) = last[n] /\ last[n] \in Nat
  BY <1>1, <1>8, <1>10
<1>12. Readings(last, b, n)
  BY <1>9, <1>10, <1>11, Zenon DEF Readings
<1> QED
  BY <1>11, <1>12, Zenon

\* A number that leaves nothing behind its bytes is what they stand for.
LEMMA NumberIsRead ==
    ASSUME NEW n \in Nat, NEW v \in Nat, NEW rest, Remainders(rest, v, n), rest[n] = 0
    PROVE  FromLeBytes(LeBytes(v, n)) = v
<1> DEFINE b == LeBytes(v, n)
<1>1. b \in [1 .. n -> Byte]
  BY BytesOfNumber
<1>2. \A p \in 1 .. n : b[p] = rest[p - 1] % 256
  BY DEF Remainders
<1> HIDE DEF b
<1>3. PICK last : Readings(last, b, n)
  BY <1>1, NumberOfBytes, Zenon
<1> DEFINE S == {k \in Nat : k <= n => last[k] = rest[n - k]}
<1>4. 0 \in S
  BY <1>3 DEF Readings
<1>5. ASSUME NEW k \in Nat, k \in S PROVE k + 1 \in S
  <2>1. SUFFICES ASSUME k + 1 <= n PROVE last[k + 1] = rest[n - k - 1]
    OBVIOUS
  <2>2. last[k] = rest[n - k]
    BY <1>5, <2>1
  <2>3. last[k + 1] = b[n - k] + 256 * last[k]
    BY <1>3, <2>1 DEF Readings
  <2>4. b[n - k] = rest[n - k - 1] % 256
    BY <1>2, <2>1
  <2>5. rest[n - k] = rest[n - k - 1] \div 256 /\ rest[n - k - 1] \in Nat
    BY <2>1 DEF Remainders
  <2>6. \A r \in Nat : (r % 256) + 256 * (r \div 256) = r
    OBVIOUS
  <2> QED
    BY <2>2, <2>3, <2>4, <2>5, <2>6
<1>6. n \in S
  <2> HIDE DEF S
  <2> QED
    BY <1>4, <1>5, InductionInSet
<1> QED
  BY <1>3, <1>6 DEF b, Readings, Remainders

\* A number that its bytes stand for leaves nothing behind them.
LEMMA NothingRemains ==
    ASSUME NEW n \in Nat, NEW u \in Nat, NEW rest, Remainders(rest, u, n),
           FromLeBytes(LeBytes(u, n)) = u
    PROVE  rest[n] = 0
<1> DEFINE b == LeBytes(u, n)
<1>1. b \in [1 .. n -> Byte]
  BY BytesOfNumber
<1>2. \A p \in 1 .. n : b[p] = rest[p - 1] % 256
  BY DEF Remainders
<1>3. FromLeBytes(b) = u
  OBVIOUS
<1> HIDE DEF b
<1>4. PICK last : Readings(last, b, n)
  BY <1>1, NumberOfBytes, Zenon
<1> DEFINE S == {k \in Nat : k <= n => last[k] + rest[n] <= rest[n - k]}
<1>5. 0 \in S
  BY <1>4 DEF Readings, Remainders
<1>6. ASSUME NEW k \in Nat, k \in S PROVE k + 1 \in S
  <2>1. SUFFICES ASSUME k + 1 <= n PROVE last[k + 1] + rest[n] <= rest[n - k - 1]
    OBVIOUS
  <2>2. last[k] + rest[n] <= rest[n - k]
    BY <1>6, <2>1
  <2>3. last[k + 1] = b[n - k] + 256 * last[k]
    BY <1>4, <2>1 DEF Readings
  <2>4. b[n - k] = rest[n - k - 1] % 256
    BY <1>2, <2>1
  <2>5. rest[n - k] = rest[n - k - 1] \div 256 /\ rest[n - k - 1] \in Nat /\ rest[n] \in Nat
    BY <2>1 DEF Remainders
  <2>6. \A r \in Nat : (r % 256) + 256 * (r \div 256) = r
    OBVIOUS
  <2>7. last[k] \in Nat
    BY <1>4, <2>1 DEF Readings
  <2> QED
    BY <2>2, <2>3, <2>4, <2>5, <2>6, <2>7
<1>7. n \in S
  <2> HIDE DEF S
  <2> QED
    BY <1>5, <1>6, InductionInSet
<1>8. last[n] = u /\ rest[0] = u /\ rest[n] \in Nat
  BY <1>3, <1>4 DEF Readings, Remainders
<1> QED
  BY <1>7, <1>8

\* Bytes that hold a number hold every smaller one.
LEMMA SmallerNumberIsRead ==
    ASSUME NEW n \in Nat, NEW u \in Nat, FromLeBytes(LeBytes(u, n)) = u,
           NEW v \in Nat, v <= u
    PROVE  FromLeBytes(LeBytes(v, n)) = v
<1>1. PICK r : Remainders(r, u, n)
  BY BytesOfNumber, Zenon
<1>2. PICK s : Remainders(s, v, n)
  BY BytesOfNumber, Zenon
<1>3. r[n] = 0
  BY <1>1, NothingRemains, Zenon
<1> DEFINE S == {k \in Nat : k <= n => s[k] <= r[k]}
<1>4. 0 \in S
  BY <1>1, <1>2 DEF Remainders
<1>5. ASSUME NEW k \in Nat, k \in S PROVE k + 1 \in S
  <2>1. SUFFICES ASSUME k + 1 <= n PROVE s[k + 1] <= r[k + 1]
    OBVIOUS
  <2>2. s[k] \in Nat /\ r[k] \in Nat /\ s[k] <= r[k]
    BY <1>1, <1>2, <1>5, <2>1 DEF Remainders
  <2>3. s[k + 1] = s[k] \div 256 /\ r[k + 1] = r[k] \div 256
    BY <1>1, <1>2, <2>1 DEF Remainders
  <2> QED
    BY <2>2, <2>3
<1>6. n \in S
  <2> HIDE DEF S
  <2> QED
    BY <1>4, <1>5, InductionInSet
<1>7. s[n] = 0
  BY <1>2, <1>3, <1>6 DEF Remainders
<1> QED
  BY <1>2, <1>7, NumberIsRead, Zenon

\* Bytes are those of the number they stand for.
LEMMA BytesAreWritten ==
    ASSUME NEW n \in Nat, NEW b \in [1 .. n -> Byte]
    PROVE  LeBytes(FromLeBytes(b), n) = b
<1> DEFINE v == FromLeBytes(b)
<1>1. v \in Nat
  BY NumberOfBytes
<1> HIDE DEF v
<1>2. PICK last : Readings(last, b, n)
  BY NumberOfBytes, Zenon
<1>3. PICK rest : Remainders(rest, v, n)
  BY <1>1, BytesOfNumber, Zenon
<1>4. ASSUME NEW p \in 1 .. n
      PROVE  /\ last[n - p + 1] % 256 = b[p]
             /\ last[n - p + 1] \div 256 = last[n - p]
  <2>1. last[n - p] \in Nat /\ last[n - p + 1] = b[n - (n - p + 1) + 1] + 256 * last[n - p]
    BY <1>2 DEF Readings
  <2>2. n - (n - p + 1) + 1 = p
    OBVIOUS
  <2>3. b[p] \in Nat /\ b[p] < 256
    BY ByteRange
  <2> DEFINE byte == b[p]
             number == last[n - p]
             both == last[n - p + 1]
  <2>5. byte \in Nat /\ byte < 256 /\ number \in Nat /\ both = byte + 256 * number
    BY <2>1, <2>2, <2>3
  <2> HIDE DEF byte, number, both
  <2>4. \A x, y \in Nat : x < 256 => (x + 256 * y) % 256 = x /\ (x + 256 * y) \div 256 = y
    OBVIOUS
  <2>6. both % 256 = byte /\ both \div 256 = number
    BY <2>4, <2>5
  <2> QED
    BY <2>6 DEF byte, number, both
<1> DEFINE S == {k \in Nat : k <= n => rest[k] = last[n - k]}
<1>5. 0 \in S
  BY <1>2, <1>3 DEF Readings, Remainders, v
<1>6. ASSUME NEW k \in Nat, k \in S PROVE k + 1 \in S
  <2>1. SUFFICES ASSUME k + 1 <= n PROVE rest[k + 1] = last[n - k - 1]
    OBVIOUS
  <2>2. rest[k + 1] = rest[k] \div 256 /\ rest[k] = last[n - k]
    BY <1>3, <1>6, <2>1 DEF Remainders
  <2>3. last[n - k] \div 256 = last[n - k - 1]
    BY <1>4, <2>1
  <2> QED
    BY <2>2, <2>3
<1>7. \A k \in Nat : k \in S
  <2> HIDE DEF S
  <2> QED
    BY <1>5, <1>6, InductionInSet
<1>8. ASSUME NEW p \in 1 .. n PROVE rest[p - 1] % 256 = b[p]
  <2>1. rest[p - 1] = last[n - p + 1]
    BY <1>7
  <2> QED
    BY <1>4, <2>1
<1>9. LeBytes(v, n) = [p \in 1 .. n |-> rest[p - 1] % 256]
  BY <1>3 DEF Remainders
<1> QED
  BY <1>8, <1>9 DEF v

-----------------------------------------------------------------------------
(* Pieces of bytes.                                                        *)

Bytes == Seq(Byte)

Cut(b, m, n) == SubSeq(b, m, n)

CutsAt(end, w, n, b) ==
    /\ end \in [0 .. n -> Nat]
    /\ end[0] = 0
    /\ \A i \in 1 .. n : end[i] = end[i - 1] + w[i]
    /\ Pieces(b, w) = [i \in 1 .. n |-> SubSeq(b, end[i - 1] + 1, end[i])]

\* Pieces cuts where the widths end.
LEMMA PiecesEnd ==
    ASSUME NEW n \in Nat, NEW w \in [1 .. n -> Nat], NEW b
    PROVE  \E end : CutsAt(end, w, n, b)
<1> DEFINE IsEnd(e) == e = [i \in 0 .. Len(w) |-> IF i = 0 THEN 0 ELSE e[i - 1] + w[i]]
           end == CHOOSE e : IsEnd(e)
           step == [i \in 1 .. n |-> [x \in Nat |-> x + w[i]]]
<1>1. Len(w) = n /\ DOMAIN w = 1 .. n
  OBVIOUS
<1>2. step \in Steps(Nat, n)
  <2>1. ASSUME NEW i \in 1 .. n PROVE [x \in Nat |-> x + w[i]] \in [Nat -> Nat]
    OBVIOUS
  <2> QED
    BY <2>1 DEF Steps
<1>3. ASSUME NEW i \in 1 .. n, NEW x \in Nat PROVE step[i][x] = x + w[i]
  OBVIOUS
<1> HIDE DEF step
<1>4. PICK f : Follows(f, Nat, n, 0, step)
  BY <1>2, RecursionExists, Zenon
<1>5. f = [i \in 0 .. n |-> IF i = 0 THEN 0 ELSE f[i - 1] + w[i]]
  <2>1. ASSUME NEW i \in 1 .. n PROVE f[i] = f[i - 1] + w[i]
    <3>1. f[i - 1] \in Nat /\ f[i] = step[i][f[i - 1]]
      BY <1>4 DEF Follows
    <3> QED
      BY <1>3, <3>1
  <2> QED
    BY <1>4, <2>1 DEF Follows
<1>6. IsEnd(end)
  <2>1. IsEnd(f)
    BY <1>1, <1>5
  <2> HIDE DEF IsEnd
  <2> QED
    BY <2>1, Zenon
<1>7. Pieces(b, w) = [i \in DOMAIN w |-> SubSeq(b, end[i - 1] + 1, end[i])]
  BY DEF Pieces
<1> HIDE DEF end
<1>8. end[0] = 0 /\ \A i \in 1 .. n : end[i] = end[i - 1] + w[i]
  BY <1>1, <1>6
<1>9. end \in [0 .. n -> Nat]
  <2>1. end = [i \in 0 .. n |-> end[i]]
    BY <1>1, <1>6
  <2> DEFINE S == {k \in Nat : k <= n => end[k] \in Nat}
  <2>2. 0 \in S
    BY <1>8
  <2>3. ASSUME NEW k \in Nat, k \in S PROVE k + 1 \in S
    BY <1>8, <2>3
  <2>4. \A k \in Nat : k \in S
    <3> HIDE DEF S
    <3> QED
      BY <2>2, <2>3, InductionInSet
  <2> QED
    BY <2>1, <2>4
<1>10. CutsAt(end, w, n, b)
  BY <1>1, <1>7, <1>8, <1>9, Zenon DEF CutsAt
<1> QED
  BY <1>10, Zenon

\* The fields of a mint and of an account.
LEMMA MintPieces ==
    ASSUME NEW b
    PROVE  /\ Pieces(b, MintWidths)[1] = Cut(b, 1, 36)
           /\ Pieces(b, MintWidths)[2] = Cut(b, 37, 44)
           /\ Pieces(b, MintWidths)[3] = Cut(b, 45, 45)
           /\ Pieces(b, MintWidths)[4] = Cut(b, 46, 46)
           /\ Pieces(b, MintWidths)[5] = Cut(b, 47, 82)
<1> DEFINE w == MintWidths
<1>1. w \in [1 .. 5 -> Nat]
  BY DEF MintWidths
<1>2. w[1] = 36 /\ w[2] = 8 /\ w[3] = 1 /\ w[4] = 1 /\ w[5] = 36
  BY DEF MintWidths
<1> HIDE DEF w
<1>3. PICK end : CutsAt(end, w, 5, b)
  <2>1. 5 \in Nat
    OBVIOUS
  <2> QED
    BY <1>1, <2>1, PiecesEnd, Zenon
<1>4. end[0] = 0 /\ end[1] = 36 /\ end[2] = 44 /\ end[3] = 45 /\ end[4] = 46 /\ end[5] = 82
  <2>1. \A i \in 1 .. 5 : end[i] = end[i - 1] + w[i]
    BY <1>3 DEF CutsAt
  <2>2. end[0] = 0
    BY <1>3 DEF CutsAt
  <2> HIDE DEF w
  <2> QED
    BY <1>2, <2>1, <2>2
<1>5. ASSUME NEW i \in 1 .. 5 PROVE Pieces(b, w)[i] = Cut(b, end[i - 1] + 1, end[i])
  BY <1>3 DEF CutsAt, Cut
<1>6. /\ Pieces(b, w)[1] = Cut(b, end[0] + 1, end[1])
      /\ Pieces(b, w)[2] = Cut(b, end[1] + 1, end[2])
      /\ Pieces(b, w)[3] = Cut(b, end[2] + 1, end[3])
      /\ Pieces(b, w)[4] = Cut(b, end[3] + 1, end[4])
      /\ Pieces(b, w)[5] = Cut(b, end[4] + 1, end[5])
  BY <1>5
<1> QED
  BY <1>4, <1>6 DEF w

LEMMA AccountPieces ==
    ASSUME NEW b
    PROVE  /\ Pieces(b, AccountWidths)[1] = Cut(b, 1, 32)
           /\ Pieces(b, AccountWidths)[2] = Cut(b, 33, 64)
           /\ Pieces(b, AccountWidths)[3] = Cut(b, 65, 72)
           /\ Pieces(b, AccountWidths)[4] = Cut(b, 73, 108)
           /\ Pieces(b, AccountWidths)[5] = Cut(b, 109, 109)
           /\ Pieces(b, AccountWidths)[6] = Cut(b, 110, 121)
           /\ Pieces(b, AccountWidths)[7] = Cut(b, 122, 129)
           /\ Pieces(b, AccountWidths)[8] = Cut(b, 130, 165)
<1> DEFINE w == AccountWidths
<1>1. w \in [1 .. 8 -> Nat]
  BY DEF AccountWidths
<1>2. /\ w[1] = 32 /\ w[2] = 32 /\ w[3] = 8 /\ w[4] = 36
      /\ w[5] = 1 /\ w[6] = 12 /\ w[7] = 8 /\ w[8] = 36
  BY DEF AccountWidths
<1> HIDE DEF w
<1>3. PICK end : CutsAt(end, w, 8, b)
  <2>1. 8 \in Nat
    OBVIOUS
  <2> QED
    BY <1>1, <2>1, PiecesEnd, Zenon
<1>4. /\ end[0] = 0 /\ end[1] = 32 /\ end[2] = 64 /\ end[3] = 72 /\ end[4] = 108
      /\ end[5] = 109 /\ end[6] = 121 /\ end[7] = 129 /\ end[8] = 165
  <2>1. \A i \in 1 .. 8 : end[i] = end[i - 1] + w[i]
    BY <1>3 DEF CutsAt
  <2>2. end[0] = 0
    BY <1>3 DEF CutsAt
  <2> HIDE DEF w
  <2> QED
    BY <1>2, <2>1, <2>2
<1>5. ASSUME NEW i \in 1 .. 8 PROVE Pieces(b, w)[i] = Cut(b, end[i - 1] + 1, end[i])
  BY <1>3 DEF CutsAt, Cut
<1>6. /\ Pieces(b, w)[1] = Cut(b, end[0] + 1, end[1])
      /\ Pieces(b, w)[2] = Cut(b, end[1] + 1, end[2])
      /\ Pieces(b, w)[3] = Cut(b, end[2] + 1, end[3])
      /\ Pieces(b, w)[4] = Cut(b, end[3] + 1, end[4])
      /\ Pieces(b, w)[5] = Cut(b, end[4] + 1, end[5])
      /\ Pieces(b, w)[6] = Cut(b, end[5] + 1, end[6])
      /\ Pieces(b, w)[7] = Cut(b, end[6] + 1, end[7])
      /\ Pieces(b, w)[8] = Cut(b, end[7] + 1, end[8])
  BY <1>5
<1> QED
  BY <1>4, <1>6 DEF w

\* A piece in the middle.
LEMMA Part ==
    ASSUME NEW b \in Bytes, NEW m \in Nat \ {0}, NEW n \in Nat, m <= n, n <= Len(b)
    PROVE  /\ SubSeq(b, m, n) \in Bytes
           /\ Len(SubSeq(b, m, n)) = n - m + 1
           /\ \A i \in 1 .. n - m + 1 : SubSeq(b, m, n)[i] = b[m + i - 1]
<1>1. \A i \in m .. n : b[i] \in Byte
  BY DEF Bytes
<1> QED
  BY <1>1, SubSeqProperties DEF Bytes

\* What is put behind something does not change it, and is found there.
LEMMA Joined ==
    ASSUME NEW s \in Bytes, NEW t \in Bytes
    PROVE  /\ s \o t \in Bytes
           /\ Len(s \o t) = Len(s) + Len(t)
           /\ SubSeq(s \o t, Len(s) + 1, Len(s) + Len(t)) = t
           /\ \A i \in Nat \ {0}, j \in Nat :
                 i <= j /\ j <= Len(s) => SubSeq(s \o t, i, j) = SubSeq(s, i, j)
<1> DEFINE st == s \o t
<1>1. /\ st \in Seq(Byte) /\ Len(st) = Len(s) + Len(t)
      /\ \A i \in 1 .. Len(s) + Len(t) : st[i] = IF i <= Len(s) THEN s[i] ELSE t[i - Len(s)]
  BY ConcatProperties DEF Bytes
<1>2. Len(s) \in Nat /\ Len(t) \in Nat
  BY DEF Bytes
<1> HIDE DEF st
<1>3. SubSeq(st, Len(s) + 1, Len(s) + Len(t)) = t
  <2> DEFINE u == SubSeq(st, Len(s) + 1, Len(s) + Len(t))
  <2>1. \A i \in Len(s) + 1 .. Len(s) + Len(t) : st[i] \in Byte
    BY <1>1, <1>2
  <2>2. /\ u \in Seq(Byte) /\ Len(u) = Len(t)
        /\ \A i \in 1 .. Len(t) : u[i] = st[Len(s) + i]
    BY <1>2, <2>1, SubSeqProperties
  <2> HIDE DEF u
  <2>3. ASSUME NEW i \in 1 .. Len(t) PROVE u[i] = t[i]
    <3> DEFINE j == Len(s) + i
    <3>1. j \in 1 .. Len(s) + Len(t) /\ j > Len(s) /\ j - Len(s) = i
      BY <1>2
    <3>2. u[i] = st[j]
      BY <2>2
    <3> HIDE DEF j
    <3> QED
      BY <1>1, <1>2, <3>1, <3>2
  <2> QED
    BY <2>2, <2>3, SeqEqual DEF Bytes, u
<1>4. ASSUME NEW i \in Nat \ {0}, NEW j \in Nat, i <= j, j <= Len(s)
      PROVE  SubSeq(st, i, j) = SubSeq(s, i, j)
  <2>1. st \in Bytes /\ j <= Len(st)
    BY <1>1, <1>2, <1>4 DEF Bytes
  <2> DEFINE u == SubSeq(st, i, j)
             v == SubSeq(s, i, j)
  <2>2. /\ u \in Bytes /\ Len(u) = j - i + 1
        /\ \A k \in 1 .. j - i + 1 : u[k] = st[i + k - 1]
    BY <1>4, <2>1, Part
  <2>3. /\ v \in Bytes /\ Len(v) = j - i + 1
        /\ \A k \in 1 .. j - i + 1 : v[k] = s[i + k - 1]
    BY <1>4, Part
  <2> HIDE DEF u, v
  <2>4. ASSUME NEW k \in 1 .. j - i + 1 PROVE u[k] = v[k]
    <3> DEFINE p == i + k - 1
    <3>1. p \in 1 .. Len(s) + Len(t) /\ p <= Len(s)
      BY <1>2, <1>4
    <3>2. u[k] = st[p] /\ v[k] = s[p]
      BY <2>2, <2>3
    <3> HIDE DEF p
    <3> QED
      BY <1>1, <3>1, <3>2
  <2> QED
    BY <2>2, <2>3, <2>4, SeqEqual DEF Bytes, u, v
<1> QED
  BY <1>1, <1>3, <1>4 DEF st, Bytes

LEMMA JoinedIsBytes ==
    ASSUME NEW s \in Bytes, NEW t \in Bytes
    PROVE  s \o t \in Bytes /\ Len(s \o t) = Len(s) + Len(t)
BY Joined, Zenon

LEMMA JoinedEnd ==
    ASSUME NEW s \in Bytes, NEW t \in Bytes, NEW m, NEW n, m = Len(s) + 1, n = Len(s) + Len(t)
    PROVE  SubSeq(s \o t, m, n) = t
BY Joined, Zenon

LEMMA JoinedPart ==
    ASSUME NEW s \in Bytes, NEW t \in Bytes,
           NEW i \in Nat \ {0}, NEW j \in Nat, i <= j, j <= Len(s)
    PROVE  SubSeq(s \o t, i, j) = SubSeq(s, i, j)
BY Joined

\* Two adjacent pieces.
LEMMA Adjacent ==
    ASSUME NEW b \in Bytes, NEW m \in Nat \ {0}, NEW k \in Nat, NEW n \in Nat,
           m <= k, k < n, n <= Len(b)
    PROVE  SubSeq(b, m, k) \o SubSeq(b, k + 1, n) = SubSeq(b, m, n)
<1>1. m \in 1 .. Len(b) + 1 /\ k \in m - 1 .. Len(b) /\ n \in k .. Len(b)
  BY DEF Bytes
<1> QED
  BY <1>1, ConcatAdjacentSubSeq DEF Bytes

-----------------------------------------------------------------------------
(* Fields.                                                                 *)

Pubkey == [1 .. 32 -> Byte]

LEMMA PubkeyIsBytes ==
    ASSUME NEW k
    PROVE  k \in Pubkey <=> k \in Bytes /\ Len(k) = 32
<1> DEFINE n == 32
<1>1. ASSUME k \in [1 .. n -> Byte] PROVE k \in Seq(Byte) /\ Len(k) = n
  <2>1. n \in Nat
    OBVIOUS
  <2> HIDE DEF n
  <2> QED
    BY <1>1, <2>1
<1>2. ASSUME k \in Bytes PROVE k \in [1 .. Len(k) -> Byte]
  BY <1>2, LenProperties DEF Bytes
<1> HIDE DEF n
<1> QED
  BY <1>1, <1>2 DEF Pubkey, Bytes, n

\* What the constants stand for cannot be mistaken for something else.
LEMMA NoValue ==
    ASSUME WidthAssumption
    PROVE  /\ None # InvalidAccountData
           /\ \A k \in Pubkey : k # None /\ k # InvalidAccountData
           /\ \A n \in Nat : n # None /\ n # InvalidAccountData
           /\ Key \subseteq Pubkey
BY DEF WidthAssumption, Pubkey

LEMMA ZerosAreBytes ==
    ASSUME NEW n \in Nat
    PROVE  Zeros(n) \in Bytes /\ Len(Zeros(n)) = n /\ Zeros(n) \in [1 .. n -> Byte]
<1>1. Zeros(n) \in [1 .. n -> Byte]
  BY ByteRange DEF Zeros
<1> QED
  BY <1>1 DEF Bytes, Zeros

LEMMA SomeTagIsNotZero ==
    SomeTag \in Bytes /\ Len(SomeTag) = 4 /\ SomeTag # Zeros(4)
<1>1. SomeTag \in Seq(Byte) /\ Len(SomeTag) = 4
  BY ByteRange DEF SomeTag
<1>2. SomeTag[1] = 1 /\ Zeros(4)[1] = 0
  BY DEF SomeTag, Zeros
<1> QED
  BY <1>1, <1>2 DEF Bytes

\* A tag of four bytes and a body.
LEMMA TagAndBody ==
    ASSUME NEW s \in Bytes, Len(s) = 4, NEW t \in Bytes
    PROVE  Take(s \o t, 4) = s /\ Drop(s \o t, 4) = t
<1>1. 1 \in Nat \ {0} /\ 4 \in Nat /\ 1 <= 4 /\ 4 <= Len(s)
  OBVIOUS
<1>2. SubSeq(s \o t, 1, 4) = SubSeq(s, 1, 4)
  BY <1>1, JoinedPart, Zenon
<1>3. SubSeq(s, 1, 4) = s
  BY SubSeqFull DEF Bytes
<1>4. Len(s \o t) = Len(s) + Len(t)
  BY JoinedIsBytes, Zenon
<1> DEFINE m == 4 + 1
<1>5. m = Len(s) + 1
  OBVIOUS
<1> HIDE DEF m
<1>6. SubSeq(s \o t, m, Len(s \o t)) = t
  BY <1>4, <1>5, JoinedEnd
<1> QED
  BY <1>2, <1>3, <1>6, Zenon DEF Take, Drop, m

LEMMA BodyBehindTag ==
    ASSUME NEW n \in Nat \ {0}, NEW f \in Bytes, Len(f) = 4 + n
    PROVE  /\ Take(f, 4) \in Bytes /\ Len(Take(f, 4)) = 4
           /\ Drop(f, 4) \in Bytes /\ Len(Drop(f, 4)) = n
           /\ Take(f, 4) \o Drop(f, 4) = f
<1>1. SubSeq(f, 1, 4) \in Bytes /\ Len(SubSeq(f, 1, 4)) = 4
  BY Part
<1>2. SubSeq(f, 5, Len(f)) \in Bytes /\ Len(SubSeq(f, 5, Len(f))) = n
  BY Part
<1>3. SubSeq(f, 1, 4) \o SubSeq(f, 5, Len(f)) = SubSeq(f, 1, Len(f))
  BY Adjacent
<1>4. SubSeq(f, 1, Len(f)) = f
  BY SubSeqFull DEF Bytes
<1> QED
  BY <1>1, <1>2, <1>3, <1>4 DEF Take, Drop

\* An optional key is read as it was written, and written as it was read.
LEMMA OptionKeyIsRead ==
    ASSUME WidthAssumption, NEW f \in Bytes, Len(f) = 36, NEW key \in Pubkey \cup {None}
    PROVE  /\ PackOptionKey(key, f) \in Bytes
           /\ Len(PackOptionKey(key, f)) = 36
           /\ UnpackOptionKey(PackOptionKey(key, f)) = key
<1> DEFINE none == Zeros(4)
           body == Drop(f, 4)
<1>1. /\ none \in Bytes /\ Len(none) = 4
      /\ SomeTag \in Bytes /\ Len(SomeTag) = 4 /\ SomeTag # none
  BY ZerosAreBytes, SomeTagIsNotZero
<1>2. body \in Bytes /\ Len(body) = 32
  <2>1. 32 \in Nat \ {0} /\ Len(f) = 4 + 32
    OBVIOUS
  <2> QED
    BY <2>1, BodyBehindTag, Zenon
<1>3. CASE key = None
  <2>1. PackOptionKey(key, f) = none \o body
    BY <1>3 DEF PackOptionKey
  <2>2. ASSUME NEW src, Take(src, 4) = none PROVE UnpackOptionKey(src) = None
    <3> DEFINE tag == Take(src, 4)
    <3>1. UnpackOptionKey(src) =
            CASE tag = none    -> None
              [] tag = SomeTag -> Drop(src, 4)
              [] OTHER         -> InvalidAccountData
      BY Zenon DEF UnpackOptionKey
    <3> HIDE DEF none
    <3> QED
      BY <1>1, <2>2, <3>1
  <2> HIDE DEF none, body
  <2>3. UnpackOptionKey(none \o body) = None
    BY <1>1, <1>2, <2>2, TagAndBody, Zenon
  <2>4. none \o body \in Bytes /\ Len(none \o body) = Len(none) + Len(body)
    BY <1>1, <1>2, JoinedIsBytes, Zenon
  <2> QED
    BY <1>1, <1>2, <1>3, <2>1, <2>3, <2>4
<1>4. CASE key \in Pubkey
  <2>1. key # None
    BY <1>4, NoValue
  <2>2. PackOptionKey(key, f) = SomeTag \o key
    BY <2>1 DEF PackOptionKey
  <2>3. key \in Bytes /\ Len(key) = 32
    BY <1>4, PubkeyIsBytes
  <2>4. Take(SomeTag \o key, 4) = SomeTag /\ Drop(SomeTag \o key, 4) = key
    BY <1>1, <2>3, TagAndBody, Zenon
  <2>5. UnpackOptionKey(SomeTag \o key) = key
    BY <1>1, <2>4 DEF UnpackOptionKey
  <2>6. SomeTag \o key \in Bytes /\ Len(SomeTag \o key) = Len(SomeTag) + Len(key)
    BY <1>1, <2>3, JoinedIsBytes, Zenon
  <2> QED
    BY <1>1, <2>2, <2>3, <2>5, <2>6
<1> QED
  BY <1>3, <1>4

LEMMA OptionKeyIsWritten ==
    ASSUME WidthAssumption, NEW f \in Bytes, Len(f) = 36,
           UnpackOptionKey(f) # InvalidAccountData
    PROVE  /\ UnpackOptionKey(f) \in Pubkey \cup {None}
           /\ PackOptionKey(UnpackOptionKey(f), f) = f
<1> DEFINE tag == Take(f, 4)
           body == Drop(f, 4)
           none == Zeros(4)
<1>1. body \in Bytes /\ Len(body) = 32 /\ tag \o body = f
  <2>1. 32 \in Nat \ {0} /\ Len(f) = 4 + 32
    OBVIOUS
  <2> QED
    BY <2>1, BodyBehindTag, Zenon
<1>2. UnpackOptionKey(f) =
        CASE tag = none    -> None
          [] tag = SomeTag -> body
          [] OTHER         -> InvalidAccountData
  BY Zenon DEF UnpackOptionKey
<1>3. \A key : PackOptionKey(key, f) = IF key = None THEN none \o body ELSE SomeTag \o key
  BY Zenon DEF PackOptionKey
<1>4. SomeTag # none
  BY SomeTagIsNotZero
<1> HIDE DEF tag, body, none
<1>5. CASE tag = none
  BY <1>1, <1>2, <1>3, <1>4, <1>5
<1>6. CASE tag = SomeTag
  <2>1. body \in Pubkey
    BY <1>1, PubkeyIsBytes
  <2>2. body # None
    BY <2>1, NoValue
  <2> QED
    BY <1>1, <1>2, <1>3, <1>4, <1>6, <2>1, <2>2
<1>7. CASE tag \notin {none, SomeTag}
  BY <1>2, <1>7
<1> QED
  BY <1>5, <1>6, <1>7

\* An amount.
LEMMA AmountIsRead ==
    ASSUME WidthAssumption, NEW v \in U64
    PROVE  /\ LeBytes(v, 8) \in Bytes /\ Len(LeBytes(v, 8)) = 8
           /\ FromLeBytes(LeBytes(v, 8)) = v
<1> DEFINE n == 8
<1>1. n \in Nat /\ v \in Nat /\ U64Max \in Nat /\ v <= U64Max
  BY U64Assumption DEF U64
<1>2. FromLeBytes(LeBytes(U64Max, n)) = U64Max
  BY Zenon DEF WidthAssumption
<1> HIDE DEF n
<1>3. FromLeBytes(LeBytes(v, n)) = v
  BY <1>1, <1>2, SmallerNumberIsRead, Zenon
<1>4. LeBytes(v, n) \in [1 .. n -> Byte]
  BY <1>1, BytesOfNumber, Zenon
<1>5. LeBytes(v, n) \in Seq(Byte) /\ Len(LeBytes(v, n)) = n
  BY <1>1, <1>4
<1> QED
  BY <1>3, <1>5, Zenon DEF n, Bytes

LEMMA AmountIsWritten ==
    ASSUME NEW b \in Bytes, Len(b) = 8
    PROVE  FromLeBytes(b) \in Nat /\ LeBytes(FromLeBytes(b), 8) = b
<1> DEFINE n == 8
<1>1. n \in Nat /\ Len(b) = n
  OBVIOUS
<1> HIDE DEF n
<1>2. b \in [1 .. n -> Byte]
  BY <1>1, LenProperties DEF Bytes
<1>3. FromLeBytes(b) \in Nat
  BY <1>1, <1>2, NumberOfBytes, Zenon
<1>4. LeBytes(FromLeBytes(b), n) = b
  BY <1>1, <1>2, BytesAreWritten, Zenon
<1> QED
  BY <1>3, <1>4, Zenon DEF n

\* An optional amount.
LEMMA OptionU64IsRead ==
    ASSUME WidthAssumption, NEW f \in Bytes, Len(f) = 12, NEW amount \in U64 \cup {None}
    PROVE  /\ PackOptionU64(amount, f) \in Bytes
           /\ Len(PackOptionU64(amount, f)) = 12
           /\ UnpackOptionU64(PackOptionU64(amount, f)) = amount
<1> DEFINE none == Zeros(4)
           body == Drop(f, 4)
           number == LeBytes(amount, 8)
<1>1. /\ none \in Bytes /\ Len(none) = 4
      /\ SomeTag \in Bytes /\ Len(SomeTag) = 4 /\ SomeTag # none
  BY ZerosAreBytes, SomeTagIsNotZero
<1>2. body \in Bytes /\ Len(body) = 8
  <2>1. 8 \in Nat \ {0} /\ Len(f) = 4 + 8
    OBVIOUS
  <2> QED
    BY <2>1, BodyBehindTag, Zenon
<1>3. ASSUME NEW src
      PROVE  UnpackOptionU64(src) =
               CASE Take(src, 4) = none    -> None
                 [] Take(src, 4) = SomeTag -> FromLeBytes(Drop(src, 4))
                 [] OTHER                  -> InvalidAccountData
  BY Zenon DEF UnpackOptionU64
<1>4. PackOptionU64(amount, f) = IF amount = None THEN none \o body ELSE SomeTag \o number
  BY Zenon DEF PackOptionU64
<1>5. CASE amount = None
  <2> HIDE DEF none, body
  <2> DEFINE src == none \o body
  <2>1. Take(src, 4) = none
    BY <1>1, <1>2, TagAndBody, Zenon
  <2>2. UnpackOptionU64(src) = None
    <3> DEFINE rest == FromLeBytes(Drop(src, 4))
    <3>1. UnpackOptionU64(src) =
            CASE Take(src, 4) = none    -> None
              [] Take(src, 4) = SomeTag -> rest
              [] OTHER                  -> InvalidAccountData
      BY <1>3, Zenon
    <3> HIDE DEF src, rest
    <3> QED
      BY <1>1, <2>1, <3>1
  <2>3. none \o body \in Bytes /\ Len(none \o body) = Len(none) + Len(body)
    BY <1>1, <1>2, JoinedIsBytes, Zenon
  <2> QED
    BY <1>1, <1>2, <1>4, <1>5, <2>2, <2>3
<1>6. CASE amount \in U64
  <2>1. number \in Bytes /\ Len(number) = 8 /\ FromLeBytes(number) = amount
    BY <1>6, AmountIsRead, Zenon
  <2>2. amount # None
    BY <1>6, NoValue, U64Assumption DEF U64
  <2> HIDE DEF none, body, number
  <2>3. Take(SomeTag \o number, 4) = SomeTag /\ Drop(SomeTag \o number, 4) = number
    BY <1>1, <2>1, TagAndBody, Zenon
  <2>4. UnpackOptionU64(SomeTag \o number) = amount
    <3> DEFINE src == SomeTag \o number
    <3>1. Take(src, 4) = SomeTag /\ Drop(src, 4) = number
      BY <2>3
    <3> HIDE DEF src
    <3>2. UnpackOptionU64(src) = amount
      BY <1>1, <1>3, <2>1, <3>1
    <3> QED
      BY <3>2 DEF src
  <2>5. SomeTag \o number \in Bytes /\ Len(SomeTag \o number) = Len(SomeTag) + Len(number)
    BY <1>1, <2>1, JoinedIsBytes, Zenon
  <2> QED
    BY <1>1, <1>4, <2>1, <2>2, <2>4, <2>5
<1> QED
  BY <1>5, <1>6

LEMMA OptionU64IsWritten ==
    ASSUME WidthAssumption, NEW f \in Bytes, Len(f) = 12,
           UnpackOptionU64(f) # InvalidAccountData
    PROVE  PackOptionU64(UnpackOptionU64(f), f) = f
<1> DEFINE tag == Take(f, 4)
           body == Drop(f, 4)
           none == Zeros(4)
<1>1. body \in Bytes /\ Len(body) = 8 /\ tag \o body = f
  <2>1. 8 \in Nat \ {0} /\ Len(f) = 4 + 8
    OBVIOUS
  <2> QED
    BY <2>1, BodyBehindTag, Zenon
<1>2. UnpackOptionU64(f) =
        CASE tag = none    -> None
          [] tag = SomeTag -> FromLeBytes(body)
          [] OTHER         -> InvalidAccountData
  BY Zenon DEF UnpackOptionU64
<1>3. \A amount : PackOptionU64(amount, f) =
        IF amount = None THEN none \o body ELSE SomeTag \o LeBytes(amount, 8)
  BY Zenon DEF PackOptionU64
<1>4. SomeTag # none
  BY SomeTagIsNotZero
<1> HIDE DEF tag, body, none
<1>5. CASE tag = none
  BY <1>1, <1>2, <1>3, <1>4, <1>5
<1>6. CASE tag = SomeTag
  <2> DEFINE number == FromLeBytes(body)
  <2>1. number \in Nat /\ LeBytes(number, 8) = body
    BY <1>1, AmountIsWritten, Zenon
  <2>2. number # None
    BY <2>1, NoValue
  <2>3. UnpackOptionU64(f) = number
    BY <1>2, <1>4, <1>6
  <2>4. PackOptionU64(number, f) =
          IF number = None THEN none \o body ELSE SomeTag \o LeBytes(number, 8)
    BY <1>3
  <2> HIDE DEF number
  <2>5. PackOptionU64(number, f) = SomeTag \o LeBytes(number, 8)
    BY <2>2, <2>4
  <2>6. SomeTag \o LeBytes(number, 8) = f
    BY <1>1, <1>6, <2>1, Zenon
  <2> QED
    BY <2>3, <2>5, <2>6
<1>7. CASE tag \notin {none, SomeTag}
  BY <1>2, <1>7
<1> QED
  BY <1>5, <1>6, <1>7

\* A byte, and a flag.
LEMMA ByteIsBytes ==
    ASSUME NEW x \in Byte
    PROVE  <<x>> \in Bytes /\ Len(<<x>>) = 1 /\ <<x>>[1] = x
BY DEF Bytes

LEMMA BytesAreByte ==
    ASSUME NEW b \in Bytes, Len(b) = 1
    PROVE  b[1] \in Byte /\ b = <<b[1]>>
<1>1. b[1] \in Byte
  BY DEF Bytes
<1>2. <<b[1]>> \in Seq(Byte) /\ Len(<<b[1]>>) = 1 /\ \A i \in 1 .. 1 : b[i] = <<b[1]>>[i]
  BY <1>1
<1> QED
  BY <1>1, <1>2, SeqEqual DEF Bytes

LEMMA BoolIsRead ==
    ASSUME NEW b \in BOOLEAN
    PROVE  /\ PackBool(b) \in Bytes /\ Len(PackBool(b)) = 1
           /\ IsBool(PackBool(b)) /\ (PackBool(b) = <<1>>) = b
<1>1. 0 \in Byte /\ 1 \in Byte
  BY ByteRange
<1>2. <<0>> \in Bytes /\ Len(<<0>>) = 1 /\ <<1>> \in Bytes /\ Len(<<1>>) = 1
  BY <1>1, ByteIsBytes
<1>3. <<0>> # <<1>>
  OBVIOUS
<1>4. CASE b
  <2>1. PackBool(b) = <<1>>
    BY <1>4 DEF PackBool
  <2> QED
    BY <1>2, <1>4, <2>1 DEF IsBool
<1>5. CASE ~b
  <2>1. PackBool(b) = <<0>>
    BY <1>5 DEF PackBool
  <2> QED
    BY <1>2, <1>3, <1>5, <2>1 DEF IsBool
<1> QED
  BY <1>4, <1>5

LEMMA BoolIsWritten ==
    ASSUME NEW b, IsBool(b)
    PROVE  PackBool(b = <<1>>) = b
<1>1. <<0>> # <<1>>
  OBVIOUS
<1>2. CASE b = <<1>>
  BY <1>2 DEF PackBool
<1>3. CASE b = <<0>>
  BY <1>1, <1>3 DEF PackBool
<1> QED
  BY <1>2, <1>3 DEF IsBool

-----------------------------------------------------------------------------
(* A mint.                                                                 *)

\* Wide and Join keep the provers from looking into sequences, as Cut does.
Wide(n) == {b \in Bytes : Len(b) = n}

Join(s, t) == s \o t

LEMMA JoinIsWide ==
    ASSUME NEW m \in Nat, NEW n \in Nat, NEW k, k = m + n, NEW s \in Wide(m), NEW t \in Wide(n)
    PROVE  Join(s, t) \in Wide(k)
<1>1. s \in Bytes /\ t \in Bytes /\ Len(s) = m /\ Len(t) = n
  BY Zenon DEF Wide
<1>2. s \o t \in Bytes /\ Len(s \o t) = Len(s) + Len(t)
  BY <1>1, JoinedIsBytes, Zenon
<1> QED
  BY <1>1, <1>2, Zenon DEF Wide, Join

LEMMA EndOfJoin ==
    ASSUME NEW m \in Nat, NEW n \in Nat, NEW i, i = m + 1, NEW k, k = m + n,
           NEW s \in Wide(m), NEW t \in Wide(n)
    PROVE  Cut(Join(s, t), i, k) = t
<1>1. s \in Bytes /\ t \in Bytes /\ Len(s) = m /\ Len(t) = n
  BY Zenon DEF Wide
<1>2. i = Len(s) + 1 /\ k = Len(s) + Len(t)
  BY <1>1
<1>3. SubSeq(s \o t, Len(s) + 1, Len(s) + Len(t)) = t
  BY <1>1, Joined, Zenon
<1>4. SubSeq(s \o t, i, k) = t
  BY <1>2, <1>3, Zenon
<1> QED
  BY <1>4, Zenon DEF Cut, Join

LEMMA CutOfJoin ==
    ASSUME NEW k \in Nat, NEW s \in Wide(k), NEW l \in Nat, NEW t \in Wide(l),
           NEW m \in Nat, NEW n \in Nat, 1 <= m, m <= n, n <= k
    PROVE  Cut(Join(s, t), m, n) = Cut(s, m, n)
<1>1. s \in Bytes /\ t \in Bytes /\ Len(s) = k
  BY Zenon DEF Wide
<1>2. m \in Nat \ {0} /\ n <= Len(s)
  BY <1>1
<1> QED
  BY <1>1, <1>2, JoinedPart, Zenon DEF Cut, Join

LEMMA CutIsWide ==
    ASSUME NEW k \in Nat, NEW b \in Wide(k),
           NEW m \in Nat, NEW n \in Nat, 1 <= m, m <= n, n <= k, NEW w, w = n - m + 1
    PROVE  Cut(b, m, n) \in Wide(w)
<1>1. b \in Bytes /\ Len(b) = k
  BY Zenon DEF Wide
<1>2. m \in Nat \ {0} /\ n <= Len(b)
  BY <1>1
<1>3. SubSeq(b, m, n) \in Bytes /\ Len(SubSeq(b, m, n)) = n - m + 1
  BY <1>1, <1>2, Part, Zenon
<1> QED
  BY <1>3, Zenon DEF Cut, Wide

LEMMA CutOfAll ==
    ASSUME NEW n \in Nat, NEW b \in Wide(n)
    PROVE  Cut(b, 1, n) = b
BY SubSeqFull DEF Cut, Wide, Bytes

LEMMA JoinOfCuts ==
    ASSUME NEW l \in Nat, NEW b \in Wide(l),
           NEW m \in Nat, NEW k \in Nat, NEW i \in Nat, NEW n \in Nat,
           1 <= m, m <= k, i = k + 1, i <= n, n <= l
    PROVE  Join(Cut(b, m, k), Cut(b, i, n)) = Cut(b, m, n)
<1>1. b \in Bytes /\ Len(b) = l
  BY Zenon DEF Wide
<1>2. m \in Nat \ {0} /\ k < n /\ n <= Len(b)
  BY <1>1
<1> QED
  BY <1>1, <1>2, Adjacent, Zenon DEF Cut, Join

\* Fields of their widths, one behind the other, are found again.
LEMMA MintOfParts ==
    ASSUME NEW p1 \in Wide(36), NEW p2 \in Wide(8), NEW p3 \in Wide(1), NEW p4 \in Wide(1),
           NEW p5 \in Wide(36)
    PROVE  LET b == Join(Join(Join(Join(p1, p2), p3), p4), p5)
           IN  /\ b \in Wide(82)
               /\ Cut(b, 1, 36) = p1 /\ Cut(b, 37, 44) = p2 /\ Cut(b, 45, 45) = p3
               /\ Cut(b, 46, 46) = p4 /\ Cut(b, 47, 82) = p5
<1> DEFINE s2 == Join(p1, p2)
           s3 == Join(s2, p3)
           s4 == Join(s3, p4)
           s5 == Join(s4, p5)
<1>1. s2 \in Wide(44) /\ Cut(s2, 1, 36) = p1 /\ Cut(s2, 37, 44) = p2
  BY JoinIsWide, EndOfJoin, CutOfJoin, CutOfAll
<1> HIDE DEF s2
<1>2. /\ s3 \in Wide(45)
      /\ Cut(s3, 1, 36) = p1 /\ Cut(s3, 37, 44) = p2 /\ Cut(s3, 45, 45) = p3
  BY <1>1, JoinIsWide, EndOfJoin, CutOfJoin
<1> HIDE DEF s3
<1>3. /\ s4 \in Wide(46)
      /\ Cut(s4, 1, 36) = p1 /\ Cut(s4, 37, 44) = p2 /\ Cut(s4, 45, 45) = p3
      /\ Cut(s4, 46, 46) = p4
  BY <1>2, JoinIsWide, EndOfJoin, CutOfJoin
<1> HIDE DEF s4
<1>4. /\ s5 \in Wide(82)
      /\ Cut(s5, 1, 36) = p1 /\ Cut(s5, 37, 44) = p2 /\ Cut(s5, 45, 45) = p3
      /\ Cut(s5, 46, 46) = p4 /\ Cut(s5, 47, 82) = p5
  BY <1>3, JoinIsWide, EndOfJoin, CutOfJoin
<1>5. s5 = Join(Join(Join(Join(p1, p2), p3), p4), p5)
  BY Zenon DEF s2, s3, s4
<1> HIDE DEF s5
<1> QED
  BY <1>4, <1>5

\* The fields of a mint, one behind the other, are the mint.
LEMMA PartsOfMint ==
    ASSUME NEW b \in Wide(82)
    PROVE  LET p1 == Cut(b, 1, 36)
               p2 == Cut(b, 37, 44)
               p3 == Cut(b, 45, 45)
               p4 == Cut(b, 46, 46)
               p5 == Cut(b, 47, 82)
           IN  /\ p1 \in Wide(36) /\ p2 \in Wide(8) /\ p3 \in Wide(1) /\ p4 \in Wide(1)
               /\ p5 \in Wide(36)
               /\ Join(Join(Join(Join(p1, p2), p3), p4), p5) = b
<1>1. /\ Join(Cut(b, 1, 36), Cut(b, 37, 44)) = Cut(b, 1, 44)
      /\ Join(Cut(b, 1, 44), Cut(b, 45, 45)) = Cut(b, 1, 45)
      /\ Join(Cut(b, 1, 45), Cut(b, 46, 46)) = Cut(b, 1, 46)
      /\ Join(Cut(b, 1, 46), Cut(b, 47, 82)) = Cut(b, 1, 82)
  BY JoinOfCuts
<1>2. Cut(b, 1, 82) = b
  BY CutOfAll
<1>3. /\ Cut(b, 1, 36) \in Wide(36) /\ Cut(b, 37, 44) \in Wide(8)
      /\ Cut(b, 45, 45) \in Wide(1) /\ Cut(b, 46, 46) \in Wide(1)
      /\ Cut(b, 47, 82) \in Wide(36)
  BY CutIsWide
<1> QED
  BY <1>1, <1>2, <1>3, Zenon

LEMMA FieldsAreWide ==
    ASSUME WidthAssumption
    PROVE  /\ \A f \in Wide(36), key \in OptionalKey :
                 PackOptionKey(key, f) \in Wide(36) /\ UnpackOptionKey(PackOptionKey(key, f)) = key
           /\ \A f \in Wide(12), amount \in U64 \cup {None} :
                 /\ PackOptionU64(amount, f) \in Wide(12)
                 /\ UnpackOptionU64(PackOptionU64(amount, f)) = amount
           /\ \A v \in U64 : LeBytes(v, 8) \in Wide(8) /\ FromLeBytes(LeBytes(v, 8)) = v
           /\ \A x \in Byte : <<x>> \in Wide(1) /\ <<x>>[1] = x
           /\ \A x \in BOOLEAN : /\ PackBool(x) \in Wide(1) /\ IsBool(PackBool(x))
                                 /\ (PackBool(x) = <<1>>) = x
           /\ \A key \in Key : key \in Wide(32)
<1>1. ASSUME NEW f \in Wide(36), NEW key \in OptionalKey
      PROVE  PackOptionKey(key, f) \in Wide(36) /\ UnpackOptionKey(PackOptionKey(key, f)) = key
  <2>1. f \in Bytes /\ Len(f) = 36
    BY Zenon DEF Wide
  <2>2. key \in Pubkey \cup {None}
    BY NoValue DEF OptionalKey
  <2> QED
    BY <2>1, <2>2, OptionKeyIsRead, Zenon DEF Wide
<1>2. ASSUME NEW f \in Wide(12), NEW amount \in U64 \cup {None}
      PROVE  /\ PackOptionU64(amount, f) \in Wide(12)
             /\ UnpackOptionU64(PackOptionU64(amount, f)) = amount
  <2>1. f \in Bytes /\ Len(f) = 12
    BY Zenon DEF Wide
  <2> QED
    BY <2>1, OptionU64IsRead, Zenon DEF Wide
<1>3. ASSUME NEW v \in U64
      PROVE  LeBytes(v, 8) \in Wide(8) /\ FromLeBytes(LeBytes(v, 8)) = v
  BY AmountIsRead, Zenon DEF Wide
<1>4. ASSUME NEW x \in Byte PROVE <<x>> \in Wide(1) /\ <<x>>[1] = x
  BY ByteIsBytes, Zenon DEF Wide
<1>5. ASSUME NEW x \in BOOLEAN
      PROVE  PackBool(x) \in Wide(1) /\ IsBool(PackBool(x)) /\ (PackBool(x) = <<1>>) = x
  BY BoolIsRead, Zenon DEF Wide
<1>6. ASSUME NEW key \in Key PROVE key \in Wide(32)
  <2>1. key \in Pubkey
    BY NoValue
  <2> QED
    BY <2>1, PubkeyIsBytes, Zenon DEF Wide
<1> QED
  BY <1>1, <1>2, <1>3, <1>4, <1>5, <1>6, Zenon

LEMMA WideFieldsAreWritten ==
    ASSUME WidthAssumption
    PROVE  /\ \A f \in Wide(36) : UnpackOptionKey(f) # InvalidAccountData =>
                 PackOptionKey(UnpackOptionKey(f), f) = f
           /\ \A f \in Wide(12) : UnpackOptionU64(f) # InvalidAccountData =>
                 PackOptionU64(UnpackOptionU64(f), f) = f
           /\ \A f \in Wide(8) : LeBytes(FromLeBytes(f), 8) = f
           /\ \A f \in Wide(1) : f[1] \in Byte /\ <<f[1]>> = f
           /\ \A f : IsBool(f) => PackBool(f = <<1>>) = f
<1>1. \A n : \A f \in Wide(n) : f \in Bytes /\ Len(f) = n
  BY Zenon DEF Wide
<1>2. \A f \in Wide(36) : UnpackOptionKey(f) # InvalidAccountData =>
         PackOptionKey(UnpackOptionKey(f), f) = f
  BY <1>1, OptionKeyIsWritten, Zenon
<1>3. \A f \in Wide(12) : UnpackOptionU64(f) # InvalidAccountData =>
         PackOptionU64(UnpackOptionU64(f), f) = f
  BY <1>1, OptionU64IsWritten, Zenon
<1>4. \A f \in Wide(8) : LeBytes(FromLeBytes(f), 8) = f
  BY <1>1, AmountIsWritten, Zenon
<1>5. \A f \in Wide(1) : f[1] \in Byte /\ <<f[1]>> = f
  BY <1>1, BytesAreByte, Zenon
<1>6. \A f : IsBool(f) => PackBool(f = <<1>>) = f
  BY BoolIsWritten, Zenon
<1> QED
  BY <1>2, <1>3, <1>4, <1>5, <1>6, Zenon

\* What unpack_from_slice makes of the fields of a mint.
MintOf(p1, p2, p3, p4, p5) ==
    IF \/ UnpackOptionKey(p1) = InvalidAccountData \/ ~IsBool(p4)
       \/ UnpackOptionKey(p5) = InvalidAccountData
    THEN InvalidAccountData
    ELSE [kind |-> "mint", mint_authority |-> UnpackOptionKey(p1),
          supply |-> FromLeBytes(p2), decimals |-> p3[1],
          is_initialized |-> p4 = <<1>>, freeze_authority |-> UnpackOptionKey(p5)]

LEMMA MintIsMadeOf ==
    ASSUME NEW b
    PROVE  UnpackMint(b) = MintOf(Cut(b, 1, 36), Cut(b, 37, 44), Cut(b, 45, 45),
                                  Cut(b, 46, 46), Cut(b, 47, 82))
<1> DEFINE f == Pieces(b, MintWidths)
<1>1. /\ f[1] = Cut(b, 1, 36) /\ f[2] = Cut(b, 37, 44) /\ f[3] = Cut(b, 45, 45)
      /\ f[4] = Cut(b, 46, 46) /\ f[5] = Cut(b, 47, 82)
  BY MintPieces, Zenon
<1>2. UnpackMint(b) = MintOf(f[1], f[2], f[3], f[4], f[5])
  BY Zenon DEF UnpackMint, MintOf
<1> QED
  BY <1>1, <1>2, Zenon

LEMMA MintIsMadeInto ==
    ASSUME NEW mint, NEW dst
    PROVE  PackMint(mint, dst) =
             Join(Join(Join(Join(PackOptionKey(mint.mint_authority, Cut(dst, 1, 36)),
                                 LeBytes(mint.supply, 8)),
                            <<mint.decimals>>),
                       PackBool(mint.is_initialized)),
                  PackOptionKey(mint.freeze_authority, Cut(dst, 47, 82)))
<1> DEFINE f == Pieces(dst, MintWidths)
<1>1. f[1] = Cut(dst, 1, 36) /\ f[5] = Cut(dst, 47, 82)
  BY MintPieces, Zenon
<1> QED
  BY <1>1, Zenon DEF PackMint, Join

LEMMA MintIsRead ==
    ASSUME WidthAssumption, NEW mint \in MintData, NEW dst \in Wide(82)
    PROVE  PackMint(mint, dst) \in Wide(82) /\ UnpackMint(PackMint(mint, dst)) = mint
<1> DEFINE p1 == PackOptionKey(mint.mint_authority, Cut(dst, 1, 36))
           p2 == LeBytes(mint.supply, 8)
           p3 == <<mint.decimals>>
           p4 == PackBool(mint.is_initialized)
           p5 == PackOptionKey(mint.freeze_authority, Cut(dst, 47, 82))
           b == Join(Join(Join(Join(p1, p2), p3), p4), p5)
<1>1. /\ mint.mint_authority \in OptionalKey /\ mint.freeze_authority \in OptionalKey
      /\ mint.supply \in U64 /\ mint.decimals \in Byte /\ mint.is_initialized \in BOOLEAN
      /\ mint = [kind |-> "mint", mint_authority |-> mint.mint_authority,
                 supply |-> mint.supply, decimals |-> mint.decimals,
                 is_initialized |-> mint.is_initialized,
                 freeze_authority |-> mint.freeze_authority]
  <2>1. Decimals \cup {0} \subseteq Byte
    BY ByteRange DEF WidthAssumption
  <2> QED
    BY <2>1 DEF MintData
<1>2. Cut(dst, 1, 36) \in Wide(36) /\ Cut(dst, 47, 82) \in Wide(36)
  BY CutIsWide
<1>3. p1 \in Wide(36) /\ p2 \in Wide(8) /\ p3 \in Wide(1) /\ p4 \in Wide(1) /\ p5 \in Wide(36)
  BY <1>1, <1>2, FieldsAreWide, Zenon
<1>4. /\ UnpackOptionKey(p1) = mint.mint_authority /\ FromLeBytes(p2) = mint.supply
      /\ p3[1] = mint.decimals /\ IsBool(p4) /\ (p4 = <<1>>) = mint.is_initialized
      /\ UnpackOptionKey(p5) = mint.freeze_authority
  BY <1>1, <1>2, FieldsAreWide, Zenon
<1>5. PackMint(mint, dst) = b
  BY MintIsMadeInto, Zenon
<1>6. InvalidAccountData \notin OptionalKey
  BY NoValue DEF OptionalKey
<1> HIDE DEF p1, p2, p3, p4, p5
<1>7. b \in Wide(82) /\ UnpackMint(b) = MintOf(p1, p2, p3, p4, p5)
  <2>1. /\ b \in Wide(82)
        /\ Cut(b, 1, 36) = p1 /\ Cut(b, 37, 44) = p2 /\ Cut(b, 45, 45) = p3
        /\ Cut(b, 46, 46) = p4 /\ Cut(b, 47, 82) = p5
    BY <1>3, MintOfParts
  <2> HIDE DEF b
  <2>2. UnpackMint(b) = MintOf(Cut(b, 1, 36), Cut(b, 37, 44), Cut(b, 45, 45),
                               Cut(b, 46, 46), Cut(b, 47, 82))
    BY MintIsMadeOf, Zenon
  <2> QED
    BY <2>1, <2>2
<1>8. MintOf(p1, p2, p3, p4, p5) = mint
  <2>1. /\ UnpackOptionKey(p1) # InvalidAccountData /\ IsBool(p4)
        /\ UnpackOptionKey(p5) # InvalidAccountData
    BY <1>1, <1>4, <1>6
  <2>2. MintOf(p1, p2, p3, p4, p5) =
          [kind |-> "mint", mint_authority |-> UnpackOptionKey(p1),
           supply |-> FromLeBytes(p2), decimals |-> p3[1],
           is_initialized |-> p4 = <<1>>, freeze_authority |-> UnpackOptionKey(p5)]
    BY <2>1, Zenon DEF MintOf
  <2> QED
    BY <1>1, <1>4, <2>2, Zenon
<1> QED
  BY <1>5, <1>7, <1>8, Zenon

LEMMA MintIsWritten ==
    ASSUME WidthAssumption, NEW b \in Wide(82), UnpackMint(b) # InvalidAccountData
    PROVE  PackMint(UnpackMint(b), b) = b
<1> DEFINE p1 == Cut(b, 1, 36)
           p2 == Cut(b, 37, 44)
           p3 == Cut(b, 45, 45)
           p4 == Cut(b, 46, 46)
           p5 == Cut(b, 47, 82)
           mint == UnpackMint(b)
<1>1. /\ p1 \in Wide(36) /\ p2 \in Wide(8) /\ p3 \in Wide(1) /\ p4 \in Wide(1)
      /\ p5 \in Wide(36) /\ Join(Join(Join(Join(p1, p2), p3), p4), p5) = b
  BY PartsOfMint, Zenon
<1>2. mint = MintOf(p1, p2, p3, p4, p5)
  BY MintIsMadeOf, Zenon
<1>3. PackMint(mint, b) =
        Join(Join(Join(Join(PackOptionKey(mint.mint_authority, p1), LeBytes(mint.supply, 8)),
                       <<mint.decimals>>),
                  PackBool(mint.is_initialized)),
             PackOptionKey(mint.freeze_authority, p5))
  BY MintIsMadeInto, Zenon
<1> HIDE DEF p1, p2, p3, p4, p5, mint
<1>4. /\ UnpackOptionKey(p1) # InvalidAccountData /\ IsBool(p4)
      /\ UnpackOptionKey(p5) # InvalidAccountData
  BY <1>2, Zenon DEF MintOf, mint
<1>5. /\ mint.mint_authority = UnpackOptionKey(p1) /\ mint.supply = FromLeBytes(p2)
      /\ mint.decimals = p3[1] /\ mint.is_initialized = (p4 = <<1>>)
      /\ mint.freeze_authority = UnpackOptionKey(p5)
  BY <1>2, <1>4 DEF MintOf
<1>6. /\ PackOptionKey(mint.mint_authority, p1) = p1 /\ LeBytes(mint.supply, 8) = p2
      /\ <<mint.decimals>> = p3 /\ PackBool(mint.is_initialized) = p4
      /\ PackOptionKey(mint.freeze_authority, p5) = p5
  BY <1>1, <1>4, <1>5, WideFieldsAreWritten, Zenon
<1>7. PackMint(mint, b) = b
  BY <1>1, <1>3, <1>6, Zenon
<1> QED
  BY <1>7 DEF mint

-----------------------------------------------------------------------------
(* An account.                                                             *)

LEMMA AccountOfParts ==
    ASSUME NEW p1 \in Wide(32), NEW p2 \in Wide(32), NEW p3 \in Wide(8), NEW p4 \in Wide(36),
           NEW p5 \in Wide(1), NEW p6 \in Wide(12), NEW p7 \in Wide(8), NEW p8 \in Wide(36)
    PROVE  LET b == Join(Join(Join(Join(Join(Join(Join(p1, p2), p3), p4), p5), p6), p7), p8)
           IN  /\ b \in Wide(165)
               /\ Cut(b, 1, 32) = p1 /\ Cut(b, 33, 64) = p2 /\ Cut(b, 65, 72) = p3
               /\ Cut(b, 73, 108) = p4 /\ Cut(b, 109, 109) = p5 /\ Cut(b, 110, 121) = p6
               /\ Cut(b, 122, 129) = p7 /\ Cut(b, 130, 165) = p8
<1> DEFINE s2 == Join(p1, p2)
           s3 == Join(s2, p3)
           s4 == Join(s3, p4)
           s5 == Join(s4, p5)
           s6 == Join(s5, p6)
           s7 == Join(s6, p7)
           s8 == Join(s7, p8)
<1>1. /\ s2 \in Wide(64)
      /\ Cut(s2, 1, 32) = p1 /\ Cut(s2, 33, 64) = p2
  BY JoinIsWide, EndOfJoin, CutOfJoin, CutOfAll
<1> HIDE DEF s2
<1>2. /\ s3 \in Wide(72)
      /\ Cut(s3, 1, 32) = p1 /\ Cut(s3, 33, 64) = p2 /\ Cut(s3, 65, 72) = p3
  BY <1>1, JoinIsWide, EndOfJoin, CutOfJoin
<1> HIDE DEF s3
<1>3. /\ s4 \in Wide(108)
      /\ Cut(s4, 1, 32) = p1 /\ Cut(s4, 33, 64) = p2 /\ Cut(s4, 65, 72) = p3
      /\ Cut(s4, 73, 108) = p4
  <2>1. s4 \in Wide(108) /\ Cut(s4, 73, 108) = p4
    BY <1>2, JoinIsWide, EndOfJoin
  <2>2. Cut(s4, 1, 32) = Cut(s3, 1, 32) /\ Cut(s4, 33, 64) = Cut(s3, 33, 64)
    BY <1>2, CutOfJoin
  <2>3. Cut(s4, 65, 72) = Cut(s3, 65, 72)
    BY <1>2, CutOfJoin
  <2> QED
    BY <1>2, <2>1, <2>2, <2>3, Zenon
<1> HIDE DEF s4
<1>4. /\ s5 \in Wide(109)
      /\ Cut(s5, 1, 32) = p1 /\ Cut(s5, 33, 64) = p2 /\ Cut(s5, 65, 72) = p3
      /\ Cut(s5, 73, 108) = p4 /\ Cut(s5, 109, 109) = p5
  <2>1. s5 \in Wide(109) /\ Cut(s5, 109, 109) = p5
    BY <1>3, JoinIsWide, EndOfJoin
  <2>2. Cut(s5, 1, 32) = Cut(s4, 1, 32) /\ Cut(s5, 33, 64) = Cut(s4, 33, 64)
    BY <1>3, CutOfJoin
  <2>3. Cut(s5, 65, 72) = Cut(s4, 65, 72) /\ Cut(s5, 73, 108) = Cut(s4, 73, 108)
    BY <1>3, CutOfJoin
  <2> QED
    BY <1>3, <2>1, <2>2, <2>3, Zenon
<1> HIDE DEF s5
<1>5. /\ s6 \in Wide(121)
      /\ Cut(s6, 1, 32) = p1 /\ Cut(s6, 33, 64) = p2 /\ Cut(s6, 65, 72) = p3
      /\ Cut(s6, 73, 108) = p4 /\ Cut(s6, 109, 109) = p5 /\ Cut(s6, 110, 121) = p6
  <2>1. s6 \in Wide(121) /\ Cut(s6, 110, 121) = p6
    BY <1>4, JoinIsWide, EndOfJoin
  <2>2. Cut(s6, 1, 32) = Cut(s5, 1, 32) /\ Cut(s6, 33, 64) = Cut(s5, 33, 64)
    BY <1>4, CutOfJoin
  <2>3. Cut(s6, 65, 72) = Cut(s5, 65, 72) /\ Cut(s6, 73, 108) = Cut(s5, 73, 108)
    BY <1>4, CutOfJoin
  <2>4. Cut(s6, 109, 109) = Cut(s5, 109, 109)
    BY <1>4, CutOfJoin
  <2> QED
    BY <1>4, <2>1, <2>2, <2>3, <2>4, Zenon
<1> HIDE DEF s6
<1>6. /\ s7 \in Wide(129)
      /\ Cut(s7, 1, 32) = p1 /\ Cut(s7, 33, 64) = p2 /\ Cut(s7, 65, 72) = p3
      /\ Cut(s7, 73, 108) = p4 /\ Cut(s7, 109, 109) = p5 /\ Cut(s7, 110, 121) = p6
      /\ Cut(s7, 122, 129) = p7
  <2>1. s7 \in Wide(129) /\ Cut(s7, 122, 129) = p7
    BY <1>5, JoinIsWide, EndOfJoin
  <2>2. Cut(s7, 1, 32) = Cut(s6, 1, 32) /\ Cut(s7, 33, 64) = Cut(s6, 33, 64)
    BY <1>5, CutOfJoin
  <2>3. Cut(s7, 65, 72) = Cut(s6, 65, 72) /\ Cut(s7, 73, 108) = Cut(s6, 73, 108)
    BY <1>5, CutOfJoin
  <2>4. Cut(s7, 109, 109) = Cut(s6, 109, 109) /\ Cut(s7, 110, 121) = Cut(s6, 110, 121)
    BY <1>5, CutOfJoin
  <2> QED
    BY <1>5, <2>1, <2>2, <2>3, <2>4, Zenon
<1> HIDE DEF s7
<1>7. /\ s8 \in Wide(165)
      /\ Cut(s8, 1, 32) = p1 /\ Cut(s8, 33, 64) = p2 /\ Cut(s8, 65, 72) = p3
      /\ Cut(s8, 73, 108) = p4 /\ Cut(s8, 109, 109) = p5 /\ Cut(s8, 110, 121) = p6
      /\ Cut(s8, 122, 129) = p7 /\ Cut(s8, 130, 165) = p8
  <2>1. s8 \in Wide(165) /\ Cut(s8, 130, 165) = p8
    BY <1>6, JoinIsWide, EndOfJoin
  <2>2. Cut(s8, 1, 32) = Cut(s7, 1, 32) /\ Cut(s8, 33, 64) = Cut(s7, 33, 64)
    BY <1>6, CutOfJoin
  <2>3. Cut(s8, 65, 72) = Cut(s7, 65, 72) /\ Cut(s8, 73, 108) = Cut(s7, 73, 108)
    BY <1>6, CutOfJoin
  <2>4. Cut(s8, 109, 109) = Cut(s7, 109, 109) /\ Cut(s8, 110, 121) = Cut(s7, 110, 121)
    BY <1>6, CutOfJoin
  <2>5. Cut(s8, 122, 129) = Cut(s7, 122, 129)
    BY <1>6, CutOfJoin
  <2> QED
    BY <1>6, <2>1, <2>2, <2>3, <2>4, <2>5, Zenon
<1>8. s8 = Join(Join(Join(Join(Join(Join(Join(p1, p2), p3), p4), p5), p6), p7), p8)
  BY Zenon DEF s2, s3, s4, s5, s6, s7
<1> HIDE DEF s8
<1> QED
  BY <1>7, <1>8

LEMMA PartsOfAccount ==
    ASSUME NEW b \in Wide(165)
    PROVE  LET p1 == Cut(b, 1, 32)
               p2 == Cut(b, 33, 64)
               p3 == Cut(b, 65, 72)
               p4 == Cut(b, 73, 108)
               p5 == Cut(b, 109, 109)
               p6 == Cut(b, 110, 121)
               p7 == Cut(b, 122, 129)
               p8 == Cut(b, 130, 165)
           IN  /\ p1 \in Wide(32) /\ p2 \in Wide(32) /\ p3 \in Wide(8) /\ p4 \in Wide(36)
               /\ p5 \in Wide(1) /\ p6 \in Wide(12) /\ p7 \in Wide(8) /\ p8 \in Wide(36)
               /\ Join(Join(Join(Join(Join(Join(Join(p1, p2), p3), p4), p5), p6), p7), p8) = b
<1>1. /\ Join(Cut(b, 1, 32), Cut(b, 33, 64)) = Cut(b, 1, 64)
      /\ Join(Cut(b, 1, 64), Cut(b, 65, 72)) = Cut(b, 1, 72)
      /\ Join(Cut(b, 1, 72), Cut(b, 73, 108)) = Cut(b, 1, 108)
      /\ Join(Cut(b, 1, 108), Cut(b, 109, 109)) = Cut(b, 1, 109)
      /\ Join(Cut(b, 1, 109), Cut(b, 110, 121)) = Cut(b, 1, 121)
      /\ Join(Cut(b, 1, 121), Cut(b, 122, 129)) = Cut(b, 1, 129)
      /\ Join(Cut(b, 1, 129), Cut(b, 130, 165)) = Cut(b, 1, 165)
  <2>1. /\ Join(Cut(b, 1, 32), Cut(b, 33, 64)) = Cut(b, 1, 64)
        /\ Join(Cut(b, 1, 64), Cut(b, 65, 72)) = Cut(b, 1, 72)
    BY JoinOfCuts
  <2>2. /\ Join(Cut(b, 1, 72), Cut(b, 73, 108)) = Cut(b, 1, 108)
        /\ Join(Cut(b, 1, 108), Cut(b, 109, 109)) = Cut(b, 1, 109)
    BY JoinOfCuts
  <2>3. /\ Join(Cut(b, 1, 109), Cut(b, 110, 121)) = Cut(b, 1, 121)
        /\ Join(Cut(b, 1, 121), Cut(b, 122, 129)) = Cut(b, 1, 129)
    BY JoinOfCuts
  <2>4. Join(Cut(b, 1, 129), Cut(b, 130, 165)) = Cut(b, 1, 165)
    BY JoinOfCuts
  <2> QED
    BY <2>1, <2>2, <2>3, <2>4, Zenon
<1>2. Cut(b, 1, 165) = b
  <2>1. 165 \in Nat
    OBVIOUS
  <2> QED
    BY <2>1, CutOfAll, Zenon
<1>3. /\ Cut(b, 1, 32) \in Wide(32) /\ Cut(b, 33, 64) \in Wide(32)
      /\ Cut(b, 65, 72) \in Wide(8) /\ Cut(b, 73, 108) \in Wide(36)
      /\ Cut(b, 109, 109) \in Wide(1) /\ Cut(b, 110, 121) \in Wide(12)
      /\ Cut(b, 122, 129) \in Wide(8) /\ Cut(b, 130, 165) \in Wide(36)
  <2>1. Cut(b, 1, 32) \in Wide(32) /\ Cut(b, 33, 64) \in Wide(32)
    BY CutIsWide
  <2>2. Cut(b, 65, 72) \in Wide(8) /\ Cut(b, 73, 108) \in Wide(36)
    BY CutIsWide
  <2>3. Cut(b, 109, 109) \in Wide(1) /\ Cut(b, 110, 121) \in Wide(12)
    BY CutIsWide
  <2>4. Cut(b, 122, 129) \in Wide(8) /\ Cut(b, 130, 165) \in Wide(36)
    BY CutIsWide
  <2> QED
    BY <2>1, <2>2, <2>3, <2>4, Zenon
<1> QED
  BY <1>1, <1>2, <1>3

\* The byte of a state.
StateByte(state) == (CHOOSE n \in DOMAIN AccountStates : AccountStates[n] = state) - 1

LEMMA StateIsRead ==
    ASSUME NEW state \in AccountState
    PROVE  /\ StateByte(state) \in Byte /\ StateByte(state) + 1 \in DOMAIN AccountStates
           /\ AccountStates[StateByte(state) + 1] = state
<1>1. /\ DOMAIN AccountStates = 1 .. 3
      /\ AccountStates[1] = "Uninitialized" /\ AccountStates[2] = "Initialized"
      /\ AccountStates[3] = "Frozen"
  BY DEF AccountStates
<1> DEFINE n == CHOOSE n \in DOMAIN AccountStates : AccountStates[n] = state
<1>2. \E m \in DOMAIN AccountStates : AccountStates[m] = state
  BY <1>1 DEF AccountState
<1>3. n \in DOMAIN AccountStates /\ AccountStates[n] = state
  BY <1>2, Zenon
<1>4. StateByte(state) = n - 1
  BY Zenon DEF StateByte
<1> HIDE DEF n
<1> QED
  BY <1>1, <1>3, <1>4, ByteRange

LEMMA StateIsWritten ==
    ASSUME NEW x \in Byte, x + 1 \in DOMAIN AccountStates
    PROVE  StateByte(AccountStates[x + 1]) = x
<1>1. /\ DOMAIN AccountStates = 1 .. 3
      /\ AccountStates[1] = "Uninitialized" /\ AccountStates[2] = "Initialized"
      /\ AccountStates[3] = "Frozen"
  BY DEF AccountStates
<1> DEFINE y == x + 1
           state == AccountStates[y]
           n == CHOOSE n \in DOMAIN AccountStates : AccountStates[n] = state
<1>2. y \in DOMAIN AccountStates
  OBVIOUS
<1>3. n \in DOMAIN AccountStates /\ AccountStates[n] = state
  BY <1>2, Zenon
<1>4. StateByte(state) = n - 1
  BY Zenon DEF StateByte
<1> HIDE DEF n
<1>5. n = y
  BY <1>1, <1>2, <1>3
<1> QED
  BY <1>4, <1>5, ByteRange

\* What unpack_from_slice makes of the fields of an account.
AccountOf(p1, p2, p3, p4, p5, p6, p7, p8) ==
    IF \/ UnpackOptionKey(p4) = InvalidAccountData \/ p5[1] + 1 \notin DOMAIN AccountStates
       \/ UnpackOptionU64(p6) = InvalidAccountData \/ UnpackOptionKey(p8) = InvalidAccountData
    THEN InvalidAccountData
    ELSE [kind |-> "account", mint |-> p1, owner |-> p2, amount |-> FromLeBytes(p3),
          delegate |-> UnpackOptionKey(p4), state |-> AccountStates[p5[1] + 1],
          is_native |-> UnpackOptionU64(p6), delegated_amount |-> FromLeBytes(p7),
          close_authority |-> UnpackOptionKey(p8)]

LEMMA AccountIsMadeOf ==
    ASSUME NEW b
    PROVE  UnpackAccount(b) =
             AccountOf(Cut(b, 1, 32), Cut(b, 33, 64), Cut(b, 65, 72), Cut(b, 73, 108),
                       Cut(b, 109, 109), Cut(b, 110, 121), Cut(b, 122, 129), Cut(b, 130, 165))
<1> DEFINE f == Pieces(b, AccountWidths)
<1>1. /\ f[1] = Cut(b, 1, 32) /\ f[2] = Cut(b, 33, 64) /\ f[3] = Cut(b, 65, 72)
      /\ f[4] = Cut(b, 73, 108) /\ f[5] = Cut(b, 109, 109) /\ f[6] = Cut(b, 110, 121)
      /\ f[7] = Cut(b, 122, 129) /\ f[8] = Cut(b, 130, 165)
  BY AccountPieces
<1>2. UnpackAccount(b) = AccountOf(f[1], f[2], f[3], f[4], f[5], f[6], f[7], f[8])
  BY Zenon DEF UnpackAccount, AccountOf
<1> QED
  BY <1>1, <1>2, Zenon

\* The fields pack_into_slice writes, over those of dst.
LEMMA AccountIsMadeInto ==
    ASSUME NEW account, NEW dst
    PROVE  PackAccount(account, dst) =
             LET p1 == account.mint
                 p2 == account.owner
                 p3 == LeBytes(account.amount, 8)
                 p4 == PackOptionKey(account.delegate, Cut(dst, 73, 108))
                 p5 == <<StateByte(account.state)>>
                 p6 == PackOptionU64(account.is_native, Cut(dst, 110, 121))
                 p7 == LeBytes(account.delegated_amount, 8)
                 p8 == PackOptionKey(account.close_authority, Cut(dst, 130, 165))
             IN  Join(Join(Join(Join(Join(Join(Join(p1, p2), p3), p4), p5), p6), p7), p8)
<1> DEFINE f == Pieces(dst, AccountWidths)
<1>1. f[4] = Cut(dst, 73, 108) /\ f[6] = Cut(dst, 110, 121) /\ f[8] = Cut(dst, 130, 165)
  BY AccountPieces
<1> QED
  BY <1>1, Zenon DEF PackAccount, StateByte, Join

LEMMA AccountIsRead ==
    ASSUME WidthAssumption, NEW account \in AccountData, NEW dst \in Wide(165)
    PROVE  /\ PackAccount(account, dst) \in Wide(165)
           /\ UnpackAccount(PackAccount(account, dst)) = account
<1> DEFINE p1 == account.mint
           p2 == account.owner
           p3 == LeBytes(account.amount, 8)
           p4 == PackOptionKey(account.delegate, Cut(dst, 73, 108))
           p5 == <<StateByte(account.state)>>
           p6 == PackOptionU64(account.is_native, Cut(dst, 110, 121))
           p7 == LeBytes(account.delegated_amount, 8)
           p8 == PackOptionKey(account.close_authority, Cut(dst, 130, 165))
           b == Join(Join(Join(Join(Join(Join(Join(p1, p2), p3), p4), p5), p6), p7), p8)
<1>1. /\ account.mint \in Key /\ account.owner \in Key /\ account.amount \in U64
      /\ account.delegate \in OptionalKey /\ account.state \in AccountState
      /\ account.is_native \in U64 \cup {None} /\ account.delegated_amount \in U64
      /\ account.close_authority \in OptionalKey
      /\ account = [kind |-> "account", mint |-> account.mint, owner |-> account.owner,
                    amount |-> account.amount, delegate |-> account.delegate,
                    state |-> account.state, is_native |-> account.is_native,
                    delegated_amount |-> account.delegated_amount,
                    close_authority |-> account.close_authority]
  BY DEF AccountData
<1>2. Cut(dst, 73, 108) \in Wide(36) /\ Cut(dst, 110, 121) \in Wide(12)
      /\ Cut(dst, 130, 165) \in Wide(36)
  BY CutIsWide
<1>3. /\ StateByte(account.state) \in Byte
      /\ StateByte(account.state) + 1 \in DOMAIN AccountStates
      /\ AccountStates[StateByte(account.state) + 1] = account.state
  BY <1>1, StateIsRead, Zenon
<1>4. /\ p1 \in Wide(32) /\ p2 \in Wide(32) /\ p3 \in Wide(8) /\ p4 \in Wide(36)
      /\ p5 \in Wide(1) /\ p6 \in Wide(12) /\ p7 \in Wide(8) /\ p8 \in Wide(36)
  BY <1>1, <1>2, <1>3, FieldsAreWide, Zenon
<1>5. /\ p1 = account.mint /\ p2 = account.owner
      /\ FromLeBytes(p3) = account.amount /\ UnpackOptionKey(p4) = account.delegate
      /\ p5[1] = StateByte(account.state) /\ UnpackOptionU64(p6) = account.is_native
      /\ FromLeBytes(p7) = account.delegated_amount
      /\ UnpackOptionKey(p8) = account.close_authority
  <2>1. p1 = account.mint /\ p2 = account.owner
    BY Zenon
  <2>2. FromLeBytes(p3) = account.amount /\ FromLeBytes(p7) = account.delegated_amount
    BY <1>1, FieldsAreWide, Zenon
  <2>3. UnpackOptionKey(p4) = account.delegate
    BY <1>1, <1>2, FieldsAreWide, Zenon
  <2>4. UnpackOptionKey(p8) = account.close_authority
    BY <1>1, <1>2, FieldsAreWide, Zenon
  <2>5. p5[1] = StateByte(account.state)
    BY <1>3, FieldsAreWide, Zenon
  <2>6. UnpackOptionU64(p6) = account.is_native
    BY <1>1, <1>2, FieldsAreWide, Zenon
  <2> HIDE DEF p1, p2, p3, p4, p5, p6, p7, p8
  <2> QED
    BY <2>1, <2>2, <2>3, <2>4, <2>5, <2>6, Zenon
<1>6. PackAccount(account, dst) = b
  BY AccountIsMadeInto, Zenon
<1>7. InvalidAccountData \notin OptionalKey /\ InvalidAccountData \notin U64 \cup {None}
  BY NoValue, U64Assumption DEF OptionalKey, U64
<1> HIDE DEF p1, p2, p3, p4, p5, p6, p7, p8
<1>8. b \in Wide(165) /\ UnpackAccount(b) = AccountOf(p1, p2, p3, p4, p5, p6, p7, p8)
  <2>1. /\ b \in Wide(165)
        /\ Cut(b, 1, 32) = p1 /\ Cut(b, 33, 64) = p2 /\ Cut(b, 65, 72) = p3
        /\ Cut(b, 73, 108) = p4 /\ Cut(b, 109, 109) = p5 /\ Cut(b, 110, 121) = p6
        /\ Cut(b, 122, 129) = p7 /\ Cut(b, 130, 165) = p8
    BY <1>4, AccountOfParts
  <2> HIDE DEF b
  <2>2. UnpackAccount(b) =
          AccountOf(Cut(b, 1, 32), Cut(b, 33, 64), Cut(b, 65, 72), Cut(b, 73, 108),
                    Cut(b, 109, 109), Cut(b, 110, 121), Cut(b, 122, 129), Cut(b, 130, 165))
    BY AccountIsMadeOf, Zenon
  <2> QED
    BY <2>1, <2>2
<1>9. AccountOf(p1, p2, p3, p4, p5, p6, p7, p8) = account
  <2>1. /\ UnpackOptionKey(p4) # InvalidAccountData /\ p5[1] + 1 \in DOMAIN AccountStates
        /\ UnpackOptionU64(p6) # InvalidAccountData /\ UnpackOptionKey(p8) # InvalidAccountData
        /\ AccountStates[p5[1] + 1] = account.state
    BY <1>1, <1>3, <1>5, <1>7, Zenon
  <2>2. AccountOf(p1, p2, p3, p4, p5, p6, p7, p8) =
          [kind |-> "account", mint |-> p1, owner |-> p2, amount |-> FromLeBytes(p3),
           delegate |-> UnpackOptionKey(p4), state |-> AccountStates[p5[1] + 1],
           is_native |-> UnpackOptionU64(p6), delegated_amount |-> FromLeBytes(p7),
           close_authority |-> UnpackOptionKey(p8)]
    BY <2>1, Zenon DEF AccountOf
  <2> QED
    BY <1>1, <1>5, <2>1, <2>2, Zenon
<1> QED
  BY <1>6, <1>8, <1>9, Zenon

LEMMA AccountIsWritten ==
    ASSUME WidthAssumption, NEW b \in Wide(165), UnpackAccount(b) # InvalidAccountData
    PROVE  PackAccount(UnpackAccount(b), b) = b
<1> DEFINE p1 == Cut(b, 1, 32)
           p2 == Cut(b, 33, 64)
           p3 == Cut(b, 65, 72)
           p4 == Cut(b, 73, 108)
           p5 == Cut(b, 109, 109)
           p6 == Cut(b, 110, 121)
           p7 == Cut(b, 122, 129)
           p8 == Cut(b, 130, 165)
           account == UnpackAccount(b)
           q3 == LeBytes(account.amount, 8)
           q4 == PackOptionKey(account.delegate, p4)
           q5 == <<StateByte(account.state)>>
           q6 == PackOptionU64(account.is_native, p6)
           q7 == LeBytes(account.delegated_amount, 8)
           q8 == PackOptionKey(account.close_authority, p8)
<1>1. /\ p1 \in Wide(32) /\ p2 \in Wide(32) /\ p3 \in Wide(8) /\ p4 \in Wide(36)
      /\ p5 \in Wide(1) /\ p6 \in Wide(12) /\ p7 \in Wide(8) /\ p8 \in Wide(36)
      /\ Join(Join(Join(Join(Join(Join(Join(p1, p2), p3), p4), p5), p6), p7), p8) = b
  BY PartsOfAccount, Zenon
<1>2. account = AccountOf(p1, p2, p3, p4, p5, p6, p7, p8)
  BY AccountIsMadeOf, Zenon
<1>3. PackAccount(account, b) =
        Join(Join(Join(Join(Join(Join(Join(account.mint, account.owner), q3), q4), q5),
                       q6), q7), q8)
  BY AccountIsMadeInto, Zenon
<1> HIDE DEF p1, p2, p3, p4, p5, p6, p7, p8, account
<1>4. /\ UnpackOptionKey(p4) # InvalidAccountData /\ p5[1] + 1 \in DOMAIN AccountStates
      /\ UnpackOptionU64(p6) # InvalidAccountData /\ UnpackOptionKey(p8) # InvalidAccountData
  BY <1>2, Zenon DEF AccountOf, account
<1>5. /\ account.mint = p1 /\ account.owner = p2 /\ account.amount = FromLeBytes(p3)
      /\ account.delegate = UnpackOptionKey(p4) /\ account.state = AccountStates[p5[1] + 1]
      /\ account.is_native = UnpackOptionU64(p6)
      /\ account.delegated_amount = FromLeBytes(p7)
      /\ account.close_authority = UnpackOptionKey(p8)
  BY <1>2, <1>4 DEF AccountOf
<1>6. p5[1] \in Byte /\ StateByte(AccountStates[p5[1] + 1]) = p5[1]
  BY <1>1, <1>4, WideFieldsAreWritten, StateIsWritten, Zenon
<1>7. q3 = p3 /\ q4 = p4 /\ q5 = p5 /\ q6 = p6 /\ q7 = p7 /\ q8 = p8
  <2>1. q3 = p3 /\ q7 = p7
    <3>1. \A f \in Wide(8) : LeBytes(FromLeBytes(f), 8) = f
      BY WideFieldsAreWritten, Zenon
    <3>2. q3 = p3
      BY <1>1, <1>5, <3>1, Zenon
    <3>3. q7 = p7
      BY <1>1, <1>5, <3>1, Zenon
    <3> QED
      BY <3>2, <3>3, Zenon
  <2>2. q4 = p4 /\ q8 = p8
    <3>1. \A f \in Wide(36) : UnpackOptionKey(f) # InvalidAccountData =>
             PackOptionKey(UnpackOptionKey(f), f) = f
      BY WideFieldsAreWritten, Zenon
    <3>2. q4 = p4
      BY <1>1, <1>4, <1>5, <3>1, Zenon
    <3>3. q8 = p8
      BY <1>1, <1>4, <1>5, <3>1, Zenon
    <3> QED
      BY <3>2, <3>3, Zenon
  <2>3. q6 = p6
    BY <1>1, <1>4, <1>5, WideFieldsAreWritten, Zenon
  <2>4. q5 = <<p5[1]>> /\ <<p5[1]>> = p5
    BY <1>1, <1>5, <1>6, WideFieldsAreWritten, Zenon
  <2> QED
    BY <2>1, <2>2, <2>3, <2>4
<1> HIDE DEF q3, q4, q5, q6, q7, q8
<1>8. PackAccount(account, b) = b
  BY <1>1, <1>3, <1>5, <1>7, Zenon
<1> QED
  BY <1>8 DEF account

-----------------------------------------------------------------------------
(* A multisig.                                                             *)

LEMMA MultisigPieces ==
    ASSUME WidthAssumption, NEW b
    PROVE  LET f == Pieces(b, <<1, 1, 1, 32 * MaxSigners>>)
           IN  /\ f[1] = Cut(b, 1, 1) /\ f[2] = Cut(b, 2, 2) /\ f[3] = Cut(b, 3, 3)
               /\ f[4] = Cut(b, 4, 355)
<1> DEFINE w == <<1, 1, 1, 32 * MaxSigners>>
<1>1. 32 * MaxSigners = 352
  BY DEF WidthAssumption
<1>2. w[1] = 1 /\ w[2] = 1 /\ w[3] = 1 /\ w[4] = 352
  BY <1>1
<1>3. PICK end : CutsAt(end, w, 4, b)
  <2>1. w \in [1 .. 4 -> Nat]
    BY <1>1
  <2>2. 4 \in Nat
    OBVIOUS
  <2> HIDE DEF w
  <2> QED
    BY <2>1, <2>2, PiecesEnd, Zenon
<1> HIDE DEF w
<1>4. end[0] = 0 /\ end[1] = 1 /\ end[2] = 2 /\ end[3] = 3 /\ end[4] = 355
  <2>1. end[0] = 0 /\ \A i \in 1 .. 4 : end[i] = end[i - 1] + w[i]
    BY <1>3 DEF CutsAt
  <2> QED
    BY <1>2, <2>1
<1>5. ASSUME NEW i \in 1 .. 4 PROVE Pieces(b, w)[i] = Cut(b, end[i - 1] + 1, end[i])
  BY <1>3 DEF CutsAt, Cut
<1>6. /\ Pieces(b, w)[1] = Cut(b, end[0] + 1, end[1])
      /\ Pieces(b, w)[2] = Cut(b, end[1] + 1, end[2])
      /\ Pieces(b, w)[3] = Cut(b, end[2] + 1, end[3])
      /\ Pieces(b, w)[4] = Cut(b, end[3] + 1, end[4])
  BY <1>5
<1> QED
  BY <1>4, <1>6 DEF w

\* The signers lie one behind the other.
LEMMA SignerPieces ==
    ASSUME NEW n \in Nat, NEW b
    PROVE  Pieces(b, [i \in 1 .. n |-> 32]) =
             [i \in 1 .. n |-> Cut(b, 32 * (i - 1) + 1, 32 * i)]
<1> DEFINE w == [i \in 1 .. n |-> 32]
<1>1. w \in [1 .. n -> Nat] /\ \A i \in 1 .. n : w[i] = 32
  OBVIOUS
<1> HIDE DEF w
<1>2. PICK end : CutsAt(end, w, n, b)
  BY <1>1, PiecesEnd, Zenon
<1> DEFINE S == {k \in Nat : k <= n => end[k] = 32 * k}
<1>3. 0 \in S
  BY <1>2 DEF CutsAt
<1>4. ASSUME NEW k \in Nat, k \in S PROVE k + 1 \in S
  <2>1. SUFFICES ASSUME k + 1 <= n PROVE end[k + 1] = 32 * (k + 1)
    OBVIOUS
  <2>2. end[k] = 32 * k /\ end[k + 1] = end[k] + w[k + 1] /\ w[k + 1] = 32
    BY <1>1, <1>2, <1>4, <2>1 DEF CutsAt
  <2> QED
    BY <2>2
<1>5. \A k \in Nat : k \in S
  <2> HIDE DEF S
  <2> QED
    BY <1>3, <1>4, InductionInSet
<1>6. ASSUME NEW i \in 1 .. n
      PROVE  SubSeq(b, end[i - 1] + 1, end[i]) = Cut(b, 32 * (i - 1) + 1, 32 * i)
  <2>1. end[i - 1] = 32 * (i - 1) /\ end[i] = 32 * i
    BY <1>5
  <2> QED
    BY <2>1, Zenon DEF Cut
<1>7. Pieces(b, w) = [i \in 1 .. n |-> SubSeq(b, end[i - 1] + 1, end[i])]
  BY <1>2 DEF CutsAt
<1>8. Pieces(b, w) = [i \in 1 .. n |-> Cut(b, 32 * (i - 1) + 1, 32 * i)]
  BY <1>6, <1>7, Zenon
<1> QED
  BY <1>8 DEF w

\* Where a byte of the array of signers belongs.
LEMMA SignerOfByte ==
    ASSUME NEW n \in Nat
    PROVE  /\ \A p \in 1 .. 32 * n :
                 /\ ((p - 1) \div 32) + 1 \in 1 .. n /\ ((p - 1) % 32) + 1 \in Nat
                 /\ ((p - 1) % 32) + 1 >= 1 /\ ((p - 1) % 32) + 1 <= 32
                 /\ 32 * ((p - 1) \div 32) + ((p - 1) % 32) + 1 = p
           /\ \A i \in 1 .. n, k \in Nat : 1 <= k /\ k <= 32 =>
                 LET p == 32 * (i - 1) + k
                 IN  p \in 1 .. 32 * n /\ ((p - 1) \div 32) + 1 = i /\ ((p - 1) % 32) + 1 = k
<1>1. ASSUME NEW p \in 1 .. 32 * n
      PROVE  /\ ((p - 1) \div 32) + 1 \in 1 .. n /\ ((p - 1) % 32) + 1 \in Nat
             /\ ((p - 1) % 32) + 1 >= 1 /\ ((p - 1) % 32) + 1 <= 32
             /\ 32 * ((p - 1) \div 32) + ((p - 1) % 32) + 1 = p
  OBVIOUS
<1>2. ASSUME NEW i \in 1 .. n, NEW k \in Nat, 1 <= k, k <= 32, NEW p, p = 32 * (i - 1) + k
      PROVE  p \in 1 .. 32 * n /\ ((p - 1) \div 32) + 1 = i /\ ((p - 1) % 32) + 1 = k
  BY <1>2
<1> QED
  BY <1>1, <1>2

KeysBytes(keys, n) ==
    [p \in 1 .. 32 * n |-> keys[((p - 1) \div 32) + 1][((p - 1) % 32) + 1]]

LEMMA WideByte ==
    ASSUME NEW n \in Nat, NEW b \in Wide(n), NEW k \in Nat, 1 <= k, k <= n
    PROVE  b[k] \in Byte
<1>1. b \in Seq(Byte) /\ Len(b) = n
  BY Zenon DEF Wide, Bytes
<1> QED
  BY <1>1

LEMMA WideEqual ==
    ASSUME NEW n \in Nat, NEW b \in Wide(n), NEW c \in Wide(n),
           \A k \in Nat : 1 <= k /\ k <= n => b[k] = c[k]
    PROVE  b = c
<1>1. b \in Seq(Byte) /\ Len(b) = n /\ c \in Seq(Byte) /\ Len(c) = n
  BY Zenon DEF Wide, Bytes
<1>2. \A k \in 1 .. Len(b) : b[k] = c[k]
  BY <1>1
<1> QED
  BY <1>1, <1>2, SeqEqual

LEMMA WideFunction ==
    ASSUME NEW n \in Nat, NEW b \in [1 .. n -> Byte]
    PROVE  b \in Wide(n)
<1>1. b \in Seq(Byte) /\ Len(b) = n
  OBVIOUS
<1> QED
  BY <1>1, Zenon DEF Wide, Bytes

LEMMA ByteOfCut ==
    ASSUME NEW l \in Nat, NEW b \in Wide(l),
           NEW m \in Nat, NEW n \in Nat, 1 <= m, m <= n, n <= l,
           NEW k \in Nat, 1 <= k, k <= n - m + 1
    PROVE  Cut(b, m, n)[k] = b[m + k - 1]
<1>1. b \in Bytes /\ Len(b) = l
  BY Zenon DEF Wide
<1>2. m \in Nat \ {0} /\ n <= Len(b) /\ k \in 1 .. n - m + 1
  BY <1>1
<1>3. \A i \in 1 .. n - m + 1 : SubSeq(b, m, n)[i] = b[m + i - 1]
  BY <1>1, <1>2, Part, Zenon
<1> QED
  BY <1>2, <1>3, Zenon DEF Cut

LEMMA SignersAreRead ==
    ASSUME NEW n \in Nat, NEW keys \in [1 .. n -> Wide(32)]
    PROVE  /\ KeysBytes(keys, n) \in Wide(32 * n)
           /\ Pieces(KeysBytes(keys, n), [i \in 1 .. n |-> 32]) = keys
<1> DEFINE b == KeysBytes(keys, n)
           l == 32 * n
<1>1. b = [p \in 1 .. l |-> keys[((p - 1) \div 32) + 1][((p - 1) % 32) + 1]]
  BY DEF KeysBytes
<1>2. ASSUME NEW p \in 1 .. l
      PROVE  keys[((p - 1) \div 32) + 1][((p - 1) % 32) + 1] \in Byte
  <2> DEFINE i == ((p - 1) \div 32) + 1
             k == ((p - 1) % 32) + 1
  <2>1. i \in 1 .. n /\ k \in Nat /\ 1 <= k /\ k <= 32
    BY SignerOfByte
  <2>2. 32 \in Nat
    OBVIOUS
  <2> HIDE DEF i, k
  <2>3. keys[i] \in Wide(32)
    BY <2>1
  <2>4. keys[i][k] \in Byte
    BY <2>1, <2>2, <2>3, WideByte, Zenon
  <2> QED
    BY <2>4 DEF i, k
<1>3. l \in Nat
  OBVIOUS
<1> HIDE DEF b, l
<1>4. b \in [1 .. l -> Byte]
  BY <1>1, <1>2, Zenon
<1>5. b \in Wide(l)
  BY <1>3, <1>4, WideFunction, Zenon
<1>6. ASSUME NEW i \in 1 .. n PROVE Cut(b, 32 * (i - 1) + 1, 32 * i) = keys[i]
  <2> DEFINE m == 32 * (i - 1) + 1
             e == 32 * i
  <2>1. m \in Nat /\ e \in Nat /\ 1 <= m /\ m <= e /\ e <= l /\ 32 = e - m + 1 /\ 32 \in Nat
    BY DEF l
  <2>2. ASSUME NEW k \in Nat, 1 <= k, k <= 32 PROVE Cut(b, m, e)[k] = keys[i][k]
    <3> DEFINE p == m + k - 1
    <3>1. p = 32 * (i - 1) + k
      OBVIOUS
    <3>2. p \in 1 .. l /\ ((p - 1) \div 32) + 1 = i /\ ((p - 1) % 32) + 1 = k
      BY <2>2, <3>1, SignerOfByte DEF l
    <3>3. Cut(b, m, e)[k] = b[p]
      BY <1>3, <1>5, <2>1, <2>2, ByteOfCut
    <3> HIDE DEF p
    <3>4. b[p] = keys[((p - 1) \div 32) + 1][((p - 1) % 32) + 1]
      BY <1>1, <3>2, Zenon
    <3> QED
      BY <3>2, <3>3, <3>4, Zenon
  <2> HIDE DEF m, e
  <2>3. Cut(b, m, e) \in Wide(32)
    BY <1>3, <1>5, <2>1, CutIsWide
  <2>4. keys[i] \in Wide(32)
    OBVIOUS
  <2>5. Cut(b, m, e) = keys[i]
    BY <2>1, <2>2, <2>3, <2>4, WideEqual, Zenon
  <2> QED
    BY <2>5 DEF m, e
<1>7. Pieces(b, [i \in 1 .. n |-> 32]) = [i \in 1 .. n |-> Cut(b, 32 * (i - 1) + 1, 32 * i)]
  BY SignerPieces, Zenon
<1>8. keys = [i \in 1 .. n |-> keys[i]]
  OBVIOUS
<1>9. [i \in 1 .. n |-> Cut(b, 32 * (i - 1) + 1, 32 * i)] = [i \in 1 .. n |-> keys[i]]
  BY <1>6, Zenon
<1> QED
  BY <1>5, <1>7, <1>8, <1>9, Zenon DEF b, l

LEMMA SignersAreWritten ==
    ASSUME NEW n \in Nat, NEW b \in Wide(32 * n)
    PROVE  KeysBytes(Pieces(b, [i \in 1 .. n |-> 32]), n) = b
<1> DEFINE keys == Pieces(b, [i \in 1 .. n |-> 32])
           l == 32 * n
<1>1. keys = [i \in 1 .. n |-> Cut(b, 32 * (i - 1) + 1, 32 * i)]
  BY SignerPieces, Zenon
<1>2. l \in Nat /\ b \in Wide(l)
  OBVIOUS
<1> HIDE DEF keys
<1>3. ASSUME NEW p \in 1 .. l
      PROVE  keys[((p - 1) \div 32) + 1][((p - 1) % 32) + 1] = b[p]
  <2> DEFINE i == ((p - 1) \div 32) + 1
             k == ((p - 1) % 32) + 1
             m == 32 * (i - 1) + 1
             e == 32 * i
  <2>1. i \in 1 .. n /\ k \in Nat /\ 1 <= k /\ k <= 32 /\ 32 * (i - 1) + k = p
    <3>1. 32 * ((p - 1) \div 32) + ((p - 1) % 32) + 1 = p
      BY SignerOfByte
    <3>2. i \in 1 .. n /\ k \in Nat /\ 1 <= k /\ k <= 32
      BY SignerOfByte
    <3>3. (p - 1) \div 32 = i - 1 /\ (p - 1) % 32 = k - 1
      OBVIOUS
    <3> HIDE DEF i, k
    <3> QED
      BY <3>1, <3>2, <3>3
  <2> HIDE DEF i, k
  <2>2. keys[i] = Cut(b, m, e)
    BY <1>1, <2>1, Zenon
  <2>3. m \in Nat /\ e \in Nat /\ 1 <= m /\ m <= e /\ e <= l /\ k <= e - m + 1 /\ m + k - 1 = p
    <3>1. i \in Nat /\ 1 <= i /\ i <= n
      BY <2>1
    <3>2. m \in Nat /\ e \in Nat /\ 1 <= m /\ m <= e /\ e <= l
      BY <3>1
    <3>3. k <= e - m + 1 /\ m + k - 1 = p
      BY <2>1, <3>1
    <3> QED
      BY <3>2, <3>3, Zenon
  <2> HIDE DEF m, e, l
  <2>4. Cut(b, m, e)[k] = b[m + k - 1]
    BY <1>2, <2>1, <2>3, ByteOfCut
  <2>5. keys[i][k] = b[p]
    BY <2>2, <2>3, <2>4, Zenon
  <2> QED
    BY <2>5 DEF i, k
<1>4. KeysBytes(keys, n) = [p \in 1 .. l |-> keys[((p - 1) \div 32) + 1][((p - 1) % 32) + 1]]
  BY Zenon DEF KeysBytes
<1>5. b = [p \in 1 .. l |-> b[p]]
  <2>1. b \in Seq(Byte) /\ Len(b) = l
    BY Zenon DEF Wide, Bytes
  <2> HIDE DEF l
  <2> QED
    BY <1>2, <2>1
<1> HIDE DEF l
<1>6. KeysBytes(keys, n) = b
  BY <1>3, <1>4, <1>5, Zenon
<1> QED
  BY <1>6 DEF keys

LEMMA TwoBytes ==
    ASSUME NEW m \in Byte, NEW n \in Byte
    PROVE  <<m, n>> = Join(<<m>>, <<n>>)
<1> DEFINE s == <<m>>
           t == <<n>>
           u == <<m, n>>
<1>1. s \in Seq(Byte) /\ Len(s) = 1 /\ s[1] = m /\ t \in Seq(Byte) /\ Len(t) = 1 /\ t[1] = n
  OBVIOUS
<1>2. u \in Seq(Byte) /\ Len(u) = 2 /\ u[1] = m /\ u[2] = n
  OBVIOUS
<1> HIDE DEF s, t, u
<1>3. /\ s \o t \in Seq(Byte) /\ Len(s \o t) = Len(s) + Len(t)
      /\ \A i \in 1 .. Len(s) + Len(t) : (s \o t)[i] = IF i <= Len(s) THEN s[i] ELSE t[i - Len(s)]
  BY <1>1, ConcatProperties
<1> DEFINE v == s \o t
<1>4. v \in Seq(Byte) /\ Len(v) = 2 /\ v[1] = m /\ v[2] = n
  BY <1>1, <1>3
<1> HIDE DEF v
<1>5. u = v
  BY <1>2, <1>4, SeqEqual
<1> QED
  BY <1>5 DEF u, v, s, t, Join

LEMMA MultisigOfParts ==
    ASSUME NEW m \in Byte, NEW n \in Byte, NEW p3 \in Wide(1), NEW p4 \in Wide(352)
    PROVE  LET b == Join(Join(<<m, n>>, p3), p4)
           IN  /\ b \in Wide(355)
               /\ Cut(b, 1, 1) = <<m>> /\ Cut(b, 2, 2) = <<n>> /\ Cut(b, 3, 3) = p3
               /\ Cut(b, 4, 355) = p4
<1> DEFINE p1 == <<m>>
           p2 == <<n>>
           s2 == Join(p1, p2)
           s3 == Join(s2, p3)
           s4 == Join(s3, p4)
<1>1. p1 \in Wide(1) /\ p2 \in Wide(1)
  BY ByteIsBytes, Zenon DEF Wide
<1>2. <<m, n>> = s2
  BY TwoBytes, Zenon
<1> HIDE DEF p1, p2
<1>3. s2 \in Wide(2) /\ Cut(s2, 1, 1) = p1 /\ Cut(s2, 2, 2) = p2
  BY <1>1, JoinIsWide, EndOfJoin, CutOfJoin, CutOfAll
<1> HIDE DEF s2
<1>4. s3 \in Wide(3) /\ Cut(s3, 1, 1) = p1 /\ Cut(s3, 2, 2) = p2 /\ Cut(s3, 3, 3) = p3
  BY <1>3, JoinIsWide, EndOfJoin, CutOfJoin
<1> HIDE DEF s3
<1>5. /\ s4 \in Wide(355) /\ Cut(s4, 1, 1) = p1 /\ Cut(s4, 2, 2) = p2
      /\ Cut(s4, 3, 3) = p3 /\ Cut(s4, 4, 355) = p4
  BY <1>4, JoinIsWide, EndOfJoin, CutOfJoin
<1>6. s4 = Join(Join(<<m, n>>, p3), p4)
  BY <1>2, Zenon DEF s3
<1> HIDE DEF s4
<1> QED
  BY <1>5, <1>6 DEF p1, p2

LEMMA PartsOfMultisig ==
    ASSUME NEW b \in Wide(355)
    PROVE  LET p1 == Cut(b, 1, 1)
               p2 == Cut(b, 2, 2)
               p3 == Cut(b, 3, 3)
               p4 == Cut(b, 4, 355)
           IN  /\ p1 \in Wide(1) /\ p2 \in Wide(1) /\ p3 \in Wide(1) /\ p4 \in Wide(352)
               /\ Join(Join(<<p1[1], p2[1]>>, p3), p4) = b
<1> DEFINE p1 == Cut(b, 1, 1)
           p2 == Cut(b, 2, 2)
           m == p1[1]
           n == p2[1]
<1>1. /\ Join(p1, p2) = Cut(b, 1, 2)
      /\ Join(Cut(b, 1, 2), Cut(b, 3, 3)) = Cut(b, 1, 3)
      /\ Join(Cut(b, 1, 3), Cut(b, 4, 355)) = Cut(b, 1, 355)
  BY JoinOfCuts
<1>2. Cut(b, 1, 355) = b
  BY CutOfAll
<1>3. p1 \in Wide(1) /\ p2 \in Wide(1)
  BY CutIsWide
<1>4. Cut(b, 3, 3) \in Wide(1) /\ Cut(b, 4, 355) \in Wide(352)
  BY CutIsWide
<1>5. <<m, n>> = Join(p1, p2)
  <2>1. p1 = <<m>> /\ p2 = <<n>>
    BY <1>3, BytesAreByte, Zenon DEF Wide
  <2>2. m \in Byte /\ n \in Byte
    BY <1>3, BytesAreByte, Zenon DEF Wide
  <2> HIDE DEF m, n
  <2>3. <<m, n>> = Join(<<m>>, <<n>>)
    BY <2>2, TwoBytes, Zenon
  <2> HIDE DEF p1, p2
  <2> QED
    BY <2>1, <2>3, Zenon
<1>6. Join(Join(<<m, n>>, Cut(b, 3, 3)), Cut(b, 4, 355)) = b
  <2> HIDE DEF m, n, p1, p2
  <2>1. Join(<<m, n>>, Cut(b, 3, 3)) = Cut(b, 1, 3)
    BY <1>1, <1>5, Zenon
  <2> QED
    BY <1>1, <1>2, <2>1, Zenon
<1> QED
  BY <1>3, <1>4, <1>6, Zenon

\* What unpack_from_slice makes of the fields of a multisig.
MultisigOf(p1, p2, p3, p4) ==
    IF ~IsBool(p3) THEN InvalidAccountData
    ELSE [kind |-> "multisig", m |-> p1[1], n |-> p2[1], is_initialized |-> p3 = <<1>>,
          signers |-> Pieces(p4, [i \in 1 .. MaxSigners |-> 32])]

LEMMA MultisigIsMadeOf ==
    ASSUME WidthAssumption, NEW b
    PROVE  UnpackMultisig(b) =
             MultisigOf(Cut(b, 1, 1), Cut(b, 2, 2), Cut(b, 3, 3), Cut(b, 4, 355))
<1> DEFINE f == Pieces(b, <<1, 1, 1, 32 * MaxSigners>>)
<1>1. /\ f[1] = Cut(b, 1, 1) /\ f[2] = Cut(b, 2, 2) /\ f[3] = Cut(b, 3, 3)
      /\ f[4] = Cut(b, 4, 355)
  BY MultisigPieces
<1>2. UnpackMultisig(b) = MultisigOf(f[1], f[2], f[3], f[4])
  BY Zenon DEF UnpackMultisig, MultisigOf
<1> QED
  BY <1>1, <1>2, Zenon

LEMMA MultisigIsMadeInto ==
    ASSUME NEW multisig
    PROVE  PackMultisig(multisig) =
             Join(Join(<<multisig.m, multisig.n>>, PackBool(multisig.is_initialized)),
                  KeysBytes(multisig.signers, MaxSigners))
BY Zenon DEF PackMultisig, Join, KeysBytes

LEMMA MultisigIsRead ==
    ASSUME WidthAssumption, NEW multisig \in FullMultisig
    PROVE  /\ PackMultisig(multisig) \in Wide(355)
           /\ UnpackMultisig(PackMultisig(multisig)) = multisig
<1> DEFINE m == multisig.m
           n == multisig.n
           p3 == PackBool(multisig.is_initialized)
           p4 == KeysBytes(multisig.signers, MaxSigners)
           b == Join(Join(<<m, n>>, p3), p4)
<1>1. /\ m \in Byte /\ n \in Byte /\ multisig.is_initialized \in BOOLEAN
      /\ multisig.signers \in [1 .. MaxSigners -> Key]
      /\ multisig = [kind |-> "multisig", m |-> m, n |-> n,
                     is_initialized |-> multisig.is_initialized, signers |-> multisig.signers]
  BY DEF FullMultisig
<1>2. MaxSigners \in Nat /\ 32 * MaxSigners = 352
  BY DEF WidthAssumption
<1>3. multisig.signers \in [1 .. MaxSigners -> Wide(32)]
  <2>1. Key \subseteq Wide(32)
    BY FieldsAreWide, Zenon
  <2> QED
    BY <1>1, <2>1
<1>4. /\ p4 \in Wide(32 * MaxSigners)
      /\ Pieces(p4, [i \in 1 .. MaxSigners |-> 32]) = multisig.signers
  BY <1>2, <1>3, SignersAreRead
<1>5. p3 \in Wide(1) /\ IsBool(p3) /\ (p3 = <<1>>) = multisig.is_initialized
  BY <1>1, FieldsAreWide, Zenon
<1>6. PackMultisig(multisig) = b
  BY MultisigIsMadeInto, Zenon
<1>7. p4 \in Wide(352)
  BY <1>2, <1>4
<1> HIDE DEF m, n, p3, p4
<1>8. b \in Wide(355) /\ UnpackMultisig(b) = MultisigOf(<<m>>, <<n>>, p3, p4)
  <2>1. /\ b \in Wide(355)
        /\ Cut(b, 1, 1) = <<m>> /\ Cut(b, 2, 2) = <<n>> /\ Cut(b, 3, 3) = p3
        /\ Cut(b, 4, 355) = p4
    BY <1>1, <1>5, <1>7, MultisigOfParts
  <2> HIDE DEF b
  <2>2. UnpackMultisig(b) =
          MultisigOf(Cut(b, 1, 1), Cut(b, 2, 2), Cut(b, 3, 3), Cut(b, 4, 355))
    BY MultisigIsMadeOf, Zenon
  <2> QED
    BY <2>1, <2>2, Zenon
<1>9. MultisigOf(<<m>>, <<n>>, p3, p4) = multisig
  <2>1. <<m>>[1] = m /\ <<n>>[1] = n
    OBVIOUS
  <2>2. MultisigOf(<<m>>, <<n>>, p3, p4) =
          [kind |-> "multisig", m |-> <<m>>[1], n |-> <<n>>[1], is_initialized |-> p3 = <<1>>,
           signers |-> Pieces(p4, [i \in 1 .. MaxSigners |-> 32])]
    BY <1>5, Zenon DEF MultisigOf
  <2> QED
    BY <1>1, <1>4, <1>5, <2>1, <2>2, Zenon
<1> QED
  BY <1>6, <1>8, <1>9, Zenon

LEMMA MultisigIsWritten ==
    ASSUME WidthAssumption, NEW b \in Wide(355), UnpackMultisig(b) # InvalidAccountData
    PROVE  PackMultisig(UnpackMultisig(b)) = b
<1> DEFINE p1 == Cut(b, 1, 1)
           p2 == Cut(b, 2, 2)
           p3 == Cut(b, 3, 3)
           p4 == Cut(b, 4, 355)
           multisig == UnpackMultisig(b)
<1>1. /\ p1 \in Wide(1) /\ p2 \in Wide(1) /\ p3 \in Wide(1) /\ p4 \in Wide(352)
      /\ Join(Join(<<p1[1], p2[1]>>, p3), p4) = b
  BY PartsOfMultisig, Zenon
<1>2. Join(Join(<<p1[1], p2[1]>>, p3), p4) = b
  <2> HIDE DEF p1, p2, p3, p4
  <2> QED
    BY <1>1, Zenon
<1>3. multisig = MultisigOf(p1, p2, p3, p4)
  BY MultisigIsMadeOf, Zenon
<1>4. PackMultisig(multisig) =
        Join(Join(<<multisig.m, multisig.n>>, PackBool(multisig.is_initialized)),
             KeysBytes(multisig.signers, MaxSigners))
  BY MultisigIsMadeInto, Zenon
<1> HIDE DEF p1, p2, p3, p4, multisig
<1>5. IsBool(p3)
  BY <1>3, Zenon DEF MultisigOf, multisig
<1>6. /\ multisig.m = p1[1] /\ multisig.n = p2[1] /\ multisig.is_initialized = (p3 = <<1>>)
      /\ multisig.signers = Pieces(p4, [i \in 1 .. MaxSigners |-> 32])
  <2> DEFINE signers == Pieces(p4, [i \in 1 .. MaxSigners |-> 32])
  <2>1. multisig = [kind |-> "multisig", m |-> p1[1], n |-> p2[1],
                    is_initialized |-> p3 = <<1>>, signers |-> signers]
    BY <1>3, <1>5, Zenon DEF MultisigOf
  <2> HIDE DEF signers
  <2>2. /\ multisig.m = p1[1] /\ multisig.n = p2[1] /\ multisig.is_initialized = (p3 = <<1>>)
        /\ multisig.signers = signers
    BY <2>1
  <2> QED
    BY <2>2 DEF signers
<1>7. PackBool(multisig.is_initialized) = p3
  <2>1. \A f : IsBool(f) => PackBool(f = <<1>>) = f
    BY WideFieldsAreWritten, Zenon
  <2>2. PackBool(p3 = <<1>>) = p3
    BY <1>5, <2>1, Zenon
  <2> QED
    BY <1>6, <2>2, Zenon
<1>8. KeysBytes(multisig.signers, MaxSigners) = p4
  <2>1. MaxSigners \in Nat
    BY DEF WidthAssumption
  <2>2. p4 \in Wide(32 * MaxSigners)
    <3>1. 32 * MaxSigners = 352
      BY DEF WidthAssumption
    <3> QED
      BY <1>1, <3>1
  <2>3. KeysBytes(Pieces(p4, [i \in 1 .. MaxSigners |-> 32]), MaxSigners) = p4
    BY <2>1, <2>2, SignersAreWritten
  <2> QED
    BY <1>6, <2>3, Zenon
<1>9. PackMultisig(multisig) = b
  BY <1>2, <1>4, <1>6, <1>7, <1>8, Zenon
<1> QED
  BY <1>9 DEF multisig

-----------------------------------------------------------------------------
(* Zeroed data.                                                            *)

LEMMA ZerosAreWide ==
    ASSUME NEW n \in Nat
    PROVE  Zeros(n) \in Wide(n) /\ \A k \in Nat : 1 <= k /\ k <= n => Zeros(n)[k] = 0
<1>1. \A k \in Nat : 1 <= k /\ k <= n => Zeros(n)[k] = 0
  BY DEF Zeros
<1> QED
  BY <1>1, ZerosAreBytes, Zenon DEF Wide

LEMMA WideZeros ==
    ASSUME NEW n \in Nat, NEW b \in Wide(n), \A k \in Nat : 1 <= k /\ k <= n => b[k] = 0
    PROVE  b = Zeros(n)
<1>1. \A k \in Nat : 1 <= k /\ k <= n => b[k] = Zeros(n)[k]
  BY ZerosAreWide
<1> QED
  BY <1>1, ZerosAreWide, WideEqual

LEMMA JoinOfZeros ==
    ASSUME NEW m \in Nat, NEW n \in Nat, NEW k, k = m + n
    PROVE  Join(Zeros(m), Zeros(n)) = Zeros(k)
<1> DEFINE s == Zeros(m)
           t == Zeros(n)
<1>1. /\ s \in Wide(m) /\ \A i \in Nat : 1 <= i /\ i <= m => s[i] = 0
      /\ t \in Wide(n) /\ \A i \in Nat : 1 <= i /\ i <= n => t[i] = 0
  BY ZerosAreWide
<1> HIDE DEF s, t
<1>2. s \in Seq(Byte) /\ Len(s) = m /\ t \in Seq(Byte) /\ Len(t) = n
  BY <1>1, Zenon DEF Wide, Bytes
<1>3. /\ Len(s \o t) = Len(s) + Len(t)
      /\ \A i \in 1 .. Len(s) + Len(t) : (s \o t)[i] = IF i <= Len(s) THEN s[i] ELSE t[i - Len(s)]
  BY <1>2, ConcatProperties
<1>4. Join(s, t) \in Wide(k)
  BY <1>1, JoinIsWide
<1> DEFINE u == s \o t
<1>5. \A i \in 1 .. m + n : u[i] = IF i <= m THEN s[i] ELSE t[i - m]
  BY <1>2, <1>3
<1> HIDE DEF u
<1>6. ASSUME NEW i \in Nat, 1 <= i, i <= k PROVE u[i] = 0
  <2>1. CASE i <= m
    BY <1>1, <1>5, <1>6, <2>1
  <2>2. CASE ~(i <= m)
    <3> DEFINE j == i - m
    <3>1. j \in Nat /\ 1 <= j /\ j <= n /\ i \in 1 .. m + n
      BY <1>6, <2>2
    <3>2. u[i] = t[j]
      BY <1>5, <2>2, <3>1
    <3> HIDE DEF j
    <3> QED
      BY <1>1, <3>1, <3>2
  <2> QED
    BY <2>1, <2>2
<1>7. Join(s, t) = u
  BY Zenon DEF Join, u
<1>8. k \in Nat
  OBVIOUS
<1>9. u = Zeros(k)
  BY <1>4, <1>6, <1>7, <1>8, WideZeros, Zenon
<1> QED
  BY <1>7, <1>9, Zenon DEF s, t

LEMMA CutOfZeros ==
    ASSUME NEW l \in Nat, NEW m \in Nat, NEW n \in Nat, 1 <= m, m <= n, n <= l,
           NEW w, w = n - m + 1
    PROVE  Cut(Zeros(l), m, n) = Zeros(w)
<1> DEFINE z == Zeros(l)
           c == Cut(z, m, n)
<1>1. z \in Wide(l) /\ \A i \in Nat : 1 <= i /\ i <= l => z[i] = 0
  BY ZerosAreWide
<1> HIDE DEF z
<1>2. c \in Wide(w)
  BY <1>1, CutIsWide
<1>3. ASSUME NEW k \in Nat, 1 <= k, k <= w PROVE c[k] = 0
  <2> DEFINE i == m + k - 1
  <2>1. c[k] = z[i]
    BY <1>1, <1>3, ByteOfCut
  <2>2. i \in Nat /\ 1 <= i /\ i <= l
    BY <1>3
  <2> HIDE DEF i, c
  <2> QED
    BY <1>1, <2>1, <2>2
<1>4. w \in Nat
  OBVIOUS
<1> HIDE DEF c
<1>5. c = Zeros(w)
  BY <1>2, <1>3, <1>4, WideZeros
<1> QED
  BY <1>5 DEF c, z

LEMMA ZeroByte == <<0>> = Zeros(1)
<1>1. <<0>> \in Wide(1)
  <2>1. 0 \in Byte
    BY ByteRange
  <2> QED
    BY <2>1, ByteIsBytes, Zenon DEF Wide
<1>2. \A k \in Nat : 1 <= k /\ k <= 1 => <<0>>[k] = 0
  OBVIOUS
<1>3. 1 \in Nat
  OBVIOUS
<1> QED
  BY <1>1, <1>2, <1>3, WideZeros, Zenon

LEMMA ZeroAmount ==
    ASSUME NEW n \in Nat
    PROVE  LeBytes(0, n) = Zeros(n)
<1>1. PICK rest : Remainders(rest, 0, n)
  <2>1. 0 \in Nat
    OBVIOUS
  <2> QED
    BY <2>1, BytesOfNumber, Zenon
<1> DEFINE S == {k \in Nat : k <= n => rest[k] = 0}
<1>2. 0 \in S
  BY <1>1 DEF Remainders
<1>3. ASSUME NEW k \in Nat, k \in S PROVE k + 1 \in S
  BY <1>1, <1>3 DEF Remainders
<1>4. \A k \in Nat : k \in S
  <2> HIDE DEF S
  <2> QED
    BY <1>2, <1>3, InductionInSet
<1>5. ASSUME NEW p \in 1 .. n PROVE rest[p - 1] % 256 = 0
  <2>1. rest[p - 1] = 0
    BY <1>4
  <2> QED
    BY <2>1
<1>6. LeBytes(0, n) = [p \in 1 .. n |-> rest[p - 1] % 256]
  BY <1>1 DEF Remainders
<1> QED
  BY <1>5, <1>6 DEF Zeros

\* None over zeros, FALSE and 0 are zeros.
LEMMA ZeroFields ==
    /\ PackOptionKey(None, Zeros(36)) = Zeros(36)
    /\ PackOptionU64(None, Zeros(12)) = Zeros(12)
    /\ LeBytes(0, 8) = Zeros(8) /\ PackBool(FALSE) = Zeros(1)
<1>1. ASSUME NEW n \in Nat \ {0}, NEW k \in Nat, k = 4 + n
      PROVE  Zeros(4) \o Drop(Zeros(k), 4) = Zeros(k)
  <2>1. Drop(Zeros(k), 4) = Cut(Zeros(k), 5, k)
    <3>1. Len(Zeros(k)) = k /\ 4 + 1 = 5
      BY ZerosAreBytes
    <3> QED
      BY <3>1 DEF Drop, Cut
  <2>2. Cut(Zeros(k), 5, k) = Zeros(n)
    BY <1>1, CutOfZeros
  <2>3. Join(Zeros(4), Zeros(n)) = Zeros(k)
    BY <1>1, JoinOfZeros
  <2> QED
    BY <2>1, <2>2, <2>3, Zenon DEF Join
<1>2. Zeros(4) \o Drop(Zeros(36), 4) = Zeros(36)
  <2>1. 32 \in Nat \ {0} /\ 36 \in Nat /\ 36 = 4 + 32
    OBVIOUS
  <2> QED
    BY <1>1, <2>1, Zenon
<1>3. Zeros(4) \o Drop(Zeros(12), 4) = Zeros(12)
  <2>1. 8 \in Nat \ {0} /\ 12 \in Nat /\ 12 = 4 + 8
    OBVIOUS
  <2> QED
    BY <1>1, <2>1, Zenon
<1>4. 8 \in Nat
  OBVIOUS
<1>5. LeBytes(0, 8) = Zeros(8)
  BY <1>4, ZeroAmount, Zenon
<1>6. PackBool(FALSE) = Zeros(1)
  BY ZeroByte, Zenon DEF PackBool
<1> QED
  BY <1>2, <1>3, <1>5, <1>6, Zenon DEF PackOptionKey, PackOptionU64

LEMMA ZerosReadAsMint ==
    ASSUME WidthAssumption
    PROVE  UnpackMint(Zeros(82)) = ZeroMint
<1> DEFINE mint == ZeroMint
           z == Zeros(82)
<1>1. /\ mint.mint_authority = None /\ mint.supply = 0 /\ mint.decimals = 0
      /\ mint.is_initialized = FALSE /\ mint.freeze_authority = None
  BY DEF ZeroMint
<1>2. mint \in MintData
  BY U64Assumption DEF ZeroMint, MintData, OptionalKey, U64
<1>3. z \in Wide(82)
  BY ZerosAreWide
<1>4. Cut(z, 1, 36) = Zeros(36) /\ Cut(z, 47, 82) = Zeros(36)
  BY CutOfZeros
<1>5. PackMint(mint, z) =
        Join(Join(Join(Join(PackOptionKey(mint.mint_authority, Cut(z, 1, 36)),
                            LeBytes(mint.supply, 8)),
                       <<mint.decimals>>),
                  PackBool(mint.is_initialized)),
             PackOptionKey(mint.freeze_authority, Cut(z, 47, 82)))
  BY MintIsMadeInto, Zenon
<1> HIDE DEF mint, z
<1>6. PackMint(mint, z) =
        Join(Join(Join(Join(Zeros(36), Zeros(8)), Zeros(1)), Zeros(1)), Zeros(36))
  BY <1>1, <1>4, <1>5, ZeroFields, ZeroByte, Zenon
<1>7. /\ Join(Zeros(36), Zeros(8)) = Zeros(44) /\ Join(Zeros(44), Zeros(1)) = Zeros(45)
      /\ Join(Zeros(45), Zeros(1)) = Zeros(46) /\ Join(Zeros(46), Zeros(36)) = Zeros(82)
  <2>1. Join(Zeros(36), Zeros(8)) = Zeros(44)
    BY JoinOfZeros
  <2>2. Join(Zeros(44), Zeros(1)) = Zeros(45)
    BY JoinOfZeros
  <2>3. Join(Zeros(45), Zeros(1)) = Zeros(46)
    BY JoinOfZeros
  <2>4. Join(Zeros(46), Zeros(36)) = Zeros(82)
    BY JoinOfZeros
  <2> QED
    BY <2>1, <2>2, <2>3, <2>4
<1>8. PackMint(mint, z) = z
  BY <1>6, <1>7, Zenon DEF z
<1>9. UnpackMint(PackMint(mint, z)) = mint
  BY <1>2, <1>3, MintIsRead, Zenon
<1> QED
  BY <1>8, <1>9, Zenon DEF mint, z

LEMMA ZerosReadAsAccount ==
    ASSUME WidthAssumption
    PROVE  UnpackAccount(Zeros(165)) = ZeroAccount
<1> DEFINE account == ZeroAccount
           z == Zeros(165)
           p4 == PackOptionKey(account.delegate, Cut(z, 73, 108))
           p5 == <<StateByte(account.state)>>
           p6 == PackOptionU64(account.is_native, Cut(z, 110, 121))
           p8 == PackOptionKey(account.close_authority, Cut(z, 130, 165))
<1>1. /\ account.mint = SystemProgram /\ account.owner = SystemProgram /\ account.amount = 0
      /\ account.delegate = None /\ account.state = "Uninitialized"
      /\ account.is_native = None /\ account.delegated_amount = 0
      /\ account.close_authority = None
  BY DEF ZeroAccount
<1>2. account \in AccountData
  BY U64Assumption, KeyAssumption DEF ZeroAccount, AccountData, OptionalKey, U64, AccountState
<1>3. z \in Wide(165)
  BY ZerosAreWide
<1>4. /\ Cut(z, 73, 108) = Zeros(36) /\ Cut(z, 110, 121) = Zeros(12)
      /\ Cut(z, 130, 165) = Zeros(36)
  BY CutOfZeros
<1>5. StateByte("Uninitialized") = 0
  <2>1. 0 \in Byte
    BY ByteRange
  <2>2. 0 + 1 \in DOMAIN AccountStates /\ AccountStates[0 + 1] = "Uninitialized"
    BY DEF AccountStates
  <2> QED
    BY <2>1, <2>2, StateIsWritten, Zenon
<1>6. PackAccount(account, z) =
        Join(Join(Join(Join(Join(Join(Join(account.mint, account.owner),
             LeBytes(account.amount, 8)), p4), p5), p6), LeBytes(account.delegated_amount, 8)), p8)
  BY AccountIsMadeInto, Zenon
<1> HIDE DEF account, z
<1>7. p4 = Zeros(36) /\ p5 = Zeros(1) /\ p6 = Zeros(12) /\ p8 = Zeros(36)
  BY <1>1, <1>4, <1>5, ZeroFields, ZeroByte, Zenon
<1>8. /\ account.mint = Zeros(32) /\ account.owner = Zeros(32)
      /\ LeBytes(account.amount, 8) = Zeros(8) /\ LeBytes(account.delegated_amount, 8) = Zeros(8)
  BY <1>1, ZeroFields, Zenon DEF WidthAssumption
<1> HIDE DEF p4, p5, p6, p8
<1>9. /\ Join(Zeros(32), Zeros(32)) = Zeros(64) /\ Join(Zeros(64), Zeros(8)) = Zeros(72)
      /\ Join(Zeros(72), Zeros(36)) = Zeros(108) /\ Join(Zeros(108), Zeros(1)) = Zeros(109)
  <2>1. Join(Zeros(32), Zeros(32)) = Zeros(64)
    BY JoinOfZeros
  <2>2. Join(Zeros(64), Zeros(8)) = Zeros(72)
    BY JoinOfZeros
  <2>3. Join(Zeros(72), Zeros(36)) = Zeros(108)
    BY JoinOfZeros
  <2>4. Join(Zeros(108), Zeros(1)) = Zeros(109)
    BY JoinOfZeros
  <2> QED
    BY <2>1, <2>2, <2>3, <2>4
<1>10. /\ Join(Zeros(109), Zeros(12)) = Zeros(121) /\ Join(Zeros(121), Zeros(8)) = Zeros(129)
       /\ Join(Zeros(129), Zeros(36)) = Zeros(165)
  <2>1. Join(Zeros(109), Zeros(12)) = Zeros(121)
    BY JoinOfZeros
  <2>2. Join(Zeros(121), Zeros(8)) = Zeros(129)
    BY JoinOfZeros
  <2>3. Join(Zeros(129), Zeros(36)) = Zeros(165)
    BY JoinOfZeros
  <2> QED
    BY <2>1, <2>2, <2>3
<1>11. PackAccount(account, z) = z
  BY <1>6, <1>7, <1>8, <1>9, <1>10 DEF z
<1>12. UnpackAccount(PackAccount(account, z)) = account
  BY <1>2, <1>3, AccountIsRead, Zenon
<1> QED
  BY <1>11, <1>12, Zenon DEF account, z

ZeroFullMultisig ==
    [kind |-> "multisig", m |-> 0, n |-> 0, is_initialized |-> FALSE,
     signers |-> [i \in 1 .. MaxSigners |-> SystemProgram]]

LEMMA ZerosReadAsMultisig ==
    ASSUME WidthAssumption
    PROVE  UnpackMultisig(Zeros(355)) = ZeroFullMultisig
<1> DEFINE multisig == ZeroFullMultisig
           keys == [i \in 1 .. MaxSigners |-> SystemProgram]
           p4 == KeysBytes(keys, MaxSigners)
           z == Zeros(355)
<1>1. multisig.m = 0 /\ multisig.n = 0 /\ multisig.is_initialized = FALSE /\ multisig.signers = keys
  BY DEF ZeroFullMultisig
<1>2. multisig \in FullMultisig
  <2>1. 0 \in Byte
    BY ByteRange
  <2> QED
    BY <2>1, KeyAssumption DEF ZeroFullMultisig, FullMultisig
<1>3. p4 = Zeros(352)
  <2> DEFINE n == MaxSigners
  <2>1. n \in Nat /\ 32 * n = 352
    BY DEF WidthAssumption
  <2>2. keys \in [1 .. n -> Wide(32)]
    <3>1. SystemProgram \in Wide(32)
      BY FieldsAreWide, KeyAssumption
    <3> QED
      BY <3>1
  <2>3. p4 \in Wide(32 * n)
    BY <2>1, <2>2, SignersAreRead
  <2>4. ASSUME NEW p \in Nat, 1 <= p, p <= 32 * n PROVE p4[p] = 0
    <3> DEFINE i == ((p - 1) \div 32) + 1
               k == ((p - 1) % 32) + 1
    <3>1. p \in 1 .. 32 * n
      BY <2>1, <2>4
    <3>2. i \in 1 .. n /\ k \in Nat /\ 1 <= k /\ k <= 32
      BY <2>1, <3>1, SignerOfByte
    <3>3. p4[p] = keys[i][k]
      BY <3>1, Zenon DEF KeysBytes
    <3> HIDE DEF i, k
    <3>4. keys[i] = Zeros(32)
      BY <3>2 DEF WidthAssumption
    <3>5. Zeros(32)[k] = 0
      BY <3>2, ZerosAreWide
    <3> QED
      BY <3>3, <3>4, <3>5, Zenon
  <2> HIDE DEF p4
  <2>5. p4 = Zeros(32 * n)
    BY <2>1, <2>3, <2>4, WideZeros
  <2> QED
    BY <2>1, <2>5
<1>4. PackMultisig(multisig) =
        Join(Join(<<multisig.m, multisig.n>>, PackBool(multisig.is_initialized)),
             KeysBytes(multisig.signers, MaxSigners))
  BY MultisigIsMadeInto, Zenon
<1>5. <<0, 0>> = Join(Zeros(1), Zeros(1))
  <2>1. 0 \in Byte
    BY ByteRange
  <2> QED
    BY <2>1, TwoBytes, ZeroByte, Zenon
<1> HIDE DEF multisig, z, keys
<1>6. PackMultisig(multisig) = Join(Join(Join(Zeros(1), Zeros(1)), Zeros(1)), Zeros(352))
  <2>1. <<multisig.m, multisig.n>> = Join(Zeros(1), Zeros(1))
    BY <1>1, <1>5, Zenon
  <2>2. PackBool(multisig.is_initialized) = Zeros(1)
    BY <1>1, ZeroFields, Zenon
  <2>3. KeysBytes(multisig.signers, MaxSigners) = Zeros(352)
    BY <1>1, <1>3, Zenon
  <2> QED
    BY <1>4, <2>1, <2>2, <2>3, Zenon
<1>7. /\ Join(Zeros(1), Zeros(1)) = Zeros(2) /\ Join(Zeros(2), Zeros(1)) = Zeros(3)
      /\ Join(Zeros(3), Zeros(352)) = Zeros(355)
  <2>1. Join(Zeros(1), Zeros(1)) = Zeros(2)
    BY JoinOfZeros
  <2>2. Join(Zeros(2), Zeros(1)) = Zeros(3)
    BY JoinOfZeros
  <2>3. Join(Zeros(3), Zeros(352)) = Zeros(355)
    BY JoinOfZeros
  <2> QED
    BY <2>1, <2>2, <2>3
<1>8. PackMultisig(multisig) = z
  BY <1>6, <1>7, Zenon DEF z
<1>9. UnpackMultisig(PackMultisig(multisig)) = multisig
  BY <1>2, MultisigIsRead, Zenon
<1> QED
  BY <1>8, <1>9, Zenon DEF multisig, z

-----------------------------------------------------------------------------
(* The account.                                                            *)

LEMMA Lengths ==
    /\ MintLen = 82 /\ AccountLen = 165 /\ MultisigLen = 355
    /\ \A n : \A b \in Wide(n) : Len(b) = n
<1>1. MintLen = 82 /\ AccountLen = 165 /\ MultisigLen = 355
  BY DEF MintLen, AccountLen, MultisigLen
<1>2. \A n : \A b \in Wide(n) : Len(b) = n
  BY Zenon DEF Wide
<1> QED
  BY <1>1, <1>2, Zenon

\* The length selects the layout.
LEMMA UnpackByLength ==
    ASSUME NEW b
    PROVE  /\ b \in Wide(82) => UnpackUnchecked(b) = UnpackMint(b)
           /\ b \in Wide(165) => UnpackUnchecked(b) = UnpackAccount(b)
           /\ b \in Wide(355) => UnpackUnchecked(b) = UnpackMultisig(b)
<1> DEFINE length == Len(b)
           mint == UnpackMint(b)
           account == UnpackAccount(b)
           multisig == UnpackMultisig(b)
<1>1. UnpackUnchecked(b) = CASE length = MintLen     -> mint
                             [] length = AccountLen  -> account
                             [] length = MultisigLen -> multisig
                             [] OTHER                -> InvalidAccountData
  BY Zenon DEF UnpackUnchecked
<1>2. /\ b \in Wide(82) => length = 82
      /\ b \in Wide(165) => length = 165
      /\ b \in Wide(355) => length = 355
  BY Lengths, Zenon
<1> HIDE DEF length, mint, account, multisig
<1>3. MintLen = 82 /\ AccountLen = 165 /\ MultisigLen = 355
  BY Lengths
<1> QED
  BY <1>1, <1>2, <1>3 DEF mint, account, multisig

\* What the layouts read.
LEMMA UnpackedKinds ==
    ASSUME WidthAssumption, NEW b
    PROVE  /\ UnpackMint(b) # InvalidAccountData => UnpackMint(b).kind = "mint"
           /\ UnpackAccount(b) # InvalidAccountData => UnpackAccount(b).kind = "account"
           /\ UnpackMultisig(b) # InvalidAccountData => UnpackMultisig(b).kind = "multisig"
<1> DEFINE p1 == Cut(b, 1, 36)
           p2 == Cut(b, 37, 44)
           p3 == Cut(b, 45, 45)
           p4 == Cut(b, 46, 46)
           p5 == Cut(b, 47, 82)
           q1 == Cut(b, 1, 32)
           q2 == Cut(b, 33, 64)
           q3 == Cut(b, 65, 72)
           q4 == Cut(b, 73, 108)
           q5 == Cut(b, 109, 109)
           q6 == Cut(b, 110, 121)
           q7 == Cut(b, 122, 129)
           q8 == Cut(b, 130, 165)
           r1 == Cut(b, 1, 1)
           r2 == Cut(b, 2, 2)
           r3 == Cut(b, 3, 3)
           r4 == Cut(b, 4, 355)
<1>1. UnpackMint(b) = MintOf(p1, p2, p3, p4, p5)
  BY MintIsMadeOf, Zenon
<1>2. UnpackAccount(b) = AccountOf(q1, q2, q3, q4, q5, q6, q7, q8)
  BY AccountIsMadeOf, Zenon
<1>3. UnpackMultisig(b) = MultisigOf(r1, r2, r3, r4)
  BY MultisigIsMadeOf, Zenon
<1> HIDE DEF p1, p2, p3, p4, p5, q1, q2, q3, q4, q5, q6, q7, q8, r1, r2, r3, r4
<1>4. UnpackMint(b) # InvalidAccountData => UnpackMint(b).kind = "mint"
  BY <1>1 DEF MintOf
<1>5. UnpackAccount(b) # InvalidAccountData => UnpackAccount(b).kind = "account"
  BY <1>2 DEF AccountOf
<1>6. UnpackMultisig(b) # InvalidAccountData => UnpackMultisig(b).kind = "multisig"
  BY <1>3 DEF MultisigOf
<1> QED
  BY <1>4, <1>5, <1>6, Zenon

\* The kind selects the layout.
LEMMA PackByKind ==
    ASSUME NEW value, NEW dst
    PROVE  /\ value.kind = "mint" => Pack(value, dst) = PackMint(value, dst)
           /\ value.kind = "account" => Pack(value, dst) = PackAccount(value, dst)
           /\ value.kind = "multisig" => Pack(value, dst) = PackMultisig(value)
<1> DEFINE mint == PackMint(value, dst)
           account == PackAccount(value, dst)
           multisig == PackMultisig(value)
<1>1. Pack(value, dst) = CASE value.kind = "mint"     -> mint
                           [] value.kind = "account"  -> account
                           [] value.kind = "multisig" -> multisig
  BY Zenon DEF Pack
<1> HIDE DEF mint, account, multisig
<1> QED
  BY <1>1 DEF mint, account, multisig

IsOfAWidth(b) == b \in Wide(82) \/ b \in Wide(165) \/ b \in Wide(355)

\* The data keeps the length it was allocated with, and what the program
\* stored last is what it unpacks.
StorageInv ==
    /\ IsOfAWidth(data)
    /\ stored # None => UnpackUnchecked(data) = stored

LEMMA StorageStarts ==
    Init => StorageInv
<1>1. Zeros(82) \in Wide(82) /\ Zeros(165) \in Wide(165) /\ Zeros(355) \in Wide(355)
  BY ZerosAreWide
<1>2. MintLen = 82 /\ AccountLen = 165 /\ MultisigLen = 355
  BY Lengths
<1> SUFFICES ASSUME Init PROVE StorageInv
  OBVIOUS
<1>3. data = Zeros(82) \/ data = Zeros(165) \/ data = Zeros(355)
  BY <1>2 DEF Init
<1>4. stored = None
  BY DEF Init
<1>5. IsOfAWidth(data)
  BY <1>1, <1>3 DEF IsOfAWidth
<1> QED
  BY <1>4, <1>5, Zenon DEF StorageInv

\* Storing a value over data of its length.
LEMMA StoreKeeps ==
    ASSUME WidthAssumption, ClientAssumption, StorageInv, Store
    PROVE  IsOfAWidth(data') /\ UnpackUnchecked(data') = stored'
<1> DEFINE length == Len(data)
<1>1. PICK value \in Values :
         /\ value.kind = CASE length = MintLen     -> "mint"
                           [] length = AccountLen  -> "account"
                           [] length = MultisigLen -> "multisig"
         /\ data' = Pack(value, data)
         /\ stored' = value
  BY Zenon DEF Store
<1>2. value \in MintData \/ value \in AccountData \/ value \in FullMultisig
  BY <1>1, Zenon DEF ClientAssumption
<1>3. /\ value \in MintData => value.kind = "mint"
      /\ value \in AccountData => value.kind = "account"
      /\ value \in FullMultisig => value.kind = "multisig"
  BY DEF MintData, AccountData, FullMultisig
<1>4. MintLen = 82 /\ AccountLen = 165 /\ MultisigLen = 355
  BY Lengths
<1>5. /\ data \in Wide(82) => length = 82
      /\ data \in Wide(165) => length = 165
      /\ data \in Wide(355) => length = 355
  BY Lengths, Zenon
<1> HIDE DEF length
<1>6. CASE data \in Wide(82)
  <2>1. value.kind = "mint"
    BY <1>1, <1>4, <1>5, <1>6
  <2>2. value \in MintData
    BY <1>2, <1>3, <2>1
  <2>3. data' = PackMint(value, data)
    BY <1>1, <2>1, PackByKind, Zenon
  <2>4. data' \in Wide(82) /\ UnpackMint(data') = value
    BY <1>6, <2>2, <2>3, MintIsRead, Zenon
  <2> QED
    BY <1>1, <2>4, UnpackByLength, Zenon DEF IsOfAWidth
<1>7. CASE data \in Wide(165)
  <2>1. value.kind = "account"
    BY <1>1, <1>4, <1>5, <1>7
  <2>2. value \in AccountData
    BY <1>2, <1>3, <2>1
  <2>3. data' = PackAccount(value, data)
    BY <1>1, <2>1, PackByKind, Zenon
  <2>4. data' \in Wide(165) /\ UnpackAccount(data') = value
    BY <1>7, <2>2, <2>3, AccountIsRead, Zenon
  <2> QED
    BY <1>1, <2>4, UnpackByLength, Zenon DEF IsOfAWidth
<1>8. CASE data \in Wide(355)
  <2>1. value.kind = "multisig"
    BY <1>1, <1>4, <1>5, <1>8
  <2>2. value \in FullMultisig
    BY <1>2, <1>3, <2>1
  <2>3. data' = PackMultisig(value)
    BY <1>1, <2>1, PackByKind, Zenon
  <2>4. data' \in Wide(355) /\ UnpackMultisig(data') = value
    BY <2>2, <2>3, MultisigIsRead, Zenon
  <2> QED
    BY <1>1, <2>4, UnpackByLength, Zenon DEF IsOfAWidth
<1> QED
  BY <1>6, <1>7, <1>8 DEF StorageInv, IsOfAWidth

\* Another byte somewhere does not change the length.
LEMMA DifferKeeps ==
    ASSUME ClientAssumption, StorageInv, Differ
    PROVE  IsOfAWidth(data') /\ stored' = None
<1>1. PICK p \in Places \cap DOMAIN data, b \in Bytewise : data' = [data EXCEPT ![p] = b]
  BY Zenon DEF Differ
<1>2. b \in Byte
  BY <1>1, Zenon DEF ClientAssumption
<1>3. ASSUME NEW n, data \in Wide(n) PROVE data' \in Wide(n)
  <2>1. data \in Seq(Byte) /\ Len(data) = n
    BY <1>3, Zenon DEF Wide, Bytes
  <2>2. [data EXCEPT ![p] = b] \in Seq(Byte) /\ Len([data EXCEPT ![p] = b]) = Len(data)
    BY <1>1, <1>2, <2>1, ExceptSeq
  <2> QED
    BY <1>1, <2>1, <2>2, Zenon DEF Wide, Bytes
<1>4. IsOfAWidth(data')
  BY <1>3 DEF StorageInv, IsOfAWidth
<1>5. stored' = None
  BY Zenon DEF Differ
<1> QED
  BY <1>4, <1>5

THEOREM StorageInvariant ==
    WidthAssumption /\ ClientAssumption /\ Spec => []StorageInv
<1> SUFFICES ASSUME WidthAssumption, ClientAssumption
             PROVE  Spec => []StorageInv
  OBVIOUS
<1>1. Init => StorageInv
  BY StorageStarts
<1>2. StorageInv /\ [Next]_vars => StorageInv'
  <2> SUFFICES ASSUME StorageInv, [Next]_vars
               PROVE  StorageInv'
    OBVIOUS
  <2>1. CASE Store
    BY <2>1, StoreKeeps, Zenon DEF StorageInv, IsOfAWidth
  <2>2. CASE Differ
    BY <2>2, DifferKeeps, Zenon DEF StorageInv, IsOfAWidth
  <2>3. CASE UNCHANGED vars
    BY <2>3, Zenon DEF vars, StorageInv, IsOfAWidth, UnpackUnchecked
  <2> QED
    BY <2>1, <2>2, <2>3 DEF Next
<1> QED
  BY <1>1, <1>2, PTL DEF Spec

-----------------------------------------------------------------------------
(* Theorems.                                                               *)

\* StorageReadsBack at one moment.
LEMMA InvReadsBack ==
    ASSUME WidthAssumption, StorageInv
    PROVE  StorageReadsBack
<1> DEFINE value == UnpackUnchecked(data)
<1>1. stored # None => value = stored
  BY DEF StorageInv
<1>2. ASSUME data = Zeros(Len(data))
      PROVE  value \in {ZeroMint, ZeroAccount, ZeroFullMultisig}
  <2>1. CASE data \in Wide(82)
    <3>1. data = Zeros(82)
      BY <1>2, <2>1, Lengths, Zenon
    <3>2. value = UnpackMint(data)
      BY <2>1, UnpackByLength, Zenon
    <3> QED
      BY <3>1, <3>2, ZerosReadAsMint, Zenon
  <2>2. CASE data \in Wide(165)
    <3>1. data = Zeros(165)
      BY <1>2, <2>2, Lengths, Zenon
    <3>2. value = UnpackAccount(data)
      BY <2>2, UnpackByLength, Zenon
    <3> QED
      BY <3>1, <3>2, ZerosReadAsAccount, Zenon
  <2>3. CASE data \in Wide(355)
    <3>1. data = Zeros(355)
      BY <1>2, <2>3, Lengths, Zenon
    <3>2. value = UnpackMultisig(data)
      BY <2>3, UnpackByLength, Zenon
    <3> QED
      BY <3>1, <3>2, ZerosReadAsMultisig, Zenon
  <2> QED
    BY <2>1, <2>2, <2>3, Zenon DEF StorageInv, IsOfAWidth
<1> HIDE DEF value
<1>3. \A v \in {ZeroMint, ZeroAccount, ZeroFullMultisig} :
         ~(IsMint(v) \/ IsAccount(v) \/ IsMultisig(v))
  BY DEF ZeroMint, ZeroAccount, ZeroFullMultisig, IsMint, IsAccount, IsMultisig
<1> QED
  BY <1>1, <1>2, <1>3, Zenon DEF StorageReadsBack, ZeroFullMultisig, value

\* StorageRewritingChangesNothing at one moment.
LEMMA InvRewritingChangesNothing ==
    ASSUME WidthAssumption, StorageInv
    PROVE  StorageRewritingChangesNothing
<1> DEFINE value == UnpackUnchecked(data)
<1> SUFFICES ASSUME value # InvalidAccountData PROVE Pack(value, data) = data
  BY Zenon DEF StorageRewritingChangesNothing
<1>1. CASE data \in Wide(82)
  <2>1. value = UnpackMint(data)
    BY <1>1, UnpackByLength, Zenon
  <2>2. value.kind = "mint"
    BY <2>1, UnpackedKinds, Zenon
  <2>3. PackMint(UnpackMint(data), data) = data
    BY <1>1, <2>1, MintIsWritten, Zenon
  <2> QED
    BY <2>1, <2>2, <2>3, PackByKind, Zenon
<1>2. CASE data \in Wide(165)
  <2>1. value = UnpackAccount(data)
    BY <1>2, UnpackByLength, Zenon
  <2>2. value.kind = "account"
    BY <2>1, UnpackedKinds, Zenon
  <2>3. PackAccount(UnpackAccount(data), data) = data
    BY <1>2, <2>1, AccountIsWritten, Zenon
  <2> QED
    BY <2>1, <2>2, <2>3, PackByKind, Zenon
<1>3. CASE data \in Wide(355)
  <2>1. value = UnpackMultisig(data)
    BY <1>3, UnpackByLength, Zenon
  <2>2. value.kind = "multisig"
    BY <2>1, UnpackedKinds, Zenon
  <2>3. PackMultisig(UnpackMultisig(data)) = data
    BY <1>3, <2>1, MultisigIsWritten, Zenon
  <2> QED
    BY <2>1, <2>2, <2>3, PackByKind, Zenon
<1> QED
  BY <1>1, <1>2, <1>3, Zenon DEF StorageInv, IsOfAWidth

\* StorageReadersAgree at one moment.
LEMMA InvReadersAgree ==
    ASSUME WidthAssumption, StorageInv
    PROVE  StorageReadersAgree
<1> DEFINE value == UnpackUnchecked(data)
<1>1. Len(data) # AccountLen => ~ValidAccountData(data)
  BY DEF ValidAccountData
<1>2. ASSUME value # InvalidAccountData, value.kind = "account"
      PROVE  /\ ValidAccountData(data) = IsAccount(value)
             /\ IsAccount(value) => /\ UnpackAccountOwner(data) = value.owner
                                    /\ UnpackAccountMint(data) = value.mint
  <2>1. data \in Wide(165)
    <3>1. CASE data \in Wide(82)
      <4>1. value = UnpackMint(data)
        BY <3>1, UnpackByLength, Zenon
      <4>2. UnpackMint(data) # InvalidAccountData => UnpackMint(data).kind = "mint"
        BY UnpackedKinds, Zenon
      <4> HIDE DEF value
      <4> QED
        BY <1>2, <4>1, <4>2
    <3>2. CASE data \in Wide(355)
      <4>1. value = UnpackMultisig(data)
        BY <3>2, UnpackByLength, Zenon
      <4>2. UnpackMultisig(data) # InvalidAccountData => UnpackMultisig(data).kind = "multisig"
        BY UnpackedKinds, Zenon
      <4> HIDE DEF value
      <4> QED
        BY <1>2, <4>1, <4>2
    <3> QED
      BY <3>1, <3>2, Zenon DEF StorageInv, IsOfAWidth
  <2> DEFINE p1 == Cut(data, 1, 32)
             p2 == Cut(data, 33, 64)
             p3 == Cut(data, 65, 72)
             p4 == Cut(data, 73, 108)
             p5 == Cut(data, 109, 109)
             p6 == Cut(data, 110, 121)
             p7 == Cut(data, 122, 129)
             p8 == Cut(data, 130, 165)
             byte == p5[1]
  <2>2. value = AccountOf(p1, p2, p3, p4, p5, p6, p7, p8)
    BY <2>1, UnpackByLength, AccountIsMadeOf, Zenon
  <2>3. data[109] = byte
    BY <2>1, ByteOfCut
  <2>4. byte \in Byte
    <3>1. p5 \in Wide(1)
      BY <2>1, CutIsWide
    <3> HIDE DEF p5
    <3>2. p5[1] \in Byte
      BY <3>1, WideByte
    <3> QED
      BY <3>2
  <2>5. UnpackPubkeyUnchecked(data, 0) = p1 /\ UnpackPubkeyUnchecked(data, 32) = p2
    <3>1. 0 + 1 = 1 /\ 0 + 32 = 32 /\ 32 + 1 = 33 /\ 32 + 32 = 64
      OBVIOUS
    <3> QED
      BY <3>1 DEF UnpackPubkeyUnchecked, Cut
  <2>6. ValidAccountData(data) <=> byte # 0
    <3>1. Len(data) = AccountLen /\ Len(data) = 165
      BY <2>1, Lengths
    <3> HIDE DEF byte
    <3> QED
      BY <2>3, <3>1 DEF ValidAccountData, IsInitializedAccount
  <2>7. /\ byte + 1 \in DOMAIN AccountStates
        /\ value.kind = "account" /\ value.state = AccountStates[byte + 1]
        /\ value.owner = p2 /\ value.mint = p1
    <3> HIDE DEF p1, p2, p3, p4, p5, p6, p7, p8, value
    <3> QED
      BY <1>2, <2>2 DEF AccountOf
  <2>8. byte # 0 <=> AccountStates[byte + 1] # "Uninitialized"
    <3>1. /\ DOMAIN AccountStates = 1 .. 3
          /\ AccountStates[1] = "Uninitialized" /\ AccountStates[2] = "Initialized"
          /\ AccountStates[3] = "Frozen"
      BY DEF AccountStates
    <3>2. byte \in Nat /\ byte + 1 \in 1 .. 3
      BY <2>4, <2>7, <3>1, ByteRange
    <3> HIDE DEF byte
    <3>3. byte = 0 \/ byte = 1 \/ byte = 2
      BY <3>2
    <3> QED
      BY <3>1, <3>3
  <2> HIDE DEF value, byte, p1, p2, p3, p4, p5, p6, p7, p8
  <2>9. IsAccount(value) <=> byte # 0
    BY <2>7, <2>8 DEF IsAccount
  <2>10. ASSUME ValidAccountData(data)
         PROVE  UnpackAccountOwner(data) = p2 /\ UnpackAccountMint(data) = p1
    BY <2>5, <2>10 DEF UnpackAccountOwner, UnpackAccountMint
  <2>11. ValidAccountData(data) = IsAccount(value)
    BY <2>6, <2>9 DEF ValidAccountData, IsInitializedAccount, IsAccount
  <2> QED
    BY <2>6, <2>7, <2>9, <2>10, <2>11
<1> HIDE DEF value
<1> QED
  BY <1>1, <1>2, Zenon DEF StorageReadersAgree, value

\* What the program reads in an account is what it stored there last, to the
\* last operand and over whatever the bytes held before, and zeroed data reads
\* as the value of a new account: for all addresses, amounts and decimals.
THEOREM StoredIsRead ==
    WidthAssumption /\ ClientAssumption /\ Spec => []StorageReadsBack
<1> SUFFICES ASSUME WidthAssumption, ClientAssumption
             PROVE  Spec => []StorageReadsBack
  OBVIOUS
<1>1. StorageInv => StorageReadsBack
  BY InvReadsBack
<1>2. Spec => []StorageInv
  BY StorageInvariant
<1> QED
  BY <1>1, <1>2, PTL

\* Packing what was unpacked changes no byte, whoever wrote the data.
THEOREM RewritingIsInvisible ==
    WidthAssumption /\ ClientAssumption /\ Spec => []StorageRewritingChangesNothing
<1> SUFFICES ASSUME WidthAssumption, ClientAssumption
             PROVE  Spec => []StorageRewritingChangesNothing
  OBVIOUS
<1>1. StorageInv => StorageRewritingChangesNothing
  BY InvRewritingChangesNothing
<1>2. Spec => []StorageInv
  BY StorageInvariant
<1> QED
  BY <1>1, <1>2, PTL

\* The readers that look at a few bytes of an account agree with unpacking
\* all of it, on data of whatever length and origin.
THEOREM PartialReadersAgree ==
    WidthAssumption /\ ClientAssumption /\ Spec => []StorageReadersAgree
<1> SUFFICES ASSUME WidthAssumption, ClientAssumption
             PROVE  Spec => []StorageReadersAgree
  OBVIOUS
<1>1. StorageInv => StorageReadersAgree
  BY InvReadersAgree
<1>2. Spec => []StorageInv
  BY StorageInvariant
<1> QED
  BY <1>1, <1>2, PTL
=============================================================================
