--------------------------- MODULE TransferLamports ---------------------------
(***************************************************************************)
(* The transfer-lamports programs: five ports of one instruction, which    *)
(* moves lamports from its first account to its second.  A port gets the   *)
(* accounts as the client listed them and the instruction data, and works  *)
(* on lamports in place; the runtime commits what it leaves or refuses it. *)
(* u64 arithmetic wraps around in the builds for the chain.                *)
(***************************************************************************)
EXTENDS Totals, Sequences

CONSTANTS
    Key,            \* addresses of accounts
    ProgramOwned,   \* those that belong to the program
    Genesis,        \* [Key -> lamports]
    DataLen,        \* lengths of an account's data in use
    InputLen,       \* lengths of the instruction data in use
    Failure         \* an error or a fault instead of lamports

AccountAssumption ==
    /\ IsFiniteSet(Key) /\ ProgramOwned \subseteq Key
    /\ Genesis \in [Key -> U64] /\ Total(Genesis) <= U64Max
    /\ DataLen \subseteq Nat /\ InputLen \subseteq Nat

VARIABLES
    lamports,   \* AccountInfo.lamports
    size        \* the length of AccountInfo.data

vars == <<lamports, size>>

\* An instruction: its accounts, the length of its data, and the number in the
\* first eight bytes of it, or of what lies there when the data is shorter.
Calls ==
    [accounts : UNION {[1 .. n -> Key] : n \in 0 .. 3}, length : InputLen, amount : U64]

Width == U64Max + 1

\* Mutant: the source is emptied at most.
MovedSaturating(amount, from, to) ==
    LET taken == [lamports EXCEPT ![from] = IF amount > @ THEN 0 ELSE @ - amount]
    IN  [taken EXCEPT ![to] = (@ + amount) % Width]

\* *source -= amount; *destination += amount, which may be the same place.
Moved(amount, from, to) ==
    LET taken == [lamports EXCEPT ![from] = (@ - amount) % Width]
    IN  [taken EXCEPT ![to] = (@ + amount) % Width]

-----------------------------------------------------------------------------
(* The ports.  Each yields the set of lamports it can leave, or Failure.    *)

\* The Rust program takes the first two accounts and data of just eight bytes:
\* otherwise the conversion to an array panics.
Rust(c) ==
    IF c.length # 8 \/ Len(c.accounts) < 2 THEN {Failure}
    ELSE {Moved(c.amount, c.accounts[1], c.accounts[2])}

\* With pinocchio there must be no third account, and a second account that
\* repeats the first is left alone, whatever the data.
Pinocchio(c) ==
    IF Len(c.accounts) # 2 THEN {Failure}
    ELSE IF c.accounts[1] = c.accounts[2] THEN {lamports}
    ELSE IF c.length # 8 THEN {Failure}
    ELSE {Moved(c.amount, c.accounts[1], c.accounts[2])}

\* C and Zig do not count accounts or data.  An account that is not there is a
\* pointer nobody has set: the program faults, or what it took from the source
\* is missing and the runtime refuses that, or the amount was zero.
Unchecked(c) ==
    IF Len(c.accounts) < 2 THEN {Failure, lamports}
    ELSE {Moved(c.amount, c.accounts[1], c.accounts[2])}

-----------------------------------------------------------------------------
(* The assembly reads the input the runtime serializes, by address.         *)

\* Mutant: an address is moved to the next multiple even when it is one.
AlignAlways(address) == address - (address % 8) + 8

\* and64 r4, -8, and eight more if that has dropped something.
Align(address) == address - (address % 8) + (IF address % 8 = 0 THEN 0 ELSE 8)

\* An account takes its marker and flags, key, owner, lamports, the length, the
\* data with space to grow by 10240 bytes up to a multiple of eight, and the rent
\* epoch; the repetition of an account takes eight bytes.
Repeats(c, n) == \E p \in 1 .. n - 1 : c.accounts[p] = c.accounts[n]

Taken(c, n) ==
    IF Repeats(c, n) THEN 8
    ELSE 88 + 8 * ((size[c.accounts[n]] + 7) \div 8) + 10240 + 8

\* Where the nth account of the input starts.
StartOf(c, n) ==
    LET start[i \in 1 .. Len(c.accounts) + 1] ==
           IF i = 1 THEN 8 ELSE start[i - 1] + Taken(c, i - 1)
    IN  start[n]

\* The words the assembly looks for, and where the runtime puts them.
AccountWords(c, n) ==
    IF Repeats(c, n) THEN {<<StartOf(c, n), 0>>}
    ELSE {<<StartOf(c, n), 255>>,
          <<StartOf(c, n) + 72, lamports[c.accounts[n]]>>,
          <<StartOf(c, n) + 80, size[c.accounts[n]]>>}

Input(c) ==
    LET after == StartOf(c, Len(c.accounts) + 1)
    IN  {<<0, Len(c.accounts)>>, <<after, c.length>>, <<after + 8, c.amount>>}
        \cup (UNION {AccountWords(c, n) : n \in DOMAIN c.accounts})

\* Any other word is something else: it matches nothing.
Word(input, address) ==
    IF \E w \in input : w[1] = address
    THEN (CHOOSE w \in input : w[1] = address)[2]
    ELSE 0

Assembly(c) ==
    LET input == Input(c)
        r3 == Word(input, 8 + 80)
        r4 == Align(8 + 8 + 32 + 32 + 8 + 8 + 10240 + 8 + r3)
        r6 == Word(input, r4 + 80)
        r7 == Align(r4 + 8 + 32 + 32 + 8 + 8 + 10240 + 8 + r6)
        amount == Word(input, r7 + 8)
    IN  IF Word(input, 0) # 2 \/ Word(input, r4) # 255 \/ Word(input, r7) # 8
        THEN {Failure}
        ELSE {[lamports EXCEPT
                 ![c.accounts[1]] = (Word(input, 8 + 72) - amount) % Width,
                 ![c.accounts[2]] = (Word(input, r4 + 72) + amount) % Width]}

Ports == {"Rust", "Pinocchio", "C", "Zig", "Assembly"}

Outcomes(port, c) ==
    CASE port = "Rust"         -> Rust(c)
      [] port = "Pinocchio"    -> Pinocchio(c)
      [] port \in {"C", "Zig"} -> Unchecked(c)
      [] port = "Assembly"     -> Assembly(c)

-----------------------------------------------------------------------------
\* The runtime: the sum stays, and only the program's accounts have less.
Accepted(left) ==
    /\ Total(left) = Total(lamports)
    /\ \A k \in Key : left[k] < lamports[k] => k \in ProgramOwned

\* What remains of an instruction.
Committed(port, c) ==
    {IF left # Failure /\ Accepted(left) THEN left ELSE Failure :
        left \in Outcomes(port, c)}

Init ==
    /\ lamports = Genesis
    /\ size \in [Key -> DataLen]

Invoke(port, c) ==
    /\ lamports' \in Committed(port, c) \ {Failure}
    /\ UNCHANGED size

Next == \E port \in Ports, c \in Calls : Invoke(port, c)

Spec == Init /\ [][Next]_vars

-----------------------------------------------------------------------------
\* The calls the README describes: an amount for two different accounts.
Proper == {c \in Calls : c.length = 8 /\ Len(c.accounts) = 2 /\ c.accounts[1] # c.accounts[2]}

\* An amount the source can pay arrives, under every port: the assembly finds
\* the second account and the data behind accounts of every size.
AffordableTransfersArrive ==
    \A c \in Proper :
        LET from == c.accounts[1]
            to == c.accounts[2]
        IN  (from \in ProgramOwned \/ c.amount = 0) /\ c.amount <= lamports[from] =>
               \A port \in Ports :
                  Committed(port, c) = {[lamports EXCEPT ![from] = @ - c.amount,
                                                         ![to] = @ + c.amount]}

\* The five ports cannot be told apart by the calls the README describes, not
\* even by an amount the source cannot pay; and of any call with an amount, what
\* it leaves of the lamports is the same under all the ports that accept it.
TransferPortsAgree ==
    /\ \A c \in Proper, port \in Ports : Committed(port, c) = Committed("Rust", c)
    /\ \A c \in {d \in Calls : d.length = 8} :
          Cardinality((UNION {Committed(port, c) : port \in Ports}) \ {Failure}) <= 1
=============================================================================
