------------------------------ MODULE UiAmount ------------------------------
(***************************************************************************)
(* Amounts as people write them (token/src/lib.rs).  A raw amount counts   *)
(* the smallest units of a token, and a mint's decimals say how many of    *)
(* them make one.  The program renders an amount as a string with a        *)
(* decimal point and parses such strings back, without floating point.     *)
(* A string is a sequence of characters.                                   *)
(***************************************************************************)
EXTENDS Totals, SequencesExt

CONSTANT InvalidArgument    \* ProgramError::InvalidArgument

ASSUME InvalidAssumption == InvalidArgument \notin Int

Digits == <<"0", "1", "2", "3", "4", "5", "6", "7", "8", "9">>

IsDigit(c) == \E i \in 1 .. 10 : Digits[i] = c

\* The number a sequence of digits denotes.
Value(s) == FoldLeft(LAMBDA n, c : 10 * n + SelectInSeq(Digits, LAMBDA d : d = c) - 1, 0, s)

\* format!("{:01$}", n, width): in decimal, left padded with zeros.
ZeroPadded(n, width) ==
    LET length == CHOOSE w \in 1 .. n + 1 : n < 10^w /\ (w > 1 => 10^(w - 1) <= n)
        w == IF length < width THEN width ELSE length
    IN  [i \in 1 .. w |-> Digits[1 + ((n \div 10^(w - i)) % 10)]]

\* An integer digit comes before the point even when the amount is below one.
AmountToUiAmountString(amount, decimals) ==
    LET s == ZeroPadded(amount, decimals + 1)
    IN  IF decimals > 0 THEN InsertAt(s, Len(s) - decimals + 1, ".") ELSE s

\* str::trim_end_matches
TrimEnd(s, c) == SubSeq(s, 1, SelectLastInSeq(s, LAMBDA d : d # c))

\* Mutant: zeros are trimmed from integers, too.
AmountToUiAmountStringTrimmedAlways(amount, decimals) ==
    TrimEnd(TrimEnd(AmountToUiAmountString(amount, decimals), "0"), ".")

AmountToUiAmountStringTrimmed(amount, decimals) ==
    LET s == AmountToUiAmountString(amount, decimals)
    IN  IF decimals > 0 THEN TrimEnd(TrimEnd(s, "0"), ".") ELSE s

\* str::parse::<u64>: digits after an optional plus sign, in range.
ParseU64(s) ==
    LET digits == IF Len(s) > 1 /\ s[1] = "+" THEN Tail(s) ELSE s
    IN  IF digits # <<>> /\ (\A i \in DOMAIN digits : IsDigit(digits[i]))
              /\ Value(digits) <= U64Max
        THEN Value(digits)
        ELSE InvalidArgument

\* What follows the first point, and whether there is a second one.
AfterPoint(s) ==
    IF Contains(s, ".") THEN SubSeq(s, SelectInSeq(s, LAMBDA c : c = ".") + 1, Len(s))
                        ELSE <<>>

\* Mutant: digits that do not fit are dropped instead of refused.
TryUiAmountIntoAmountTruncating(uiAmount, decimals) ==
    LET whole == SubSeq(uiAmount, 1, Len(uiAmount) - Len(AfterPoint(uiAmount))
                           - (IF Contains(uiAmount, ".") THEN 1 ELSE 0))
        fraction == TrimEnd(AfterPoint(uiAmount), "0")
        kept == SubSeq(fraction, 1, IF Len(fraction) < decimals
                                    THEN Len(fraction) ELSE decimals)
    IN  IF (whole = <<>> /\ fraction = <<>>) \/ Contains(AfterPoint(uiAmount), ".")
        THEN InvalidArgument
        ELSE ParseU64(whole \o kept \o [i \in 1 .. decimals - Len(kept) |-> "0"])

TryUiAmountIntoAmount(uiAmount, decimals) ==
    LET whole == SubSeq(uiAmount, 1, Len(uiAmount) - Len(AfterPoint(uiAmount))
                           - (IF Contains(uiAmount, ".") THEN 1 ELSE 0))
        fraction == TrimEnd(AfterPoint(uiAmount), "0")
    IN  IF \/ whole = <<>> /\ fraction = <<>>
           \/ Contains(AfterPoint(uiAmount), ".")
           \/ Len(fraction) > decimals
        THEN InvalidArgument
        ELSE ParseU64(whole \o fraction
                         \o [i \in 1 .. decimals - Len(fraction) |-> "0"])

=============================================================================
