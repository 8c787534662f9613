------------------------- MODULE UiAmountProperties -------------------------
(***************************************************************************)
(* A client that renders amounts and parses what people type.              *)
(***************************************************************************)
EXTENDS UiAmount

CONSTANTS
    Precisions,     \* values of a mint's decimals
    Characters,     \* what people type, and
    MaxLength       \* how much of it

ClientAssumption == Precisions \subseteq Nat /\ MaxLength \in Nat

VARIABLES
    decimals,
    text,       \* the ui amount on the screen
    amount      \* the raw amount it was parsed to, or the error

vars == <<decimals, text, amount>>

Init ==
    /\ decimals \in Precisions
    /\ text = <<>>
    /\ amount \in U64

\* Into an empty field.
Type ==
    /\ text = <<>>
    /\ text' \in BoundedSeq(Characters, MaxLength)
    /\ UNCHANGED <<decimals, amount>>

Parse ==
    /\ amount' = TryUiAmountIntoAmount(text, decimals)
    /\ UNCHANGED <<decimals, text>>

Render ==
    /\ amount # InvalidArgument
    /\ text' \in {AmountToUiAmountString(amount, decimals),
                  AmountToUiAmountStringTrimmed(amount, decimals)}
    /\ UNCHANGED <<decimals, amount>>

Next == Type \/ Parse \/ Render

Spec == Init /\ [][Next]_vars

-----------------------------------------------------------------------------
\* What is rendered is parsed back to the same amount, trimmed or not, for
\* every amount and precision, and trimming leaves no zero or point to trim
\* behind a decimal point, and a digit in front.
TextRoundTrip ==
    amount # InvalidArgument =>
        LET full == AmountToUiAmountString(amount, decimals)
            trimmed == AmountToUiAmountStringTrimmed(amount, decimals)
        IN  /\ TryUiAmountIntoAmount(full, decimals) = amount
            /\ TryUiAmountIntoAmount(trimmed, decimals) = amount
            /\ Contains(trimmed, ".") => trimmed[Len(trimmed)] \notin {"0", "."}
            /\ trimmed # <<>> /\ IsDigit(Head(trimmed))

\* The text as a fraction: a sign, digits, and at most one point among them.
Unsigned == IF Len(text) > 1 /\ text[1] = "+" THEN Tail(text) ELSE text

Figures == SelectSeq(Unsigned, IsDigit)

Places == Len(AfterPoint(Unsigned))

\* A bare point with zeros, such as ".0", does not count as a number.
IsNumber ==
    /\ Figures # <<>>
    /\ Len(Figures) + 1 >= Len(Unsigned)
    /\ \A i \in DOMAIN Unsigned : IsDigit(Unsigned[i]) \/ Unsigned[i] = "."
    /\ Unsigned[1] = "." => Value(Figures) > 0

\* The parser is exact: a text that is a number is taken for the one amount it
\* stands for, Figures / 10^Places tokens, and refused if there is none.  It
\* neither rounds nor mistakes a digit's place.
TextParsesByValue ==
    IsNumber =>
        LET parsed == TryUiAmountIntoAmount(text, decimals)
            units == Value(Figures) * 10^decimals
        IN  IF \E n \in U64 : n * 10^Places = units
            THEN parsed # InvalidArgument /\ parsed * 10^Places = units
            ELSE parsed = InvalidArgument
=============================================================================
