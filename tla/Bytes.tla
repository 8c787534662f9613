------------------------------- MODULE Bytes -------------------------------
(* Byte strings, as sequences of numbers below 256.                         *)
EXTENDS Integers, SequencesExt

Byte == 0 .. 255

\* The n bytes of a number, the low ones first (to_le_bytes).
LeBytes(v, n) ==
    LET rest[p \in 0 .. n] == IF p = 0 THEN v ELSE rest[p - 1] \div 256
    IN  [p \in 1 .. n |-> rest[p - 1] % 256]

\* from_le_bytes
FromLeBytes(b) ==
    LET last[n \in 0 .. Len(b)] ==     \* what the last n bytes stand for
            IF n = 0 THEN 0 ELSE b[Len(b) - n + 1] + 256 * last[n - 1]
    IN  last[Len(b)]

Take(b, n) == SubSeq(b, 1, n)

Drop(b, n) == SubSeq(b, n + 1, Len(b))

Zeros(n) == [p \in 1 .. n |-> 0]

\* array_refs!: consecutive pieces of the given widths.
Pieces(b, widths) ==
    LET end[i \in 0 .. Len(widths)] == IF i = 0 THEN 0 ELSE end[i - 1] + widths[i]
    IN  [i \in DOMAIN widths |-> SubSeq(b, end[i - 1] + 1, end[i])]
=============================================================================
