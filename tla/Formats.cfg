\* Texts of amounts, and instruction data.
CONSTANTS
    None = None
    InvalidArgument = InvalidArgument
    InvalidInstruction = InvalidInstruction
\* Nobody has to type, and data that is cut or lengthened to the bound stays as
\* it is.
CHECK_DEADLOCK FALSE
SPECIFICATION Spec
INVARIANTS
    TextRoundTrip
    TextParsesByValue
    WireRoundTrip
    WireAcceptsOnlyPacked
