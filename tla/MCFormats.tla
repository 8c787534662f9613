------------------------------ MODULE MCFormats ------------------------------
(***************************************************************************)
(* What clients write, on small instances, side by side: a behaviour is    *)
(* about the texts of amounts or about instruction data, and the variables *)
(* of the other rest.                                                      *)
(***************************************************************************)
EXTENDS Integers, Sequences

CONSTANTS
    None, InvalidArgument, InvalidInstruction

VARIABLES
    format,                     \* what the behaviour is about
    decimals, text, amount,     \* of UiAmountProperties
    sent, data                  \* of InstructionCodecProperties

-----------------------------------------------------------------------------
(* All amounts of a small u64 and all texts of up to four characters.      *)

Text == INSTANCE UiAmountProperties
           WITH U64Max <- 24, Precisions <- {0, 1, 2, 3},
                Characters <- {"0", "1", "2", ".", "+", "x"}, MaxLength <- 4

-----------------------------------------------------------------------------
(* Addresses and amounts of two bytes: every operation, cut short,         *)
(* lengthened by up to two bytes, or with a byte altered.  A "1" and a "1" *)
(* behind a point, and nothing else, is a text here.                       *)

Wire == INSTANCE InstructionCodecProperties
           WITH U64Max <- 65535, KeyLen <- 2, AmountLen <- 2,
                Key <- {<<0, 0>>, <<0, 1>>, <<1, 0>>}, SystemProgram <- <<0, 0>>,
                Incinerator <- <<0, 1>>, NativeMint <- <<1, 0>>,
                RentSysvar <- <<1, 1>>, SplToken <- <<2, 0>>,
                UiText <- {<<>>, <<49>>, <<46, 49>>},
                Decimals <- {0, 2}, NativeDecimals <- 2, MaxSigners <- 11,
                Small <- {0, 3, 255}, Amounts <- {0, 1, 256, 65535},
                Bytes <- {0, 1, 2, 49, 255}, MaxExtra <- 2

-----------------------------------------------------------------------------
ASSUME FormatAssumption ==
    Text!ClientAssumption /\ Wire!WidthAssumption /\ Wire!ClientAssumption

textVars == <<decimals, text, amount>>
wireVars == <<sent, data>>

NoText == decimals = 0 /\ text = <<>> /\ amount = 0
NoWire == sent = None /\ data = <<>>

Init ==
    \/ format = "text" /\ Text!Init /\ NoWire
    \/ format = "wire" /\ Wire!Init /\ NoText

Next ==
    \/ format = "text" /\ Text!Next /\ UNCHANGED <<format, wireVars>>
    \/ format = "wire" /\ Wire!Next /\ UNCHANGED <<format, textVars>>

Spec == Init /\ [][Next]_<<format, textVars, wireVars>>

-----------------------------------------------------------------------------
\* Every amount of a small u64, rendered in either way, is parsed back to
\* itself.
TextRoundTrip == format = "text" => Text!TextRoundTrip

\* Every text of four characters is parsed as the amount it stands for.
TextParsesByValue == format = "text" => Text!TextParsesByValue

\* The program runs the operation a client packed.
WireRoundTrip == format = "wire" => Wire!WireRoundTrip

\* Instruction data that nobody packed, or that was cut short, is refused.
WireAcceptsOnlyPacked == format = "wire" => Wire!WireAcceptsOnlyPacked
=============================================================================
