-------------------------- MODULE TransferAmounts --------------------------
(***************************************************************************)
(* What a user types for the amount of a transfer, and the raw units it is *)
(* turned into.  The text is a sequence of characters: digits, the point   *)
(* and one character that is neither.                                      *)
(***************************************************************************)
EXTENDS Integers, SequencesExt

CONSTANTS
    Digit,           \* the digits used in this instance
    FractionDigits,  \* digits of the fraction: 9 in the code
    MaxLength        \* bound: characters of the text

AmountAssumption == Digit \subseteq 0 .. 9 /\ {FractionDigits, MaxLength} \subseteq Nat

VARIABLES text, unit, is_stc

typed == <<text, unit, is_stc>>
Point == 10
Other == 11
Char == Digit \cup {Point, Other}
Power[n \in Nat] == IF n = 0 THEN 1 ELSE 10 * Power[n - 1]
StcScale == Power[FractionDigits]

\* int() of a text of digits.
int(digits) == FoldSeq(LAMBDA d, acc : 10 * acc + d, 0, Reverse(digits))
isdigit(t) == t # <<>> /\ \A i \in DOMAIN t : t[i] \in Digit

Refusal == [refused |-> TRUE, raw_amount |-> 0]
Raw(n) == [refused |-> FALSE, raw_amount |-> n]

\* The places where a point splits the text.
Points == {i \in DOMAIN text : text[i] = Point}
Whole == IF Points = {} THEN text ELSE SubSeq(text, 1, Min(Points) - 1)
Fraction == IF Points = {} THEN <<>> ELSE SubSeq(text, Min(Points) + 1, Len(text))

\* STC_AMOUNT_PATTERN: digits, and a point only before one to nine digits.
STC_AMOUNT_PATTERN ==
    /\ isdigit(Whole)
    /\ Points # {} => isdigit(Fraction) /\ Len(Fraction) <= FractionDigits

\* The fraction filled with zeros on the right.
ljust(digits) == digits \o [i \in 1 .. FractionDigits - Len(digits) |-> 0]

normalize_transfer_amount ==
    IF unit = "raw"
    THEN IF isdigit(text) THEN Raw(int(text)) ELSE Refusal
    ELSE IF is_stc /\ STC_AMOUNT_PATTERN
         THEN Raw(int(Whole) * StcScale + (IF Fraction = <<>> THEN 0 ELSE int(ljust(Fraction))))
         ELSE Refusal
---------------------------------------------------------------------------
AmountInit == text = <<>> /\ unit \in {"raw", "stc"} /\ is_stc \in BOOLEAN

Type(c) == Len(text) < MaxLength /\ text' = Append(text, c) /\ UNCHANGED <<unit, is_stc>>
Clear == text # <<>> /\ text' = <<>> /\ UNCHANGED <<unit, is_stc>>

AmountSpec == AmountInit /\ [][(\E c \in Char : Type(c)) \/ Clear]_typed
---------------------------------------------------------------------------
\* The value of a decimal text in units of the FractionDigits-th place, digit by
\* digit from its place.
Place(i) == IF Points = {} THEN Len(text) - i
            ELSE IF i < Min(Points) THEN Min(Points) - 1 - i
            ELSE Min(Points) - i
Positions == {i \in DOMAIN text : text[i] \in Digit}
Value(scale) == FoldSet(LAMBDA i, acc : acc + text[i] * Power[Place(i) + scale], 0, Positions)

\* An amount that is accepted is worth exactly what was typed: no digit of the
\* fraction is lost or shifted, and an amount in STC is refused for a token
\* whose scale is not known.  (normalize_transfer_amount.)
AmountIsExact ==
    LET amount == normalize_transfer_amount
    IN  ~amount.refused =>
            /\ Other \notin ToSet(text) /\ Positions # {}
            /\ unit = "stc" => is_stc
            /\ amount.raw_amount = Value(IF unit = "raw" THEN 0 ELSE FractionDigits)
===========================================================================
