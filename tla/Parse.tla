------------------------------- MODULE Parse -------------------------------
(***************************************************************************)
(* parseNumber() of shared/hipobj-parse.h, which reads the numbers of      *)
(* tokens, replies, environment variables and headers.                     *)
(*                                                                         *)
(* A text is a sequence of characters, and a character a string of one     *)
(* letter or, for the ones with no letter, of its name.  A std::optional   *)
(* is a set of at most one element.                                        *)
(***************************************************************************)
EXTENDS Integers, SequencesExt

kHexDigits ==
    <<"0", "1", "2", "3", "4", "5", "6", "7", "8", "9", "a", "b", "c", "d", "e", "f">>
UpperDigits ==
    <<"0", "1", "2", "3", "4", "5", "6", "7", "8", "9", "A", "B", "C", "D", "E", "F">>

\* The values below base that a character stands for: one, or none
DigitValues(c, base) == {d \in 0 .. base - 1 : c \in {kHexDigits[d + 1], UpperDigits[d + 1]}}

AllDigits(text, base) == \A k \in 1 .. Len(text) : DigitValues(text[k], base) # {}

Value(text, base) ==
    FoldLeft(LAMBDA v, c : base * v + (CHOOSE d \in DigitValues(c, base) : TRUE), 0, text)

\* An unsigned type whose largest value is max: all of the text is digits,
\* at least one, of a value that fits
parseNumber(text, base, max) ==
    IF text # <<>> /\ AllDigits(text, base)
    THEN {v \in {Value(text, base)} : v <= max}
    ELSE {}

\* A signed type whose largest value is max: a '-' may come first
parseSigned(text, base, max) ==
    IF text # <<>> /\ Head(text) = "-"
    THEN {-v : v \in parseNumber(Tail(text), base, max + 1)}
    ELSE parseNumber(text, base, max)
=============================================================================
