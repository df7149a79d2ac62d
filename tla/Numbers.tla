-------------------------------- MODULE Numbers --------------------------------
(***************************************************************************)
(* bigint of util.hpp: an unsigned number kept as SIZE_BYTES bytes, the    *)
(* most significant first, and its hexadecimal text.  A text is a sequence *)
(* of digits, or NoDigit for any other character; u128, u256 and u512      *)
(* differ in the size only.                                                *)
(***************************************************************************)
EXTENDS Integers, Sequences, SequencesExt

CONSTANT SIZE_BYTES

ASSUME NumbersAssumption == SIZE_BYTES \in Nat \ {0}

NoDigit == 16
Digits  == 0 .. 15
HexTexts == Seq(0 .. NoDigit)

\* The number that a sequence of places stands for in a base.
Value(base, places) ==
    LET value[i \in 0 .. Len(places)] ==
            IF i = 0 THEN 0 ELSE base * value[i - 1] + places[i]
    IN  value[Len(places)]

\* A number without its last places: at k, it is divided by the base k times.
Shifts(base, len, n) ==
    LET shifted[k \in 0 .. len] == IF k = 0 THEN n ELSE shifted[k - 1] \div base
    IN  shifted

\* Faulty variant: the places are not cut to their size.
PlacesUnreduced(base, len, n) == [i \in 1 .. len |-> Shifts(base, len, n)[len - i]]

\* A number's places in a base, the most significant first.
Places(base, len, n) == [i \in 1 .. len |-> Shifts(base, len, n)[len - i] % base]

set(n)        == Places(256, SIZE_BYTES, n)
number(bytes) == Value(256, bytes)

\* Faulty variant: the last byte's digits come first.
to_hexReversed(bytes) == Places(16, 2 * SIZE_BYTES, Value(256, Reverse(bytes)))

to_hex(bytes) == Places(16, 2 * SIZE_BYTES, number(bytes))

\* What operator >> reads: the digits up to the first other character.
ReadDigits(text) == SelectInSeq(text, LAMBDA c : c = NoDigit)
Prefix(text) ==
    IF ReadDigits(text) = 0 THEN text ELSE SubSeq(text, 1, ReadDigits(text) - 1)

(***************************************************************************)
(* from_hex: the size is checked first; the number is stored before it is  *)
(* known whether all of the text was read.  ok is FALSE when it throws.    *)
(***************************************************************************)
from_hex(old, text) ==
    IF text = <<>> \/ Len(text) > 2 * SIZE_BYTES
    THEN [bytes |-> old, ok |-> FALSE]
    ELSE [bytes |-> set(Value(16, Prefix(text))), ok |-> Prefix(text) = text]
===============================================================================
