--------------------------------- MODULE Luhn ---------------------------------
(***************************************************************************)
(* The digits of a client identifier as text and their check digit: the    *)
(* vendored luhn.go, with the lengths that id/id.go uses it for.           *)
(***************************************************************************)
EXTENDS Integers

CONSTANTS
  Base,        \* digits of the alphabet, 32
  Length,      \* digits of a chunk, without its check digit, 13
  Chunks,      \* chunks of an identifier, 4
  LookAlikes,  \* the digits that some other characters stand for
  Foreign      \* characters that stand for none

ASSUME BaseAssumption == Base \in Nat \ {0} /\ Base % 2 = 0
ASSUME LookAlikesAssumption == \A c \in DOMAIN LookAlikes : LookAlikes[c] \in 0 .. Base - 1
ASSUME LengthsAssumption == Length \in Nat /\ Chunks \in Nat \ {0}

Digits == 0 .. Base - 1
Characters == Digits \cup DOMAIN LookAlikes \cup Foreign

\* Generate starts with 2 for a text of odd length.
FirstFactor == IF Length % 2 = 1 THEN 2 ELSE 1

\* (Variant: digits are weighed alike whether or not they are doubled.)
AddendCarryless(f, digit) == (f * digit) % Base

Addend(f, digit) == ((f * digit) \div Base) + ((f * digit) % Base)

CheckDigit(total) == (Base - (total % Base)) % Base

\* 0, 1 and 8 are not in the alphabet, and read as O, I and B.
untypeoify(c) == IF c \in DOMAIN LookAlikes THEN LookAlikes[c] ELSE c

==============================================================================
