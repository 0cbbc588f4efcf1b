----------------------------- MODULE Identifiers -----------------------------
(***************************************************************************)
(* Client identifiers as text (id/id.go): String writes an identifier as   *)
(* chunks of digits, each with a Luhn check digit (the vendored luhn.go),  *)
(* and UnmarshalText reads what somebody copied by hand, for the -clients  *)
(* flag of tunneld.                                                        *)
(*                                                                         *)
(* A step is an iteration of the loop of luhn.Generate, of luhnify over    *)
(* the digits of the identifier and of unluhnify over those of the text.   *)
(* Separators and the case of a letter are dropped before, and a text of   *)
(* another length is refused at once.                                      *)
(***************************************************************************)
EXTENDS Luhn

VARIABLES
  status,   \* "reading", "accepted" or "refused"
  chunk,    \* chunks read
  pos,      \* digits read of the next one
  factor,   \* Luhn's factor of the next digit
  written,  \* sum in luhnify
  sum,      \* sum in unluhnify
  wrong,    \* digits of the chunk that were copied wrong, 2 for more
  differs,  \* a digit of the text is not that of the identifier
  careless  \* two digits of one chunk are

vars == <<status, chunk, pos, factor, written, sum, wrong, differs, careless>>

Init ==
  /\ status = "reading"
  /\ chunk = 0 /\ pos = 0
  /\ factor = FirstFactor
  /\ written = 0 /\ sum = 0
  /\ wrong = 0
  /\ differs = FALSE /\ careless = FALSE

\* The text has t where the identifier has d.
Compare(d, t) ==
  /\ differs' = (differs \/ d # t)
  /\ careless' = (careless \/ (d # t /\ wrong > 0))

ReadDigit ==
  /\ status = "reading" /\ pos < Length
  /\ \E d \in Digits, t \in {untypeoify(c) : c \in Characters} :
       /\ Compare(d, t)
       /\ wrong' = IF d = t THEN wrong ELSE IF wrong = 0 THEN 1 ELSE 2
       /\ written' = written + Addend(factor, d)
       /\ \/ /\ t \in Digits
             /\ sum' = sum + Addend(factor, t)
             /\ UNCHANGED status
          \/ /\ t \notin Digits
             /\ status' = "refused"
             /\ UNCHANGED sum
  /\ pos' = pos + 1
  /\ factor' = IF factor = 2 THEN 1 ELSE 2
  /\ UNCHANGED chunk

ReadCheckDigit ==
  /\ status = "reading" /\ pos = Length
  /\ \E t \in {untypeoify(c) : c \in Characters} :
       /\ Compare(CheckDigit(written), t)
       /\ status' = IF t # CheckDigit(sum) THEN "refused"
                    ELSE IF chunk + 1 < Chunks THEN "reading" ELSE "accepted"
  /\ chunk' = chunk + 1
  /\ pos' = 0 /\ factor' = FirstFactor
  /\ written' = 0 /\ sum' = 0 /\ wrong' = 0

Next == ReadDigit \/ ReadCheckDigit

Spec == Init /\ [][Next]_vars

-----------------------------------------------------------------------------
TypeOK ==
  /\ status \in {"reading", "accepted", "refused"}
  /\ chunk \in 0 .. Chunks /\ pos \in 0 .. Length
  /\ factor \in {1, 2}
  /\ written \in Nat /\ sum \in Nat
  /\ wrong \in 0 .. 2
  /\ differs \in BOOLEAN /\ careless \in BOOLEAN

\* A text in which no chunk has more than one digit wrong is accepted only if
\* all of it is right: doubling and adding the carry permutes the digits, so
\* one wrong digit always changes the check digit.
MistakesRefused == status = "accepted" /\ ~careless => ~differs

\* An identifier that was copied right is not refused: luhnify and unluhnify
\* weigh the digits alike.
RightIsRead == status = "refused" => differs

=============================================================================
