-------------------------- MODULE IdentifiersProofs --------------------------
(***************************************************************************)
(* Proofs about Identifiers, for any alphabet with an even number of       *)
(* digits and chunks of any length.                                        *)
(***************************************************************************)
EXTENDS Identifiers, TLAPS

\* Division by Base.
LEMMA Division ==
  ASSUME NEW x \in Nat
  PROVE  /\ x \div Base \in Nat /\ x % Base \in 0 .. Base - 1
         /\ x = Base * (x \div Base) + (x % Base)
BY BaseAssumption

LEMMA Half == \E h \in Nat \ {0} : Base = h + h
<1>1. Base = 2 * (Base \div 2) + (Base % 2) /\ Base \div 2 \in Nat
  BY BaseAssumption
<1>2. Base = (Base \div 2) + (Base \div 2) /\ Base \div 2 # 0
  BY <1>1, BaseAssumption
<1> QED BY <1>1, <1>2

\* A multiple of Base that is less than Base is zero.
LEMMA SmallMultiple ==
  ASSUME NEW q \in Nat, NEW p \in Nat, Base * q - Base * p \in 1 - Base .. Base - 1
  PROVE  q = p
<1> USE BaseAssumption
<1>1. ASSUME q >= p + 1 PROVE FALSE
  <2>1. Base * q >= Base * (p + 1)
    BY <1>1
  <2>2. Base * (p + 1) = Base * p + Base
    OBVIOUS
  <2> QED BY <2>1, <2>2
<1>2. ASSUME p >= q + 1 PROVE FALSE
  <2>1. Base * p >= Base * (q + 1)
    BY <1>2
  <2>2. Base * (q + 1) = Base * q + Base
    OBVIOUS
  <2> QED BY <2>1, <2>2
<1> QED BY <1>1, <1>2

\* Doubling a digit and adding the carry: the lower half of the alphabet goes
\* to the even digits, the upper half to the odd ones.
LEMMA Doubled ==
  ASSUME NEW h \in Nat \ {0}, Base = h + h, NEW d \in Digits
  PROVE  Addend(2, d) = IF d < h THEN d + d ELSE d + d + 1 - Base
<1> USE BaseAssumption DEF Digits
<1> DEFINE x == 2 * d
<1>1. x \in Nat /\ x = d + d
  OBVIOUS
<1>2. /\ x \div Base \in Nat /\ x % Base \in 0 .. Base - 1
      /\ x = Base * (x \div Base) + (x % Base)
  BY <1>1, Division
<1>3. CASE d < h
  <2>1. Base * (x \div Base) - Base * 0 \in 1 - Base .. Base - 1
    BY <1>1, <1>2, <1>3
  <2>2. x \div Base = 0
    BY <1>2, <2>1, SmallMultiple
  <2> QED BY <1>1, <1>2, <1>3, <2>2 DEF Addend
<1>4. CASE ~(d < h)
  <2>1. Base * (x \div Base) - Base * 1 \in 1 - Base .. Base - 1
    BY <1>1, <1>2, <1>4
  <2>2. x \div Base = 1
    BY <1>2, <2>1, SmallMultiple
  <2> QED BY <1>1, <1>2, <1>4, <2>2 DEF Addend
<1> QED BY <1>3, <1>4

LEMMA Single == ASSUME NEW d \in Digits PROVE Addend(1, d) = d
<1> USE BaseAssumption DEF Digits
<1>1. 1 * d = d /\ d \in Nat
  OBVIOUS
<1>2. /\ d \div Base \in Nat /\ d % Base \in 0 .. Base - 1
      /\ d = Base * (d \div Base) + (d % Base)
  BY <1>1, Division
<1>3. Base * (d \div Base) - Base * 0 \in 1 - Base .. Base - 1
  BY <1>2
<1>4. d \div Base = 0
  BY <1>2, <1>3, SmallMultiple
<1> QED BY <1>1, <1>2, <1>4 DEF Addend

\* Both weights permute the digits.
LEMMA AddendPermutes ==
  ASSUME NEW f \in {1, 2}, NEW d \in Digits
  PROVE  /\ Addend(f, d) \in Digits
         /\ \A t \in Digits : t # d => Addend(f, t) # Addend(f, d)
<1> USE BaseAssumption DEF Digits
<1>1. CASE f = 1
  BY <1>1, Single
<1>2. CASE f = 2
  <2>1. PICK h \in Nat \ {0} : Base = h + h
    BY Half
  <2>2. \A t \in Digits : Addend(2, t) = IF t < h THEN t + t ELSE t + t + 1 - Base
    BY <2>1, Doubled
  <2> QED BY <1>2, <2>1, <2>2
<1> QED BY <1>1, <1>2

\* Sums that differ by less than Base have different check digits.
LEMMA CheckDigitsDiffer ==
  ASSUME NEW m \in Nat, NEW n \in Nat, m # n, m - n \in 1 - Base .. Base - 1
  PROVE  CheckDigit(m) # CheckDigit(n)
<1> USE BaseAssumption
<1> DEFINE r(x) == x % Base
           q(x) == x \div Base
<1>1. \A x \in Nat : q(x) \in Nat /\ r(x) \in 0 .. Base - 1 /\ x = Base * q(x) + r(x)
  BY Division
<1>2. \A k \in 0 .. Base - 1 : (Base - k) % Base = IF k = 0 THEN 0 ELSE Base - k
  <2>1. SUFFICES ASSUME NEW k \in 0 .. Base - 1
                 PROVE  (Base - k) % Base = IF k = 0 THEN 0 ELSE Base - k
    OBVIOUS
  <2>2. CASE k = 0
    <3>1. Base = Base * q(Base) + r(Base) /\ q(Base) \in Nat /\ r(Base) \in 0 .. Base - 1
      BY <1>1
    <3>2. Base * q(Base) - Base * 1 \in 1 - Base .. Base - 1
      BY <3>1
    <3>3. q(Base) = 1
      BY <3>1, <3>2, SmallMultiple
    <3> QED BY <2>2, <3>1, <3>3
  <2>3. CASE k # 0
    <3> DEFINE x == Base - k
    <3>1. x \in 1 .. Base - 1 /\ x = Base * q(x) + r(x) /\ q(x) \in Nat /\ r(x) \in 0 .. Base - 1
      BY <1>1, <2>3
    <3>2. Base * q(x) - Base * 0 \in 1 - Base .. Base - 1
      BY <3>1
    <3>3. q(x) = 0
      BY <3>1, <3>2, SmallMultiple
    <3> QED BY <2>3, <3>1, <3>3
  <2> QED BY <2>2, <2>3
<1>3. SUFFICES ASSUME CheckDigit(m) = CheckDigit(n) PROVE FALSE
  OBVIOUS
<1>4. r(m) = r(n)
  <2>1. CheckDigit(m) = (Base - r(m)) % Base /\ CheckDigit(n) = (Base - r(n)) % Base
    BY DEF CheckDigit
  <2>2. r(m) \in 0 .. Base - 1 /\ r(n) \in 0 .. Base - 1
    BY <1>1
  <2> HIDE DEF r
  <2>3. (IF r(m) = 0 THEN 0 ELSE Base - r(m)) = (IF r(n) = 0 THEN 0 ELSE Base - r(n))
    BY <1>2, <1>3, <2>1, <2>2
  <2> QED BY <2>2, <2>3
<1>5. Base * q(m) - Base * q(n) \in 1 - Base .. Base - 1
  BY <1>1, <1>4
<1>6. q(m) = q(n)
  BY <1>1, <1>5, SmallMultiple
<1>7. m = Base * q(m) + r(m) /\ n = Base * q(n) + r(n)
  BY <1>1
<1> QED BY <1>4, <1>6, <1>7

-----------------------------------------------------------------------------
\* What is known of the two sums, by the number of mistakes in the chunk.
Sums ==
  /\ wrong = 0 => written = sum
  /\ wrong = 1 => written # sum /\ written - sum \in 1 - Base .. Base - 1

\* While the text is read, a mistake in an earlier chunk has been found.
Mistakes ==
  /\ wrong = 2 => careless
  /\ wrong # 0 => differs
  /\ differs /\ ~careless => wrong = 1

Inv ==
  /\ TypeOK
  /\ status = "reading" => Sums /\ Mistakes /\ chunk < Chunks
  /\ MistakesRefused
  /\ RightIsRead

LEMMA InitInv == ASSUME Init PROVE Inv
<1>1. FirstFactor \in {1, 2}
  BY DEF FirstFactor
<1>2. 0 \in 0 .. Length /\ 0 \in 0 .. Chunks /\ 0 < Chunks
  BY LengthsAssumption
<1>3. TypeOK /\ chunk < Chunks
  <2>1. 0 \in Nat /\ 0 \in 0 .. 2
    OBVIOUS
  <2> QED BY <1>1, <1>2, <2>1, Zenon DEF Init, TypeOK
<1> QED BY <1>3 DEF Init, Inv, Sums, Mistakes, MistakesRefused, RightIsRead

LEMMA ReadDigitInv == ASSUME Inv, ReadDigit PROVE Inv'
<1> USE BaseAssumption, LengthsAssumption
<1>1. PICK d \in Digits, t \in {untypeoify(c) : c \in Characters} :
        /\ Compare(d, t)
        /\ wrong' = IF d = t THEN wrong ELSE IF wrong = 0 THEN 1 ELSE 2
        /\ written' = written + Addend(factor, d)
        /\ \/ /\ t \in Digits
              /\ sum' = sum + Addend(factor, t)
              /\ UNCHANGED status
           \/ /\ t \notin Digits
              /\ status' = "refused"
              /\ UNCHANGED sum
  BY DEF ReadDigit
<1>2. /\ status = "reading" /\ pos < Length
      /\ pos' = pos + 1
      /\ factor' = IF factor = 2 THEN 1 ELSE 2
      /\ UNCHANGED chunk
  BY DEF ReadDigit
<1>3. Sums /\ Mistakes /\ TypeOK /\ chunk < Chunks
  BY <1>2 DEF Inv
<1>4. Addend(factor, d) \in Digits /\ (t \in Digits => Addend(factor, t) \in Digits)
  BY <1>3, AddendPermutes DEF TypeOK
<1>5. TypeOK'
  BY <1>1, <1>2, <1>3, <1>4 DEF TypeOK, Compare, Digits
<1>6. Mistakes'
  <2>1. /\ differs' = (differs \/ d # t)
        /\ careless' = (careless \/ (d # t /\ wrong > 0))
        /\ wrong \in 0 .. 2
    BY <1>1, <1>3 DEF Compare, TypeOK
  <2>2. CASE d = t
    BY <1>1, <1>3, <2>1, <2>2 DEF Mistakes
  <2>3. CASE d # t /\ wrong = 0
    <3>1. wrong' = 1 /\ wrong' # 0 /\ wrong' # 2
      BY <1>1, <2>3
    <3>2. differs'
      BY <2>1, <2>3, Zenon
    <3> QED BY <3>1, <3>2, Zenon DEF Mistakes
  <2>4. CASE d # t /\ wrong # 0
    <3>1. wrong' = 2 /\ wrong > 0
      BY <1>1, <2>1, <2>4
    <3>2. differs' /\ careless'
      BY <2>1, <2>4, <3>1, Zenon
    <3> QED BY <3>1, <3>2, Zenon DEF Mistakes
  <2> QED BY <2>2, <2>3, <2>4
<1>7. CASE t \in Digits
  <2>1. status' = "reading" /\ sum' = sum + Addend(factor, t)
    BY <1>1, <1>2, <1>7
  <2>2. CASE d # t
    <3>1. Addend(factor, d) # Addend(factor, t)
      BY <1>3, <1>7, <2>2, AddendPermutes DEF TypeOK
    <3>2. Sums'
      BY <1>1, <1>3, <1>4, <1>7, <2>1, <2>2, <3>1 DEF Sums, TypeOK, Digits
    <3> QED BY <1>2, <1>3, <1>5, <1>6, <2>1, <3>2 DEF Inv, MistakesRefused, RightIsRead
  <2>3. CASE d = t
    <3>1. Sums'
      BY <1>1, <1>3, <1>4, <2>1, <2>3 DEF Sums, TypeOK, Digits
    <3> QED BY <1>2, <1>3, <1>5, <1>6, <2>1, <3>1 DEF Inv, MistakesRefused, RightIsRead
  <2> QED BY <2>2, <2>3
<1>8. CASE t \notin Digits
  <2>1. status' = "refused" /\ differs'
    BY <1>1, <1>8 DEF Compare
  <2> QED BY <1>5, <2>1 DEF Inv, MistakesRefused, RightIsRead
<1> QED BY <1>7, <1>8

LEMMA ReadCheckDigitInv == ASSUME Inv, ReadCheckDigit PROVE Inv'
<1> USE BaseAssumption, LengthsAssumption
<1>1. PICK t \in {untypeoify(c) : c \in Characters} :
        /\ Compare(CheckDigit(written), t)
        /\ status' = IF t # CheckDigit(sum) THEN "refused"
                     ELSE IF chunk + 1 < Chunks THEN "reading" ELSE "accepted"
  BY DEF ReadCheckDigit
<1>2. /\ status = "reading" /\ pos = Length
      /\ chunk' = chunk + 1
      /\ pos' = 0 /\ factor' = FirstFactor
      /\ written' = 0 /\ sum' = 0 /\ wrong' = 0
  BY DEF ReadCheckDigit
<1>3. Sums /\ Mistakes /\ TypeOK /\ chunk < Chunks
  BY <1>2 DEF Inv
<1>4. TypeOK'
  BY <1>1, <1>2, <1>3 DEF TypeOK, Compare, FirstFactor
<1>5. ASSUME t = CheckDigit(sum), ~careless' PROVE ~differs'
  <2>1. CASE wrong = 0
    BY <1>1, <1>3, <1>5, <2>1 DEF Sums, Mistakes, Compare, TypeOK
  <2>2. CASE wrong = 1
    <3>1. CheckDigit(written) # CheckDigit(sum)
      BY <1>3, <2>2, CheckDigitsDiffer DEF Sums, TypeOK
    <3> QED BY <1>1, <1>5, <2>2, <3>1 DEF Compare
  <2>3. wrong # 2
    BY <1>1, <1>3, <1>5 DEF Mistakes, Compare
  <2> QED BY <1>3, <2>1, <2>2, <2>3 DEF TypeOK
<1>6. ASSUME t # CheckDigit(sum) PROVE differs'
  BY <1>1, <1>3, <1>6 DEF Sums, Mistakes, Compare, TypeOK
<1>7. Sums' /\ (t = CheckDigit(sum) => Mistakes')
  BY <1>2, <1>5, BaseAssumption DEF Sums, Mistakes
<1>8. status' = "reading" => chunk' < Chunks
  BY <1>1, <1>2
<1> QED BY <1>1, <1>4, <1>5, <1>6, <1>7, <1>8 DEF Inv, MistakesRefused, RightIsRead

LEMMA Inductive == Spec => []Inv
<1>1. ASSUME Inv, [Next]_vars PROVE Inv'
  <2>1. CASE UNCHANGED vars
    BY <1>1, <2>1 DEF vars, Inv, TypeOK, Sums, Mistakes, MistakesRefused, RightIsRead, CheckDigit
  <2> QED BY <1>1, <2>1, ReadDigitInv, ReadCheckDigitInv DEF Next
<1> QED BY InitInv, <1>1, PTL DEF Spec

\* With an even alphabet, as base32 has, an identifier with at most one digit
\* of a chunk wrong is never taken for another.
THEOREM MistakesRefusedAlways == Spec => []MistakesRefused
<1>1. Inv => MistakesRefused
  BY DEF Inv
<1> QED BY Inductive, <1>1, PTL

\* What String wrote, UnmarshalText reads.
THEOREM RightIsReadAlways == Spec => []RightIsRead
<1>1. Inv => RightIsRead
  BY DEF Inv
<1> QED BY Inductive, <1>1, PTL

=============================================================================
