------------------------- MODULE PacketHeaderProofs -------------------------
(***************************************************************************)
(* Proofs about the text of a packet's header: decode_header finds again   *)
(* what encode_header has written, if no field has more than three digits. *)
(***************************************************************************)
EXTENDS PacketHeader, Integers, SequenceTheorems, TLAPS

-----------------------------------------------------------------------------
(* Digits                                                                  *)

\* The numbers of at most three digits.
Short == 0 .. 999

LEMMA PowersAre ==
  /\ PowersOfTen[1] = 1 /\ PowersOfTen[2] = 10 /\ PowersOfTen[3] = 100
  /\ \A k \in 4 .. 10 : PowersOfTen[k] \in Int /\ PowersOfTen[k] >= 1000
BY SMT DEF PowersOfTen

\* As many digits as the number has are printed.
HasDigits(v, k) ==
  /\ k = 1 \/ v >= PowersOfTen[k]
  /\ k = 10 \/ v < PowersOfTen[k + 1]

LEMMA DigitCount ==
  ASSUME NEW v \in Short, NEW n \in 1 .. 3, HasDigits(v, n),
         NEW k \in 1 .. 10, HasDigits(v, k)
  PROVE  k = n
BY PowersAre, SMTT(30) DEF HasDigits, Short

LEMMA DigitsAre ==
  ASSUME NEW v \in Short, NEW n \in 1 .. 3, HasDigits(v, n)
  PROVE  Digits(v) = [i \in 1 .. n |-> (v \div PowersOfTen[n + 1 - i]) % 10]
<1>1. n = CHOOSE k \in 1 .. 10 : HasDigits(v, k)
  <2>1. n \in 1 .. 10
    OBVIOUS
  <2> QED
    BY <2>1, DigitCount
<1> QED
  BY <1>1 DEF Digits, HasDigits

LEMMA DigitsOfShort ==
  ASSUME NEW v \in Short
  PROVE  /\ v < 10 => Digits(v) = <<v>>
         /\ 10 <= v /\ v < 100 => Digits(v) = <<v \div 10, v % 10>>
         /\ 100 <= v => Digits(v) = <<v \div 100, (v \div 10) % 10, v % 10>>
<1>1. CASE v < 10
  <2>1. HasDigits(v, 1)
    BY <1>1, PowersAre DEF HasDigits
  <2> 1 \in 1 .. 3
    OBVIOUS
  <2>2. Digits(v) = [i \in 1 .. 1 |-> (v \div PowersOfTen[1 + 1 - i]) % 10]
    BY <2>1, DigitsAre, Zenon
  <2>3. \A i \in 1 .. 1 : (v \div PowersOfTen[1 + 1 - i]) % 10 = v
    BY <1>1, PowersAre DEF Short
  <2> QED
    BY <1>1, <2>2, <2>3 DEF Short
<1>2. CASE 10 <= v /\ v < 100
  <2>1. HasDigits(v, 2)
    BY <1>2, PowersAre DEF HasDigits
  <2> 2 \in 1 .. 3
    OBVIOUS
  <2>2. Digits(v) = [i \in 1 .. 2 |-> (v \div PowersOfTen[2 + 1 - i]) % 10]
    BY <2>1, DigitsAre, Zenon
  <2>3. (v \div 10) % 10 = v \div 10 /\ v \div 1 = v
    BY <1>2 DEF Short
  <2>4. \A i \in 1 .. 2 : (v \div PowersOfTen[2 + 1 - i]) % 10 = <<v \div 10, v % 10>>[i]
    BY <2>3, PowersAre
  <2> QED
    BY <1>2, <2>2, <2>4 DEF Short
<1>3. CASE 100 <= v
  <2>1. HasDigits(v, 3)
    BY <1>3, PowersAre DEF HasDigits, Short
  <2> 3 \in 1 .. 3
    OBVIOUS
  <2>2. Digits(v) = [i \in 1 .. 3 |-> (v \div PowersOfTen[3 + 1 - i]) % 10]
    BY <2>1, DigitsAre, Zenon
  <2>3. (v \div 100) % 10 = v \div 100 /\ v \div 1 = v
    BY <1>3 DEF Short
  <2>4. \A i \in 1 .. 3 :
          (v \div PowersOfTen[3 + 1 - i]) % 10 = <<v \div 100, (v \div 10) % 10, v % 10>>[i]
    BY <2>3, PowersAre
  <2> QED
    BY <1>3, <2>2, <2>4 DEF Short
<1> QED
  BY <1>1, <1>2, <1>3

-----------------------------------------------------------------------------
(* A field                                                                 *)

\* The four characters of a number v below 1000, filled up with blanks.
IsField(f, v) ==
  /\ f \in Seq(Int) /\ Len(f) = 4
  /\ f[1] = Blank
  /\ v < 10 => f[2] = Blank /\ f[3] = Blank /\ f[4] = v
  /\ 10 <= v /\ v < 100 => f[2] = Blank /\ f[3] = v \div 10 /\ f[4] = v % 10
  /\ 100 <= v => f[2] = v \div 100 /\ f[3] = (v \div 10) % 10 /\ f[4] = v % 10

LEMMA DigitsOfField ==
  ASSUME NEW v \in Short
  PROVE  \E d \in Seq(Int) :
           /\ Digits(v) = d
           /\ Len(d) \in 1 .. 3
           /\ v < 10 => Len(d) = 1 /\ d[1] = v
           /\ 10 <= v /\ v < 100 => Len(d) = 2 /\ d[1] = v \div 10 /\ d[2] = v % 10
           /\ 100 <= v =>
                Len(d) = 3 /\ d[1] = v \div 100 /\ d[2] = (v \div 10) % 10 /\ d[3] = v % 10
<1> DEFINE a == v \div 10
           b == v % 10
           c == v \div 100
           e == (v \div 10) % 10
<1>1. a \in Int /\ b \in Int /\ c \in Int /\ e \in Int
  BY DEF Short
<1>2. /\ v < 10 => Digits(v) = <<v>>
      /\ 10 <= v /\ v < 100 => Digits(v) = <<a, b>>
      /\ 100 <= v => Digits(v) = <<c, e, b>>
  BY DigitsOfShort, Zenon
<1> HIDE DEF a, b, c, e
<1>3. CASE v < 10
  <2>1. <<v>> \in Seq(Int)
    BY DEF Short
  <2>2. Digits(v) = <<v>> /\ ~(10 <= v) /\ ~(100 <= v)
    BY <1>2, <1>3 DEF Short
  <2>3. Len(<<v>>) = 1 /\ <<v>>[1] = v
    OBVIOUS
  <2>4. 1 \in 1 .. 3
    OBVIOUS
  <2> QED
    BY <2>1, <2>2, <2>3, <2>4, Zenon
<1>4. CASE 10 <= v /\ v < 100
  <2>1. <<a, b>> \in Seq(Int)
    BY <1>1
  <2>2. Digits(v) = <<a, b>> /\ ~(v < 10) /\ ~(100 <= v)
    BY <1>2, <1>4
  <2>3. Len(<<a, b>>) = 2 /\ <<a, b>>[1] = a /\ <<a, b>>[2] = b
    OBVIOUS
  <2>4. 2 \in 1 .. 3
    OBVIOUS
  <2> QED
    BY <2>1, <2>2, <2>3, <2>4, Zenon DEF a, b
<1>5. CASE 100 <= v
  <2>1. <<c, e, b>> \in Seq(Int)
    BY <1>1
  <2>2. Digits(v) = <<c, e, b>> /\ ~(v < 100) /\ ~(v < 10)
    BY <1>2, <1>5 DEF Short
  <2>3. /\ Len(<<c, e, b>>) = 3
        /\ <<c, e, b>>[1] = c /\ <<c, e, b>>[2] = e /\ <<c, e, b>>[3] = b
    OBVIOUS
  <2>4. 3 \in 1 .. 3
    OBVIOUS
  <2> QED
    BY <2>1, <2>2, <2>3, <2>4, Zenon DEF b, c, e
<1> QED
  BY <1>3, <1>4, <1>5 DEF Short

LEMMA PaddedIsField ==
  ASSUME NEW v \in Short
  PROVE  IsField(SubSeq(Padded(v), 1, 4), v)
<1>1. PICK d \in Seq(Int) :
        /\ Digits(v) = d
        /\ Len(d) \in 1 .. 3
        /\ v < 10 => Len(d) = 1 /\ d[1] = v
        /\ 10 <= v /\ v < 100 => Len(d) = 2 /\ d[1] = v \div 10 /\ d[2] = v % 10
        /\ 100 <= v =>
             Len(d) = 3 /\ d[1] = v \div 100 /\ d[2] = (v \div 10) % 10 /\ d[3] = v % 10
  BY DigitsOfField
<1>2. PICK n \in 1 .. 3 : Len(d) = n
  BY <1>1, Zenon
<1> DEFINE k == 4 - n
           blanks == [i \in 1 .. k |-> Blank]
<1>3. Padded(v) = blanks \o d
  <2>1. (IF n < 4 THEN 4 - n ELSE 0) = k
    OBVIOUS
  <2> QED
    BY <1>1, <1>2, <2>1, Zenon DEF Padded, Width
<1>4. k \in 1 .. 3 /\ n = 4 - k
  OBVIOUS
<1> HIDE DEF k
<1>5. /\ blanks \in Seq(Int) /\ Len(blanks) = k
      /\ \A i \in 1 .. k : blanks[i] = Blank
  BY <1>4 DEF Blank
<1> HIDE DEF blanks
<1>6. /\ blanks \o d \in Seq(Int) /\ Len(blanks \o d) = 4
      /\ \A i \in 1 .. 4 : (blanks \o d)[i] = IF i <= k THEN Blank ELSE d[i - k]
  BY <1>2, <1>4, <1>5
<1>7. /\ Padded(v) \in Seq(Int) /\ Len(Padded(v)) = 4
      /\ \A i \in 1 .. 4 : Padded(v)[i] = IF i <= k THEN Blank ELSE d[i - k]
  BY <1>3, <1>6, Zenon
<1>8. SubSeq(Padded(v), 1, 4) = Padded(v)
  BY <1>7
<1>9. IsField(Padded(v), v)
  <2>1. CASE v < 10
    BY <1>1, <1>2, <1>4, <1>7, <2>1 DEF IsField
  <2>2. CASE 10 <= v /\ v < 100
    BY <1>1, <1>2, <1>4, <1>7, <2>2 DEF IsField
  <2>3. CASE 100 <= v
    BY <1>1, <1>2, <1>4, <1>7, <2>3 DEF IsField
  <2> QED
    BY <2>1, <2>2, <2>3 DEF Short
<1> QED
  BY <1>8, <1>9

-----------------------------------------------------------------------------
(* atoi                                                                    *)

LEMMA LastDigit ==
  ASSUME NEW v \in Short
  PROVE  v % 10 \in 0 .. 9 /\ 10 * (v \div 10) + (v % 10) = v
<1>1. v % 10 \in 0 .. 9
  BY DEF Short
<1>2. 10 * (v \div 10) + (v % 10) = v
  BY DEF Short
<1> QED
  BY <1>1, <1>2

LEMMA Decimals ==
  ASSUME NEW v \in Short
  PROVE  /\ v < 10 => v \in 0 .. 9
         /\ v % 10 \in 0 .. 9 /\ (v \div 10) % 10 \in 0 .. 9 /\ v \div 100 \in 0 .. 9
         /\ v < 100 => v \div 10 \in 0 .. 9
         /\ 10 * (v \div 10) + (v % 10) = v
         /\ 100 * (v \div 100) + 10 * ((v \div 10) % 10) + (v % 10) = v
<1>1. v \div 100 \in 0 .. 9
  BY DEF Short
<1>2. v < 100 => v \div 10 \in 0 .. 9
  BY DEF Short
<1>3. v \div 10 \in Short
  BY DEF Short
<1>4. (v \div 10) \div 10 = v \div 100
  BY DEF Short
<1>5. (v \div 10) % 10 \in 0 .. 9 /\ 10 * (v \div 100) + ((v \div 10) % 10) = v \div 10
  BY <1>3, <1>4, LastDigit, Zenon
<1>6. v % 10 \in 0 .. 9 /\ 10 * (v \div 10) + (v % 10) = v
  BY LastDigit, Zenon
<1>7. 100 * (v \div 100) + 10 * ((v \div 10) % 10) + (v % 10) = v
  <2> DEFINE p == v \div 100
             q == (v \div 10) % 10
             r == v \div 10
             u == v % 10
  <2>1. p \in Int /\ q \in Int /\ r \in Int /\ u \in Int
    BY DEF Short
  <2>2. 10 * p + q = r /\ 10 * r + u = v
    BY <1>5, <1>6
  <2> HIDE DEF p, q, r, u
  <2>3. 100 * p + 10 * q + u = v
    BY <2>1, <2>2 DEF Short
  <2> QED
    BY <2>3 DEF p, q, u
<1>8. v < 10 => v \in 0 .. 9
  BY DEF Short
<1> QED
  BY <1>1, <1>2, <1>5, <1>6, <1>7, <1>8, Zenon

LEMMA NotCut ==
  ASSUME NEW p \in 0 .. 99
  PROVE  ~(p >= PowersOfTen[9])
<1>1. PowersOfTen[9] \in Int /\ PowersOfTen[9] >= 1000
  BY PowersAre, SMT
<1> QED
  BY <1>1, SMT

LEMMA Horner ==
  ASSUME NEW p \in 0 .. 9, NEW q \in 0 .. 9, NEW r \in 0 .. 9
  PROVE  /\ 10 * (10 * p + q) + r = 100 * p + 10 * q + r
         /\ 10 * p + q \in 0 .. 99
OBVIOUS

LEMMA NumberOfShort ==
  ASSUME NEW s \in Seq(0 .. 9), Len(s) \in 1 .. 3
  PROVE  /\ Len(s) = 1 => NumberOf(s) = s[1]
         /\ Len(s) = 2 => NumberOf(s) = 10 * s[1] + s[2]
         /\ Len(s) = 3 => NumberOf(s) = 100 * s[1] + 10 * s[2] + s[3]
<1> DEFINE Step(f, i) == IF i = 0 THEN 0
                         ELSE IF f[i - 1] >= PowersOfTen[9] THEN f[i - 1]
                         ELSE 10 * f[i - 1] + s[i]
           D == 0 .. Len(s)
           IsValue(f) == f = [i \in D |-> Step(f, i)]
           value == CHOOSE f : IsValue(f)
           witness == [i \in D |-> IF i = 0 THEN 0 ELSE IF i = 1 THEN s[1]
                                   ELSE IF i = 2 THEN 10 * s[1] + s[2]
                                   ELSE 100 * s[1] + 10 * s[2] + s[3]]
<1>1. NumberOf(s) = value[Len(s)]
  BY Zenon DEF NumberOf
<1>2. s[1] \in 0 .. 9 /\ (Len(s) >= 2 => s[2] \in 0 .. 9) /\ (Len(s) = 3 => s[3] \in 0 .. 9)
  OBVIOUS
<1>3. PowersOfTen[9] \in Int /\ PowersOfTen[9] >= 1000
  BY PowersAre, SMT
<1>4. IsValue(witness)
  <2> SUFFICES ASSUME NEW i \in D
               PROVE  witness[i] = Step(witness, i)
    BY ZenonT(40)
  <2>1. CASE i = 0
    BY <2>1
  <2>2. CASE i = 1
    <3>1. witness[0] = 0 /\ witness[1] = s[1]
      BY <2>2
    <3> QED
      BY <1>2, <1>3, <2>2, <3>1
  <2>3. CASE i = 2
    <3>1. witness[1] = s[1] /\ witness[2] = 10 * s[1] + s[2]
      BY <2>3
    <3> QED
      BY <1>2, <1>3, <2>3, <3>1
  <2>4. CASE i = 3
    <3>1. witness[2] = 10 * s[1] + s[2] /\ witness[3] = 100 * s[1] + 10 * s[2] + s[3]
      BY <2>4
    <3>2. s[1] \in 0 .. 9 /\ s[2] \in 0 .. 9 /\ s[3] \in 0 .. 9
      BY <2>4
    <3>3. /\ 10 * (10 * s[1] + s[2]) + s[3] = 100 * s[1] + 10 * s[2] + s[3]
          /\ 10 * s[1] + s[2] \in 0 .. 99
      BY <3>2, Horner, ZenonT(40)
    <3>4. witness[3] = 10 * witness[2] + s[3] /\ witness[2] \in 0 .. 99
      BY <3>1, <3>3, Zenon
    <3>5. ~(witness[2] >= PowersOfTen[9])
      BY <3>4, NotCut, Zenon
    <3>6. i - 1 = 2 /\ i # 0
      BY <2>4
    <3> QED
      BY <2>4, <3>4, <3>5, <3>6, Zenon
  <2> QED
    BY <2>1, <2>2, <2>3, <2>4, SMTT(30)
<1>5. IsValue(value)
  BY <1>4, Zenon
<1> HIDE DEF value, witness
<1>6. \A i \in D : value[i] = Step(value, i)
  BY <1>5, Zenon
<1>7. value[0] = 0
  BY <1>6
<1>8. value[1] = s[1]
  BY <1>2, <1>3, <1>6, <1>7
<1>9. Len(s) >= 2 => value[2] = 10 * s[1] + s[2]
  BY <1>2, <1>3, <1>6, <1>8
<1>10. Len(s) = 3 => value[3] = 100 * s[1] + 10 * s[2] + s[3]
  <2> SUFFICES ASSUME Len(s) = 3
               PROVE  value[3] = 100 * s[1] + 10 * s[2] + s[3]
    OBVIOUS
  <2>1. value[3] = IF value[2] >= PowersOfTen[9] THEN value[2] ELSE 10 * value[2] + s[3]
    BY <1>6
  <2>2. s[1] \in 0 .. 9 /\ s[2] \in 0 .. 9 /\ s[3] \in 0 .. 9
    BY <1>2
  <2>3. /\ 10 * (10 * s[1] + s[2]) + s[3] = 100 * s[1] + 10 * s[2] + s[3]
        /\ 10 * s[1] + s[2] \in 0 .. 99
    BY <2>2, Horner, ZenonT(40)
  <2>4. value[2] = 10 * s[1] + s[2]
    BY <1>9
  <2>5. value[2] \in 0 .. 99
    BY <2>3, <2>4, Zenon
  <2>6. value[3] = 10 * value[2] + s[3]
    <3>1. ~(value[2] >= PowersOfTen[9])
      BY <2>5, NotCut, Zenon
    <3> QED
      BY <2>1, <3>1, Zenon
  <2> QED
    BY <2>3, <2>4, <2>6, Zenon
<1> QED
  <2>1. CASE Len(s) = 1
    BY <1>1, <1>8, <2>1
  <2>2. CASE Len(s) = 2
    BY <1>1, <1>9, <2>2
  <2>3. CASE Len(s) = 3
    BY <1>1, <1>10, <2>3
  <2> QED
    BY <2>1, <2>2, <2>3

\* What is read are the digits behind the blanks.
LEMMA AtoiReads ==
  ASSUME NEW s \in Seq(Int), NEW a \in 1 .. Len(s), NEW b \in a .. Len(s) - 1,
         \A i \in 1 .. a - 1 : s[i] = Blank,
         \A i \in a .. b : s[i] # Blank,
         s[b + 1] = Blank
  PROVE  atoi(s) = NumberOf(SubSeq(s, a, b))
<1> DEFINE IsFirst(i) == s[i] # Blank /\ \A j \in 1 .. i - 1 : s[j] = Blank
           IsLast(i) == /\ \A j \in a .. i : s[j] # Blank
                        /\ i = Len(s) \/ s[i + 1] = Blank
<1>1. (CHOOSE i \in 1 .. Len(s) : IsFirst(i)) = a
  <2>1. IsFirst(a)
    OBVIOUS
  <2>2. ASSUME NEW i \in 1 .. Len(s), IsFirst(i)
        PROVE  i = a
    <3>1. ~(i < a)
      BY <2>2
    <3>2. ~(a < i)
      BY <2>2
    <3> QED
      BY <3>1, <3>2
  <2> HIDE DEF IsFirst
  <2> QED
    BY <2>1, <2>2
<1>2. (CHOOSE i \in a .. Len(s) : IsLast(i)) = b
  <2>1. IsLast(b)
    OBVIOUS
  <2>2. ASSUME NEW i \in a .. Len(s), IsLast(i)
        PROVE  i = b
    <3>1. ~(i < b)
      <4> SUFFICES ASSUME i < b PROVE FALSE
        OBVIOUS
      <4>1. i + 1 \in a .. b /\ i # Len(s)
        OBVIOUS
      <4> QED
        BY <2>2, <4>1
    <3>2. ~(b < i)
      <4> SUFFICES ASSUME b < i PROVE FALSE
        OBVIOUS
      <4>1. b + 1 \in a .. i
        OBVIOUS
      <4> QED
        BY <2>2, <4>1
    <3> QED
      BY <3>1, <3>2
  <2>3. b \in a .. Len(s)
    OBVIOUS
  <2> HIDE DEF IsLast
  <2> QED
    BY <2>1, <2>2, <2>3
<1> QED
  BY <1>1, <1>2, Zenon DEF atoi

LEMMA AtoiReadsDigits ==
  ASSUME NEW s \in Seq(Int), Len(s) >= 5, s[5] = Blank, NEW a \in 2 .. 4,
         \A i \in 1 .. a - 1 : s[i] = Blank,
         \A i \in a .. 4 : s[i] \in 0 .. 9
  PROVE  /\ a = 4 => atoi(s) = s[4]
         /\ a = 3 => atoi(s) = 10 * s[3] + s[4]
         /\ a = 2 => atoi(s) = 100 * s[2] + 10 * s[3] + s[4]
<1> DEFINE d == SubSeq(s, a, 4)
<1>1. atoi(s) = NumberOf(d)
  <2>1. a \in 1 .. Len(s) /\ 4 \in a .. Len(s) - 1 /\ s[4 + 1] = Blank
    OBVIOUS
  <2>2. \A i \in a .. 4 : s[i] # Blank
    BY DEF Blank
  <2> QED
    BY <2>1, <2>2, AtoiReads
<1>2. /\ d \in Seq(0 .. 9) /\ Len(d) = 5 - a
      /\ \A i \in 1 .. 5 - a : d[i] = s[a - 1 + i]
  OBVIOUS
<1> HIDE DEF d
<1>3. CASE a = 4
  <2>1. Len(d) = 1 /\ d[1] = s[4]
    BY <1>2, <1>3
  <2> QED
    BY <1>1, <1>2, <1>3, <2>1, NumberOfShort
<1>4. CASE a = 3
  <2>1. Len(d) = 2 /\ d[1] = s[3] /\ d[2] = s[4]
    BY <1>2, <1>4
  <2> QED
    BY <1>1, <1>2, <1>4, <2>1, NumberOfShort
<1>5. CASE a = 2
  <2>1. Len(d) = 3 /\ d[1] = s[2] /\ d[2] = s[3] /\ d[3] = s[4]
    BY <1>2, <1>5
  <2> QED
    BY <1>1, <1>2, <1>5, <2>1, NumberOfShort
<1> QED
  BY <1>3, <1>4, <1>5

\* The text of a field and a blank are read back as its number.
LEMMA AtoiOfField ==
  ASSUME NEW v \in Short, NEW f \in Seq(Int), IsField(f, v),
         NEW s \in Seq(Int), Len(s) >= 5,
         \A i \in 1 .. 4 : s[i] = f[i], s[5] = Blank
  PROVE  atoi(s) = v
<1>1. s[1] = f[1] /\ s[2] = f[2] /\ s[3] = f[3] /\ s[4] = f[4]
  OBVIOUS
<1>2. CASE v < 10
  <2>1. s[1] = Blank /\ s[2] = Blank /\ s[3] = Blank /\ s[4] = v
    BY <1>1, <1>2 DEF IsField
  <2>2. v \in 0 .. 9
    BY <1>2, Decimals, Zenon
  <2>3. \A i \in 1 .. 4 - 1 : s[i] = Blank
    <3> SUFFICES ASSUME NEW i \in 1 .. 4 - 1 PROVE s[i] = Blank
      OBVIOUS
    <3>1. i = 1 \/ i = 2 \/ i = 3
      OBVIOUS
    <3> QED
      BY <2>1, <3>1, Zenon
  <2>4. \A i \in 4 .. 4 : s[i] \in 0 .. 9
    <3> SUFFICES ASSUME NEW i \in 4 .. 4 PROVE s[i] \in 0 .. 9
      OBVIOUS
    <3>1. i = 4
      OBVIOUS
    <3> QED
      BY <2>1, <2>2, <3>1, Zenon
  <2>5. 4 \in 2 .. 4
    OBVIOUS
  <2> QED
    BY <2>1, <2>3, <2>4, <2>5, AtoiReadsDigits, Zenon
<1>3. CASE 10 <= v /\ v < 100
  <2>1. s[1] = Blank /\ s[2] = Blank /\ s[3] = v \div 10 /\ s[4] = v % 10
    BY <1>1, <1>3 DEF IsField
  <2>2. v \div 10 \in 0 .. 9 /\ v % 10 \in 0 .. 9 /\ 10 * (v \div 10) + (v % 10) = v
    BY <1>3, Decimals, Zenon
  <2>3. \A i \in 1 .. 3 - 1 : s[i] = Blank
    <3> SUFFICES ASSUME NEW i \in 1 .. 3 - 1 PROVE s[i] = Blank
      OBVIOUS
    <3>1. i = 1 \/ i = 2
      OBVIOUS
    <3> QED
      BY <2>1, <3>1, Zenon
  <2>4. \A i \in 3 .. 4 : s[i] \in 0 .. 9
    <3> SUFFICES ASSUME NEW i \in 3 .. 4 PROVE s[i] \in 0 .. 9
      OBVIOUS
    <3>1. i = 3 \/ i = 4
      OBVIOUS
    <3> QED
      BY <2>1, <2>2, <3>1, Zenon
  <2>5. 3 \in 2 .. 4
    OBVIOUS
  <2>6. atoi(s) = 10 * s[3] + s[4]
    BY <2>3, <2>4, <2>5, AtoiReadsDigits, Zenon
  <2> QED
    BY <2>1, <2>2, <2>6, Zenon
<1>4. CASE 100 <= v
  <2>1. s[1] = Blank /\ s[2] = v \div 100 /\ s[3] = (v \div 10) % 10 /\ s[4] = v % 10
    BY <1>1, <1>4 DEF IsField
  <2>2. /\ v \div 100 \in 0 .. 9 /\ (v \div 10) % 10 \in 0 .. 9 /\ v % 10 \in 0 .. 9
        /\ 100 * (v \div 100) + 10 * ((v \div 10) % 10) + (v % 10) = v
    BY <1>4, Decimals, Zenon
  <2>3. \A i \in 1 .. 2 - 1 : s[i] = Blank
    <3> SUFFICES ASSUME NEW i \in 1 .. 2 - 1 PROVE s[i] = Blank
      OBVIOUS
    <3>1. i = 1
      OBVIOUS
    <3> QED
      BY <2>1, <3>1, Zenon
  <2>4. \A i \in 2 .. 4 : s[i] \in 0 .. 9
    <3> SUFFICES ASSUME NEW i \in 2 .. 4 PROVE s[i] \in 0 .. 9
      OBVIOUS
    <3>1. i = 2 \/ i = 3 \/ i = 4
      OBVIOUS
    <3> QED
      BY <2>1, <2>2, <3>1, ZenonT(40)
  <2>5. 2 \in 2 .. 4
    OBVIOUS
  <2>6. atoi(s) = 100 * s[2] + 10 * s[3] + s[4]
    BY <2>3, <2>4, <2>5, AtoiReadsDigits, Zenon
  <2> QED
    BY <2>1, <2>2, <2>6, Zenon
<1> QED
  BY <1>2, <1>3, <1>4 DEF Short

-----------------------------------------------------------------------------
(* The arrays in memory                                                    *)

\* A row begins with the field asked for, and has only fields.
LEMMA RowIsFields ==
  ASSUME NEW i \in 1 .. 4, NEW layout \in Layout
  PROVE  /\ Row(i, layout) \in Seq(Fields)
         /\ Len(Row(i, layout)) \in 1 .. 4
         /\ Row(i, layout)[1] = Order[i]
<1>1. Len(Order) = 4 /\ \A j \in 1 .. 4 : Order[j] \in Fields
  BY DEF Order, Fields
<1>2. CASE layout = "apart"
  BY <1>1, <1>2 DEF Row
<1>3. CASE layout = "ascending"
  <2> DEFINE row == [j \in 1 .. 5 - i |-> Order[i + j - 1]]
  <2>1. Row(i, layout) = row
    BY <1>1, <1>3 DEF Row
  <2>2. row \in Seq(Fields) /\ Len(row) = 5 - i /\ row[1] = Order[i]
    BY <1>1
  <2> QED
    BY <2>1, <2>2
<1>4. CASE layout = "descending"
  <2> DEFINE row == [j \in 1 .. i |-> Order[i + 1 - j]]
  <2>1. Row(i, layout) = row
    BY <1>4 DEF Row
  <2>2. row \in Seq(Fields) /\ Len(row) = i /\ row[1] = Order[i]
    BY <1>1
  <2> QED
    BY <2>1, <2>2
<1> QED
  BY <1>2, <1>3, <1>4 DEF Layout

\* Behind the field in memory stands a blank, of the next field or of no field.
LEMMA InMemoryIsField ==
  ASSUME NEW text, NEW h \in [Fields -> Short], \A f \in Fields : IsField(text[f], h[f]),
         NEW row \in Seq(Fields), Len(row) \in 1 .. 4
  PROVE  /\ InMemory(text, row) \in Seq(Int) /\ Len(InMemory(text, row)) >= 5
         /\ \A k \in 1 .. 4 : InMemory(text, row)[k] = text[row[1]][k]
         /\ InMemory(text, row)[5] = Blank
<1>0. PICK m \in 1 .. 4 : Len(row) = m
  BY Zenon
<1> DEFINE n == 4 * m
           char(k) == text[row[((k - 1) \div 4) + 1]][((k - 1) % 4) + 1]
           s == [k \in 1 .. n |-> char(k)]
           behind == <<Blank>>
<1>1. InMemory(text, row) = s \o behind
  BY <1>0, Zenon DEF InMemory, Width
<1>2. n \in Nat /\ n >= 4 /\ (m # 1 => n >= 8)
  OBVIOUS
<1>3. \A j \in 1 .. m : \A k \in 1 .. 4 : text[row[j]][k] \in Int
  <2> TAKE j \in 1 .. m
  <2> TAKE k \in 1 .. 4
  <2>1. row[j] \in Fields
    BY <1>0
  <2>2. text[row[j]] \in Seq(Int) /\ Len(text[row[j]]) = 4
    BY <2>1, Zenon DEF IsField
  <2> QED
    BY <2>2
<1>4. \A k \in 1 .. n : char(k) \in Int
  <2> TAKE k \in 1 .. n
  <2>1. ((k - 1) \div 4) + 1 \in 1 .. m /\ ((k - 1) % 4) + 1 \in 1 .. 4
    OBVIOUS
  <2> QED
    BY <1>3, <2>1, Zenon
<1>5. \A k \in 1 .. 4 : char(k) = text[row[1]][k]
  <2> TAKE k \in 1 .. 4
  <2>1. ((k - 1) \div 4) + 1 = 1 /\ ((k - 1) % 4) + 1 = k
    OBVIOUS
  <2> QED
    BY <2>1, Zenon
<1>6. m # 1 => char(5) = Blank
  <2> SUFFICES ASSUME m # 1 PROVE char(5) = Blank
    OBVIOUS
  <2>1. ((5 - 1) \div 4) + 1 = 2 /\ ((5 - 1) % 4) + 1 = 1
    OBVIOUS
  <2>2. row[2] \in Fields
    BY <1>0
  <2>3. text[row[2]][1] = Blank
    BY <2>2, Zenon DEF IsField
  <2> QED
    BY <2>1, <2>3, Zenon
<1> HIDE DEF char
<1>7. s \in Seq(Int) /\ Len(s) = n /\ \A k \in 1 .. n : s[k] = char(k)
  BY <1>2, <1>4
<1>8. behind \in Seq(Int) /\ Len(behind) = 1 /\ behind[1] = Blank
  BY DEF Blank
<1> HIDE DEF s, behind
<1>9. /\ s \o behind \in Seq(Int) /\ Len(s \o behind) = n + 1
      /\ \A k \in 1 .. n : (s \o behind)[k] = s[k]
      /\ (s \o behind)[n + 1] = Blank
  <2>1. /\ s \o behind \in Seq(Int) /\ Len(s \o behind) = Len(s) + Len(behind)
        /\ \A k \in 1 .. Len(s) + Len(behind) :
             (s \o behind)[k] = IF k <= Len(s) THEN s[k] ELSE behind[k - Len(s)]
    BY <1>7, <1>8, ConcatProperties, Zenon
  <2>2. Len(s) = n /\ Len(behind) = 1
    BY <1>7, <1>8, Zenon
  <2>3. \A k \in 1 .. n : k \in 1 .. n + 1 /\ k <= n
    BY <1>2
  <2>4. n + 1 \in 1 .. n + 1 /\ ~(n + 1 <= n) /\ (n + 1) - n = 1
    BY <1>2
  <2> QED
    BY <1>8, <2>1, <2>2, <2>3, <2>4, Zenon
<1>10. \A k \in 1 .. 4 : (s \o behind)[k] = text[row[1]][k]
  <2>1. \A k \in 1 .. 4 : k \in 1 .. n
    BY <1>2
  <2> QED
    BY <1>5, <1>7, <1>9, <2>1, Zenon
<1>11. (s \o behind)[5] = Blank
  <2>1. CASE m = 1
    <3>1. n + 1 = 5
      BY <2>1
    <3> QED
      BY <1>9, <3>1, Zenon
  <2>2. CASE m # 1
    <3>1. 5 \in 1 .. n
      BY <1>2, <2>2
    <3> QED
      BY <1>6, <1>7, <1>9, <2>2, <3>1, Zenon
  <2> QED
    BY <2>1, <2>2
<1>12. Len(s \o behind) >= 5
  BY <1>2, <1>9
<1> QED
  BY <1>1, <1>9, <1>10, <1>11, <1>12, Zenon

(* The header that is decoded is the one that was encoded, wherever the    *)
(* arrays stand (Packet.h, encode_header and decode_header).               *)
THEOREM HeaderDecoded ==
  ASSUME NEW h \in [Fields -> 0 .. 999], NEW layout \in Layout
  PROVE  decode_header(encode_header(h), layout) = h
<1> DEFINE text == encode_header(h)
           index(f) == CHOOSE i \in 1 .. Len(Order) : Order[i] = f
<1>1. h \in [Fields -> Short]
  BY DEF Short
<1>2. \A f \in Fields : text[f] \in Seq(Int) /\ IsField(text[f], h[f])
  <2> TAKE f \in Fields
  <2>1. h[f] \in Short
    BY <1>1
  <2>2. text[f] = SubSeq(Padded(h[f]), 1, 4)
    BY Zenon DEF encode_header, Width
  <2> QED
    <3>1. IsField(text[f], h[f])
      BY <2>1, <2>2, PaddedIsField, Zenon
    <3> QED
      BY <3>1, Zenon DEF IsField
<1> HIDE DEF text
<1>3. ASSUME NEW f \in Fields
      PROVE  atoi(InMemory(text, Row(index(f), layout))) = h[f]
  <2>1. index(f) \in 1 .. 4 /\ Order[index(f)] = f
    <3>1. \E i \in 1 .. Len(Order) : Order[i] = f
      BY DEF Order, Fields
    <3>2. Len(Order) = 4
      BY DEF Order
    <3> QED
      BY <3>1, <3>2, Zenon
  <2> DEFINE row == Row(index(f), layout)
             s == InMemory(text, row)
  <2>2. row \in Seq(Fields) /\ Len(row) \in 1 .. 4 /\ row[1] = f
    BY <2>1, RowIsFields, Zenon
  <2> HIDE DEF row
  <2>3. /\ s \in Seq(Int) /\ Len(s) >= 5
        /\ \A k \in 1 .. 4 : s[k] = text[row[1]][k]
        /\ s[5] = Blank
    BY <1>1, <1>2, <2>2, InMemoryIsField, Zenon
  <2> HIDE DEF s
  <2>4. h[f] \in Short /\ text[f] \in Seq(Int) /\ IsField(text[f], h[f])
    BY <1>1, <1>2
  <2>5. atoi(s) = h[f]
    BY <2>2, <2>3, <2>4, AtoiOfField, ZenonT(40)
  <2> QED
    BY <2>5, Zenon DEF row, s
<1> HIDE DEF index
<1>4. decode_header(text, layout) = [f \in Fields |-> h[f]]
  <2>1. \A f \in Fields : atoi(InMemory(text, Row(index(f), layout))) = h[f]
    BY <1>3, Zenon
  <2> QED
    BY <2>1 DEF decode_header, index
<1>5. [f \in Fields |-> h[f]] = h
  BY <1>1
<1> QED
  BY <1>4, <1>5 DEF text
=============================================================================
