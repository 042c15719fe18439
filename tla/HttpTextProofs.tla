----------------------------- MODULE HttpTextProofs -----------------------------
(***************************************************************************)
(* The functions of HttpText for inputs of any length.  A chunk of any     *)
(* bytes that is framed is read back as that chunk; the headers are those  *)
(* of the lines, in order; every path that leads to a resource is asked    *)
(* for; the content type is found in every spelling.                       *)
(*                                                                         *)
(* A recursive function is known by its recursion once one is known to     *)
(* exist, which goes by the least number for which there is none.          *)
(***************************************************************************)
EXTENDS HttpText, SequenceTheorems, FiniteSetTheorems, WellFoundedInduction, TLAPS

\* Three sequences in a row; the provers find the fact more easily by a name.
Associates(a, b, c) == (a \o b) \o c = a \o (b \o c)

LEMMA Associative ==
  ASSUME NEW C, NEW a \in Seq(C), NEW b \in Seq(C), NEW c \in Seq(C)
  PROVE  Associates(a, b, c)
  BY ConcatAssociative DEF Associates

\* A set of numbers that is not empty has a least one.
LEMMA LeastNumber ==
  ASSUME NEW T \in SUBSET Nat, T # {}
  PROVE  \E m \in T : \A k \in T : m <= k
<1>1. PICK x \in T : \A y \in T : <<y, x>> \notin OpToRel(<, Nat)
  BY WFMin, NatLessThanWellFounded
<1>2. \A y \in T : ~(y < x)
  BY <1>1 DEF OpToRel
<1> QED
  BY <1>2

\* A set of places that has the first, and with each the next, has all.
LEMMA AllPlaces ==
  ASSUME NEW n \in Nat, NEW T \in SUBSET (0 .. n), 0 \in T,
         \A k \in 0 .. n - 1 : k \in T => k + 1 \in T
  PROVE  \A k \in 0 .. n : k \in T
<1> DEFINE R == (0 .. n) \ T
<1> SUFFICES ASSUME R # {} PROVE FALSE
  OBVIOUS
<1>1. R \in SUBSET Nat
  OBVIOUS
<1>2. PICK m \in R : \A k \in R : m <= k
  <2> HIDE DEF R
  <2> QED
    BY <1>1, LeastNumber
<1>3. m \in 1 .. n /\ m \notin T
  OBVIOUS
<1>4. m - 1 \in 0 .. n - 1 /\ m - 1 \notin R
  BY <1>2, <1>3
<1> QED
  BY <1>3, <1>4

\* There is a function that begins with base and goes on by the step of each place.
Recurs(S, n, base, step) ==
  \E f \in [0 .. n -> S] : f[0] = base /\ \A k \in 1 .. n : f[k] = step[k][f[k - 1]]

LEMMA RecursionExists ==
  \A S : \A n \in Nat : \A base \in S : \A step \in [1 .. n -> [S -> S]] : Recurs(S, n, base, step)
<1> SUFFICES ASSUME NEW S, NEW n \in Nat, NEW base \in S, NEW step \in [1 .. n -> [S -> S]]
             PROVE  Recurs(S, n, base, step)
  OBVIOUS
<1> DEFINE Goes(f, m) == f[0] = base /\ \A k \in 1 .. m : f[k] = step[k][f[k - 1]]
           T == {m \in 0 .. n : ~ \E f \in [0 .. m -> S] : Goes(f, m)}
<1> SUFFICES ASSUME ~ \E f \in [0 .. n -> S] : Goes(f, n) PROVE FALSE
  BY DEF Recurs
<1> HIDE DEF Goes
<1>0. T \in SUBSET Nat /\ n \in T
  OBVIOUS
<1>1. PICK m \in T : \A k \in T : m <= k
  <2> HIDE DEF T
  <2> QED
    BY <1>0, LeastNumber
<1>2. m \in 0 .. n /\ ~ \E f \in [0 .. m -> S] : Goes(f, m)
  OBVIOUS
<1>3. CASE m = 0
  <2> DEFINE f == [k \in 0 .. 0 |-> base]
  <2>1. f \in [0 .. 0 -> S] /\ Goes(f, 0)
    BY DEF Goes
  <2> HIDE DEF f
  <2> QED
    BY <1>2, <1>3, <2>1
<1>4. CASE m > 0
  <2>1. m - 1 \in 0 .. n /\ m - 1 \notin T
    BY <1>1, <1>2, <1>4
  <2>2. PICK g \in [0 .. m - 1 -> S] : Goes(g, m - 1)
    BY <2>1
  <2> DEFINE f == [k \in 0 .. m |-> IF k < m THEN g[k] ELSE step[m][g[m - 1]]]
  <2> HIDE DEF T
  <2>3. f \in [0 .. m -> S]
    BY <1>2, <1>4, <2>2
  <2>4. f[0] = base /\ \A k \in 1 .. m : f[k] = step[k][f[k - 1]]
    <3>1. g[0] = base /\ \A j \in 1 .. m - 1 : g[j] = step[j][g[j - 1]]
      BY <2>2 DEF Goes
    <3>2. m \in Nat
      BY <1>2
    <3>3. \A j \in 0 .. m : f[j] = IF j < m THEN g[j] ELSE step[m][g[m - 1]]
      OBVIOUS
    <3> HIDE DEF f
    <3>4. f[0] = base
      BY <1>4, <3>1, <3>2, <3>3
    <3>5. ASSUME NEW k \in 1 .. m PROVE f[k] = step[k][f[k - 1]]
      <4>1. k - 1 \in 0 .. m - 1 /\ k - 1 < m /\ k - 1 \in 0 .. m
        BY <3>2
      <4>2. f[k - 1] = g[k - 1]
        BY <3>3, <4>1
      <4>3. CASE k < m
        <5>1. k \in 1 .. m - 1 /\ k \in 0 .. m
          BY <3>2, <4>3
        <5> QED
          BY <3>1, <3>3, <4>2, <4>3, <5>1
      <4>4. CASE k = m
        BY <3>2, <3>3, <4>2, <4>4
      <4> QED
        BY <3>2, <4>3, <4>4
    <3> QED
      BY <3>4, <3>5
  <2>5. Goes(f, m)
    BY <2>4 DEF Goes
  <2> HIDE DEF f
  <2> QED
    BY <1>2, <2>3, <2>5
<1> QED
  BY <1>2, <1>3, <1>4

-----------------------------------------------------------------------------
(* The frame of a chunk *)

\* What is left of n before its last i digits.
Left(n) ==
  CHOOSE left : left = [i \in 0 .. 8 |-> IF i = 0 THEN n ELSE left[i - 1] \div 16]

LEMMA LeftIs ==
  ASSUME NEW n \in Nat
  PROVE  /\ Left(n) \in [0 .. 8 -> Nat] /\ Left(n)[0] = n
         /\ \A i \in 0 .. 7 : Left(n)[i + 1] = Left(n)[i] \div 16
<1> DEFINE step == [i \in 1 .. 8 |-> [x \in Nat |-> x \div 16]]
           Goes(f) == f = [i \in 0 .. 8 |-> IF i = 0 THEN n ELSE f[i - 1] \div 16]
<1>1. step \in [1 .. 8 -> [Nat -> Nat]]
  OBVIOUS
<1> HIDE DEF step
<1>2. PICK f \in [0 .. 8 -> Nat] : f[0] = n /\ \A i \in 1 .. 8 : f[i] = step[i][f[i - 1]]
  <2> HIDE DEF Goes
  <2>1. 8 \in Nat
    OBVIOUS
  <2>2. Recurs(Nat, 8, n, step)
    BY <1>1, <2>1, RecursionExists
  <2> QED
    BY <2>2 DEF Recurs
<1>3. \A i \in 1 .. 8 : f[i - 1] \in Nat /\ step[i][f[i - 1]] = f[i - 1] \div 16
  BY <1>2 DEF step
<1>4. Goes(f)
  BY <1>2, <1>3
<1>5. Goes(Left(n))
  BY <1>4, Zenon DEF Left
<1> DEFINE left == Left(n)
<1>6. left = [i \in 0 .. 8 |-> IF i = 0 THEN n ELSE left[i - 1] \div 16]
  BY <1>5
<1> HIDE DEF left
<1>7. left[0] = n /\ \A i \in 1 .. 8 : left[i] = left[i - 1] \div 16
  BY <1>6
<1>8. /\ left[1] = left[0] \div 16 /\ left[2] = left[1] \div 16 /\ left[3] = left[2] \div 16
      /\ left[4] = left[3] \div 16 /\ left[5] = left[4] \div 16 /\ left[6] = left[5] \div 16
      /\ left[7] = left[6] \div 16 /\ left[8] = left[7] \div 16
  BY <1>7
<1>9. \A x \in Nat : x \div 16 \in Nat
  OBVIOUS
<1>10. \A i \in 0 .. 8 : left[i] \in Nat
  <2>1. left[0] \in Nat /\ left[1] \in Nat /\ left[2] \in Nat
    BY <1>7, <1>8, <1>9
  <2>2. left[3] \in Nat /\ left[4] \in Nat /\ left[5] \in Nat
    BY <1>8, <1>9, <2>1
  <2>3. left[6] \in Nat /\ left[7] \in Nat /\ left[8] \in Nat
    BY <1>8, <1>9, <2>2
  <2> QED
    BY <2>1, <2>2, <2>3
<1>11. left \in [0 .. 8 -> Nat]
  BY <1>6, <1>10
<1>12. \A i \in 0 .. 7 : left[i + 1] = left[i] \div 16
  BY <1>7
<1> QED
  BY <1>7, <1>11, <1>12 DEF left

LEMMA FieldIs ==
  ASSUME NEW n
  PROVE  HexField(n) = [i \in 1 .. 8 |-> IF i < 8 /\ Left(n)[8 - i] = 0 THEN Space
                                         ELSE HexChar(Left(n)[8 - i] % 16)]
BY DEF HexField, Left

LEMMA DigitIs == \A d \in 0 .. 15 : HexChar(d) \in HexChars /\ DigitOf(HexChar(d)) = d
<1> SUFFICES ASSUME NEW d \in 0 .. 15 PROVE HexChar(d) \in HexChars /\ DigitOf(HexChar(d)) = d
  OBVIOUS
<1>1. \A e \in 0 .. 15 : HexChar(e) = HexChar(d) => e = d
  BY DEF HexChar
<1> QED
  BY <1>1 DEF DigitOf, HexChars

LEMMA DigitType == \A c \in HexChars : DigitOf(c) \in 0 .. 15
  BY DigitIs DEF HexChars

\* The number is built digit by digit.
Builds(digits, value) ==
  /\ value \in [0 .. Len(digits) -> Nat] /\ value[0] = 0
  /\ \A k \in 1 .. Len(digits) : value[k] = 16 * value[k - 1] + DigitOf(digits[k])

LEMMA NumberIs ==
  ASSUME NEW digits \in Seq(HexChars)
  PROVE  \E value : Builds(digits, value) /\ NumberOf(digits) = value[Len(digits)]
<1> DEFINE n == Len(digits)
           step == [k \in 1 .. n |-> [x \in Nat |-> 16 * x + DigitOf(digits[k])]]
           Goes(f) == f = [k \in 0 .. n |-> IF k = 0 THEN 0 ELSE 16 * f[k - 1] + DigitOf(digits[k])]
           value == CHOOSE f : Goes(f)
<1>1. n \in Nat /\ \A k \in 1 .. n : DigitOf(digits[k]) \in Nat
  BY DigitType
<1>2. NumberOf(digits) = value[n]
  BY DEF NumberOf
<1> HIDE DEF n
<1>3. step \in [1 .. n -> [Nat -> Nat]]
  BY <1>1
<1> HIDE DEF step
<1>4. Recurs(Nat, n, 0, step)
  BY <1>1, <1>3, RecursionExists
<1>5. PICK f \in [0 .. n -> Nat] : f[0] = 0 /\ \A k \in 1 .. n : f[k] = step[k][f[k - 1]]
  BY <1>4 DEF Recurs
<1>6. \A k \in 1 .. n : f[k - 1] \in Nat /\ step[k][f[k - 1]] = 16 * f[k - 1] + DigitOf(digits[k])
  <2>1. \A k \in 1 .. n : \A x \in Nat : step[k][x] = 16 * x + DigitOf(digits[k])
    BY DEF step
  <2>2. \A k \in 1 .. n : k - 1 \in 0 .. n
    BY <1>1
  <2>3. \A k \in 1 .. n : f[k - 1] \in Nat
    BY <1>5, <2>2
  <2> QED
    BY <2>1, <2>3
<1>7. Goes(f)
  BY <1>1, <1>5, <1>6
<1>8. Goes(value)
  <2> HIDE DEF Goes
  <2> QED
    BY <1>7, Zenon
<1> HIDE DEF value
<1>9. value[0] = 0 /\ \A k \in 1 .. n : value[k] = 16 * value[k - 1] + DigitOf(digits[k])
  BY <1>1, <1>8
<1> DEFINE T == {k \in 0 .. n : value[k] \in Nat}
<1>10. T \in SUBSET (0 .. n) /\ 0 \in T
  BY <1>1, <1>9
<1>11. ASSUME NEW k \in 0 .. n - 1, k \in T PROVE k + 1 \in T
  BY <1>1, <1>9, <1>11
<1>12. \A k \in 0 .. n : k \in T
  <2> HIDE DEF T
  <2> QED
    BY <1>1, <1>10, <1>11, AllPlaces
<1>13. value \in [0 .. n -> Nat]
  BY <1>8, <1>12
<1> QED
  BY <1>2, <1>9, <1>13 DEF n, Builds

-----------------------------------------------------------------------------
\* The number of digits of a chunk of n bytes: after so many nothing is left.
Digits(n) == CHOOSE d \in 1 .. 8 : Left(n)[d] = 0 /\ \A e \in 1 .. d - 1 : Left(n)[e] # 0

LEMMA Sixteenth == \A x \in Nat : x \div 16 \in Nat /\ 16 * (x \div 16) <= x
  OBVIOUS

\* The numbers that the eight places hold are more than those of an int.
LEMMA NothingLeft ==
  ASSUME NEW n \in Nat, n <= MaxLen
  PROVE  Left(n)[8] = 0
<1> DEFINE left == Left(n)
<1>1. left[0] = n /\ \A i \in 0 .. 8 : left[i] \in Nat
  BY LeftIs
<1>2. \A i \in 0 .. 7 : 16 * left[i + 1] <= left[i]
  <2>1. \A i \in 0 .. 7 : left[i + 1] = left[i] \div 16
    BY LeftIs
  <2>2. \A i \in 0 .. 7 : left[i] \in Nat
    BY <1>1
  <2> HIDE DEF left
  <2> QED
    BY <2>1, <2>2, Sixteenth
<1> HIDE DEF left
<1>3. /\ left[0] \in Nat /\ left[1] \in Nat /\ left[2] \in Nat /\ left[3] \in Nat
      /\ left[4] \in Nat /\ left[5] \in Nat /\ left[6] \in Nat /\ left[7] \in Nat /\ left[8] \in Nat
  BY <1>1
<1>4. /\ 16 * left[1] <= left[0] /\ 16 * left[2] <= left[1] /\ 16 * left[3] <= left[2]
      /\ 16 * left[4] <= left[3] /\ 16 * left[5] <= left[4] /\ 16 * left[6] <= left[5]
      /\ 16 * left[7] <= left[6] /\ 16 * left[8] <= left[7]
  BY <1>2
<1>5. left[8] = 0
  BY <1>1, <1>3, <1>4, SMT DEF MaxLen
<1> QED
  BY <1>5 DEF left

LEMMA DigitsAre ==
  ASSUME NEW n \in Nat, n <= MaxLen
  PROVE  /\ Digits(n) \in 1 .. 8 /\ Left(n)[Digits(n)] = 0
         /\ \A e \in 1 .. 7 : e < Digits(n) <=> Left(n)[e] # 0
<1> DEFINE left == Left(n)
           T == {d \in 1 .. 8 : left[d] = 0}
<1>1. left[8] = 0 /\ \A i \in 1 .. 8 : left[i] \in Nat
  BY NothingLeft, LeftIs
<1>2. T \in SUBSET Nat /\ T # {}
  BY <1>1
<1>3. PICK d \in T : \A e \in T : d <= e
  <2> HIDE DEF T
  <2> QED
    BY <1>2, LeastNumber
<1>4. d \in 1 .. 8 /\ left[d] = 0 /\ \A e \in 1 .. d - 1 : left[e] # 0
  BY <1>3
<1> DEFINE m == Digits(n)
<1>5. m \in 1 .. 8 /\ left[m] = 0 /\ \A e \in 1 .. m - 1 : left[e] # 0
  BY <1>4 DEF Digits
<1> HIDE DEF m
<1>6. \A i \in 1 .. 7 : left[i] = 0 => left[i + 1] = 0
  <2>1. \A i \in 1 .. 7 : left[i + 1] = left[i] \div 16
    BY LeftIs
  <2> QED
    BY <2>1
<1> HIDE DEF left, T
<1>7. \A e \in 1 .. 7 : e >= m => left[e] = 0
  <2>1. /\ left[1] = 0 => left[2] = 0
        /\ left[2] = 0 => left[3] = 0
        /\ left[3] = 0 => left[4] = 0
        /\ left[4] = 0 => left[5] = 0
        /\ left[5] = 0 => left[6] = 0
        /\ left[6] = 0 => left[7] = 0
    BY <1>6
  <2> QED
    BY <1>5, <2>1
<1> QED
  BY <1>5, <1>7 DEF left, m

\* The l items behind the first m are a sequence.
PieceIs(S, s, m, l) ==
  /\ SubSeq(s, m + 1, m + l) \in Seq(S)
  /\ Len(SubSeq(s, m + 1, m + l)) = l
  /\ \A i \in 1 .. l : SubSeq(s, m + 1, m + l)[i] = s[m + i]

LEMMA Piece ==
  \A S, s : \A m, l \in Nat : (\A i \in 1 .. l : s[m + i] \in S) => PieceIs(S, s, m, l)
<1> SUFFICES ASSUME NEW S, NEW s, NEW m \in Nat, NEW l \in Nat, \A i \in 1 .. l : s[m + i] \in S
             PROVE  PieceIs(S, s, m, l)
  OBVIOUS
<1> DEFINE a == m + 1
           b == m + l
<1>1. a \in Int /\ b \in Int /\ \A i \in a .. b : s[i] \in S
  <2>1. ASSUME NEW i \in a .. b PROVE s[i] \in S
    <3>1. i - m \in 1 .. l /\ m + (i - m) = i
      OBVIOUS
    <3> QED
      BY <3>1
  <2> QED
    BY <2>1
<1>2. (a <= b => b - a + 1 = l) /\ (~(a <= b) => l = 0) /\ b - a + 1 = l /\ \A i \in 1 .. l : a + i - 1 = m + i
  OBVIOUS
<1> HIDE DEF a, b
<1>3. /\ SubSeq(s, a, b) \in Seq(S)
      /\ Len(SubSeq(s, a, b)) = IF a <= b THEN b - a + 1 ELSE 0
      /\ \A i \in 1 .. b - a + 1 : SubSeq(s, a, b)[i] = s[a + i - 1]
  BY <1>1, SubSeqProperties
<1> QED
  BY <1>2, <1>3 DEF a, b, PieceIs

\* The field has the digits of the length at its end and is blank before them.
LEMMA FieldOfLength ==
  ASSUME NEW n \in Nat, n <= MaxLen
  PROVE  /\ \A i \in 1 .. 8 : HexField(n)[i] = Space <=> i <= 8 - Digits(n)
         /\ \A j \in 1 .. Digits(n) :
              HexField(n)[8 - Digits(n) + j] = HexChar(Left(n)[Digits(n) - j] % 16)
<1> DEFINE d == Digits(n)
           left == Left(n)
           field == HexField(n)
<1>1. d \in 1 .. 8 /\ \A e \in 1 .. 7 : e < d <=> left[e] # 0
  BY DigitsAre
<1>2. \A i \in 0 .. 8 : left[i] \in Nat
  BY LeftIs
<1>3. \A i \in 1 .. 8 : field[i] = IF i < 8 /\ left[8 - i] = 0 THEN Space ELSE HexChar(left[8 - i] % 16)
  BY FieldIs
<1> HIDE DEF d, left, field
<1>4. \A i \in 1 .. 8 : HexChar(left[8 - i] % 16) # Space
  <2>1. \A i \in 1 .. 8 : left[8 - i] % 16 \in 0 .. 15
    BY <1>2
  <2> QED
    BY <2>1 DEF HexChar, Space
<1>5. \A i \in 1 .. 7 : left[8 - i] = 0 <=> i <= 8 - d
  BY <1>1
<1>6. \A i \in 1 .. 8 : field[i] = Space <=> i <= 8 - d
  <2>1. \A i \in 1 .. 8 : i < 8 <=> i \in 1 .. 7
    OBVIOUS
  <2>2. \A i \in 1 .. 8 : ~(i < 8) => ~(i <= 8 - d)
    BY <1>1
  <2> QED
    BY <1>3, <1>4, <1>5, <2>1, <2>2
<1>7. \A j \in 1 .. d : 8 - d + j \in 1 .. 8 /\ ~(8 - d + j <= 8 - d) /\ 8 - (8 - d + j) = d - j
  BY <1>1
<1>8. \A j \in 1 .. d : field[8 - d + j] = HexChar(left[d - j] % 16)
  BY <1>3, <1>5, <1>7
<1> QED
  BY <1>6, <1>8 DEF d, left, field

\* What a frame of n bytes with d digits looks like.
Frame(bytes, digits, chunk, d, n) ==
  /\ bytes \in Seq(Nat) /\ Len(bytes) = d + n + 4
  /\ \A j \in 1 .. d : bytes[j] = digits[j]
  /\ bytes[d + 1] = Cr
  /\ \A k \in 1 .. n : bytes[d + 2 + k] = chunk[k]

\* The buffer without the blanks at its front.
LEMMA FrameInBuffer ==
  ASSUME NEW n \in Nat, NEW d \in 1 .. 8, NEW digits, NEW chunk, NEW t,
         \A j \in 1 .. d : digits[j] \in Nat /\ t[(8 - d) + j] = digits[j],
         \A k \in 1 .. n : chunk[k] \in Nat /\ t[10 + k] = chunk[k],
         t[9] = Cr, t[10] = Lf, t[11 + n] = Cr, t[12 + n] = Lf
  PROVE  Frame(SubSeq(t, (8 - d) + 1, (8 - d) + (d + n + 4)), digits, chunk, d, n)
<1>1. 8 - d \in Nat /\ d + n + 4 \in Nat
  OBVIOUS
<1>2. ASSUME NEW i \in 1 .. d + n + 4 PROVE t[(8 - d) + i] \in Nat
  <2>1. CASE i \in 1 .. d
    BY <2>1
  <2>2. CASE i = d + 1
    <3>1. (8 - d) + i = 9
      BY <2>2
    <3> QED
      BY <3>1 DEF Cr
  <2>3. CASE i = d + 2
    <3>1. (8 - d) + i = 10
      BY <2>3
    <3> QED
      BY <3>1 DEF Lf
  <2>4. CASE i > d + 2 /\ i <= d + 2 + n
    <3> DEFINE k == i - (d + 2)
    <3>1. k \in 1 .. n /\ (8 - d) + i = 10 + k
      BY <2>4
    <3> HIDE DEF k
    <3> QED
      BY <3>1
  <2>5. CASE i = d + n + 3
    <3>1. (8 - d) + i = 11 + n
      BY <2>5
    <3> QED
      BY <3>1 DEF Cr
  <2>6. CASE i = d + n + 4
    <3>1. (8 - d) + i = 12 + n
      BY <2>6
    <3> QED
      BY <3>1 DEF Lf
  <2> QED
    BY <2>1, <2>2, <2>3, <2>4, <2>5, <2>6
<1> DEFINE m == 8 - d
           l == d + n + 4
           F == SubSeq(t, m + 1, m + l)
<1>3. F \in Seq(Nat) /\ Len(F) = l /\ \A i \in 1 .. l : F[i] = t[m + i]
  <2>1. m \in Nat /\ l \in Nat /\ \A i \in 1 .. l : t[m + i] \in Nat
    BY <1>1, <1>2
  <2> HIDE DEF m, l
  <2>2. PieceIs(Nat, t, m, l)
    BY <2>1, Piece
  <2> QED
    BY <2>2 DEF PieceIs
<1> HIDE DEF F
<1>4. \A j \in 1 .. d : F[j] = digits[j]
  BY <1>3
<1>5. F[d + 1] = Cr
  <2>1. d + 1 \in 1 .. l /\ m + (d + 1) = 9
    OBVIOUS
  <2> QED
    BY <1>3, <2>1
<1>6. \A k \in 1 .. n : F[d + 2 + k] = chunk[k]
  <2>1. \A k \in 1 .. n : d + 2 + k \in 1 .. l /\ m + (d + 2 + k) = 10 + k
    OBVIOUS
  <2> QED
    BY <1>3, <2>1
<1> QED
  BY <1>3, <1>4, <1>5, <1>6 DEF F, Frame

\* The digits of a length.
DigitsOf(n) == [j \in 1 .. Digits(n) |-> HexChar(Left(n)[Digits(n) - j] % 16)]

LEMMA DigitsOfType ==
  ASSUME NEW n \in Nat, n <= MaxLen
  PROVE  /\ \A j \in 1 .. Digits(n) : DigitsOf(n)[j] \in HexChars /\ DigitsOf(n)[j] \in Nat
         /\ DigitsOf(n) \in Seq(HexChars) /\ Len(DigitsOf(n)) = Digits(n)
<1> DEFINE d == Digits(n)
<1>1. d \in 1 .. 8
  BY DigitsAre
<1>2. \A i \in 0 .. 8 : Left(n)[i] % 16 \in 0 .. 15
  <2> DEFINE left == Left(n)
  <2>1. \A i \in 0 .. 8 : left[i] \in Nat
    BY LeftIs
  <2>2. \A x \in Nat : x % 16 \in 0 .. 15
    OBVIOUS
  <2> HIDE DEF left
  <2>3. \A i \in 0 .. 8 : left[i] % 16 \in 0 .. 15
    BY <2>1, <2>2
  <2> QED
    BY <2>3 DEF left
<1> HIDE DEF d
<1>3. \A j \in 1 .. d : d - j \in 0 .. 8
  BY <1>1
<1>4. \A j \in 1 .. d : HexChar(Left(n)[d - j] % 16) \in HexChars
  BY <1>2, <1>3, DigitIs
<1>5. \A c \in HexChars : c \in Nat
  BY DEF HexChars, HexChar
<1>6. DigitsOf(n) = [j \in 1 .. d |-> HexChar(Left(n)[d - j] % 16)]
  BY DEF d, DigitsOf
<1>7. DigitsOf(n) \in [1 .. d -> HexChars]
  BY <1>4, <1>6
<1>8. DigitsOf(n) \in Seq(HexChars) /\ Len(DigitsOf(n)) = d
  BY <1>1, <1>7
<1> QED
  BY <1>5, <1>7, <1>8 DEF d

\* The bytes of a buffer that belong to a chunk of n bytes.
ChunkIn(buffer, n) == SubSeq(buffer, DataOffset + 1, DataOffset + n)

LEMMA ChunkInIs ==
  ASSUME NEW buffer \in Seq(Nat), NEW n \in Nat, Len(buffer) >= ExtraSpace + n
  PROVE  /\ ChunkIn(buffer, n) \in Seq(Nat) /\ Len(ChunkIn(buffer, n)) = n
         /\ \A k \in 1 .. n : ChunkIn(buffer, n)[k] = buffer[10 + k] /\ buffer[10 + k] \in Nat
<1>1. 10 \in Nat /\ \A k \in 1 .. n : buffer[10 + k] \in Nat
  BY DEF ExtraSpace
<1>2. PieceIs(Nat, buffer, 10, n)
  BY <1>1, Piece
<1>3. ChunkIn(buffer, n) = SubSeq(buffer, 10 + 1, 10 + n)
  BY DEF ChunkIn, DataOffset, ExtraSpace
<1> QED
  BY <1>1, <1>2, <1>3 DEF PieceIs

\* The blanks at the front of the field.
LEMMA BlanksAre ==
  ASSUME NEW field, NEW d \in 1 .. 8, \A i \in 1 .. 8 : field[i] = Space <=> i <= 8 - d
  PROVE  Cardinality({i \in 1 .. 8 : field[i] = Space}) = 8 - d
<1> DEFINE m     == 8 - d
           blank == {i \in 1 .. 8 : field[i] = Space}
<1>1. m \in Nat /\ m <= 8
  OBVIOUS
<1> HIDE DEF m
<1>2. ASSUME NEW i \in blank PROVE i \in 1 .. m
  <2>1. i \in 1 .. 8 /\ i <= m
    BY DEF m
  <2> QED
    BY <1>1, <2>1
<1>3. ASSUME NEW i \in 1 .. m PROVE i \in blank
  <2>1. i \in 1 .. 8 /\ i <= m
    BY <1>1
  <2> QED
    BY <2>1 DEF m
<1> HIDE DEF blank
<1>4. blank = 1 .. m
  BY <1>2, <1>3
<1>5. Cardinality(1 .. m) = m
  BY <1>1, FS_Interval
<1> QED
  BY <1>4, <1>5 DEF m, blank

\* The buffer with the frame in it, and the bytes that stay.
Filled(t, field, data, n) ==
  /\ \A i \in 1 .. 8 : t[i] = field[i]
  /\ t[9] = Cr /\ t[10] = Lf /\ t[11 + n] = Cr /\ t[12 + n] = Lf
  /\ \A k \in 1 .. n : t[10 + k] = data[10 + k]

LEMMA FilledBuffer ==
  ASSUME NEW n \in Nat, n # 0, NEW l \in Nat, l >= 12 + n, NEW field, NEW data, NEW t,
         t = [i \in 1 .. l |-> CASE i <= 8               -> field[i]
                                [] i = 9                -> Cr
                                [] i = 10               -> Lf
                                [] i = 10 + n + 1       -> Cr
                                [] i = 10 + n + 2       -> Lf
                                [] OTHER                -> data[i]]
  PROVE  Filled(t, field, data, n)
<1>1. ASSUME NEW i \in 1 .. 8 PROVE t[i] = field[i]
  <2>1. i \in 1 .. l /\ i <= 8
    OBVIOUS
  <2> QED
    BY <2>1
<1>2. t[9] = Cr
  <2>1. 9 \in 1 .. l
    OBVIOUS
  <2> QED
    BY <2>1
<1>3. t[10] = Lf
  <2>1. 10 \in 1 .. l
    OBVIOUS
  <2> QED
    BY <2>1
<1>4. t[11 + n] = Cr
  <2>1. 11 + n \in 1 .. l
    OBVIOUS
  <2> QED
    BY <2>1
<1>5. t[12 + n] = Lf
  <2>1. 12 + n \in 1 .. l
    OBVIOUS
  <2> QED
    BY <2>1
<1>6. ASSUME NEW k \in 1 .. n PROVE t[10 + k] = data[10 + k]
  <2>1. /\ 10 + k \in 1 .. l /\ ~(10 + k <= 8)
        /\ 10 + k # 9 /\ 10 + k # 10 /\ 10 + k # 10 + n + 1 /\ 10 + k # 10 + n + 2
    OBVIOUS
  <2> QED
    BY <2>1
<1> QED
  BY <1>1, <1>2, <1>3, <1>4, <1>5, <1>6 DEF Filled

\* The frame of a chunk that is not empty: its digits, a line end, its bytes, a line end.
LEMMA FrameOf ==
  ASSUME NEW data \in Seq(Nat), NEW n \in Nat, n # 0, n <= MaxLen, Len(data) >= ExtraSpace + n
  PROVE  Frame(Sent(data, n), DigitsOf(n), ChunkIn(data, n), Digits(n), n)
<1> DEFINE chunk == ChunkIn(data, n)
           d     == Digits(n)
           frame == AddChunkedDelimiters(data, n)
           field == HexField(n)
           blank == {i \in 1 .. 8 : field[i] = Space}
           t     == frame.data
<1>1. Sent(data, n) = SubSeq(t, frame.offset + 1, ExtraSpace + n)
  BY DEF Sent
<1>2. /\ chunk \in Seq(Nat) /\ \A i \in 1 .. n : chunk[i] \in Nat
      /\ \A k \in 1 .. n : data[10 + k] = chunk[k]
  BY ChunkInIs
<1>3. d \in 1 .. 8
  BY DigitsAre
<1>4. /\ \A i \in 1 .. 8 : field[i] = Space <=> i <= 8 - d
      /\ \A j \in 1 .. d : field[8 - d + j] = DigitsOf(n)[j]
  BY FieldOfLength DEF DigitsOf
<1>5. \A j \in 1 .. d : DigitsOf(n)[j] \in Nat
  BY DigitsOfType
<1>6. frame = [data |-> [i \in 1 .. Len(data) |->
                          CASE i <= 8               -> field[i]
                            [] i = 9                -> Cr
                            [] i = 10               -> Lf
                            [] i = ChunkEnd(n) + 1  -> Cr
                            [] i = ChunkEnd(n) + 2  -> Lf
                            [] OTHER                -> data[i]],
               offset |-> Cardinality(blank)]
  BY <1>2 DEF AddChunkedDelimiters
<1> HIDE DEF d, chunk, field, frame
<1>7. Cardinality(blank) = 8 - d
  BY <1>3, <1>4, BlanksAre
<1> HIDE DEF blank
<1>8. /\ \A i \in 1 .. 8 : t[i] = field[i]
      /\ t[9] = Cr /\ t[10] = Lf /\ t[11 + n] = Cr /\ t[12 + n] = Lf
      /\ \A k \in 1 .. n : t[10 + k] = data[10 + k]
  <2> DEFINE l == Len(data)
  <2>1. l \in Nat /\ l >= 12 + n
    BY DEF ExtraSpace
  <2>2. t = [i \in 1 .. l |-> CASE i <= 8               -> field[i]
                                [] i = 9                -> Cr
                                [] i = 10               -> Lf
                                [] i = 10 + n + 1       -> Cr
                                [] i = 10 + n + 2       -> Lf
                                [] OTHER                -> data[i]]
    BY <1>6 DEF ChunkEnd, DataOffset, ExtraSpace
  <2> HIDE DEF l, t
  <2>3. Filled(t, field, data, n)
    BY <2>1, <2>2, FilledBuffer
  <2> QED
    BY <2>3 DEF Filled
<1> HIDE DEF t
<1>9. \A k \in 1 .. n : t[10 + k] = chunk[k]
  BY <1>2, <1>8
<1>10. \A j \in 1 .. d : t[(8 - d) + j] = DigitsOf(n)[j]
  <2>1. \A j \in 1 .. d : (8 - d) + j \in 1 .. 8
    BY <1>3
  <2> QED
    BY <1>4, <1>8, <2>1
<1>11. Sent(data, n) = SubSeq(t, (8 - d) + 1, (8 - d) + (d + n + 4))
  <2>1. (8 - d) + (d + n + 4) = ExtraSpace + n
    BY <1>3 DEF ExtraSpace
  <2>2. frame.offset = 8 - d
    BY <1>6, <1>7
  <2> QED
    BY <1>1, <2>1, <2>2
<1>12. Frame(SubSeq(t, (8 - d) + 1, (8 - d) + (d + n + 4)), DigitsOf(n), chunk, d, n)
  BY <1>2, <1>3, <1>5, <1>8, <1>9, <1>10, FrameInBuffer
<1> QED
  BY <1>11, <1>12 DEF chunk, d

\* The frame of no bytes is the last one.
LEMMA LastFrame ==
  ASSUME NEW data \in Seq(Nat), Len(data) >= ExtraSpace
  PROVE  Frame(Sent(data, 0), <<HexChar(0)>>, ChunkIn(data, 0), 1, 0)
<1> DEFINE chunk == ChunkIn(data, 0)
           frame == AddChunkedDelimiters(data, 0)
           t     == frame.data
<1>1. Sent(data, 0) = SubSeq(t, frame.offset + 1, ExtraSpace + 0)
  BY DEF Sent
<1>2. Len(data) \in Nat /\ Len(data) >= 12
  BY DEF ExtraSpace
<1>3. frame = [data |-> [i \in 1 .. Len(data) |->
                          CASE i = 8           -> HexChar(0)
                            [] i \in {9, 11}   -> Cr
                            [] i \in {10, 12}  -> Lf
                            [] OTHER           -> data[i]],
               offset |-> 7]
  BY DEF AddChunkedDelimiters
<1> HIDE DEF frame, chunk
<1>4. t[8] = HexChar(0) /\ t[9] = Cr /\ t[10] = Lf /\ t[11] = Cr /\ t[12] = Lf
  BY <1>2, <1>3
<1>5. Sent(data, 0) = SubSeq(t, 8, 12)
  BY <1>1, <1>3 DEF ExtraSpace
<1> HIDE DEF t
<1>6. \A j \in 1 .. 1 : <<HexChar(0)>>[j] \in Nat /\ t[(8 - 1) + j] = <<HexChar(0)>>[j]
  BY <1>4 DEF HexChar
<1>7. Frame(SubSeq(t, (8 - 1) + 1, (8 - 1) + (1 + 0 + 4)), <<HexChar(0)>>, chunk, 1, 0)
  <2>1. t[11 + 0] = Cr /\ t[12 + 0] = Lf
    BY <1>4
  <2>2. 0 \in Nat /\ 1 \in 1 .. 8 /\ \A k \in 1 .. 0 : chunk[k] \in Nat /\ t[10 + k] = chunk[k]
    OBVIOUS
  <2> DEFINE digits == <<HexChar(0)>>
  <2>3. \A j \in 1 .. 1 : digits[j] \in Nat /\ t[(8 - 1) + j] = digits[j]
    BY <1>6
  <2> HIDE DEF digits
  <2>4. Frame(SubSeq(t, (8 - 1) + 1, (8 - 1) + (1 + 0 + 4)), digits, chunk, 1, 0)
    BY <1>4, <2>1, <2>2, <2>3, FrameInBuffer
  <2> QED
    BY <2>4 DEF digits
<1>8. Sent(data, 0) = SubSeq(t, (8 - 1) + 1, (8 - 1) + (1 + 0 + 4))
  BY <1>5
<1> QED
  BY <1>7, <1>8 DEF chunk

\* The digits of a length stand for it.
LEMMA NumberOfDigits ==
  ASSUME NEW n \in Nat, n <= MaxLen
  PROVE  NumberOf(DigitsOf(n)) = n
<1> DEFINE d      == Digits(n)
           left   == Left(n)
           digits == DigitsOf(n)
<1>1. d \in 1 .. 8 /\ left[d] = 0
  BY DigitsAre
<1>2. left[0] = n /\ \A i \in 0 .. 7 : left[i] \in Nat /\ left[i + 1] = left[i] \div 16
  BY LeftIs
<1>3. digits \in Seq(HexChars) /\ Len(digits) = d
  BY DigitsOfType
<1>4. PICK value : Builds(digits, value) /\ NumberOf(digits) = value[Len(digits)]
  BY <1>3, NumberIs
<1>5. value[0] = 0 /\ \A k \in 1 .. d : value[k] = 16 * value[k - 1] + DigitOf(digits[k])
  BY <1>3, <1>4 DEF Builds
<1>6. \A j \in 1 .. d : DigitOf(digits[j]) = left[d - j] % 16
  <2> HIDE DEF d, left
  <2>1. digits = [j \in 1 .. d |-> HexChar(left[d - j] % 16)]
    BY DEF DigitsOf, d, left
  <2> HIDE DEF digits
  <2>2. \A j \in 1 .. d : d - j \in 0 .. 7
    BY <1>1
  <2>3. \A x \in Nat : x % 16 \in 0 .. 15
    OBVIOUS
  <2>4. \A j \in 1 .. d : left[d - j] % 16 \in 0 .. 15
    BY <1>2, <2>2, <2>3
  <2> QED
    BY <2>1, <2>4, DigitIs
<1> HIDE DEF d, left, digits
<1> DEFINE T == {k \in 0 .. d : value[k] = left[d - k]}
<1>7. T \in SUBSET (0 .. d) /\ 0 \in T /\ d \in Nat
  BY <1>1, <1>5
<1>8. ASSUME NEW k \in 0 .. d - 1, k \in T PROVE k + 1 \in T
  <2> DEFINE x == left[d - (k + 1)]
  <2>1. k + 1 \in 1 .. d /\ (k + 1) - 1 = k /\ d - (k + 1) \in 0 .. 7 /\ d - (k + 1) + 1 = d - k
    BY <1>1
  <2>2. x \in Nat /\ left[d - k] = x \div 16
    BY <1>2, <2>1
  <2>3. value[k + 1] = 16 * (x \div 16) + (x % 16)
    <3>1. value[k] = x \div 16
      BY <1>8, <2>2
    <3>2. value[k + 1] = 16 * value[k] + DigitOf(digits[k + 1])
      BY <1>5, <2>1
    <3>3. DigitOf(digits[k + 1]) = x % 16
      BY <1>6, <2>1
    <3> HIDE DEF x
    <3> QED
      BY <3>1, <3>2, <3>3
  <2> HIDE DEF x
  <2>4. value[k + 1] = x
    BY <2>2, <2>3
  <2> QED
    BY <2>1, <2>4 DEF x
<1>9. \A k \in 0 .. d : k \in T
  <2> HIDE DEF T
  <2> QED
    BY <1>7, <1>8, AllPlaces
<1>10. value[d] = n
  <2>1. d \in 0 .. d /\ d - d = 0
    BY <1>7
  <2> QED
    BY <1>2, <1>9, <2>1
<1> QED
  BY <1>3, <1>4, <1>10 DEF digits

\* Whoever reads a frame has its length and its bytes, and nothing is left.
LEMMA FrameIsRead ==
  ASSUME NEW d \in Nat, NEW digits \in Seq(HexChars), Len(digits) = d,
         NEW chunk \in Seq(Nat), NEW bytes, NumberOf(digits) = Len(chunk),
         Frame(bytes, digits, chunk, d, Len(chunk))
  PROVE  Unframed(bytes) = [len |-> Len(chunk), chunk |-> chunk, rest |-> <<>>]
<1> DEFINE n == Len(chunk)
           Ends(k) == /\ \A i \in 1 .. k : bytes[i] \in HexChars
                      /\ k < Len(bytes) => bytes[k + 1] \notin HexChars
           first == CHOOSE k \in 0 .. Len(bytes) : Ends(k)
           len   == NumberOf(SubSeq(bytes, 1, first))
<1>1. Unframed(bytes) = [len |-> len, chunk |-> SubSeq(bytes, first + 3, first + 2 + len),
                         rest |-> SubSeq(bytes, first + len + 5, Len(bytes))]
  BY DEF Unframed
<1>2. /\ n \in Nat /\ bytes \in Seq(Nat) /\ Len(bytes) = d + n + 4
      /\ \A j \in 1 .. d : bytes[j] = digits[j]
      /\ bytes[d + 1] = Cr
      /\ \A k \in 1 .. n : bytes[d + 2 + k] = chunk[k]
  <2>1. n \in Nat /\ Frame(bytes, digits, chunk, d, n)
    OBVIOUS
  <2> QED
    BY <2>1, Zenon DEF Frame
<1>3. Cr \notin HexChars /\ \A j \in 1 .. d : bytes[j] \in HexChars
  <2>1. Cr \notin HexChars
    BY DEF Cr, HexChars, HexChar
  <2>2. \A j \in 1 .. d : digits[j] \in HexChars
    OBVIOUS
  <2> QED
    BY <1>2, <2>1, <2>2
<1>4. first = d
  <2>1. d \in 0 .. Len(bytes) /\ Ends(d)
    BY <1>2, <1>3
  <2>2. ASSUME NEW k \in 0 .. Len(bytes), Ends(k) PROVE k = d
    <3>1. CASE k < d
      <4>1. k + 1 \in 1 .. d /\ k < Len(bytes)
        BY <1>2, <3>1
      <4> QED
        BY <1>3, <2>2, <4>1
    <3>2. CASE k > d
      <4>1. d + 1 \in 1 .. k
        BY <1>2, <3>2
      <4> QED
        BY <1>2, <1>3, <2>2, <4>1
    <3> QED
      BY <1>2, <3>1, <3>2
  <2> HIDE DEF Ends
  <2> QED
    BY <2>1, <2>2
<1> HIDE DEF first
<1>5. SubSeq(bytes, 1, d) = digits
  <2>1. \A i \in 1 .. d : bytes[0 + i] \in HexChars
    BY <1>3
  <2>2. PieceIs(HexChars, bytes, 0, d)
    BY <2>1, Piece
  <2>3. 0 + 1 = 1 /\ 0 + d = d /\ \A i \in 1 .. d : 0 + i = i
    OBVIOUS
  <2>4. /\ SubSeq(bytes, 1, d) \in Seq(HexChars) /\ Len(SubSeq(bytes, 1, d)) = Len(digits)
        /\ \A i \in 1 .. d : SubSeq(bytes, 1, d)[i] = bytes[i]
    BY <2>2, <2>3 DEF PieceIs
  <2> DEFINE F == SubSeq(bytes, 1, d)
  <2> HIDE DEF F
  <2>5. F \in Seq(HexChars) /\ Len(F) = Len(digits) /\ \A i \in 1 .. Len(F) : F[i] = digits[i]
    BY <1>2, <2>4 DEF F
  <2>6. F = digits
    BY <2>5, SeqEqual
  <2> QED
    BY <2>6 DEF F
<1>6. len = n
  BY <1>4, <1>5
<1> HIDE DEF len
<1>7. SubSeq(bytes, (d + 2) + 1, (d + 2) + n) = chunk
  <2> DEFINE m == d + 2
             F == SubSeq(bytes, m + 1, m + n)
  <2>1. m \in Nat /\ n \in Nat /\ \A i \in 1 .. n : bytes[m + i] = chunk[i] /\ bytes[m + i] \in Nat
    BY <1>2
  <2> HIDE DEF m
  <2>2. PieceIs(Nat, bytes, m, n)
    BY <2>1, Piece
  <2>3. F \in Seq(Nat) /\ Len(F) = Len(chunk) /\ \A i \in 1 .. n : F[i] = chunk[i]
    BY <2>1, <2>2 DEF PieceIs
  <2> HIDE DEF F
  <2>4. F = chunk
    BY <2>3, SeqEqual
  <2> QED
    BY <2>4 DEF F, m
<1>8. SubSeq(bytes, d + n + 5, Len(bytes)) = <<>>
  BY <1>2, SubSeqEmpty
<1>9. (d + 2) + 1 = d + 3 /\ (d + 2) + n = d + 2 + n
  BY <1>2
<1> QED
  BY <1>1, <1>4, <1>6, <1>7, <1>8, <1>9 DEF n

\* Whatever the buffer holds, the n bytes from data_offset on are read back of what is sent for n
\* bytes, with nothing left over: add_chunked_delimiters() against handle_chunked_header() and
\* handle_chunked_body().
THEOREM ChunkReadsBack ==
  ASSUME NEW buffer \in Seq(Nat), NEW n \in Nat, n <= MaxLen, Len(buffer) >= ExtraSpace + n
  PROVE  Unframed(Sent(buffer, n)) =
           [len |-> n, chunk |-> SubSeq(buffer, DataOffset + 1, DataOffset + n), rest |-> <<>>]
<1> DEFINE chunk == ChunkIn(buffer, n)
<1>1. chunk \in Seq(Nat) /\ Len(chunk) = n
  BY ChunkInIs
<1> HIDE DEF chunk
<1>2. CASE n = 0
  <2> DEFINE digits == <<HexChar(0)>>
  <2>1. Frame(Sent(buffer, n), digits, chunk, 1, n)
    <3>1. Len(buffer) >= ExtraSpace
      BY <1>2 DEF ExtraSpace
    <3>2. Frame(Sent(buffer, 0), <<HexChar(0)>>, ChunkIn(buffer, 0), 1, 0)
      BY <3>1, LastFrame
    <3> QED
      BY <1>2, <3>2 DEF chunk
  <2>2. digits \in Seq(HexChars) /\ Len(digits) = 1 /\ digits[1] = HexChar(0)
    BY DigitIs
  <2>3. NumberOf(digits) = 0
    <3> HIDE DEF digits
    <3>1. PICK value : Builds(digits, value) /\ NumberOf(digits) = value[Len(digits)]
      BY <2>2, NumberIs
    <3>2. value[0] = 0 /\ value[1] = 16 * value[0] + DigitOf(digits[1])
      BY <2>2, <3>1 DEF Builds
    <3> QED
      BY <2>2, <3>1, <3>2, DigitIs
  <2> HIDE DEF digits
  <2>4. Unframed(Sent(buffer, n)) = [len |-> Len(chunk), chunk |-> chunk, rest |-> <<>>]
    BY <1>1, <1>2, <2>1, <2>2, <2>3, FrameIsRead
  <2> QED
    BY <1>1, <2>4 DEF chunk, ChunkIn
<1>3. CASE n # 0
  <2>1. Frame(Sent(buffer, n), DigitsOf(n), chunk, Digits(n), n)
    BY <1>3, FrameOf DEF chunk
  <2>2. Digits(n) \in Nat
    <3>1. Digits(n) \in 1 .. 8
      BY <1>3, DigitsAre
    <3> QED
      BY <3>1
  <2>3. DigitsOf(n) \in Seq(HexChars) /\ Len(DigitsOf(n)) = Digits(n)
    BY DigitsOfType
  <2>4. NumberOf(DigitsOf(n)) = n
    BY NumberOfDigits
  <2>5. Unframed(Sent(buffer, n)) = [len |-> Len(chunk), chunk |-> chunk, rest |-> <<>>]
    BY <1>1, <2>1, <2>2, <2>3, <2>4, FrameIsRead
  <2> QED
    BY <1>1, <2>5 DEF chunk, ChunkIn
<1> QED
  BY <1>2, <1>3

\* The bytes that the runs send
LEMMA SomeBytesAre ==
  ASSUME NEW n \in Nat
  PROVE  SomeBytes(n) \in Seq(Nat) /\ Len(SomeBytes(n)) = n
<1>1. \A i \in 1 .. n : <<HexChar(1), Cr, Lf, Space, 200>>[(i % 5) + 1] \in Nat
  <2>1. \A i \in 1 .. n : (i % 5) + 1 \in 1 .. 5
    OBVIOUS
  <2>2. \A j \in 1 .. 5 : <<HexChar(1), Cr, Lf, Space, 200>>[j] \in Nat
    BY DEF HexChar, Cr, Lf, Space
  <2> QED
    BY <2>1, <2>2
<1>2. SomeBytes(n) \in [1 .. n -> Nat]
  BY <1>1 DEF SomeBytes
<1> QED
  BY <1>2

\* The writer's data begins two bytes behind data_offset.
LEMMA ShiftedPlaces ==
  ASSUME NEW n \in Nat, NEW i \in 1 .. n
  PROVE  /\ i + DataOffset \in 1 .. ExtraSpace + n
         /\ i + DataOffset > ExtraSpace <=> ~(i <= 2)
         /\ (i + DataOffset) - ExtraSpace = i - 2
  BY DEF ExtraSpace, DataOffset

\* Its buffer seen from there
LEMMA ShiftedByte ==
  ASSUME NEW old, NEW chunk, NEW n \in Nat, NEW i \in 1 .. n
  PROVE  [k \in 1 .. ExtraSpace + n |->
            IF k > ExtraSpace THEN chunk[k - ExtraSpace] ELSE old][i + DataOffset]
           = IF i <= 2 THEN old ELSE chunk[i - 2]
<1>1. i + DataOffset \in 1 .. ExtraSpace + n
  BY ShiftedPlaces, Zenon
<1>2. i + DataOffset > ExtraSpace <=> ~(i <= 2)
  BY ShiftedPlaces, Zenon
<1>3. (i + DataOffset) - ExtraSpace = i - 2
  BY ShiftedPlaces, Zenon
<1>4. [k \in 1 .. ExtraSpace + n |->
         IF k > ExtraSpace THEN chunk[k - ExtraSpace] ELSE old][i + DataOffset]
        = IF i + DataOffset > ExtraSpace THEN chunk[(i + DataOffset) - ExtraSpace] ELSE old
  BY <1>1, Zenon
<1>5. CASE i <= 2
  BY <1>2, <1>4, <1>5, Zenon
<1>6. CASE ~(i <= 2)
  <2>1. chunk[(i + DataOffset) - ExtraSpace] = chunk[i - 2]
    BY <1>3, Zenon
  <2> QED
    BY <1>2, <1>4, <1>6, <2>1, Zenon
<1> QED
  BY <1>5, <1>6, Zenon

\* What the response writer sends of a chunk has the size of the chunk and lacks its end: the
\* space that it leaves in front of the data is two bytes more than add_chunked_delimiters() fills
\* (http_service.cpp:647, http_helpers.cpp:168-182).
THEOREM WriterShiftsChunk ==
  ASSUME NEW old \in Nat, NEW chunk \in Seq(Nat), Len(chunk) <= MaxLen
  PROVE  Unframed(Framed(old, chunk)) =
           [len |-> Len(chunk), chunk |-> Shifted(old, chunk), rest |-> <<>>]
<1> DEFINE n      == Len(chunk)
           byte(i) == IF i > ExtraSpace THEN chunk[i - ExtraSpace] ELSE old
           buffer == [i \in 1 .. ExtraSpace + n |-> byte(i)]
           data   == SubSeq(buffer, DataOffset + 1, DataOffset + n)
<1>1. n \in Nat /\ ExtraSpace = 12 /\ DataOffset = 10
  BY DEF ExtraSpace, DataOffset
<1>2. \A i \in 1 .. ExtraSpace + n : byte(i) \in Nat
  <2> TAKE i \in 1 .. ExtraSpace + n
  <2>1. CASE i > ExtraSpace
    <3>1. i - ExtraSpace \in 1 .. n
      BY <1>1, <2>1
    <3> QED
      BY <3>1, <2>1
  <2>2. CASE ~(i > ExtraSpace)
    BY <2>2
  <2> QED
    BY <2>1, <2>2
<1>3. buffer \in Seq(Nat) /\ Len(buffer) = ExtraSpace + n
  <2> HIDE DEF byte
  <2>1. buffer \in [1 .. ExtraSpace + n -> Nat]
    BY <1>2
  <2> HIDE DEF buffer
  <2> QED
    BY <2>1, <1>1
<1>4. Framed(old, chunk) = Sent(buffer, n)
  BY DEF Framed
<1>5. data = Shifted(old, chunk)
  <2>1. data = [i \in 1 .. n |-> buffer[i + DataOffset]]
    <3> HIDE DEF buffer
    <3> QED
      BY <1>1, <1>3
  <2>2. \A i \in 1 .. n : buffer[i + DataOffset] = IF i <= 2 THEN old ELSE chunk[i - 2]
    BY <1>1, ShiftedByte
  <2> HIDE DEF data, buffer
  <2> QED
    BY <2>1, <2>2 DEF Shifted
<1> HIDE DEF buffer
<1>6. Unframed(Sent(buffer, n)) = [len |-> n, chunk |-> data, rest |-> <<>>]
  BY <1>1, <1>3, ChunkReadsBack
<1> QED
  BY <1>4, <1>5, <1>6

\* The two together, as the invariant of the run states them, for every bound.
THEOREM FramesReadBackCorrect == TextSpec => []FramesReadBack
<1> DEFINE Sized == given.what = "chunk" => given.size \in 0 .. MaxChunk /\ given.old \in Nat
<1>1. TextInit => Sized
  <2>1. given \in Given => Sized
    BY DEF Given
  <2>2. given = [what |-> "head"] => Sized
    OBVIOUS
  <2> QED
    BY <2>1, <2>2 DEF TextInit
<1>2. Sized /\ [TextNext]_<<vars, given>> => Sized'
  BY DEF TextNext
<1>3. Sized => FramesReadBack
  <2> SUFFICES ASSUME given.what = "chunk", given.size \in 0 .. MaxChunk, given.old \in Nat
               PROVE  FramesReadBack
    BY DEF FramesReadBack, DelimitersReadBack, ChunksAreShifted
  <2> DEFINE n == given.size
             buffer == SomeBytes(ExtraSpace + n)
             chunk == SomeBytes(n)
  <2>1. n \in Nat /\ n <= MaxLen /\ ExtraSpace + n \in Nat
    BY TextAssumption, ChunkAssumption DEF MaxLen, ExtraSpace
  <2>2. buffer \in Seq(Nat) /\ Len(buffer) = ExtraSpace + n
    BY <2>1, SomeBytesAre
  <2>3. Len(buffer) >= ExtraSpace + n
    BY <2>1, <2>2
  <2>4. chunk \in Seq(Nat) /\ Len(chunk) = n
    BY <2>1, SomeBytesAre
  <2> HIDE DEF buffer, chunk
  <2>5. Unframed(Sent(buffer, n)) =
          [len |-> n, chunk |-> SubSeq(buffer, DataOffset + 1, DataOffset + n), rest |-> <<>>]
    BY <2>1, <2>2, <2>3, ChunkReadsBack
  <2>6. DelimitersReadBack
    BY <2>5, Zenon DEF DelimitersReadBack, buffer
  <2>7. Unframed(Framed(given.old, chunk)) =
          [len |-> n, chunk |-> Shifted(given.old, chunk), rest |-> <<>>]
    BY <2>1, <2>4, WriterShiftsChunk
  <2>8. ChunksAreShifted
    BY <2>7, Zenon DEF ChunksAreShifted, chunk
  <2> QED
    BY <2>6, <2>8 DEF FramesReadBack
<1> QED
  BY <1>1, <1>2, <1>3, PTL DEF TextSpec
-----------------------------------------------------------------------------
(* The map of headers *)

Names  == Name \cup {ContentLength}
Values == Value \cup {EmptyValue}

LEMMA LineType ==
  ASSUME NEW line \in Line
  PROVE  line.value \in Values /\ (line.name # NoName => line.name \in Names)
BY DEF Line, Values, Names

\* The map is built line by line.
MapsLines(lines, headers) ==
  /\ headers[0] = [name \in Names |-> <<>>]
  /\ \A k \in 1 .. Len(lines) :
       headers[k] = [headers[k - 1] EXCEPT ![lines[k].name] = Combined(lines[k].name, @, lines[k].value)]

LEMMA CombinedType ==
  \A name : \A parts \in Seq(Values) : \A value \in Values : Combined(name, parts, value) \in Seq(Values)
BY DEF Combined

LEMMA HeadersAre ==
  ASSUME NEW lines \in Seq(Line), Accepts(lines)
  PROVE  \E headers : /\ MapsLines(lines, headers) /\ HeadersOf(lines) = headers[Len(lines)]
                      /\ \A k \in 0 .. Len(lines) : headers[k] \in [Names -> Seq(Values)]
<1> DEFINE n == Len(lines)
           S == [Names -> Seq(Values)]
           New(k, x) == [x EXCEPT ![lines[k].name] = Combined(lines[k].name, @, lines[k].value)]
           none == [name \in Names |-> <<>>]
           step == [k \in 1 .. n |-> [x \in S |-> New(k, x)]]
           Goes(f) == f = [k \in 0 .. n |-> IF k = 0 THEN none ELSE New(k, f[k - 1])]
           headers == CHOOSE f : Goes(f)
<1>1. n \in Nat
  OBVIOUS
<1>2. HeadersOf(lines) = headers[n]
  BY DEF HeadersOf, Names
<1>3. \A k \in 1 .. n : lines[k].name \in Names /\ lines[k].value \in Values
  BY LineType DEF Accepts
<1> HIDE DEF n
<1>4. \A k \in 1 .. n : \A x \in S : New(k, x) \in S
  BY <1>3, CombinedType
<1>5. none \in S
  OBVIOUS
<1> HIDE DEF S, New, none
<1>6. step \in [1 .. n -> [S -> S]]
  BY <1>4
<1>7. \A k \in 1 .. n : \A x \in S : step[k][x] = New(k, x)
  OBVIOUS
<1> HIDE DEF step
<1>8. Recurs(S, n, none, step)
  BY <1>1, <1>5, <1>6, RecursionExists
<1>9. PICK f \in [0 .. n -> S] : f[0] = none /\ \A k \in 1 .. n : f[k] = step[k][f[k - 1]]
  BY <1>8 DEF Recurs
<1>10. \A k \in 1 .. n : f[k - 1] \in S
  BY <1>1, <1>9
<1>11. Goes(f)
  BY <1>1, <1>7, <1>9, <1>10
<1>12. Goes(headers)
  <2> HIDE DEF Goes
  <2> QED
    BY <1>11, Zenon
<1> HIDE DEF headers
<1>13. headers[0] = none /\ \A k \in 1 .. n : headers[k] = New(k, headers[k - 1])
  BY <1>1, <1>12
<1> DEFINE T == {k \in 0 .. n : headers[k] \in S}
<1>14. T \in SUBSET (0 .. n) /\ 0 \in T
  BY <1>1, <1>5, <1>13
<1>15. ASSUME NEW k \in 0 .. n - 1, k \in T PROVE k + 1 \in T
  <2>1. k + 1 \in 1 .. n /\ (k + 1) - 1 = k
    BY <1>1
  <2> QED
    BY <1>4, <1>13, <1>15, <2>1
<1>16. \A k \in 0 .. n : k \in T
  <2> HIDE DEF T
  <2> QED
    BY <1>1, <1>14, <1>15, AllPlaces
<1>17. MapsLines(lines, headers)
  BY <1>13 DEF MapsLines, n, New, none
<1> QED
  BY <1>2, <1>16, <1>17 DEF n, S

\* The lines of a header among the first k, and those of them from the first that is not empty.
OwnLines(lines, k, name)  == {i \in 1 .. k : lines[i].name = name}
SentLines(lines, k, name) ==
  {i \in OwnLines(lines, k, name) :
     \E j \in OwnLines(lines, k, name) : j <= i /\ lines[j].value # EmptyValue}
KeptOf(lines, k, name) ==
  IF name # ContentLength /\ SentLines(lines, k, name) # {} THEN SentLines(lines, k, name)
  ELSE {i \in OwnLines(lines, k, name) : \A j \in OwnLines(lines, k, name) : j <= i}

\* The values of the kept lines, in their order.
HasValues(lines, kept, parts) ==
  /\ Len(parts) = Cardinality(kept)
  /\ \A i \in kept : parts[Cardinality({j \in kept : j <= i})] = lines[i].value

\* What is in the map for a header after k lines.
After(lines, k, name, parts) ==
  /\ parts \in Seq(Values)
  /\ parts # <<>> <=> OwnLines(lines, k, name) # {}
  /\ HasValues(lines, KeptOf(lines, k, name), parts)
  /\ name # ContentLength => (IsEmptyValue(parts) <=> SentLines(lines, k, name) = {})

LEMMA NoLines == ASSUME NEW lines, NEW name PROVE After(lines, 0, name, <<>>)
<1>1. /\ OwnLines(lines, 0, name) = {} /\ SentLines(lines, 0, name) = {}
      /\ KeptOf(lines, 0, name) = {}
  BY DEF OwnLines, SentLines, KeptOf
<1>2. HasValues(lines, {}, <<>>)
  BY FS_EmptySet DEF HasValues
<1>3. IsEmptyValue(<<>>)
  BY DEF IsEmptyValue
<1>4. <<>> \in Seq(Values)
  OBVIOUS
<1> QED
  BY <1>1, <1>2, <1>3, <1>4 DEF After

\* A line of another header.
LEMMA OtherLine ==
  ASSUME NEW lines \in Seq(Line), NEW k \in 0 .. Len(lines) - 1, NEW name, NEW parts,
         lines[k + 1].name # name, After(lines, k, name, parts)
  PROVE  After(lines, k + 1, name, parts)
<1>1. OwnLines(lines, k + 1, name) = OwnLines(lines, k, name)
  BY DEF OwnLines
<1>2. SentLines(lines, k + 1, name) = SentLines(lines, k, name)
  BY <1>1 DEF SentLines
<1>3. KeptOf(lines, k + 1, name) = KeptOf(lines, k, name)
  BY <1>1, <1>2 DEF KeptOf
<1> QED
  BY <1>1, <1>2, <1>3 DEF After

LEMMA OneLine ==
  ASSUME NEW lines, NEW i
  PROVE  i \in Nat => HasValues(lines, {i}, <<lines[i].value>>)
<1> SUFFICES ASSUME i \in Nat PROVE HasValues(lines, {i}, <<lines[i].value>>)
  OBVIOUS
<1>1. Cardinality({i}) = 1
  BY FS_Singleton
<1>2. {j \in {i} : j <= i} = {i}
  OBVIOUS
<1> QED
  BY <1>1, <1>2 DEF HasValues

\* One more line behind those that are kept.
LEMMA MoreLine ==
  ASSUME NEW lines \in Seq(Line), NEW k \in 0 .. Len(lines) - 1, NEW kept \in SUBSET (1 .. k),
         NEW parts \in Seq(Values), HasValues(lines, kept, parts)
  PROVE  HasValues(lines, kept \cup {k + 1}, Append(parts, lines[k + 1].value))
<1> DEFINE all   == kept \cup {k + 1}
           value == lines[k + 1].value
           longer == Append(parts, value)
           Upto(i) == {j \in kept : j <= i}
<1>1. k \in Nat /\ k + 1 \in Nat
  OBVIOUS
<1>2. IsFiniteSet(kept) /\ Cardinality(kept) \in Nat
  <2>1. IsFiniteSet(1 .. k)
    BY <1>1, FS_Interval
  <2> QED
    BY <2>1, FS_Subset, FS_CardinalityType
<1>3. Cardinality(all) = Cardinality(kept) + 1
  <2>1. k + 1 \notin kept
    BY <1>1
  <2> QED
    BY <1>2, <2>1, FS_AddElement
<1>4. Len(parts) = Cardinality(kept) /\ \A i \in kept : parts[Cardinality(Upto(i))] = lines[i].value
  BY DEF HasValues
<1>5. /\ Len(longer) = Len(parts) + 1 /\ longer[Len(parts) + 1] = value
      /\ \A i \in 1 .. Len(parts) : longer[i] = parts[i]
  BY AppendProperties
<1>6. ASSUME NEW i \in kept PROVE longer[Cardinality({j \in all : j <= i})] = lines[i].value
  <2>1. {j \in all : j <= i} = Upto(i)
    BY <1>1
  <2>2. Cardinality(Upto(i)) \in 1 .. Len(parts)
    <3>1. Upto(i) \subseteq kept /\ i \in Upto(i)
      OBVIOUS
    <3> DEFINE U == Upto(i)
    <3> HIDE DEF Upto
    <3>2. IsFiniteSet(U) /\ Cardinality(U) <= Cardinality(kept)
      BY <1>2, <3>1, FS_Subset
    <3>3. Cardinality(U) \in Nat /\ Cardinality(U) # 0
      BY <3>1, <3>2, FS_CardinalityType, FS_EmptySet
    <3> QED
      BY <1>2, <1>4, <3>2, <3>3
  <2> HIDE DEF Upto, longer
  <2> QED
    BY <1>4, <1>5, <2>1, <2>2
<1>7. longer[Cardinality({j \in all : j <= k + 1})] = lines[k + 1].value
  <2>1. {j \in all : j <= k + 1} = all
    <3>1. \A j \in kept : j <= k + 1
      BY <1>1
    <3>2. k + 1 <= k + 1
      BY <1>1
    <3> QED
      BY <3>1, <3>2
  <2> QED
    BY <1>3, <1>4, <1>5, <2>1
<1>8. Len(longer) = Cardinality(all)
  BY <1>3, <1>4, <1>5
<1> QED
  BY <1>6, <1>7, <1>8 DEF HasValues

\* A line of the header itself.
LEMMA OwnLine ==
  ASSUME NEW lines \in Seq(Line), NEW k \in 0 .. Len(lines) - 1, NEW parts,
         After(lines, k, lines[k + 1].name, parts)
  PROVE  After(lines, k + 1, lines[k + 1].name,
               Combined(lines[k + 1].name, parts, lines[k + 1].value))
<1> DEFINE name   == lines[k + 1].name
           value  == lines[k + 1].value
           own    == OwnLines(lines, k, name)
           sent   == SentLines(lines, k, name)
           longer == Append(parts, value)
<1>1. k \in Nat /\ k + 1 \in Nat /\ value \in Values /\ parts \in Seq(Values)
  <2>1. k + 1 \in 1 .. Len(lines)
    OBVIOUS
  <2> QED
    BY <2>1, LineType DEF After
<1>2. own \subseteq 1 .. k /\ sent \subseteq own
  BY DEF OwnLines, SentLines
<1>3. OwnLines(lines, k + 1, name) = own \cup {k + 1}
  BY <1>1 DEF OwnLines
<1>4. SentLines(lines, k + 1, name) =
        IF value # EmptyValue \/ sent # {} THEN sent \cup {k + 1} ELSE {}
  <2> HIDE DEF own
  <2>1. sent = {i \in own : \E j \in own : j <= i /\ lines[j].value # EmptyValue}
    BY DEF SentLines, own
  <2>2. SentLines(lines, k + 1, name) =
          {i \in own \cup {k + 1} : \E j \in own \cup {k + 1} : j <= i /\ lines[j].value # EmptyValue}
    BY <1>3 DEF SentLines
  <2>3. \A j \in own : j <= k + 1 /\ j < k + 1
    BY <1>1, <1>2
  <2> HIDE DEF sent
  <2>4. \A i \in own : i \in SentLines(lines, k + 1, name) <=> i \in sent
    <3>1. \A i \in own : ~(k + 1 <= i)
      BY <1>1, <1>2
    <3> QED
      BY <2>1, <2>2, <3>1
  <2>5. k + 1 \in SentLines(lines, k + 1, name) <=> value # EmptyValue \/ sent # {}
    <3>1. sent # {} <=> \E j \in own : lines[j].value # EmptyValue
      BY <1>2, <2>1
    <3> QED
      BY <1>1, <2>2, <2>3, <3>1
  <2>6. SentLines(lines, k + 1, name) \subseteq own \cup {k + 1}
    BY <2>2
  <2>7. sent \subseteq own
    BY <2>1
  <2> QED
    BY <2>4, <2>5, <2>6, <2>7
<1>5. CASE IsEmptyValue(parts) \/ name = ContentLength
  <2>1. Combined(name, parts, value) = <<value>>
    BY <1>5 DEF Combined
  <2>2. name = ContentLength \/ sent = {}
    BY <1>5 DEF After
  <2>3. KeptOf(lines, k + 1, name) = {k + 1}
    <3> HIDE DEF own, sent
    <3>1. {i \in own \cup {k + 1} : \A j \in own \cup {k + 1} : j <= i} = {k + 1}
      <4>1. \A j \in own : j <= k + 1 /\ ~(k + 1 <= j)
        BY <1>1, <1>2
      <4>2. k + 1 <= k + 1
        BY <1>1
      <4> QED
        BY <4>1, <4>2
    <3> QED
      BY <1>3, <1>4, <2>2, <3>1 DEF KeptOf
  <2>4. HasValues(lines, {k + 1}, <<value>>)
    BY <1>1, OneLine
  <2>5. <<value>> \in Seq(Values) /\ <<value>> # <<>>
    BY <1>1
  <2>6. name # ContentLength => (IsEmptyValue(<<value>>) <=> SentLines(lines, k + 1, name) = {})
    BY <1>4, <2>2 DEF IsEmptyValue
  <2> QED
    BY <1>3, <2>1, <2>3, <2>4, <2>5, <2>6 DEF After
<1>6. CASE ~(IsEmptyValue(parts) \/ name = ContentLength)
  <2>1. Combined(name, parts, value) = longer
    BY <1>6 DEF Combined
  <2>2. sent # {} /\ name # ContentLength
    BY <1>6 DEF After
  <2>3. KeptOf(lines, k, name) = sent /\ KeptOf(lines, k + 1, name) = sent \cup {k + 1}
    BY <1>4, <2>2 DEF KeptOf
  <2>4. HasValues(lines, sent, parts)
    BY <2>3 DEF After
  <2>5. HasValues(lines, sent \cup {k + 1}, longer)
    <3>1. sent \in SUBSET (1 .. k)
      BY <1>2
    <3> HIDE DEF sent
    <3> QED
      BY <1>1, <2>4, <3>1, MoreLine
  <2>6. longer \in Seq(Values) /\ longer # <<>> /\ ~ IsEmptyValue(longer)
    <3>1. Len(parts) >= 1
      BY <1>1, <1>6 DEF IsEmptyValue
    <3>2. longer \in Seq(Values) /\ Len(longer) = Len(parts) + 1
      BY <1>1, AppendProperties
    <3> QED
      BY <1>1, <3>1, <3>2 DEF IsEmptyValue
  <2>7. SentLines(lines, k + 1, name) # {}
    BY <1>4, <2>2
  <2> QED
    BY <1>3, <2>1, <2>3, <2>5, <2>6, <2>7 DEF After
<1> QED
  BY <1>5, <1>6

\* The header of every name has the values of its lines from the first that is not empty, in
\* their order, however many lines there are and whatever comes between them; content-length has
\* the last one: the loop of handle_headers().
THEOREM HeadersAreCombined ==
  ASSUME NEW lines \in Seq(Line), Accepts(lines)
  PROVE  AreCombined(lines)
<1> DEFINE n == Len(lines)
<1>1. PICK headers : /\ MapsLines(lines, headers) /\ HeadersOf(lines) = headers[n]
                     /\ \A k \in 0 .. n : headers[k] \in [Names -> Seq(Values)]
  BY HeadersAre
<1>2. n \in Nat /\ \A k \in 1 .. n : lines[k].name \in Names
  BY LineType DEF Accepts
<1> SUFFICES ASSUME NEW name \in Names
             PROVE  LET kept   == KeptLines(lines, name)
                        header == Match(HeadersOf(lines), name)
                    IN  /\ header.found <=> \E i \in 1 .. Len(lines) : lines[i].name = name
                        /\ Len(header.value) = Cardinality(kept)
                        /\ \A i \in kept :
                             header.value[Cardinality({j \in kept : j <= i})] = lines[i].value
  BY DEF AreCombined, Names
<1> DEFINE T == {k \in 0 .. n : After(lines, k, name, headers[k][name])}
<1>3. T \in SUBSET (0 .. n) /\ 0 \in T
  <2>1. headers[0][name] = <<>>
    BY <1>1 DEF MapsLines
  <2> QED
    BY <1>2, <2>1, NoLines
<1>4. ASSUME NEW k \in 0 .. n - 1, k \in T PROVE k + 1 \in T
  <2> DEFINE line == lines[k + 1]
  <2>1. k + 1 \in 1 .. n /\ (k + 1) - 1 = k /\ k \in 0 .. n
    BY <1>2
  <2>2. headers[k] \in [Names -> Seq(Values)] /\ line.name \in Names
    BY <1>1, <1>2, <2>1
  <2>3. headers[k + 1] = [headers[k] EXCEPT ![line.name] = Combined(line.name, @, line.value)]
    BY <1>1, <2>1 DEF MapsLines
  <2>4. After(lines, k, name, headers[k][name])
    BY <1>4
  <2>5. After(lines, k + 1, name, headers[k + 1][name])
    <3>1. CASE line.name = name
      <4>1. headers[k + 1][name] = Combined(line.name, headers[k][name], line.value)
        BY <2>2, <2>3, <3>1
      <4> QED
        BY <2>4, <3>1, <4>1, OwnLine
    <3>2. CASE line.name # name
      <4>1. headers[k + 1][name] = headers[k][name]
        BY <2>2, <2>3, <3>2
      <4> QED
        BY <2>4, <3>2, <4>1, OtherLine
    <3> QED
      BY <3>1, <3>2
  <2> QED
    BY <2>1, <2>5
<1>5. \A k \in 0 .. n : k \in T
  <2> HIDE DEF T
  <2> QED
    BY <1>2, <1>3, <1>4, AllPlaces
<1>6. After(lines, n, name, HeadersOf(lines)[name])
  BY <1>1, <1>2, <1>5
<1>7. KeptLines(lines, name) = KeptOf(lines, n, name)
  BY DEF KeptLines, KeptOf, SentLines, OwnLines
<1>8. OwnLines(lines, n, name) # {} <=> \E i \in 1 .. Len(lines) : lines[i].name = name
  BY DEF OwnLines
<1> QED
  BY <1>6, <1>7, <1>8 DEF After, HasValues, Match

\* The same for the header lines of the run, for every bound.
THEOREM HeadersCombineCorrect == TextSpec => []HeadersCombine
<1> DEFINE Typed == given.what = "lines" => given.lines \in Seq(Line)
<1>1. TextInit => Typed
  <2>1. given \in Given => Typed
    <3>1. \A lines \in SeqsUpTo(Line, MaxLines) : lines \in Seq(Line)
      BY TextAssumption DEF SeqsUpTo
    <3> QED
      BY <3>1 DEF Given
  <2>2. given = [what |-> "head"] => Typed
    OBVIOUS
  <2> QED
    BY <2>1, <2>2 DEF TextInit
<1>2. Typed /\ [TextNext]_<<vars, given>> => Typed'
  BY DEF TextNext
<1>3. Typed => HeadersCombine
  BY HeadersAreCombined DEF HeadersCombine
<1> QED
  BY <1>1, <1>2, <1>3, PTL DEF TextSpec
-----------------------------------------------------------------------------
(* The paths of a URL *)

\* The path is cut character by character.
CutOf(path) ==
  CHOOSE cut : cut = [i \in 0 .. Len(path) |->
                        CASE i = 0                     -> [segs |-> <<>>, str |-> <<>>]
                          [] i > 0 /\ path[i] = Slash  -> [segs |-> Pushed(cut[i - 1]), str |-> <<>>]
                          [] OTHER                     -> [cut[i - 1] EXCEPT !.str = Append(@, path[i])]]

Cut(C) == [segs : Seq(Seq(C)), str : Seq(C)]

LEMMA SplitIs ==
  ASSUME NEW url
  PROVE  SplitPath(url) = Pushed(CutOf(PathOf(url))[Len(PathOf(url))])
BY DEF SplitPath, CutOf

\* What one more character makes of what is cut.
Longer(cut, ch) ==
  IF ch = Slash THEN [segs |-> Pushed(cut), str |-> <<>>]
  ELSE [segs |-> cut.segs, str |-> Append(cut.str, ch)]

LEMMA PushedType == \A C : \A cut \in Cut(C) : Pushed(cut) \in Seq(Seq(C))
BY DEF Pushed, Cut

LEMMA LongerType ==
  ASSUME NEW C, NEW cut \in Cut(C), NEW ch \in C
  PROVE  /\ Longer(cut, ch) \in Cut(C)
         /\ [cut EXCEPT !.str = Append(@, ch)] = [segs |-> cut.segs, str |-> Append(cut.str, ch)]
<1>1. Longer(cut, ch) \in Cut(C)
  <2>1. Pushed(cut) \in Seq(Seq(C))
    BY PushedType
  <2>2. cut.segs \in Seq(Seq(C)) /\ cut.str \in Seq(C) /\ Append(cut.str, ch) \in Seq(C)
    BY DEF Cut
  <2> QED
    BY <2>1, <2>2 DEF Longer, Cut
<1>2. [cut EXCEPT !.str = Append(@, ch)] = [segs |-> cut.segs, str |-> Append(cut.str, ch)]
  <2> DEFINE A == Seq(Seq(C))
             B == Seq(C)
             longer == Append(cut.str, ch)
  <2>1. cut \in [segs : A, str : B]
    BY DEF Cut
  <2> HIDE DEF A, B, longer
  <2>2. [cut EXCEPT !.str = longer] = [segs |-> cut.segs, str |-> longer]
    BY <2>1
  <2> QED
    BY <2>2 DEF longer
<1> QED
  BY <1>1, <1>2

LEMMA CutIs ==
  ASSUME NEW C, NEW path \in Seq(C)
  PROVE  /\ CutOf(path)[0] = [segs |-> <<>>, str |-> <<>>]
         /\ \A k \in 1 .. Len(path) : CutOf(path)[k] = Longer(CutOf(path)[k - 1], path[k])
         /\ \A k \in 0 .. Len(path) : CutOf(path)[k] \in Cut(C)
<1> DEFINE n    == Len(path)
           S    == Cut(C)
           none == [segs |-> <<>>, str |-> <<>>]
           step == [k \in 1 .. n |-> [x \in S |-> Longer(x, path[k])]]
           Goes(f) == f = [i \in 0 .. n |->
                             CASE i = 0                     -> none
                               [] i > 0 /\ path[i] = Slash  -> [segs |-> Pushed(f[i - 1]), str |-> <<>>]
                               [] OTHER                     -> [f[i - 1] EXCEPT !.str = Append(@, path[i])]]
           cut == CutOf(path)
<1>1. n \in Nat /\ \A k \in 1 .. n : path[k] \in C
  OBVIOUS
<1>2. \A k \in 1 .. n : \A x \in S : /\ Longer(x, path[k]) \in S
                                     /\ [x EXCEPT !.str = Append(@, path[k])]
                                          = [segs |-> x.segs, str |-> Append(x.str, path[k])]
  BY <1>1, LongerType
<1>3. none \in S
  BY DEF Cut
<1>4. cut = CHOOSE f : Goes(f)
  BY DEF CutOf
<1> HIDE DEF n, S, none
<1>5. step \in [1 .. n -> [S -> S]] /\ \A k \in 1 .. n : \A x \in S : step[k][x] = Longer(x, path[k])
  BY <1>2
<1> HIDE DEF step
<1>6. Recurs(S, n, none, step)
  BY <1>1, <1>3, <1>5, RecursionExists
<1>7. PICK f \in [0 .. n -> S] : f[0] = none /\ \A k \in 1 .. n : f[k] = step[k][f[k - 1]]
  BY <1>6 DEF Recurs
<1>8. \A k \in 1 .. n : f[k - 1] \in S /\ f[k] = Longer(f[k - 1], path[k])
  BY <1>1, <1>5, <1>7
<1>9. Goes(f)
  <2> DEFINE F == [i \in 0 .. n |->
                     CASE i = 0                     -> none
                       [] i > 0 /\ path[i] = Slash  -> [segs |-> Pushed(f[i - 1]), str |-> <<>>]
                       [] OTHER                     -> [f[i - 1] EXCEPT !.str = Append(@, path[i])]]
  <2>1. ASSUME NEW i \in 0 .. n PROVE F[i] = f[i]
    <3> DEFINE x == f[i - 1]
               ch == path[i]
               slash == [segs |-> Pushed(x), str |-> <<>>]
               other == [x EXCEPT !.str = Append(@, ch)]
    <3>1. F[i] = CASE i = 0              -> none
                   [] i > 0 /\ ch = Slash -> slash
                   [] OTHER              -> other
      BY Zenon
    <3>2. i \in 1 .. n => x \in S /\ other = [segs |-> x.segs, str |-> Append(x.str, ch)]
      BY <1>2, <1>8
    <3>3. i \in 1 .. n => f[i] = Longer(x, ch)
      BY <1>8
    <3> HIDE DEF x, ch, slash, other, F
    <3>4. i = 0 => F[i] = none
      BY <3>1
    <3>5. i \in 1 .. n /\ ch = Slash => F[i] = slash
      BY <3>1
    <3>6. i \in 1 .. n /\ ch # Slash => F[i] = other
      BY <3>1
    <3>7. i = 0 \/ i \in 1 .. n
      BY <1>1
    <3> QED
      BY <1>7, <3>2, <3>3, <3>4, <3>5, <3>6, <3>7 DEF Longer, slash
  <2> QED
    BY <1>7, <2>1
<1>10. Goes(cut)
  <2> HIDE DEF Goes
  <2> QED
    BY <1>4, <1>9, Zenon
<1> HIDE DEF cut
<1>11. cut[0] = none
  BY <1>1, <1>10
<1>12. \A k \in 1 .. n : cut[k - 1] \in S => cut[k] = Longer(cut[k - 1], path[k])
  <2> SUFFICES ASSUME NEW k \in 1 .. n, cut[k - 1] \in S
               PROVE  cut[k] = Longer(cut[k - 1], path[k])
    OBVIOUS
  <2> DEFINE x == cut[k - 1]
             ch == path[k]
             slash == [segs |-> Pushed(x), str |-> <<>>]
             other == [x EXCEPT !.str = Append(@, ch)]
  <2>1. k \in 0 .. n /\ k # 0 /\ k > 0
    BY <1>1
  <2>2. cut[k] = CASE k = 0              -> none
                   [] k > 0 /\ ch = Slash -> slash
                   [] OTHER              -> other
    BY <1>10, <2>1, Zenon
  <2>3. other = [segs |-> x.segs, str |-> Append(x.str, ch)]
    BY <1>2
  <2> HIDE DEF x, ch, slash, other
  <2>4. ch = Slash => cut[k] = slash
    BY <2>1, <2>2
  <2>5. ch # Slash => cut[k] = other
    BY <2>1, <2>2
  <2> QED
    BY <2>3, <2>4, <2>5 DEF Longer, x, ch, slash, other
<1> DEFINE T == {k \in 0 .. n : cut[k] \in S}
<1>13. T \in SUBSET (0 .. n) /\ 0 \in T
  BY <1>1, <1>3, <1>11
<1>14. ASSUME NEW k \in 0 .. n - 1, k \in T PROVE k + 1 \in T
  <2>1. k + 1 \in 1 .. n /\ (k + 1) - 1 = k
    BY <1>1
  <2>2. cut[k] \in S
    BY <1>14
  <2>3. cut[k + 1] = Longer(cut[k], path[k + 1])
    BY <1>12, <2>1, <2>2
  <2>4. cut[k + 1] \in S
    BY <1>2, <2>1, <2>2, <2>3
  <2>5. k + 1 \in 0 .. n
    BY <1>1
  <2> QED
    BY <2>4, <2>5
<1>15. \A k \in 0 .. n : k \in T
  <2> HIDE DEF T
  <2> QED
    BY <1>1, <1>13, <1>14, AllPlaces
<1>16. \A k \in 1 .. n : cut[k] = Longer(cut[k - 1], path[k])
  <2>1. \A k \in 1 .. n : k - 1 \in 0 .. n
    BY <1>1
  <2> QED
    BY <1>12, <1>15, <2>1
<1> QED
  BY <1>11, <1>15, <1>16 DEF n, S, none, cut

\* The segments joined again, each behind a slash.
JoinOf(segs) ==
  CHOOSE path : path = [n \in 0 .. Len(segs) |->
                          IF n = 0 THEN <<>> ELSE path[n - 1] \o <<Slash>> \o segs[n]]

LEMMA JoinIs ==
  ASSUME NEW C, Slash \in C, NEW segs \in Seq(Seq(C))
  PROVE  /\ JoinOf(segs)[0] = <<>>
         /\ \A k \in 1 .. Len(segs) : JoinOf(segs)[k] = JoinOf(segs)[k - 1] \o <<Slash>> \o segs[k]
         /\ \A k \in 0 .. Len(segs) : JoinOf(segs)[k] \in Seq(C)
<1> DEFINE n    == Len(segs)
           S    == Seq(C)
           New(k, x) == x \o <<Slash>> \o segs[k]
           step == [k \in 1 .. n |-> [x \in S |-> New(k, x)]]
           Goes(f) == f = [i \in 0 .. n |-> IF i = 0 THEN <<>> ELSE New(i, f[i - 1])]
           join == JoinOf(segs)
<1>1. n \in Nat
  OBVIOUS
<1>2. \A k \in 1 .. n : \A x \in S : New(k, x) \in S
  BY ConcatProperties
<1>3. <<>> \in S
  OBVIOUS
<1>4. join = CHOOSE f : Goes(f)
  BY DEF JoinOf
<1> HIDE DEF n, S, New
<1>5. step \in [1 .. n -> [S -> S]] /\ \A k \in 1 .. n : \A x \in S : step[k][x] = New(k, x)
  BY <1>2
<1> HIDE DEF step
<1>6. Recurs(S, n, <<>>, step)
  BY <1>1, <1>3, <1>5, RecursionExists
<1>7. PICK f \in [0 .. n -> S] : f[0] = <<>> /\ \A k \in 1 .. n : f[k] = step[k][f[k - 1]]
  BY <1>6 DEF Recurs
<1>8. \A k \in 1 .. n : f[k - 1] \in S /\ f[k] = New(k, f[k - 1])
  BY <1>1, <1>5, <1>7
<1>9. Goes(f)
  BY <1>1, <1>7, <1>8
<1>10. Goes(join)
  <2> HIDE DEF Goes
  <2> QED
    BY <1>4, <1>9, Zenon
<1> HIDE DEF join
<1>11. join[0] = <<>> /\ \A k \in 1 .. n : join[k] = New(k, join[k - 1])
  BY <1>1, <1>10
<1> DEFINE T == {k \in 0 .. n : join[k] \in S}
<1>12. T \in SUBSET (0 .. n) /\ 0 \in T
  BY <1>1, <1>3, <1>11
<1>13. ASSUME NEW k \in 0 .. n - 1, k \in T PROVE k + 1 \in T
  <2>1. k + 1 \in 1 .. n /\ (k + 1) - 1 = k
    BY <1>1
  <2>2. join[k] \in S
    BY <1>13
  <2> QED
    BY <1>2, <1>11, <2>1, <2>2
<1>14. \A k \in 0 .. n : k \in T
  <2> HIDE DEF T
  <2> QED
    BY <1>1, <1>12, <1>13, AllPlaces
<1> QED
  BY <1>11, <1>14 DEF n, S, New, join

\* A segment more makes no difference to what the others are joined to.
LEMMA JoinMore ==
  ASSUME NEW C, Slash \in C, NEW segs \in Seq(Seq(C)), NEW str \in Seq(C)
  PROVE  /\ \A k \in 0 .. Len(segs) : JoinOf(Append(segs, str))[k] = JoinOf(segs)[k]
         /\ JoinOf(Append(segs, str))[Len(segs) + 1] = JoinOf(segs)[Len(segs)] \o <<Slash>> \o str
<1> DEFINE n    == Len(segs)
           more == Append(segs, str)
           old  == JoinOf(segs)
           new  == JoinOf(more)
<1>1. /\ more \in Seq(Seq(C)) /\ Len(more) = n + 1 /\ more[n + 1] = str /\ n \in Nat
      /\ \A k \in 1 .. n : more[k] = segs[k]
  BY AppendProperties
<1>2. old[0] = <<>> /\ \A k \in 1 .. n : old[k] = old[k - 1] \o <<Slash>> \o segs[k]
  BY JoinIs
<1> HIDE DEF more
<1>3. new[0] = <<>> /\ \A k \in 1 .. n + 1 : new[k] = new[k - 1] \o <<Slash>> \o more[k]
  BY <1>1, JoinIs
<1> HIDE DEF n, old, new
<1> DEFINE T == {k \in 0 .. n : new[k] = old[k]}
<1>4. T \in SUBSET (0 .. n) /\ 0 \in T
  BY <1>1, <1>2, <1>3
<1>5. ASSUME NEW k \in 0 .. n - 1, k \in T PROVE k + 1 \in T
  <2>1. k + 1 \in 1 .. n /\ k + 1 \in 1 .. n + 1 /\ (k + 1) - 1 = k /\ k + 1 \in 0 .. n
    BY <1>1
  <2>2. old[k + 1] = old[k] \o <<Slash>> \o segs[k + 1] /\ new[k + 1] = new[k] \o <<Slash>> \o more[k + 1]
    BY <1>2, <1>3, <2>1
  <2> QED
    BY <1>1, <1>5, <2>1, <2>2
<1>6. \A k \in 0 .. n : k \in T
  <2> HIDE DEF T
  <2> QED
    BY <1>1, <1>4, <1>5, AllPlaces
<1>7. new[n + 1] = old[n] \o <<Slash>> \o str
  <2>1. n + 1 \in 1 .. n + 1 /\ (n + 1) - 1 = n /\ n \in 0 .. n
    BY <1>1
  <2>2. new[n + 1] = new[n] \o <<Slash>> \o more[n + 1]
    BY <1>3, <2>1
  <2> QED
    BY <1>1, <1>6, <2>1, <2>2
<1> QED
  BY <1>6, <1>7 DEF n, old, new, more
\* The first place of a character.
LEMMA FirstIs ==
  ASSUME NEW C, NEW text \in Seq(C), NEW ch, NEW from \in Nat, NEW k \in from .. Len(text),
         text[k] = ch, \A j \in from .. k - 1 : text[j] # ch
  PROVE  FirstOf(ch, text, from) = k
<1> DEFINE at == {i \in from .. Len(text) : text[i] = ch}
<1>1. k \in at
  OBVIOUS
<1>2. \A j \in at : k <= j
  <2>1. \A j \in from .. Len(text) : ~(k <= j) => j \in from .. k - 1
    OBVIOUS
  <2> QED
    BY <2>1
<1>3. \A i \in at : (\A j \in at : i <= j) => i = k
  BY <1>1, <1>2
<1>4. FirstOf(ch, text, from) = IF at = {} THEN 0 ELSE CHOOSE i \in at : \A j \in at : i <= j
  BY DEF FirstOf
<1> HIDE DEF at
<1>5. (CHOOSE i \in at : \A j \in at : i <= j) = k
  BY <1>1, <1>2, <1>3
<1> QED
  BY <1>1, <1>4, <1>5

LEMMA FirstNone ==
  ASSUME NEW text, NEW ch, NEW from, \A j \in from .. Len(text) : text[j] # ch
  PROVE  FirstOf(ch, text, from) = 0
BY DEF FirstOf

\* A path behind its first slash.
Behind(path) == SubSeq(path, 2, Len(path))

LEMMA BehindIs ==
  ASSUME NEW C, NEW path \in Seq(C), path # <<>>
  PROVE  /\ Behind(path) \in Seq(C) /\ Len(Behind(path)) = Len(path) - 1
         /\ \A i \in 1 .. Len(path) - 1 : Behind(path)[i] = path[i + 1]
<1> DEFINE l == Len(path) - 1
<1>1. l \in Nat /\ 1 + 1 = 2 /\ 1 + l = Len(path)
  BY EmptySeq
<1>2. \A i \in 1 .. l : path[1 + i] \in C /\ 1 + i = i + 1
  BY <1>1
<1> HIDE DEF l
<1>3. PieceIs(C, path, 1, l)
  BY <1>1, <1>2, Piece
<1> QED
  BY <1>1, <1>2, <1>3 DEF PieceIs, Behind, l

\* The characters of a URL; a path is not empty, and slash is its first character.
UrlChars(C) == {Slash, Colon, "a", "b"} \subseteq C
IsPath(C, path) ==
  /\ path \in Seq(C) /\ path # <<>> /\ path[1] = Slash
  /\ \A i \in 1 .. Len(path) : path[i] # Colon

\* Behind a scheme and a host the whole path is found.
LEMMA PathOfUrl ==
  ASSUME NEW C, UrlChars(C), NEW path, IsPath(C, path)
  PROVE  PathOf(<<"a", Colon, Slash, Slash, "b">> \o path) = Behind(path)
<1> DEFINE front == <<"a", Colon, Slash, Slash, "b">>
           url   == front \o path
           l     == Len(path)
<1>1. front \in Seq(C) /\ Len(front) = 5
  BY DEF UrlChars
<1>2. path \in Seq(C) /\ path[1] = Slash /\ l \in Nat /\ l >= 1
  BY EmptySeq DEF IsPath
<1>3. /\ url \in Seq(C) /\ Len(url) = 5 + l
      /\ \A i \in 1 .. 5 + l : url[i] = IF i <= 5 THEN front[i] ELSE path[i - 5]
  BY <1>1, <1>2, ConcatProperties
<1>4. front[1] = "a" /\ front[2] = Colon /\ front[3] = Slash /\ front[4] = Slash /\ front[5] = "b"
  OBVIOUS
<1> HIDE DEF front, url, l
<1>5. /\ url[1] = "a" /\ url[2] = Colon /\ url[3] = Slash /\ url[4] = Slash /\ url[5] = "b"
      /\ url[6] = Slash
  BY <1>2, <1>3, <1>4
<1>6. FirstOf(Colon, url, 1) = 2
  <2>1. \A j \in 1 .. 2 - 1 : url[j] # Colon
    BY <1>5 DEF Colon
  <2>2. 2 \in 1 .. Len(url)
    BY <1>2, <1>3
  <2> QED
    BY <1>3, <1>5, <2>1, <2>2, FirstIs
<1>7. FirstOf(Slash, url, 2 + 3) = 6
  <2>1. \A j \in 5 .. 6 - 1 : url[j] # Slash
    BY <1>5 DEF Slash
  <2>2. 6 \in 5 .. Len(url)
    BY <1>2, <1>3
  <2>3. FirstOf(Slash, url, 5) = 6
    BY <1>3, <1>5, <2>1, <2>2, FirstIs
  <2> QED
    BY <2>3
<1>8. PathOf(url) = SubSeq(url, 7, Len(url))
  <2>1. 2 + 2 <= Len(url) /\ url[2 + 1] = Slash /\ url[2 + 2] = Slash /\ 6 + 1 = 7
    BY <1>2, <1>3, <1>5
  <2> QED
    BY <1>6, <1>7, <2>1 DEF PathOf
<1>9. SubSeq(url, 7, Len(url)) = Behind(path)
  <2> DEFINE m == l - 1
             F == SubSeq(url, 7, Len(url))
             B == Behind(path)
  <2>1. m \in Nat /\ 6 + 1 = 7 /\ 6 + m = Len(url) /\ \A i \in 1 .. m : url[6 + i] = path[i + 1]
    <3>1. \A i \in 1 .. m : 6 + i \in 1 .. 5 + l /\ ~(6 + i <= 5) /\ (6 + i) - 5 = i + 1
      BY <1>2
    <3> QED
      BY <1>2, <1>3, <3>1
  <2>2. \A i \in 1 .. m : url[6 + i] \in C
    BY <1>2, <2>1 DEF l
  <2>3. B \in Seq(C) /\ Len(B) = m /\ \A i \in 1 .. m : B[i] = path[i + 1]
    BY <1>2, BehindIs DEF IsPath, l
  <2> HIDE DEF m, B
  <2>4. PieceIs(C, url, 6, m)
    BY <2>1, <2>2, Piece
  <2>5. F \in Seq(C) /\ Len(F) = m /\ \A i \in 1 .. m : F[i] = path[i + 1]
    BY <2>1, <2>4 DEF PieceIs
  <2> HIDE DEF F
  <2>6. Len(F) = Len(B) /\ \A i \in 1 .. Len(F) : F[i] = B[i]
    BY <2>3, <2>5
  <2>7. F = B
    BY <2>3, <2>5, <2>6, SeqEqual
  <2> QED
    BY <2>7 DEF F, B
<1> QED
  BY <1>8, <1>9 DEF url, front

\* The paths asked for when these segments are found.
AskedOf(segs) == [k \in 1 .. Len(segs) + 1 |-> Append(JoinOf(segs)[Len(segs) + 1 - k], Slash)]

LEMMA AskedIs == ASSUME NEW url PROVE AskedPaths(url) = AskedOf(SplitPath(url))
BY DEF AskedPaths, AskedOf, JoinOf

\* The longest path is asked for first.
LEMMA LongestFirst ==
  ASSUME NEW C, Slash \in C, NEW segs \in Seq(Seq(C))
  PROVE  \A i \in 1 .. Len(AskedOf(segs)) - 1 : Len(AskedOf(segs)[i]) > Len(AskedOf(segs)[i + 1])
<1> DEFINE n    == Len(segs)
           join == JoinOf(segs)
           asked == AskedOf(segs)
<1>1. n \in Nat /\ \A k \in 1 .. n : segs[k] \in Seq(C)
  OBVIOUS
<1>2. /\ \A k \in 1 .. n : join[k] = join[k - 1] \o <<Slash>> \o segs[k]
      /\ \A k \in 0 .. n : join[k] \in Seq(C)
  BY JoinIs
<1>3. asked = [k \in 1 .. n + 1 |-> Append(join[n + 1 - k], Slash)]
  BY DEF AskedOf
<1> HIDE DEF n, join, asked
<1>4. \A k \in 0 .. n : Len(Append(join[k], Slash)) = Len(join[k]) + 1
  BY <1>2
<1>5. ASSUME NEW k \in 1 .. n PROVE Len(join[k]) > Len(join[k - 1])
  <2> DEFINE front == join[k - 1]
             seg   == segs[k]
  <2>1. k - 1 \in 0 .. n
    BY <1>1
  <2>2. front \in Seq(C) /\ seg \in Seq(C) /\ join[k] = front \o <<Slash>> \o seg
    BY <1>1, <1>2, <2>1
  <2> HIDE DEF front, seg
  <2>3. front \o <<Slash>> \in Seq(C) /\ Len(front \o <<Slash>>) = Len(front) + 1
    BY <2>2
  <2>4. Len(join[k]) = Len(front) + 1 + Len(seg)
    BY <2>2, <2>3, ConcatProperties
  <2>5. Len(front) \in Nat /\ Len(seg) \in Nat
    BY <2>2
  <2>6. Len(join[k]) > Len(front)
    BY <2>4, <2>5
  <2> QED
    BY <2>6 DEF front
<1>6. Len(asked) = n + 1
  BY <1>1, <1>3
<1>7. ASSUME NEW i \in 1 .. n PROVE Len(asked[i]) > Len(asked[i + 1])
  <2> DEFINE k == n + 1 - i
  <2>1. k \in 1 .. n /\ k \in 0 .. n /\ k - 1 \in 0 .. n /\ n + 1 - (i + 1) = k - 1
        /\ i \in 1 .. n + 1 /\ i + 1 \in 1 .. n + 1
    BY <1>1
  <2>2. asked[i] = Append(join[k], Slash) /\ asked[i + 1] = Append(join[k - 1], Slash)
    BY <1>3, <2>1
  <2> HIDE DEF k
  <2>3. Len(asked[i]) = Len(join[k]) + 1 /\ Len(asked[i + 1]) = Len(join[k - 1]) + 1
    BY <1>4, <2>1, <2>2
  <2>4. Len(join[k]) \in Nat /\ Len(join[k - 1]) \in Nat
    BY <1>2, <2>1
  <2> QED
    BY <1>5, <2>1, <2>3, <2>4
<1> QED
  BY <1>1, <1>6, <1>7 DEF asked, n
\* The paths that are asked for, as a set.
AskedSet(segs) == {Append(JoinOf(segs)[k], Slash) : k \in 0 .. Len(segs)}

LEMMA AskedAre == ASSUME NEW C, NEW segs \in Seq(C) PROVE ToSet(AskedOf(segs)) = AskedSet(segs)
<1> DEFINE n     == Len(segs)
           asked == AskedOf(segs)
           Path(k) == Append(JoinOf(segs)[k], Slash)
<1>1. n \in Nat
  OBVIOUS
<1>2. asked = [k \in 1 .. n + 1 |-> Path(n + 1 - k)]
  BY DEF AskedOf
<1>3. AskedSet(segs) = {Path(k) : k \in 0 .. n}
  BY DEF AskedSet
<1>4. ToSet(asked) = {asked[i] : i \in DOMAIN asked}
  BY DEF ToSet
<1> HIDE DEF n, asked, Path
<1>5. ToSet(asked) = {Path(n + 1 - k) : k \in 1 .. n + 1}
  BY <1>2, <1>4
<1>6. \A k \in 1 .. n + 1 : n + 1 - k \in 0 .. n
  BY <1>1
<1>7. \A k \in 0 .. n : n + 1 - k \in 1 .. n + 1 /\ n + 1 - (n + 1 - k) = k
  BY <1>1
<1>8. {Path(n + 1 - k) : k \in 1 .. n + 1} = {Path(k) : k \in 0 .. n}
  BY <1>6, <1>7
<1> QED
  BY <1>3, <1>5, <1>8 DEF asked

LEMMA AskedMore ==
  ASSUME NEW C, Slash \in C, NEW segs \in Seq(Seq(C)), NEW str \in Seq(C)
  PROVE  AskedSet(Append(segs, str)) =
           AskedSet(segs) \cup {Append(JoinOf(segs)[Len(segs)] \o <<Slash>> \o str, Slash)}
<1> DEFINE n    == Len(segs)
           more == Append(segs, str)
           old  == JoinOf(segs)
           new  == JoinOf(more)
           last == old[n] \o <<Slash>> \o str
<1>1. n \in Nat /\ Len(more) = n + 1
  OBVIOUS
<1>2. (\A k \in 0 .. n : new[k] = old[k]) /\ new[n + 1] = last
  BY JoinMore
<1>3. /\ AskedSet(more) = {Append(new[k], Slash) : k \in 0 .. n + 1}
      /\ AskedSet(segs) = {Append(old[k], Slash) : k \in 0 .. n}
  BY <1>1 DEF AskedSet
<1> HIDE DEF n, more, old, new, last
<1>4. 0 .. n + 1 = (0 .. n) \cup {n + 1}
  BY <1>1
<1>5. AskedSet(more) = {Append(new[k], Slash) : k \in 0 .. n} \cup {Append(new[n + 1], Slash)}
  BY <1>3, <1>4
<1>6. {Append(new[k], Slash) : k \in 0 .. n} = {Append(old[k], Slash) : k \in 0 .. n}
  BY <1>2
<1> QED
  BY <1>2, <1>3, <1>5, <1>6 DEF more, last, old, n

\* The beginnings of a path that end with a slash, up to the place m.
SlashPrefixes(path, m) == {SubSeq(path, 1, i) : i \in {j \in 1 .. m : path[j] = Slash}}

LEMMA PrefixMore ==
  ASSUME NEW path, NEW m \in Nat
  PROVE  SlashPrefixes(path, m + 1) =
           IF path[m + 1] = Slash THEN SlashPrefixes(path, m) \cup {SubSeq(path, 1, m + 1)}
           ELSE SlashPrefixes(path, m)
<1>1. 1 .. m + 1 = (1 .. m) \cup {m + 1}
  OBVIOUS
<1> QED
  BY <1>1 DEF SlashPrefixes

\* What is cut of the first m characters of a path, the first of which is the slash behind the
\* host: the segments and what follows them are the path, and what is asked for them leads to it.
Follows(path, m, cut) ==
  /\ cut.str = <<>> => /\ path[m] = Slash
                       /\ Append(JoinOf(cut.segs)[Len(cut.segs)], Slash) = SubSeq(path, 1, m)
  /\ cut.str # <<>> => /\ path[m] # Slash
                       /\ JoinOf(cut.segs)[Len(cut.segs)] \o <<Slash>> \o cut.str = SubSeq(path, 1, m)
  /\ AskedSet(cut.segs) = SlashPrefixes(path, m)

LEMMA FollowsFirst ==
  ASSUME NEW C, Slash \in C, NEW path \in Seq(C), path # <<>>, path[1] = Slash
  PROVE  Follows(path, 1, [segs |-> <<>>, str |-> <<>>])
<1>1. <<>> \in Seq(Seq(C)) /\ Len(<<>>) = 0
  OBVIOUS
<1>2. JoinOf(<<>>)[0] = <<>>
  BY <1>1, JoinIs
<1>3. Append(<<>>, Slash) = <<Slash>>
  OBVIOUS
<1>4. SubSeq(path, 1, 1) = <<Slash>>
  <2> DEFINE F == SubSeq(path, 1, 1)
  <2>1. Len(path) >= 1
    BY EmptySeq
  <2>2. F \in Seq(C) /\ Len(F) = 1 /\ F[1] = Slash
    <3>1. \A i \in 1 .. 1 : path[0 + i] \in C
      BY <2>1
    <3>2. PieceIs(C, path, 0, 1)
      BY <3>1, Piece
    <3>3. 0 + 1 = 1 /\ 1 \in 1 .. 1
      OBVIOUS
    <3> QED
      BY <3>2, <3>3 DEF PieceIs
  <2> HIDE DEF F
  <2>3. <<Slash>> \in Seq(C) /\ Len(<<Slash>>) = 1 /\ <<Slash>>[1] = Slash
    OBVIOUS
  <2>4. \A i \in 1 .. Len(F) : F[i] = <<Slash>>[i]
    BY <2>2, <2>3
  <2>5. F = <<Slash>>
    BY <2>2, <2>3, <2>4, SeqEqual
  <2> QED
    BY <2>5 DEF F
<1>5. AskedSet(<<>>) = {<<Slash>>}
  <2>1. AskedSet(<<>>) = {Append(JoinOf(<<>>)[k], Slash) : k \in 0 .. 0}
    BY <1>1 DEF AskedSet
  <2>2. \A k \in 0 .. 0 : Append(JoinOf(<<>>)[k], Slash) = <<Slash>>
    <3>1. \A k \in 0 .. 0 : k = 0
      OBVIOUS
    <3>2. Append(JoinOf(<<>>)[0], Slash) = <<Slash>>
      BY <1>2, <1>3
    <3> QED
      BY <3>1, <3>2, Zenon
  <2>3. 0 \in 0 .. 0
    OBVIOUS
  <2> QED
    BY <2>1, <2>2, <2>3
<1>6. SlashPrefixes(path, 1) = {<<Slash>>}
  <2>1. {j \in 1 .. 1 : path[j] = Slash} = {1}
    OBVIOUS
  <2> QED
    BY <1>4, <2>1 DEF SlashPrefixes
<1> QED
  BY <1>1, <1>2, <1>3, <1>4, <1>5, <1>6 DEF Follows

\* One more character.
LEMMA FollowsOn ==
  ASSUME NEW C, Slash \in C, NEW path \in Seq(C), NEW m \in 1 .. Len(path) - 1,
         ~ (path[m] = Slash /\ path[m + 1] = Slash),
         NEW cut \in Cut(C), Follows(path, m, cut)
  PROVE  Follows(path, m + 1, Longer(cut, path[m + 1]))
<1> DEFINE ch   == path[m + 1]
           segs == cut.segs
           str  == cut.str
           J    == JoinOf(segs)[Len(segs)]
           upto == SubSeq(path, 1, m)
<1>1. m \in Nat /\ m + 1 \in 1 .. Len(path) /\ ch \in C
  OBVIOUS
<1>2. segs \in Seq(Seq(C)) /\ str \in Seq(C)
  BY DEF Cut
<1>3. /\ str = <<>> => path[m] = Slash /\ Append(J, Slash) = upto
      /\ str # <<>> => J \o <<Slash>> \o str = upto
      /\ AskedSet(segs) = SlashPrefixes(path, m)
  BY DEF Follows
<1> HIDE DEF segs, str
<1>4. J \in Seq(C)
  <2>1. Len(segs) \in 0 .. Len(segs)
    BY <1>2
  <2> QED
    BY <1>2, <2>1, JoinIs
<1>5. upto \in Seq(C) /\ SubSeq(path, 1, m + 1) = Append(upto, ch) /\ Append(upto, ch) = upto \o <<ch>>
  <2>1. 1 \in 1 .. Len(path) /\ m + 1 \in 1 .. Len(path) /\ (m + 1) - 1 = m
    BY <1>1
  <2>2. SubSeq(path, 1, m + 1) = SubSeq(path, 1, m) \o <<ch>>
    BY <2>1, SubSeqRecursiveSecond
  <2>3. upto \in Seq(C)
    <3>1. \A i \in 1 .. m : path[i] \in C
      BY <1>1
    <3> QED
      BY <1>1, <3>1, SubSeqProperties
  <2> HIDE DEF upto
  <2>4. Append(upto, ch) = upto \o <<ch>>
    BY <1>1, <2>3, AppendIsConcat
  <2> QED
    BY <2>2, <2>3, <2>4 DEF upto
<1> HIDE DEF upto
<1>6. CASE ch # Slash
  <2> DEFINE longer == Append(str, ch)
             join   == JoinOf(segs)[Len(segs)] \o <<Slash>> \o longer
  <2>1. Longer(cut, ch) = [segs |-> segs, str |-> longer]
    BY <1>6 DEF Longer, segs, str
  <2>2. longer # <<>> /\ longer = str \o <<ch>>
    BY <1>1, <1>2, AppendProperties, AppendIsConcat
  <2>3. AskedSet(segs) = SlashPrefixes(path, m + 1)
    BY <1>1, <1>3, <1>6, PrefixMore
  <2>4. join = Append(upto, ch)
    <3> DEFINE front == J \o <<Slash>>
               one   == <<ch>>
    <3>1. front \in Seq(C) /\ front = Append(J, Slash)
      BY <1>4, AppendIsConcat
    <3>2. one \in Seq(C)
      BY <1>1
    <3>3. longer = str \o one /\ Append(upto, ch) = upto \o one /\ join = front \o longer
      BY <1>5, <2>2
    <3>4. (str = <<>> => front = upto) /\ (str # <<>> => front \o str = upto)
      BY <1>3, <3>1
    <3> HIDE DEF front, one, longer, ch, join
    <3>5. front \o str = upto
      BY <1>2, <3>1, <3>4, ConcatEmptySeq
    <3>6. (front \o str) \o one = front \o (str \o one)
      <4>1. front \in Seq(C) /\ str \in Seq(C) /\ one \in Seq(C)
        BY <1>2, <3>1, <3>2
      <4>2. Associates(front, str, one)
        BY <4>1, Associative
      <4> QED
        BY <4>2 DEF Associates
    <3> QED
      BY <3>3, <3>5, <3>6
  <2>5. join = SubSeq(path, 1, m + 1)
    BY <1>5, <2>4
  <2> DEFINE next == [segs |-> segs, str |-> longer]
  <2>6. next.segs = segs /\ next.str = longer
    OBVIOUS
  <2> HIDE DEF longer, next
  <2>7. Follows(path, m + 1, next)
    BY <1>6, <2>2, <2>3, <2>5, <2>6 DEF Follows
  <2> QED
    BY <2>1, <2>7 DEF next
<1>7. CASE ch = Slash
  <2> DEFINE more == Append(segs, str)
             next == [segs |-> more, str |-> <<>>]
  <2>1. str # <<>> /\ J \o <<Slash>> \o str = upto
    BY <1>3, <1>7
  <2>2. Longer(cut, ch) = next
    BY <1>7, <2>1 DEF Longer, Pushed, segs, str
  <2>3. Len(more) = Len(segs) + 1 /\ more \in Seq(Seq(C))
    BY <1>2, AppendProperties
  <2>4. /\ JoinOf(more)[Len(segs) + 1] = J \o <<Slash>> \o str
        /\ AskedSet(more) = AskedSet(segs) \cup {Append(J \o <<Slash>> \o str, Slash)}
    BY <1>2, JoinMore, AskedMore
  <2>5. next.segs = more /\ next.str = <<>>
    OBVIOUS
  <2> HIDE DEF more, next, J
  <2>6. JoinOf(more)[Len(more)] = upto /\ AskedSet(more) = AskedSet(segs) \cup {Append(upto, Slash)}
    BY <2>1, <2>3, <2>4
  <2>7. AskedSet(more) = SlashPrefixes(path, m + 1)
    BY <1>1, <1>3, <1>5, <1>7, <2>6, PrefixMore
  <2>8. Append(JoinOf(more)[Len(more)], Slash) = SubSeq(path, 1, m + 1)
    BY <1>5, <1>7, <2>6
  <2>9. Follows(path, m + 1, next)
    BY <1>7, <2>5, <2>7, <2>8 DEF Follows
  <2> QED
    BY <2>2, <2>9
<1> QED
  BY <1>6, <1>7

\* The segments of a path
Segments(path) == Pushed(CutOf(Behind(path))[Len(path) - 1])

LEMMA AskedSegments ==
  ASSUME NEW C, UrlChars(C), NEW path, IsPath(C, path)
  PROVE  Asked(path) = AskedOf(Segments(path)) /\ Segments(path) \in Seq(Seq(C))
<1>1. /\ Behind(path) \in Seq(C) /\ Len(Behind(path)) = Len(path) - 1
  BY BehindIs DEF IsPath
<1>2. Asked(path) = AskedOf(Segments(path))
  BY <1>1, PathOfUrl, AskedIs, SplitIs DEF Asked, Segments
<1>3. CutOf(Behind(path))[Len(path) - 1] \in Cut(C)
  BY <1>1, CutIs
<1> QED
  BY <1>2, <1>3, PushedType DEF Segments

\* With no slash behind a slash, what is asked for are the beginnings that end with a slash.
LEMMA AllThatLead ==
  ASSUME NEW C, UrlChars(C), NEW path, IsPath(C, path), DoubleSlashes(path) = {}
  PROVE  LET whole == IF Last(path) = Slash THEN path ELSE Append(path, Slash)
         IN  AskedSet(Segments(path)) = SlashPrefixes(whole, Len(whole))
<1> DEFINE n     == Len(path)
           last  == Last(path) = Slash
           whole == IF last THEN path ELSE Append(path, Slash)
           t     == Behind(path)
           cut   == CutOf(t)
<1>1. path \in Seq(C) /\ path # <<>> /\ path[1] = Slash /\ n \in Nat /\ n >= 1 /\ Slash \in C
  BY EmptySeq DEF IsPath, UrlChars
<1>2. /\ whole \in Seq(C) /\ Len(whole) = IF last THEN n ELSE n + 1
      /\ \A i \in 1 .. n : whole[i] = path[i]
      /\ ~last => whole[n + 1] = Slash
  BY <1>1, AppendProperties
<1>3. last <=> path[n] = Slash
  BY DEF Last
<1>4. \A i \in 1 .. n - 1 : ~ (path[i] = Slash /\ path[i + 1] = Slash)
  <2>1. \A i \in 1 .. n - 1 : i + 1 \in 2 .. n /\ (i + 1) - 1 = i
    BY <1>1
  <2>2. \A j \in 2 .. n : ~ (path[j] = Slash /\ path[j - 1] = Slash)
    BY DEF DoubleSlashes
  <2> QED
    BY <2>1, <2>2
<1>5. t \in Seq(C) /\ Len(t) = n - 1 /\ \A i \in 1 .. n - 1 : t[i] = path[i + 1]
  BY <1>1, BehindIs
<1>6. /\ cut[0] = [segs |-> <<>>, str |-> <<>>]
      /\ \A k \in 1 .. n - 1 : cut[k] = Longer(cut[k - 1], t[k])
      /\ \A k \in 0 .. n - 1 : cut[k] \in Cut(C)
  BY <1>5, CutIs
<1>7. Segments(path) = Pushed(cut[n - 1])
  BY DEF Segments
<1> HIDE DEF n, last, whole, t, cut
<1> DEFINE T == {k \in 0 .. n - 1 : Follows(whole, k + 1, cut[k])}
<1>8. T \in SUBSET (0 .. n - 1) /\ 0 \in T
  <2>1. whole[1] = Slash /\ whole # <<>>
    BY <1>1, <1>2
  <2>2. Follows(whole, 1, [segs |-> <<>>, str |-> <<>>])
    BY <1>1, <1>2, <2>1, FollowsFirst
  <2> QED
    BY <1>1, <1>6, <2>2
<1>9. ASSUME NEW k \in 0 .. (n - 1) - 1, k \in T PROVE k + 1 \in T
  <2>1. /\ k + 1 \in 1 .. n - 1 /\ (k + 1) - 1 = k /\ k \in 0 .. n - 1 /\ (k + 1) + 1 \in 1 .. n
        /\ k + 1 \in 1 .. n /\ k + 1 \in 0 .. n - 1 /\ k + 1 \in 1 .. Len(whole) - 1
    BY <1>1, <1>2
  <2>2. cut[k + 1] = Longer(cut[k], whole[(k + 1) + 1]) /\ cut[k] \in Cut(C)
    BY <1>2, <1>5, <1>6, <2>1
  <2>3. ~ (whole[k + 1] = Slash /\ whole[(k + 1) + 1] = Slash)
    BY <1>2, <1>4, <2>1
  <2>4. Follows(whole, k + 1, cut[k])
    BY <1>9
  <2>5. Follows(whole, (k + 1) + 1, cut[k + 1])
    BY <1>1, <1>2, <2>1, <2>2, <2>3, <2>4, FollowsOn
  <2> QED
    BY <2>1, <2>5
<1>10. Follows(whole, n, cut[n - 1])
  <2>1. n - 1 \in Nat /\ n - 1 \in 0 .. n - 1 /\ (n - 1) + 1 = n
    BY <1>1
  <2>2. \A k \in 0 .. n - 1 : k \in T
    <3> HIDE DEF T
    <3> QED
      BY <1>8, <1>9, <2>1, AllPlaces
  <2>3. Follows(whole, (n - 1) + 1, cut[n - 1])
    BY <2>1, <2>2
  <2> QED
    BY <2>1, <2>3
<1>11. whole[n] = path[n] /\ cut[n - 1] \in Cut(C)
  BY <1>1, <1>2, <1>6
<1>12. CASE last
  <2>1. cut[n - 1].str = <<>>
    BY <1>3, <1>10, <1>11, <1>12 DEF Follows
  <2>2. AskedSet(Segments(path)) = SlashPrefixes(whole, n)
    BY <1>7, <1>10, <2>1 DEF Follows, Pushed
  <2> QED
    BY <1>2, <1>12, <2>2 DEF whole, last
<1>13. CASE ~last
  <2>1. n \in 1 .. Len(whole) - 1 /\ whole[n] # Slash /\ whole[n + 1] = Slash
    BY <1>1, <1>2, <1>3, <1>11, <1>13
  <2>2. Follows(whole, n + 1, Longer(cut[n - 1], whole[n + 1]))
    BY <1>1, <1>2, <1>10, <1>11, <2>1, FollowsOn
  <2>3. Longer(cut[n - 1], whole[n + 1]).segs = Segments(path)
    BY <1>7, <2>1 DEF Longer
  <2>4. AskedSet(Segments(path)) = SlashPrefixes(whole, n + 1)
    BY <2>2, <2>3 DEF Follows
  <2> QED
    BY <1>2, <1>13, <2>4 DEF whole, last
<1> QED
  BY <1>12, <1>13
\* A slash behind a slash makes no segment.
LEMMA DoubleMakesNone ==
  ASSUME NEW C, UrlChars(C), NEW path, IsPath(C, path), NEW i \in DoubleSlashes(path)
  PROVE  /\ IsPath(C, RemoveAt(path, i))
         /\ Segments(RemoveAt(path, i)) = Segments(path)
<1> DEFINE n     == Len(path)
           front == SubSeq(path, 1, i - 1)
           back  == SubSeq(path, i + 1, n)
           short == RemoveAt(path, i)
           long  == CutOf(Behind(path))
           cut   == CutOf(Behind(short))
<1>1. /\ path \in Seq(C) /\ path # <<>> /\ path[1] = Slash /\ n \in Nat
      /\ \A j \in 1 .. n : path[j] # Colon /\ path[j] \in C
  BY DEF IsPath
<1>2. i \in 2 .. n /\ path[i] = Slash /\ path[i - 1] = Slash
  BY DEF DoubleSlashes
<1>3. short = front \o back
  BY DEF RemoveAt
<1>4. front \in Seq(C) /\ Len(front) = i - 1 /\ \A j \in 1 .. i - 1 : front[j] = path[j]
  <2> DEFINE l == i - 1
  <2>1. l \in Nat /\ 0 + 1 = 1 /\ 0 + l = l /\ \A j \in 1 .. l : 0 + j = j /\ path[0 + j] \in C
    BY <1>1, <1>2
  <2> HIDE DEF l
  <2>2. PieceIs(C, path, 0, l)
    BY <2>1, Piece
  <2> QED
    BY <2>1, <2>2 DEF PieceIs, l
<1>5. back \in Seq(C) /\ Len(back) = n - i /\ \A j \in 1 .. n - i : back[j] = path[i + j]
  <2> DEFINE l == n - i
  <2>1. l \in Nat /\ i \in Nat /\ i + l = n /\ \A j \in 1 .. l : path[i + j] \in C
    BY <1>1, <1>2
  <2> HIDE DEF l
  <2>2. PieceIs(C, path, i, l)
    BY <2>1, Piece
  <2> QED
    BY <2>1, <2>2 DEF PieceIs, l
<1> HIDE DEF front, back, short
<1>6. /\ short \in Seq(C) /\ Len(short) = n - 1
      /\ \A j \in 1 .. n - 1 : short[j] = IF j < i THEN path[j] ELSE path[j + 1]
  <2>1. /\ short \in Seq(C) /\ Len(short) = (i - 1) + (n - i)
        /\ \A j \in 1 .. (i - 1) + (n - i) :
             short[j] = IF j <= i - 1 THEN front[j] ELSE back[j - (i - 1)]
    BY <1>3, <1>4, <1>5, ConcatProperties
  <2>2. (i - 1) + (n - i) = n - 1
    BY <1>1, <1>2
  <2>3. ASSUME NEW j \in 1 .. n - 1 PROVE short[j] = IF j < i THEN path[j] ELSE path[j + 1]
    <3>1. short[j] = IF j <= i - 1 THEN front[j] ELSE back[j - (i - 1)]
      BY <2>1, <2>2
    <3>2. CASE j < i
      <4>1. j <= i - 1 /\ j \in 1 .. i - 1
        BY <1>2, <3>2
      <4> QED
        BY <1>4, <3>1, <3>2, <4>1
    <3>3. CASE ~(j < i)
      <4>1. ~(j <= i - 1) /\ j - (i - 1) \in 1 .. n - i /\ i + (j - (i - 1)) = j + 1
        BY <1>1, <1>2, <3>3
      <4> QED
        BY <1>5, <3>1, <3>3, <4>1
    <3> QED
      BY <3>2, <3>3
  <2> QED
    BY <2>1, <2>2, <2>3
<1>7. IsPath(C, short)
  <2>1. 1 \in 1 .. n - 1 /\ 1 < i
    BY <1>1, <1>2
  <2>2. short[1] = Slash /\ short # <<>>
    BY <1>1, <1>6, <2>1, EmptySeq
  <2>3. \A j \in 1 .. n - 1 : j \in 1 .. n /\ j + 1 \in 1 .. n
    BY <1>1
  <2>4. \A j \in 1 .. n - 1 : short[j] # Colon
    BY <1>1, <1>6, <2>3
  <2> QED
    BY <1>6, <2>2, <2>4 DEF IsPath
<1>8. /\ long[0] = [segs |-> <<>>, str |-> <<>>]
      /\ \A k \in 1 .. n - 1 : long[k] = Longer(long[k - 1], path[k + 1])
      /\ \A k \in 0 .. n - 1 : long[k] \in Cut(C)
  <2>1. Behind(path) \in Seq(C) /\ Len(Behind(path)) = n - 1
        /\ \A k \in 1 .. n - 1 : Behind(path)[k] = path[k + 1]
    BY <1>1, BehindIs
  <2> QED
    BY <2>1, CutIs
<1>9. /\ cut[0] = [segs |-> <<>>, str |-> <<>>]
      /\ \A k \in 1 .. n - 2 : cut[k] = Longer(cut[k - 1], short[k + 1])
  <2>1. Behind(short) \in Seq(C) /\ Len(Behind(short)) = (n - 1) - 1
        /\ \A k \in 1 .. (n - 1) - 1 : Behind(short)[k] = short[k + 1]
    BY <1>6, <1>7, BehindIs DEF IsPath
  <2>2. (n - 1) - 1 = n - 2
    BY <1>1
  <2> QED
    BY <2>1, <2>2, CutIs
<1>10. Segments(path) = Pushed(long[n - 1]) /\ Segments(short) = Pushed(cut[n - 2])
  <2>1. (n - 1) - 1 = n - 2
    BY <1>1
  <2> QED
    BY <1>6, <2>1 DEF Segments
<1> HIDE DEF n, long, cut
\* Before the second slash nothing differs.
<1>11. long[i - 2] = cut[i - 2]
  <2> DEFINE l == i - 2
             T == {k \in 0 .. l : long[k] = cut[k]}
  <2>1. T \in SUBSET (0 .. l) /\ 0 \in T /\ l \in Nat
    BY <1>2, <1>8, <1>9
  <2>2. ASSUME NEW k \in 0 .. l - 1, k \in T PROVE k + 1 \in T
    <3>1. /\ k + 1 \in 1 .. n - 1 /\ k + 1 \in 1 .. n - 2 /\ (k + 1) - 1 = k
          /\ (k + 1) + 1 \in 1 .. n - 1 /\ (k + 1) + 1 < i /\ k + 1 \in 0 .. l
      BY <1>1, <1>2
    <3>2. short[(k + 1) + 1] = path[(k + 1) + 1]
      BY <1>6, <3>1
    <3>3. long[k + 1] = Longer(long[k], path[(k + 1) + 1]) /\ cut[k + 1] = Longer(cut[k], short[(k + 1) + 1])
      BY <1>8, <1>9, <3>1
    <3> QED
      BY <2>2, <3>1, <3>2, <3>3
  <2>3. \A k \in 0 .. l : k \in T
    <3> HIDE DEF T, l
    <3> QED
      BY <2>1, <2>2, AllPlaces
  <2>4. l \in 0 .. l
    BY <2>1
  <2> QED
    BY <2>3, <2>4
\* The second slash changes nothing.
<1>12. long[i - 1] = long[i - 2]
  <2>1. i - 2 \in 0 .. n - 1 /\ i - 1 \in 1 .. n - 1 /\ (i - 1) - 1 = i - 2 /\ (i - 1) + 1 = i
    BY <1>1, <1>2
  <2>2. long[i - 2].str = <<>>
    <3>1. CASE i = 2
      BY <1>8, <3>1
    <3>2. CASE i > 2
      <4>1. i - 2 \in 1 .. n - 1 /\ (i - 2) + 1 = i - 1
        BY <1>1, <1>2, <3>2
      <4>2. long[i - 2] = Longer(long[(i - 2) - 1], Slash)
        BY <1>2, <1>8, <4>1
      <4> QED
        BY <4>2 DEF Longer
    <3> QED
      BY <1>2, <3>1, <3>2
  <2> DEFINE x == long[i - 2]
  <2>3. long[i - 1] = Longer(x, Slash)
    BY <1>2, <1>8, <2>1
  <2>4. x \in Cut(C)
    BY <1>8, <2>1
  <2> HIDE DEF x
  <2>5. x = [segs |-> x.segs, str |-> x.str]
    BY <2>4 DEF Cut
  <2>6. x.str = <<>>
    BY <2>2 DEF x
  <2>7. Longer(x, Slash) = [segs |-> x.segs, str |-> <<>>]
    BY <2>6 DEF Longer, Pushed
  <2> QED
    BY <2>3, <2>5, <2>6, <2>7 DEF x
\* Behind it everything is one place later.
<1>13. long[n - 1] = cut[n - 2]
  <2> DEFINE l == n - i
             T == {k \in 0 .. l : long[(i - 1) + k] = cut[(i - 2) + k]}
  <2>1. T \in SUBSET (0 .. l) /\ 0 \in T /\ l \in Nat
    <3>1. (i - 1) + 0 = i - 1 /\ (i - 2) + 0 = i - 2 /\ l \in Nat
      BY <1>1, <1>2
    <3> QED
      BY <1>11, <1>12, <3>1
  <2>2. ASSUME NEW k \in 0 .. l - 1, k \in T PROVE k + 1 \in T
    <3> DEFINE a == (i - 1) + k
               b == (i - 2) + k
    <3>1. /\ a + 1 \in 1 .. n - 1 /\ b + 1 \in 1 .. n - 2 /\ (a + 1) - 1 = a /\ (b + 1) - 1 = b
          /\ (b + 1) + 1 \in 1 .. n - 1 /\ ~((b + 1) + 1 < i) /\ ((b + 1) + 1) + 1 = (a + 1) + 1
          /\ k + 1 \in 0 .. l /\ (i - 1) + (k + 1) = a + 1 /\ (i - 2) + (k + 1) = b + 1
      BY <1>1, <1>2
    <3>2. long[a] = cut[b]
      BY <2>2
    <3> HIDE DEF a, b
    <3>3. short[(b + 1) + 1] = path[(a + 1) + 1]
      BY <1>6, <3>1
    <3>4. long[a + 1] = Longer(long[a], path[(a + 1) + 1]) /\ cut[b + 1] = Longer(cut[b], short[(b + 1) + 1])
      BY <1>8, <1>9, <3>1
    <3>5. long[(i - 1) + (k + 1)] = cut[(i - 2) + (k + 1)]
      BY <3>1, <3>2, <3>3, <3>4
    <3> QED
      BY <3>1, <3>5
  <2>3. \A k \in 0 .. l : k \in T
    <3> HIDE DEF T, l
    <3> QED
      BY <2>1, <2>2, AllPlaces
  <2>4. l \in 0 .. l /\ (i - 1) + l = n - 1 /\ (i - 2) + l = n - 2
    BY <1>1, <1>2
  <2>5. long[(i - 1) + l] = cut[(i - 2) + l]
    BY <2>3, <2>4
  <2> QED
    BY <2>4, <2>5
<1> QED
  BY <1>7, <1>10, <1>13 DEF short

\* For a URL with a path of any length, every path that leads to the resource is asked for, the
\* longest one first, and a slash behind a slash makes no difference: split_path() and the loop
\* of dispatch_request_to_listener().
THEOREM PathsLeadToResource ==
  ASSUME NEW C, UrlChars(C), NEW path, IsPath(C, path)
  PROVE  LeadToResource(path)
<1> DEFINE whole == IF Last(path) = Slash THEN path ELSE Append(path, Slash)
<1>1. Asked(path) = AskedOf(Segments(path)) /\ Segments(path) \in Seq(Seq(C)) /\ Slash \in C
  BY AskedSegments DEF UrlChars
<1>2. \A i \in 1 .. Len(Asked(path)) - 1 : Len(Asked(path)[i]) > Len(Asked(path)[i + 1])
  <2> DEFINE segs == Segments(path)
  <2> HIDE DEF segs
  <2>1. \A i \in 1 .. Len(AskedOf(segs)) - 1 : Len(AskedOf(segs)[i]) > Len(AskedOf(segs)[i + 1])
    BY <1>1, LongestFirst DEF segs
  <2> QED
    BY <1>1, <2>1 DEF segs
<1>3. DoubleSlashes(path) = {} =>
        ToSet(Asked(path)) = {SubSeq(whole, 1, i) : i \in {j \in 1 .. Len(whole) : whole[j] = Slash}}
  <2> SUFFICES ASSUME DoubleSlashes(path) = {}
               PROVE  ToSet(Asked(path)) =
                        {SubSeq(whole, 1, i) : i \in {j \in 1 .. Len(whole) : whole[j] = Slash}}
    OBVIOUS
  <2>1. ToSet(Asked(path)) = AskedSet(Segments(path))
    BY <1>1, AskedAre
  <2>2. AskedSet(Segments(path)) = SlashPrefixes(whole, Len(whole))
    BY AllThatLead
  <2> HIDE DEF whole
  <2> QED
    BY <2>1, <2>2 DEF SlashPrefixes
<1>4. \A i \in DoubleSlashes(path) : Asked(path) = Asked(RemoveAt(path, i))
  <2> SUFFICES ASSUME NEW i \in DoubleSlashes(path) PROVE Asked(path) = Asked(RemoveAt(path, i))
    OBVIOUS
  <2>1. IsPath(C, RemoveAt(path, i)) /\ Segments(RemoveAt(path, i)) = Segments(path)
    BY DoubleMakesNone
  <2>2. Asked(RemoveAt(path, i)) = AskedOf(Segments(RemoveAt(path, i)))
    BY <2>1, AskedSegments
  <2> QED
    BY <1>1, <2>1, <2>2
<1> QED
  BY <1>2, <1>3, <1>4, Zenon DEF LeadToResource

\* The same for the paths of the run, for every bound.
THEOREM PathsAskedCorrect == TextSpec => []PathsAsked
<1> DEFINE C     == {"a", "b", Slash, Colon}
           Typed == given.what = "path" => IsPath(C, given.path)
<1>1. TextInit => Typed
  <2>1. \A tail \in SeqsUpTo({"a", "b", Slash}, MaxUrl) : IsPath(C, <<Slash>> \o tail)
    <3> SUFFICES ASSUME NEW tail \in SeqsUpTo({"a", "b", Slash}, MaxUrl)
                 PROVE  IsPath(C, <<Slash>> \o tail)
      OBVIOUS
    <3> DEFINE path == <<Slash>> \o tail
               D    == {"a", "b", Slash}
    <3>1. tail \in Seq(D)
      BY TextAssumption DEF SeqsUpTo
    <3>2. <<Slash>> \in Seq(D) /\ Len(<<Slash>>) = 1 /\ <<Slash>>[1] = Slash
      OBVIOUS
    <3> HIDE DEF D
    <3>3. /\ path \in Seq(D) /\ Len(path) = 1 + Len(tail)
          /\ path[1] = Slash /\ Len(tail) \in Nat
      <4>1. 1 \in 1 .. 1 + Len(tail) /\ 1 <= 1 /\ Len(tail) \in Nat
        BY <3>1
      <4> QED
        BY <3>1, <3>2, <4>1, ConcatProperties
    <3> HIDE DEF path
    <3>4. path \in Seq(C) /\ path # <<>> /\ \A i \in 1 .. Len(path) : path[i] # Colon
      <4>1. D \subseteq C /\ Colon \notin D
        BY DEF D, Colon, Slash
      <4>2. \A i \in 1 .. Len(path) : path[i] \in D
        BY <3>3
      <4>3. path # <<>>
        BY <3>3, EmptySeq
      <4>4. path \in Seq(C)
        BY <3>3, <4>1, SeqMonotonic
      <4> QED
        BY <4>1, <4>2, <4>3, <4>4
    <3> QED
      BY <3>3, <3>4 DEF IsPath, path
  <2>2. given \in Given => Typed
    <3> SUFFICES ASSUME given \in Given, given.what = "path" PROVE IsPath(C, given.path)
      OBVIOUS
    <3> DEFINE Tails   == SeqsUpTo({"a", "b", Slash}, MaxUrl)
               At(tail) == <<Slash>> \o tail
    <3>1. given \in {[what |-> "path", path |-> At(tail)] : tail \in Tails}
      BY DEF Given
    <3>2. \A tail \in Tails : IsPath(C, At(tail))
      BY <2>1
    <3> HIDE DEF C, Tails, At
    <3>3. PICK tail \in Tails : given = [what |-> "path", path |-> At(tail)]
      BY <3>1
    <3>4. given.path = At(tail)
      BY <3>3
    <3> QED
      BY <3>2, <3>4
  <2>3. given = [what |-> "head"] => Typed
    OBVIOUS
  <2> QED
    BY <2>2, <2>3 DEF TextInit
<1>2. Typed /\ [TextNext]_<<vars, given>> => Typed'
  BY DEF TextNext, IsPath, Slash, Colon
<1>3. Typed => PathsAsked
  <2>1. UrlChars(C)
    BY DEF UrlChars
  <2> HIDE DEF C
  <2> QED
    BY <2>1, PathsLeadToResource DEF PathsAsked
<1> QED
  BY <1>1, <1>2, <1>3, PTL DEF TextSpec
-----------------------------------------------------------------------------
(* The content type *)

\* A text of three pieces.
ThreePieces(C, text, pre, core, post) ==
  /\ text \in Seq(C) /\ Len(text) = Len(pre) + Len(core) + Len(post)
  /\ \A i \in 1 .. Len(pre) : text[i] = pre[i]
  /\ \A i \in 1 .. Len(core) : text[Len(pre) + i] = core[i]
  /\ \A i \in 1 .. Len(post) : text[Len(pre) + Len(core) + i] = post[i]

LEMMA MiddleIs ==
  ASSUME NEW C, NEW pre \in Seq(C), NEW core \in Seq(C), NEW post \in Seq(C)
  PROVE  ThreePieces(C, pre \o core \o post, pre, core, post)
<1> DEFINE front == pre \o core
           text  == front \o post
           p     == Len(pre)
           c     == Len(core)
           l     == Len(post)
<1>1. p \in Nat /\ c \in Nat /\ l \in Nat
  OBVIOUS
<1>2. /\ front \in Seq(C) /\ Len(front) = p + c
      /\ \A i \in 1 .. p + c : front[i] = IF i <= p THEN pre[i] ELSE core[i - p]
  BY ConcatProperties
<1> HIDE DEF front, p, c, l
<1>3. /\ text \in Seq(C) /\ Len(text) = p + c + l
      /\ \A i \in 1 .. p + c + l : text[i] = IF i <= p + c THEN front[i] ELSE post[i - (p + c)]
  BY <1>2, ConcatProperties DEF l
<1> HIDE DEF text
<1>4. \A i \in 1 .. p : text[i] = pre[i]
  <2>1. \A i \in 1 .. p : i \in 1 .. p + c + l /\ i \in 1 .. p + c /\ i <= p + c /\ i <= p
    BY <1>1
  <2> QED
    BY <1>2, <1>3, <2>1
<1>5. \A i \in 1 .. c : text[p + i] = core[i]
  <2>1. \A i \in 1 .. c : /\ p + i \in 1 .. p + c + l /\ p + i \in 1 .. p + c /\ p + i <= p + c
                          /\ ~(p + i <= p) /\ (p + i) - p = i
    BY <1>1
  <2> QED
    BY <1>2, <1>3, <2>1
<1>6. \A i \in 1 .. l : text[p + c + i] = post[i]
  <2>1. \A i \in 1 .. l : /\ p + c + i \in 1 .. p + c + l /\ ~(p + c + i <= p + c)
                          /\ (p + c + i) - (p + c) = i
    BY <1>1
  <2> QED
    BY <1>3, <2>1
<1> QED
  BY <1>3, <1>4, <1>5, <1>6 DEF text, front, p, c, l, ThreePieces

\* The piece of a text that has the length and the items of another is that one.
LEMMA PieceEquals ==
  ASSUME NEW C, NEW text, NEW m \in Nat, NEW core \in Seq(C),
         \A i \in 1 .. Len(core) : text[m + i] = core[i]
  PROVE  SubSeq(text, m + 1, m + Len(core)) = core
<1> DEFINE l == Len(core)
           F == SubSeq(text, m + 1, m + l)
<1>1. l \in Nat /\ \A i \in 1 .. l : core[i] \in C
  OBVIOUS
<1>2. PieceIs(C, text, m, l)
  <2> HIDE DEF l
  <2>1. \A i \in 1 .. l : text[m + i] \in C
    BY <1>1 DEF l
  <2> QED
    BY <1>1, <2>1, Piece
<1>3. F \in Seq(C) /\ Len(F) = l /\ \A i \in 1 .. l : F[i] = text[m + i]
  BY <1>2 DEF PieceIs
<1> HIDE DEF F
<1>4. \A i \in 1 .. Len(F) : F[i] = core[i]
  BY <1>3
<1>5. F = core
  BY <1>3, <1>4, SeqEqual
<1> QED
  BY <1>5 DEF F

\* Blanks before and behind are left out.
LEMMA TrimIs ==
  ASSUME NEW C, NEW pre \in Seq(C), NEW core \in Seq(C), NEW post \in Seq(C),
         \A i \in 1 .. Len(pre) : pre[i] = Blank, \A i \in 1 .. Len(post) : post[i] = Blank,
         core # <<>>, core[1] # Blank, core[Len(core)] # Blank
  PROVE  Trim(pre \o core \o post) = core
<1> DEFINE text == pre \o core \o post
           p    == Len(pre)
           c    == Len(core)
           l    == Len(post)
           ink  == {i \in 1 .. Len(text) : text[i] # Blank}
           first == p + 1
           last  == p + c
<1>1. p \in Nat /\ c \in Nat /\ l \in Nat /\ c >= 1
  BY EmptySeq
<1>2. /\ Len(text) = p + c + l
      /\ \A i \in 1 .. p : text[i] = Blank
      /\ \A i \in 1 .. c : text[p + i] = core[i]
      /\ \A i \in 1 .. l : text[p + c + i] = Blank
  <2>1. ThreePieces(C, text, pre, core, post)
    BY MiddleIs
  <2> HIDE DEF text
  <2> QED
    BY <2>1 DEF ThreePieces
<1>3. Trim(text) = IF ink = {} THEN <<>> ELSE SubSeq(text, Min(ink), Max(ink))
  BY DEF Trim
<1>4. core[1] # Blank /\ core[c] # Blank
  OBVIOUS
<1>5. SubSeq(text, first, last) = core
  BY <1>2, PieceEquals
<1> HIDE DEF text, p, c, l
<1>6. first \in ink /\ last \in ink
  <2>1. 1 \in 1 .. c /\ c \in 1 .. c /\ first \in 1 .. p + c + l /\ last \in 1 .. p + c + l
    BY <1>1
  <2> QED
    BY <1>2, <1>4, <2>1
<1>7. \A i \in ink : first <= i /\ i <= last
  <2> SUFFICES ASSUME NEW i \in ink PROVE first <= i /\ i <= last
    OBVIOUS
  <2>1. i \in 1 .. p + c + l /\ text[i] # Blank
    BY <1>2
  <2>2. i \notin 1 .. p
    BY <1>2, <2>1
  <2>3. CASE i > p + c
    <3>1. i - (p + c) \in 1 .. l /\ p + c + (i - (p + c)) = i
      BY <1>1, <2>1, <2>3
    <3> QED
      BY <1>2, <2>1, <3>1
  <2> QED
    BY <1>1, <2>1, <2>2, <2>3
<1>8. ink \in SUBSET Int
  OBVIOUS
<1>9. first \in Int /\ last \in Int
  BY <1>1
<1> HIDE DEF ink, first, last
<1>10. Min(ink) = first
  <2>1. \A x \in ink : (\A y \in ink : x <= y) => x = first
    BY <1>6, <1>7, <1>8, <1>9
  <2> QED
    BY <1>6, <1>7, <2>1 DEF Min
<1>11. Max(ink) = last
  <2>1. \A x \in ink : (\A y \in ink : x >= y) => x = last
    BY <1>6, <1>7, <1>8, <1>9
  <2>2. \A y \in ink : last >= y
    BY <1>7, <1>8, <1>9
  <2> QED
    BY <1>6, <2>1, <2>2 DEF Max
<1> QED
  BY <1>3, <1>5, <1>6, <1>10, <1>11 DEF text

\* A text is cut at the first of a sign.
IsCut(text, ch, pre, post) ==
  LET at == FirstOf(ch, text, 1)
  IN  at # 0 /\ SubSeq(text, 1, at - 1) = pre /\ SubSeq(text, at + 1, Len(text)) = post

LEMMA CutAt ==
  ASSUME NEW C, NEW pre \in Seq(C), NEW ch \in C, NEW post \in Seq(C),
         \A i \in 1 .. Len(pre) : pre[i] # ch
  PROVE  IsCut(pre \o <<ch>> \o post, ch, pre, post)
<1> DEFINE text == pre \o <<ch>> \o post
           p    == Len(pre)
           l    == Len(post)
<1>1. p \in Nat /\ l \in Nat
  OBVIOUS
<1>2. <<ch>> \in Seq(C) /\ Len(<<ch>>) = 1 /\ <<ch>>[1] = ch
  OBVIOUS
<1>3. /\ text \in Seq(C) /\ Len(text) = p + 1 + l
      /\ \A i \in 1 .. p : text[i] = pre[i]
      /\ text[p + 1] = ch
      /\ \A i \in 1 .. l : text[p + 1 + i] = post[i]
  <2> DEFINE one == <<ch>>
             s   == pre \o one \o post
  <2>1. one \in Seq(C) /\ Len(one) = 1 /\ one[1] = ch
    BY <1>2
  <2> HIDE DEF one, p, l
  <2>2. ThreePieces(C, s, pre, one, post)
    BY <2>1, MiddleIs
  <2>3. text = s
    BY DEF one
  <2> HIDE DEF text, s
  <2>4. 1 \in 1 .. 1
    OBVIOUS
  <2> QED
    BY <2>1, <2>2, <2>3, <2>4 DEF p, l, ThreePieces
<1> HIDE DEF text
<1>4. FirstOf(ch, text, 1) = p + 1
  <2>1. p + 1 \in 1 .. Len(text) /\ (p + 1) - 1 = p
    BY <1>1, <1>3
  <2>2. \A j \in 1 .. (p + 1) - 1 : text[j] # ch
    BY <1>3, <2>1
  <2> QED
    BY <1>3, <2>1, <2>2, FirstIs
<1>5. SubSeq(text, 1, p) = pre
  <2>1. \A i \in 1 .. Len(pre) : text[0 + i] = pre[i]
    BY <1>3
  <2>2. SubSeq(text, 0 + 1, 0 + Len(pre)) = pre
    BY <2>1, PieceEquals
  <2>3. 0 + 1 = 1 /\ 0 + Len(pre) = p
    OBVIOUS
  <2> QED
    BY <2>2, <2>3
<1>6. SubSeq(text, (p + 1) + 1, Len(text)) = post
  <2>1. p + 1 \in Nat
    BY <1>1
  <2>2. SubSeq(text, (p + 1) + 1, (p + 1) + Len(post)) = post
    <3>1. \A i \in 1 .. Len(post) : text[(p + 1) + i] = post[i]
      BY <1>3
    <3> QED
      BY <2>1, <3>1, PieceEquals
  <2> QED
    BY <1>3, <2>2
<1>7. p + 1 # 0 /\ (p + 1) - 1 = p
  BY <1>1
<1> QED
  BY <1>4, <1>5, <1>6, <1>7 DEF text, IsCut
\* Two pieces.
LEMMA EndsOf ==
  ASSUME NEW C, NEW pre \in Seq(C), NEW post \in Seq(C)
  PROVE  /\ pre \o post \in Seq(C)
         /\ pre # <<>> => pre \o post # <<>> /\ (pre \o post)[1] = pre[1]
         /\ post # <<>> => /\ pre \o post # <<>>
                           /\ (pre \o post)[Len(pre \o post)] = post[Len(post)]
<1> DEFINE text == pre \o post
           p    == Len(pre)
           l    == Len(post)
<1>1. p \in Nat /\ l \in Nat /\ (pre # <<>> => p > 0) /\ (post # <<>> => l > 0)
  BY EmptySeq
<1>2. /\ text \in Seq(C) /\ Len(text) = p + l
      /\ \A i \in 1 .. p + l : text[i] = IF i <= p THEN pre[i] ELSE post[i - p]
  BY ConcatProperties
<1> HIDE DEF text, p, l
<1>3. p > 0 => text # <<>> /\ text[1] = pre[1]
  <2>1. p > 0 => 1 \in 1 .. p + l /\ 1 <= p /\ p + l # 0
    BY <1>1
  <2> QED
    BY <1>2, <2>1, EmptySeq
<1>4. l > 0 => text # <<>> /\ text[p + l] = post[l]
  <2>1. l > 0 => p + l \in 1 .. p + l /\ ~(p + l <= p) /\ (p + l) - p = l /\ p + l # 0
    BY <1>1
  <2> QED
    BY <1>2, <2>1, EmptySeq
<1> QED
  BY <1>1, <1>2, <1>3, <1>4 DEF text, l

\* Signs at the end are left out.
Dropped(text, ch) == SubSeq(text, 1, Max({i \in 1 .. Len(text) : text[i] # ch}))

LEMMA DropSigns ==
  ASSUME NEW C, NEW front \in Seq(C), NEW back \in Seq(C), NEW ch,
         front # <<>>, front[Len(front)] # ch, \A i \in 1 .. Len(back) : back[i] = ch
  PROVE  Dropped(front \o back, ch) = front
<1> DEFINE text == front \o back
           f    == Len(front)
           l    == Len(back)
           ink  == {i \in 1 .. Len(text) : text[i] # ch}
<1>1. f \in Nat /\ l \in Nat /\ f > 0 /\ front[f] # ch
  BY EmptySeq
<1>2. /\ Len(text) = f + l
      /\ \A i \in 1 .. f + l : text[i] = IF i <= f THEN front[i] ELSE back[i - f]
  BY ConcatProperties
<1>3. \A i \in 1 .. l : back[i] = ch
  OBVIOUS
<1> HIDE DEF text, f, l
<1>4. \A i \in 1 .. f : text[i] = front[i]
  BY <1>1, <1>2
<1>5. f \in ink
  BY <1>1, <1>2
<1>6. \A i \in ink : i \in Int /\ i <= f
  <2> SUFFICES ASSUME NEW i \in ink, ~(i <= f) PROVE FALSE
    OBVIOUS
  <2>1. i \in 1 .. f + l /\ text[i] # ch /\ i - f \in 1 .. l
    BY <1>1, <1>2
  <2> QED
    BY <1>2, <1>3, <2>1
<1>7. f \in Int /\ \A i \in ink : f >= i
  BY <1>1, <1>6
<1> HIDE DEF ink
<1>8. Max(ink) = f
  <2>1. \A x \in ink : (\A y \in ink : x >= y) => x = f
    BY <1>5, <1>6, <1>7
  <2> QED
    BY <1>5, <1>7, <2>1 DEF Max
<1>9. SubSeq(text, 1, f) = front
  <2>1. \A i \in 1 .. Len(front) : text[0 + i] = front[i]
    BY <1>4 DEF f
  <2>2. SubSeq(text, 0 + 1, 0 + Len(front)) = front
    BY <2>1, PieceEquals
  <2>3. 0 + 1 = 1 /\ 0 + Len(front) = f
    BY DEF f
  <2> QED
    BY <2>2, <2>3
<1> QED
  BY <1>8, <1>9 DEF text, ink, Dropped

\* The alphabet of a content type: signs and words.
Signs == {Blank, Semicolon, Equal, Quote}
AllOf(C, ch, text) == text \in Seq(C) /\ \A i \in 1 .. Len(text) : text[i] = ch

LEMMA SignsDiffer ==
  Blank # Semicolon /\ Blank # Equal /\ Blank # Quote /\ Semicolon # Equal /\ Semicolon # Quote
BY DEF Blank, Semicolon, Equal, Quote

\* The value as it is sent, in quotes or not.
InQuotes(value, quoted) == IF quoted THEN <<Quote, value, Quote>> ELSE <<value>>

\* A text that is not empty and has neither blanks nor semicolons.
IsValue(C, text) ==
  /\ text \in Seq(C) /\ text # <<>> /\ Len(text) \in Nat /\ Len(text) >= 1
  /\ \A i \in 1 .. Len(text) : text[i] # Blank /\ text[i] # Semicolon

LEMMA InQuotesIs ==
  ASSUME NEW C, Signs \subseteq C, NEW value \in C \ Signs, NEW quoted
  PROVE  IsValue(C, InQuotes(value, quoted))
<1>1. value # Blank /\ value # Semicolon /\ Quote # Blank /\ Quote # Semicolon /\ Quote \in C
  BY SignsDiffer DEF Signs
<1>2. IsValue(C, <<Quote, value, Quote>>)
  <2> DEFINE text == <<Quote, value, Quote>>
  <2>1. text \in Seq(C) /\ Len(text) = 3 /\ text # <<>>
    BY <1>1
  <2>2. text[1] = Quote /\ text[2] = value /\ text[3] = Quote
    OBVIOUS
  <2> HIDE DEF text
  <2>3. \A i \in 1 .. 3 : text[i] # Blank /\ text[i] # Semicolon
    BY <1>1, <2>2
  <2>4. IsValue(C, text)
    BY <2>1, <2>3 DEF IsValue
  <2> QED
    BY <2>4 DEF text
<1>3. IsValue(C, <<value>>)
  <2> DEFINE text == <<value>>
  <2>1. text \in Seq(C) /\ Len(text) = 1 /\ text # <<>> /\ text[1] = value
    OBVIOUS
  <2> HIDE DEF text
  <2>2. IsValue(C, text)
    BY <1>1, <2>1 DEF IsValue
  <2> QED
    BY <2>2 DEF text
<1> QED
  BY <1>2, <1>3 DEF InQuotes

\* A word between blanks.
LEMMA TrimWord ==
  ASSUME NEW C, NEW word \in C, word # Blank, NEW pre, NEW post,
         AllOf(C, Blank, pre), AllOf(C, Blank, post)
  PROVE  /\ Trim(pre \o <<word>> \o post) = <<word>>
         /\ Trim(<<word>> \o post) = <<word>> /\ Trim(<<word>>) = <<word>>
<1> DEFINE core == <<word>>
           none == <<>>
<1>1. core \in Seq(C) /\ core # <<>> /\ core[1] # Blank /\ core[Len(core)] # Blank
  OBVIOUS
<1>2. AllOf(C, Blank, none)
  BY DEF AllOf
<1>3. none \o core = core /\ core \o none = core
  BY <1>1, ConcatEmptySeq
<1> HIDE DEF core, none
<1>4. ASSUME NEW a, NEW z, AllOf(C, Blank, a), AllOf(C, Blank, z)
      PROVE  Trim(a \o core \o z) = core
  <2>1. /\ a \in Seq(C) /\ \A i \in 1 .. Len(a) : a[i] = Blank
        /\ z \in Seq(C) /\ \A i \in 1 .. Len(z) : z[i] = Blank
    BY <1>4 DEF AllOf
  <2> QED
    BY <1>1, <2>1, TrimIs
<1>5. Trim(pre \o core \o post) = core
  BY <1>4
<1>6. Trim(none \o core \o post) = core
  BY <1>2, <1>4
<1>7. Trim(none \o core \o none) = core
  BY <1>2, <1>4
<1> QED
  BY <1>3, <1>5, <1>6, <1>7 DEF core

\* The value of a charset is found behind its blanks, in its quotes, before its semicolons.
LEMMA CharsetIs ==
  ASSUME NEW C, Signs \subseteq C, NEW value \in C \ Signs, NEW quoted,
         NEW pre, NEW post, NEW semicolons,
         AllOf(C, Blank, pre), AllOf(C, Blank, post), AllOf(C, Semicolon, semicolons)
  PROVE  CharsetOf((pre \o InQuotes(value, quoted) \o post) \o semicolons) = <<value>>
<1> DEFINE core  == InQuotes(value, quoted)
           front == pre \o core \o post
           text  == front \o semicolons
           kept  == Dropped(text, Semicolon)
<1>1. /\ core \in Seq(C) /\ core # <<>> /\ Len(core) \in Nat /\ Len(core) >= 1
      /\ \A i \in 1 .. Len(core) : core[i] # Blank /\ core[i] # Semicolon
  BY InQuotesIs DEF IsValue
<1>2. core = InQuotes(value, quoted)
  OBVIOUS
<1> HIDE DEF core
<1>3. /\ pre \in Seq(C) /\ post \in Seq(C) /\ semicolons \in Seq(C)
      /\ \A i \in 1 .. Len(pre) : pre[i] = Blank
      /\ \A i \in 1 .. Len(post) : post[i] = Blank
      /\ \A i \in 1 .. Len(semicolons) : semicolons[i] = Semicolon
  BY DEF AllOf
<1>4. core[1] # Blank /\ core[Len(core)] # Blank /\ core[Len(core)] # Semicolon
  <2>1. 1 \in 1 .. Len(core) /\ Len(core) \in 1 .. Len(core)
    BY <1>1
  <2> QED
    BY <1>1, <2>1
<1>5. Trim(front) = core
  BY <1>1, <1>3, <1>4, TrimIs
<1>6. front \in Seq(C) /\ front # <<>> /\ front[Len(front)] # Semicolon
  <2> DEFINE begin == pre \o core
  <2>1. begin \in Seq(C) /\ begin # <<>> /\ begin[Len(begin)] = core[Len(core)]
    BY <1>1, <1>3, EndsOf
  <2> HIDE DEF begin
  <2>2. begin \o post \in Seq(C) /\ begin \o post # <<>>
    BY <1>3, <2>1, EndsOf
  <2>3. CASE post = <<>>
    <3>1. begin \o post = begin
      BY <2>1, <2>3, ConcatEmptySeq
    <3> QED
      BY <1>4, <2>1, <3>1 DEF begin
  <2>4. CASE post # <<>>
    <3>1. (begin \o post)[Len(begin \o post)] = post[Len(post)]
      BY <1>3, <2>1, <2>4, EndsOf
    <3>2. Len(post) \in 1 .. Len(post)
      <4>1. Len(post) \in Nat /\ Len(post) # 0
        BY <1>3, <2>4, EmptySeq
      <4> QED
        BY <4>1
    <3>3. post[Len(post)] = Blank
      BY <1>3, <3>2
    <3> QED
      BY <2>2, <3>1, <3>3, SignsDiffer DEF begin
  <2> QED
    BY <2>3, <2>4
<1> HIDE DEF front
<1>7. kept = front
  BY <1>3, <1>6, DropSigns
<1>8. CharsetOf(text) = IF Head(core) = Quote /\ Last(core) = Quote
                        THEN Trim(SubSeq(core, 2, Len(core) - 1)) ELSE core
  <2>1. Trim(kept) = core
    BY <1>5, <1>7
  <2> HIDE DEF text
  <2> QED
    BY <2>1 DEF CharsetOf, Dropped
<1>9. CASE quoted
  <2>1. core = <<Quote, value, Quote>>
    BY <1>2, <1>9 DEF InQuotes
  <2>2. Len(core) = 3 /\ core[1] = Quote /\ core[2] = value /\ core[3] = Quote
    BY <2>1
  <2>3. Head(core) = Quote /\ Last(core) = Quote
    BY <1>1, <2>2, HeadTailProperties DEF Last
  <2>4. SubSeq(core, 2, Len(core) - 1) = <<value>>
    <3> DEFINE one == <<value>>
    <3>1. one \in Seq(C) /\ Len(one) = 1 /\ one[1] = value
      OBVIOUS
    <3> HIDE DEF one
    <3>2. \A i \in 1 .. Len(one) : core[1 + i] = one[i]
      BY <2>2, <3>1
    <3>3. SubSeq(core, 1 + 1, 1 + Len(one)) = one
      BY <3>1, <3>2, PieceEquals
    <3> QED
      BY <2>2, <3>1, <3>3 DEF one
  <2>5. Trim(<<value>>) = <<value>>
    <3>1. value \in C /\ value # Blank
      BY DEF Signs
    <3> QED
      BY <3>1, TrimWord
  <2> QED
    BY <1>8, <2>3, <2>4, <2>5 DEF text, front, core
<1>10. CASE ~quoted
  <2>1. core = <<value>> /\ value # Quote
    BY <1>2, <1>10 DEF InQuotes, Signs
  <2>2. Head(core) = value
    BY <2>1
  <2> QED
    BY <1>8, <2>1, <2>2 DEF text, front, core
<1> QED
  BY <1>9, <1>10
LEMMA AllOfBoth ==
  ASSUME NEW C, NEW ch, NEW a, NEW b, AllOf(C, ch, a), AllOf(C, ch, b)
  PROVE  AllOf(C, ch, a \o b)
<1>1. /\ a \in Seq(C) /\ \A i \in 1 .. Len(a) : a[i] = ch
      /\ b \in Seq(C) /\ \A i \in 1 .. Len(b) : b[i] = ch
  BY DEF AllOf
<1>2. /\ a \o b \in Seq(C) /\ Len(a \o b) = Len(a) + Len(b)
      /\ \A i \in 1 .. Len(a) + Len(b) : (a \o b)[i] = IF i <= Len(a) THEN a[i] ELSE b[i - Len(a)]
  BY <1>1, ConcatProperties
<1>3. ASSUME NEW i \in 1 .. Len(a) + Len(b) PROVE (a \o b)[i] = ch
  <2>1. CASE i <= Len(a)
    BY <1>1, <1>2, <2>1
  <2>2. CASE ~(i <= Len(a))
    <3>1. i - Len(a) \in 1 .. Len(b)
      BY <1>1, <2>2
    <3> QED
      BY <1>1, <1>2, <2>2, <3>1
  <2> QED
    BY <2>1, <2>2
<1> QED
  BY <1>2, <1>3 DEF AllOf

\* The parameter without the blanks around it; those behind the value are left out with them if
\* no semicolon follows.
Parameter(key, sent, semicolons) == key \o <<Equal>> \o (sent \o semicolons)

ParameterIs(C, text, key, value, pre, semicolons) ==
  \E post : AllOf(C, Blank, post) /\ Trim(text) = Parameter(key, pre \o value \o post, semicolons)

LEMMA TrimParameter ==
  ASSUME NEW C, Signs \subseteq C, NEW key \in Seq(C), key # <<>>, key[1] # Blank,
         NEW value, IsValue(C, value), NEW b3, NEW b5, NEW b6, NEW b7, NEW semicolons,
         AllOf(C, Blank, b3), AllOf(C, Blank, b5), AllOf(C, Blank, b6), AllOf(C, Blank, b7),
         AllOf(C, Semicolon, semicolons)
  PROVE  ParameterIs(C, b3 \o Parameter(key, b5 \o value \o b6, semicolons) \o b7,
                     key, value, b5, semicolons)
<1> DEFINE head == key \o <<Equal>>
           w    == b5 \o value
           none == <<>>
<1>1. /\ b3 \in Seq(C) /\ b5 \in Seq(C) /\ b6 \in Seq(C) /\ b7 \in Seq(C) /\ semicolons \in Seq(C)
      /\ \A i \in 1 .. Len(b3) : b3[i] = Blank
      /\ \A i \in 1 .. Len(b7) : b7[i] = Blank
  BY DEF AllOf
<1>2. /\ value \in Seq(C) /\ value # <<>> /\ value[Len(value)] # Blank
  <2>1. Len(value) \in 1 .. Len(value)
    BY DEF IsValue
  <2> QED
    BY <2>1 DEF IsValue
<1>3. head \in Seq(C) /\ head # <<>> /\ head[1] # Blank
  <2> DEFINE one == <<Equal>>
  <2>1. one \in Seq(C)
    BY DEF Signs
  <2> HIDE DEF one
  <2>2. key \o one \in Seq(C) /\ key \o one # <<>> /\ (key \o one)[1] = key[1]
    BY <2>1, EndsOf
  <2> QED
    BY <2>2 DEF one
<1>4. w \in Seq(C) /\ w # <<>> /\ w[Len(w)] # Blank
  BY <1>1, <1>2, EndsOf
<1>5. none \in Seq(C) /\ AllOf(C, Blank, none)
  BY DEF AllOf
<1>6. \A post : Parameter(key, b5 \o value \o post, semicolons) = head \o ((w \o post) \o semicolons)
  BY DEF Parameter
<1> HIDE DEF head, w
<1>7. CASE semicolons # <<>>
  <2> DEFINE rest == (w \o b6) \o semicolons
             core == head \o rest
  <2>1. semicolons[Len(semicolons)] # Blank
    <3>1. Len(semicolons) \in 1 .. Len(semicolons)
      <4>1. Len(semicolons) \in Nat /\ Len(semicolons) # 0
        BY <1>1, <1>7, EmptySeq
      <4> QED
        BY <4>1
    <3>2. semicolons[Len(semicolons)] = Semicolon
      BY <3>1 DEF AllOf
    <3> QED
      BY <3>2, SignsDiffer
  <2>2. w \o b6 \in Seq(C)
    BY <1>1, <1>4, EndsOf
  <2>3. rest \in Seq(C) /\ rest # <<>> /\ rest[Len(rest)] # Blank
    BY <1>1, <1>7, <2>1, <2>2, EndsOf
  <2> HIDE DEF rest
  <2>4. core \in Seq(C) /\ core # <<>> /\ core[1] # Blank /\ core[Len(core)] # Blank
    BY <1>3, <2>3, EndsOf
  <2>5. core = Parameter(key, b5 \o value \o b6, semicolons)
    BY <1>6 DEF rest
  <2> HIDE DEF core
  <2>6. Trim(b3 \o core \o b7) = core
    BY <1>1, <2>4, TrimIs
  <2> QED
    BY <2>5, <2>6 DEF ParameterIs
<1>8. CASE semicolons = <<>>
  <2> DEFINE core == head \o w
             tail == b6 \o b7
  <2>1. core \in Seq(C) /\ core # <<>> /\ core[1] # Blank /\ core[Len(core)] # Blank
    BY <1>3, <1>4, EndsOf
  <2>2. AllOf(C, Blank, tail)
    BY AllOfBoth
  <2>3. tail \in Seq(C) /\ \A i \in 1 .. Len(tail) : tail[i] = Blank
    <3> HIDE DEF tail
    <3> QED
      BY <2>2 DEF AllOf
  <2>4. core = Parameter(key, b5 \o value \o none, semicolons)
    <3>1. w \o none = w
      BY <1>4, ConcatEmptySeq
    <3>2. w \o semicolons = w
      BY <1>4, <1>8, ConcatEmptySeq
    <3> HIDE DEF none
    <3> QED
      BY <1>6, <3>1, <3>2
  <2>5. Parameter(key, b5 \o value \o b6, semicolons) = core \o b6
    <3>1. w \o b6 \in Seq(C)
      BY <1>1, <1>4, ConcatProperties
    <3>2. (w \o b6) \o semicolons = w \o b6
      BY <1>8, <3>1, ConcatEmptySeq
    <3>3. (head \o w) \o b6 = head \o (w \o b6)
      <4>1. head \in Seq(C) /\ w \in Seq(C) /\ b6 \in Seq(C)
        BY <1>1, <1>3, <1>4
      <4>2. Associates(head, w, b6)
        BY <4>1, Associative
      <4> QED
        BY <4>2 DEF Associates
    <3> QED
      BY <1>6, <3>2, <3>3
  <2> HIDE DEF core
  <2>6. b3 \o (core \o b6) \o b7 = b3 \o core \o tail
    <3> DEFINE front == b3 \o core
    <3>1. b3 \in Seq(C) /\ core \in Seq(C) /\ b6 \in Seq(C) /\ b7 \in Seq(C)
      BY <1>1, <2>1
    <3>2. (b3 \o core) \o b6 = b3 \o (core \o b6)
      <4>1. Associates(b3, core, b6)
        BY <3>1, Associative
      <4> QED
        BY <4>1 DEF Associates
    <3>3. front \in Seq(C)
      BY <3>1, ConcatProperties
    <3> HIDE DEF front
    <3>4. front \in Seq(C) /\ b6 \in Seq(C) /\ b7 \in Seq(C)
      BY <3>1, <3>3
    <3>5. (front \o b6) \o b7 = front \o (b6 \o b7)
      <4>1. Associates(front, b6, b7)
        BY <3>4, Associative
      <4> QED
        BY <4>1 DEF Associates
    <3> QED
      BY <3>2, <3>5 DEF front
  <2> HIDE DEF tail
  <2>7. Trim(b3 \o core \o tail) = core
    BY <1>1, <2>1, <2>3, TrimIs
  <2> HIDE DEF none
  <2> QED
    BY <1>5, <2>4, <2>5, <2>6, <2>7 DEF ParameterIs
<1> QED
  BY <1>7, <1>8

\* What is read of a content type with a parameter.
LEMMA ParseIs ==
  ASSUME NEW text, NEW left, NEW right, IsCut(text, Semicolon, left, right),
         NEW key, NEW sent, IsCut(Trim(right), Equal, key, sent)
  PROVE  ParseContentType(text) =
           [content |-> Trim(left),
            charset |-> IF Trim(key) # <<Charset>> THEN DefaultCharset(Trim(left)) ELSE CharsetOf(sent)]
<1> DEFINE semicolon == FirstOf(Semicolon, text, 1)
           possible  == Trim(right)
           equal     == FirstOf(Equal, possible, 1)
<1>1. /\ semicolon # 0 /\ SubSeq(text, 1, semicolon - 1) = left
      /\ SubSeq(text, semicolon + 1, Len(text)) = right
  BY DEF IsCut
<1>2. /\ equal # 0 /\ SubSeq(possible, 1, equal - 1) = key
      /\ SubSeq(possible, equal + 1, Len(possible)) = sent
  BY DEF IsCut
<1> HIDE DEF semicolon, possible, equal
<1>3. ParseContentType(text) =
        [content |-> Trim(SubSeq(text, 1, IF semicolon = 0 THEN Len(text) ELSE semicolon - 1)),
         charset |-> IF semicolon = 0 \/ equal = 0 \/ Trim(SubSeq(possible, 1, equal - 1)) # <<Charset>>
                     THEN DefaultCharset(Trim(SubSeq(text, 1, IF semicolon = 0 THEN Len(text)
                                                               ELSE semicolon - 1)))
                     ELSE CharsetOf(SubSeq(possible, equal + 1, Len(possible)))]
  BY <1>1 DEF ParseContentType, semicolon, possible, equal
<1>4. (IF semicolon = 0 THEN Len(text) ELSE semicolon - 1) = semicolon - 1
  BY <1>1
<1> QED
  BY <1>1, <1>2, <1>3, <1>4

\* The type and the charset of a content type are read as they were meant, with any number of
\* blanks in every place and of semicolons at the end, whatever the words are:
\* parse_content_type_and_charset().
THEOREM TypesAreRead ==
  ASSUME NEW C, Signs \subseteq C,
         NEW type \in C \ Signs, NEW key \in C \ Signs, NEW value \in C \ Signs,
         NEW blanks, \A i \in 1 .. 7 : AllOf(C, Blank, blanks[i]),
         NEW quoted, NEW semicolons, AllOf(C, Semicolon, semicolons)
  PROVE  TypeIsRead(type, key, value, blanks, quoted, semicolons)
<1> DEFINE left    == TypeAlone(type, blanks)
           name    == <<key>> \o blanks[4]
           core    == InQuotes(value, quoted)
           sent    == blanks[5] \o core \o blanks[6]
           right   == blanks[3] \o Parameter(name, sent, semicolons) \o blanks[7]
           default == DefaultCharset(<<type>>)
<1>1. /\ AllOf(C, Blank, blanks[1]) /\ AllOf(C, Blank, blanks[2]) /\ AllOf(C, Blank, blanks[3])
      /\ AllOf(C, Blank, blanks[4]) /\ AllOf(C, Blank, blanks[5]) /\ AllOf(C, Blank, blanks[6])
      /\ AllOf(C, Blank, blanks[7])
  OBVIOUS
<1>2. /\ type # Blank /\ type # Semicolon /\ key # Blank /\ key # Equal
      /\ Semicolon \in C /\ Equal \in C
  BY DEF Signs
<1>3. WithParameter(type, key, value, blanks, quoted, semicolons) = left \o <<Semicolon>> \o right
  BY DEF WithParameter, Parameter, InQuotes
\* The type
<1>4. left \in Seq(C) /\ \A i \in 1 .. Len(left) : left[i] # Semicolon
  <2> DEFINE one == <<type>>
             pre == blanks[1]
             post == blanks[2]
  <2>1. one \in Seq(C) /\ Len(one) = 1 /\ one[1] = type
    OBVIOUS
  <2>2. /\ pre \in Seq(C) /\ \A i \in 1 .. Len(pre) : pre[i] = Blank
        /\ post \in Seq(C) /\ \A i \in 1 .. Len(post) : post[i] = Blank
    BY <1>1 DEF AllOf
  <2>3. left = pre \o one \o post
    BY DEF TypeAlone
  <2> HIDE DEF one, pre, post, left
  <2>4. ThreePieces(C, left, pre, one, post)
    BY <2>1, <2>2, <2>3, MiddleIs
  <2> DEFINE p == Len(pre)
             l == Len(post)
  <2>5. p \in Nat /\ l \in Nat
    BY <2>2
  <2>6. /\ left \in Seq(C) /\ Len(left) = p + 1 + l
        /\ \A i \in 1 .. p : left[i] = Blank
        /\ left[p + 1] = type
        /\ \A i \in 1 .. l : left[p + 1 + i] = Blank
    <3>1. 1 \in 1 .. 1
      OBVIOUS
    <3> QED
      BY <2>1, <2>2, <2>4, <3>1 DEF ThreePieces
  <2> HIDE DEF p, l
  <2>7. ASSUME NEW i \in 1 .. p + 1 + l PROVE left[i] # Semicolon
    <3>1. CASE i <= p
      BY <2>5, <2>6, <3>1, SignsDiffer
    <3>2. CASE i = p + 1
      BY <1>2, <2>6, <3>2
    <3>3. CASE i > p + 1
      <4>1. i - (p + 1) \in 1 .. l /\ p + 1 + (i - (p + 1)) = i
        BY <2>5, <3>3
      <4> QED
        BY <2>6, <4>1, SignsDiffer
    <3> QED
      BY <2>5, <3>1, <3>2, <3>3
  <2> QED
    BY <2>6, <2>7
<1>5. Trim(left) = <<type>>
  BY <1>1, <1>2, TrimWord DEF TypeAlone
\* The parameter
<1>6. /\ name \in Seq(C) /\ name # <<>> /\ name[1] = key /\ Trim(name) = <<key>>
      /\ \A i \in 1 .. Len(name) : name[i] # Equal
  <2> DEFINE one  == <<key>>
             post == blanks[4]
  <2>1. one \in Seq(C) /\ Len(one) = 1 /\ one[1] = key /\ one # <<>>
    OBVIOUS
  <2>2. post \in Seq(C) /\ \A i \in 1 .. Len(post) : post[i] = Blank
    BY <1>1 DEF AllOf
  <2>3. Trim(name) = <<key>>
    BY <1>1, <1>2, TrimWord
  <2>4. name = one \o post
    OBVIOUS
  <2> HIDE DEF one, post, name
  <2>5. name \in Seq(C) /\ name # <<>> /\ name[1] = key
    BY <2>1, <2>2, <2>4, EndsOf
  <2>6. /\ Len(name) = 1 + Len(post)
        /\ \A i \in 1 .. 1 + Len(post) : name[i] = IF i <= 1 THEN one[i] ELSE post[i - 1]
    <3>1. /\ Len(name) = Len(one) + Len(post)
          /\ \A i \in 1 .. Len(one) + Len(post) :
               name[i] = IF i <= Len(one) THEN one[i] ELSE post[i - Len(one)]
      <4>1. one \in Seq(C) /\ post \in Seq(C)
        BY <2>1, <2>2
      <4> QED
        BY <2>4, <4>1, ConcatProperties
    <3> QED
      BY <2>1, <3>1
  <2>7. ASSUME NEW i \in 1 .. 1 + Len(post) PROVE name[i] # Equal
    <3>1. CASE i = 1
      BY <1>2, <2>1, <2>6, <3>1
    <3>2. CASE i # 1
      <4>1. ~(i <= 1) /\ i - 1 \in 1 .. Len(post)
        BY <2>2, <3>2
      <4> QED
        BY <2>2, <2>6, <4>1, SignsDiffer
    <3> QED
      BY <3>1, <3>2
  <2> QED
    BY <2>3, <2>5, <2>6, <2>7
<1>7. IsValue(C, core)
  BY InQuotesIs
<1>8. ParameterIs(C, right, name, core, blanks[5], semicolons)
  <2> DEFINE b3 == blanks[3]
             b5 == blanks[5]
             b6 == blanks[6]
             b7 == blanks[7]
  <2>1. /\ AllOf(C, Blank, b3) /\ AllOf(C, Blank, b5) /\ AllOf(C, Blank, b6) /\ AllOf(C, Blank, b7)
    BY <1>1
  <2>2. right = b3 \o Parameter(name, b5 \o core \o b6, semicolons) \o b7
    OBVIOUS
  <2> HIDE DEF b3, b5, b6, b7, core, name, right
  <2>3. name[1] # Blank
    BY <1>2, <1>6
  <2>4. ParameterIs(C, b3 \o Parameter(name, b5 \o core \o b6, semicolons) \o b7, name, core, b5, semicolons)
    BY <1>6, <1>7, <2>1, <2>3, TrimParameter
  <2> QED
    BY <2>2, <2>4 DEF b5
<1>9. PICK post : /\ AllOf(C, Blank, post)
                  /\ Trim(right) = Parameter(name, blanks[5] \o core \o post, semicolons)
  BY <1>8 DEF ParameterIs
<1> DEFINE behind == (blanks[5] \o core \o post) \o semicolons
<1>10. CharsetOf(behind) = <<value>>
  BY <1>1, <1>9, CharsetIs
<1>11. behind \in Seq(C) /\ right \in Seq(C)
  <2>1. /\ blanks[3] \in Seq(C) /\ blanks[5] \in Seq(C) /\ blanks[6] \in Seq(C) /\ blanks[7] \in Seq(C)
        /\ post \in Seq(C) /\ semicolons \in Seq(C)
    BY <1>1, <1>9 DEF AllOf
  <2>2. core \in Seq(C)
    BY <1>7 DEF IsValue
  <2>3. <<Equal>> \in Seq(C) /\ name \in Seq(C)
    BY <1>2, <1>6
  <2> HIDE DEF core, name
  <2>4. \A a, b \in Seq(C) : a \o b \in Seq(C)
    BY ConcatProperties
  <2>5. behind \in Seq(C)
    BY <2>1, <2>2, <2>4
  <2>6. sent \o semicolons \in Seq(C)
    BY <2>1, <2>2, <2>4
  <2>7. Parameter(name, sent, semicolons) \in Seq(C)
    BY <2>3, <2>4, <2>6 DEF Parameter
  <2>8. right \in Seq(C)
    BY <2>1, <2>4, <2>7
  <2> QED
    BY <2>5, <2>8
<1>12. Trim(right) = name \o <<Equal>> \o behind
  BY <1>9 DEF Parameter
<1> HIDE DEF left, name, core, sent, right, behind, default
<1>13. IsCut(Trim(right), Equal, name, behind)
  <2>1. IsCut(name \o <<Equal>> \o behind, Equal, name, behind)
    BY <1>2, <1>6, <1>11, CutAt
  <2> QED
    BY <1>12, <2>1
<1>14. IsCut(left \o <<Semicolon>> \o right, Semicolon, left, right)
  BY <1>2, <1>4, <1>11, CutAt
<1>15. ParseContentType(left \o <<Semicolon>> \o right) =
         [content |-> <<type>>, charset |-> IF key = Charset THEN <<value>> ELSE default]
  <2>1. ParseContentType(left \o <<Semicolon>> \o right) =
          [content |-> <<type>>,
           charset |-> IF <<key>> # <<Charset>> THEN DefaultCharset(<<type>>) ELSE <<value>>]
    BY <1>5, <1>6, <1>10, <1>13, <1>14, ParseIs
  <2>2. <<key>> = <<Charset>> <=> key = Charset
    OBVIOUS
  <2> QED
    BY <2>1, <2>2 DEF default
<1>16. ParseContentType(left) = [content |-> <<type>>, charset |-> default]
  <2>1. FirstOf(Semicolon, left, 1) = 0
    BY <1>4, FirstNone
  <2>2. SubSeq(left, 1, Len(left)) = left
    BY <1>4, SubSeqFull
  <2> QED
    BY <1>5, <2>1, <2>2 DEF ParseContentType, default
<1> QED
  BY <1>3, <1>15, <1>16 DEF TypeIsRead, left, default
\* The same for the content types of the run.
THEOREM ContentTypeIsReadCorrect == TextSpec => []ContentTypeIsRead
<1> DEFINE Typed == given.what = "type" => /\ given.type \in {Json, "t"} /\ given.key \in {Charset, "k"}
                                           /\ given.semicolons \in 0 .. 2
<1>1. TextInit => Typed
  <2>1. given \in Given => Typed
    BY DEF Given
  <2>2. given = [what |-> "head"] => Typed
    OBVIOUS
  <2> QED
    BY <2>1, <2>2 DEF TextInit
<1>2. Typed /\ [TextNext]_<<vars, given>> => Typed'
  BY DEF TextNext
<1>3. Typed => ContentTypeIsRead
  <2> SUFFICES ASSUME given.what = "type", Typed PROVE ContentTypeIsRead
    BY DEF ContentTypeIsRead
  <2> DEFINE C      == Signs \cup {Json, "t", Charset, "k", "v"}
             blanks == [i \in 1 .. 7 |-> IF i \in given.blanks THEN <<Blank>> ELSE <<>>]
             semis  == [i \in 1 .. given.semicolons |-> Semicolon]
  <2>1. given.type \in C \ Signs /\ given.key \in C \ Signs /\ "v" \in C \ Signs
    BY DEF Signs, Blank, Semicolon, Equal, Quote, Json, Charset
  <2>2. Signs \subseteq C /\ Blank \in C /\ Semicolon \in C
    BY DEF Signs
  <2> HIDE DEF C
  <2>3. AllOf(C, Blank, <<Blank>>) /\ AllOf(C, Blank, <<>>)
    BY <2>2 DEF AllOf
  <2>4. \A i \in 1 .. 7 : AllOf(C, Blank, blanks[i])
    BY <2>3
  <2>5. AllOf(C, Semicolon, semis)
    <3> DEFINE n == given.semicolons
    <3>1. n \in Nat
      OBVIOUS
    <3> HIDE DEF n
    <3>2. [i \in 1 .. n |-> Semicolon] \in Seq(C) /\ Len([i \in 1 .. n |-> Semicolon]) = n
      BY <2>2, <3>1
    <3>3. AllOf(C, Semicolon, [i \in 1 .. n |-> Semicolon])
      BY <3>2 DEF AllOf
    <3> QED
      BY <3>3 DEF n
  <2> HIDE DEF blanks, semis
  <2>6. TypeIsRead(given.type, given.key, "v", blanks, given.quoted, semis)
    BY <2>1, <2>2, <2>4, <2>5, TypesAreRead
  <2> QED
    BY <2>6 DEF ContentTypeIsRead, blanks, semis
<1> QED
  BY <1>1, <1>2, <1>3, PTL DEF TextSpec

-----------------------------------------------------------------------------
\* What a request says in its head is understood as it was sent, for every bound on the number of
\* its lines and on the length of its path (handle_headers, dispatch_request_to_listener,
\* parse_content_type_and_charset).
THEOREM HeadIsUnderstoodCorrect == TextSpec => []HeadIsUnderstood
  BY HeadersCombineCorrect, PathsAskedCorrect, ContentTypeIsReadCorrect, PTL DEF HeadIsUnderstood
=============================================================================
