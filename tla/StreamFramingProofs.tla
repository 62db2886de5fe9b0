-------------------------- MODULE StreamFramingProofs --------------------------
(***************************************************************************)
(* Proofs about StreamFraming, in three parts.                             *)
(*                                                                         *)
(* What the codec computes: HeaderValue undoes Header for every length up  *)
(* to MaxLen, and a stream that begins with a header, a body and what      *)
(* follows can be cut in only one way.                                     *)
(*                                                                         *)
(* The inductive invariant Inv.  Its heart is InFlight: what the receiver  *)
(* read of a frame, followed by the bytes in flight, is the beginning of   *)
(* the frames not received yet; the rest is in out, or was lost.  It needs *)
(* ResultsInv, that failures come last, and EndsInv, that nothing is in    *)
(* flight after a reset and nothing left to send after the end closed.     *)
(*                                                                         *)
(* The refinement of MessageChannel: a step sends, delivers, ends or       *)
(* changes nothing of the channel.                                         *)
(***************************************************************************)
EXTENDS StreamFraming, SetInduction, FiniteSetTheorems

-------------------------------------------------------------------------------
(* The header: powers of Base, digits and the value read back              *)

LEMMA PowerUnfolds == Power = [k \in 0 .. HeaderLen |-> IF k = 0 THEN 1 ELSE Base * Power[k - 1]]
<1>1. PICK step, S, base :
          S = Nat /\ base = 1 /\ step = [i \in 1 .. HeaderLen |-> [x \in Nat |-> Base * x]]
  OBVIOUS
<1>2. HeaderLen \in Nat /\ base \in S /\ IsStep(step, HeaderLen, S)
  BY <1>1, FramingAssumption DEF IsStep
<1>3. PICK f : IsRecursive(f, HeaderLen, S, base, step)
  BY <1>2, RecursionExists
<1>4. f \in [0 .. HeaderLen -> Nat] /\ f[0] = 1 /\ \A k \in 1 .. HeaderLen : f[k] = step[k][f[k - 1]]
  BY <1>1, <1>3 DEF IsRecursive
<1>5. f = [k \in 0 .. HeaderLen |-> IF k = 0 THEN 1 ELSE Base * f[k - 1]]
  <2>1. ASSUME NEW k \in 1 .. HeaderLen PROVE f[k] = Base * f[k - 1]
    <3>1. f[k - 1] \in Nat
      BY <1>4, FramingAssumption
    <3>2. step[k][f[k - 1]] = Base * f[k - 1]
      BY <1>1, <3>1
    <3> QED BY <1>4, <3>2
  <2> QED BY <1>4, <2>1, FramingAssumption
<1>6. \E g : g = [k \in 0 .. HeaderLen |-> IF k = 0 THEN 1 ELSE Base * g[k - 1]]
  BY <1>5
<1> QED BY <1>6 DEF Power

LEMMA PowerValues ==
    /\ Power[0] = 1
    /\ \A k \in 1 .. HeaderLen : Power[k] = Base * Power[k - 1]
    /\ \A k \in 0 .. HeaderLen : Power[k] \in Nat \ {0}
<1>1. Power[0] = 1 /\ \A k \in 1 .. HeaderLen : Power[k] = Base * Power[k - 1]
  BY PowerUnfolds, FramingAssumption
<1>2. PICK T : T = {k \in 0 .. HeaderLen : Power[k] \in Nat \ {0}}
  OBVIOUS
<1>3. 0 \in T
  BY <1>1, <1>2, FramingAssumption
<1>4. ASSUME NEW i \in 0 .. HeaderLen - 1, i \in T PROVE i + 1 \in T
  <2>1. Power[i + 1] = Base * Power[i] /\ i + 1 \in 0 .. HeaderLen
    BY <1>1, FramingAssumption
  <2>2. Power[i] \in Nat \ {0}
    BY <1>2, <1>4
  <2>3. \A x, y \in Nat \ {0} : x * y \in Nat \ {0}
    OBVIOUS
  <2> QED BY <1>2, <2>1, <2>2, <2>3, FramingAssumption
<1>5. \A k \in 0 .. HeaderLen : k \in T
  BY <1>3, <1>4, InductionUpTo, FramingAssumption
<1> QED BY <1>1, <1>2, <1>5

LEMMA DivIs ==
    ASSUME NEW a \in Nat, NEW d \in Nat \ {0}, NEW q \in Nat, q * d <= a, a < (q + 1) * d
    PROVE  a \div d = q
OBVIOUS

LEMMA DivBounds ==
    ASSUME NEW a \in Nat, NEW d \in Nat \ {0}
    PROVE  /\ a \div d \in Nat
           /\ (a \div d) * d <= a
           /\ a < ((a \div d) + 1) * d
           /\ a % d \in 0 .. d - 1
           /\ a = (a \div d) * d + (a % d)
<1>1. a \div d \in Nat /\ a % d \in 0 .. d - 1
  OBVIOUS
<1>2. a = d * (a \div d) + (a % d)
  OBVIOUS
<1>3. \A x \in Nat : d * x = x * d /\ (x + 1) * d = x * d + d
  OBVIOUS
<1> QED BY <1>1, <1>2, <1>3

LEMMA DivOfProduct ==
    ASSUME NEW a \in Nat, NEW b \in Nat \ {0}, NEW c \in Nat \ {0}
    PROVE  a \div (c * b) = (a \div b) \div c
<1>1. PICK q \in Nat : q = a \div b /\ q * b <= a /\ a < (q + 1) * b
  BY DivBounds
<1>2. PICK r \in Nat : r = q \div c /\ r * c <= q /\ q < (r + 1) * c
  BY DivBounds
<1>3. r * (c * b) <= a
  <2>1. (r * c) * b <= q * b
    BY <1>2
  <2>2. (r * c) * b = r * (c * b)
    OBVIOUS
  <2> QED BY <1>1, <2>1, <2>2
<1>4. a < (r + 1) * (c * b)
  <2>1. q + 1 <= (r + 1) * c
    BY <1>2
  <2>2. (q + 1) * b <= ((r + 1) * c) * b
    BY <2>1
  <2>3. ((r + 1) * c) * b = (r + 1) * (c * b)
    OBVIOUS
  <2> QED BY <1>1, <2>2, <2>3
<1>5. c * b \in Nat \ {0}
  OBVIOUS
<1>6. a \div (c * b) = r
  BY <1>3, <1>4, <1>5, DivIs
<1> QED BY <1>1, <1>2, <1>6

DigitBytes == {0} \X (0 .. Base - 1)

LEMMA DigitReadRange ==
    ASSUME NEW h \in Seq(DigitBytes), NEW i \in 1 .. HeaderLen
    PROVE  DigitRead(h, i) \in 0 .. Base - 1
<1>1. CASE i <= Len(h)
  <2>1. i \in 1 .. Len(h)
    BY <1>1, FramingAssumption
  <2>2. h[i] \in DigitBytes
    BY <2>1, ElementOfSeq
  <2> QED BY <1>1, <2>2 DEF DigitRead, DigitBytes
<1>2. CASE ~ (i <= Len(h))
  BY <1>2, FramingAssumption DEF DigitRead
<1> QED BY <1>1, <1>2

\* What ntohl makes of the header, digit by digit.
LEMMA HeaderValueUnfolds ==
    ASSUME NEW h \in Seq(DigitBytes)
    PROVE  \E value \in [0 .. HeaderLen -> Nat] :
               /\ value[0] = 0
               /\ \A i \in 1 .. HeaderLen : value[i] = value[i - 1] * Base + DigitRead(h, i)
               /\ HeaderValue(h) = value[HeaderLen]
<1> DEFINE Value == CHOOSE value : value = [i \in 0 .. HeaderLen |->
                        IF i = 0 THEN 0 ELSE value[i - 1] * Base + DigitRead(h, i)]
<1>1. PICK d : d = [i \in 1 .. HeaderLen |-> DigitRead(h, i)]
  OBVIOUS
<1>2. d \in [1 .. HeaderLen -> Nat]
  BY <1>1, DigitReadRange, FramingAssumption
<1>3. PICK step, S, base :
          S = Nat /\ base = 0 /\ step = [i \in 1 .. HeaderLen |-> [x \in Nat |-> x * Base + d[i]]]
  OBVIOUS
<1>4. HeaderLen \in Nat /\ base \in S /\ IsStep(step, HeaderLen, S)
  <2>1. ASSUME NEW i \in 1 .. HeaderLen, NEW x \in Nat PROVE step[i][x] \in Nat
    <3>1. step[i][x] = x * Base + d[i]
      BY <1>3
    <3>2. d[i] \in Nat /\ x * Base \in Nat
      BY <1>2, FramingAssumption
    <3> QED BY <3>1, <3>2
  <2> QED BY <1>3, <2>1, FramingAssumption DEF IsStep
<1>5. PICK f : IsRecursive(f, HeaderLen, S, base, step)
  BY <1>4, RecursionExists
<1>6. f \in [0 .. HeaderLen -> Nat] /\ f[0] = 0 /\ \A i \in 1 .. HeaderLen : f[i] = step[i][f[i - 1]]
  BY <1>3, <1>5 DEF IsRecursive
<1>7. f = [i \in 0 .. HeaderLen |-> IF i = 0 THEN 0 ELSE f[i - 1] * Base + DigitRead(h, i)]
  <2>1. ASSUME NEW i \in 1 .. HeaderLen PROVE f[i] = f[i - 1] * Base + DigitRead(h, i)
    <3>1. f[i - 1] \in Nat
      BY <1>6, FramingAssumption
    <3>2. step[i][f[i - 1]] = f[i - 1] * Base + d[i]
      BY <1>3, <3>1
    <3> QED BY <1>1, <1>6, <3>2
  <2> QED BY <1>6, <2>1, FramingAssumption
<1>8. Value = [i \in 0 .. HeaderLen |-> IF i = 0 THEN 0 ELSE Value[i - 1] * Base + DigitRead(h, i)]
  <2>1. \E value : value = [i \in 0 .. HeaderLen |->
                        IF i = 0 THEN 0 ELSE value[i - 1] * Base + DigitRead(h, i)]
    BY <1>7
  <2> QED BY <2>1
<1>9. HeaderValue(h) = Value[HeaderLen]
  BY DEF HeaderValue
<1> HIDE DEF Value
<1>10. /\ Value[0] = 0
       /\ \A i \in 1 .. HeaderLen : Value[i] = Value[i - 1] * Base + DigitRead(h, i)
  BY <1>8, FramingAssumption
<1>11. PICK T : T = {i \in 0 .. HeaderLen : Value[i] \in Nat}
  OBVIOUS
<1>12. 0 \in T
  BY <1>10, <1>11, FramingAssumption
<1>13. ASSUME NEW i \in 0 .. HeaderLen - 1, i \in T PROVE i + 1 \in T
  <2>1. i + 1 \in 1 .. HeaderLen /\ Value[i + 1] = Value[i] * Base + DigitRead(h, i + 1)
    BY <1>10, FramingAssumption
  <2>2. Value[i] \in Nat /\ DigitRead(h, i + 1) \in Nat
    BY <1>11, <1>13, <2>1, DigitReadRange, FramingAssumption
  <2>3. Value[i] * Base + DigitRead(h, i + 1) \in Nat
    BY <2>2, FramingAssumption
  <2> QED BY <1>11, <2>1, <2>3
<1>14. \A i \in 0 .. HeaderLen : i \in T
  BY <1>12, <1>13, InductionUpTo, FramingAssumption
<1>15. Value = [i \in 0 .. HeaderLen |-> Value[i]]
  BY <1>8
<1>16. Value \in [0 .. HeaderLen -> Nat]
  BY <1>11, <1>14, <1>15
<1> QED BY <1>9, <1>10, <1>16

LEMMA HeaderValueRange ==
    ASSUME NEW h \in Seq(DigitBytes)
    PROVE  HeaderValue(h) \in 0 .. MaxLen
<1>1. PICK value \in [0 .. HeaderLen -> Nat] :
          /\ value[0] = 0
          /\ \A i \in 1 .. HeaderLen : value[i] = value[i - 1] * Base + DigitRead(h, i)
          /\ HeaderValue(h) = value[HeaderLen]
  BY HeaderValueUnfolds
<1>2. PICK T : T = {i \in 0 .. HeaderLen : value[i] < Power[i]}
  OBVIOUS
<1>3. 0 \in T
  BY <1>1, <1>2, PowerValues, FramingAssumption
<1>4. ASSUME NEW i \in 0 .. HeaderLen - 1, i \in T PROVE i + 1 \in T
  <2>1. PICK v \in Nat, p \in Nat, d \in 0 .. Base - 1 :
            v = value[i] /\ p = Power[i] /\ d = DigitRead(h, i + 1)
    <3>1. i \in 0 .. HeaderLen /\ i + 1 \in 1 .. HeaderLen
      BY FramingAssumption
    <3>2. value[i] \in Nat /\ Power[i] \in Nat
      BY <3>1, PowerValues
    <3>3. DigitRead(h, i + 1) \in 0 .. Base - 1
      BY <3>1, DigitReadRange
    <3> QED BY <3>2, <3>3
  <2>2. value[i + 1] = v * Base + d /\ Power[i + 1] = Base * p /\ i + 1 \in 0 .. HeaderLen
    BY <1>1, <2>1, PowerValues, FramingAssumption
  <2>3. v + 1 <= p
    BY <1>2, <1>4, <2>1
  <2>4. (v + 1) * Base <= p * Base
    BY <2>3, FramingAssumption
  <2>5. (v + 1) * Base = v * Base + Base /\ p * Base = Base * p /\ v * Base \in Nat /\ p * Base \in Nat
    BY FramingAssumption
  <2>6. v * Base + d < Base * p
    BY <2>4, <2>5, FramingAssumption
  <2> QED BY <1>2, <2>2, <2>6
<1>5. HeaderLen \in T
  <2>1. \A i \in 0 .. HeaderLen : i \in T
    BY <1>3, <1>4, InductionUpTo, FramingAssumption
  <2> QED BY <2>1, FramingAssumption
<1> QED BY <1>1, <1>2, <1>5, PowerValues, FramingAssumption DEF MaxLen

LEMMA DigitRange ==
    ASSUME NEW n \in Nat, NEW i \in 1 .. HeaderLen
    PROVE  Digit(n, i) \in 0 .. Base - 1
<1>1. Power[HeaderLen - i] \in Nat \ {0}
  BY PowerValues, FramingAssumption
<1>2. n \div Power[HeaderLen - i] \in Nat
  BY <1>1, DivBounds
<1> QED BY <1>2, DivBounds, FramingAssumption DEF Digit

LEMMA HeaderType ==
    ASSUME NEW n \in Nat
    PROVE  Header(n) \in Seq(DigitBytes) /\ Len(Header(n)) = HeaderLen
<1>1. \A i \in 1 .. HeaderLen : <<0, Digit(n, i)>> \in DigitBytes
  BY DigitRange DEF DigitBytes
<1> QED BY <1>1, FramingAssumption DEF Header

\* htonl and ntohl are inverse: what the receiver reads is the length sent.
LEMMA HeaderValueOfHeader ==
    ASSUME NEW n \in 0 .. MaxLen
    PROVE  HeaderValue(Header(n)) = n
<1> DEFINE h == Header(n)
<1>1. h \in Seq(DigitBytes) /\ Len(h) = HeaderLen /\ n \in Nat
  BY HeaderType, PowerValues, FramingAssumption DEF MaxLen
<1>2. PICK value \in [0 .. HeaderLen -> Nat] :
          /\ value[0] = 0
          /\ \A i \in 1 .. HeaderLen : value[i] = value[i - 1] * Base + DigitRead(h, i)
          /\ HeaderValue(h) = value[HeaderLen]
  BY <1>1, HeaderValueUnfolds
<1>3. \A i \in 1 .. HeaderLen : DigitRead(h, i) = Digit(n, i)
  BY <1>1, FramingAssumption DEF DigitRead, Header
<1> HIDE DEF h
<1>4. PICK T : T = {i \in 0 .. HeaderLen : value[i] = n \div Power[HeaderLen - i]}
  OBVIOUS
<1>5. 0 \in T
  <2>1. n < Power[HeaderLen] /\ Power[HeaderLen] \in Nat \ {0}
    BY PowerValues, FramingAssumption DEF MaxLen
  <2>2. n \div Power[HeaderLen] = 0
    BY <1>1, <2>1, DivIs
  <2> QED BY <1>2, <1>4, <2>2, FramingAssumption
<1>6. ASSUME NEW i \in 0 .. HeaderLen - 1, i \in T PROVE i + 1 \in T
  <2>1. PICK k \in 0 .. HeaderLen - 1 : k = HeaderLen - (i + 1)
    BY FramingAssumption
  <2>2. PICK p \in Nat \ {0} : p = Power[k] /\ Power[k + 1] = Base * p
    <3>1. k \in 0 .. HeaderLen /\ k + 1 \in 1 .. HeaderLen /\ (k + 1) - 1 = k
      BY FramingAssumption
    <3>2. Power[k] \in Nat \ {0} /\ Power[k + 1] = Base * Power[k]
      BY <3>1, PowerValues
    <3> QED BY <3>2
  <2>3. PICK q \in Nat : q = n \div p
    BY <1>1, DivBounds
  <2>4. value[i] = q \div Base
    <3>1. value[i] = n \div (Base * p)
      BY <1>4, <1>6, <2>1, <2>2, FramingAssumption
    <3>2. Base \in Nat \ {0}
      BY FramingAssumption
    <3> QED BY <1>1, <2>3, <3>1, <3>2, DivOfProduct
  <2>5. value[i + 1] = value[i] * Base + (q % Base)
    BY <1>2, <1>3, <2>1, <2>2, <2>3, FramingAssumption DEF Digit
  <2>6. value[i + 1] = q
    BY <2>4, <2>5, DivBounds, FramingAssumption
  <2>7. i + 1 \in 0 .. HeaderLen
    BY FramingAssumption
  <2> QED BY <1>4, <2>1, <2>2, <2>3, <2>6, <2>7
<1>7. HeaderLen \in T
  <2>1. \A i \in 0 .. HeaderLen : i \in T
    BY <1>5, <1>6, InductionUpTo, FramingAssumption
  <2> QED BY <2>1, FramingAssumption
<1>8. n \div 1 = n
  BY <1>1, DivIs
<1> QED BY <1>2, <1>4, <1>7, <1>8, PowerValues, FramingAssumption DEF h

-------------------------------------------------------------------------------
(* Sequences: what is cut off one end of a concatenation                   *)

\* Two ways to cut one sequence in two: the longer first part b is a and c, and
\* c is the beginning of the longer second part.
CutTwice(S, a, x, b, y, c) == c \in Seq(S) /\ Len(c) = Len(b) - Len(a) /\ b = a \o c /\ x = c \o y

LEMMA PrefixOfConcat ==
    ASSUME NEW S, NEW a \in Seq(S), NEW x \in Seq(S), NEW b \in Seq(S), NEW y \in Seq(S),
           a \o x = b \o y, Len(a) <= Len(b)
    PROVE  CutTwice(S, a, x, b, y, After(b, Len(a)))
<1> DEFINE c == After(b, Len(a))
<1>1. Len(a) \in Nat /\ Len(b) \in Nat /\ Len(x) \in Nat /\ Len(y) \in Nat
  OBVIOUS
<1>2. \A i \in Len(a) + 1 .. Len(b) : b[i] \in S
  BY <1>1, ElementOfSeq
<1>3. /\ c \in Seq(S) /\ Len(c) = Len(b) - Len(a)
      /\ \A i \in 1 .. Len(b) - (Len(a) + 1) + 1 : c[i] = b[Len(a) + 1 + i - 1]
  BY <1>1, <1>2, SubSeqProperties DEF After
<1>4. \A i \in 1 .. Len(b) - Len(a) : c[i] = b[Len(a) + i]
  BY <1>1, <1>3
<1> HIDE DEF c
<1>5. Len(a) + Len(x) = Len(b) + Len(y)
  BY ConcatProperties
<1>6. \A i \in 1 .. Len(a) + Len(x) : (IF i <= Len(a) THEN a[i] ELSE x[i - Len(a)])
                                    = (IF i <= Len(b) THEN b[i] ELSE y[i - Len(b)])
  BY <1>5, ConcatProperties
<1>7. b = a \o c
  <2>1. a \o c \in Seq(S) /\ Len(a \o c) = Len(b)
    BY <1>1, <1>3, ConcatProperties
  <2>2. ASSUME NEW i \in 1 .. Len(b) PROVE b[i] = (a \o c)[i]
    <3>1. (a \o c)[i] = IF i <= Len(a) THEN a[i] ELSE c[i - Len(a)]
      BY <1>1, <1>3, ConcatProperties
    <3>2. CASE i <= Len(a)
      <4>1. i \in 1 .. Len(a) + Len(x)
        BY <1>1, <3>2
      <4> QED BY <1>1, <1>6, <3>1, <3>2, <4>1
    <3>3. CASE ~ (i <= Len(a))
      BY <1>4, <1>1, <3>1, <3>3
    <3> QED BY <3>2, <3>3
  <2> QED BY <2>1, <2>2, SeqEqual
<1>8. x = c \o y
  <2>1. c \o y \in Seq(S) /\ Len(c \o y) = Len(x)
    BY <1>1, <1>3, <1>5, ConcatProperties
  <2>2. ASSUME NEW i \in 1 .. Len(x) PROVE x[i] = (c \o y)[i]
    <3>1. (c \o y)[i] = IF i <= Len(c) THEN c[i] ELSE y[i - Len(c)]
      BY <1>1, <1>3, <1>5, ConcatProperties
    <3>2. PICK j \in 1 .. Len(a) + Len(x) : j = Len(a) + i /\ ~ (j <= Len(a)) /\ j - Len(a) = i
      <4>1. \A p, q \in Nat : \A r \in 1 .. q :
                p + r \in 1 .. p + q /\ ~ (p + r <= p) /\ (p + r) - p = r
        OBVIOUS
      <4> QED BY <1>1, <4>1
    <3>3. x[i] = IF j <= Len(b) THEN b[j] ELSE y[j - Len(b)]
      BY <1>6, <3>2
    <3>4. CASE j <= Len(b)
      BY <1>4, <1>1, <1>3, <3>1, <3>2, <3>3, <3>4
    <3>5. CASE ~ (j <= Len(b))
      <4>1. ~ (i <= Len(c)) /\ i - Len(c) = j - Len(b)
        BY <1>1, <1>3, <3>2, <3>5
      <4> QED BY <3>1, <3>3, <3>5, <4>1
    <3> QED BY <3>4, <3>5
  <2> QED BY <2>1, <2>2, SeqEqual
<1> QED BY <1>3, <1>7, <1>8 DEF c, CutTwice

LEMMA SameLengthPrefix ==
    ASSUME NEW S, NEW a \in Seq(S), NEW x \in Seq(S), NEW b \in Seq(S), NEW y \in Seq(S),
           a \o x = b \o y, Len(a) = Len(b)
    PROVE  a = b /\ x = y
<1> DEFINE c == After(b, Len(a))
<1>1. c \in Seq(S) /\ Len(c) = Len(b) - Len(a) /\ b = a \o c /\ x = c \o y
  <2>1. Len(a) <= Len(b)
    OBVIOUS
  <2>2. CutTwice(S, a, x, b, y, c)
    BY <2>1, PrefixOfConcat
  <2> QED BY <2>2 DEF CutTwice
<1>2. Len(c) = 0
  BY <1>1
<1> HIDE DEF c
<1>3. c = <<>>
  BY <1>2, EmptySeq
<1> QED BY <1>1, <1>3, ConcatEmptySeq

LEMMA FirstAfter ==
    ASSUME NEW S, NEW s \in Seq(S), NEW k \in 0 .. Len(s)
    PROVE  /\ First(s, k) \in Seq(S) /\ Len(First(s, k)) = k
           /\ After(s, k) \in Seq(S) /\ Len(After(s, k)) = Len(s) - k
           /\ First(s, k) \o After(s, k) = s
<1>1. Len(s) \in Nat
  OBVIOUS
<1>2. \A i \in 1 .. k : s[i] \in S
  BY <1>1, ElementOfSeq
<1>3. \A i \in k + 1 .. Len(s) : s[i] \in S
  BY <1>1, ElementOfSeq
<1>4. First(s, k) \in Seq(S) /\ Len(First(s, k)) = k
  BY <1>1, <1>2, SubSeqProperties DEF First
<1>5. After(s, k) \in Seq(S) /\ Len(After(s, k)) = Len(s) - k
  BY <1>1, <1>3, SubSeqProperties DEF After
<1>6. First(s, k) \o After(s, k) = SubSeq(s, 1, Len(s))
  <2>1. 1 \in 1 .. Len(s) + 1 /\ k \in 1 - 1 .. Len(s) /\ Len(s) \in k .. Len(s)
    BY <1>1
  <2> QED BY <2>1, ConcatAdjacentSubSeq DEF First, After
<1> QED BY <1>4, <1>5, <1>6, SubSeqFull

-------------------------------------------------------------------------------
(* Frames                                                                  *)

LEMMA MaxLenNat == MaxLen \in Nat
  BY PowerValues, FramingAssumption DEF MaxLen

LEMMA PayloadType ==
    ASSUME NEW m \in 1 .. MaxMessages, NEW n \in 0 .. MaxLen
    PROVE  Payload(m, n) \in Seq(Bytes) /\ Len(Payload(m, n)) = n
<1>1. n \in Nat
  BY MaxLenNat
<1>2. ASSUME NEW i \in 1 .. n PROVE <<m, i>> \in Bytes
  <2>1. i \in 1 .. MaxLen
    BY <1>1, MaxLenNat
  <2> QED BY <2>1 DEF Bytes
<1> QED BY <1>1, <1>2 DEF Payload

LEMMA FrameType ==
    ASSUME NEW m \in 1 .. MaxMessages, NEW n \in 1 .. MaxLen
    PROVE  /\ Frame(m, n) \in Seq(Bytes) /\ Len(Frame(m, n)) = HeaderLen + n
           /\ Header(n) \in Seq(Bytes) /\ Len(Header(n)) = HeaderLen
           /\ Payload(m, n) \in Seq(Bytes) /\ Len(Payload(m, n)) = n
<1>1. n \in Nat /\ n \in 0 .. MaxLen
  BY MaxLenNat
<1>2. Header(n) \in Seq(Bytes) /\ Len(Header(n)) = HeaderLen
  <2>1. Header(n) \in Seq(DigitBytes) /\ Len(Header(n)) = HeaderLen
    BY <1>1, HeaderType
  <2>2. DigitBytes \subseteq Bytes
    BY DEF DigitBytes, Bytes
  <2> QED BY <2>1, <2>2, SeqMonotonic
<1>3. Payload(m, n) \in Seq(Bytes) /\ Len(Payload(m, n)) = n
  BY <1>1, PayloadType
<1> QED BY <1>2, <1>3, ConcatProperties DEF Frame

\* The frames of the messages m + 1 .. i, one after the other.
Frames(f, ls, m) ==
    /\ f \in [0 .. Len(ls) -> Seq(Bytes)] /\ f[0] = <<>>
    /\ \A i \in 1 .. Len(ls) : f[i] = IF i <= m THEN <<>> ELSE f[i - 1] \o Frame(i, ls[i])

Lens == {ls \in Seq(1 .. MaxLen) : Len(ls) <= MaxMessages}

LEMMA FramesAfterUnfolds ==
    ASSUME NEW ls \in Lens, NEW m \in Nat
    PROVE  \E f : Frames(f, ls, m) /\ FramesAfter(ls, m) = f[Len(ls)]
<1> DEFINE All == CHOOSE f : f = [i \in 0 .. Len(ls) |-> IF i <= m THEN <<>> ELSE f[i - 1] \o Frame(i, ls[i])]
<1>1. PICK n \in Nat : n = Len(ls) /\ n <= MaxMessages
  BY FramingAssumption DEF Lens
<1>2. \A i \in 1 .. n : Frame(i, ls[i]) \in Seq(Bytes)
  <2>1. ASSUME NEW i \in 1 .. n PROVE Frame(i, ls[i]) \in Seq(Bytes)
    <3>1. ls \in Seq(1 .. MaxLen) /\ i \in 1 .. Len(ls)
      BY <1>1 DEF Lens
    <3>2. ls[i] \in 1 .. MaxLen
      BY <3>1, ElementOfSeq
    <3>3. i \in 1 .. MaxMessages
      BY <1>1, FramingAssumption
    <3> QED BY <3>2, <3>3, FrameType
  <2> QED BY <2>1
<1>3. PICK step, S, base :
          /\ S = Seq(Bytes) /\ base = <<>>
          /\ step = [i \in 1 .. n |-> [x \in Seq(Bytes) |-> IF i <= m THEN <<>> ELSE x \o Frame(i, ls[i])]]
  OBVIOUS
<1>4. base \in S /\ IsStep(step, n, S)
  <2>1. ASSUME NEW i \in 1 .. n, NEW x \in Seq(Bytes) PROVE step[i][x] \in Seq(Bytes)
    <3>1. step[i][x] = IF i <= m THEN <<>> ELSE x \o Frame(i, ls[i])
      BY <1>3
    <3>2. x \o Frame(i, ls[i]) \in Seq(Bytes)
      BY <1>2, ConcatProperties
    <3> QED BY <3>1, <3>2
  <2> QED BY <1>3, <2>1 DEF IsStep
<1>5. PICK f : IsRecursive(f, n, S, base, step)
  BY <1>4, RecursionExists
<1>6. f \in [0 .. n -> Seq(Bytes)] /\ f[0] = <<>> /\ \A i \in 1 .. n : f[i] = step[i][f[i - 1]]
  BY <1>3, <1>5 DEF IsRecursive
<1>7. \A i \in 1 .. n : f[i] = IF i <= m THEN <<>> ELSE f[i - 1] \o Frame(i, ls[i])
  <2>1. ASSUME NEW i \in 1 .. n PROVE f[i] = IF i <= m THEN <<>> ELSE f[i - 1] \o Frame(i, ls[i])
    <3>1. f[i - 1] \in Seq(Bytes)
      BY <1>6
    <3>2. step[i][f[i - 1]] = IF i <= m THEN <<>> ELSE f[i - 1] \o Frame(i, ls[i])
      BY <1>3, <3>1
    <3> QED BY <1>6, <3>2
  <2> QED BY <2>1
<1>8. f = [i \in 0 .. Len(ls) |-> IF i <= m THEN <<>> ELSE f[i - 1] \o Frame(i, ls[i])]
  <2>1. f = [i \in 0 .. n |-> f[i]]
    BY <1>6
  <2>2. ASSUME NEW i \in 0 .. n PROVE f[i] = IF i <= m THEN <<>> ELSE f[i - 1] \o Frame(i, ls[i])
    <3>1. CASE i = 0
      BY <1>6, <3>1
    <3>2. CASE i # 0
      BY <1>7, <3>2
    <3> QED BY <3>1, <3>2
  <2> QED BY <1>1, <2>1, <2>2, SMTT(30)
<1>9. All = [i \in 0 .. Len(ls) |-> IF i <= m THEN <<>> ELSE All[i - 1] \o Frame(i, ls[i])]
  <2>1. \E g : g = [i \in 0 .. Len(ls) |-> IF i <= m THEN <<>> ELSE g[i - 1] \o Frame(i, ls[i])]
    BY <1>8
  <2> QED BY <2>1
<1>10. FramesAfter(ls, m) = All[Len(ls)]
  BY DEF FramesAfter
<1> HIDE DEF All
<1>11. /\ All[0] = <<>>
       /\ \A i \in 1 .. n : All[i] = IF i <= m THEN <<>> ELSE All[i - 1] \o Frame(i, ls[i])
  BY <1>1, <1>9
<1>12. PICK T : T = {i \in 0 .. n : All[i] \in Seq(Bytes)}
  OBVIOUS
<1>13. 0 \in T
  <2>1. 0 \in 0 .. n /\ All[0] \in Seq(Bytes)
    BY <1>11, EmptySeq
  <2> QED BY <1>12, <2>1
<1>14. ASSUME NEW i \in 0 .. n - 1, i \in T PROVE i + 1 \in T
  <2>1. i + 1 \in 1 .. n /\ All[i] \in Seq(Bytes)
    BY <1>12, <1>14
  <2>2. All[i] \o Frame(i + 1, ls[i + 1]) \in Seq(Bytes)
    BY <1>2, <2>1, ConcatProperties
  <2>3. All[i + 1] = IF i + 1 <= m THEN <<>> ELSE All[i] \o Frame(i + 1, ls[i + 1])
    BY <1>11, <2>1
  <2>4. All[i + 1] \in Seq(Bytes)
    BY <2>2, <2>3, EmptySeq
  <2>5. i + 1 \in 0 .. n
    BY <2>1
  <2> QED BY <1>12, <2>4, <2>5
<1>15. \A i \in 0 .. n : i \in T
  BY <1>13, <1>14, InductionUpTo
<1>16. All = [i \in 0 .. n |-> All[i]]
  BY <1>1, <1>9
<1>17. All \in [0 .. n -> Seq(Bytes)]
  BY <1>12, <1>15, <1>16
<1>18. Frames(All, ls, m)
  BY <1>1, <1>11, <1>17 DEF Frames
<1> QED BY <1>10, <1>18

LEMMA LensElement ==
    ASSUME NEW ls \in Lens, NEW i \in 1 .. Len(ls)
    PROVE  /\ i \in 1 .. MaxMessages /\ ls[i] \in 1 .. MaxLen /\ Len(ls) \in Nat
           /\ Frame(i, ls[i]) \in Seq(Bytes)
<1>1. ls \in Seq(1 .. MaxLen) /\ Len(ls) \in Nat /\ Len(ls) <= MaxMessages
  BY DEF Lens
<1>2. ls[i] \in 1 .. MaxLen
  BY <1>1, ElementOfSeq
<1>3. i \in 1 .. MaxMessages
  BY <1>1, FramingAssumption
<1> QED BY <1>1, <1>2, <1>3, FrameType

LEMMA FramesAfterType ==
    ASSUME NEW ls \in Lens, NEW m \in Nat
    PROVE  FramesAfter(ls, m) \in Seq(Bytes)
<1>1. PICK f : Frames(f, ls, m) /\ FramesAfter(ls, m) = f[Len(ls)]
  BY FramesAfterUnfolds
<1>2. Len(ls) \in Nat
  BY DEF Lens
<1> QED BY <1>1, <1>2 DEF Frames

LEMMA FramesAfterLast ==
    ASSUME NEW ls \in Lens
    PROVE  FramesAfter(ls, Len(ls)) = <<>>
<1>1. Len(ls) \in Nat
  BY DEF Lens
<1>2. PICK f : Frames(f, ls, Len(ls)) /\ FramesAfter(ls, Len(ls)) = f[Len(ls)]
  BY <1>1, FramesAfterUnfolds
<1> QED BY <1>1, <1>2 DEF Frames

\* The frame of the next message comes first.
LEMMA FramesAfterNext ==
    ASSUME NEW ls \in Lens, NEW m \in Nat, m < Len(ls)
    PROVE  FramesAfter(ls, m) = Frame(m + 1, ls[m + 1]) \o FramesAfter(ls, m + 1)
<1>1. PICK n \in Nat : n = Len(ls) /\ m + 1 \in 1 .. n
  BY DEF Lens
<1>2. PICK f : Frames(f, ls, m) /\ FramesAfter(ls, m) = f[n]
  BY <1>1, FramesAfterUnfolds
<1>3. PICK g : Frames(g, ls, m + 1) /\ FramesAfter(ls, m + 1) = g[n]
  BY <1>1, FramesAfterUnfolds
<1>4. /\ f \in [0 .. n -> Seq(Bytes)] /\ f[0] = <<>>
      /\ \A i \in 1 .. n : f[i] = IF i <= m THEN <<>> ELSE f[i - 1] \o Frame(i, ls[i])
      /\ g \in [0 .. n -> Seq(Bytes)] /\ g[0] = <<>>
      /\ \A i \in 1 .. n : g[i] = IF i <= m + 1 THEN <<>> ELSE g[i - 1] \o Frame(i, ls[i])
  BY <1>1, <1>2, <1>3 DEF Frames
<1>5. PICK F \in Seq(Bytes) : F = Frame(m + 1, ls[m + 1])
  BY <1>1, LensElement
<1>6. PICK T : T = {i \in 0 .. n : i <= m \/ f[i] = F \o g[i]}
  OBVIOUS
<1>7. 0 \in T
  BY <1>6
<1>8. ASSUME NEW i \in 0 .. n - 1, i \in T PROVE i + 1 \in T
  <2>1. i + 1 \in 1 .. n /\ (i + 1) - 1 = i /\ i + 1 \in 0 .. n
    OBVIOUS
  <2>2. f[i + 1] = IF i + 1 <= m THEN <<>> ELSE f[i] \o Frame(i + 1, ls[i + 1])
    BY <1>4, <2>1
  <2>3. g[i + 1] = IF i + 1 <= m + 1 THEN <<>> ELSE g[i] \o Frame(i + 1, ls[i + 1])
    BY <1>4, <2>1
  <2>4. CASE i + 1 <= m
    BY <1>6, <2>1, <2>4
  <2>5. CASE i = m
    <3>1. f[i] = <<>>
      <4>1. CASE i = 0
        BY <1>4, <4>1
      <4>2. CASE i # 0
        BY <1>4, <2>5, <4>2
      <4> QED BY <4>1, <4>2
    <3>2. f[i + 1] = f[i] \o F
      <4>1. ~ (i + 1 <= m) /\ F = Frame(i + 1, ls[i + 1])
        BY <1>5, <2>5
      <4> QED BY <2>2, <4>1
    <3>3. g[i + 1] = <<>>
      <4>1. i + 1 <= m + 1
        BY <2>5
      <4> QED BY <2>3, <4>1
    <3>4. <<>> \o F = F \o <<>>
      BY ConcatEmptySeq
    <3>5. f[i + 1] = F \o g[i + 1]
      BY <3>1, <3>2, <3>3, <3>4, Zenon
    <3> QED BY <1>6, <2>1, <3>5
  <2>6. CASE i > m
    <3>1. ~ (i + 1 <= m) /\ ~ (i + 1 <= m + 1)
      BY <2>6
    <3>2. f[i] = F \o g[i]
      BY <1>6, <1>8, <2>6
    <3>3. PICK G, H : G = g[i] /\ H = Frame(i + 1, ls[i + 1])
      OBVIOUS
    <3>4. G \in Seq(Bytes) /\ H \in Seq(Bytes)
      <4>1. g[i] \in Seq(Bytes)
        BY <1>4, <2>1
      <4>2. H \in Seq(Bytes)
        BY <1>1, <2>1, <3>3, LensElement
      <4> QED BY <3>3, <4>1, <4>2
    <3>5. (F \o G) \o H = F \o (G \o H)
      BY ONLY <1>5, <3>4, ConcatAssociative
    <3>6. f[i + 1] = f[i] \o H
      BY <2>2, <3>1, <3>3, Zenon
    <3>7. g[i + 1] = G \o H
      BY <2>3, <3>1, <3>3, Zenon
    <3>8. f[i + 1] = F \o g[i + 1]
      BY <3>2, <3>3, <3>5, <3>6, <3>7, Zenon
    <3> QED BY <1>6, <2>1, <3>8
  <2> QED BY <2>4, <2>5, <2>6
<1>9. n \in T
  <2>1. \A i \in 0 .. n : i \in T
    BY <1>7, <1>8, InductionUpTo
  <2> QED BY <2>1
<1>10. f[n] = F \o g[n]
  BY <1>1, <1>6, <1>9
<1> QED BY <1>2, <1>3, <1>5, <1>10, Zenon

\* A message given to sendMsg adds its frame at the end.
LEMMA FramesAfterAppend ==
    ASSUME NEW ls \in Lens, NEW m \in Nat, NEW k \in 1 .. MaxLen, m <= Len(ls), Len(ls) < MaxMessages
    PROVE  /\ Append(ls, k) \in Lens
           /\ FramesAfter(Append(ls, k), m) = FramesAfter(ls, m) \o Frame(Len(ls) + 1, k)
<1> DEFINE ms == Append(ls, k)
<1>1. PICK n \in Nat : n = Len(ls) /\ ls \in Seq(1 .. MaxLen)
  BY DEF Lens
<1>2. ms \in Lens /\ Len(ms) = n + 1 /\ ms[n + 1] = k /\ \A i \in 1 .. n : ms[i] = ls[i]
  <2>1. ms \in Seq(1 .. MaxLen) /\ Len(ms) = n + 1 /\ ms[n + 1] = k /\ \A i \in 1 .. n : ms[i] = ls[i]
    BY <1>1, AppendProperties
  <2> QED BY <1>1, <2>1, FramingAssumption DEF Lens
<1> HIDE DEF ms
<1>3. PICK f : Frames(f, ls, m) /\ FramesAfter(ls, m) = f[n]
  BY <1>1, FramesAfterUnfolds
<1>4. PICK g : Frames(g, ms, m) /\ FramesAfter(ms, m) = g[n + 1]
  BY <1>2, FramesAfterUnfolds
<1>5. /\ f \in [0 .. n -> Seq(Bytes)] /\ f[0] = <<>>
      /\ \A i \in 1 .. n : f[i] = IF i <= m THEN <<>> ELSE f[i - 1] \o Frame(i, ls[i])
      /\ g \in [0 .. n + 1 -> Seq(Bytes)] /\ g[0] = <<>>
      /\ \A i \in 1 .. n + 1 : g[i] = IF i <= m THEN <<>> ELSE g[i - 1] \o Frame(i, ms[i])
  BY <1>1, <1>2, <1>3, <1>4 DEF Frames
<1>6. PICK T : T = {i \in 0 .. n : f[i] = g[i]}
  OBVIOUS
<1>7. 0 \in T
  BY <1>5, <1>6
<1>8. ASSUME NEW i \in 0 .. n - 1, i \in T PROVE i + 1 \in T
  <2>1. i + 1 \in 1 .. n /\ (i + 1) - 1 = i /\ i + 1 \in 0 .. n /\ i + 1 \in 1 .. n + 1
    OBVIOUS
  <2>2. f[i + 1] = IF i + 1 <= m THEN <<>> ELSE f[i] \o Frame(i + 1, ls[i + 1])
    BY <1>5, <2>1
  <2>3. g[i + 1] = IF i + 1 <= m THEN <<>> ELSE g[i] \o Frame(i + 1, ls[i + 1])
    BY <1>2, <1>5, <2>1
  <2>4. f[i] = g[i]
    BY <1>6, <1>8
  <2>5. f[i + 1] = g[i + 1]
    BY <2>2, <2>3, <2>4, Zenon
  <2> QED BY <1>6, <2>1, <2>5
<1>9. f[n] = g[n]
  <2>1. \A i \in 0 .. n : i \in T
    BY <1>7, <1>8, InductionUpTo
  <2> QED BY <1>6, <2>1
<1>10. g[n + 1] = g[n] \o Frame(n + 1, k)
  <2>1. n + 1 \in 1 .. n + 1 /\ (n + 1) - 1 = n /\ ~ (n + 1 <= m)
    BY <1>1
  <2> QED BY <1>2, <1>5, <2>1
<1> QED BY <1>1, <1>2, <1>3, <1>4, <1>9, <1>10 DEF ms

-------------------------------------------------------------------------------
(* What the receiver has read of the frames that are left                  *)

\* The rearrangements of a concatenation that the steps need.
Associates(p, q, r) == (p \o q) \o r = p \o (q \o r)
Rearranged(S, a, b, c, d) ==
    /\ a \o b \in Seq(S) /\ c \o d \in Seq(S) /\ b \o (c \o d) \in Seq(S)
    /\ ((a \o b) \o c) \o d = a \o (b \o (c \o d))
    /\ (a \o b) \o (c \o d) = a \o ((b \o c) \o d)
    /\ (a \o (b \o c)) \o d = a \o (b \o (c \o d))

LEMMA Concat3 ==
    ASSUME NEW S, NEW p \in Seq(S), NEW q \in Seq(S), NEW r \in Seq(S)
    PROVE  Associates(p, q, r)
  BY ConcatAssociative DEF Associates

LEMMA Concat4 ==
    ASSUME NEW S, NEW a \in Seq(S), NEW b \in Seq(S), NEW c \in Seq(S), NEW d \in Seq(S)
    PROVE  Rearranged(S, a, b, c, d)
<1>1. PICK x, y, z : x = c \o d /\ y = a \o b /\ z = b \o c
  OBVIOUS
<1>2. x \in Seq(S) /\ y \in Seq(S) /\ z \in Seq(S)
  BY <1>1, ConcatProperties
<1>3. b \o x \in Seq(S)
  BY <1>2, ConcatProperties
<1>4. Associates(y, c, d) /\ Associates(a, b, x) /\ Associates(b, c, d) /\ Associates(a, z, d)
  BY <1>2, Concat3
<1>5. (y \o c) \o d = y \o (c \o d) /\ (a \o b) \o x = a \o (b \o x)
      /\ (b \o c) \o d = b \o (c \o d) /\ (a \o z) \o d = a \o (z \o d)
  BY ONLY <1>4, Zenon DEF Associates
<1> QED BY ONLY <1>1, <1>2, <1>3, <1>5, Zenon DEF Rearranged

LEMMA NextFrame ==
    ASSUME NEW ls \in Lens, NEW m \in Nat, m < Len(ls)
    PROVE  /\ m + 1 \in 1 .. MaxMessages /\ ls[m + 1] \in 1 .. MaxLen
           /\ Header(ls[m + 1]) \in Seq(Bytes) /\ Len(Header(ls[m + 1])) = HeaderLen
           /\ Payload(m + 1, ls[m + 1]) \in Seq(Bytes) /\ Len(Payload(m + 1, ls[m + 1])) = ls[m + 1]
           /\ FramesAfter(ls, m + 1) \in Seq(Bytes)
           /\ FramesAfter(ls, m) =
                Header(ls[m + 1]) \o (Payload(m + 1, ls[m + 1]) \o FramesAfter(ls, m + 1))
<1>1. m + 1 \in 1 .. Len(ls)
  BY DEF Lens
<1>2. m + 1 \in 1 .. MaxMessages /\ ls[m + 1] \in 1 .. MaxLen
  BY <1>1, LensElement
<1>3. PICK H, P, F :
          H = Header(ls[m + 1]) /\ P = Payload(m + 1, ls[m + 1]) /\ F = FramesAfter(ls, m + 1)
  OBVIOUS
<1>4. H \in Seq(Bytes) /\ Len(H) = HeaderLen /\ P \in Seq(Bytes) /\ Len(P) = ls[m + 1]
  BY <1>2, <1>3, FrameType
<1>5. F \in Seq(Bytes)
  <2>1. m + 1 \in Nat
    OBVIOUS
  <2> QED BY <1>3, <2>1, FramesAfterType
<1>6. FramesAfter(ls, m) = (H \o P) \o F
  BY <1>3, FramesAfterNext DEF Frame
<1>7. (H \o P) \o F = H \o (P \o F)
  <2>1. Associates(H, P, F)
    BY ONLY <1>4, <1>5, Concat3
  <2> QED BY ONLY <2>1, Zenon DEF Associates
<1> QED BY <1>2, <1>3, <1>4, <1>5, <1>6, <1>7, Zenon

\* A complete header is the one of the next message.
LEMMA HeaderComplete ==
    ASSUME NEW ls \in Lens, NEW m \in 0 .. Len(ls), NEW h \in Seq(Bytes), NEW y \in Seq(Bytes),
           h \o y = FramesAfter(ls, m), Len(h) = HeaderLen
    PROVE  m < Len(ls) /\ HeaderValue(h) = ls[m + 1]
<1>1. m \in Nat /\ Len(ls) \in Nat
  BY DEF Lens
<1>2. m < Len(ls)
  <2>1. SUFFICES ASSUME m = Len(ls) PROVE FALSE
    BY <1>1
  <2>2. h \o y = <<>>
    BY <2>1, FramesAfterLast
  <2>3. Len(h \o y) = Len(h) + Len(y) /\ Len(y) \in Nat
    BY ConcatProperties
  <2>4. Len(h) + Len(y) = 0
    BY <2>2, <2>3
  <2> QED BY <2>3, <2>4, FramingAssumption
<1>3. PICK H, P, F :
          H = Header(ls[m + 1]) /\ P = Payload(m + 1, ls[m + 1]) /\ F = FramesAfter(ls, m + 1)
  OBVIOUS
<1>4. /\ H \in Seq(Bytes) /\ Len(H) = HeaderLen /\ P \in Seq(Bytes) /\ F \in Seq(Bytes)
      /\ h \o y = H \o (P \o F) /\ ls[m + 1] \in 1 .. MaxLen
  BY <1>1, <1>2, <1>3, NextFrame
<1>5. PICK z \in Seq(Bytes) : z = P \o F
  BY <1>4, ConcatProperties
<1>6. h = H
  <2>1. h \o y = H \o z /\ Len(h) = Len(H)
    BY <1>4, <1>5
  <2> QED BY <1>4, <2>1, SameLengthPrefix
<1>7. ls[m + 1] \in 0 .. MaxLen
  BY <1>4, MaxLenNat
<1> QED BY <1>2, <1>3, <1>6, <1>7, HeaderValueOfHeader

\* The bytes of an incomplete header are digits, and more bytes follow them.
LEMMA HeaderIncomplete ==
    ASSUME NEW ls \in Lens, NEW m \in 0 .. Len(ls), NEW h \in Seq(Bytes), NEW y \in Seq(Bytes),
           h \o y = FramesAfter(ls, m), Len(h) < HeaderLen
    PROVE  h \in Seq(DigitBytes) /\ (y = <<>> => h = <<>>)
<1>1. m \in Nat /\ Len(ls) \in Nat
  BY DEF Lens
<1>2. CASE m = Len(ls)
  <2>1. h \o y = <<>>
    BY <1>2, FramesAfterLast
  <2>2. h = <<>>
    BY <2>1, ConcatEqualIffEmpty
  <2> QED BY <2>2, EmptySeq
<1>3. CASE m < Len(ls)
  <2>1. PICK H, P, F :
            H = Header(ls[m + 1]) /\ P = Payload(m + 1, ls[m + 1]) /\ F = FramesAfter(ls, m + 1)
    OBVIOUS
  <2>2. /\ H \in Seq(Bytes) /\ Len(H) = HeaderLen /\ P \in Seq(Bytes) /\ F \in Seq(Bytes)
        /\ h \o y = H \o (P \o F) /\ ls[m + 1] \in 1 .. MaxLen
    BY <1>1, <1>3, <2>1, NextFrame
  <2>3. PICK z \in Seq(Bytes) : z = P \o F
    BY <2>2, ConcatProperties
  <2>4. PICK c : c = After(H, Len(h))
    OBVIOUS
  <2>5. c \in Seq(Bytes) /\ Len(c) = Len(H) - Len(h) /\ H = h \o c /\ y = c \o z
    <3>1. Len(h) \in Nat /\ HeaderLen \in Nat
      BY FramingAssumption
    <3>2. h \o y = H \o z /\ Len(h) <= Len(H)
      BY <2>2, <2>3, <3>1
    <3>3. CutTwice(Bytes, h, y, H, z, c)
      BY <2>2, <2>4, <3>2, PrefixOfConcat
    <3> QED BY <3>3 DEF CutTwice
  <2>6. h \in Seq(DigitBytes)
    <3>1. ASSUME NEW i \in 1 .. Len(h) PROVE h[i] \in DigitBytes
      <4>1. H[i] = h[i] /\ i \in 1 .. Len(H)
        BY <2>2, <2>5, ConcatProperties
      <4>2. H \in Seq(DigitBytes)
        BY <2>1, <2>2, HeaderType, MaxLenNat
      <4>3. H[i] \in DigitBytes
        BY <4>1, <4>2, ElementOfSeq
      <4> QED BY <4>1, <4>3
    <3> QED BY <3>1
  <2>7. y # <<>>
    <3>1. Len(c) # 0 /\ Len(c) \in Nat
      BY <2>2, <2>5, FramingAssumption
    <3>2. c # <<>>
      BY <3>1, EmptySeq
    <3> QED BY <2>5, <3>2, ConcatEqualIffEmpty
  <2> QED BY <2>6, <2>7
<1> QED BY <1>1, <1>2, <1>3

\* A body of the length of the header is the one of the next message.
LEMMA BodyComplete ==
    ASSUME NEW ls \in Lens, NEW m \in 0 .. Len(ls),
           NEW h \in Seq(Bytes), NEW b \in Seq(Bytes), NEW y \in Seq(Bytes), m < Len(ls),
           h \o (b \o y) = FramesAfter(ls, m), Len(h) = HeaderLen, Len(b) = ls[m + 1]
    PROVE  b = Payload(m + 1, ls[m + 1]) /\ y = FramesAfter(ls, m + 1)
<1>1. m \in Nat /\ Len(ls) \in Nat
  BY DEF Lens
<1>2. PICK H, P, F :
          H = Header(ls[m + 1]) /\ P = Payload(m + 1, ls[m + 1]) /\ F = FramesAfter(ls, m + 1)
  OBVIOUS
<1>3. /\ H \in Seq(Bytes) /\ Len(H) = HeaderLen /\ P \in Seq(Bytes) /\ F \in Seq(Bytes)
      /\ h \o (b \o y) = H \o (P \o F) /\ Len(P) = ls[m + 1]
  BY <1>1, <1>2, NextFrame
<1>4. PICK z \in Seq(Bytes) : z = P \o F
  BY <1>3, ConcatProperties
<1>5. PICK x \in Seq(Bytes) : x = b \o y
  BY ConcatProperties
<1>6. x = z
  <2>1. h \o x = H \o z /\ Len(h) = Len(H)
    BY <1>3, <1>4, <1>5
  <2> QED BY <1>3, <2>1, SameLengthPrefix
<1>7. b \o y = P \o F /\ Len(b) = Len(P)
  BY <1>3, <1>4, <1>5, <1>6
<1>8. b = P /\ y = F
  BY <1>3, <1>7, SameLengthPrefix
<1> QED BY <1>2, <1>8

\* More bytes follow an incomplete body.
LEMMA BodyIncomplete ==
    ASSUME NEW ls \in Lens, NEW m \in 0 .. Len(ls),
           NEW h \in Seq(Bytes), NEW b \in Seq(Bytes), NEW y \in Seq(Bytes), m < Len(ls),
           h \o (b \o y) = FramesAfter(ls, m), Len(h) = HeaderLen, Len(b) < ls[m + 1]
    PROVE  y # <<>>
<1>1. m \in Nat /\ Len(ls) \in Nat
  BY DEF Lens
<1>2. PICK H, P, F :
          H = Header(ls[m + 1]) /\ P = Payload(m + 1, ls[m + 1]) /\ F = FramesAfter(ls, m + 1)
  OBVIOUS
<1>3. /\ H \in Seq(Bytes) /\ Len(H) = HeaderLen /\ P \in Seq(Bytes) /\ F \in Seq(Bytes)
      /\ h \o (b \o y) = H \o (P \o F) /\ Len(P) = ls[m + 1]
  BY <1>1, <1>2, NextFrame
<1>4. PICK z \in Seq(Bytes) : z = P \o F /\ Len(z) = Len(P) + Len(F)
  BY <1>3, ConcatProperties
<1>5. PICK x \in Seq(Bytes) : x = b \o y /\ Len(x) = Len(b) + Len(y)
  BY ConcatProperties
<1>6. x = z
  <2>1. h \o x = H \o z /\ Len(h) = Len(H)
    BY <1>3, <1>4, <1>5
  <2> QED BY <1>3, <2>1, SameLengthPrefix
<1>7. Len(b) \in Nat /\ Len(y) \in Nat /\ Len(F) \in Nat /\ Len(P) \in Nat
  BY <1>3
<1>8. Len(y) # 0
  BY <1>3, <1>4, <1>5, <1>6, <1>7
<1> QED BY <1>8, EmptySeq

-------------------------------------------------------------------------------
(* The inductive invariant                                                 *)

Positive == {i \in DOMAIN results : results[i].ret > 0}

\* The calls of recvMsg that delivered a message come first; after one that
\* did not, the connection gives nothing any more.
ResultsInv ==
    /\ NumReceived \in 0 .. Len(lens)
    /\ Positive = 1 .. NumReceived
    /\ ~ AtEnd => NumReceived = Len(results)

EndsInv ==
    /\ failed => ~ sendOpen
    /\ ~ sendOpen => out = <<>>
    /\ dead => net = <<>>

\* What was read of the next frame and what is in flight are the beginning of
\* the frames not received; rest is what follows, to be sent or lost.
InFlight(rest) ==
    /\ rest \in Seq(Bytes)
    /\ hdr \o (body \o (net \o rest)) = FramesAfter(lens, NumReceived)
    /\ ~ dead /\ ~ failed => rest = out
StreamInv == \E rest : InFlight(rest)

PhaseInv ==
    /\ phase = "header" => body = <<>> /\ Len(hdr) < HeaderLen
    /\ phase \in {"idle", "closed"} => hdr = <<>> /\ body = <<>>
    /\ phase = "body" =>
        \/ Len(hdr) = HeaderLen /\ NumReceived < Len(lens) /\ len = lens[NumReceived + 1]
        \/ AtEnd /\ (dead \/ failed)

Inv == TypeOK /\ DeliveredInOrder /\ ResultsInv /\ EndsInv /\ StreamInv /\ PhaseInv

LEMMA LensType == ASSUME TypeOK PROVE lens \in Lens /\ Len(lens) \in Nat
  BY DEF TypeOK, Lens

LEMMA InvInit == ASSUME Init PROVE Inv
<1> USE DEF Init
<1>1. TypeOK
  <2>1. \A S : <<>> \in Seq(S) /\ Len(<<>>) = 0
    BY EmptySeq
  <2>2. 0 \in 0 .. MaxLen
    BY MaxLenNat
  <2>3. /\ lens \in Seq(1 .. MaxLen) /\ out \in Seq(Bytes) /\ net \in Seq(Bytes)
        /\ hdr \in Seq(Bytes) /\ body \in Seq(Bytes)
        /\ results \in Seq([ret : -1 .. MaxLen, msg : Seq(Bytes)])
    BY <2>1, Zenon
  <2>4. Len(lens) <= MaxMessages /\ Len(net) <= NetSize /\ Len(hdr) <= HeaderLen
    BY FramingAssumption
  <2> QED BY <2>2, <2>3, <2>4 DEF TypeOK
<1>2. NumReceived = 0 /\ Positive = {}
  <2>1. DOMAIN results = {}
    OBVIOUS
  <2>2. {i \in DOMAIN results : results[i].ret > 0} = {}
    BY <2>1
  <2> QED BY <2>2, FS_EmptySet DEF NumReceived, Positive
<1>3. DeliveredInOrder
  BY DEF DeliveredInOrder
<1>4. ResultsInv
  BY <1>2 DEF ResultsInv
<1>5. EndsInv
  BY DEF EndsInv
<1>6. StreamInv
  <2>1. FramesAfter(lens, NumReceived) = <<>>
    <3>1. lens \in Lens /\ NumReceived = Len(lens)
      BY <1>1, <1>2, LensType
    <3> QED BY <3>1, FramesAfterLast
  <2>2. <<>> \o (<<>> \o (<<>> \o <<>>)) = <<>> /\ <<>> \in Seq(Bytes)
    BY EmptySeq, ConcatEmptySeq
  <2>3. InFlight(<<>>)
    BY <2>1, <2>2, Zenon DEF InFlight
  <2> QED BY <2>3 DEF StreamInv
<1>7. PhaseInv
  BY DEF PhaseInv
<1> QED BY <1>1, <1>3, <1>4, <1>5, <1>6, <1>7 DEF Inv

\* Steps of the sender and of the network leave the receiver alone.
LEMMA ReceiverKept ==
    ASSUME ResultsInv, results' = results
    PROVE  NumReceived' = NumReceived /\ Positive' = Positive
  BY DEF NumReceived, Positive

LEMMA SendCallInv == ASSUME Inv, NEW n \in 1 .. MaxLen, SendCall(n) PROVE Inv'
<1>1. /\ sendOpen /\ out = <<>> /\ Len(lens) < MaxMessages
      /\ lens' = Append(lens, n) /\ out' = Frame(Len(lens) + 1, n)
      /\ sendOpen' = sendOpen /\ failed' = failed /\ net' = net /\ dead' = dead
      /\ phase' = phase /\ hdr' = hdr /\ len' = len /\ body' = body /\ results' = results
  BY DEF SendCall, receiver
<1>2. lens \in Lens /\ Len(lens) \in Nat /\ NumReceived \in 0 .. Len(lens)
  BY LensType DEF Inv, ResultsInv
<1>3. /\ lens' \in Lens /\ Len(lens') = Len(lens) + 1
      /\ \A i \in 1 .. Len(lens) : lens'[i] = lens[i]
      /\ FramesAfter(lens', NumReceived) = FramesAfter(lens, NumReceived) \o Frame(Len(lens) + 1, n)
  <2>1. NumReceived \in Nat /\ NumReceived <= Len(lens)
    BY <1>2
  <2>2. /\ Append(lens, n) \in Lens
        /\ FramesAfter(Append(lens, n), NumReceived) =
             FramesAfter(lens, NumReceived) \o Frame(Len(lens) + 1, n)
    BY <1>1, <1>2, <2>1, FramesAfterAppend
  <2>3. lens \in Seq(1 .. MaxLen)
    BY DEF Inv, TypeOK
  <2> QED BY <1>1, <2>2, <2>3, AppendProperties
<1>4. Frame(Len(lens) + 1, n) \in Seq(Bytes)
  <2>1. Len(lens) + 1 \in 1 .. MaxMessages
    BY <1>1, <1>2, FramingAssumption
  <2> QED BY <2>1, FrameType
<1>5. NumReceived' = NumReceived /\ Positive' = Positive
  BY <1>1, ReceiverKept DEF Inv
<1>6. AtEnd' = AtEnd
  BY <1>1 DEF AtEnd
<1>7. TypeOK'
  BY <1>1, <1>3, <1>4 DEF Inv, TypeOK, Lens
<1>8. DeliveredInOrder'
  <2>1. ASSUME NEW i \in DOMAIN results, results[i].ret > 0
        PROVE  i <= Len(lens') /\ results[i] = [ret |-> lens'[i], msg |-> Payload(i, lens'[i])]
    <3>1. i <= Len(lens) /\ results[i] = [ret |-> lens[i], msg |-> Payload(i, lens[i])]
      BY <2>1 DEF Inv, DeliveredInOrder
    <3>2. i \in 1 .. Len(lens)
      BY <1>2, <3>1, SMTT(30) DEF Inv, TypeOK
    <3> QED BY <1>2, <1>3, <3>1, <3>2
  <2> QED BY <1>1, <2>1 DEF DeliveredInOrder
<1>9. ResultsInv'
  BY <1>1, <1>2, <1>3, <1>5, <1>6 DEF Inv, ResultsInv
<1>10. EndsInv'
  BY <1>1 DEF Inv, EndsInv
<1>11. StreamInv'
  <2>1. PICK rest : InFlight(rest)
    BY DEF Inv, StreamInv
  <2>2. PICK F : F = Frame(Len(lens) + 1, n)
    OBVIOUS
  <2>3. rest \in Seq(Bytes) /\ F \in Seq(Bytes)
    BY <1>4, <2>1, <2>2 DEF InFlight
  <2>4. hdr \o (body \o (net \o (rest \o F))) = (hdr \o (body \o (net \o rest))) \o F
    <3>1. hdr \in Seq(Bytes) /\ body \in Seq(Bytes) /\ net \in Seq(Bytes)
      BY DEF Inv, TypeOK
    <3>2. PICK x, y : x = net \o rest /\ y = body \o x
      OBVIOUS
    <3>3. x \in Seq(Bytes) /\ y \in Seq(Bytes)
      BY <2>3, <3>1, <3>2, ConcatProperties
    <3>4. Associates(net, rest, F) /\ Associates(body, x, F) /\ Associates(hdr, y, F)
      BY <2>3, <3>1, <3>3, Concat3
    <3>5. (net \o rest) \o F = net \o (rest \o F) /\ (body \o x) \o F = body \o (x \o F)
          /\ (hdr \o y) \o F = hdr \o (y \o F)
      BY ONLY <3>4, Zenon DEF Associates
    <3> QED BY ONLY <3>2, <3>5, Zenon
  <2>5. hdr \o (body \o (net \o (rest \o F))) = FramesAfter(lens', NumReceived)
    BY <1>3, <2>1, <2>2, <2>4, Zenon DEF InFlight
  <2>6. rest \o F \in Seq(Bytes)
    BY <2>3, ConcatProperties
  <2>7. ~ dead /\ ~ failed => rest \o F = out'
    <3>1. ~ dead /\ ~ failed => rest = <<>>
      BY <1>1, <2>1 DEF InFlight
    <3>2. <<>> \o F = F
      BY <2>3, ConcatEmptySeq
    <3> QED BY <1>1, <2>2, <3>1, <3>2, Zenon
  <2>8. InFlight(rest \o F)'
    BY <1>1, <1>5, <2>5, <2>6, <2>7, Zenon DEF InFlight
  <2> QED BY <2>8 DEF StreamInv
<1>12. PhaseInv'
  <2>1. NumReceived < Len(lens) => lens'[NumReceived + 1] = lens[NumReceived + 1]
    BY <1>2, <1>3
  <2> QED BY <1>1, <1>2, <1>3, <1>5, <1>6, <2>1 DEF Inv, PhaseInv
<1> QED BY <1>7, <1>8, <1>9, <1>10, <1>11, <1>12 DEF Inv

LEMMA SendSomeInv == ASSUME Inv, NEW k \in 1 .. NetSize, SendSome(k) PROVE Inv'
<1>1. /\ sendOpen /\ ~ dead /\ k <= Len(out) /\ k <= NetSize - Len(net)
      /\ net' = net \o First(out, k) /\ out' = After(out, k)
      /\ lens' = lens /\ sendOpen' = sendOpen /\ failed' = failed /\ dead' = dead
      /\ phase' = phase /\ hdr' = hdr /\ len' = len /\ body' = body /\ results' = results
  BY DEF SendSome, receiver
<1>2. hdr \in Seq(Bytes) /\ body \in Seq(Bytes) /\ net \in Seq(Bytes) /\ out \in Seq(Bytes)
  BY DEF Inv, TypeOK
<1>3. PICK f, a : f = First(out, k) /\ a = After(out, k)
  OBVIOUS
<1>4. f \in Seq(Bytes) /\ Len(f) = k /\ a \in Seq(Bytes) /\ f \o a = out
  <2>1. k \in 0 .. Len(out)
    BY <1>1, <1>2, FramingAssumption
  <2> QED BY <1>2, <1>3, <2>1, FirstAfter
<1>5. net' \in Seq(Bytes) /\ Len(net') = Len(net) + k
  <2>1. net \o f \in Seq(Bytes) /\ Len(net \o f) = Len(net) + Len(f)
    BY <1>2, <1>4, ConcatProperties
  <2> QED BY <1>1, <1>3, <1>4, <2>1
<1>6. NumReceived' = NumReceived /\ Positive' = Positive
  BY <1>1, ReceiverKept DEF Inv
<1>7. ~ AtEnd /\ ~ AtEnd'
  BY <1>1 DEF AtEnd
<1>8. TypeOK'
  <2>1. Len(net') <= NetSize
    BY <1>1, <1>2, <1>5, FramingAssumption
  <2> QED BY <1>1, <1>3, <1>4, <1>5, <2>1 DEF Inv, TypeOK
<1>9. DeliveredInOrder'
  BY <1>1 DEF Inv, DeliveredInOrder
<1>10. ResultsInv'
  BY <1>1, <1>6, <1>7 DEF Inv, ResultsInv
<1>11. EndsInv'
  BY <1>1 DEF Inv, EndsInv
<1>12. StreamInv'
  <2>1. PICK rest : InFlight(rest)
    BY DEF Inv, StreamInv
  <2>2. rest = out /\ ~ failed
    BY <1>1, <2>1 DEF Inv, EndsInv, InFlight
  <2>3. (net \o f) \o a = net \o (f \o a)
    <3>1. Associates(net, f, a)
      BY <1>2, <1>4, Concat3
    <3> QED BY <3>1 DEF Associates
  <2>4. net' \o a = net \o rest
    BY <1>1, <1>3, <1>4, <2>2, <2>3, Zenon
  <2>5. InFlight(a)'
    BY <1>1, <1>3, <1>4, <1>6, <2>1, <2>4, Zenon DEF InFlight
  <2> QED BY <2>5 DEF StreamInv
<1>13. PhaseInv'
  BY <1>1, <1>6, <1>7 DEF Inv, PhaseInv
<1> QED BY <1>8, <1>9, <1>10, <1>11, <1>12, <1>13 DEF Inv

\* The sender's end closes, after a failure or not, or the connection breaks.
LEMMA EndingInv ==
    ASSUME Inv, SendFails \/ CloseBySender \/ Reset
    PROVE  Inv'
<1>1. /\ lens' = lens
      /\ phase' = phase /\ hdr' = hdr /\ len' = len /\ body' = body /\ results' = results
  BY DEF SendFails, CloseBySender, Reset, sender, receiver
<1>2. NumReceived' = NumReceived /\ Positive' = Positive
  BY <1>1, ReceiverKept DEF Inv
<1>3. (AtEnd => AtEnd') /\ (dead \/ failed => dead' \/ failed')
  BY DEF SendFails, CloseBySender, Reset, sender, AtEnd
<1>4. TypeOK'
  <2>1. net' \in Seq(Bytes) /\ Len(net') <= NetSize /\ out' \in Seq(Bytes)
    <3>1. CASE SendFails
      BY <3>1, EmptySeq DEF SendFails, Inv, TypeOK
    <3>2. CASE CloseBySender
      BY <3>2 DEF CloseBySender, Inv, TypeOK
    <3>3. CASE Reset
      BY <3>3, EmptySeq, FramingAssumption DEF Reset, sender, Inv, TypeOK
    <3> QED BY <3>1, <3>2, <3>3
  <2>2. sendOpen' \in BOOLEAN /\ failed' \in BOOLEAN /\ dead' \in BOOLEAN
    BY DEF SendFails, CloseBySender, Reset, sender, Inv, TypeOK
  <2> QED BY <1>1, <2>1, <2>2 DEF Inv, TypeOK
<1>5. DeliveredInOrder'
  BY <1>1 DEF Inv, DeliveredInOrder
<1>6. ResultsInv'
  BY <1>1, <1>2, <1>3 DEF Inv, ResultsInv
<1>7. EndsInv'
  BY DEF SendFails, CloseBySender, Reset, sender, Inv, EndsInv
<1>8. StreamInv'
  <2>1. PICK rest : InFlight(rest)
    BY DEF Inv, StreamInv
  <2>2. CASE SendFails
    <3>1. net' = net /\ failed'
      BY <2>2 DEF SendFails
    <3>2. InFlight(rest)'
      BY <1>1, <1>2, <2>1, <3>1 DEF InFlight
    <3> QED BY <3>2 DEF StreamInv
  <2>3. CASE CloseBySender
    <3>1. net' = net /\ failed' = failed /\ dead' = dead /\ out' = out
      BY <2>3 DEF CloseBySender
    <3>2. InFlight(rest)'
      BY <1>1, <1>2, <2>1, <3>1 DEF InFlight
    <3> QED BY <3>2 DEF StreamInv
  <2>4. CASE Reset
    <3>1. net' = <<>> /\ dead'
      BY <2>4 DEF Reset
    <3>2. PICK lost : lost = net \o rest
      OBVIOUS
    <3>3. lost \in Seq(Bytes)
      BY <2>1, <3>2, ConcatProperties DEF Inv, TypeOK, InFlight
    <3>4. <<>> \o lost = lost
      BY <3>3, ConcatEmptySeq
    <3>5. InFlight(lost)'
      BY <1>1, <1>2, <2>1, <3>1, <3>2, <3>3, <3>4, Zenon DEF InFlight
    <3> QED BY <3>5 DEF StreamInv
  <2> QED BY <2>2, <2>3, <2>4
<1>9. PhaseInv'
  BY <1>1, <1>2, <1>3 DEF Inv, PhaseInv
<1> QED BY <1>4, <1>5, <1>6, <1>7, <1>8, <1>9 DEF Inv

LEMMA RecvCallInv == ASSUME Inv, RecvCall PROVE Inv'
<1>1. /\ phase = "idle" /\ phase' = "header"
      /\ lens' = lens /\ out' = out /\ sendOpen' = sendOpen /\ failed' = failed
      /\ net' = net /\ dead' = dead /\ hdr' = hdr /\ len' = len /\ body' = body /\ results' = results
  BY DEF RecvCall, sender
<1>2. NumReceived' = NumReceived /\ Positive' = Positive /\ AtEnd' = AtEnd
  BY <1>1, ReceiverKept DEF Inv, AtEnd
<1>3. TypeOK'
  BY <1>1 DEF Inv, TypeOK
<1>4. DeliveredInOrder' /\ ResultsInv' /\ EndsInv'
  BY <1>1, <1>2 DEF Inv, DeliveredInOrder, ResultsInv, EndsInv
<1>5. StreamInv'
  <2>1. PICK rest : InFlight(rest)
    BY DEF Inv, StreamInv
  <2>2. InFlight(rest)'
    BY <1>1, <1>2, <2>1 DEF InFlight
  <2> QED BY <2>2 DEF StreamInv
<1>6. PhaseInv'
  <2>1. hdr = <<>> /\ body = <<>>
    BY <1>1 DEF Inv, PhaseInv
  <2> QED BY <1>1, <2>1, FramingAssumption DEF PhaseInv
<1> QED BY <1>3, <1>4, <1>5, <1>6 DEF Inv

LEMMA EmptyHeaderValue == HeaderValue(<<>>) = 0
<1>1. <<>> \in Seq(DigitBytes)
  BY EmptySeq
<1>2. PICK value \in [0 .. HeaderLen -> Nat] :
          /\ value[0] = 0
          /\ \A i \in 1 .. HeaderLen : value[i] = value[i - 1] * Base + DigitRead(<<>>, i)
          /\ HeaderValue(<<>>) = value[HeaderLen]
  BY <1>1, HeaderValueUnfolds
<1>3. \A i \in 1 .. HeaderLen : DigitRead(<<>>, i) = 0
  BY FramingAssumption DEF DigitRead
<1>4. PICK T : T = {i \in 0 .. HeaderLen : value[i] = 0}
  OBVIOUS
<1>5. 0 \in T
  BY <1>2, <1>4, FramingAssumption
<1>6. ASSUME NEW i \in 0 .. HeaderLen - 1, i \in T PROVE i + 1 \in T
  <2>1. i + 1 \in 1 .. HeaderLen /\ i + 1 \in 0 .. HeaderLen /\ (i + 1) - 1 = i
    BY FramingAssumption
  <2>2. value[i + 1] = 0 * Base + 0
    BY <1>2, <1>3, <1>4, <1>6, <2>1
  <2> QED BY <1>4, <2>1, <2>2, FramingAssumption
<1>7. \A i \in 0 .. HeaderLen : i \in T
  BY <1>5, <1>6, InductionUpTo, FramingAssumption
<1> QED BY <1>2, <1>4, <1>7, FramingAssumption

\* What a result of recvMsg does to the count of messages received.
Counted(ret, msg) ==
    /\ results' \in Seq([ret : -1 .. MaxLen, msg : Seq(Bytes)])
    /\ Len(results') = Len(results) + 1
    /\ \A i \in 1 .. Len(results) : results'[i] = results[i]
    /\ results'[Len(results) + 1] = [ret |-> ret, msg |-> msg]
    /\ ret <= 0 => NumReceived' = NumReceived /\ Positive' = Positive
    /\ ret > 0 /\ ~ AtEnd =>
         NumReceived' = NumReceived + 1 /\ Positive' = 1 .. NumReceived + 1

LEMMA ReturnCounts ==
    ASSUME NEW ret \in -1 .. MaxLen, NEW msg \in Seq(Bytes), TypeOK, ResultsInv,
           results' = Append(results, [ret |-> ret, msg |-> msg])
    PROVE  Counted(ret, msg)
<1>1. PICK R, r : R = [ret : -1 .. MaxLen, msg : Seq(Bytes)] /\ r = [ret |-> ret, msg |-> msg]
  OBVIOUS
<1>2. results \in Seq(R) /\ r \in R /\ r.ret = ret /\ Len(results) \in Nat
  BY <1>1 DEF TypeOK
<1>3. /\ results' \in Seq(R) /\ Len(results') = Len(results) + 1
      /\ \A i \in 1 .. Len(results) : results'[i] = results[i]
      /\ results'[Len(results) + 1] = r
  BY <1>1, <1>2, AppendProperties
<1>4. DOMAIN results = 1 .. Len(results) /\ DOMAIN results' = 1 .. Len(results) + 1
  BY <1>2, <1>3
<1>5. Positive = 1 .. NumReceived /\ NumReceived \in Nat
  BY LensType DEF ResultsInv
<1>6. ASSUME ret <= 0 PROVE NumReceived' = NumReceived /\ Positive' = Positive
  <2>1. ASSUME NEW i \in 1 .. Len(results) + 1 PROVE results'[i].ret > 0 <=> i \in Positive
    <3>1. CASE i \in 1 .. Len(results)
      BY <1>3, <1>4, <3>1 DEF Positive
    <3>2. CASE i = Len(results) + 1
      BY <1>2, <1>3, <1>4, <1>6, <3>2 DEF Positive
    <3> QED BY <1>2, <3>1, <3>2
  <2>2. Positive \subseteq 1 .. Len(results) + 1
    BY <1>2, <1>4 DEF Positive
  <2>3. {i \in DOMAIN results' : results'[i].ret > 0} = Positive
    BY <1>4, <2>1, <2>2
  <2> QED BY <2>3 DEF Positive, NumReceived
<1>7. ASSUME ret > 0, ~ AtEnd
      PROVE  NumReceived' = NumReceived + 1 /\ Positive' = 1 .. NumReceived + 1
  <2>1. NumReceived = Len(results)
    BY <1>7 DEF ResultsInv
  <2>2. ASSUME NEW i \in 1 .. Len(results) + 1 PROVE results'[i].ret > 0
    <3>1. CASE i \in 1 .. Len(results)
      BY <1>3, <1>4, <1>5, <2>1, <3>1 DEF Positive
    <3>2. CASE i = Len(results) + 1
      BY <1>2, <1>3, <1>7, <3>2
    <3> QED BY <1>2, <3>1, <3>2
  <2>3. {i \in DOMAIN results' : results'[i].ret > 0} = 1 .. Len(results) + 1
    BY <1>4, <2>2
  <2>4. Cardinality(1 .. Len(results) + 1) = Len(results) + 1
    BY <1>2, FS_Interval
  <2> QED BY <2>1, <2>3, <2>4 DEF Positive, NumReceived
<1> QED BY <1>1, <1>3, <1>6, <1>7 DEF Counted

\* Bytes that are read move from the front of net to the end of what was read.
LEMMA BytesRead ==
    ASSUME Inv, NEW k \in 1 .. NetSize, k <= Len(net)
    PROVE  LET f == First(net, k)
               a == After(net, k)
           IN  /\ f \in Seq(Bytes) /\ Len(f) = k /\ a \in Seq(Bytes) /\ Len(a) <= NetSize
               /\ \A rest \in Seq(Bytes) :
                    /\ a \o rest \in Seq(Bytes)
                    /\ body \o (net \o rest) = (body \o f) \o (a \o rest)
                    /\ hdr \o (net \o rest) = (hdr \o f) \o (a \o rest)
<1>1. PICK f, a : f = First(net, k) /\ a = After(net, k)
  OBVIOUS
<1>2. hdr \in Seq(Bytes) /\ body \in Seq(Bytes) /\ net \in Seq(Bytes) /\ Len(net) <= NetSize
  BY DEF Inv, TypeOK
<1>3. f \in Seq(Bytes) /\ Len(f) = k /\ a \in Seq(Bytes) /\ Len(a) = Len(net) - k /\ f \o a = net
  <2>1. k \in 0 .. Len(net)
    BY <1>2, FramingAssumption
  <2> QED BY <1>1, <1>2, <2>1, FirstAfter
<1>4. Len(a) <= NetSize
  BY <1>2, <1>3, FramingAssumption
<1>5. ASSUME NEW rest \in Seq(Bytes)
      PROVE  /\ a \o rest \in Seq(Bytes)
             /\ body \o (net \o rest) = (body \o f) \o (a \o rest)
             /\ hdr \o (net \o rest) = (hdr \o f) \o (a \o rest)
  <2>1. Rearranged(Bytes, body, f, a, rest) /\ Rearranged(Bytes, hdr, f, a, rest)
    BY <1>2, <1>3, Concat4
  <2>2. /\ a \o rest \in Seq(Bytes)
        /\ (body \o f) \o (a \o rest) = body \o ((f \o a) \o rest)
        /\ (hdr \o f) \o (a \o rest) = hdr \o ((f \o a) \o rest)
    BY ONLY <2>1, Zenon DEF Rearranged
  <2> QED BY ONLY <1>3, <2>2, Zenon
<1> QED BY <1>1, <1>3, <1>4, <1>5, Zenon

\* A header is complete: its length is that of the next message.
LEMMA RecvHeaderInv == ASSUME Inv, NEW k \in 1 .. NetSize, RecvHeader(k) PROVE Inv'
<1>1. PICK f, a : f = First(net, k) /\ a = After(net, k)
  OBVIOUS
<1>2. PICK h : h = hdr \o f
  OBVIOUS
<1>3. /\ phase = "header" /\ k <= HeaderLen - Len(hdr) /\ k <= Len(net)
      /\ IF Len(h) = HeaderLen THEN StartBody(h)
         ELSE hdr' = h /\ phase' = phase /\ len' = len /\ body' = body /\ results' = results
      /\ net' = a
      /\ lens' = lens /\ out' = out /\ sendOpen' = sendOpen /\ failed' = failed /\ dead' = dead
  BY <1>1, <1>2 DEF RecvHeader, sender
<1>4. hdr \in Seq(Bytes) /\ Len(hdr) \in Nat /\ net \in Seq(Bytes) /\ Len(net) \in Nat
  BY DEF Inv, TypeOK
<1>5. body = <<>> /\ Len(hdr) < HeaderLen
  BY <1>3 DEF Inv, PhaseInv
<1>6. /\ f \in Seq(Bytes) /\ Len(f) = k /\ a \in Seq(Bytes) /\ Len(a) <= NetSize
      /\ \A rest \in Seq(Bytes) :
            a \o rest \in Seq(Bytes) /\ hdr \o (net \o rest) = (hdr \o f) \o (a \o rest)
  BY <1>1, <1>3, BytesRead
<1>7. h \in Seq(Bytes) /\ Len(h) = Len(hdr) + k
  <2>1. hdr \o f \in Seq(Bytes) /\ Len(hdr \o f) = Len(hdr) + Len(f)
    BY <1>4, <1>6, ConcatProperties
  <2> QED BY <1>2, <1>6, <2>1
<1>8. net # <<>> /\ ~ AtEnd /\ ~ dead
  <2>1. net # <<>>
    BY <1>3, FramingAssumption
  <2> QED BY <2>1 DEF AtEnd, Inv, EndsInv
<1>9. PICK rest : InFlight(rest)
  BY DEF Inv, StreamInv
<1>10. /\ rest \in Seq(Bytes) /\ a \o rest \in Seq(Bytes)
       /\ h \o (a \o rest) = FramesAfter(lens, NumReceived)
  <2>1. rest \in Seq(Bytes) /\ hdr \o (<<>> \o (net \o rest)) = FramesAfter(lens, NumReceived)
    BY <1>5, <1>9 DEF InFlight
  <2>2. net \o rest \in Seq(Bytes)
    BY <1>4, <2>1, ConcatProperties
  <2>3. <<>> \o (net \o rest) = net \o rest
    BY <2>2, ConcatEmptySeq
  <2> QED BY <1>2, <1>6, <2>1, <2>3, Zenon
<1>11. lens \in Lens /\ Len(lens) \in Nat /\ NumReceived \in 0 .. Len(lens)
  BY LensType DEF Inv, ResultsInv
\* Either way the results, and with them the count, stay.
<1>12. /\ results' = results /\ hdr' = h /\ body' = <<>>
       /\ \/ phase' = "header" /\ Len(h) < HeaderLen /\ len' = len
          \/ /\ phase' = "body" /\ Len(h) = HeaderLen /\ len' \in 1 .. MaxLen
             /\ NumReceived < Len(lens) /\ len' = lens[NumReceived + 1]
  <2>1. CASE Len(h) = HeaderLen
    <3>1. NumReceived < Len(lens) /\ HeaderValue(h) = lens[NumReceived + 1]
      BY <1>7, <1>10, <1>11, <2>1, HeaderComplete
    <3>2. lens[NumReceived + 1] \in 1 .. MaxLen
      <4>1. NumReceived + 1 \in 1 .. Len(lens)
        BY <1>11, <3>1
      <4> QED BY <1>11, <4>1, LensElement
    <3>3. HeaderValue(h) # 0
      BY <3>1, <3>2
    <3>4. phase' = "body" /\ hdr' = h /\ len' = HeaderValue(h) /\ body' = <<>> /\ results' = results
      BY <1>3, <2>1, <3>3 DEF StartBody
    <3> QED BY <2>1, <3>1, <3>2, <3>4
  <2>2. CASE Len(h) # HeaderLen
    <3>1. Len(h) < HeaderLen
      BY <1>3, <1>4, <1>7, <2>2, FramingAssumption
    <3> QED BY <1>3, <1>5, <2>2, <3>1
  <2> QED BY <2>1, <2>2
<1>13. NumReceived' = NumReceived /\ Positive' = Positive
  BY <1>12, ReceiverKept DEF Inv
<1>14. TypeOK'
  <2>1. Len(<<>>) = 0 /\ <<>> \in Seq(Bytes)
    BY EmptySeq
  <2>2. len' \in 0 .. MaxLen /\ (phase' = "body" => Len(body') < len') /\ phase' \in {"header", "body"}
    BY <1>12, <2>1, MaxLenNat DEF Inv, TypeOK
  <2>3. Len(hdr') <= HeaderLen
    BY <1>7, <1>12, FramingAssumption
  <2> QED BY <1>3, <1>6, <1>7, <1>12, <2>1, <2>2, <2>3 DEF Inv, TypeOK
<1>15. DeliveredInOrder'
  BY <1>3, <1>12 DEF Inv, DeliveredInOrder
<1>16. ResultsInv'
  BY <1>3, <1>8, <1>12, <1>13 DEF Inv, ResultsInv
<1>17. EndsInv'
  BY <1>3, <1>8 DEF Inv, EndsInv
<1>18. StreamInv'
  <2>1. <<>> \o (a \o rest) = a \o rest
    BY <1>10, ConcatEmptySeq
  <2>2. InFlight(rest)'
    BY <1>3, <1>9, <1>10, <1>12, <1>13, <2>1, Zenon DEF InFlight
  <2> QED BY <2>2 DEF StreamInv
<1>19. PhaseInv'
  BY <1>3, <1>12, <1>13 DEF PhaseInv
<1> QED BY <1>14, <1>15, <1>16, <1>17, <1>18, <1>19 DEF Inv

\* The stream ended inside a header: recvMsg goes on with the length 0 or, if
\* bytes were lost, with what the bytes it got say.
LEMMA RecvHeaderEndsInv == ASSUME Inv, RecvHeaderEnds PROVE Inv'
<1>1. /\ phase = "header" /\ AtEnd /\ StartBody(hdr)
      /\ lens' = lens /\ out' = out /\ sendOpen' = sendOpen /\ failed' = failed
      /\ net' = net /\ dead' = dead
  BY DEF RecvHeaderEnds, sender
<1>2. hdr \in Seq(Bytes) /\ body = <<>> /\ Len(hdr) < HeaderLen /\ net = <<>>
  BY <1>1 DEF Inv, TypeOK, PhaseInv, AtEnd
<1>3. PICK rest : InFlight(rest)
  BY DEF Inv, StreamInv
<1>4. rest \in Seq(Bytes) /\ hdr \o rest = FramesAfter(lens, NumReceived)
  <2>1. rest \in Seq(Bytes) /\ hdr \o (<<>> \o (<<>> \o rest)) = FramesAfter(lens, NumReceived)
    BY <1>2, <1>3 DEF InFlight
  <2>2. <<>> \o rest = rest
    BY <2>1, ConcatEmptySeq
  <2> QED BY <2>1, <2>2, Zenon
<1>5. lens \in Lens /\ NumReceived \in 0 .. Len(lens)
  BY LensType DEF Inv, ResultsInv
<1>6. hdr \in Seq(DigitBytes) /\ (rest = <<>> => hdr = <<>>)
  BY <1>2, <1>4, <1>5, HeaderIncomplete
<1>7. dead \/ failed \/ hdr = <<>>
  <2>1. ~ dead => out = <<>>
    BY <1>1 DEF AtEnd, Inv, EndsInv
  <2>2. ~ dead /\ ~ failed => rest = out
    BY <1>3 DEF InFlight
  <2> QED BY <1>6, <2>1, <2>2
<1>8. HeaderValue(hdr) \in 0 .. MaxLen
  BY <1>6, HeaderValueRange
<1>9. AtEnd' = AtEnd
  BY <1>1 DEF AtEnd
<1>10. EndsInv'
  BY <1>1 DEF Inv, EndsInv
<1>11. Len(<<>>) = 0 /\ <<>> \in Seq(Bytes)
  BY EmptySeq
<1>12. CASE HeaderValue(hdr) = 0
  <2>1. /\ phase' = "idle" /\ hdr' = <<>> /\ len' = 0 /\ body' = <<>>
        /\ results' = Append(results, [ret |-> 0, msg |-> <<>>])
    BY <1>1, <1>12 DEF StartBody, Return
  <2>2. /\ results' \in Seq([ret : -1 .. MaxLen, msg : Seq(Bytes)])
        /\ Len(results') = Len(results) + 1
        /\ \A i \in 1 .. Len(results) : results'[i] = results[i]
        /\ results'[Len(results) + 1] = [ret |-> 0, msg |-> <<>>]
        /\ NumReceived' = NumReceived /\ Positive' = Positive
    <3>1. 0 \in -1 .. MaxLen
      BY MaxLenNat
    <3>2. Counted(0, <<>>)
      BY <1>11, <2>1, <3>1, ReturnCounts DEF Inv
    <3> QED BY <3>2 DEF Counted
  <2>3. TypeOK'
    <3>1. Len(hdr') <= HeaderLen /\ len' \in 0 .. MaxLen
      BY <1>11, <2>1, MaxLenNat, FramingAssumption
    <3> QED BY <1>1, <1>11, <2>1, <2>2, <3>1 DEF Inv, TypeOK
  <2>4. DeliveredInOrder'
    <3>1. ASSUME NEW i \in DOMAIN results', results'[i].ret > 0
          PROVE  i \in DOMAIN results /\ results'[i] = results[i]
      <4>1. DOMAIN results = 1 .. Len(results) /\ DOMAIN results' = 1 .. Len(results) + 1
            /\ Len(results) \in Nat
        BY <2>2 DEF Inv, TypeOK
      <4>2. i # Len(results) + 1
        BY <2>2, <3>1
      <4> QED BY <2>2, <4>1, <4>2
    <3> QED BY <1>1, <3>1 DEF Inv, DeliveredInOrder
  <2>5. ResultsInv'
    BY <1>1, <1>9, <2>2 DEF Inv, ResultsInv
  <2>6. StreamInv'
    <3>1. PICK F : F = FramesAfter(lens, NumReceived) /\ F \in Seq(Bytes)
      <4>1. NumReceived \in Nat
        BY <1>5 DEF Lens
      <4> QED BY <1>5, <4>1, FramesAfterType
    <3>2. <<>> \o F = F
      BY <3>1, ConcatEmptySeq
    <3>3. hdr = <<>> => F = rest
      BY <1>4, <3>1, ConcatEmptySeq
    <3>4. ~ dead /\ ~ failed => F = out
      BY <1>3, <1>7, <3>3 DEF InFlight
    <3>5. InFlight(F)'
      BY <1>1, <1>2, <2>1, <2>2, <3>1, <3>2, <3>4, Zenon DEF InFlight
    <3> QED BY <3>5 DEF StreamInv
  <2>7. PhaseInv'
    BY <2>1 DEF PhaseInv
  <2> QED BY <1>10, <2>3, <2>4, <2>5, <2>6, <2>7 DEF Inv
<1>13. CASE HeaderValue(hdr) # 0
  <2>1. /\ phase' = "body" /\ hdr' = hdr /\ len' = HeaderValue(hdr) /\ body' = <<>>
        /\ results' = results
    BY <1>1, <1>13 DEF StartBody
  <2>2. NumReceived' = NumReceived /\ Positive' = Positive
    BY <2>1, ReceiverKept DEF Inv
  <2>3. TypeOK'
    BY <1>1, <1>8, <1>11, <1>13, <2>1, MaxLenNat DEF Inv, TypeOK
  <2>4. DeliveredInOrder' /\ ResultsInv'
    BY <1>1, <1>9, <2>1, <2>2 DEF Inv, DeliveredInOrder, ResultsInv
  <2>5. StreamInv'
    <3>1. InFlight(rest)'
      BY <1>1, <1>2, <1>3, <2>1, <2>2 DEF InFlight
    <3> QED BY <3>1 DEF StreamInv
  <2>6. PhaseInv'
    <3>1. dead \/ failed
      BY <1>7, <1>13, EmptyHeaderValue
    <3> QED BY <1>1, <1>9, <2>1, <3>1 DEF PhaseInv
  <2> QED BY <1>10, <2>3, <2>4, <2>5, <2>6 DEF Inv
<1> QED BY <1>12, <1>13

LEMMA RecvBodyInv == ASSUME Inv, NEW k \in 1 .. NetSize, RecvBody(k) PROVE Inv'
<1>1. PICK f, a : f = First(net, k) /\ a = After(net, k)
  OBVIOUS
<1>2. PICK b : b = body \o f
  OBVIOUS
<1>3. /\ phase = "body" /\ k <= len - Len(body) /\ k <= Len(net)
      /\ IF Len(b) = len THEN phase' = "idle" /\ Return(len, b)
         ELSE body' = b /\ phase' = phase /\ hdr' = hdr /\ len' = len /\ results' = results
      /\ net' = a
      /\ lens' = lens /\ out' = out /\ sendOpen' = sendOpen /\ failed' = failed /\ dead' = dead
  BY <1>1, <1>2 DEF RecvBody, sender
<1>4. /\ hdr \in Seq(Bytes) /\ body \in Seq(Bytes) /\ Len(body) \in Nat /\ len \in Nat
      /\ net \in Seq(Bytes) /\ Len(net) \in Nat
  BY MaxLenNat DEF Inv, TypeOK
<1>5. /\ f \in Seq(Bytes) /\ Len(f) = k /\ a \in Seq(Bytes) /\ Len(a) <= NetSize
      /\ \A rest \in Seq(Bytes) :
            a \o rest \in Seq(Bytes) /\ body \o (net \o rest) = (body \o f) \o (a \o rest)
  BY <1>1, <1>3, BytesRead
<1>6. b \in Seq(Bytes) /\ Len(b) = Len(body) + k /\ Len(b) <= len
  <2>1. body \o f \in Seq(Bytes) /\ Len(body \o f) = Len(body) + Len(f)
    BY <1>4, <1>5, ConcatProperties
  <2> QED BY <1>2, <1>3, <1>4, <1>5, <2>1, FramingAssumption
<1>7. net # <<>> /\ ~ AtEnd /\ ~ dead
  <2>1. net # <<>>
    BY <1>3, FramingAssumption
  <2> QED BY <2>1 DEF AtEnd, Inv, EndsInv
<1>8. /\ Len(hdr) = HeaderLen /\ NumReceived < Len(lens) /\ len = lens[NumReceived + 1]
      /\ NumReceived = Len(results)
  BY <1>3, <1>7 DEF Inv, PhaseInv, ResultsInv
<1>9. PICK rest : InFlight(rest)
  BY DEF Inv, StreamInv
<1>10. /\ rest \in Seq(Bytes) /\ a \o rest \in Seq(Bytes)
       /\ hdr \o (b \o (a \o rest)) = FramesAfter(lens, NumReceived)
  <2>1. rest \in Seq(Bytes) /\ hdr \o (body \o (net \o rest)) = FramesAfter(lens, NumReceived)
    BY <1>9 DEF InFlight
  <2> QED BY <1>2, <1>5, <2>1, Zenon
<1>11. lens \in Lens /\ Len(lens) \in Nat /\ NumReceived \in 0 .. Len(lens)
  BY LensType DEF Inv, ResultsInv
<1>12. EndsInv'
  BY <1>3, <1>7 DEF Inv, EndsInv
<1>13. Len(<<>>) = 0 /\ <<>> \in Seq(Bytes)
  BY EmptySeq
<1>14. CASE Len(b) = len
  <2>1. /\ phase' = "idle" /\ hdr' = <<>> /\ len' = 0 /\ body' = <<>>
        /\ results' = Append(results, [ret |-> len, msg |-> b])
    BY <1>3, <1>14 DEF Return
  <2>2. b = Payload(NumReceived + 1, len) /\ a \o rest = FramesAfter(lens, NumReceived + 1)
    BY <1>4, <1>6, <1>8, <1>10, <1>11, <1>14, BodyComplete
  <2>3. /\ results' \in Seq([ret : -1 .. MaxLen, msg : Seq(Bytes)])
        /\ Len(results') = Len(results) + 1
        /\ \A i \in 1 .. Len(results) : results'[i] = results[i]
        /\ results'[Len(results) + 1] = [ret |-> len, msg |-> b]
        /\ NumReceived' = NumReceived + 1 /\ Positive' = 1 .. NumReceived + 1
    <3>1. len \in -1 .. MaxLen /\ len > 0
      BY <1>3, <1>4, <1>6, <1>14, MaxLenNat DEF Inv, TypeOK
    <3>2. Counted(len, b)
      BY <1>6, <2>1, <3>1, ReturnCounts DEF Inv
    <3> QED BY <1>7, <3>1, <3>2 DEF Counted
  <2>4. TypeOK'
    <3>1. Len(hdr') <= HeaderLen /\ len' \in 0 .. MaxLen
      BY <1>13, <2>1, MaxLenNat, FramingAssumption
    <3> QED BY <1>3, <1>5, <1>13, <2>1, <2>3, <3>1 DEF Inv, TypeOK
  <2>5. DeliveredInOrder'
    <3>1. ASSUME NEW i \in DOMAIN results', results'[i].ret > 0
          PROVE  i <= Len(lens) /\ results'[i] = [ret |-> lens[i], msg |-> Payload(i, lens[i])]
      <4>1. DOMAIN results = 1 .. Len(results) /\ DOMAIN results' = 1 .. Len(results) + 1
            /\ Len(results) \in Nat
        BY <2>3 DEF Inv, TypeOK
      <4>2. CASE i = Len(results) + 1
        BY <1>8, <1>11, <2>2, <2>3, <4>2
      <4>3. CASE i # Len(results) + 1
        <5>1. i \in DOMAIN results /\ results'[i] = results[i]
          BY <2>3, <4>1, <4>3
        <5> QED BY <3>1, <5>1 DEF Inv, DeliveredInOrder
      <4> QED BY <4>2, <4>3
    <3> QED BY <1>3, <3>1 DEF DeliveredInOrder
  <2>6. ResultsInv'
    BY <1>3, <1>8, <1>11, <2>3 DEF ResultsInv
  <2>7. StreamInv'
    <3>1. <<>> \o (a \o rest) = a \o rest
      BY <1>10, ConcatEmptySeq
    <3>2. InFlight(rest)'
      BY <1>3, <1>9, <1>10, <2>1, <2>2, <2>3, <3>1, Zenon DEF InFlight
    <3> QED BY <3>2 DEF StreamInv
  <2>8. PhaseInv'
    BY <2>1 DEF PhaseInv
  <2> QED BY <1>12, <2>4, <2>5, <2>6, <2>7, <2>8 DEF Inv
<1>15. CASE Len(b) # len
  <2>1. phase' = phase /\ hdr' = hdr /\ len' = len /\ body' = b /\ results' = results
    BY <1>3, <1>15
  <2>2. NumReceived' = NumReceived /\ Positive' = Positive
    BY <2>1, ReceiverKept DEF Inv
  <2>3. TypeOK'
    <3>1. Len(b) < len
      BY <1>4, <1>6, <1>15, FramingAssumption
    <3> QED BY <1>3, <1>5, <1>6, <2>1, <3>1 DEF Inv, TypeOK
  <2>4. DeliveredInOrder' /\ ResultsInv'
    BY <1>3, <1>7, <2>1, <2>2 DEF Inv, DeliveredInOrder, ResultsInv
  <2>5. StreamInv'
    <3>1. InFlight(rest)'
      BY <1>3, <1>9, <1>10, <2>1, <2>2, Zenon DEF InFlight
    <3> QED BY <3>1 DEF StreamInv
  <2>6. PhaseInv'
    BY <1>3, <1>8, <2>1, <2>2 DEF PhaseInv
  <2> QED BY <1>12, <2>3, <2>4, <2>5, <2>6 DEF Inv
<1> QED BY <1>14, <1>15

LEMMA RecvBodyEndsInv == ASSUME Inv, RecvBodyEnds PROVE Inv'
<1>1. /\ phase = "body" /\ AtEnd
      /\ phase' = "closed" /\ hdr' = <<>> /\ len' = 0 /\ body' = <<>>
      /\ results' = Append(results, [ret |-> -1, msg |-> <<>>])
      /\ lens' = lens /\ out' = out /\ sendOpen' = sendOpen /\ failed' = failed
      /\ net' = net /\ dead' = dead
  BY DEF RecvBodyEnds, Return, sender
<1>2. hdr \in Seq(Bytes) /\ body \in Seq(Bytes) /\ net = <<>>
  BY <1>1 DEF Inv, TypeOK, AtEnd
<1>3. lens \in Lens /\ NumReceived \in 0 .. Len(lens)
  BY LensType DEF Inv, ResultsInv
\* With a connection and a sender that did not fail a body is read whole.
<1>4. dead \/ failed
  <2>1. SUFFICES ASSUME ~ dead, ~ failed PROVE FALSE
    OBVIOUS
  <2>2. Len(hdr) = HeaderLen /\ NumReceived < Len(lens) /\ Len(body) < lens[NumReceived + 1]
    BY <1>1, <2>1 DEF Inv, TypeOK, PhaseInv
  <2>3. PICK rest : InFlight(rest)
    BY DEF Inv, StreamInv
  <2>4. rest = <<>>
    BY <1>1, <2>1, <2>3 DEF AtEnd, Inv, EndsInv, InFlight
  <2>5. hdr \o (body \o <<>>) = FramesAfter(lens, NumReceived)
    <3>1. <<>> \o <<>> = <<>>
      BY EmptySeq, ConcatEmptySeq
    <3> QED BY <1>2, <2>3, <2>4, <3>1, Zenon DEF InFlight
  <2>6. <<>> \in Seq(Bytes)
    BY EmptySeq
  <2>7. PICK y \in Seq(Bytes) : y = <<>> /\ hdr \o (body \o y) = FramesAfter(lens, NumReceived)
    BY <2>5, <2>6
  <2>8. y # <<>>
    BY <1>2, <1>3, <2>2, <2>7, BodyIncomplete
  <2> QED BY <2>7, <2>8
<1>5. Len(<<>>) = 0 /\ <<>> \in Seq(Bytes)
  BY EmptySeq
<1>6. /\ results' \in Seq([ret : -1 .. MaxLen, msg : Seq(Bytes)])
      /\ Len(results') = Len(results) + 1
      /\ \A i \in 1 .. Len(results) : results'[i] = results[i]
      /\ results'[Len(results) + 1] = [ret |-> -1, msg |-> <<>>]
      /\ NumReceived' = NumReceived /\ Positive' = Positive
  <2>1. -1 \in -1 .. MaxLen
    BY MaxLenNat
  <2>2. Counted(-1, <<>>)
    BY <1>1, <1>5, <2>1, ReturnCounts DEF Inv
  <2> QED BY <2>2 DEF Counted
<1>7. TypeOK'
  <2>1. Len(hdr') <= HeaderLen /\ len' \in 0 .. MaxLen
    BY <1>1, <1>5, MaxLenNat, FramingAssumption
  <2> QED BY <1>1, <1>5, <1>6, <2>1 DEF Inv, TypeOK
<1>8. DeliveredInOrder'
  <2>1. ASSUME NEW i \in DOMAIN results', results'[i].ret > 0
        PROVE  i \in DOMAIN results /\ results'[i] = results[i]
    <3>1. DOMAIN results = 1 .. Len(results) /\ DOMAIN results' = 1 .. Len(results) + 1
          /\ Len(results) \in Nat
      BY <1>6 DEF Inv, TypeOK
    <3>2. i # Len(results) + 1
      BY <1>6, <2>1
    <3> QED BY <1>6, <3>1, <3>2
  <2> QED BY <1>1, <2>1 DEF Inv, DeliveredInOrder
<1>9. AtEnd' = AtEnd
  BY <1>1 DEF AtEnd
<1>10. ResultsInv'
  BY <1>1, <1>6, <1>9 DEF Inv, ResultsInv
<1>11. EndsInv'
  BY <1>1 DEF Inv, EndsInv
<1>12. StreamInv'
  <2>1. PICK F : F = FramesAfter(lens, NumReceived) /\ F \in Seq(Bytes)
    <3>1. NumReceived \in Nat
      BY <1>3 DEF Lens
    <3> QED BY <1>3, <3>1, FramesAfterType
  <2>2. <<>> \o F = F
    BY <2>1, ConcatEmptySeq
  <2>3. InFlight(F)'
    BY <1>1, <1>2, <1>4, <1>6, <2>1, <2>2, Zenon DEF InFlight
  <2> QED BY <2>3 DEF StreamInv
<1>13. PhaseInv'
  BY <1>1 DEF PhaseInv
<1> QED BY <1>7, <1>8, <1>10, <1>11, <1>12, <1>13 DEF Inv

LEMMA InvNext == ASSUME Inv, [Next]_vars PROVE Inv'
<1>1. CASE \E n \in 1 .. MaxLen : SendCall(n)
  BY <1>1, SendCallInv
<1>2. CASE \E k \in 1 .. NetSize : SendSome(k) \/ RecvHeader(k) \/ RecvBody(k)
  BY <1>2, SendSomeInv, RecvHeaderInv, RecvBodyInv
<1>3. CASE SendFails \/ CloseBySender \/ Reset
  BY <1>3, EndingInv
<1>4. CASE RecvCall \/ RecvHeaderEnds \/ RecvBodyEnds
  BY <1>4, RecvCallInv, RecvHeaderEndsInv, RecvBodyEndsInv
<1>5. CASE UNCHANGED vars
  <2>1. /\ lens' = lens /\ out' = out /\ sendOpen' = sendOpen /\ failed' = failed
        /\ net' = net /\ dead' = dead
        /\ phase' = phase /\ hdr' = hdr /\ len' = len /\ body' = body /\ results' = results
    BY <1>5 DEF vars, sender, receiver
  <2>2. NumReceived' = NumReceived /\ Positive' = Positive /\ AtEnd' = AtEnd
    BY <2>1, ReceiverKept DEF Inv, AtEnd
  <2>3. TypeOK' /\ DeliveredInOrder' /\ ResultsInv' /\ EndsInv' /\ PhaseInv'
    BY <2>1, <2>2 DEF Inv, TypeOK, DeliveredInOrder, ResultsInv, EndsInv, PhaseInv
  <2>4. StreamInv'
    <3>1. PICK rest : InFlight(rest)
      BY DEF Inv, StreamInv
    <3>2. InFlight(rest)'
      BY <2>1, <2>2, <3>1 DEF InFlight
    <3> QED BY <3>2 DEF StreamInv
  <2> QED BY <2>3, <2>4 DEF Inv
<1> QED BY <1>1, <1>2, <1>3, <1>4, <1>5 DEF Next

LEMMA InvAlways == Spec => []Inv
<1>1. Init => Inv
  BY InvInit
<1>2. Inv /\ [Next]_vars => Inv'
  BY InvNext
<1> QED BY <1>1, <1>2, PTL DEF Spec

-------------------------------------------------------------------------------
(* What the runs check, for every Base, HeaderLen, NetSize and MaxMessages *)

\* The variables have their types; in particular the header never has more
\* than HeaderLen bytes and the body never reaches the length announced
\* without recvMsg returning.
THEOREM TypesCorrect == Spec => []TypeOK
<1>1. Inv => TypeOK
  BY DEF Inv
<1> QED BY <1>1, InvAlways, PTL

\* However send and recv cut the bytes up and wherever the connection ends,
\* the messages recvMsg returns are the first ones sent, whole and in order.
THEOREM DeliveredAlwaysInOrder == Spec => []DeliveredInOrder
<1>1. Inv => DeliveredInOrder
  BY DEF Inv
<1> QED BY <1>1, InvAlways, PTL

\* As long as nothing failed no byte is lost, repeated or taken for another:
\* what the two ends hold and what is in flight is what is still to be received.
THEOREM AlwaysInStep == Spec => []InStep
<1>1. ASSUME Inv, ~ dead, ~ failed
      PROVE  hdr \o body \o net \o out = FramesAfter(lens, NumReceived)
  <2>1. PICK rest : InFlight(rest)
    BY <1>1 DEF Inv, StreamInv
  <2>2. hdr \o (body \o (net \o out)) = FramesAfter(lens, NumReceived)
    BY <1>1, <2>1, Zenon DEF InFlight
  <2>3. Rearranged(Bytes, hdr, body, net, out)
    BY <1>1, Concat4 DEF Inv, TypeOK
  <2>4. hdr \o body \o net \o out = hdr \o (body \o (net \o out))
    BY ONLY <2>3, Zenon DEF Rearranged
  <2> QED BY ONLY <2>2, <2>4, Zenon
<1>2. Inv => InStep
  BY <1>1 DEF InStep
<1> QED BY <1>2, InvAlways, PTL

-------------------------------------------------------------------------------
(* The refinement of MessageChannel                                        *)

LEMMA AppendToFunction ==
    ASSUME NEW S, NEW n \in Nat, NEW f \in [1 .. n -> S], NEW x \in S
    PROVE  Append(f, x) = [i \in 1 .. n + 1 |-> IF i = n + 1 THEN x ELSE f[i]]
<1>1. f \in Seq(S) /\ Len(f) = n
  OBVIOUS
<1>2. PICK g : g = [i \in 1 .. n + 1 |-> IF i = n + 1 THEN x ELSE f[i]]
  OBVIOUS
<1>3. g \in Seq(S) /\ Len(g) = n + 1
  <2>1. \A i \in 1 .. n + 1 : g[i] \in S
    BY <1>2
  <2>2. g \in [1 .. n + 1 -> S]
    BY <1>2, <2>1
  <2> QED BY <2>2
<1>4. /\ Append(f, x) \in Seq(S) /\ Len(Append(f, x)) = n + 1
      /\ \A i \in 1 .. n : Append(f, x)[i] = f[i]
      /\ Append(f, x)[n + 1] = x
  BY <1>1, AppendProperties
<1>5. \A i \in 1 .. n + 1 : Append(f, x)[i] = g[i]
  BY <1>2, <1>4
<1>6. Append(f, x) = g
  BY <1>3, <1>4, <1>5, SeqEqual
<1> QED BY <1>2, <1>6

SentMessages == [i \in 1 .. Len(lens) |-> Payload(i, lens[i])]
ReceivedMessages == [i \in 1 .. NumReceived |-> results[i].msg]
HasEnded == \E i \in DOMAIN results : results[i].ret <= 0

LEMMA ChannelKept ==
    ASSUME Inv, lens' = lens, results' = results
    PROVE  UNCHANGED <<SentMessages, ReceivedMessages, HasEnded>>
<1>1. NumReceived' = NumReceived
  BY ReceiverKept DEF Inv
<1> QED BY <1>1 DEF SentMessages, ReceivedMessages, HasEnded

LEMMA SendCallSends ==
    ASSUME Inv, NEW n \in 1 .. MaxLen, SendCall(n)
    PROVE  /\ SentMessages' = Append(SentMessages, Payload(Len(lens) + 1, n))
           /\ UNCHANGED <<ReceivedMessages, HasEnded>>
           /\ Len(lens) + 1 \in 1 .. MaxMessages
<1>1. Len(lens) < MaxMessages /\ lens' = Append(lens, n) /\ results' = results
  BY DEF SendCall, receiver
<1>2. lens \in Lens /\ Len(lens) \in Nat /\ lens \in Seq(1 .. MaxLen)
  BY LensType DEF Inv, TypeOK
<1>3. Len(lens) + 1 \in 1 .. MaxMessages
  BY <1>1, <1>2, FramingAssumption
<1>4. NumReceived' = NumReceived
  BY <1>1, ReceiverKept DEF Inv
<1>5. UNCHANGED <<ReceivedMessages, HasEnded>>
  BY <1>1, <1>4 DEF ReceivedMessages, HasEnded
<1>6. Len(lens') = Len(lens) + 1 /\ lens'[Len(lens) + 1] = n
      /\ \A i \in 1 .. Len(lens) : lens'[i] = lens[i]
  BY <1>1, <1>2, AppendProperties
<1>7. SentMessages \in [1 .. Len(lens) -> Seq(Bytes)] /\ Payload(Len(lens) + 1, n) \in Seq(Bytes)
  <2>1. ASSUME NEW i \in 1 .. Len(lens) PROVE Payload(i, lens[i]) \in Seq(Bytes)
    <3>1. i \in 1 .. MaxMessages /\ lens[i] \in 1 .. MaxLen
      BY <1>2, LensElement
    <3> QED BY <3>1, FrameType
  <2>2. Payload(Len(lens) + 1, n) \in Seq(Bytes)
    BY <1>3, FrameType
  <2> QED BY <2>1, <2>2 DEF SentMessages
<1>8. SentMessages' =
        [i \in 1 .. Len(lens) + 1 |->
            IF i = Len(lens) + 1 THEN Payload(Len(lens) + 1, n) ELSE SentMessages[i]]
  <2>1. ASSUME NEW i \in 1 .. Len(lens) + 1
        PROVE  Payload(i, lens'[i]) =
                 IF i = Len(lens) + 1 THEN Payload(Len(lens) + 1, n) ELSE SentMessages[i]
    <3>1. CASE i = Len(lens) + 1
      BY <1>6, <3>1
    <3>2. CASE i \in 1 .. Len(lens)
      BY <1>2, <1>6, <3>2 DEF SentMessages
    <3> QED BY <1>2, <3>1, <3>2
  <2> QED BY <1>6, <2>1 DEF SentMessages
<1>9. SentMessages' = Append(SentMessages, Payload(Len(lens) + 1, n))
  <2> HIDE DEF SentMessages
  <2> QED BY <1>2, <1>7, <1>8, AppendToFunction
<1> QED BY <1>3, <1>5, <1>9

\* A call that delivers nothing ends the channel.
LEMMA FailureEnds ==
    ASSUME Inv, NEW ret \in -1 .. 0, lens' = lens,
           results' = Append(results, [ret |-> ret, msg |-> <<>>])
    PROVE  UNCHANGED <<SentMessages, ReceivedMessages>> /\ HasEnded'
<1>1. ret \in -1 .. MaxLen /\ ret <= 0 /\ <<>> \in Seq(Bytes)
  BY MaxLenNat, EmptySeq
<1>2. Counted(ret, <<>>)
  BY <1>1, ReturnCounts DEF Inv
<1>3. /\ Len(results') = Len(results) + 1 /\ Len(results) \in Nat
      /\ DOMAIN results' = 1 .. Len(results) + 1 /\ DOMAIN results = 1 .. Len(results)
      /\ \A i \in 1 .. Len(results) : results'[i] = results[i]
      /\ results'[Len(results) + 1] = [ret |-> ret, msg |-> <<>>]
      /\ NumReceived' = NumReceived
  BY <1>1, <1>2 DEF Counted, Inv, TypeOK
<1>4. HasEnded'
  <2>1. results'[Len(results) + 1].ret <= 0 /\ Len(results) + 1 \in DOMAIN results'
    BY <1>1, <1>3
  <2> QED BY <2>1 DEF HasEnded
<1>5. \A i \in 1 .. NumReceived : i \in 1 .. Len(results)
  BY <1>3 DEF Inv, ResultsInv, Positive
<1>6. ReceivedMessages' = ReceivedMessages
  BY <1>3, <1>5 DEF ReceivedMessages
<1> QED BY <1>4, <1>6 DEF SentMessages

\* A body that is complete is the next message, and nothing failed before it.
LEMMA BodyDelivers ==
    ASSUME Inv, Inv', NEW k \in 1 .. NetSize, RecvBody(k), results' # results
    PROVE  /\ ~ HasEnded /\ ~ HasEnded'
           /\ NumReceived < Len(lens) /\ NumReceived \in Nat
           /\ ReceivedMessages' = Append(ReceivedMessages, SentMessages[NumReceived + 1])
           /\ UNCHANGED SentMessages
<1>1. PICK b : b = body \o First(net, k)
  OBVIOUS
<1>2. /\ phase = "body" /\ k <= Len(net) /\ lens' = lens
      /\ results' = Append(results, [ret |-> len, msg |-> b])
  BY <1>1 DEF RecvBody, Return, sender
<1>3. b \in Seq(Bytes)
  <2>1. First(net, k) \in Seq(Bytes)
    BY <1>2, BytesRead
  <2> QED BY <1>1, <2>1, ConcatProperties DEF Inv, TypeOK
<1>4. len \in -1 .. MaxLen /\ len > 0
  BY <1>2, MaxLenNat DEF Inv, TypeOK
<1>5. ~ AtEnd
  <2>1. net # <<>>
    BY <1>2, FramingAssumption
  <2> QED BY <2>1 DEF AtEnd
<1>6. Counted(len, b)
  BY <1>2, <1>3, <1>4, ReturnCounts DEF Inv
<1>7. PICK n \in Nat : n = NumReceived /\ n = Len(results)
  BY <1>5, LensType DEF Inv, ResultsInv
<1>8. /\ DOMAIN results' = 1 .. n + 1 /\ DOMAIN results = 1 .. n
      /\ \A i \in 1 .. n : results'[i] = results[i]
      /\ results'[n + 1] = [ret |-> len, msg |-> b]
      /\ NumReceived' = n + 1 /\ Positive' = 1 .. n + 1 /\ Positive = 1 .. n
  BY <1>4, <1>5, <1>6, <1>7 DEF Counted, Inv, TypeOK, ResultsInv
<1>9. ~ HasEnded /\ ~ HasEnded'
  <2>1. ASSUME NEW i \in 1 .. n PROVE results[i].ret > 0 /\ results[i].ret \in Int
    <3>1. i \in Positive
      BY <1>8
    <3>2. results[i].ret > 0
      BY <3>1 DEF Positive
    <3>3. results[i] \in [ret : -1 .. MaxLen, msg : Seq(Bytes)]
      BY <1>7, ElementOfSeq DEF Inv, TypeOK
    <3> QED BY <3>2, <3>3, MaxLenNat
  <2>2. \A i \in 1 .. n + 1 : results'[i].ret > 0 /\ results'[i].ret \in Int
    BY <1>4, <1>8, <2>1
  <2> QED BY <1>8, <2>1, <2>2 DEF HasEnded
<1>10. n + 1 <= Len(lens) /\ b = Payload(n + 1, lens[n + 1])
  <2>1. n + 1 \in DOMAIN results' /\ results'[n + 1].ret > 0
    BY <1>4, <1>8
  <2>2. n + 1 <= Len(lens') /\ results'[n + 1] = [ret |-> lens'[n + 1], msg |-> Payload(n + 1, lens'[n + 1])]
    BY <2>1 DEF Inv, DeliveredInOrder
  <2> QED BY <1>2, <1>8, <2>2
<1>11. SentMessages[n + 1] = b
  <2>1. n + 1 \in 1 .. Len(lens)
    BY <1>10, LensType DEF Inv
  <2> QED BY <1>10, <2>1 DEF SentMessages
<1>12. ReceivedMessages \in [1 .. n -> Seq(Bytes)]
  <2>1. ASSUME NEW i \in 1 .. n PROVE results[i].msg \in Seq(Bytes)
    <3>1. results[i] \in [ret : -1 .. MaxLen, msg : Seq(Bytes)]
      BY <1>7, ElementOfSeq DEF Inv, TypeOK
    <3> QED BY <3>1
  <2> QED BY <1>7, <2>1 DEF ReceivedMessages
<1>13. ReceivedMessages' = [i \in 1 .. n + 1 |-> IF i = n + 1 THEN b ELSE ReceivedMessages[i]]
  BY <1>7, <1>8 DEF ReceivedMessages
<1>14. ReceivedMessages' = Append(ReceivedMessages, b)
  BY <1>3, <1>12, <1>13, AppendToFunction
<1> QED BY <1>2, <1>7, <1>9, <1>10, <1>11, <1>14, LensType DEF SentMessages, Inv

LEMMA ChannelStep == ASSUME Inv, Inv', [Next]_vars PROVE [Channel!Next]_Channel!vars
<1>1. CASE UNCHANGED <<lens, results>>
  <2>1. UNCHANGED <<SentMessages, ReceivedMessages, HasEnded>>
    BY <1>1, ChannelKept
  <2> QED BY <2>1 DEF Channel!vars, SentMessages, ReceivedMessages, HasEnded
<1>2. ASSUME NEW n \in 1 .. MaxLen, SendCall(n)
      PROVE  Channel!Next
  <2>1. PICK m : m = Len(lens) + 1
    OBVIOUS
  <2>2. /\ SentMessages' = Append(SentMessages, Payload(m, n))
        /\ ReceivedMessages' = ReceivedMessages /\ HasEnded' = HasEnded
        /\ m \in 1 .. MaxMessages
    BY <1>2, <2>1, SendCallSends
  <2>3. Payload(m, n) \in UNION {{Payload(i, j) : j \in 1 .. MaxLen} : i \in 1 .. MaxMessages}
    BY <2>2
  <2>4. Channel!Send(Payload(m, n))
    BY <2>2 DEF Channel!Send, SentMessages, ReceivedMessages, HasEnded
  <2> QED BY <2>3, <2>4 DEF Channel!Next
<1>3. ASSUME NEW k \in 1 .. NetSize, RecvBody(k), results' # results
      PROVE  Channel!Next
  <2>1. /\ ~ HasEnded /\ ~ HasEnded' /\ NumReceived < Len(lens) /\ NumReceived \in Nat
        /\ ReceivedMessages' = Append(ReceivedMessages, SentMessages[NumReceived + 1])
        /\ SentMessages' = SentMessages
    BY <1>3, BodyDelivers
  <2>2. HasEnded' = HasEnded
    BY <2>1 DEF HasEnded
  <2>3. Len(SentMessages) = Len(lens) /\ Len(ReceivedMessages) = NumReceived
    BY <2>1, LensType DEF Inv, SentMessages, ReceivedMessages
  <2>4. Len(ReceivedMessages) < Len(SentMessages)
        /\ ReceivedMessages' = Append(ReceivedMessages, SentMessages[Len(ReceivedMessages) + 1])
    BY <2>1, <2>3
  <2>5. Channel!Deliver
    BY <2>1, <2>2, <2>4 DEF Channel!Deliver, SentMessages, ReceivedMessages, HasEnded
  <2> QED BY <2>5 DEF Channel!Next
<1>4. ASSUME NEW k \in 1 .. NetSize, RecvHeader(k) \/ RecvHeaderEnds \/ RecvBodyEnds, results' # results
      PROVE  Channel!Next
  <2>1. PICK ret \in -1 .. 0 : results' = Append(results, [ret |-> ret, msg |-> <<>>])
    <3>1. 0 \in -1 .. 0 /\ -1 \in -1 .. 0
      OBVIOUS
    <3>2. CASE RecvBodyEnds
      BY <3>1, <3>2 DEF RecvBodyEnds, Return
    <3>3. CASE RecvHeader(k) \/ RecvHeaderEnds
      <4>1. results' = Append(results, [ret |-> 0, msg |-> <<>>])
        BY <1>4, <3>3, Zenon DEF RecvHeader, RecvHeaderEnds, StartBody, Return
      <4> QED BY <3>1, <4>1
    <3> QED BY <1>4, <3>2, <3>3
  <2>2. lens' = lens
    BY <1>4 DEF RecvHeader, RecvHeaderEnds, RecvBodyEnds, sender
  <2>3. SentMessages' = SentMessages /\ ReceivedMessages' = ReceivedMessages /\ HasEnded'
    BY <2>1, <2>2, FailureEnds
  <2>4. HasEnded' = TRUE
    BY <2>3 DEF HasEnded
  <2>5. Channel!End
    BY <2>3, <2>4 DEF Channel!End, SentMessages, ReceivedMessages, HasEnded
  <2> QED BY <2>5 DEF Channel!Next
\* Every other step changes neither lens nor results.
<1>5. ASSUME ~ UNCHANGED <<lens, results>>
      PROVE  \/ \E n \in 1 .. MaxLen : SendCall(n)
             \/ \E k \in 1 .. NetSize :
                   (RecvBody(k) \/ RecvHeader(k) \/ RecvHeaderEnds \/ RecvBodyEnds) /\ results' # results
  <2>1. lens' # lens \/ results' # results
    BY <1>5
  <2>2. 1 \in 1 .. NetSize
    BY FramingAssumption
  <2>3. CASE \E n \in 1 .. MaxLen : SendCall(n)
    BY <2>3
  <2>4. ASSUME NEW k \in 1 .. NetSize, SendSome(k) \/ RecvHeader(k) \/ RecvBody(k)
        PROVE  (RecvBody(k) \/ RecvHeader(k)) /\ results' # results
    BY <2>1, <2>4 DEF SendSome, RecvHeader, RecvBody, sender, receiver
  <2>5. CASE RecvHeaderEnds \/ RecvBodyEnds
    <3>1. lens' = lens
      BY <2>5 DEF RecvHeaderEnds, RecvBodyEnds, sender
    <3> QED BY <2>1, <2>2, <2>5, <3>1
  <2>6. ASSUME SendFails \/ CloseBySender \/ Reset \/ RecvCall \/ UNCHANGED vars PROVE FALSE
    BY <2>1, <2>6 DEF SendFails, CloseBySender, Reset, RecvCall, vars, sender, receiver
  <2> QED BY <2>3, <2>4, <2>5, <2>6 DEF Next
<1> QED BY <1>1, <1>2, <1>3, <1>4, <1>5

\* sendMsg and recvMsg together are a channel of whole messages: each step of
\* the two and of the connection between them is a send, a delivery or the end
\* of the channel, or changes nothing that its users see.
THEOREM SocketIsChannel == Spec => ImplementsChannel
<1>1. Init => Channel!Init
  <2>1. SUFFICES ASSUME Init PROVE Channel!Init
    OBVIOUS
  <2>2. Inv /\ lens = <<>> /\ results = <<>>
    BY <2>1, InvInit DEF Init
  <2>3. NumReceived = 0
    BY <2>2 DEF Inv, ResultsInv
  <2>4. SentMessages = <<>> /\ ReceivedMessages = <<>> /\ ~ HasEnded
    BY <2>2, <2>3 DEF SentMessages, ReceivedMessages, HasEnded
  <2>5. HasEnded = FALSE
    BY <2>4 DEF HasEnded
  <2> QED BY <2>4, <2>5 DEF Channel!Init, SentMessages, ReceivedMessages, HasEnded
<1>2. Inv /\ Inv' /\ [Next]_vars => [Channel!Next]_Channel!vars
  BY ChannelStep
<1> QED BY <1>1, <1>2, InvAlways, PTL DEF Spec, Channel!Spec, ImplementsChannel
===============================================================================
