---- MODULE Decoding_proofs ----
(***************************************************************************)
(* Theorems about what the decoders of MetadataBlocks read, for tables of  *)
(* any entries: DecodesWhatWasWritten, RefusesOnlyDamage and               *)
(* ValueSetsComplete.  The lemmas follow a table inwards: a number, a      *)
(* text, an entry, the loop.                                               *)
(***************************************************************************)
EXTENDS MetadataBlocks_proofs

----------------------------------------------------------------------------
(* Numbers. *)

LEMMA Division ==
    ASSUME NEW n \in Nat, NEW base \in Nat \ {0}
    PROVE  n \div base \in Nat /\ n % base \in 0..base - 1 /\ (n % base) + base * (n \div base) = n
OBVIOUS

LEMMA RestNat == ASSUME NEW n \in Nat, NEW i \in 0..4 PROVE Rest(n, i) \in Nat
<1> DEFINE Base == Escape + 1
<1>1. Base \in Nat \ {0}
  BY WidthAssumption
<1>2. \A m \in Nat : m \div Base \in Nat
  BY <1>1, Division
<1> HIDE DEF Base
<1> DEFINE r1 == n \div Base
           r2 == r1 \div Base
           r3 == r2 \div Base
           r4 == r3 \div Base
<1>3. r1 \in Nat
  BY <1>2
<1>4. r2 \in Nat
  BY <1>2, <1>3
<1>5. r3 \in Nat
  BY <1>2, <1>4
<1>6. r4 \in Nat
  BY <1>2, <1>5
<1>7. Rest(n, i) = CASE i = 0 -> n [] i = 1 -> r1 [] i = 2 -> r2 [] i = 3 -> r3 [] OTHER -> r4
  BY DEF Rest, Base
<1> HIDE DEF r1, r2, r3, r4
<1> QED
  BY <1>3, <1>4, <1>5, <1>6, <1>7

LEMMA RestStep ==
    ASSUME NEW n \in Nat, NEW i \in 0..3
    PROVE  /\ Rest(n, i) % (Escape + 1) \in Bytes
           /\ (Rest(n, i) % (Escape + 1)) + (Escape + 1) * Rest(n, i + 1) = Rest(n, i)
<1> DEFINE Base == Escape + 1
<1>1. Base \in Nat \ {0} /\ Base - 1 = Escape
  BY WidthAssumption
<1>2. Rest(n, i) \in Nat
  BY RestNat
<1>3. Rest(n, i + 1) = Rest(n, i) \div Base
  <2>1. CASE i = 0
    BY <2>1 DEF Rest
  <2>2. CASE i = 1
    BY <2>2 DEF Rest
  <2>3. CASE i = 2
    BY <2>3 DEF Rest
  <2>4. CASE i = 3
    BY <2>4 DEF Rest
  <2> QED
    BY <2>1, <2>2, <2>3, <2>4
<1> HIDE DEF Base
<1> DEFINE m == Rest(n, i)
<1> HIDE DEF m
<1>4. m \in Nat
  BY <1>2 DEF m
<1>5. m % Base \in 0..Base - 1 /\ (m % Base) + Base * (m \div Base) = m
  BY <1>1, <1>4, Division
<1> QED
  BY <1>1, <1>3, <1>5 DEF Bytes, Base, m

LEMMA EncodedType ==
    ASSUME NEW n \in Nat
    PROVE  Encoded(n) \in Seq(Bytes) /\ Len(Encoded(n)) = Width /\ DOMAIN Encoded(n) = 1..Width
<1>1. \A i \in 1..Width : Rest(n, i - 1) % (Escape + 1) \in Bytes
  <2> TAKE i \in 1..Width
  <2>1. i - 1 \in 0..3
    BY WidthAssumption
  <2> QED
    BY <2>1, RestStep
<1>2. Encoded(n) \in [1..Width -> Bytes] /\ Width \in Nat
  BY <1>1, WidthAssumption DEF Encoded
<1> QED
  BY <1>2, SeqDef

LEMMA RestZero == ASSUME NEW n \in Nat, NEW i \in 0..3, Rest(n, i) = 0 PROVE Rest(n, i + 1) = 0
<1> DEFINE Base == Escape + 1
<1>1. Base \in Nat \ {0}
  BY WidthAssumption
<1>2. 0 \div Base = 0
  <2> HIDE DEF Base
  <2> QED
    BY <1>1
<1>3. Rest(n, i + 1) = Rest(n, i) \div Base
  <2>1. CASE i = 0
    BY <2>1 DEF Rest
  <2>2. CASE i = 1
    BY <2>2 DEF Rest
  <2>3. CASE i = 2
    BY <2>3 DEF Rest
  <2>4. CASE i = 3
    BY <2>4 DEF Rest
  <2> QED
    BY <2>1, <2>2, <2>3, <2>4
<1> QED
  BY <1>2, <1>3

LEMMA RestAbove == ASSUME NEW n \in Nat, Encodable(n) PROVE \A i \in Width..4 : Rest(n, i) = 0
<1>1. Width \in 1..4 /\ Rest(n, Width) = 0
  BY WidthAssumption DEF Encodable
<1>2. \A i \in 0..3 : Rest(n, i) = 0 => Rest(n, i + 1) = 0
  BY RestZero
<1>3. 1 + 1 = 2 /\ 2 + 1 = 3 /\ 3 + 1 = 4
  OBVIOUS
<1>4. /\ Rest(n, 1) = 0 => Rest(n, 2) = 0
      /\ Rest(n, 2) = 0 => Rest(n, 3) = 0
      /\ Rest(n, 3) = 0 => Rest(n, 4) = 0
  BY <1>2, <1>3
<1> SUFFICES ASSUME NEW i \in Width..4 PROVE Rest(n, i) = 0
  OBVIOUS
<1>5. Width \in {1, 2, 3, 4} /\ i \in {1, 2, 3, 4} /\ Width <= i
  BY <1>1
<1>6. CASE i = Width
  BY <1>1, <1>6
<1>7. CASE i # Width
  <2>1. \/ Width = 1 /\ i \in {2, 3, 4}
        \/ Width = 2 /\ i \in {3, 4}
        \/ Width = 3 /\ i = 4
    BY <1>5, <1>7
  <2> QED
    BY <2>1, <1>1, <1>4
<1> QED
  BY <1>6, <1>7

\* A number is read back as it was written.
LEMMA NumberReadBack ==
    ASSUME NEW n \in Nat, Encodable(n), NEW b, NEW p \in Nat,
           \A i \in 1..Width : b[p + i] = Encoded(n)[i]
    PROVE  Number(b, p) = n
<1> DEFINE Base == Escape + 1
           Byte(i) == IF i <= Width THEN b[p + i] ELSE 0
<1>1. Base \in Nat \ {0} /\ Base * 0 = 0
  BY WidthAssumption
<1>2. ASSUME NEW i \in 1..4
      PROVE  Byte(i) + Base * Rest(n, i) = Rest(n, i - 1)
  <2>1. i - 1 \in 0..3 /\ (i - 1) + 1 = i
    OBVIOUS
  <2>2. CASE i <= Width
    <3>1. i \in 1..Width
      BY <2>2, WidthAssumption
    <3>2. Byte(i) = Encoded(n)[i]
      BY <2>2, <3>1
    <3>3. Encoded(n)[i] = Rest(n, i - 1) % Base
      BY <3>1 DEF Encoded
    <3>4. (Rest(n, i - 1) % Base) + Base * Rest(n, i) = Rest(n, i - 1)
      BY <2>1, RestStep
    <3> HIDE DEF Byte, Base
    <3> QED
      BY <3>2, <3>3, <3>4
  <2>3. CASE ~(i <= Width)
    <3>1. Byte(i) = 0
      BY <2>3
    <3>2. i \in Width..4 /\ i - 1 \in Width..4
      BY <2>3, WidthAssumption
    <3>3. Rest(n, i) = 0 /\ Rest(n, i - 1) = 0
      BY <3>2, RestAbove
    <3> HIDE DEF Byte, Base
    <3> QED
      BY <3>1, <3>3, <1>1
  <2> QED
    BY <2>2, <2>3
<1>3. /\ Byte(1) + Base * Rest(n, 1) = Rest(n, 0) /\ Byte(2) + Base * Rest(n, 2) = Rest(n, 1)
      /\ Byte(3) + Base * Rest(n, 3) = Rest(n, 2) /\ Byte(4) + Base * Rest(n, 4) = Rest(n, 3)
  <2>1. 1 - 1 = 0 /\ 2 - 1 = 1 /\ 3 - 1 = 2 /\ 4 - 1 = 3
    OBVIOUS
  <2>2. 1 \in 1..4 /\ 2 \in 1..4 /\ 3 \in 1..4 /\ 4 \in 1..4
    OBVIOUS
  <2> HIDE DEF Byte, Base
  <2> QED
    BY <1>2, <2>1, <2>2
<1>4. Rest(n, 4) = 0
  BY RestAbove, WidthAssumption
<1>5. Rest(n, 0) = n
  BY DEF Rest
<1>6. Number(b, p) = Byte(1) + Base * (Byte(2) + Base * (Byte(3) + Base * Byte(4)))
  BY DEF Number
<1>7. Rest(n, 3) \in Nat
  BY RestNat
<1>8. Byte(4) = Rest(n, 3)
  <2>1. Byte(4) \in Nat \/ Width < 4
    <3>1. 4 <= Width => Byte(4) = Encoded(n)[4] /\ 4 \in 1..Width
      BY WidthAssumption
    <3>2. 4 \in 1..Width => Encoded(n)[4] \in Nat
      <4>1. Bytes \subseteq Nat
        BY WidthAssumption DEF Bytes
      <4>2. 4 \in 1..Width => Encoded(n)[4] \in Bytes
        BY EncodedType, ElementOfSeq
      <4> QED
        BY <4>1, <4>2
    <3> HIDE DEF Byte
    <3> QED
      BY <3>1, <3>2, WidthAssumption
  <2>2. Width < 4 => Byte(4) = 0
    BY WidthAssumption
  <2> HIDE DEF Byte, Base
  <2>3. Byte(4) + 0 = Rest(n, 3) /\ Byte(4) \in Nat
    BY <1>1, <1>3, <1>4, <2>1, <2>2
  <2> QED
    BY <2>3
<1> HIDE DEF Byte, Base
<1> QED
  BY <1>3, <1>5, <1>6, <1>8

----------------------------------------------------------------------------
(* Slices. *)

\* Damage has cut off the end of w, and left b.
Starts(b, w) ==
    /\ b \in Seq(Bytes) /\ w \in Seq(Bytes)
    /\ Len(b) <= Len(w) /\ \A i \in 1..Len(b) : w[i] = b[i]

\* The bytes s are in w at offset p.
Holds(w, p, s) == p + Len(s) <= Len(w) /\ \A i \in 1..Len(s) : w[p + i] = s[i]

LEMMA StartsWhole == ASSUME NEW b \in Seq(Bytes), NEW l \in Seq(Bytes) PROVE Starts(b, b \o l)
BY ConcatProperties DEF Starts

LEMMA HoldsParts ==
    ASSUME NEW w \in Seq(Bytes), NEW p \in Nat, NEW s \in Seq(Bytes), NEW t \in Seq(Bytes), Holds(w, p, s \o t)
    PROVE  /\ Holds(w, p, s) /\ Holds(w, p + Len(s), t)
           /\ s \o t \in Seq(Bytes) /\ Len(s \o t) = Len(s) + Len(t)
<1> DEFINE c == s \o t
<1>1. /\ Len(s) \in Nat /\ Len(t) \in Nat /\ Len(w) \in Nat
      /\ c \in Seq(Bytes) /\ Len(c) = Len(s) + Len(t)
      /\ \A i \in 1..Len(s) : c[i] = s[i]
      /\ \A i \in 1..Len(t) : c[Len(s) + i] = t[i]
  BY ConcatProperties
<1>2. p + Len(c) <= Len(w) /\ \A i \in 1..Len(c) : w[p + i] = c[i]
  BY DEF Holds
<1> HIDE DEF c
<1>3. Holds(w, p, s)
  <2>1. p + Len(s) <= Len(w)
    BY <1>1, <1>2
  <2>2. \A i \in 1..Len(s) : w[p + i] = s[i]
    <3> TAKE i \in 1..Len(s)
    <3>1. i \in 1..Len(c)
      BY <1>1
    <3> QED
      BY <3>1, <1>1, <1>2
  <2> QED
    BY <2>1, <2>2 DEF Holds
<1>4. Holds(w, p + Len(s), t)
  <2>1. p + Len(s) + Len(t) <= Len(w)
    BY <1>1, <1>2
  <2>2. \A i \in 1..Len(t) : w[p + Len(s) + i] = t[i]
    <3> TAKE i \in 1..Len(t)
    <3>1. Len(s) + i \in 1..Len(c) /\ p + (Len(s) + i) = p + Len(s) + i
      BY <1>1
    <3> QED
      BY <3>1, <1>1, <1>2
  <2> QED
    BY <2>1, <2>2 DEF Holds
<1> QED
  BY <1>1, <1>3, <1>4 DEF c

LEMMA HoldsSubSeq ==
    ASSUME NEW w \in Seq(Bytes), NEW p \in Nat, NEW q \in Nat, p < q, q <= Len(w),
           NEW s \in Seq(Bytes), SubSeq(w, p + 1, q) = s
    PROVE  q = p + Len(s) /\ Holds(w, p, s)
<1>1. /\ Len(s) = q - p /\ \A i \in 1..q - p : s[i] = w[p + i]
  <2>1. \A i \in p + 1..q : w[i] \in Bytes
    <3> TAKE i \in p + 1..q
    <3>1. i \in 1..Len(w)
      OBVIOUS
    <3> QED
      BY <3>1
  <2>2. p + 1 \in Int /\ q \in Int /\ p + 1 <= q /\ q - (p + 1) + 1 = q - p
    OBVIOUS
  <2>3. Len(s) = q - p /\ \A i \in 1..q - p : s[i] = w[p + 1 + i - 1]
    BY <2>1, <2>2, SubSeqProperties
  <2>4. \A i \in 1..q - p : p + 1 + i - 1 = p + i
    OBVIOUS
  <2> QED
    BY <2>3, <2>4
<1> QED
  BY <1>1 DEF Holds

LEMMA HoldsSlice ==
    ASSUME NEW b, NEW w, Starts(b, w), NEW p \in Nat, NEW s \in Seq(Bytes), Holds(w, p, s),
           p + Len(s) <= Len(b)
    PROVE  Slice(b, p, p + Len(s)) = s
<1> DEFINE last == IF p + Len(s) < Len(b) THEN p + Len(s) ELSE Len(b)
           r == SubSeq(b, p + 1, last)
<1>1. b \in Seq(Bytes) /\ Len(b) \in Nat /\ Len(s) \in Nat
  BY DEF Starts
<1>2. last = p + Len(s)
  BY <1>1
<1> HIDE DEF last
<1>3. /\ r \in Seq(Bytes) /\ Len(r) = Len(s) /\ \A i \in 1..Len(s) : r[i] = b[p + i]
  <2>1. \A i \in p + 1..last : b[i] \in Bytes
    <3> TAKE i \in p + 1..last
    <3>1. i \in 1..Len(b)
      BY <1>1, <1>2
    <3> QED
      BY <3>1, <1>1
  <2>2. p + 1 \in Int /\ last \in Int /\ last - (p + 1) + 1 = Len(s) /\ p + 1 <= last + 1
    BY <1>1, <1>2
  <2>3. /\ r \in Seq(Bytes) /\ Len(r) = IF p + 1 <= last THEN last - (p + 1) + 1 ELSE 0
        /\ \A i \in 1..last - (p + 1) + 1 : r[i] = b[p + 1 + i - 1]
    BY <2>1, <2>2, SubSeqProperties
  <2>4. \A i \in 1..Len(s) : p + 1 + i - 1 = p + i
    BY <1>1
  <2>5. Len(r) = Len(s)
    BY <2>2, <2>3, <1>1, <1>2
  <2> QED
    BY <2>2, <2>3, <2>4, <2>5
<1> HIDE DEF r
<1>4. \A i \in 1..Len(s) : r[i] = s[i]
  <2> TAKE i \in 1..Len(s)
  <2>1. p + i \in 1..Len(b)
    BY <1>1
  <2> QED
    BY <2>1, <1>3 DEF Starts, Holds
<1>5. r = s
  BY <1>3, <1>4, SeqEqual
<1> QED
  BY <1>5 DEF Slice, r, last

----------------------------------------------------------------------------
(* A text. *)

LEMMA HoldsOne ==
    ASSUME NEW b, NEW w, Starts(b, w), NEW p \in Nat, p < Len(b), NEW x, Holds(w, p, <<x>>)
    PROVE  b[p + 1] = x
<1>1. p + 1 \in 1..Len(b)
  BY DEF Starts
<1>2. Len(<<x>>) = 1 /\ <<x>>[1] = x
  OBVIOUS
<1> QED
  BY <1>1, <1>2 DEF Starts, Holds

LEMMA EncodedTextType ==
    ASSUME NEW t \in Seq(Bytes)
    PROVE  EncodedText(t) \in Seq(Bytes)
<1>1. Len(t) \in Nat /\ Escape \in Bytes
  BY WidthAssumption DEF Bytes
<1>2. CASE Len(t) <= Escape
  <2>1. Len(t) \in Bytes
    BY <1>1, <1>2, WidthAssumption DEF Bytes
  <2>2. <<Len(t)>> \in Seq(Bytes)
    BY <2>1
  <2> QED
    BY <2>2, <1>2, ConcatProperties DEF EncodedText
<1>3. CASE ~(Len(t) <= Escape)
  <2>1. <<Escape>> \in Seq(Bytes) /\ Encoded(Len(t)) \in Seq(Bytes)
    BY <1>1, EncodedType
  <2>2. <<Escape>> \o Encoded(Len(t)) \in Seq(Bytes)
    BY <2>1, ConcatProperties
  <2>3. <<Escape>> \o Encoded(Len(t)) \o t \in Seq(Bytes)
    BY <2>2, ConcatProperties
  <2> QED
    BY <2>3, <1>3 DEF EncodedText
<1> QED
  BY <1>2, <1>3

\* The length of a text, in either encoding, is read back as it was written,
\* when it does not read like the escape.
LEMMA LengthRead ==
    ASSUME NEW b, NEW w, Starts(b, w), NEW p \in Nat, NEW t \in Seq(Bytes), Encodable(Len(t)),
           Holds(w, p, EncodedText(t)), Len(t) # Escape
    PROVE  LET head == IF Len(t) < Escape THEN 1 ELSE 1 + Width
           IN /\ EncodedText(t) \in Seq(Bytes) /\ Len(EncodedText(t)) = head + Len(t)
              /\ Holds(w, p + head, t)
              /\ p < Len(b) => (Escaped(b, p) <=> ~(Len(t) < Escape))
              /\ p + head <= Len(b) =>
                    (IF Escaped(b, p) THEN Number(b, p + 1) ELSE b[p + 1]) = Len(t)
<1>1. /\ b \in Seq(Bytes) /\ w \in Seq(Bytes) /\ Len(b) \in Nat /\ Len(t) \in Nat
      /\ Escape \in Bytes /\ Escape \in Nat /\ Width \in 1..4
  BY WidthAssumption DEF Starts, Bytes
<1>2. CASE Len(t) < Escape
  <2> DEFINE c == <<Len(t)>>
  <2>1. c \in Seq(Bytes) /\ Len(c) = 1
    <3>1. Len(t) \in Bytes
      BY <1>1, <1>2 DEF Bytes
    <3> QED
      BY <3>1
  <2>2. EncodedText(t) = c \o t
    BY <1>1, <1>2 DEF EncodedText
  <2>3. /\ Holds(w, p, <<Len(t)>>) /\ Holds(w, p + 1, t)
        /\ EncodedText(t) \in Seq(Bytes) /\ Len(EncodedText(t)) = 1 + Len(t)
    <3> HIDE DEF c
    <3>1. Holds(w, p, c \o t) /\ w \in Seq(Bytes) /\ c \in Seq(Bytes) /\ t \in Seq(Bytes)
      BY <1>1, <2>1, <2>2
    <3>2. /\ Holds(w, p, c) /\ Holds(w, p + Len(c), t)
          /\ c \o t \in Seq(Bytes) /\ Len(c \o t) = Len(c) + Len(t)
      BY <3>1, HoldsParts
    <3> QED
      BY <2>1, <2>2, <3>2 DEF c
  <2>4. p < Len(b) => b[p + 1] = Len(t)
    BY <2>3, HoldsOne
  <2>5. p < Len(b) => ~Escaped(b, p)
    BY <2>4, <1>1, <1>2 DEF Escaped
  <2>6. p + 1 <= Len(b) => p < Len(b)
    BY <1>1
  <2> QED
    BY <1>2, <2>3, <2>4, <2>5, <2>6
<1>3. CASE ~(Len(t) < Escape)
  <2> DEFINE n == Encoded(Len(t))
             c == <<Escape>>
  <2>1. c \in Seq(Bytes) /\ Len(c) = 1
    BY <1>1
  <2>2. n \in Seq(Bytes) /\ Len(n) = Width
    BY <1>1, EncodedType
  <2>3. EncodedText(t) = (c \o n) \o t
    <3>1. ~(Len(t) <= Escape)
      BY <1>1, <1>3
    <3> QED
      BY <3>1 DEF EncodedText
  <2> HIDE DEF n, c
  <2>4. c \o n \in Seq(Bytes) /\ Len(c \o n) = 1 + Width
    BY <2>1, <2>2, ConcatProperties
  <2>5. /\ Holds(w, p, c \o n) /\ Holds(w, p + (1 + Width), t)
        /\ EncodedText(t) \in Seq(Bytes) /\ Len(EncodedText(t)) = 1 + Width + Len(t)
    <3> DEFINE d == c \o n
    <3> HIDE DEF d
    <3>1. Holds(w, p, d \o t) /\ d \in Seq(Bytes)
      BY <2>3, <2>4 DEF d
    <3>2. /\ Holds(w, p, d) /\ Holds(w, p + Len(d), t)
          /\ d \o t \in Seq(Bytes) /\ Len(d \o t) = Len(d) + Len(t)
      BY <1>1, <3>1, HoldsParts
    <3> QED
      BY <2>3, <2>4, <3>2 DEF d
  <2>6. Holds(w, p, <<Escape>>) /\ Holds(w, p + 1, n)
    <3>1. Holds(w, p, c) /\ Holds(w, p + Len(c), n)
      BY <1>1, <2>1, <2>2, <2>5, HoldsParts
    <3> QED
      BY <3>1, <2>1 DEF c
  <2>7. p < Len(b) => b[p + 1] = Escape
    BY <2>6, HoldsOne
  <2>8. p < Len(b) => Escaped(b, p)
    BY <2>7 DEF Escaped
  <2>9. ASSUME p + (1 + Width) <= Len(b) PROVE Number(b, p + 1) = Len(t)
    <3>1. p + 1 \in Nat
      OBVIOUS
    <3>2. \A i \in 1..Width : b[p + 1 + i] = n[i]
      <4> TAKE i \in 1..Width
      <4>1. p + 1 + i \in 1..Len(b)
        BY <1>1, <2>9
      <4>2. w[p + 1 + i] = n[i]
        BY <2>2, <2>6 DEF Holds
      <4> QED
        BY <4>1, <4>2 DEF Starts
    <3> QED
      BY <3>1, <3>2, <1>1, NumberReadBack DEF n
  <2>10. p + (1 + Width) <= Len(b) => p < Len(b)
    BY <1>1
  <2> QED
    BY <1>3, <2>5, <2>6, <2>8, <2>9, <2>10
<1> QED
  BY <1>2, <1>3

\* A text is read back as it was written, and is refused only when its end is
\* missing or when it is no UTF-8.
LEMMA TextRead ==
    ASSUME NEW b, NEW w, Starts(b, w), NEW p \in Nat, NEW t \in Seq(Bytes), Encodable(Len(t)),
           Holds(w, p, EncodedText(t)), Len(t) # Escape
    PROVE  LET end == p + Len(EncodedText(t))
           IN /\ EncodedText(t) \in Seq(Bytes) /\ end \in Nat /\ p < end
              /\ \A s \in Spans(b, p) : s.to = end /\ Slice(b, s.from, s.to) = t
              /\ end <= Len(b) /\ Decodable(t) => Spans(b, p) # {}
<1> DEFINE end == p + Len(EncodedText(t))
           head == IF Len(t) < Escape THEN 1 ELSE 1 + Width
           from == IF Escaped(b, p) THEN p + 1 + Width ELSE p + 1
           length == IF Escaped(b, p) THEN Number(b, p + 1) ELSE b[p + 1]
           to == from + length
<1>1. Len(t) \in Nat /\ Len(b) \in Nat /\ head \in Nat \ {0}
  BY WidthAssumption DEF Starts
<1>2. /\ EncodedText(t) \in Seq(Bytes) /\ end = p + head + Len(t)
      /\ Holds(w, p + head, t)
      /\ p < Len(b) => (Escaped(b, p) <=> ~(Len(t) < Escape))
      /\ p + head <= Len(b) => length = Len(t)
  <2>1. /\ EncodedText(t) \in Seq(Bytes) /\ Len(EncodedText(t)) = head + Len(t)
        /\ Holds(w, p + head, t)
        /\ p < Len(b) => (Escaped(b, p) <=> ~(Len(t) < Escape))
        /\ p + head <= Len(b) => length = Len(t)
    BY LengthRead
  <2> HIDE DEF head, length
  <2> QED
    BY <2>1, <1>1
<1>3. p < Len(b) => from = p + head
  <2>1. p + 1 + Width = p + (1 + Width)
    BY WidthAssumption
  <2> QED
    BY <2>1, <1>2
<1>4. Spans(b, p) = IF p < Len(b) /\ Fits(b, from) /\ Fits(b, to) /\ Decodable(Slice(b, from, to))
                    THEN {[from |-> from, to |-> to]} ELSE {}
  BY DEF Spans
<1> HIDE DEF end, head, from, length
<1>5. p + head <= Len(b) => from = p + head /\ to = end
  BY <1>1, <1>2, <1>3
<1>6. end <= Len(b) => Slice(b, p + head, end) = t
  BY <1>1, <1>2, HoldsSlice
<1> HIDE DEF to
<1>7. \A s \in Spans(b, p) : s.to = end /\ Slice(b, s.from, s.to) = t
  <2> TAKE s \in Spans(b, p)
  <2>1. p < Len(b) /\ from <= Len(b) /\ to <= Len(b) /\ s.from = from /\ s.to = to
    BY <1>4 DEF Fits
  <2>2. from = p + head /\ to = end
    BY <2>1, <1>3, <1>5
  <2> QED
    BY <2>1, <2>2, <1>6
<1>8. end <= Len(b) /\ Decodable(t) => Spans(b, p) # {}
  <2> SUFFICES ASSUME end <= Len(b), Decodable(t) PROVE Spans(b, p) # {}
    OBVIOUS
  <2>1. p < Len(b) /\ p + head <= Len(b)
    BY <1>1, <1>2
  <2>2. from = p + head /\ to = end /\ from <= Len(b) /\ to <= Len(b)
    BY <2>1, <1>5
  <2> QED
    BY <2>1, <2>2, <1>4, <1>6 DEF Fits
<1> QED
  BY <1>1, <1>2, <1>7, <1>8 DEF end

----------------------------------------------------------------------------
(* An entry. *)

\* The parts of an entry lie one behind the other: flag, the number before the
\* text, the text with its length, and the number after it.
LEMMA PartsOfSymbol ==
    ASSUME NEW w \in Seq(Bytes), NEW p \in Nat, NEW e \in Entries, WellMeant(e), Holds(w, p, EncodedSymbol(e)),
           EncodedText(e.text) \in Seq(Bytes)
    PROVE  LET lead == IF e.flag \in {5, 6} THEN <<>> ELSE e.number
               text == IF e.flag \in Texts THEN EncodedText(e.text) ELSE <<>>
               trail == IF e.flag \in {5, 6} THEN e.number ELSE <<>>
           IN /\ lead \in Seq(Bytes) /\ text \in Seq(Bytes) /\ trail \in Seq(Bytes)
              /\ Len(lead) = Lead(e.flag) /\ Len(trail) = Trail(e.flag) /\ e.number = lead \o trail
              /\ Holds(w, p, <<e.flag>>) /\ Holds(w, p + 1, lead)
              /\ Holds(w, p + 1 + Len(lead), text) /\ Holds(w, p + 1 + Len(lead) + Len(text), trail)
              /\ Len(EncodedSymbol(e)) = 1 + Len(lead) + Len(text) + Len(trail)
<1> DEFINE lead == IF e.flag \in {5, 6} THEN <<>> ELSE e.number
           text == IF e.flag \in Texts THEN EncodedText(e.text) ELSE <<>>
           trail == IF e.flag \in {5, 6} THEN e.number ELSE <<>>
           flag == <<e.flag>>
<1>1. /\ e.flag \in 1..6 /\ e.text \in Seq(Bytes) /\ e.number \in Seq(Bytes)
      /\ flag \in Seq(Bytes) /\ Len(flag) = 1
  <2>1. e.flag \in Flags /\ e.text \in Seq(Bytes) /\ e.number \in Seq(Bytes)
    BY DEF Entries
  <2>2. e.flag \in Bytes
    BY <2>1, FlagsAssumption
  <2> QED
    BY <2>1, <2>2 DEF Flags
<1>2. <<>> \in Seq(Bytes) /\ Len(<<>>) = 0
  OBVIOUS
<1>3. lead \in Seq(Bytes) /\ text \in Seq(Bytes) /\ trail \in Seq(Bytes)
  BY <1>1, <1>2
<1>4. Len(lead) = Lead(e.flag) /\ Len(trail) = Trail(e.flag)
  <2>1. Len(e.number) = NumberLength(e.flag)
    BY DEF WellMeant
  <2> QED
    BY <2>1, <1>1, <1>2 DEF NumberLength, Lead, Trail
<1>5. lead \o trail = e.number
  <2>1. <<>> \o e.number = e.number /\ e.number \o <<>> = e.number
    BY <1>1, ConcatEmptySeq
  <2> QED
    BY <2>1
<1>6. EncodedSymbol(e) = flag \o (lead \o (text \o trail))
  <2>1. EncodedSymbol(e) = flag \o (IF e.flag \in {5, 6} THEN text \o e.number ELSE e.number \o text)
    BY DEF EncodedSymbol, Texts
  <2>2. <<>> \o (text \o e.number) = text \o e.number
    <3>1. text \o e.number \in Seq(Bytes)
      BY <1>1, <1>3, ConcatProperties
    <3> QED
      BY <3>1, ConcatEmptySeq
  <2>3. text \o <<>> = text
    BY <1>3, ConcatEmptySeq
  <2>4. CASE e.flag \in {5, 6}
    <3>1. lead = <<>> /\ trail = e.number
      BY <2>4
    <3> HIDE DEF lead, text, trail, flag
    <3> QED
      BY <3>1, <2>1, <2>2, <2>4
  <2>5. CASE e.flag \notin {5, 6}
    <3>1. lead = e.number /\ trail = <<>>
      BY <2>5
    <3> HIDE DEF lead, text, trail, flag
    <3> QED
      BY <3>1, <2>1, <2>3, <2>5
  <2> QED
    BY <2>4, <2>5
<1> HIDE DEF lead, text, trail, flag
<1> DEFINE last == text \o trail
           rest == lead \o last
<1>7. last \in Seq(Bytes) /\ rest \in Seq(Bytes)
  BY <1>3, ConcatProperties
<1>8. Holds(w, p, flag \o rest) /\ flag \in Seq(Bytes) /\ rest \in Seq(Bytes)
  BY <1>1, <1>6, <1>7
<1> HIDE DEF last, rest
<1>9. Holds(w, p, flag) /\ Holds(w, p + Len(flag), rest) /\ Len(flag \o rest) = Len(flag) + Len(rest)
  BY <1>8, HoldsParts
<1>10. p + 1 \in Nat /\ Holds(w, p + 1, lead \o last)
  BY <1>1, <1>9 DEF rest
<1>11. Holds(w, p + 1, lead) /\ Holds(w, p + 1 + Len(lead), last) /\ Len(lead \o last) = Len(lead) + Len(last)
  BY <1>3, <1>7, <1>10, HoldsParts
<1>12. p + 1 + Len(lead) \in Nat /\ Holds(w, p + 1 + Len(lead), text \o trail)
  BY <1>3, <1>11 DEF last
<1>13. /\ Holds(w, p + 1 + Len(lead), text) /\ Holds(w, p + 1 + Len(lead) + Len(text), trail)
       /\ Len(text \o trail) = Len(text) + Len(trail)
  BY <1>3, <1>12, HoldsParts
<1>14. Len(EncodedSymbol(e)) = 1 + Len(lead) + Len(text) + Len(trail)
  <2>1. Len(EncodedSymbol(e)) = Len(flag) + Len(rest) /\ Len(rest) = Len(lead) + Len(last)
        /\ Len(last) = Len(text) + Len(trail)
    BY <1>6, <1>9, <1>11, <1>13 DEF rest, last
  <2> QED
    BY <2>1, <1>1, <1>3
<1> QED
  BY <1>3, <1>4, <1>5, <1>9, <1>11, <1>13, <1>14 DEF lead, text, trail, flag

\* The flag of an entry is read back as it was written.
LEMMA FlagRead ==
    ASSUME NEW b, NEW w, Starts(b, w), NEW p \in Nat, NEW e \in Entries, WellMeant(e),
           Holds(w, p, EncodedSymbol(e))
    PROVE  p < Len(b) => b[p + 1] = e.flag
<1>1. w \in Seq(Bytes) /\ e.text \in Seq(Bytes)
  BY DEF Starts, Entries
<1>2. EncodedText(e.text) \in Seq(Bytes)
  BY <1>1, EncodedTextType DEF WellMeant
<1>3. Holds(w, p, <<e.flag>>)
  BY <1>1, <1>2, PartsOfSymbol
<1> QED
  BY <1>3, HoldsOne

\* An entry is read back as it was written, and is refused only when its end
\* is missing or when its text is no UTF-8.
LEMMA SymbolRead ==
    ASSUME NEW b, NEW w, Starts(b, w), NEW p \in Nat, NEW e \in Entries, WellMeant(e),
           Holds(w, p, EncodedSymbol(e)), Unambiguous(e)
    PROVE  LET end == p + Len(EncodedSymbol(e))
           IN /\ p < Len(b) => b[p + 1] = e.flag
              /\ \A s \in SymbolsAt(b, p) :
                    s.flag = e.flag /\ s.text = e.text /\ s.number = e.number /\ s.next = end
              /\ end <= Len(b) /\ Decodable(e.text) => SymbolsAt(b, p) # {}
<1> DEFINE end == p + Len(EncodedSymbol(e))
           lead == IF e.flag \in {5, 6} THEN <<>> ELSE e.number
           text == IF e.flag \in Texts THEN EncodedText(e.text) ELSE <<>>
           trail == IF e.flag \in {5, 6} THEN e.number ELSE <<>>
           flag == b[p + 1]
           textAt == p + 1 + Lead(flag)
           spans == IF flag \in Texts THEN Spans(b, textAt) ELSE {[from |-> textAt, to |-> textAt]}
           symbol(s) == [flag |-> flag, text |-> Slice(b, s.from, s.to), at |-> p, next |-> s.to + Trail(flag),
                         number |-> Slice(b, p + 1, textAt) \o Slice(b, s.to, s.to + Trail(flag))]
<1>1. /\ b \in Seq(Bytes) /\ w \in Seq(Bytes) /\ Len(b) \in Nat
      /\ e.flag \in Flags /\ e.text \in Seq(Bytes) /\ e.number \in Seq(Bytes)
  BY DEF Starts, Entries
<1>2. EncodedText(e.text) \in Seq(Bytes)
  BY <1>1, EncodedTextType DEF WellMeant
<1>3. /\ lead \in Seq(Bytes) /\ text \in Seq(Bytes) /\ trail \in Seq(Bytes)
      /\ Len(lead) = Lead(e.flag) /\ Len(trail) = Trail(e.flag) /\ e.number = lead \o trail
      /\ Holds(w, p, <<e.flag>>) /\ Holds(w, p + 1, lead)
      /\ Holds(w, p + 1 + Len(lead), text) /\ Holds(w, p + 1 + Len(lead) + Len(text), trail)
      /\ Len(EncodedSymbol(e)) = 1 + Len(lead) + Len(text) + Len(trail)
  BY <1>1, <1>2, PartsOfSymbol
<1>4. /\ Len(lead) \in Nat /\ Len(text) \in Nat /\ Len(trail) \in Nat
      /\ end \in Nat /\ end = p + 1 + Len(lead) + Len(text) + Len(trail)
  <2>1. Len(lead) \in Nat /\ Len(text) \in Nat /\ Len(trail) \in Nat
    BY <1>3
  <2> HIDE DEF lead, text, trail
  <2> QED
    BY <2>1, <1>3
<1>5. p < Len(b) => flag = e.flag
  BY <1>3, HoldsOne
<1>6. SymbolsAt(b, p) = IF p < Len(b) /\ flag \in Flags /\ Fits(b, textAt)
                        THEN {symbol(s) : s \in {s \in spans : Fits(b, s.to + Trail(flag))}} ELSE {}
  BY DEF SymbolsAt
<1> HIDE DEF lead, text, trail, end, flag
<1>7. p < Len(b) => textAt = p + 1 + Len(lead) /\ textAt \in Nat
  BY <1>3, <1>4, <1>5
<1> HIDE DEF textAt
\* The span of the text
<1>8. ASSUME p < Len(b), textAt <= Len(b)
      PROVE  /\ \A s \in spans : s.to = textAt + Len(text) /\ Slice(b, s.from, s.to) = e.text
             /\ textAt + Len(text) <= Len(b) /\ Decodable(e.text) => spans # {}
  <2>1. flag = e.flag /\ textAt \in Nat
    BY <1>5, <1>7, <1>8
  <2>2. Holds(w, textAt, text)
    BY <1>3, <1>7, <1>8
  <2>3. CASE e.flag \in Texts
    <3>1. text = EncodedText(e.text) /\ spans = Spans(b, textAt)
      BY <2>1, <2>3 DEF text
    <3>2. /\ Holds(w, textAt, EncodedText(e.text)) /\ Encodable(Len(e.text)) /\ e.text \in Seq(Bytes)
          /\ Len(e.text) # Escape
      BY <3>1, <2>2, <2>3, <1>1 DEF WellMeant, Unambiguous
    <3> HIDE DEF spans
    <3>3. /\ \A s \in Spans(b, textAt) : s.to = textAt + Len(EncodedText(e.text)) /\ Slice(b, s.from, s.to) = e.text
          /\ textAt + Len(EncodedText(e.text)) <= Len(b) /\ Decodable(e.text) => Spans(b, textAt) # {}
      BY <3>2, <2>1, TextRead
    <3> QED
      BY <3>1, <3>3
  <2>4. CASE e.flag \notin Texts
    <3>1. text = <<>> /\ spans = {[from |-> textAt, to |-> textAt]} /\ e.text = <<>>
      <4>1. e.flag \in {1, 2}
        BY <2>4, <1>1 DEF Flags, Texts
      <4> QED
        BY <4>1, <2>1, <2>4 DEF WellMeant, text
    <3>2. Len(<<>>) = 0 /\ textAt + 0 = textAt /\ <<>> \in Seq(Bytes)
      BY <2>1
    <3>3. Holds(w, textAt, <<>>) /\ textAt + Len(<<>>) <= Len(b)
      BY <3>1, <3>2, <2>2, <1>8
    <3>4. Slice(b, textAt, textAt) = <<>>
      <4>1. Slice(b, textAt, textAt + Len(<<>>)) = <<>>
        BY <3>2, <3>3, <2>1, HoldsSlice
      <4> QED
        BY <4>1, <3>2
    <3>5. \A s \in spans : s.to = textAt /\ s.from = textAt
      BY <3>1
    <3> QED
      BY <3>1, <3>2, <3>4, <3>5
  <2> QED
    BY <2>3, <2>4
<1> HIDE DEF spans
\* The number around it
<1>10. ASSUME p < Len(b), textAt <= Len(b), NEW s \in spans, s.to + Trail(flag) <= Len(b)
       PROVE  symbol(s).flag = e.flag /\ symbol(s).text = e.text /\ symbol(s).number = e.number
              /\ symbol(s).next = end
  <2>1. flag = e.flag /\ textAt = p + 1 + Len(lead) /\ Trail(flag) = Len(trail)
    BY <1>3, <1>5, <1>7, <1>10
  <2>2. s.to = textAt + Len(text) /\ Slice(b, s.from, s.to) = e.text
    BY <1>8, <1>10
  <2>3. /\ s.to = p + 1 + Len(lead) + Len(text) /\ s.to \in Nat /\ s.to + Len(trail) <= Len(b)
        /\ end = s.to + Len(trail)
    BY <2>1, <2>2, <1>4, <1>10
  <2>4. Slice(b, p + 1, textAt) = lead
    <3>1. p + 1 \in Nat /\ p + 1 + Len(lead) <= Len(b)
      BY <2>1, <1>10
    <3>2. Slice(b, p + 1, p + 1 + Len(lead)) = lead
      BY <3>1, <1>3, HoldsSlice
    <3> QED
      BY <3>2, <2>1
  <2>5. Slice(b, s.to, s.to + Trail(flag)) = trail
    <3>1. Holds(w, s.to, trail) /\ trail \in Seq(Bytes)
      BY <2>3, <1>3
    <3>2. Slice(b, s.to, s.to + Len(trail)) = trail
      BY <3>1, <2>3, HoldsSlice
    <3> QED
      BY <3>2, <2>1
  <2> QED
    BY <2>1, <2>2, <2>3, <2>4, <2>5, <1>3
<1>9. \A s \in SymbolsAt(b, p) :
         s.flag = e.flag /\ s.text = e.text /\ s.number = e.number /\ s.next = end
  <2> SUFFICES ASSUME NEW x \in SymbolsAt(b, p)
               PROVE  x.flag = e.flag /\ x.text = e.text /\ x.number = e.number /\ x.next = end
    OBVIOUS
  <2>1. p < Len(b) /\ textAt <= Len(b)
    BY <1>6 DEF Fits
  <2> HIDE DEF symbol
  <2>2. PICK s \in spans : Fits(b, s.to + Trail(flag)) /\ x = symbol(s)
    BY <1>6
  <2> QED
    BY <2>1, <2>2, <1>10 DEF Fits
<1>11. end <= Len(b) /\ Decodable(e.text) => SymbolsAt(b, p) # {}
  <2> SUFFICES ASSUME end <= Len(b), Decodable(e.text) PROVE SymbolsAt(b, p) # {}
    OBVIOUS
  <2>1. p < Len(b)
    BY <1>1, <1>4
  <2>2. flag = e.flag /\ textAt = p + 1 + Len(lead) /\ Trail(flag) = Len(trail)
    BY <2>1, <1>3, <1>5, <1>7
  <2>3. textAt <= Len(b) /\ textAt + Len(text) <= Len(b) /\ textAt + Len(text) + Len(trail) <= Len(b)
    BY <2>2, <1>1, <1>4
  <2> HIDE DEF symbol
  <2>4. PICK s \in spans : s.to = textAt + Len(text)
    BY <2>1, <2>3, <1>8
  <2>5. Fits(b, s.to + Trail(flag))
    BY <2>2, <2>3, <2>4 DEF Fits
  <2>6. flag \in Flags /\ Fits(b, textAt)
    BY <2>2, <2>3, <1>1 DEF Fits
  <2>7. symbol(s) \in SymbolsAt(b, p)
    BY <2>1, <2>4, <2>5, <2>6, <1>6
  <2> QED
    BY <2>7
<1> QED
  BY <1>5, <1>9, <1>11 DEF end, flag

----------------------------------------------------------------------------
(* A table. *)

LEMMA TableParts ==
    ASSUME NEW w \in Seq(Bytes), NEW es \in Seq(Entries), NEW ends \in Seq(Nat), LaidOut(w, es, ends)
    PROVE  /\ \A i \in 0..Len(es) : EndOf(ends, i) \in Nat /\ EndOf(ends, i) <= Len(w)
           /\ \A i \in 1..Len(es) :
                /\ es[i] \in Entries /\ WellMeant(es[i])
                /\ Holds(w, EndOf(ends, i - 1), EncodedSymbol(es[i]))
                /\ EndOf(ends, i) = EndOf(ends, i - 1) + Len(EncodedSymbol(es[i]))
<1>1. /\ Len(es) \in Nat /\ Len(w) \in Nat /\ DOMAIN ends = 1..Len(es) /\ DOMAIN es = 1..Len(es) /\ Header \in Nat
      /\ Len(w) = EndOf(ends, Len(es))
      /\ \A i, j \in 0..Len(es) : i < j => EndOf(ends, i) < EndOf(ends, j)
  BY WidthAssumption DEF LaidOut, Header
<1>2. \A i \in 0..Len(es) : EndOf(ends, i) \in Nat
  <2> TAKE i \in 0..Len(es)
  <2>1. CASE i = 0
    BY <2>1, <1>1 DEF EndOf
  <2>2. CASE i # 0
    <3>1. i \in DOMAIN ends
      BY <2>2, <1>1
    <3>2. ends[i] \in Nat
      BY <3>1
    <3> QED
      BY <3>2, <2>2 DEF EndOf
  <2> QED
    BY <2>1, <2>2
<1>3. \A i \in 0..Len(es) : EndOf(ends, i) <= Len(w)
  <2> TAKE i \in 0..Len(es)
  <2>1. Len(es) \in Nat /\ Len(es) \in 0..Len(es)
    OBVIOUS
  <2>2. i = Len(es) \/ i < Len(es)
    BY <2>1
  <2>3. i < Len(es) => EndOf(ends, i) < EndOf(ends, Len(es))
    BY <2>1, <1>1
  <2>4. EndOf(ends, i) \in Nat /\ EndOf(ends, Len(es)) \in Nat /\ EndOf(ends, Len(es)) = Len(w)
    BY <2>1, <1>1, <1>2
  <2> QED
    BY <2>2, <2>3, <2>4
<1>4. ASSUME NEW i \in 1..Len(es)
      PROVE  /\ es[i] \in Entries /\ WellMeant(es[i])
             /\ Holds(w, EndOf(ends, i - 1), EncodedSymbol(es[i]))
             /\ EndOf(ends, i) = EndOf(ends, i - 1) + Len(EncodedSymbol(es[i]))
  <2> DEFINE p == EndOf(ends, i - 1)
             q == EndOf(ends, i)
             s == EncodedSymbol(es[i])
  <2>1. es[i] \in Entries /\ WellMeant(es[i])
    BY <1>1 DEF LaidOut
  <2>2. SubSeq(w, p + 1, q) = s
    <3>1. SubSeq(w, EndOf(ends, i - 1) + 1, ends[i]) = EncodedSymbol(es[i])
      BY <1>1 DEF LaidOut
    <3>2. EndOf(ends, i) = ends[i]
      BY DEF EndOf
    <3> QED
      BY <3>1, <3>2
  <2>3. i - 1 \in 0..Len(es) /\ i \in 0..Len(es) /\ i - 1 < i
    BY <1>1
  <2>4. p \in Nat /\ q \in Nat /\ p < q /\ q <= Len(w)
    BY <2>3, <1>1, <1>2, <1>3
  <2> HIDE DEF p, q, s
  <2>5. s \in Seq(Bytes)
    <3>1. \A j \in p + 1..q : w[j] \in Bytes
      <4> TAKE j \in p + 1..q
      <4>1. j \in 1..Len(w)
        BY <2>4
      <4> QED
        BY <4>1
    <3>2. p + 1 \in Int /\ q \in Int
      BY <2>4
    <3> QED
      BY <3>1, <3>2, <2>2, SubSeqProperties
  <2>6. q = p + Len(s) /\ Holds(w, p, s)
    BY <2>2, <2>4, <2>5, HoldsSubSeq
  <2> QED
    BY <2>1, <2>6 DEF p, q, s
<1> QED
  BY <1>2, <1>3, <1>4

LEMMA HeaderRead ==
    ASSUME NEW b, NEW w, Starts(b, w), NEW es \in Seq(Entries), NEW ends, LaidOut(w, es, ends), Header <= Len(b)
    PROVE  Count(b) = Len(es) /\ \A i \in 1..Width : b[i] = 0
<1> DEFINE zero == Encoded(0)
           count == Encoded(Len(es))
<1>1. /\ b \in Seq(Bytes) /\ w \in Seq(Bytes) /\ Len(b) \in Nat /\ Len(w) \in Nat /\ Len(es) \in Nat
      /\ Width \in 1..4 /\ Header = Width + Width /\ Header \in Nat \ {0} /\ Len(b) <= Len(w)
      /\ \A i \in 1..Len(b) : w[i] = b[i]
  BY WidthAssumption DEF Starts, Header
<1>2. zero \in Seq(Bytes) /\ Len(zero) = Width /\ count \in Seq(Bytes) /\ Len(count) = Width
  BY <1>1, EncodedType
<1>3. \A i \in 1..Width : zero[i] = 0
  <2> TAKE i \in 1..Width
  <2>1. zero[i] = Rest(0, i - 1) % (Escape + 1)
    BY DEF Encoded
  <2>2. Rest(0, i - 1) = 0
    <3>1. \A k \in 0..3 : Rest(0, k) = 0 => Rest(0, k + 1) = 0
      BY RestZero
    <3>2. Rest(0, 0) = 0
      BY DEF Rest
    <3>3. Rest(0, 1) = 0 /\ Rest(0, 2) = 0 /\ Rest(0, 3) = 0
      <4>1. 0 + 1 = 1 /\ 1 + 1 = 2 /\ 2 + 1 = 3
        OBVIOUS
      <4> QED
        BY <4>1, <3>1, <3>2
    <3>4. i - 1 \in {0, 1, 2, 3}
      BY <1>1
    <3> QED
      BY <3>2, <3>3, <3>4
  <2>3. 0 % (Escape + 1) = 0
    BY WidthAssumption
  <2> QED
    BY <2>1, <2>2, <2>3
<1>4. SubSeq(w, 0 + 1, Header) = zero \o count /\ zero \o count \in Seq(Bytes)
  <2>1. SubSeq(w, 1, Header) = zero \o count
    BY DEF LaidOut
  <2>2. zero \o count \in Seq(Bytes)
    <3> HIDE DEF zero, count
    <3> QED
      BY <1>2, ConcatProperties
  <2>3. 0 + 1 = 1
    OBVIOUS
  <2> HIDE DEF zero, count
  <2> QED
    BY <2>1, <2>2, <2>3
<1>5. Encodable(Len(es))
  BY DEF LaidOut
<1> HIDE DEF zero, count
<1>6. Holds(w, 0, zero \o count)
  <2>1. 0 \in Nat /\ Header \in Nat /\ 0 < Header /\ Header <= Len(w)
    BY <1>1
  <2> QED
    BY <2>1, <1>1, <1>4, HoldsSubSeq
<1>7. Holds(w, 0, zero) /\ Holds(w, 0 + Len(zero), count)
  <2>1. 0 \in Nat
    OBVIOUS
  <2> QED
    BY <2>1, <1>1, <1>2, <1>6, HoldsParts
<1>8. \A i \in 1..Width : b[i] = 0
  <2> TAKE i \in 1..Width
  <2>1. i \in 1..Len(b) /\ 0 + i = i
    BY <1>1
  <2> QED
    BY <2>1, <1>1, <1>2, <1>3, <1>7 DEF Holds
<1>9. \A i \in 1..Width : b[Width + i] = Encoded(Len(es))[i]
  <2> TAKE i \in 1..Width
  <2>1. Width + i \in 1..Len(b) /\ 0 + Width = Width
    BY <1>1
  <2>2. w[Width + i] = count[i]
    BY <2>1, <1>2, <1>7 DEF Holds
  <2> QED
    BY <2>1, <2>2, <1>1 DEF count
<1>10. Count(b) = Len(es)
  <2>1. Width \in Nat
    BY <1>1
  <2> QED
    BY <2>1, <1>1, <1>5, <1>9, NumberReadBack DEF Count
<1> QED
  BY <1>8, <1>10

\* What is left of a table gives its entries, as far as their ends are left
\* and they read one way only.
Readable(c) ==
    LET b == c.whole
        es == c.entries
        End(i) == EndOf(c.ends, i)
    IN /\ Header <= Len(b) => Count(b) = Len(es) /\ \A i \in 1..Width : b[i] = 0
       /\ \A i \in 0..Len(es) : End(i) \in Nat
       /\ \A i, j \in 0..Len(es) : i < j => End(i) < End(j)
       /\ \A i \in 1..Len(es) :
            /\ End(i - 1) < Len(b) => b[End(i - 1) + 1] = es[i].flag
            /\ Unambiguous(es[i]) =>
                /\ \A s \in SymbolsAt(b, End(i - 1)) :
                    s.flag = es[i].flag /\ s.text = es[i].text /\ s.number = es[i].number /\ s.next = End(i)
                /\ End(i) <= Len(b) /\ Decodable(es[i].text) => SymbolsAt(b, End(i - 1)) # {}
       /\ c.lost = <<>> => End(Len(es)) = Len(b)

LEMMA WrittenIsReadable ==
    ASSUME NEW c \in ContainerBlocks, AsWritten(c), c.written
    PROVE  Readable(c)
<1> DEFINE b == c.whole
           l == c.lost
           w == b \o l
           es == c.entries
           ends == c.ends
<1>1. b \in Seq(Bytes) /\ l \in Seq(Bytes) /\ es \in Seq(Entries) /\ ends \in Seq(Nat)
  BY DEF ContainerBlocks
<1>2. LaidOut(w, es, ends)
  BY DEF AsWritten
<1> HIDE DEF b, l, es, ends
<1>3. Starts(b, w) /\ w \in Seq(Bytes)
  BY <1>1, StartsWhole, ConcatProperties
<1>4. l = <<>> => w = b
  BY <1>1, ConcatEmptySeq
<1> HIDE DEF w
<1>5. /\ \A i \in 0..Len(es) : EndOf(ends, i) \in Nat /\ EndOf(ends, i) <= Len(w)
      /\ \A i \in 1..Len(es) :
            /\ es[i] \in Entries /\ WellMeant(es[i])
            /\ Holds(w, EndOf(ends, i - 1), EncodedSymbol(es[i]))
            /\ EndOf(ends, i) = EndOf(ends, i - 1) + Len(EncodedSymbol(es[i]))
  BY <1>1, <1>2, <1>3, TableParts
<1>6. Header <= Len(b) => Count(b) = Len(es) /\ \A i \in 1..Width : b[i] = 0
  BY <1>1, <1>2, <1>3, HeaderRead
<1>7. ASSUME NEW i \in 1..Len(es)
      PROVE  /\ EndOf(ends, i - 1) < Len(b) => b[EndOf(ends, i - 1) + 1] = es[i].flag
             /\ Unambiguous(es[i]) =>
                /\ \A s \in SymbolsAt(b, EndOf(ends, i - 1)) :
                    s.flag = es[i].flag /\ s.text = es[i].text /\ s.number = es[i].number /\ s.next = EndOf(ends, i)
                /\ EndOf(ends, i) <= Len(b) /\ Decodable(es[i].text) => SymbolsAt(b, EndOf(ends, i - 1)) # {}
  <2> DEFINE p == EndOf(ends, i - 1)
             e == es[i]
  <2>1. i - 1 \in 0..Len(es)
    BY <1>1
  <2>2. /\ p \in Nat /\ e \in Entries /\ WellMeant(e) /\ Holds(w, p, EncodedSymbol(e))
        /\ EndOf(ends, i) = p + Len(EncodedSymbol(e))
    BY <2>1, <1>5
  <2> HIDE DEF p, e
  <2>3. p < Len(b) => b[p + 1] = e.flag
    BY <2>2, <1>3, FlagRead
  <2>4. ASSUME Unambiguous(e)
        PROVE  /\ \A s \in SymbolsAt(b, p) :
                    s.flag = e.flag /\ s.text = e.text /\ s.number = e.number /\ s.next = p + Len(EncodedSymbol(e))
               /\ p + Len(EncodedSymbol(e)) <= Len(b) /\ Decodable(e.text) => SymbolsAt(b, p) # {}
    BY <2>2, <2>4, <1>3, SymbolRead
  <2> QED
    BY <2>2, <2>3, <2>4 DEF p, e
<1>8. \A i, j \in 0..Len(es) : i < j => EndOf(ends, i) < EndOf(ends, j)
  BY <1>2 DEF LaidOut
<1>9. l = <<>> => EndOf(ends, Len(es)) = Len(b)
  BY <1>2, <1>4 DEF LaidOut
<1> QED
  BY <1>5, <1>6, <1>7, <1>8, <1>9 DEF Readable, b, es, ends, l

----------------------------------------------------------------------------
(* The loop. *)

\* The decoder at work has read the first entries of its block, if that holds
\* a table, and when it returns all that it was asked for.
ReadSoFar(c) ==
    /\ \A i \in DOMAIN out :
        /\ i <= Len(c.entries)
        /\ out[i].flag = c.entries[i].flag /\ out[i].text = c.entries[i].text
        /\ out[i].number = c.entries[i].number
        /\ out[i].next = EndOf(c.ends, i)
    /\ stage = "decoded" => Len(out) = Wanted

ReadingState ==
    /\ \A i \in DOMAIN blocks : Joined(blocks, i) /\ (blocks[i].written => Readable(blocks[i]))
    /\ step \in {"fields", "tables"} => buf = blocks[at].buf
    /\ step = "values" => buf = blocks[at].whole
    /\ Working => ReadSoFar(blocks[at])
    /\ RefusesOnlyDamage

\* A decoder is at work on a table, which may read in more ways than one.
AtTable ==
    /\ step \in {"fields", "tables", "values"} /\ blocks[at].written
    /\ step = "values" \/ Opens(blocks, at)

\* What is known of the block of the decoder at work
LEMMA TableAtWork ==
    ASSUME FileState, ReadingState, AtTable
    PROVE  /\ at \in DOMAIN blocks /\ blocks[at] \in ContainerBlocks /\ Readable(blocks[at])
           /\ buf = blocks[at].whole /\ blocks[at].entries \in Seq(Entries)
           /\ Len(buf) \in Nat /\ Len(blocks[at].entries) \in Nat
<1>1. at \in 1..Len(blocks) /\ blocks \in Seq(ContainerBlocks)
  BY DEF AtTable, FileState, MetaTypes
<1>2. at \in DOMAIN blocks /\ blocks[at] \in ContainerBlocks
  BY <1>1
<1>3. Readable(blocks[at]) /\ buf = blocks[at].whole
  <2>1. Joined(blocks, at) /\ Readable(blocks[at])
    BY <1>2 DEF AtTable, ReadingState
  <2>2. CASE step = "values"
    BY <2>1, <2>2 DEF ReadingState
  <2>3. CASE step # "values"
    <3>1. Opens(blocks, at) /\ buf = blocks[at].buf
      BY <2>3 DEF AtTable, ReadingState
    <3> QED
      BY <2>1, <3>1 DEF Joined
  <2> QED
    BY <2>2, <2>3
<1>4. buf \in Seq(Bytes) /\ blocks[at].entries \in Seq(Entries)
  BY <1>2, <1>3 DEF ContainerBlocks
<1> QED
  BY <1>2, <1>3, <1>4

LEMMA TableMeant ==
    ASSUME FileState, ReadingState, AtTable
    PROVE  LET es == blocks[at].entries
           IN /\ Meant \in Seq(Entries) /\ Len(Meant) \in 0..Len(es)
              /\ \A i \in 1..Len(Meant) : Meant[i] = es[i]
              /\ Header <= Len(buf) => Len(Meant) = Wanted /\ Count(buf) = Len(es)
<1> DEFINE es == blocks[at].entries
           l == limit
<1>1. es \in Seq(Entries) /\ Len(es) \in Nat /\ l \in Nat
  BY TableAtWork, SamplesAssumption DEF FileState, Counted
<1>2. Header <= Len(buf) => Count(buf) = Len(es)
  BY TableAtWork DEF Readable
<1> HIDE DEF es, l
<1>3. CASE mode = "sample" /\ l < Len(es)
  <2>1. Meant = SubSeq(es, 1, l)
    BY <1>3 DEF Meant, es, l
  <2>2. \A i \in 1..l : es[i] \in Entries
    BY <1>1, <1>3
  <2>3. /\ SubSeq(es, 1, l) \in Seq(Entries)
        /\ Len(SubSeq(es, 1, l)) = IF 1 <= l THEN l - 1 + 1 ELSE 0
        /\ \A i \in 1..l - 1 + 1 : SubSeq(es, 1, l)[i] = es[1 + i - 1]
    <3>1. 1 \in Int /\ l \in Int
      BY <1>1
    <3> QED
      BY <2>2, <3>1, SubSeqProperties
  <2>4. Len(Meant) = l
    BY <2>1, <2>3, <1>1
  <2>5. \A i \in 1..l : Meant[i] = es[i]
    BY <2>1, <2>3, <1>1
  <2>6. Header <= Len(buf) => Wanted = l
    BY <1>2, <1>3 DEF Wanted, l
  <2> QED
    BY <2>1, <2>3, <2>4, <2>5, <2>6, <1>1, <1>2, <1>3 DEF es
<1>4. CASE ~(mode = "sample" /\ l < Len(es))
  <2>1. Meant = es
    BY <1>4 DEF Meant, es, l
  <2>2. Header <= Len(buf) => Wanted = Len(es)
    BY <1>2, <1>4 DEF Wanted, l
  <2> QED
    BY <2>1, <2>2, <1>1, <1>2 DEF es
<1> QED
  BY <1>3, <1>4

LEMMA AtWork ==
    ASSUME FileState, ReadingState, Working
    PROVE  /\ at \in DOMAIN blocks /\ blocks[at] \in ContainerBlocks /\ Readable(blocks[at])
           /\ buf = blocks[at].whole /\ blocks[at].entries \in Seq(Entries)
           /\ Len(buf) \in Nat /\ Len(blocks[at].entries) \in Nat
BY TableAtWork DEF Working, AtTable

LEMMA MeantFirst ==
    ASSUME FileState, ReadingState, Working
    PROVE  LET es == blocks[at].entries
           IN /\ Meant \in Seq(Entries) /\ Len(Meant) \in 0..Len(es)
              /\ \A i \in 1..Len(Meant) : Meant[i] = es[i] /\ Unambiguous(es[i])
              /\ Header <= Len(buf) => Len(Meant) = Wanted /\ Count(buf) = Len(es)
<1> DEFINE es == blocks[at].entries
<1>1. AtTable
  BY DEF Working, AtTable
<1>2. /\ Meant \in Seq(Entries) /\ Len(Meant) \in 0..Len(es)
      /\ \A i \in 1..Len(Meant) : Meant[i] = es[i]
      /\ Header <= Len(buf) => Len(Meant) = Wanted /\ Count(buf) = Len(es)
  BY <1>1, TableMeant
<1>3. \A i \in 1..Len(Meant) : Unambiguous(es[i])
  <2> TAKE i \in 1..Len(Meant)
  <2>1. Meant[i] \in ToSet(Meant) /\ Meant[i] = es[i]
    BY <1>2 DEF ToSet
  <2> QED
    BY <2>1 DEF Working
<1> QED
  BY <1>2, <1>3

LEMMA EndsGrow ==
    ASSUME NEW c, Readable(c), NEW i \in 0..Len(c.entries), NEW j \in 0..Len(c.entries), i <= j,
           Len(c.entries) \in Nat
    PROVE  EndOf(c.ends, i) \in Nat /\ EndOf(c.ends, j) \in Nat /\ EndOf(c.ends, i) <= EndOf(c.ends, j)
<1>1. EndOf(c.ends, i) \in Nat /\ EndOf(c.ends, j) \in Nat
  BY DEF Readable
<1>2. i < j => EndOf(c.ends, i) < EndOf(c.ends, j)
  BY DEF Readable
<1>3. i = j \/ i < j
  OBVIOUS
<1> QED
  BY <1>1, <1>2, <1>3

\* The cursor is at the end of the entries read.
LEMMA CursorAtEnd ==
    ASSUME FileState, ReadingState, Working, stage \in {"entries", "decoded"}
    PROVE  /\ pos = EndOf(blocks[at].ends, Len(out)) /\ Len(out) \in Nat
           /\ Header <= Len(buf) /\ Len(out) <= Wanted /\ Wanted = Len(Meant)
           /\ DOMAIN out = 1..Len(out)
<1>1. out \in Seq(SymbolSet) /\ Len(out) \in Nat /\ DOMAIN out = 1..Len(out)
  BY DEF FileState, TableState
<1>2. HeaderOK /\ Len(out) <= Wanted
  BY DEF FileState, Counted
<1>3. Header <= Len(buf)
  BY <1>2, AtWork, WidthAssumption DEF HeaderOK, Header
<1>4. Wanted = Len(Meant)
  BY <1>3, MeantFirst
<1>5. pos = IF out = <<>> THEN Header ELSE Last(out).next
  BY DEF FileState, TableState, EntriesTile
<1>6. CASE out = <<>>
  BY <1>1, <1>2, <1>3, <1>4, <1>5, <1>6 DEF EndOf
<1>7. CASE out # <<>>
  <2>1. Len(out) \in DOMAIN out /\ Last(out) = out[Len(out)]
    BY <1>1, <1>7 DEF Last
  <2>2. Last(out).next = EndOf(blocks[at].ends, Len(out))
    BY <2>1 DEF ReadingState, ReadSoFar
  <2> QED
    BY <2>2, <1>1, <1>2, <1>3, <1>4, <1>5, <1>7
<1> QED
  BY <1>6, <1>7

LEMMA EntryRead ==
    ASSUME FileState, ReadingState, Working, Entry
    PROVE  LET c == blocks[at]
           IN \A i \in DOMAIN out' :
                /\ i <= Len(c.entries)
                /\ out'[i].flag = c.entries[i].flag /\ out'[i].text = c.entries[i].text
                /\ out'[i].number = c.entries[i].number
                /\ out'[i].next = EndOf(c.ends, i)
<1> DEFINE c == blocks[at]
           es == c.entries
           n == Len(out)
<1>1. stage = "entries" /\ n < Wanted /\ \E e \in EntriesAt(pos) : out' = Append(out, e)
  BY DEF Entry
<1>2. PICK e \in EntriesAt(pos) : out' = Append(out, e)
  BY <1>1
<1>3. /\ pos = EndOf(c.ends, n) /\ n \in Nat /\ Wanted = Len(Meant) /\ DOMAIN out = 1..n
  BY <1>1, CursorAtEnd
<1>4. Len(Meant) \in 0..Len(es) /\ Len(es) \in Nat /\ Readable(c) /\ buf = c.whole
  BY AtWork, MeantFirst
<1>5. n + 1 \in 1..Len(es) /\ (n + 1) - 1 = n /\ Unambiguous(es[n + 1])
  <2>1. n + 1 \in 1..Len(Meant) /\ n + 1 \in 1..Len(es) /\ (n + 1) - 1 = n
    BY <1>1, <1>3, <1>4
  <2> QED
    BY <2>1, MeantFirst
<1>6. e \in SymbolsAt(buf, pos)
  BY DEF EntriesAt, StringsAt
<1>7. /\ e.flag = es[n + 1].flag /\ e.text = es[n + 1].text /\ e.number = es[n + 1].number
      /\ e.next = EndOf(c.ends, n + 1)
  BY <1>3, <1>4, <1>5, <1>6 DEF Readable
<1>8. \A i \in DOMAIN out : /\ i <= Len(es)
                            /\ out[i].flag = es[i].flag /\ out[i].text = es[i].text
                            /\ out[i].number = es[i].number /\ out[i].next = EndOf(c.ends, i)
  BY DEF ReadingState, ReadSoFar
<1>9. /\ DOMAIN out' = 1..n + 1 /\ out'[n + 1] = e /\ \A i \in 1..n : out'[i] = out[i]
  <2>1. out \in Seq(SymbolSet)
    BY DEF FileState, TableState
  <2> QED
    BY <2>1, <1>2
<1> HIDE DEF c, es, n
<1>10. \A i \in DOMAIN out' :
          /\ i <= Len(es)
          /\ out'[i].flag = es[i].flag /\ out'[i].text = es[i].text
          /\ out'[i].number = es[i].number
          /\ out'[i].next = EndOf(c.ends, i)
  <2> TAKE i \in DOMAIN out'
  <2>1. CASE i \in 1..n
    BY <2>1, <1>3, <1>8, <1>9
  <2>2. CASE i = n + 1
    BY <2>2, <1>4, <1>5, <1>7, <1>9
  <2> QED
    BY <2>1, <2>2, <1>3, <1>9
<1> QED
  BY <1>10 DEF c, es

LEMMA RefusedForDamage ==
    ASSUME FileState, ReadingState, Working, (ReadHeader /\ ~HeaderOK) \/ Refuse
    PROVE  \/ Len(buf) < EndOf(blocks[at].ends, Len(Meant))
           \/ \E e \in ToSet(Meant) : ~Decodable(e.text)
           \/ Len(blocks[at].entries) > MaxCount
           \/ mode = "strings" /\ \E e \in ToSet(Meant) : e.flag # Tag
<1> DEFINE c == blocks[at]
           es == c.entries
<1>1. Len(Meant) \in 0..Len(es) /\ Len(es) \in Nat /\ Readable(c) /\ buf = c.whole /\ Len(buf) \in Nat
  BY AtWork, MeantFirst
<1>2. \A i \in 1..Len(Meant) : Meant[i] = es[i] /\ Unambiguous(es[i])
  BY MeantFirst
<1>3. DOMAIN Meant = 1..Len(Meant)
  BY MeantFirst
<1> HIDE DEF c, es
<1>4. CASE ReadHeader /\ ~HeaderOK
  <2>1. CASE Header <= Len(buf)
    <3>1. Count(buf) = Len(es)
      BY <2>1, MeantFirst DEF es, c
    <3>2. Header \in Nat
      BY WidthAssumption DEF Header
    <3>3. ~(Count(buf) <= MaxCount)
      BY <2>1, <3>2, <1>1, <1>4 DEF HeaderOK
    <3>4. Len(es) > MaxCount
      BY <3>1, <3>3, <1>1, CountAssumption
    <3> QED
      BY <3>4 DEF es, c
  <2>2. CASE ~(Header <= Len(buf))
    <3>1. EndOf(c.ends, 0) <= EndOf(c.ends, Len(Meant)) /\ EndOf(c.ends, Len(Meant)) \in Nat
      <4>1. 0 \in 0..Len(c.entries) /\ Len(Meant) \in 0..Len(c.entries) /\ 0 <= Len(Meant)
            /\ Len(c.entries) \in Nat
        BY <1>1 DEF es
      <4> QED
        BY <4>1, <1>1, EndsGrow
    <3>2. EndOf(c.ends, 0) = Header /\ Header \in Nat
      BY WidthAssumption DEF EndOf, Header
    <3>3. Len(buf) < EndOf(c.ends, Len(Meant))
      BY <3>1, <3>2, <2>2, <1>1
    <3> QED
      BY <3>3 DEF c
  <2> QED
    BY <2>1, <2>2
<1>5. CASE Refuse
  <2> DEFINE n == Len(out)
             e == es[n + 1]
  <2>1. stage = "entries" /\ n < Wanted /\ EntriesAt(pos) = {}
    BY <1>5 DEF Refuse
  <2>2. pos = EndOf(c.ends, n) /\ n \in Nat /\ Wanted = Len(Meant)
    BY <2>1, CursorAtEnd DEF c
  <2>3. n + 1 \in 1..Len(Meant) /\ n + 1 \in 1..Len(es) /\ (n + 1) - 1 = n /\ n \in 0..Len(es)
        /\ n + 1 \in 0..Len(es) /\ n < n + 1
    BY <2>1, <2>2, <1>1
  <2>4. e \in ToSet(Meant)
    BY <2>3, <1>2, <1>3 DEF ToSet
  <2>5. /\ pos < Len(buf) => buf[pos + 1] = e.flag
        /\ EndOf(c.ends, n + 1) <= Len(buf) /\ Decodable(e.text) => SymbolsAt(buf, pos) # {}
    BY <2>2, <2>3, <1>1, <1>2 DEF Readable, es
  <2>6. pos \in Nat /\ EndOf(c.ends, n + 1) \in Nat /\ pos < EndOf(c.ends, n + 1)
    BY <2>2, <2>3, <1>1 DEF Readable, es
  <2>7. EndOf(c.ends, n + 1) <= EndOf(c.ends, Len(Meant)) /\ EndOf(c.ends, Len(Meant)) \in Nat
    <3>1. n + 1 \in 0..Len(c.entries) /\ Len(Meant) \in 0..Len(c.entries) /\ n + 1 <= Len(Meant)
          /\ Len(c.entries) \in Nat
      BY <2>3, <1>1 DEF es
    <3> QED
      BY <3>1, <1>1, EndsGrow
  <2> HIDE DEF n, e
  <2>8. CASE ~(EndOf(c.ends, n + 1) <= Len(buf))
    <3>1. Len(buf) < EndOf(c.ends, Len(Meant))
      BY <2>6, <2>7, <2>8, <1>1
    <3> QED
      BY <3>1 DEF c
  <2>9. CASE ~Decodable(e.text)
    BY <2>4, <2>9
  <2>10. CASE EndOf(c.ends, n + 1) <= Len(buf) /\ Decodable(e.text)
    <3>1. SymbolsAt(buf, pos) # {} /\ pos < Len(buf)
      BY <2>5, <2>6, <2>10, <1>1
    <3>2. mode = "strings" /\ buf[pos + 1] # Tag
      BY <3>1, <2>1 DEF EntriesAt, StringsAt
    <3>3. e.flag # Tag
      BY <3>1, <3>2, <2>5
    <3> QED
      BY <3>2, <3>3, <2>4
  <2> QED
    BY <2>8, <2>9, <2>10
<1> QED
  BY <1>4, <1>5

LEMMA ReadMore == ASSUME FileState, ReadingState, Decoding PROVE ReadingState'
<1>1. /\ step \in {"fields", "tables", "values"} /\ TableNext
      /\ UNCHANGED <<blocks, prj, step, at>>
  BY DEF Decoding
<1>2. UNCHANGED <<buf, mode, limit>>
  BY <1>1 DEF TableNext, ReadHeader, Entry, Refuse, Return
<1>3. Working' = Working /\ Wanted' = Wanted /\ Meant' = Meant
  BY <1>1, <1>2 DEF Working, Wanted, Meant
<1>4. \A i \in DOMAIN blocks : Joined(blocks, i) /\ (blocks[i].written => Readable(blocks[i]))
  BY DEF ReadingState
<1>5. /\ step' \in {"fields", "tables"} => buf' = blocks'[at'].buf
      /\ step' = "values" => buf' = blocks'[at'].whole
  BY <1>1, <1>2 DEF ReadingState
<1>6. ASSUME Working PROVE ReadSoFar(blocks[at])'
  <2> DEFINE c == blocks[at]
  <2>1. ASSUME out' = out, stage' = "decoded" => Len(out') = Wanted PROVE ReadSoFar(blocks[at])'
    <3>1. \A i \in DOMAIN out :
             /\ i <= Len(c.entries)
             /\ out[i].flag = c.entries[i].flag /\ out[i].text = c.entries[i].text
             /\ out[i].number = c.entries[i].number
             /\ out[i].next = EndOf(c.ends, i)
      BY <1>6 DEF ReadingState, ReadSoFar
    <3> QED
      BY <3>1, <2>1, <1>1, <1>3 DEF ReadSoFar
  <2>2. CASE ReadHeader \/ Refuse
    BY <2>2, <2>1 DEF ReadHeader, Refuse
  <2>3. CASE Return
    BY <2>3, <2>1 DEF Return
  <2>4. CASE Entry
    <3>1. \A i \in DOMAIN out' :
             /\ i <= Len(c.entries)
             /\ out'[i].flag = c.entries[i].flag /\ out'[i].text = c.entries[i].text
             /\ out'[i].number = c.entries[i].number
             /\ out'[i].next = EndOf(c.ends, i)
      BY <2>4, <1>6, EntryRead
    <3>2. stage' # "decoded"
      BY <2>4 DEF Entry
    <3> QED
      BY <3>1, <3>2, <1>1 DEF ReadSoFar
  <2> QED
    BY <2>2, <2>3, <2>4, <1>1 DEF TableNext
<1>7. RefusesOnlyDamage'
  <2>1. SUFFICES ASSUME Working, stage' = "refused"
                 PROVE  \/ Len(buf) < EndOf(blocks[at].ends, Len(Meant))
                        \/ \E e \in ToSet(Meant) : ~Decodable(e.text)
                        \/ Len(blocks[at].entries) > MaxCount
                        \/ mode = "strings" /\ \E e \in ToSet(Meant) : e.flag # Tag
    BY <1>1, <1>2, <1>3 DEF RefusesOnlyDamage
  <2>2. (ReadHeader /\ ~HeaderOK) \/ Refuse
    BY <2>1, <1>1 DEF TableNext, ReadHeader, Entry, Refuse, Return
  <2> QED
    BY <2>1, <2>2, RefusedForDamage
<1> QED
  BY <1>1, <1>3, <1>4, <1>5, <1>6, <1>7 DEF ReadingState

----------------------------------------------------------------------------
(* The value sets. *)

IsSetOf(s, f, l, es) ==
    /\ s.first = f /\ s.last = l /\ s.cardinality = Len(es)
    /\ s.samples = [j \in 1..Min({MaxSamples, Len(es)}) |-> Sample(es[j])]

IsLogical(f, l) ==
    /\ f \in DOMAIN blocks /\ l \in DOMAIN blocks /\ f <= l
    /\ Opens(blocks, f) /\ Closes(l) /\ \A i \in f..l - 1 : blocks[i].chunk

ToCollect(i) ==
    LET es == blocks[i].entries
    IN /\ Sound(blocks[i]) /\ es # <<>> /\ Len(es) <= MaxCount
       /\ \A j \in 1..Min({MaxSamples, Len(es)}) : Unambiguous(es[j])
Collected(f, l) == \E s \in ToSet(sets) : IsSetOf(s, f, l, blocks[l].entries)

\* Every logical block that the scan has passed and that holds a table has its
\* value set.
CollectedSoFar ==
    step \in {"scan", "values", "directory", "parsed"} =>
        \A f, l \in DOMAIN blocks :
            IsLogical(f, l) /\ f > 3 /\ ToCollect(l) /\ (step \in {"scan", "values"} => l < at) => Collected(f, l)

\* The scan puts a logical block together: chunks from one that opens it, and
\* what they give.
JoiningState ==
    /\ step \in {"scan", "values"} /\ at <= Len(blocks) =>
        /\ pending.first \in 1..at /\ Opens(blocks, pending.first)
        /\ \A i \in pending.first..at - 1 : blocks[i].chunk
        /\ pending.payload = IF pending.first = at THEN <<>> ELSE blocks[at - 1].whole
    /\ step = "values" => Closes(at) /\ pending.first > 3

\* What it has put together is what belongs together.
LEMMA WholeIsJoined ==
    ASSUME FileState, ReadingState, JoiningState, step \in {"scan", "values"}, at <= Len(blocks)
    PROVE  Whole = blocks[at].whole /\ at \in DOMAIN blocks
<1>1. at \in 1..Len(blocks) /\ at \in DOMAIN blocks /\ Len(blocks) \in Nat
  BY DEF FileState, MetaTypes
<1>2. Joined(blocks, at) /\ blocks[at].buf \in Seq(Bytes)
  BY <1>1, BufType DEF ReadingState
<1>3. CASE pending.first = at
  <2>1. Opens(blocks, at) /\ pending.payload = <<>>
    BY <1>3 DEF JoiningState
  <2>2. <<>> \o blocks[at].buf = blocks[at].buf
    BY <1>2, ConcatEmptySeq
  <2> QED
    BY <2>1, <2>2, <1>1, <1>2 DEF Joined, Whole
<1>4. CASE pending.first # at
  <2>1. at - 1 \in pending.first..at - 1 /\ at # 1
    BY <1>1, <1>4 DEF JoiningState
  <2>2. blocks[at - 1].chunk
    BY <2>1 DEF JoiningState
  <2>3. ~Opens(blocks, at) /\ pending.payload = blocks[at - 1].whole
    BY <2>1, <2>2, <1>4 DEF Opens, JoiningState
  <2> QED
    BY <2>3, <1>1, <1>2 DEF Joined, Whole
<1> QED
  BY <1>3, <1>4

\* A logical block that ends here starts where the scan has it start.
LEMMA SameStart ==
    ASSUME FileState, JoiningState, step \in {"scan", "values"}, NEW f, IsLogical(f, at)
    PROVE  f = pending.first
<1>1. /\ f \in 1..at /\ at \in 1..Len(blocks) /\ Opens(blocks, f) /\ \A i \in f..at - 1 : blocks[i].chunk
  BY DEF IsLogical, FileState, MetaTypes
<1>2. /\ pending.first \in 1..at /\ Opens(blocks, pending.first)
      /\ \A i \in pending.first..at - 1 : blocks[i].chunk
  BY <1>1 DEF JoiningState
<1>3. ~(f < pending.first)
  <2> SUFFICES ASSUME f < pending.first PROVE FALSE
    OBVIOUS
  <2>1. pending.first - 1 \in f..at - 1 /\ pending.first # 1
    BY <1>1, <1>2
  <2> QED
    BY <2>1, <1>1, <1>2 DEF Opens
<1>4. ~(pending.first < f)
  <2> SUFFICES ASSUME pending.first < f PROVE FALSE
    OBVIOUS
  <2>1. f - 1 \in pending.first..at - 1 /\ f # 1
    BY <1>1, <1>2
  <2> QED
    BY <2>1, <1>1, <1>2 DEF Opens
<1> QED
  BY <1>1, <1>2, <1>3, <1>4

\* The next logical block opens behind one that closes.
LEMMA NextOpens ==
    ASSUME FileState, at \in 1..Len(blocks), Closes(at), NextBlock, blocks' = blocks, step' = "scan"
    PROVE  JoiningState'
<1>1. at' = at + 1 /\ pending' = [first |-> at + 1, payload |-> <<>>] /\ Len(blocks) \in Nat
  BY DEF NextBlock, Pending
<1>2. pending'.first = at + 1 /\ pending'.payload = <<>>
  BY <1>1
<1>3. ASSUME at + 1 <= Len(blocks) PROVE Opens(blocks, at + 1)
  <2>1. ~blocks[at].chunk /\ (at + 1) - 1 = at
    BY <1>1, <1>3 DEF Closes
  <2> QED
    BY <2>1 DEF Opens
<1>4. at + 1 \in 1..at + 1 /\ (at + 1)..(at + 1) - 1 = {}
  BY <1>1
<1> QED
  BY <1>1, <1>2, <1>3, <1>4 DEF JoiningState

LEMMA Smaller == ASSUME NEW m \in Nat, NEW n \in Nat PROVE Min({m, n}) = IF m <= n THEN m ELSE n
<1>1. Min({m, n}) \in {m, n} /\ \A y \in {m, n} : Min({m, n}) <= y
  BY SmallestOf
<1> QED
  BY <1>1

\* A sound table with entries looks like one.
LEMMA SoundLooksLikeTable ==
    ASSUME FileState, ReadingState, NEW i \in DOMAIN blocks, ToCollect(i)
    PROVE  LooksLikeTable(blocks[i].whole)
<1> DEFINE c == blocks[i]
           es == c.entries
           b == c.whole
<1>1. c \in ContainerBlocks /\ Readable(c) /\ c.lost = <<>> /\ es # <<>>
  BY DEF FileState, MetaTypes, ReadingState, ToCollect, Sound
<1>2. es \in Seq(Entries) /\ b \in Seq(Bytes)
  BY <1>1 DEF ContainerBlocks
<1>3. Len(es) \in Nat \ {0} /\ 1 \in 1..Len(es) /\ Len(b) \in Nat /\ Header \in Nat
  BY <1>1, <1>2, WidthAssumption DEF Header
<1>4. EndOf(c.ends, 0) = Header
  BY DEF EndOf
<1>5. Header < Len(b)
  <2>1. EndOf(c.ends, 0) < EndOf(c.ends, Len(es)) /\ EndOf(c.ends, Len(es)) = Len(b)
    <3>1. 0 \in 0..Len(es) /\ Len(es) \in 0..Len(es) /\ 0 < Len(es)
      BY <1>3
    <3> QED
      BY <3>1, <1>1 DEF Readable
  <2> QED
    BY <2>1, <1>4
<1>6. \A j \in 1..Width : b[j] = 0
  BY <1>1, <1>3, <1>5 DEF Readable
<1>7. b[Header + 1] \in Flags
  <2>1. EndOf(c.ends, 1 - 1) < Len(b) => b[EndOf(c.ends, 1 - 1) + 1] = es[1].flag
    BY <1>1, <1>3 DEF Readable
  <2>2. 1 - 1 = 0
    OBVIOUS
  <2>3. b[Header + 1] = es[1].flag
    BY <2>1, <2>2, <1>4, <1>5
  <2>4. es[1] \in Entries
    BY <1>2, <1>3
  <2> QED
    BY <2>3, <2>4 DEF Entries
<1> QED
  BY <1>3, <1>5, <1>6, <1>7 DEF LooksLikeTable

\* And it is not refused, but read as far as asked.
LEMMA SoundIsRead ==
    ASSUME FileState, ReadingState, step = "values", stage \in {"decoded", "refused"}, ToCollect(at)
    PROVE  LET es == blocks[at].entries
           IN /\ stage = "decoded" /\ out # <<>> /\ Count(buf) = Len(es)
              /\ [i \in DOMAIN out |-> Sample(out[i])] = [j \in 1..Min({MaxSamples, Len(es)}) |-> Sample(es[j])]
<1> DEFINE c == blocks[at]
           es == c.entries
<1>13. AtTable /\ c.lost = <<>> /\ es # <<>> /\ Len(es) <= MaxCount /\ \A e \in ToSet(es) : Decodable(e.text)
  BY DEF ToCollect, Sound, AtTable
<1>2. Readable(c) /\ buf = c.whole /\ es \in Seq(Entries) /\ Len(buf) \in Nat
  BY <1>13, TableAtWork
<1>3. Len(es) \in Nat \ {0} /\ DOMAIN es = 1..Len(es)
  BY <1>13, <1>2
<1>14. Working
  <2>1. mode = "sample" /\ limit = MaxSamples
    BY DEF FileState, Counted
  <2>2. Min({MaxSamples, Len(es)}) = IF MaxSamples <= Len(es) THEN MaxSamples ELSE Len(es)
    BY <1>3, SamplesAssumption, Smaller
  <2>3. Meant = IF MaxSamples < Len(es) THEN SubSeq(es, 1, MaxSamples) ELSE es
    BY <2>1 DEF Meant
  <2>4. /\ Meant \in Seq(Entries) /\ Len(Meant) \in 0..Len(es)
        /\ \A i \in 1..Len(Meant) : Meant[i] = es[i]
    BY <1>13, TableMeant
  <2>5. Len(Meant) <= MaxSamples
    <3>1. CASE MaxSamples < Len(es)
      <4>1. Len(SubSeq(es, 1, MaxSamples)) = MaxSamples
        <5>1. \A i \in 1..MaxSamples : es[i] \in Entries
          BY <1>2, <1>3, <3>1, SamplesAssumption
        <5>2. 1 \in Int /\ MaxSamples \in Int /\ 1 <= MaxSamples /\ MaxSamples - 1 + 1 = MaxSamples
          BY SamplesAssumption
        <5> QED
          BY <5>1, <5>2, SubSeqProperties
      <4> QED
        BY <4>1, <2>3, <3>1, SamplesAssumption
    <3>2. CASE ~(MaxSamples < Len(es))
      BY <2>3, <3>2, <1>3, SamplesAssumption
    <3> QED
      BY <3>1, <3>2
  <2>6. Len(Meant) <= Min({MaxSamples, Len(es)})
    BY <2>2, <2>4, <2>5
  <2>7. \A e \in ToSet(Meant) : Unambiguous(e)
    <3> SUFFICES ASSUME NEW e \in ToSet(Meant) PROVE Unambiguous(e)
      OBVIOUS
    <3>1. PICK i \in 1..Len(Meant) : e = Meant[i]
      BY <2>4 DEF ToSet
    <3>2. i \in 1..Min({MaxSamples, Len(es)}) /\ e = es[i]
      BY <3>1, <2>2, <2>4, <2>6, <1>3, SamplesAssumption
    <3> QED
      BY <3>2 DEF ToCollect
  <2> QED
    BY <2>7, <1>13 DEF AtTable, Working
<1>1. Working /\ c.lost = <<>> /\ es # <<>> /\ Len(es) <= MaxCount /\ \A e \in ToSet(es) : Decodable(e.text)
  BY <1>13, <1>14
<1>4. /\ Meant \in Seq(Entries) /\ Len(Meant) \in 0..Len(es) /\ \A i \in 1..Len(Meant) : Meant[i] = es[i]
      /\ Header <= Len(buf) => Len(Meant) = Wanted /\ Count(buf) = Len(es)
  BY <1>1, MeantFirst
<1>5. mode = "sample" /\ limit = MaxSamples
  BY DEF FileState, Counted
<1>6. stage = "decoded"
  <2> SUFFICES ASSUME stage = "refused" PROVE FALSE
    OBVIOUS
  <2>1. \/ Len(buf) < EndOf(c.ends, Len(Meant))
        \/ \E e \in ToSet(Meant) : ~Decodable(e.text)
        \/ Len(es) > MaxCount
    BY <1>1, <1>5 DEF ReadingState, RefusesOnlyDamage
  <2>2. ~(Len(es) > MaxCount)
    BY <1>1, <1>3, CountAssumption
  <2>3. ~(\E e \in ToSet(Meant) : ~Decodable(e.text))
    <3> SUFFICES ASSUME NEW e \in ToSet(Meant) PROVE Decodable(e.text)
      OBVIOUS
    <3>1. PICK i \in 1..Len(Meant) : e = Meant[i]
      BY <1>4 DEF ToSet
    <3>2. i \in 1..Len(es) /\ e = es[i]
      BY <3>1, <1>3, <1>4
    <3>3. e \in ToSet(es)
      BY <3>2, <1>3 DEF ToSet
    <3> QED
      BY <3>3, <1>1
  <2>4. ~(Len(buf) < EndOf(c.ends, Len(Meant)))
    <3>1. Len(Meant) \in 0..Len(c.entries) /\ Len(es) \in 0..Len(c.entries) /\ Len(Meant) <= Len(es)
          /\ Len(c.entries) \in Nat
      BY <1>3, <1>4
    <3>2. EndOf(c.ends, Len(Meant)) <= EndOf(c.ends, Len(es)) /\ EndOf(c.ends, Len(Meant)) \in Nat
      BY <3>1, <1>2, EndsGrow
    <3>3. EndOf(c.ends, Len(es)) = Len(buf)
      BY <1>1, <1>2 DEF Readable
    <3> QED
      BY <3>2, <3>3, <1>2
  <2> QED
    BY <2>1, <2>2, <2>3, <2>4
<1>7. Header <= Len(buf) /\ DOMAIN out = 1..Len(out) /\ Len(out) \in Nat
  BY <1>1, <1>6, CursorAtEnd
<1>8. Len(out) = Wanted /\ Count(buf) = Len(es)
  BY <1>1, <1>4, <1>6, <1>7 DEF ReadingState, ReadSoFar
<1>9. Wanted = Min({MaxSamples, Len(es)}) /\ Wanted \in Nat \ {0}
  <2>1. Min({MaxSamples, Len(es)}) = IF MaxSamples <= Len(es) THEN MaxSamples ELSE Len(es)
    BY <1>3, SamplesAssumption, Smaller
  <2>2. Wanted = IF MaxSamples < Len(es) THEN MaxSamples ELSE Len(es)
    BY <1>5, <1>8 DEF Wanted
  <2> QED
    BY <2>1, <2>2, <1>3, SamplesAssumption
<1>10. \A i \in 1..Len(out) : Sample(out[i]) = Sample(es[i])
  <2> TAKE i \in 1..Len(out)
  <2>1. out[i].flag = es[i].flag /\ out[i].text = es[i].text /\ out[i].number = es[i].number
    BY <1>1, <1>7 DEF ReadingState, ReadSoFar
  <2> QED
    BY <2>1 DEF Sample
<1>11. out # <<>>
  BY <1>7, <1>8, <1>9
<1>12. [i \in DOMAIN out |-> Sample(out[i])] = [j \in 1..Min({MaxSamples, Len(es)}) |-> Sample(es[j])]
  <2>1. DOMAIN out = 1..Min({MaxSamples, Len(es)})
    BY <1>7, <1>8, <1>9
  <2> QED
    BY <2>1, <1>7, <1>10
<1> QED
  BY <1>6, <1>8, <1>11, <1>12

LEMMA SummariseCollects ==
    ASSUME FileState, ReadingState, JoiningState, CollectedSoFar, Summarise
    PROVE  CollectedSoFar'
<1>1. /\ step = "values" /\ stage \in {"decoded", "refused"} /\ step' = "scan" /\ at' = at + 1
      /\ UNCHANGED <<blocks>>
  BY DEF Summarise, Goto, NextBlock
<1>2. at \in Nat /\ Len(blocks) \in Nat
  BY DEF FileState, MetaTypes
<1>3. sets \in Seq(ValueSets)
  BY DEF FileState, Counted
<1>4. SUFFICES ASSUME NEW f \in DOMAIN blocks, NEW l \in DOMAIN blocks,
                      IsLogical(f, l), f > 3, ToCollect(l), l < at + 1
               PROVE  \E s \in ToSet(sets') : IsSetOf(s, f, l, blocks[l].entries)
  BY <1>1 DEF CollectedSoFar, ToCollect, Collected, IsLogical, Closes
<1>5. CASE l < at
  <2>1. PICK s \in ToSet(sets) : IsSetOf(s, f, l, blocks[l].entries)
    BY <1>1, <1>4, <1>5 DEF CollectedSoFar, Collected
  <2>2. s \in ToSet(sets')
    <3>1. PICK j \in 1..Len(sets) : s = sets[j]
      BY <2>1, <1>3 DEF ToSet
    <3>2. sets' = sets \/ \E new : sets' = Append(sets, new)
      BY DEF Summarise
    <3>3. j \in DOMAIN sets' /\ sets'[j] = s
      BY <3>1, <3>2, <1>3
    <3> QED
      BY <3>3 DEF ToSet
  <2> QED
    BY <2>1, <2>2
<1>6. CASE l = at
  <2> DEFINE es == blocks[at].entries
             samples == [j \in DOMAIN out |-> Sample(out[j])]
             kind == ValueType({e.flag : e \in ToSet(out)})
             new == [first |-> pending.first, last |-> at, cardinality |-> Count(buf), type |-> kind,
                     samples |-> samples]
  <2>1. /\ stage = "decoded" /\ out # <<>> /\ Count(buf) = Len(es)
        /\ samples = [j \in 1..Min({MaxSamples, Len(es)}) |-> Sample(es[j])]
    BY <1>1, <1>4, <1>6, SoundIsRead
  <2>2. sets' = Append(sets, new)
    BY <2>1 DEF Summarise
  <2>3. f = pending.first
    BY <1>1, <1>4, <1>6, SameStart
  <2> HIDE DEF samples, kind
  <2>4. IsSetOf(new, f, l, es)
    BY <2>1, <2>3, <1>6 DEF IsSetOf
  <2> HIDE DEF new
  <2>5. Len(sets) + 1 \in DOMAIN sets' /\ sets'[Len(sets) + 1] = new
    BY <2>2, <1>3
  <2>6. new \in ToSet(sets')
    BY <2>5 DEF ToSet
  <2> QED
    BY <2>4, <2>6, <1>6
<1>7. l \in Nat
  BY <1>2
<1> QED
  BY <1>2, <1>4, <1>5, <1>6, <1>7

----------------------------------------------------------------------------
(* The steps. *)

DecodedState == FileState /\ ReadingState /\ JoiningState /\ CollectedSoFar

LEMMA InitDecoded == MInit => ReadingState /\ JoiningState /\ CollectedSoFar
<1> SUFFICES ASSUME MInit PROVE ReadingState /\ JoiningState /\ CollectedSoFar
  OBVIOUS
<1>1. step = "script"
  BY DEF MInit
<1>2. PICK file \in Containers : blocks = file.blocks
  BY DEF MInit
<1>3. \A i \in DOMAIN blocks : Joined(blocks, i) /\ (blocks[i].written => Readable(blocks[i]))
  <2>1. /\ blocks \in Seq(ContainerBlocks)
        /\ \A i \in DOMAIN blocks : Joined(blocks, i) /\ AsWritten(blocks[i])
    BY <1>2, ContainersAssumption
  <2>2. \A i \in DOMAIN blocks : blocks[i] \in ContainerBlocks /\ Joined(blocks, i) /\ AsWritten(blocks[i])
    BY <2>1
  <2> QED
    BY <2>2, WrittenIsReadable
<1> QED
  BY <1>1, <1>3 DEF ReadingState, JoiningState, CollectedSoFar, Working, RefusesOnlyDamage

\* A step after which no decoder is at work
LEMMA Resting ==
    ASSUME ReadingState, blocks' = blocks, step' \notin {"fields", "tables", "values"}
    PROVE  ReadingState'
BY DEF ReadingState, Joined, Opens, Working, RefusesOnlyDamage

\* A step that calls one
LEMMA Called ==
    ASSUME ReadingState, blocks' = blocks, NEW b, NEW m \in Modes, Start(b, m),
           \/ step' \in {"fields", "tables"} /\ b = blocks[at'].buf
           \/ step' = "values" /\ b = blocks[at'].whole
    PROVE  ReadingState'
<1>1. buf' = b /\ stage' = "header" /\ out' = <<>>
  BY DEF Start
<1>2. ~RefusesOnlyDamage' => FALSE
  BY <1>1 DEF RefusesOnlyDamage
<1>3. ReadSoFar(blocks[at])'
  BY <1>1 DEF ReadSoFar
<1>4. \A i \in DOMAIN blocks' : Joined(blocks, i)' /\ (blocks'[i].written => Readable(blocks'[i]))
  BY DEF ReadingState, Joined, Opens
<1> QED
  BY <1>1, <1>2, <1>3, <1>4 DEF ReadingState

\* What a step that passes no table keeps
LEMMA NonePassed ==
    ASSUME CollectedSoFar, blocks' = blocks, sets' = sets,
           \/ step' \in {"scan", "values"} /\ step \in {"scan", "values"} /\ at' = at
           \/ step' \notin {"scan", "values", "directory", "parsed"}
           \/ step \in {"directory", "parsed"} /\ step' \in {"directory", "parsed"}
    PROVE  CollectedSoFar'
<1>1. CASE step' \in {"scan", "values"} /\ step \in {"scan", "values"} /\ at' = at
  BY <1>1 DEF CollectedSoFar, ToCollect, Collected, IsLogical, Closes
<1>2. CASE step' \notin {"scan", "values", "directory", "parsed"}
  BY <1>2 DEF CollectedSoFar
<1>3. CASE step \in {"directory", "parsed"} /\ step' \in {"directory", "parsed"}
  BY <1>3 DEF CollectedSoFar, ToCollect, Collected, IsLogical, Closes
<1> QED
  BY <1>1, <1>2, <1>3

LEMMA BeforeTheScan ==
    ASSUME DecodedState, TooFew \/ NoScript \/ Drifted \/ Script \/ Fields \/ Tables
    PROVE  ReadingState' /\ JoiningState' /\ CollectedSoFar'
<1>1. blocks' = blocks /\ sets' = sets
  BY DEF TooFew, NoScript, Drifted, Script, Fields, Tables, metaVars
<1>2. CASE TooFew \/ NoScript \/ Drifted
  <2>1. step' = "failed"
    BY <1>2 DEF TooFew, NoScript, Drifted, Goto
  <2> QED
    BY <2>1, <1>1, Resting, NonePassed DEF DecodedState, JoiningState
<1>3. CASE Script \/ Fields
  <2>1. step' \in {"fields", "tables"} /\ (StartAt(2, "strings") \/ StartAt(3, "strings")) /\ "strings" \in Modes
    BY <1>3 DEF Script, Fields, Goto, Modes
  <2>2. PICK i \in {2, 3} : Start(blocks[i].buf, "strings") /\ at' = i
    BY <2>1 DEF StartAt
  <2>3. ReadingState'
    BY <2>1, <2>2, <1>1, Called DEF DecodedState
  <2>4. CollectedSoFar'
    BY <2>1, <1>1, NonePassed DEF DecodedState
  <2> QED
    BY <2>1, <2>3, <2>4 DEF JoiningState
<1>4. CASE Tables
  <2>1. step' = "scan" /\ at' = 1 /\ pending' = [first |-> 1, payload |-> <<>>]
    BY <1>4 DEF Tables, Goto, Pending
  <2>2. ReadingState'
    BY <2>1, <1>1, Resting DEF DecodedState
  <2>3. \A l \in DOMAIN blocks : ~(l < 1)
    BY DEF DecodedState, FileState, MetaTypes
  <2>4. CollectedSoFar'
    BY <2>1, <2>3, <1>1 DEF CollectedSoFar
  <2>5. pending'.first = 1 /\ pending'.payload = <<>> /\ 1 \in 1..1 /\ 1..1 - 1 = {} /\ Opens(blocks, 1)
    BY <2>1 DEF Opens
  <2>6. JoiningState'
    BY <2>1, <2>5, <1>1 DEF JoiningState
  <2> QED
    BY <2>2, <2>4, <2>6
<1> QED
  BY <1>2, <1>3, <1>4

\* A chunk is joined to what is pending.
LEMMA ChunkJoined == ASSUME DecodedState, Collect PROVE ReadingState' /\ JoiningState' /\ CollectedSoFar'
<1>1. step = "scan" /\ step' = "scan" /\ blocks' = blocks /\ sets' = sets /\ at' = at + 1
      /\ at <= Len(blocks) /\ ~Closes(at)
  BY DEF Collect, metaVars
<1>2. at \in 1..Len(blocks) /\ Len(blocks) \in Nat /\ DOMAIN blocks = 1..Len(blocks)
  BY <1>1 DEF DecodedState, FileState, MetaTypes
<1>3. blocks[at].chunk /\ at # Len(blocks)
  BY <1>1 DEF Closes
<1>4. pending'.first = pending.first /\ pending'.payload = Whole
  <2>1. pending \in [first : 1..Len(blocks) + 1, payload : Seq(Bytes)]
    BY DEF DecodedState, FileState, MetaTypes
  <2>2. pending' = [pending EXCEPT !.payload = Whole]
    BY DEF Collect, Whole
  <2> QED
    BY <2>1, <2>2
<1>5. ReadingState'
  BY <1>1, Resting DEF DecodedState
<1>6. JoiningState'
  <2>1. Whole = blocks[at].whole
    BY <1>1, WholeIsJoined DEF DecodedState
  <2>2. /\ pending.first \in 1..at /\ Opens(blocks, pending.first)
        /\ \A i \in pending.first..at - 1 : blocks[i].chunk
    BY <1>1 DEF DecodedState, JoiningState
  <2>3. /\ pending.first \in 1..at + 1 /\ pending.first # at + 1 /\ (at + 1) - 1 = at
        /\ \A i \in pending.first..at : i = at \/ i \in pending.first..at - 1
    BY <2>2, <1>2
  <2>4. \A i \in pending.first..at : blocks[i].chunk
    BY <2>2, <2>3, <1>3
  <2> QED
    BY <2>1, <2>2, <2>3, <2>4, <1>1, <1>4 DEF JoiningState
<1>7. CollectedSoFar'
  <2> SUFFICES ASSUME NEW f \in DOMAIN blocks, NEW l \in DOMAIN blocks,
                      IsLogical(f, l), f > 3, ToCollect(l), l < at + 1
               PROVE  Collected(f, l)
    BY <1>1 DEF CollectedSoFar, ToCollect, Collected, IsLogical, Closes
  <2>1. l # at
    BY <1>1 DEF IsLogical
  <2>2. l < at
    BY <2>1, <1>2
  <2> QED
    BY <2>2, <1>1 DEF DecodedState, CollectedSoFar
<1> QED
  BY <1>5, <1>6, <1>7

LEMMA Considered == ASSUME DecodedState, Consider PROVE ReadingState' /\ JoiningState' /\ CollectedSoFar'
<1>1. step = "scan" /\ blocks' = blocks /\ sets' = sets /\ at <= Len(blocks) /\ Closes(at)
  BY DEF Consider, metaVars
<1>2. at \in 1..Len(blocks) /\ Len(blocks) \in Nat /\ DOMAIN blocks = 1..Len(blocks)
  BY <1>1 DEF DecodedState, FileState, MetaTypes
<1>3. Whole = blocks[at].whole
  BY <1>1, WholeIsJoined DEF DecodedState
<1>4. CASE pending.first > 3 /\ LooksLikeTable(Whole)
  <2>1. Start(Whole, "sample") /\ step' = "values" /\ "sample" \in Modes /\ UNCHANGED <<at, pending>>
    BY <1>4 DEF Consider, Modes
  <2>2. ReadingState'
    BY <2>1, <1>1, <1>3, Called DEF DecodedState
  <2>3. CollectedSoFar'
    BY <2>1, <1>1, NonePassed DEF DecodedState
  <2>4. JoiningState'
    BY <2>1, <1>1, <1>4 DEF DecodedState, JoiningState, Closes
  <2> QED
    BY <2>2, <2>3, <2>4
<1>5. CASE ~(pending.first > 3 /\ LooksLikeTable(Whole))
  <2>1. NextBlock /\ step' = "scan" /\ at' = at + 1
    BY <1>1, <1>5 DEF Consider, NextBlock
  <2>2. ReadingState'
    BY <2>1, <1>1, Resting DEF DecodedState
  <2>3. JoiningState'
    BY <2>1, <1>1, <1>2, NextOpens DEF DecodedState
  <2>4. ASSUME NEW f \in DOMAIN blocks, NEW l \in DOMAIN blocks,
               IsLogical(f, l), f > 3, ToCollect(l), l < at + 1
        PROVE  Collected(f, l)
    <3>1. l # at
      <4> SUFFICES ASSUME l = at PROVE FALSE
        OBVIOUS
      <4>1. LooksLikeTable(Whole)
        BY <2>4, <1>3, SoundLooksLikeTable DEF DecodedState
      <4>2. f = pending.first
        BY <2>4, <1>1, SameStart DEF DecodedState
      <4> QED
        BY <4>1, <4>2, <2>4, <1>5
    <3>2. l < at
      BY <3>1, <2>4, <1>2
    <3> QED
      BY <3>2, <2>4, <1>1 DEF DecodedState, CollectedSoFar
  <2>5. CollectedSoFar'
    BY <2>1, <2>4, <1>1 DEF CollectedSoFar, ToCollect, Collected, IsLogical, Closes
  <2> QED
    BY <2>2, <2>3, <2>5
<1> QED
  BY <1>4, <1>5

LEMMA AfterTheScan ==
    ASSUME DecodedState, EndValues \/ Pass \/ Directory \/ Undirected
    PROVE  ReadingState' /\ JoiningState' /\ CollectedSoFar'
<1>1. blocks' = blocks /\ sets' = sets /\ step' \in {"directory", "parsed"}
  BY DEF EndValues, Pass, Directory, Undirected, Goto, metaVars
<1>2. ReadingState'
  BY <1>1, Resting DEF DecodedState
<1>5. JoiningState'
  BY <1>1 DEF JoiningState
<1>3. CASE EndValues
  <2>1. step = "scan" /\ at > Len(blocks)
    BY <1>3 DEF EndValues, Goto
  <2>2. \A l \in DOMAIN blocks : l < at
    BY <2>1 DEF DecodedState, FileState, MetaTypes
  <2>3. CollectedSoFar'
    BY <2>1, <2>2, <1>1 DEF DecodedState, CollectedSoFar, ToCollect, Collected, IsLogical, Closes
  <2> QED
    BY <2>3, <1>2, <1>5
<1>4. CASE Pass \/ Directory \/ Undirected
  <2>1. step = "directory"
    BY <1>4 DEF Pass, Directory, Undirected, Goto
  <2> QED
    BY <2>1, <1>1, <1>2, <1>5, NonePassed DEF DecodedState
<1> QED
  BY <1>3, <1>4

LEMMA DecodedOn == ASSUME DecodedState, [MNext]_blockVars PROVE ReadingState' /\ JoiningState' /\ CollectedSoFar'
<1>1. CASE TooFew \/ NoScript \/ Drifted \/ Script \/ Fields \/ Tables
  BY <1>1, BeforeTheScan
<1>2. CASE Decoding
  <2>1. ReadingState'
    BY <1>2, ReadMore DEF DecodedState
  <2>2. blocks' = blocks /\ sets' = sets /\ step' = step /\ at' = at /\ pending' = pending
        /\ step \in {"fields", "tables", "values"}
    BY <1>2 DEF Decoding, metaVars
  <2>3. CollectedSoFar'
    BY <2>2, NonePassed DEF DecodedState
  <2>4. JoiningState'
    BY <2>2 DEF DecodedState, JoiningState, Closes
  <2> QED
    BY <2>1, <2>3, <2>4
<1>3. CASE Collect \/ Consider
  BY <1>3, ChunkJoined, Considered
<1>4. CASE Summarise
  <2>1. blocks' = blocks /\ step = "values" /\ step' = "scan" /\ NextBlock
    BY <1>4 DEF Summarise, Goto
  <2>2. ReadingState'
    BY <2>1, Resting DEF DecodedState
  <2>3. at \in 1..Len(blocks)
    BY <2>1 DEF DecodedState, FileState, MetaTypes
  <2>4. JoiningState'
    BY <2>1, <2>3, NextOpens DEF DecodedState, JoiningState
  <2> QED
    BY <2>2, <2>4, <1>4, SummariseCollects DEF DecodedState
<1>5. CASE EndValues \/ Pass \/ Directory \/ Undirected
  BY <1>5, AfterTheScan
<1>6. CASE UNCHANGED blockVars
  <2>1. UNCHANGED <<buf, mode, limit, stage, pos, out, blocks, step, at, pending, sets>>
    BY <1>6 DEF blockVars, tableVars, metaVars
  <2>2. Working' = Working /\ Wanted' = Wanted /\ Meant' = Meant
    BY <2>1 DEF Working, Wanted, Meant
  <2>3. RefusesOnlyDamage'
    BY <2>1, <2>2 DEF DecodedState, ReadingState, RefusesOnlyDamage
  <2>4. Working => ReadSoFar(blocks[at])'
    BY <2>1, <2>2 DEF DecodedState, ReadingState, ReadSoFar
  <2>5. ReadingState'
    BY <2>1, <2>2, <2>3, <2>4 DEF DecodedState, ReadingState
  <2>6. CollectedSoFar'
    BY <2>1 DEF DecodedState, CollectedSoFar, ToCollect, Collected, IsLogical, Closes
  <2>7. JoiningState'
    BY <2>1 DEF DecodedState, JoiningState, Closes
  <2> QED
    BY <2>5, <2>6, <2>7
<1> QED
  BY <1>1, <1>2, <1>3, <1>4, <1>5, <1>6 DEF MNext

THEOREM MetadataRead == MSpec => []DecodedState
<1>1. MInit => DecodedState
  BY InitFile, InitDecoded DEF DecodedState
<1>2. FileState /\ [MNext]_blockVars => FileState'
  BY FileStep
<1>3. DecodedState /\ [MNext]_blockVars => DecodedState'
  BY <1>2, DecodedOn DEF DecodedState
<1> QED
  BY <1>1, <1>3, PTL DEF MSpec

----------------------------------------------------------------------------
(* What it says of the decoders. *)

LEMMA WhatIsReadIsMeant ==
    ASSUME FileState, ReadingState, Working, stage \in {"entries", "decoded"}
    PROVE  IsPrefix(ReadBack, Meant) /\ (stage = "decoded" => ReadBack = Meant)
<1> DEFINE es == blocks[at].entries
           n == Len(out)
<1>1. /\ n \in Nat /\ DOMAIN out = 1..n /\ n <= Len(Meant)
      /\ Meant \in Seq(Entries) /\ Len(Meant) \in 0..Len(es) /\ \A i \in 1..Len(Meant) : Meant[i] = es[i]
  BY CursorAtEnd, MeantFirst
<1>2. \A i \in 1..n : ReadBack[i] = Meant[i]
  <2> TAKE i \in 1..n
  <2>1. i \in 1..Len(Meant) /\ Meant[i] = es[i] /\ es[i] \in Entries
    BY <1>1
  <2>2. out[i].flag = es[i].flag /\ out[i].text = es[i].text /\ out[i].number = es[i].number
    BY <1>1 DEF ReadingState, ReadSoFar
  <2>3. es[i] = [flag |-> es[i].flag, text |-> es[i].text, number |-> es[i].number]
    BY <2>1 DEF Entries
  <2>4. ReadBack[i] = [flag |-> out[i].flag, text |-> out[i].text, number |-> out[i].number]
    BY <1>1 DEF ReadBack
  <2> QED
    BY <2>1, <2>2, <2>3, <2>4
<1>3. ReadBack \in Seq(Entries) /\ Len(ReadBack) = n
  <2>1. DOMAIN ReadBack = 1..n /\ ReadBack = [i \in 1..n |-> ReadBack[i]]
    BY <1>1 DEF ReadBack
  <2>2. \A i \in 1..n : ReadBack[i] \in Entries
    <3> TAKE i \in 1..n
    <3>1. i \in 1..Len(Meant)
      BY <1>1
    <3>2. Meant[i] \in Entries
      BY <3>1, <1>1
    <3> QED
      BY <3>2, <1>2
  <2>3. ReadBack \in [1..n -> Entries]
    BY <2>1, <2>2
  <2> QED
    BY <2>3, <1>1, SeqDef
<1> HIDE DEF n, es
<1> DEFINE r == ReadBack
           m == Meant
<1>4. /\ r \in Seq(Entries) /\ m \in Seq(Entries) /\ Len(r) = n /\ n \in Nat /\ n <= Len(m) /\ Len(m) \in Nat
      /\ \A i \in 1..n : r[i] = m[i]
  BY <1>1, <1>2, <1>3
<1>5. stage = "decoded" => n = Len(m)
  <2>1. stage = "decoded" => n = Wanted
    BY DEF ReadingState, ReadSoFar, n
  <2> QED
    BY <2>1, CursorAtEnd
<1> HIDE DEF r, m
<1>6. SubSeq(r, 1, n) = SubSeq(m, 1, n)
  <2>1. 1 \in Int /\ n \in Int /\ n - 1 + 1 = n
    BY <1>4
  <2>2. /\ \A i \in 1..n : r[i] \in Entries
        /\ \A i \in 1..n : m[i] \in Entries
    BY <1>4
  <2>3. /\ SubSeq(r, 1, n) \in Seq(Entries) /\ Len(SubSeq(r, 1, n)) = IF 1 <= n THEN n - 1 + 1 ELSE 0
        /\ \A i \in 1..n - 1 + 1 : SubSeq(r, 1, n)[i] = r[1 + i - 1]
    BY <2>1, <2>2, SubSeqProperties
  <2>4. /\ SubSeq(m, 1, n) \in Seq(Entries) /\ Len(SubSeq(m, 1, n)) = IF 1 <= n THEN n - 1 + 1 ELSE 0
        /\ \A i \in 1..n - 1 + 1 : SubSeq(m, 1, n)[i] = m[1 + i - 1]
    BY <2>1, <2>2, SubSeqProperties
  <2>5. Len(SubSeq(r, 1, n)) = n /\ Len(SubSeq(m, 1, n)) = n
    BY <2>3, <2>4, <1>4
  <2>6. \A i \in 1..n : SubSeq(r, 1, n)[i] = SubSeq(m, 1, n)[i]
    <3> TAKE i \in 1..n
    <3>1. i \in 1..n - 1 + 1 /\ 1 + i - 1 = i
      BY <2>1
    <3> QED
      BY <3>1, <2>3, <2>4, <1>4
  <2> QED
    BY <2>3, <2>4, <2>5, <2>6, SeqEqual
<1>7. IsPrefix(r, m)
  BY <1>4, <1>6 DEF IsPrefix
<1>8. stage = "decoded" => r = m
  BY <1>4, <1>5, SeqEqual
<1> QED
  BY <1>7, <1>8 DEF r, m

\* strings.py and symbols.py: of a table whose texts read one way only, in
\* either encoding of a length and whatever the end of the block has lost, the
\* decoders read the entries as they were meant and in their order, and all
\* that they were asked for when they return.
THEOREM DecodersReadWhatWasWritten == MSpec => []DecodesWhatWasWritten
<1>1. DecodedState => DecodesWhatWasWritten
  BY WhatIsReadIsMeant DEF DecodedState, DecodesWhatWasWritten
<1> QED
  BY <1>1, MetadataRead, PTL

\* And they refuse a table only for damage in the part that they read.
THEOREM DecodersRefuseOnlyDamage == MSpec => []RefusesOnlyDamage
<1>1. DecodedState => RefusesOnlyDamage
  BY DEF DecodedState, ReadingState
<1> QED
  BY <1>1, MetadataRead, PTL

\* extract_value_sets over iter_logical_blocks: every sound table with entries
\* that fills a logical block, of one block or of a run of chunks with its
\* tail, has its value set when the scan is over, with its exact cardinality
\* and its first values, whatever the other logical blocks hold.
THEOREM EveryTableHasItsValueSet == MSpec => []ValueSetsComplete
<1>1. DecodedState => ValueSetsComplete
  <2> SUFFICES ASSUME DecodedState PROVE ValueSetsComplete
    OBVIOUS
  <2>1. SetsInOrder
    BY DEF DecodedState, FileState, InTurn
  <2>2. ASSUME step \in {"directory", "parsed"}, NEW fl \in LogicalBlocks, fl[1] > 3, ToCollect(fl[2])
        PROVE  \E s \in ToSet(sets) : IsSetOf(s, fl[1], fl[2], blocks[fl[2]].entries)
    <3>1. fl[1] \in DOMAIN blocks /\ fl[2] \in DOMAIN blocks /\ IsLogical(fl[1], fl[2])
      BY DEF LogicalBlocks, IsLogical
    <3> QED
      BY <3>1, <2>2 DEF DecodedState, CollectedSoFar, Collected
  <2> QED
    BY <2>1, <2>2 DEF ValueSetsComplete, IsSetOf, ToCollect
<1> QED
  BY <1>1, MetadataRead, PTL
====
