----------------------------- MODULE WireProofs -----------------------------
(***************************************************************************)
(* Proofs about PacketCodec and Wire, for any messages, keys and sizes.    *)
(***************************************************************************)
EXTENDS WireInvariant, GeneralProofs

-----------------------------------------------------------------------------
(* Numbers.                                                                *)

\* The powers are what their recursion says.
LEMMA PowerIs ==
  /\ Power[0] = 1
  /\ \A k \in Nat : Power[k] \in Nat \ {0} /\ Power[k + 1] = BASE * Power[k]
<1> DEFINE size == [k \in Nat |-> k]
           next == [k \in Nat |-> IF k = 0 THEN 0 ELSE k - 1]
           base == [k \in Nat |-> 1]
           V == Nat \ {0}
           step == [p \in Nat \X V |-> BASE * p[2]]
<1>1. /\ size \in [Nat -> Nat] /\ next \in [Nat -> Nat] /\ base \in [Nat -> V]
      /\ \A k \in Nat : k \notin {0} => size[next[k]] < size[k]
  OBVIOUS
<1>2. step \in [Nat \X V -> V]
  <2>1. \A a \in Nat \ {0}, b \in Nat \ {0} : a * b \in Nat \ {0}
    OBVIOUS
  <2>2. \A p \in Nat \X V : p[2] \in Nat \ {0}
    OBVIOUS
  <2>3. BASE \in Nat \ {0}
    BY CodecAssumption
  <2> QED
    BY <2>1, <2>2, <2>3
<1>3. PICK f \in [Nat -> V] : \A k \in Nat : Recursive(f, k, base, step, next, {0})
  <2> HIDE DEF size, next, base, step, V
  <2>1. IsRecursion(Nat, size, next, V, {0}, base, step)
    BY <1>1, <1>2 DEF IsRecursion
  <2> QED
    BY <2>1, RecursionExists
<1>4. ASSUME NEW k \in Nat PROVE f[k] = IF k = 0 THEN 1 ELSE BASE * f[k - 1]
  <2>1. Recursive(f, k, base, step, next, {0})
    BY <1>3
  <2>2. CASE k = 0
    BY <2>1, <2>2 DEF Recursive
  <2>3. CASE k # 0
    <3>1. next[k] = k - 1 /\ <<k, f[k - 1]>> \in Nat \X V
      BY <2>3
    <3>2. f[k] = step[<<k, f[k - 1]>>]
      BY <2>1, <2>3, <3>1 DEF Recursive
    <3> QED
      BY <2>3, <3>1, <3>2
  <2> QED
    BY <2>2, <2>3
<1>5. f = [k \in Nat |-> IF k = 0 THEN 1 ELSE BASE * f[k - 1]]
  BY <1>4
<1>6. Power = [k \in Nat |-> IF k = 0 THEN 1 ELSE BASE * Power[k - 1]]
  BY <1>5 DEF Power
<1>7. ASSUME NEW k \in Nat PROVE Power[k] = IF k = 0 THEN 1 ELSE BASE * Power[k - 1]
  BY <1>6
<1> HIDE DEF V
<1>8. \A k \in Nat : Power[k] \in Nat \ {0}
  <2> DEFINE A == {k \in Nat : Power[k] \in Nat \ {0}}
  <2>1. 0 \in A
    BY <1>7
  <2>2. ASSUME NEW k \in Nat, k \in A PROVE k + 1 \in A
    <3>1. Power[k + 1] = BASE * Power[k]
      BY <1>7
    <3>2. PICK p \in Nat \ {0}, b \in Nat \ {0} : p = Power[k] /\ b = BASE
      BY <2>2, CodecAssumption
    <3>3. b * p \in Nat \ {0}
      OBVIOUS
    <3> QED
      BY <3>1, <3>2, <3>3
  <2> HIDE DEF A
  <2>3. Nat \subseteq A
    BY <2>1, <2>2, Induct
  <2> QED
    BY <2>3 DEF A
<1> QED
  BY <1>7, <1>8

\* The value of a sequence of bytes, read from its end.
LEMMA ValueIs ==
  /\ Value[<<>>] = 0
  /\ \A s \in Bytes : Value[s] \in Nat
  /\ \A s \in Bytes, b \in Byte : Value[Append(s, b)] = Value[s] * BASE + b
<1> DEFINE size == [s \in Bytes |-> Len(s)]
           next == [s \in Bytes |-> Front(s)]
           base == [s \in Bytes |-> 0]
           step == [p \in Bytes \X Nat |-> p[2] * BASE + Last(p[1])]
           more == [p \in Bytes \X Nat |-> IF p[1] = <<>> THEN 0 ELSE step[p]]
<1>1. \A s \in Bytes : /\ Front(s) \in Bytes /\ Len(s) \in Nat
                       /\ s # <<>> => Len(Front(s)) < Len(s) /\ Last(s) \in Byte
  BY FrontShorter, LenProperties DEF Bytes
<1>2. Byte \subseteq Nat /\ BASE \in Nat
  BY CodecAssumption DEF Byte
<1>3. /\ size \in [Bytes -> Nat] /\ next \in [Bytes -> Bytes] /\ base \in [Bytes -> Nat]
      /\ \A s \in Bytes : s \notin {<<>>} => size[next[s]] < size[s]
  BY <1>1
<1>4. more \in [Bytes \X Nat -> Nat]
  <2>1. ASSUME NEW p \in Bytes \X Nat, p[1] # <<>> PROVE step[p] \in Nat
    <3>1. p[2] \in Nat /\ Last(p[1]) \in Nat
      BY <1>1, <1>2, <2>1
    <3>2. p[2] * BASE \in Nat
      BY <1>2, <3>1
    <3> QED
      BY <3>1, <3>2
  <2> HIDE DEF step
  <2> QED
    BY <2>1
<1>5. PICK f \in [Bytes -> Nat] : \A s \in Bytes : Recursive(f, s, base, more, next, {<<>>})
  <2> HIDE DEF size, next, base, more
  <2>1. IsRecursion(Bytes, size, next, Nat, {<<>>}, base, more)
    BY <1>3, <1>4 DEF IsRecursion
  <2> QED
    BY <2>1, RecursionExists
<1>6. ASSUME NEW s \in Bytes
      PROVE  f[s] = IF s = <<>> THEN 0 ELSE f[Front(s)] * BASE + Last(s)
  <2>1. Recursive(f, s, base, more, next, {<<>>})
    BY <1>5
  <2>2. CASE s = <<>>
    BY <2>1, <2>2 DEF Recursive
  <2>3. CASE s # <<>>
    <3>1. next[s] = Front(s) /\ <<s, f[Front(s)]>> \in Bytes \X Nat
      BY <1>1
    <3>2. f[s] = more[<<s, f[Front(s)]>>]
      BY <2>1, <2>3, <3>1 DEF Recursive
    <3> QED
      BY <2>3, <3>1, <3>2
  <2> QED
    BY <2>2, <2>3
<1>7. f = [s \in Bytes |-> IF s = <<>> THEN 0 ELSE f[Front(s)] * BASE + Last(s)]
  BY <1>6
<1>8. Value = [s \in Bytes |-> IF s = <<>> THEN 0 ELSE Value[Front(s)] * BASE + Last(s)]
  BY <1>7 DEF Value
<1>9. \A s \in Bytes : Value[s] = IF s = <<>> THEN 0 ELSE Value[Front(s)] * BASE + Last(s)
  BY <1>8
<1>10. <<>> \in Bytes
  BY EmptySeq DEF Bytes
<1>11. ASSUME NEW s \in Bytes, NEW b \in Byte
       PROVE  Append(s, b) \in Bytes /\ Value[Append(s, b)] = Value[s] * BASE + b
  <2>1. Append(s, b) \in Bytes /\ Append(s, b) # <<>>
    BY AppendProperties DEF Bytes
  <2>2. Front(Append(s, b)) = s /\ Last(Append(s, b)) = b
    BY FrontAndLast DEF Bytes
  <2> QED
    BY <1>9, <2>1, <2>2
<1>12. \A s \in Bytes : Value[s] \in Nat
  <2> DEFINE G == {s \in Bytes : Value[s] \in Nat}
  <2>1. <<>> \in G
    BY <1>9, <1>10
  <2>2. ASSUME NEW s \in Bytes, NEW b \in Byte, s \in G PROVE Append(s, b) \in G
    <3>1. Value[s] * BASE \in Nat /\ b \in Nat
      BY <1>2, <2>2
    <3> QED
      BY <1>11, <3>1
  <2> HIDE DEF G
  <2>3. Bytes \subseteq G
    BY <2>1, <2>2, SeqInduct DEF Bytes
  <2> QED
    BY <2>3 DEF G
<1> QED
  BY <1>9, <1>10, <1>11, <1>12

\* What is left of a number without its lowest digits.
LEMMA NextDigit ==
  ASSUME NEW n \in Nat, NEW k \in Nat
  PROVE  n \div Power[k + 1] = (n \div Power[k]) \div BASE
<1>1. Power[k] \in Nat \ {0} /\ BASE \in Nat \ {0}
  BY PowerIs, CodecAssumption
<1>2. (n \div Power[k]) \div BASE = n \div (BASE * Power[k])
  BY <1>1, DivDiv, Zenon
<1>3. Power[k + 1] = BASE * Power[k]
  BY PowerIs
<1> QED
  BY <1>2, <1>3, Zenon

\* A number is written as WORD bytes.
LEMMA NumberBytes ==
  ASSUME NEW n \in Nat
  PROVE  Uint64(n) \in Bytes /\ Len(Uint64(n)) = WORD
<1>1. WORD \in Nat \ {0} /\ BASE \in Nat \ {0}
  BY CodecAssumption
<1>2. ASSUME NEW i \in 1 .. WORD PROVE (n \div Power[WORD - i]) % BASE \in Byte
  <2>1. Power[WORD - i] \in Nat \ {0}
    BY <1>1, PowerIs
  <2>2. n \div Power[WORD - i] \in Nat
    BY <1>1, <2>1, QuotientAndRemainder
  <2> QED
    BY <1>1, <2>2, QuotientAndRemainder DEF Byte
<1>3. Uint64(n) \in [1 .. WORD -> Byte]
  BY <1>2 DEF Uint64
<1> QED
  BY <1>1, <1>3, FunctionIsSeq DEF Bytes

\* Reading undoes writing: a uint64 is WORD bytes, and they have its value.
LEMMA NumberRead ==
  ASSUME NEW n \in Word
  PROVE  Uint64(n) \in Bytes /\ Len(Uint64(n)) = WORD /\ Value[Uint64(n)] = n
<1> DEFINE u == Uint64(n)
           A == {k \in Nat : k <= WORD => Value[SubSeq(u, 1, k)] = n \div Power[WORD - k]}
<1>1. n \in Nat /\ WORD \in Nat \ {0} /\ BASE \in Nat \ {0} /\ n < Power[WORD] /\ Power[WORD] \in Nat
  <2>1. WORD \in Nat \ {0} /\ BASE \in Nat \ {0}
    BY CodecAssumption
  <2>2. Power[WORD] \in Nat \ {0}
    BY <2>1, PowerIs
  <2>3. n \in 0 .. Power[WORD] - 1
    BY DEF Word
  <2> QED
    BY <2>1, <2>2, <2>3
<1>2. u \in Bytes /\ Len(u) = WORD
  BY <1>1, NumberBytes
<1>3. \A i \in 1 .. WORD : u[i] = (n \div Power[WORD - i]) % BASE /\ u[i] \in Byte
  <2>1. \A i \in 1 .. WORD : u[i] \in Byte
    BY <1>2, ElementOfSeq DEF Bytes
  <2> QED
    BY <2>1 DEF Uint64
<1> HIDE DEF u
<1>4. 0 \in A
  <2>1. SubSeq(u, 1, 0) = <<>>
    BY SubSeqEmpty
  <2>2. n \div Power[WORD] = 0
    <3>1. 0 * Power[WORD] + n = n /\ n \in 0 .. Power[WORD] - 1
      BY <1>1
    <3>2. Power[WORD] \in Nat \ {0}
      BY <1>1, PowerIs
    <3> QED
      BY <3>1, <3>2, DivMod
  <2>3. WORD - 0 = WORD
    BY <1>1
  <2> QED
    BY <2>1, <2>2, <2>3, ValueIs
<1>5. ASSUME NEW k \in Nat, k \in A PROVE k + 1 \in A
  <2>1. SUFFICES ASSUME k + 1 <= WORD
                 PROVE  Value[SubSeq(u, 1, k + 1)] = n \div Power[WORD - (k + 1)]
    OBVIOUS
  <2>2. Value[SubSeq(u, 1, k)] = n \div Power[WORD - k]
    BY <1>1, <1>5, <2>1
  <2>3. SubSeq(u, 1, k) \in Bytes /\ SubSeq(u, 1, k + 1) = Append(SubSeq(u, 1, k), u[k + 1])
    <3>1. k + 1 \in 1 .. Len(u) /\ 1 \in 1 .. Len(u) /\ k + 1 \in 1 .. WORD
      BY <1>1, <1>2, <2>1
    <3>2. \A i \in 1 .. k : u[i] \in Byte
      BY <1>1, <1>3, <2>1
    <3>3. SubSeq(u, 1, k) \in Seq(Byte)
      BY <3>2, SubSeqProperties
    <3>4. SubSeq(u, 1, k + 1) = SubSeq(u, 1, k) \o <<u[k + 1]>>
      <4>1. SubSeq(u, 1, k + 1) = SubSeq(u, 1, k + 1 - 1) \o <<u[k + 1]>>
        BY <1>2, <3>1, SubSeqRecursiveSecond DEF Bytes
      <4>2. k + 1 - 1 = k
        OBVIOUS
      <4> QED
        BY <4>1, <4>2
    <3>5. u[k + 1] \in Byte
      BY <1>3, <3>1
    <3> QED
      BY <3>3, <3>4, <3>5, AppendIsConcat DEF Bytes
  <2> DEFINE a == Power[WORD - (k + 1)]
             m == n \div a
  <2>4. a \in Nat \ {0} /\ Power[WORD - k] = BASE * a
    <3>1. WORD - (k + 1) \in Nat /\ WORD - (k + 1) + 1 = WORD - k
      BY <1>1, <2>1
    <3> QED
      BY <3>1, PowerIs
  <2>5. u[k + 1] = m % BASE /\ u[k + 1] \in Byte
    <3>1. k + 1 \in 1 .. WORD
      BY <1>1, <2>1
    <3> QED
      BY <1>3, <3>1
  <2> HIDE DEF a
  <2>6. m \in Nat
    BY <1>1, <2>4, QuotientAndRemainder
  <2>7. n \div Power[WORD - k] = m \div BASE
    <3>1. n \in Nat /\ WORD - (k + 1) \in Nat /\ WORD - (k + 1) + 1 = WORD - k
      BY <1>1, <2>1
    <3> QED
      BY <3>1, NextDigit DEF m, a
  <2> HIDE DEF m
  <2>8. PICK q \in Nat, r \in Nat : q = m \div BASE /\ r = m % BASE /\ m = q * BASE + r
    <3>1. \E q \in Nat, r \in 0 .. BASE - 1 : q = m \div BASE /\ r = m % BASE /\ m = q * BASE + r
      BY <1>1, <2>6, QuotientAndRemainder
    <3> QED
      BY <3>1
  <2>9. Value[SubSeq(u, 1, k + 1)] = q * BASE + r
    BY <2>2, <2>3, <2>5, <2>7, <2>8, ValueIs
  <2> QED
    BY <2>8, <2>9 DEF m, a
<1> HIDE DEF A
<1>6. Nat \subseteq A
  BY <1>4, <1>5, Induct
<1>7. Value[SubSeq(u, 1, WORD)] = n \div Power[0]
  <2>1. WORD \in A /\ WORD - WORD = 0
    BY <1>1, <1>6
  <2> QED
    BY <1>1, <2>1 DEF A
<1>8. n \div Power[0] = n
  <2>1. n * 1 + 0 = n /\ 0 \in 0 .. 1 - 1
    BY <1>1
  <2>2. n \div 1 = n
    BY <1>1, <2>1, DivMod
  <2> QED
    BY <2>2, PowerIs
<1>9. SubSeq(u, 1, WORD) = u
  BY <1>2, SubSeqFull DEF Bytes
<1> QED
  BY <1>2, <1>7, <1>8, <1>9 DEF u

-----------------------------------------------------------------------------
(* Parts of a body.                                                        *)

\* body has s from the place at on.
Holds(body, at, s) ==
  /\ body \in Bytes /\ s \in Bytes /\ at \in Nat \ {0}
  /\ at + Len(s) - 1 <= Len(body)
  /\ \A i \in 1 .. Len(s) : body[at + i - 1] = s[i]

LEMMA HoldsItself ==
  ASSUME NEW body \in Bytes
  PROVE  Holds(body, 1, body)
<1>1. Len(body) \in Nat
  BY LenProperties DEF Bytes
<1> QED
  BY <1>1 DEF Holds

\* What holds two parts holds each, one behind the other.
LEMMA HoldsParts ==
  ASSUME NEW body, NEW at, NEW s \in Bytes, NEW t \in Bytes, Holds(body, at, s \o t)
  PROVE  /\ Holds(body, at, s) /\ Holds(body, at + Len(s), t)
         /\ Len(s) \in Nat /\ Len(t) \in Nat /\ Len(s \o t) = Len(s) + Len(t)
<1>1. Len(s) \in Nat /\ Len(t) \in Nat /\ Len(body) \in Nat /\ at \in Nat \ {0}
  BY LenProperties DEF Bytes, Holds
<1>2. /\ Len(s \o t) = Len(s) + Len(t)
      /\ \A i \in 1 .. Len(s) + Len(t) : (s \o t)[i] = IF i <= Len(s) THEN s[i] ELSE t[i - Len(s)]
  BY ConcatProperties DEF Bytes
<1>3. /\ at + (Len(s) + Len(t)) - 1 <= Len(body)
      /\ \A i \in 1 .. Len(s) + Len(t) : body[at + i - 1] = (s \o t)[i]
  BY <1>2 DEF Holds
<1>4. Holds(body, at, s)
  <2>1. at + Len(s) - 1 <= Len(body)
    BY <1>1, <1>3
  <2>2. ASSUME NEW i \in 1 .. Len(s) PROVE body[at + i - 1] = s[i]
    <3>1. i \in 1 .. Len(s) + Len(t) /\ i <= Len(s)
      BY <1>1
    <3> QED
      BY <1>2, <1>3, <3>1
  <2> QED
    BY <2>1, <2>2 DEF Holds
<1>5. Holds(body, at + Len(s), t)
  <2>1. at + Len(s) \in Nat \ {0} /\ at + Len(s) + Len(t) - 1 <= Len(body)
    BY <1>1, <1>3
  <2>2. ASSUME NEW i \in 1 .. Len(t) PROVE body[at + Len(s) + i - 1] = t[i]
    <3>1. /\ Len(s) + i \in 1 .. Len(s) + Len(t) /\ ~(Len(s) + i <= Len(s))
          /\ Len(s) + i - Len(s) = i /\ at + (Len(s) + i) - 1 = at + Len(s) + i - 1
      BY <1>1
    <3>2. body[at + (Len(s) + i) - 1] = (s \o t)[Len(s) + i]
      BY <1>3, <3>1
    <3>3. (s \o t)[Len(s) + i] = t[i]
      BY <1>2, <3>1
    <3> QED
      BY <3>1, <3>2, <3>3
  <2> QED
    BY <2>1, <2>2 DEF Holds
<1> QED
  BY <1>1, <1>2, <1>4, <1>5

\* A part can be cut out.
LEMMA HeldIsCut ==
  ASSUME NEW body, NEW at, NEW s, Holds(body, at, s)
  PROVE  SubSeq(body, at, at + Len(s) - 1) = s
<1>1. Len(s) \in Nat /\ Len(body) \in Nat /\ at \in Nat \ {0} /\ at + Len(s) - 1 <= Len(body)
  BY LenProperties DEF Bytes, Holds
<1> DEFINE n == at + Len(s) - 1
<1>2. n \in Int /\ at \in Int /\ n <= Len(body)
  BY <1>1
<1>3. \A i \in at .. n : body[i] \in Byte
  BY <1>1, <1>2, ElementOfSeq DEF Bytes, Holds
<1> HIDE DEF n
<1>4. /\ SubSeq(body, at, n) \in Seq(Byte)
      /\ Len(SubSeq(body, at, n)) = IF at <= n THEN n - at + 1 ELSE 0
      /\ \A i \in 1 .. n - at + 1 : SubSeq(body, at, n)[i] = body[at + i - 1]
  BY <1>2, <1>3, SubSeqProperties
<1>5. n - at + 1 = Len(s) /\ (at <= n <=> Len(s) # 0)
  BY <1>1 DEF n
<1>6. Len(SubSeq(body, at, n)) = Len(s)
  BY <1>1, <1>4, <1>5
<1>7. \A i \in 1 .. Len(s) : SubSeq(body, at, n)[i] = s[i]
  BY <1>4, <1>5 DEF Holds
<1>8. SubSeq(body, at, n) = s
  BY <1>4, <1>6, <1>7, SeqEqual DEF Bytes, Holds
<1> QED
  BY <1>8 DEF n

\* A number that is there is read.
LEMMA NumberHeld ==
  ASSUME NEW n \in Word, NEW body, NEW at, Holds(body, at, Uint64(n))
  PROVE  NumberAt(body, at) = n
<1>1. Len(Uint64(n)) = WORD /\ Value[Uint64(n)] = n
  BY NumberRead
<1>2. SubSeq(body, at, at + WORD - 1) = Uint64(n)
  BY <1>1, HeldIsCut
<1> QED
  BY <1>1, <1>2 DEF NumberAt

\* What Text makes of bytes.
LEMMA TextIs ==
  ASSUME NEW t \in Bytes
  PROVE  Text(t) \in Bytes /\ Len(Text(t)) = WORD + Len(t) /\ Len(t) \in Nat
<1>1. Len(t) \in Nat
  BY LenProperties DEF Bytes
<1>2. Uint64(Len(t)) \in Bytes /\ Len(Uint64(Len(t))) = WORD
  BY <1>1, NumberBytes
<1> QED
  BY <1>1, <1>2, ConcatProperties DEF Bytes, Text

\* A text that is there is read, and what comes after it is found.
LEMMA TextHeld ==
  ASSUME NEW t \in Bytes, Len(t) \in Word, NEW body, NEW at, Holds(body, at, Text(t))
  PROVE  TextAt(body, at) = t /\ AfterText(body, at) = at + (WORD + Len(t))
<1>1. Uint64(Len(t)) \in Bytes /\ Len(Uint64(Len(t))) = WORD /\ WORD \in Nat
  BY NumberRead, CodecAssumption
<1>2. Holds(body, at, Uint64(Len(t))) /\ Holds(body, at + WORD, t)
  BY <1>1, HoldsParts DEF Text
<1>3. NumberAt(body, at) = Len(t)
  BY <1>2, NumberHeld
<1>4. SubSeq(body, at + WORD, at + WORD + Len(t) - 1) = t
  BY <1>2, HeldIsCut
<1>5. at + WORD + Len(t) = at + (WORD + Len(t))
  <2>1. at \in Nat /\ Len(t) \in Nat
    BY LenProperties DEF Holds, Bytes
  <2> QED
    BY <1>1, <2>1
<1> QED
  BY <1>3, <1>4, <1>5 DEF TextAt, AfterText

-----------------------------------------------------------------------------
(* Bodies: decoding undoes encoding.                                       *)

\* A uint64 is a number.
LEMMA WordIs == Word \subseteq Nat
<1>1. Power[WORD] \in Nat
  BY PowerIs, CodecAssumption
<1> QED
  BY <1>1 DEF Word

\* Two parts are as long as both.
LEMMA JoinBytes ==
  ASSUME NEW s \in Bytes, NEW t \in Bytes
  PROVE  /\ s \o t \in Bytes /\ Len(s \o t) = Len(s) + Len(t)
         /\ Len(s) \in Nat /\ Len(t) \in Nat
BY ConcatProperties, LenProperties DEF Bytes

\* It does not matter which two of three parts are joined first.
LEMMA JoinOfJoin ==
  ASSUME NEW a \in Seq(Byte), NEW b \in Seq(Byte), NEW c \in Seq(Byte)
  PROVE  (a \o b) \o c = a \o (b \o c)
BY ConcatAssociative

\* Nor for packets.
LEMMA PacketsOfJoin ==
  ASSUME NEW a \in Seq(Sendable), NEW b \in Seq(Sendable), NEW c \in Seq(Sendable)
  PROVE  (a \o b) \o c = a \o (b \o c)
BY ConcatAssociative

\* What is not longer than the length of a body is a uint64.
LEMMA ShortIsWord ==
  ASSUME NEW n \in Nat, NEW m \in Word, n <= m
  PROVE  n \in Word
<1>1. Power[WORD] \in Nat
  BY PowerIs, CodecAssumption
<1> QED
  BY <1>1 DEF Word

\* The fields of a file come back.
LEMMA FileRead ==
  ASSUME NEW file \in File
  PROVE  /\ FileBody(file) \in Bytes
         /\ Len(FileBody(file)) \in Word => DecodeFile(FileBody(file)) = file
<1> DEFINE e1 == Uint64(file.ID)
           e2 == Text(file.Name)
           e3 == Uint64(file.Size)
           e4 == Text(file.Checksum)
           e5 == Text(file.RelativeParentPath)
           b2 == e1 \o e2
           b3 == b2 \o e3
           b4 == b3 \o e4
           body == FileBody(file)
           n == Len(file.Name)
           c == Len(file.Checksum)
           p == Len(file.RelativeParentPath)
<1>1. /\ file.ID \in Word /\ file.Name \in Bytes /\ file.Size \in Word
      /\ file.Checksum \in Bytes /\ file.RelativeParentPath \in Bytes
  BY DEF File
<1>2. /\ e1 \in Bytes /\ e2 \in Bytes /\ e3 \in Bytes /\ e4 \in Bytes /\ e5 \in Bytes
      /\ Len(e1) = WORD /\ Len(e2) = WORD + n /\ Len(e3) = WORD
      /\ Len(e4) = WORD + c /\ Len(e5) = WORD + p
      /\ n \in Nat /\ c \in Nat /\ p \in Nat
  BY <1>1, NumberRead, TextIs
<1>3. body = b4 \o e5
  BY DEF FileBody
<1>4. WORD \in Nat
  BY CodecAssumption
<1> HIDE DEF e1, e2, e3, e4, e5, body, n, c, p
<1>5. /\ b2 \in Bytes /\ b3 \in Bytes /\ b4 \in Bytes /\ body \in Bytes
      /\ Len(b2) = Len(e1) + Len(e2) /\ Len(b3) = Len(b2) + Len(e3)
      /\ Len(b4) = Len(b3) + Len(e4) /\ Len(body) = Len(b4) + Len(e5)
  BY <1>2, <1>3, JoinBytes
<1>6. SUFFICES ASSUME Len(body) \in Word PROVE DecodeFile(body) = file
  BY <1>5 DEF body
<1>7. n \in Word /\ c \in Word /\ p \in Word
  <2>1. n <= Len(body) /\ c <= Len(body) /\ p <= Len(body)
    BY <1>2, <1>4, <1>5
  <2> QED
    BY <1>2, <1>6, <2>1, ShortIsWord
<1>8. Holds(body, 1, b4) /\ Holds(body, 1 + Len(b4), e5)
  BY <1>2, <1>3, <1>5, HoldsItself, HoldsParts
<1>9. Holds(body, 1, b3) /\ Holds(body, 1 + Len(b3), e4)
  BY <1>2, <1>5, <1>8, HoldsParts
<1>10. Holds(body, 1, b2) /\ Holds(body, 1 + Len(b2), e3)
  BY <1>2, <1>5, <1>9, HoldsParts
<1>11. Holds(body, 1, e1) /\ Holds(body, 1 + Len(e1), e2)
  BY <1>2, <1>10, HoldsParts
<1> HIDE DEF b2, b3, b4
<1> DEFINE size == 1 + WORD + (WORD + n)
           checksum == size + WORD
           path == checksum + (WORD + c)
<1>12. 1 + Len(b2) = size /\ 1 + Len(b3) = checksum /\ 1 + Len(b4) = path
  BY <1>2, <1>4, <1>5
<1> HIDE DEF size, checksum, path
<1>13. NumberAt(body, 1) = file.ID /\ NumberAt(body, size) = file.Size
  BY <1>1, <1>10, <1>11, <1>12, NumberHeld DEF e1, e3
<1>14. TextAt(body, 1 + WORD) = file.Name /\ AfterText(body, 1 + WORD) = size
  BY <1>1, <1>2, <1>7, <1>11, TextHeld DEF size, e2, n
<1>15. TextAt(body, checksum) = file.Checksum /\ AfterText(body, checksum) = path
  BY <1>1, <1>7, <1>9, <1>12, TextHeld DEF path, e4, c
<1>16. TextAt(body, path) = file.RelativeParentPath
  BY <1>1, <1>7, <1>8, <1>12, TextHeld DEF e5, p
<1>17. DecodeFile(body) = [ID |-> file.ID, Name |-> file.Name, Size |-> file.Size,
                           Checksum |-> file.Checksum, RelativeParentPath |-> file.RelativeParentPath]
  BY <1>13, <1>14, <1>15, <1>16 DEF DecodeFile, checksum
<1> QED
  BY <1>17 DEF File

\* The fields of a directory come back.
LEMMA DirectoryRead ==
  ASSUME NEW dir \in Directory
  PROVE  /\ DirectoryBody(dir) \in Bytes
         /\ Len(DirectoryBody(dir)) \in Word => DecodeDirectory(DirectoryBody(dir)) = dir
<1> DEFINE e1 == Text(dir.Name)
           e2 == Uint64(dir.Size)
           body == DirectoryBody(dir)
           n == Len(dir.Name)
<1>1. dir.Name \in Bytes /\ dir.Size \in Word
  BY DEF Directory
<1>2. /\ e1 \in Bytes /\ e2 \in Bytes
      /\ Len(e1) = WORD + n /\ Len(e2) = WORD /\ n \in Nat
  BY <1>1, NumberRead, TextIs
<1>3. body = e1 \o e2
  BY DEF DirectoryBody
<1>4. WORD \in Nat
  BY CodecAssumption
<1> HIDE DEF e1, e2, body, n
<1>5. body \in Bytes /\ Len(body) = Len(e1) + Len(e2)
  BY <1>2, <1>3, JoinBytes
<1>6. SUFFICES ASSUME Len(body) \in Word PROVE DecodeDirectory(body) = dir
  BY <1>5 DEF body
<1>7. n \in Word
  <2>1. n <= Len(body)
    BY <1>2, <1>4, <1>5
  <2> QED
    BY <1>2, <1>6, <2>1, ShortIsWord
<1>8. Holds(body, 1, e1) /\ Holds(body, 1 + (WORD + n), e2)
  BY <1>2, <1>3, <1>5, HoldsItself, HoldsParts
<1>9. TextAt(body, 1) = dir.Name /\ AfterText(body, 1) = 1 + (WORD + n)
  BY <1>1, <1>7, <1>8, TextHeld DEF e1, n
<1>10. NumberAt(body, 1 + (WORD + n)) = dir.Size
  BY <1>1, <1>8, NumberHeld DEF e2
<1> QED
  BY <1>9, <1>10 DEF Directory, DecodeDirectory

\* The two paths of a symlink come back.
LEMMA SymlinkRead ==
  ASSUME NEW link \in Symlink
  PROVE  /\ SymlinkBody(link) \in Bytes
         /\ Len(SymlinkBody(link)) \in Word => DecodeSymlink(SymlinkBody(link)) = link
<1> DEFINE e1 == Text(link.Path)
           e2 == Text(link.TargetPath)
           body == SymlinkBody(link)
           n == Len(link.Path)
           t == Len(link.TargetPath)
<1>1. link.Path \in Bytes /\ link.TargetPath \in Bytes
  BY DEF Symlink
<1>2. /\ e1 \in Bytes /\ e2 \in Bytes
      /\ Len(e1) = WORD + n /\ Len(e2) = WORD + t /\ n \in Nat /\ t \in Nat
  BY <1>1, TextIs
<1>3. body = e1 \o e2
  BY DEF SymlinkBody
<1>4. WORD \in Nat
  BY CodecAssumption
<1> HIDE DEF e1, e2, body, n, t
<1>5. body \in Bytes /\ Len(body) = Len(e1) + Len(e2)
  BY <1>2, <1>3, JoinBytes
<1>6. SUFFICES ASSUME Len(body) \in Word PROVE DecodeSymlink(body) = link
  BY <1>5 DEF body
<1>7. n \in Word /\ t \in Word
  <2>1. n <= Len(body) /\ t <= Len(body)
    BY <1>2, <1>4, <1>5
  <2> QED
    BY <1>2, <1>6, <2>1, ShortIsWord
<1>8. Holds(body, 1, e1) /\ Holds(body, 1 + (WORD + n), e2)
  BY <1>2, <1>3, <1>5, HoldsItself, HoldsParts
<1>9. TextAt(body, 1) = link.Path /\ AfterText(body, 1) = 1 + (WORD + n)
  BY <1>1, <1>7, <1>8, TextHeld DEF e1, n
<1>10. TextAt(body, 1 + (WORD + n)) = link.TargetPath
  BY <1>1, <1>7, <1>8, TextHeld DEF e2, t
<1> QED
  BY <1>9, <1>10 DEF Symlink, DecodeSymlink

\* A piece comes back: its bytes are what follows the number.
LEMMA PieceRead ==
  ASSUME NEW piece \in Piece
  PROVE  /\ PieceBody(piece) \in Bytes
         /\ Len(PieceBody(piece)) = WORD + Len(piece.bytes)
         /\ DecodePiece(PieceBody(piece)) = piece
<1> DEFINE e1 == Uint64(piece.ID)
           e2 == piece.bytes
           body == PieceBody(piece)
<1>1. piece.ID \in Word /\ e2 \in Bytes
  BY DEF Piece
<1>2. e1 \in Bytes /\ Len(e1) = WORD
  BY <1>1, NumberRead
<1>3. body = e1 \o e2
  BY DEF PieceBody
<1>4. WORD \in Nat
  BY CodecAssumption
<1> HIDE DEF e1, e2, body
<1>5. body \in Bytes /\ Len(body) = WORD + Len(e2) /\ Len(e2) \in Nat
  BY <1>1, <1>2, <1>3, JoinBytes
<1>6. Holds(body, 1, e1) /\ Holds(body, 1 + WORD, e2)
  BY <1>1, <1>2, <1>3, <1>5, HoldsItself, HoldsParts
<1>7. NumberAt(body, 1) = piece.ID
  BY <1>1, <1>6, NumberHeld DEF e1
<1>8. SubSeq(body, 1 + WORD, Len(body)) = e2
  <2>1. SubSeq(body, 1 + WORD, 1 + WORD + Len(e2) - 1) = e2
    BY <1>6, HeldIsCut
  <2>2. 1 + WORD + Len(e2) - 1 = Len(body)
    BY <1>4, <1>5
  <2> QED
    BY <2>1, <2>2
<1>9. DecodePiece(body) = [ID |-> piece.ID, bytes |-> piece.bytes]
  BY <1>7, <1>8 DEF DecodePiece, e2
<1> QED
  BY <1>5, <1>9 DEF Piece, body, e2

\* A code before a body is taken off it again.
LEMMA CodeRead ==
  ASSUME NEW c \in Byte, NEW s \in Bytes
  PROVE  /\ <<c>> \o s \in Bytes /\ Len(<<c>> \o s) = 1 + Len(s)
         /\ Head(<<c>> \o s) = c /\ Tail(<<c>> \o s) = s
<1>1. <<c>> \in Bytes /\ Len(<<c>>) = 1 /\ <<c>>[1] = c
  BY DEF Bytes
<1>2. /\ <<c>> \o s \in Bytes /\ Len(<<c>> \o s) = 1 + Len(s) /\ Len(s) \in Nat
      /\ \A i \in 1 .. 1 + Len(s) : (<<c>> \o s)[i] = IF i <= 1 THEN c ELSE s[i - 1]
  BY <1>1, ConcatProperties, LenProperties DEF Bytes
<1> DEFINE b == <<c>> \o s
<1> HIDE DEF b
<1>3. /\ b \in Bytes /\ Len(b) = 1 + Len(s) /\ Len(s) \in Nat
      /\ \A i \in 1 .. 1 + Len(s) : b[i] = IF i <= 1 THEN c ELSE s[i - 1]
  BY <1>2 DEF b
<1>4. b # <<>>
  BY <1>3
<1>5. Head(b) = b[1] /\ Tail(b) \in Bytes /\ Len(Tail(b)) = Len(b) - 1
      /\ \A i \in 1 .. Len(b) - 1 : Tail(b)[i] = b[i + 1]
  BY <1>3, <1>4, HeadTailProperties DEF Bytes
<1>6. Tail(b) = s
  <2>1. Len(Tail(b)) = Len(s)
    BY <1>3, <1>5
  <2>2. ASSUME NEW i \in 1 .. Len(s) PROVE Tail(b)[i] = s[i]
    <3>1. i \in 1 .. Len(b) - 1 /\ i + 1 \in 1 .. 1 + Len(s) /\ ~(i + 1 <= 1) /\ i + 1 - 1 = i
      BY <1>3
    <3> QED
      BY <1>3, <1>5, <3>1
  <2> QED
    BY <1>5, <2>1, <2>2, SeqEqual DEF Bytes
<1>7. Head(b) = c
  BY <1>3, <1>5
<1> QED
  BY <1>2, <1>6, <1>7 DEF b

\* An offer comes back, and with it what it is of.
LEMMA OfferRead ==
  ASSUME NEW offer \in Offer
  PROVE  /\ OfferBody(offer) \in Bytes
         /\ Len(OfferBody(offer)) \in Word => DecodeOffer(OfferBody(offer)) = offer
<1>1. DIRCODE \in Byte /\ FILECODE \in Byte /\ DIRCODE # FILECODE
  BY CodecAssumption
<1>2. CASE offer \in [isDir : {TRUE}, of : Directory]
  <2> DEFINE s == DirectoryBody(offer.of)
  <2>1. offer.isDir = TRUE /\ offer.of \in Directory /\ offer = [isDir |-> TRUE, of |-> offer.of]
    BY <1>2
  <2>2. OfferBody(offer) = <<DIRCODE>> \o s
    BY <2>1 DEF OfferBody
  <2>3. s \in Bytes /\ (Len(s) \in Word => DecodeDirectory(s) = offer.of)
    BY <2>1, DirectoryRead
  <2> HIDE DEF s
  <2>4. /\ <<DIRCODE>> \o s \in Bytes /\ Len(<<DIRCODE>> \o s) = 1 + Len(s)
        /\ Head(<<DIRCODE>> \o s) = DIRCODE /\ Tail(<<DIRCODE>> \o s) = s
    BY <1>1, <2>3, CodeRead
  <2>5. ASSUME Len(<<DIRCODE>> \o s) \in Word PROVE DecodeOffer(<<DIRCODE>> \o s) = offer
    <3>1. Len(s) \in Nat /\ Len(s) <= 1 + Len(s)
      BY <2>3, LenProperties DEF Bytes
    <3>2. Len(s) \in Word
      BY <2>4, <2>5, <3>1, ShortIsWord
    <3> QED
      BY <2>1, <2>3, <2>4, <3>2 DEF DecodeOffer
  <2> QED
    BY <2>2, <2>4, <2>5
<1>3. CASE offer \in [isDir : {FALSE}, of : File]
  <2> DEFINE s == FileBody(offer.of)
  <2>1. offer.isDir = FALSE /\ offer.of \in File /\ offer = [isDir |-> FALSE, of |-> offer.of]
    BY <1>3
  <2>2. OfferBody(offer) = <<FILECODE>> \o s
    BY <2>1 DEF OfferBody
  <2>3. s \in Bytes /\ (Len(s) \in Word => DecodeFile(s) = offer.of)
    BY <2>1, FileRead
  <2> HIDE DEF s
  <2>4. /\ <<FILECODE>> \o s \in Bytes /\ Len(<<FILECODE>> \o s) = 1 + Len(s)
        /\ Head(<<FILECODE>> \o s) = FILECODE /\ Tail(<<FILECODE>> \o s) = s
    BY <1>1, <2>3, CodeRead
  <2>5. ASSUME Len(<<FILECODE>> \o s) \in Word PROVE DecodeOffer(<<FILECODE>> \o s) = offer
    <3>1. Len(s) \in Nat /\ Len(s) <= 1 + Len(s)
      BY <2>3, LenProperties DEF Bytes
    <3>2. Len(s) \in Word
      BY <2>4, <2>5, <3>1, ShortIsWord
    <3> QED
      BY <1>1, <2>1, <2>3, <2>4, <3>2 DEF DecodeOffer
  <2> QED
    BY <2>2, <2>4, <2>5
<1> QED
  BY <1>2, <1>3 DEF Offer

\* Whatever is said is understood: the body of a message is decoded to it.
LEMMA BodyRead ==
  ASSUME NEW m, IsMessage(m)
  PROVE  /\ Body(m) \in Bytes
         /\ Len(Body(m)) \in Word => Decoded(m.header, Body(m)) = m
<1>1. m.header \in Headers /\ m.value \in Values(m.header)
  BY DEF IsMessage
<1>2. m = [header |-> m.header, value |-> m.value]
  BY DEF IsMessage
<1>3. CASE m.header = "ENCRKEY"
  <2>1. m.value \in Bytes /\ Body(m) = Text(m.value)
    BY <1>1, <1>3 DEF Values, Body
  <2>2. Text(m.value) \in Bytes /\ Len(Text(m.value)) = WORD + Len(m.value) /\ Len(m.value) \in Nat
    BY <2>1, TextIs
  <2>3. ASSUME Len(Text(m.value)) \in Word PROVE TextAt(Text(m.value), 1) = m.value
    <3>1. WORD \in Nat
      BY CodecAssumption
    <3>2. Len(m.value) <= Len(Text(m.value))
      BY <2>2, <3>1
    <3>3. Len(m.value) \in Word
      BY <2>2, <2>3, <3>2, ShortIsWord
    <3>4. Holds(Text(m.value), 1, Text(m.value))
      BY <2>2, HoldsItself
    <3> QED
      BY <2>1, <3>3, <3>4, TextHeld
  <2> QED
    BY <1>2, <1>3, <2>1, <2>2, <2>3 DEF Decoded
<1>4. CASE m.header = "TRANSFEROFFER"
  <2>1. m.value \in Offer /\ Body(m) = OfferBody(m.value)
    BY <1>1, <1>4 DEF Values, Body
  <2> QED
    BY <1>2, <1>4, <2>1, OfferRead DEF Decoded
<1>5. CASE m.header = "FILE"
  <2>1. m.value \in File /\ Body(m) = FileBody(m.value)
    BY <1>1, <1>5 DEF Values, Body
  <2> QED
    BY <1>2, <1>5, <2>1, FileRead DEF Decoded
<1>6. CASE m.header = "FILEBYTES"
  <2>1. m.value \in Piece /\ Body(m) = PieceBody(m.value)
    BY <1>1, <1>6 DEF Values, Body
  <2> QED
    BY <1>2, <1>6, <2>1, PieceRead DEF Decoded
<1>7. CASE m.header = "SYMLINK"
  <2>1. m.value \in Symlink /\ Body(m) = SymlinkBody(m.value)
    BY <1>1, <1>7 DEF Values, Body
  <2> QED
    BY <1>2, <1>7, <2>1, SymlinkRead DEF Decoded
<1>8. CASE m.header \in {"ENDFILE", "ALREADYHAVE"}
  <2>1. m.value \in Word /\ Body(m) = Uint64(m.value)
    BY <1>1, <1>8 DEF Values, Body
  <2>2. Uint64(m.value) \in Bytes
    BY <2>1, NumberRead
  <2>3. NumberAt(Uint64(m.value), 1) = m.value
    BY <2>1, <2>2, HoldsItself, NumberHeld
  <2> QED
    BY <1>2, <1>8, <2>1, <2>2, <2>3 DEF Decoded
<1>9. CASE m.header \notin {"ENCRKEY", "TRANSFEROFFER", "FILE", "FILEBYTES", "SYMLINK",
                           "ENDFILE", "ALREADYHAVE"}
  <2>1. m.value = <<>> /\ Body(m) = <<>>
    BY <1>1, <1>9 DEF Values, Body
  <2>2. <<>> \in Bytes
    BY EmptySeq DEF Bytes
  <2> QED
    BY <1>2, <1>9, <2>1, <2>2 DEF Decoded
<1> QED
  BY <1>3, <1>4, <1>5, <1>6, <1>7, <1>8, <1>9

-----------------------------------------------------------------------------
(* Encryption and packets.                                                 *)

\* A byte that is moved by another and back is what it was.
LEMMA ByteBack ==
  ASSUME NEW a \in Byte, NEW h \in Byte
  PROVE  (a + h) % BASE \in Byte /\ (((a + h) % BASE) + BASE - h) % BASE = a
<1>1. BASE \in Nat \ {0} /\ a \in 0 .. BASE - 1 /\ h \in 0 .. BASE - 1
  BY CodecAssumption DEF Byte
<1>2. CASE a + h < BASE
  <2>1. (0 * BASE + (a + h)) % BASE = a + h
    <3>1. a + h \in 0 .. BASE - 1
      BY <1>1, <1>2
    <3> QED
      BY <1>1, <3>1, DivMod
  <2>2. (1 * BASE + a) % BASE = a
    BY <1>1, DivMod
  <2>3. 0 * BASE + (a + h) = a + h /\ (a + h) + BASE - h = 1 * BASE + a
    BY <1>1
  <2>4. a + h \in 0 .. BASE - 1
    BY <1>1, <1>2
  <2> QED
    BY <2>1, <2>2, <2>3, <2>4 DEF Byte
<1>3. CASE ~(a + h < BASE)
  <2> DEFINE r == a + h - BASE
  <2>1. r \in 0 .. BASE - 1 /\ a + h = 1 * BASE + r /\ r + BASE - h = 0 * BASE + a
    BY <1>1, <1>3
  <2>2. (1 * BASE + r) % BASE = r
    BY <1>1, <2>1, DivMod
  <2>3. (0 * BASE + a) % BASE = a
    BY <1>1, DivMod
  <2> HIDE DEF r
  <2>4. (a + h) % BASE = r
    BY <2>1, <2>2
  <2>5. (r + BASE - h) % BASE = a
    <3>1. 0 * BASE + a = r + BASE - h
      BY <2>1
    <3> QED
      BY <2>3, <3>1
  <2>6. r \in Byte
    BY <2>1 DEF Byte
  <2> QED
    BY <2>4, <2>5, <2>6
<1> QED
  BY <1>2, <1>3

\* What is encrypted can be decrypted, with the same key, and is what it was.
LEMMA EncryptRead ==
  ASSUME NEW k \in Bytes \ {<<>>}, NEW data \in Bytes
  PROVE  /\ Encrypt(k, data) \in Bytes
         /\ Len(Encrypt(k, data)) = NONCE + Len(data) + TAG
         /\ CanDecrypt(k, Encrypt(k, data))
         /\ Decrypt(k, Encrypt(k, data)) = data
<1> DEFINE h == Head(k)
           nonce == [i \in 1 .. NONCE |-> 0]
           inner == [i \in DOMAIN data |-> (data[i] + h) % BASE]
           tag == [i \in 1 .. TAG |-> h]
           front == nonce \o inner
           code == Encrypt(k, data)
<1>1. NONCE \in Nat /\ TAG \in Nat /\ BASE \in Nat \ {0}
  BY CodecAssumption
<1>2. h \in Byte /\ 0 \in Byte
  BY <1>1, HeadTailProperties DEF Bytes, Byte
<1>3. Len(data) \in Nat /\ DOMAIN data = 1 .. Len(data) /\ \A i \in 1 .. Len(data) : data[i] \in Byte
  BY LenProperties, ElementOfSeq DEF Bytes
<1>4. nonce \in Bytes /\ Len(nonce) = NONCE
  <2>1. nonce \in [1 .. NONCE -> Byte]
    BY <1>2
  <2> QED
    BY <1>1, <2>1, FunctionIsSeq DEF Bytes
<1>5. tag \in Bytes /\ Len(tag) = TAG /\ \A i \in 1 .. TAG : tag[i] = h
  <2>1. tag \in [1 .. TAG -> Byte]
    BY <1>2
  <2> HIDE DEF h
  <2> QED
    BY <1>1, <2>1, FunctionIsSeq DEF Bytes
<1> HIDE DEF h
<1>6. inner \in Bytes /\ Len(inner) = Len(data)
      /\ \A i \in 1 .. Len(data) : inner[i] \in Byte /\ (inner[i] + BASE - h) % BASE = data[i]
  <2>1. ASSUME NEW i \in 1 .. Len(data)
        PROVE  inner[i] \in Byte /\ (inner[i] + BASE - h) % BASE = data[i]
    <3>1. data[i] \in Byte /\ inner[i] = (data[i] + h) % BASE
      BY <1>3
    <3> QED
      BY <1>2, <3>1, ByteBack
  <2>2. inner \in [1 .. Len(data) -> Byte]
    BY <1>3, <2>1
  <2> HIDE DEF inner
  <2> QED
    BY <1>3, <2>1, <2>2, FunctionIsSeq DEF Bytes
<1>7. code = front \o tag
  BY DEF Encrypt, h
<1> HIDE DEF nonce, inner, tag, code
<1>8. /\ front \in Bytes /\ Len(front) = NONCE + Len(data)
      /\ code \in Bytes /\ Len(code) = Len(front) + TAG
  BY <1>4, <1>5, <1>6, <1>7, JoinBytes
<1>9. Holds(code, 1, front) /\ Holds(code, 1 + Len(front), tag)
  BY <1>5, <1>7, <1>8, HoldsItself, HoldsParts
<1>10. Holds(code, 1 + NONCE, inner)
  BY <1>4, <1>6, <1>8, <1>9, HoldsParts
<1>11. Len(code) = NONCE + Len(data) + TAG
  BY <1>1, <1>3, <1>8
<1>12. CanDecrypt(k, code)
  <2>1. Len(code) >= NONCE + TAG
    BY <1>1, <1>3, <1>11
  <2>2. ASSUME NEW i \in Len(code) - TAG + 1 .. Len(code) PROVE code[i] = h
    <3>1. \A j \in 1 .. TAG : code[1 + Len(front) + j - 1] = h
      BY <1>5, <1>9 DEF Holds
    <3>2. PICK j \in 1 .. TAG : i = 1 + Len(front) + j - 1
      <4>1. /\ i - Len(front) \in 1 .. TAG
            /\ i = 1 + Len(front) + (i - Len(front)) - 1
        BY <1>1, <1>3, <1>8
      <4> QED
        BY <4>1
    <3> QED
      BY <3>1, <3>2
  <2> QED
    BY <2>1, <2>2 DEF CanDecrypt, h
<1>13. Decrypt(k, code) = data
  <2>1. Len(code) - NONCE - TAG = Len(data)
    BY <1>1, <1>3, <1>11
  <2>2. ASSUME NEW i \in 1 .. Len(data) PROVE (code[i + NONCE] + BASE - h) % BASE = data[i]
    <3>1. code[1 + NONCE + i - 1] = inner[i]
      BY <1>6, <1>10 DEF Holds
    <3>2. 1 + NONCE + i - 1 = i + NONCE
      BY <1>1
    <3> QED
      BY <1>6, <3>1, <3>2
  <2>3. Decrypt(k, code) = [i \in 1 .. Len(data) |-> (code[i + NONCE] + BASE - h) % BASE]
    BY <2>1 DEF Decrypt, h
  <2>4. Decrypt(k, code) = [i \in 1 .. Len(data) |-> data[i]]
    BY <2>2, <2>3
  <2>5. data = [i \in 1 .. Len(data) |-> data[i]]
    BY LenProperties DEF Bytes
  <2> QED
    BY <2>4, <2>5
<1> QED
  BY <1>8, <1>11, <1>12, <1>13 DEF code

\* The packet of a message: its header is one of those, and the body can be
\* decrypted wherever it is encrypted.
LEMMA PacketIs ==
  ASSUME NEW m, IsMessage(m)
  PROVE  /\ Packet(m, Key) \in Packets
         /\ m.header \in Headers /\ Packet(m, Key).Header = HeaderOf[m.header]
         /\ DELIMITER \notin Range(Packet(m, Key).Header)
         /\ m.header = "ENCRKEY" => Packet(m, Key).Body = Body(m)
         /\ m.header # "ENCRKEY" /\ Packet(m, Key).Body # <<>>
              => /\ CanDecrypt(Key, Packet(m, Key).Body)
                 /\ Decrypt(Key, Packet(m, Key).Body) = Body(m)
         /\ m.header # "ENCRKEY" /\ Packet(m, Key).Body = <<>> => Body(m) = <<>>
         /\ Len(Body(m)) <= Len(Packet(m, Key).Body)
<1> DEFINE p == Packet(m, Key)
           body == Body(m)
           code == Encrypt(Key, body)
<1>1. body \in Bytes /\ m.header \in Headers
  BY BodyRead DEF IsMessage
<1>2. p = [Header |-> HeaderOf[m.header],
           Body |-> IF m.header = "ENCRKEY" \/ body = <<>> THEN body ELSE code]
  BY DEF Packet
<1>3. HeaderOf[m.header] \in Bytes /\ DELIMITER \notin Range(HeaderOf[m.header])
  BY <1>1, CodecAssumption
<1>4. Key \in Bytes \ {<<>>}
  BY WireAssumption
<1>5. /\ code \in Bytes /\ Len(code) = NONCE + Len(body) + TAG
      /\ CanDecrypt(Key, code) /\ Decrypt(Key, code) = body
  BY <1>1, <1>4, EncryptRead
<1>6. NONCE \in Nat /\ TAG \in Nat /\ Len(body) \in Nat
  BY <1>1, CodecAssumption, LenProperties DEF Bytes
<1> HIDE DEF p, body, code
<1>7. body # <<>> => code # <<>>
  <2>1. body # <<>> => Len(body) # 0
    BY <1>1, <1>6, EmptySeq DEF Bytes
  <2>2. Len(<<>>) = 0
    BY EmptySeq
  <2> QED
    BY <1>5, <1>6, <2>1, <2>2
<1>8. Len(body) <= Len(p.Body)
  BY <1>2, <1>5, <1>6
<1>9. p \in Packets
  BY <1>1, <1>2, <1>3, <1>5 DEF Packets
<1> QED
  BY <1>1, <1>2, <1>3, <1>5, <1>7, <1>8, <1>9 DEF p, body

\* A packet that fits is understood by the other end: that of the key by one that
\* has none, any other by one that has the key.
LEMMA PacketHeard ==
  ASSUME NEW m, IsMessage(m), Fits(Packet(m, Key)), key \in {<<>>, Key},
         key = <<>> <=> m.header = "ENCRKEY"
  PROVE  /\ Heard(Packet(m, Key)) = m
         /\ Packet(m, Key).Header = HeaderOf["ENCRKEY"] <=> m.header = "ENCRKEY"
<1> DEFINE p == Packet(m, Key)
<1>1. /\ p \in Packets /\ m.header \in Headers /\ p.Header = HeaderOf[m.header]
      /\ Len(Body(m)) <= Len(p.Body) /\ Body(m) \in Bytes
  BY PacketIs, BodyRead
<1>2. Decrypted(p) = Body(m)
  <2>1. CASE m.header = "ENCRKEY"
    BY <2>1, PacketIs DEF Decrypted
  <2>2. CASE m.header # "ENCRKEY"
    BY <2>2, PacketIs DEF Decrypted
  <2> QED
    BY <2>1, <2>2
<1>3. IsInjective(HeaderOf) /\ "ENCRKEY" \in Headers
  BY CodecAssumption, WireAssumption
<1>4. \A g \in Headers : HeaderOf[g] = p.Header <=> g = m.header
  BY <1>1, <1>3 DEF IsInjective, Headers
<1>5. Len(Body(m)) \in Word
  <2>1. Len(p.Header) \in Nat /\ Len(p.Body) \in Nat /\ Len(Body(m)) \in Nat
    BY <1>1, LenProperties DEF Packets, Bytes
  <2>2. Len(p.Header) + 1 + Len(p.Body) <= MAXPACKETSIZE
    BY DEF Fits, Size
  <2>3. MAXPACKETSIZE \in Word /\ MAXPACKETSIZE \in Nat
    BY CodecAssumption, WordIs
  <2>4. Len(Body(m)) <= MAXPACKETSIZE
    <3> DEFINE h == Len(p.Header)
               b == Len(p.Body)
               c == Len(Body(m))
    <3>1. h \in Nat /\ b \in Nat /\ c \in Nat /\ h + 1 + b <= MAXPACKETSIZE /\ c <= b
          /\ MAXPACKETSIZE \in Nat
      BY <1>1, <2>1, <2>2, <2>3
    <3> HIDE DEF h, b, c
    <3>2. c <= MAXPACKETSIZE
      BY <3>1
    <3> QED
      BY <3>2 DEF c
  <2> QED
    BY <2>1, <2>3, <2>4, ShortIsWord
<1>6. Decoded(m.header, Body(m)) = m
  BY <1>5, BodyRead
<1>7. (CHOOSE g \in Headers : HeaderOf[g] = p.Header) = m.header
  BY <1>1, <1>4
<1> QED
  BY <1>2, <1>3, <1>4, <1>6, <1>7 DEF Heard

-----------------------------------------------------------------------------
(* Packets in bytes.                                                       *)

\* The size of a packet that can be sent is a uint64.
LEMMA SendableIs ==
  ASSUME NEW p \in Sendable
  PROVE  Size(p) \in Nat /\ Size(p) <= MAXPACKETSIZE /\ Size(p) \in Word
<1>1. Len(p.Header) \in Nat /\ Len(p.Body) \in Nat
  BY LenProperties DEF Sendable, Packets, Bytes
<1>2. Size(p) <= MAXPACKETSIZE
  BY DEF Sendable, Fits
<1>3. Size(p) \in Nat
  <2> DEFINE h == Len(p.Header)
             b == Len(p.Body)
  <2>1. h \in Nat /\ b \in Nat /\ Size(p) = h + 1 + b
    BY <1>1 DEF Size
  <2> HIDE DEF h, b
  <2> QED
    BY <2>1
<1>4. MAXPACKETSIZE \in Word
  BY CodecAssumption
<1> DEFINE n == Size(p)
<1> HIDE DEF n
<1>5. n \in Nat /\ n <= MAXPACKETSIZE
  BY <1>2, <1>3 DEF n
<1>6. n \in Word
  BY <1>4, <1>5, ShortIsWord
<1> QED
  BY <1>2, <1>3, <1>6 DEF n

\* What is written behind the size.
Frame(p) == (p.Header \o <<DELIMITER>>) \o p.Body

\* A packet is written as its size and, of that many bytes, its frame, from which it
\* is read again.
LEMMA FrameRead ==
  ASSUME NEW p \in Sendable
  PROVE  /\ Frame(p) \in Bytes /\ Len(Frame(p)) = Size(p) /\ Size(p) \in Nat
         /\ ToBytes(p) = Uint64(Size(p)) \o Frame(p)
         /\ ToBytes(p) \in Bytes /\ Len(ToBytes(p)) = WORD + Size(p)
         /\ HasDelimiter(Frame(p))
         /\ BytesToPacket(Frame(p)) = p
<1> DEFINE h == p.Header
           d == <<DELIMITER>>
           b == p.Body
           hd == h \o d
           f == Frame(p)
           u == Uint64(Size(p))
           n == Len(h)
<1>1. h \in Bytes /\ b \in Bytes /\ p = [Header |-> h, Body |-> b] /\ DELIMITER \notin Range(h)
      /\ Size(p) \in Word
  BY SendableIs DEF Sendable, Packets
<1>2. DELIMITER \in Byte
  BY CodecAssumption
<1>3. d \in Bytes /\ Len(d) = 1 /\ d[1] = DELIMITER
  BY <1>2 DEF Bytes
<1>4. Size(p) \in Nat /\ u \in Bytes /\ Len(u) = WORD
  BY <1>1, WordIs, NumberRead
<1>5. f = hd \o b
  BY DEF Frame
<1>6. ToBytes(p) = u \o f
  <2>1. ToBytes(p) = ((u \o h) \o d) \o b
    BY DEF ToBytes
  <2> HIDE DEF u, h, d, b, f
  <2>2. ((u \o h) \o d) \o b = u \o ((h \o d) \o b)
    <3>1. u \in Bytes /\ h \in Bytes /\ d \in Bytes /\ b \in Bytes /\ h \o d \in Bytes
      BY <1>1, <1>3, <1>4, JoinBytes
    <3>2. (u \o h) \o d = u \o (h \o d)
      BY <3>1, JoinOfJoin DEF Bytes
    <3>3. u \in Seq(Byte) /\ hd \in Seq(Byte) /\ b \in Seq(Byte)
      BY <3>1 DEF Bytes
    <3> HIDE DEF hd
    <3>4. (u \o hd) \o b = u \o (hd \o b)
      BY <3>3, JoinOfJoin
    <3> QED
      BY <3>2, <3>4 DEF hd
  <2> QED
    BY <1>5, <2>1, <2>2
<1>7. Size(p) = n + 1 + Len(b)
  BY DEF Size
<1> HIDE DEF h, d, b, f, u, n
<1>8. /\ hd \in Bytes /\ Len(hd) = n + 1 /\ n \in Nat /\ Len(b) \in Nat
      /\ f \in Bytes /\ Len(f) = Len(hd) + Len(b)
  <2>1. hd \in Bytes /\ Len(hd) = Len(h) + Len(d) /\ Len(h) \in Nat
    BY <1>1, <1>3, JoinBytes
  <2> HIDE DEF hd
  <2>2. hd \o b \in Bytes /\ Len(hd \o b) = Len(hd) + Len(b) /\ Len(b) \in Nat
    BY <1>1, <2>1, JoinBytes
  <2> QED
    BY <1>3, <1>5, <2>1, <2>2 DEF n
<1>9. Len(f) = Size(p)
  BY <1>7, <1>8
<1>10. ToBytes(p) \in Bytes /\ Len(ToBytes(p)) = WORD + Size(p)
  BY <1>4, <1>6, <1>8, <1>9, JoinBytes
<1>11. Holds(f, 1, hd) /\ Holds(f, 1 + Len(hd), b)
  BY <1>1, <1>5, <1>8, HoldsItself, HoldsParts
<1>12. Holds(f, 1, h) /\ Holds(f, 1 + n, d)
  BY <1>1, <1>3, <1>8, <1>11, HoldsParts DEF n
<1>13. f[n + 1] = DELIMITER
  <2>1. f[1 + n + 1 - 1] = d[1]
    BY <1>3, <1>12 DEF Holds
  <2>2. 1 + n + 1 - 1 = n + 1
    BY <1>8
  <2> QED
    BY <1>3, <2>1, <2>2
<1>14. \A i \in 1 .. n : f[i] # DELIMITER
  <2>1. ASSUME NEW i \in 1 .. n PROVE f[i] # DELIMITER
    <3>1. f[1 + i - 1] = h[i] /\ 1 + i - 1 = i
      BY <1>12 DEF Holds, n
    <3>2. h[i] \in Range(h)
      BY <1>1, RangeEquality DEF Bytes, n
    <3> QED
      BY <1>1, <3>1, <3>2
  <2> QED
    BY <2>1
<1>15. DOMAIN f = 1 .. n + 1 + Len(b) /\ n + 1 \in DOMAIN f
  <2>1. DOMAIN f = 1 .. Len(f)
    BY <1>8, LenProperties DEF Bytes
  <2> QED
    BY <1>8, <2>1
<1>16. HasDelimiter(f)
  <2>1. f[n + 1] \in Range(f)
    BY <1>15 DEF Range
  <2> QED
    BY <1>13, <2>1 DEF HasDelimiter
<1> DEFINE First(i) == f[i] = DELIMITER /\ \A j \in DOMAIN f : f[j] = DELIMITER => i <= j
           at == CHOOSE i \in DOMAIN f : First(i)
<1>17. at = n + 1
  <2>1. First(n + 1)
    <3>1. ASSUME NEW j \in DOMAIN f, f[j] = DELIMITER PROVE n + 1 <= j
      <4>1. j \in Nat \ {0} /\ ~(j \in 1 .. n)
        BY <1>14, <1>15, <3>1
      <4> QED
        BY <1>8, <4>1
    <3> QED
      BY <1>13, <3>1
  <2>2. \A i \in DOMAIN f : First(i) => i = n + 1
    <3>1. ASSUME NEW i \in DOMAIN f, First(i) PROVE i = n + 1
      <4>1. i <= n + 1 /\ n + 1 <= i
        BY <1>13, <1>15, <2>1, <3>1
      <4> QED
        BY <1>8, <1>15, <4>1
    <3> QED
      BY <3>1
  <2> HIDE DEF First
  <2> QED
    BY <1>15, <2>1, <2>2
<1>18. BytesToPacket(f) = [Header |-> SubSeq(f, 1, at - 1), Body |-> SubSeq(f, at + 1, Len(f))]
  BY DEF BytesToPacket
<1> HIDE DEF at
<1>19. SubSeq(f, 1, at - 1) = h
  <2>1. SubSeq(f, 1, 1 + Len(h) - 1) = h
    BY <1>12, HeldIsCut
  <2>2. 1 + Len(h) - 1 = at - 1
    BY <1>8, <1>17 DEF n
  <2> QED
    BY <2>1, <2>2
<1>20. SubSeq(f, at + 1, Len(f)) = b
  <2>1. SubSeq(f, 1 + Len(hd), 1 + Len(hd) + Len(b) - 1) = b
    BY <1>11, HeldIsCut
  <2>2. 1 + Len(hd) = at + 1 /\ 1 + Len(hd) + Len(b) - 1 = Len(f)
    BY <1>8, <1>17
  <2> QED
    BY <2>1, <2>2
<1>21. BytesToPacket(f) = p
  BY <1>1, <1>18, <1>19, <1>20
<1> QED
  BY <1>4, <1>6, <1>8, <1>9, <1>10, <1>16, <1>21 DEF f, u

\* What SendPiece sends always fits: it keeps free what encryption adds.
LEMMA PieceFits ==
  ASSUME NEW m, IsMessage(m), m.header = "FILEBYTES", Len(m.value.bytes) <= PieceBudget
  PROVE  Fits(Packet(m, Key))
<1> DEFINE piece == m.value
           body == PieceBody(piece)
           code == Encrypt(Key, body)
           h == HeaderOf["FILEBYTES"]
<1>1. piece \in Piece /\ Body(m) = body
  BY DEF IsMessage, Values, Body
<1>2. /\ body \in Bytes /\ Len(body) = WORD + Len(piece.bytes) /\ Len(piece.bytes) \in Nat
  BY <1>1, PieceRead, LenProperties DEF Piece, Bytes
<1>3. Len(code) = NONCE + Len(body) + TAG
  BY <1>2, EncryptRead, WireAssumption
<1>4. Packet(m, Key) = [Header |-> h, Body |-> IF body = <<>> THEN body ELSE code]
  BY <1>1 DEF Packet
<1>5. /\ NONCE \in Nat /\ TAG \in Nat /\ PADDING \in Nat /\ NONCE + TAG <= PADDING
      /\ WORD \in Nat /\ MAXPACKETSIZE \in Nat /\ h \in Bytes
  BY CodecAssumption, WordIs
<1>6. Len(h) \in Nat
  BY <1>5, LenProperties DEF Bytes
<1>7. Len(piece.bytes) <= MAXPACKETSIZE - (Len(h) + 1) - WORD - PADDING
  BY DEF PieceBudget
<1> DEFINE n == Len(h)
           p == Len(piece.bytes)
           b == Len(body)
           c == Len(code)
<1>8. n \in Nat /\ p \in Nat /\ b = WORD + p /\ c = NONCE + b + TAG
      /\ p <= MAXPACKETSIZE - (n + 1) - WORD - PADDING
  BY <1>2, <1>3, <1>6, <1>7
<1> HIDE DEF n, p, b, c
<1>9. n + 1 + b <= MAXPACKETSIZE /\ n + 1 + c <= MAXPACKETSIZE
  BY <1>5, <1>8
<1> HIDE DEF piece, body, code, h
<1>10. CASE body = <<>>
  <2>1. Packet(m, Key).Header = h /\ Packet(m, Key).Body = body
    BY <1>4, <1>10
  <2> QED
    BY <1>9, <2>1 DEF Fits, Size, n, b
<1>11. CASE body # <<>>
  <2>1. Packet(m, Key).Header = h /\ Packet(m, Key).Body = code
    BY <1>4, <1>11
  <2> QED
    BY <1>9, <2>1 DEF Fits, Size, n, c
<1> QED
  BY <1>10, <1>11

\* The packet of whatever can be said can be sent.
LEMMA SayableIs ==
  ASSUME NEW m \in Sayable
  PROVE  /\ IsMessage(m) /\ Fits(Packet(m, Key)) /\ Packet(m, Key) \in Sendable
         /\ m.header = "ENCRKEY" <=> m = KeyMessage
<1>1. IsMessage(m) /\ Fits(Packet(m, Key)) /\ (m.header = "ENCRKEY" <=> m = KeyMessage)
  <2>1. CASE m = KeyMessage
    <3>1. m.header = "ENCRKEY" /\ m.value = Key /\ m = [header |-> "ENCRKEY", value |-> Key]
      BY <2>1 DEF KeyMessage
    <3>2. IsMessage(m)
      BY <3>1, WireAssumption DEF IsMessage, Values
    <3> QED
      BY <2>1, <3>1, <3>2, WireAssumption
  <2>2. CASE m \in Messages
    BY <2>2, WireAssumption DEF KeyMessage
  <2>3. CASE m \in [header : {"FILEBYTES"}, value : Piece] /\ Len(m.value.bytes) <= PieceBudget
    <3>1. m.header = "FILEBYTES" /\ m.value \in Piece /\ m = [header |-> m.header, value |-> m.value]
      BY <2>3
    <3>2. IsMessage(m)
      BY <3>1, CodecAssumption DEF IsMessage, Values
    <3>3. m # KeyMessage
      BY <3>1 DEF KeyMessage
    <3> QED
      BY <2>3, <3>1, <3>2, <3>3, PieceFits
  <2> QED
    BY <2>1, <2>2, <2>3 DEF Sayable
<1>2. Packet(m, Key) \in Packets /\ DELIMITER \notin Range(Packet(m, Key).Header)
  BY <1>1, PacketIs
<1> QED
  BY <1>1, <1>2 DEF Sendable

-----------------------------------------------------------------------------
(* Packets one after the other.                                            *)

\* s is made of a and t.
Parts(s, a, t) == a \in Bytes /\ t \in Bytes /\ s = a \o t

\* What two ways to cut a sequence have in common: the longer first part begins with
\* the shorter one.
LEMMA CutAt ==
  ASSUME NEW s, NEW a, NEW t, Parts(s, a, t), NEW u, NEW w, Parts(s, u, w), Len(a) <= Len(u)
  PROVE  /\ Parts(u, a, SubSeq(u, Len(a) + 1, Len(u)))
         /\ Parts(t, SubSeq(u, Len(a) + 1, Len(u)), w)
<1>1. a \in Bytes /\ t \in Bytes /\ u \in Bytes /\ w \in Bytes /\ a \o t = u \o w
  BY DEF Parts
<1> DEFINE n == Len(a)
           k == Len(u)
           f == SubSeq(u, 1, n)
           v == SubSeq(u, n + 1, k)
<1>2. n \in Nat /\ k \in Nat /\ n <= k /\ Len(t) \in Nat /\ Len(w) \in Nat
  BY <1>1, LenProperties DEF Bytes
<1>3. f \o v = SubSeq(u, 1, k)
  <2>1. 1 \in 1 .. k + 1 /\ n \in 1 - 1 .. k /\ k \in n .. k
    BY <1>2
  <2> HIDE DEF n, v, f
  <2>2. SubSeq(u, 1, n) \o SubSeq(u, n + 1, k) = SubSeq(u, 1, k)
    BY <1>1, <2>1, ConcatAdjacentSubSeq DEF Bytes
  <2> QED
    BY <2>2 DEF f, v
<1>4. SubSeq(u, 1, k) = u
  BY <1>1, SubSeqFull DEF Bytes
<1>5. v \in Bytes
  <2>1. \A i \in n + 1 .. k : u[i] \in Byte
    BY <1>1, <1>2, ElementOfSeq DEF Bytes
  <2> HIDE DEF n, k
  <2>2. n + 1 \in Int /\ k \in Int
    BY <1>2
  <2> QED
    BY <2>1, <2>2, SubSeqProperties DEF Bytes
<1>6. f = a
  <2>1. /\ \A i \in 1 .. n + Len(t) : (a \o t)[i] = IF i <= n THEN a[i] ELSE t[i - n]
        /\ \A i \in 1 .. k + Len(w) : (u \o w)[i] = IF i <= k THEN u[i] ELSE w[i - k]
    BY <1>1, ConcatProperties DEF Bytes
  <2>2. \A i \in 1 .. n : u[i] = a[i] /\ u[i] \in Byte
    <3>1. ASSUME NEW i \in 1 .. n PROVE u[i] = a[i]
      <4>1. i \in 1 .. n + Len(t) /\ i <= n /\ i \in 1 .. k + Len(w) /\ i <= k
        BY <1>2
      <4>2. (a \o t)[i] = a[i] /\ (u \o w)[i] = u[i]
        BY <2>1, <4>1
      <4> QED
        BY <1>1, <4>2
    <3>2. \A i \in 1 .. n : a[i] \in Byte
      BY <1>1, ElementOfSeq DEF Bytes
    <3> QED
      BY <3>1, <3>2
  <2> HIDE DEF n, k
  <2>3. /\ SubSeq(u, 1, n) \in Seq(Byte)
        /\ Len(SubSeq(u, 1, n)) = IF 1 <= n THEN n - 1 + 1 ELSE 0
        /\ \A i \in 1 .. n - 1 + 1 : SubSeq(u, 1, n)[i] = u[1 + i - 1]
    BY <1>2, <2>2, SubSeqProperties
  <2>4. Len(f) = n /\ f \in Seq(Byte)
    BY <1>2, <2>3
  <2>5. \A i \in 1 .. n : f[i] = a[i]
    <3>1. ASSUME NEW i \in 1 .. n PROVE f[i] = u[i]
      <4>1. i \in 1 .. n - 1 + 1 /\ 1 + i - 1 = i
        BY <1>2
      <4> QED
        BY <2>3, <4>1
    <3> QED
      BY <2>2, <3>1
  <2> HIDE DEF f
  <2> QED
    BY <1>1, <2>4, <2>5, SeqEqual DEF Bytes, n
<1> HIDE DEF n, k, f, v
<1>7. u = a \o v
  BY <1>3, <1>4, <1>6
<1>8. t = v \o w
  <2>1. a \in Seq(Byte) /\ v \in Seq(Byte) /\ w \in Seq(Byte) /\ t \in Seq(Byte)
    BY <1>1, <1>5 DEF Bytes
  <2>2. (a \o v) \o w = a \o (v \o w)
    BY <2>1, JoinOfJoin
  <2>3. v \o w \in Seq(Byte)
    BY <2>1, ConcatProperties
  <2>4. a \o t = a \o (v \o w)
    BY <1>1, <1>7, <2>2
  <2>5. \A x \in Seq(Byte), y \in Seq(Byte), z \in Seq(Byte) : x \o y = x \o z => y = z
    BY ConcatSimplifications
  <2> QED
    BY <2>1, <2>3, <2>4, <2>5
<1> QED
  BY <1>1, <1>5, <1>7, <1>8 DEF Parts, v, n, k

\* The bytes of packets, from the first on.
LEMMA FlatIs ==
  /\ Flat[<<>>] = <<>>
  /\ \A ps \in Seq(Sendable) :
       /\ Flat[ps] \in Bytes
       /\ ps # <<>> => Flat[ps] = ToBytes(Head(ps)) \o Flat[Tail(ps)]
<1> DEFINE Sent == Seq(Sendable)
           size == [s \in Sent |-> Len(s)]
           next == [s \in Sent |-> IF s = <<>> THEN s ELSE Tail(s)]
           base == [s \in Sent |-> <<>>]
           step == [p \in Sent \X Bytes |-> IF p[1] = <<>> THEN <<>> ELSE ToBytes(Head(p[1])) \o p[2]]
<1>1. <<>> \in Bytes /\ <<>> \in Sent
  BY EmptySeq DEF Bytes
<1>2. \A s \in Sent : /\ Len(s) \in Nat
                    /\ s # <<>> => /\ Tail(s) \in Sent /\ Len(Tail(s)) < Len(s)
                                   /\ ToBytes(Head(s)) \in Bytes
  <2>1. ASSUME NEW s \in Sent PROVE Len(s) \in Nat
    BY LenProperties
  <2>2. ASSUME NEW s \in Sent, s # <<>>
        PROVE  Tail(s) \in Sent /\ Len(Tail(s)) < Len(s) /\ ToBytes(Head(s)) \in Bytes
    <3>1. Tail(s) \in Sent /\ Len(Tail(s)) = Len(s) - 1 /\ Head(s) \in Sendable
      BY <2>2, HeadTailProperties
    <3> QED
      BY <2>1, <3>1, FrameRead
  <2> QED
    BY <2>1, <2>2
<1>3. /\ size \in [Sent -> Nat] /\ next \in [Sent -> Sent] /\ base \in [Sent -> Bytes]
      /\ \A s \in Sent : s \notin {<<>>} => size[next[s]] < size[s]
  BY <1>1, <1>2
<1>4. step \in [Sent \X Bytes -> Bytes]
  <2>1. ASSUME NEW p \in Sent \X Bytes, p[1] # <<>> PROVE ToBytes(Head(p[1])) \o p[2] \in Bytes
    <3>1. ToBytes(Head(p[1])) \in Bytes /\ p[2] \in Bytes
      BY <1>2, <2>1
    <3> QED
      BY <3>1, JoinBytes
  <2> QED
    BY <1>1, <2>1
<1>5. PICK f \in [Sent -> Bytes] : \A s \in Sent : Recursive(f, s, base, step, next, {<<>>})
  <2> HIDE DEF Sent, size, next, base, step
  <2>1. IsRecursion(Sent, size, next, Bytes, {<<>>}, base, step)
    BY <1>3, <1>4 DEF IsRecursion
  <2> QED
    BY <2>1, RecursionExists
<1>6. ASSUME NEW s \in Sent
      PROVE  f[s] = IF s = <<>> THEN <<>> ELSE ToBytes(Head(s)) \o f[Tail(s)]
  <2>1. Recursive(f, s, base, step, next, {<<>>})
    BY <1>5
  <2>2. CASE s = <<>>
    BY <2>1, <2>2 DEF Recursive
  <2>3. CASE s # <<>>
    <3>1. next[s] = Tail(s) /\ <<s, f[Tail(s)]>> \in Sent \X Bytes
      <4> HIDE DEF Sent
      <4>1. Tail(s) \in Sent
        BY <1>2, <2>3
      <4>2. f[Tail(s)] \in Bytes
        BY <4>1
      <4> QED
        BY <2>3, <4>2
    <3>2. f[s] = step[<<s, f[Tail(s)]>>]
      BY <2>1, <2>3, <3>1 DEF Recursive
    <3> QED
      BY <2>3, <3>1, <3>2
  <2> QED
    BY <2>2, <2>3
<1>7. f = [s \in Sent |-> IF s = <<>> THEN <<>> ELSE ToBytes(Head(s)) \o f[Tail(s)]]
  BY <1>6
<1>8. Flat = [s \in Sent |-> IF s = <<>> THEN <<>> ELSE ToBytes(Head(s)) \o Flat[Tail(s)]]
  BY <1>7 DEF Flat
<1>9. \A s \in Sent : Flat[s] = IF s = <<>> THEN <<>> ELSE ToBytes(Head(s)) \o Flat[Tail(s)]
  BY <1>8
<1>10. \A s \in Sent : Flat[s] \in Bytes
  <2> DEFINE G == {s \in Sent : Flat[s] \in Bytes}
  <2>1. <<>> \in G
    BY <1>1, <1>9
  <2>2. ASSUME NEW s \in Sent, s # <<>>, Tail(s) \in G PROVE s \in G
    <3>1. ToBytes(Head(s)) \in Bytes /\ Flat[Tail(s)] \in Bytes
      BY <1>2, <2>2
    <3>2. ToBytes(Head(s)) \o Flat[Tail(s)] \in Bytes
      BY <3>1, JoinBytes
    <3> QED
      BY <1>9, <2>2, <3>2
  <2> HIDE DEF G
  <2>3. Sent \subseteq G
    BY <2>1, <2>2, TailInduct
  <2> QED
    BY <2>3 DEF G
<1> QED
  BY <1>1, <1>9, <1>10

\* One more packet is written behind the others.
LEMMA FlatAppend ==
  ASSUME NEW p \in Sendable
  PROVE  \A ps \in Seq(Sendable) : Flat[Append(ps, p)] = Flat[ps] \o ToBytes(p)
<1> DEFINE Sent == Seq(Sendable)
           b == ToBytes(p)
           G == {s \in Sent : Flat[Append(s, p)] = Flat[s] \o b}
<1>1. b \in Seq(Byte)
  BY FrameRead DEF Bytes
<1>2. \A s \in Sent : Flat[s] \in Seq(Byte)
  BY FlatIs DEF Bytes
<1> HIDE DEF b
<1>3. <<>> \in G
  <2>1. <<>> \in Sent
    BY EmptySeq
  <2>2. Append(<<>>, p) \in Sent /\ Append(<<>>, p) # <<>>
    BY <2>1, AppendProperties
  <2>3. Head(Append(<<>>, p)) = p /\ Tail(Append(<<>>, p)) = <<>>
    BY <2>1, HeadTailAppend
  <2>4. Flat[Append(<<>>, p)] = ToBytes(p) \o <<>> /\ Flat[<<>>] = <<>>
    BY <2>2, <2>3, FlatIs
  <2>5. b \o <<>> = b /\ <<>> \o b = b
    BY <1>1, ConcatEmptySeq
  <2> QED
    BY <2>1, <2>4, <2>5 DEF b
<1>4. ASSUME NEW s \in Sent, s # <<>>, Tail(s) \in G PROVE s \in G
  <2> DEFINE h == ToBytes(Head(s))
             t == Flat[Tail(s)]
  <2>1. Head(s) \in Sendable /\ Tail(s) \in Sent
    BY <1>4, HeadTailProperties
  <2>2. h \in Seq(Byte) /\ t \in Seq(Byte)
    BY <1>2, <2>1, FrameRead DEF Bytes
  <2>3. Append(s, p) \in Sent /\ Append(s, p) # <<>>
    BY AppendProperties
  <2>4. Head(Append(s, p)) = Head(s) /\ Tail(Append(s, p)) = Append(Tail(s), p)
    BY <1>4, HeadTailAppend
  <2>5. Flat[Append(s, p)] = h \o Flat[Append(Tail(s), p)]
    BY <2>3, <2>4, FlatIs
  <2>6. Flat[s] = h \o t
    BY <1>4, FlatIs
  <2>7. Flat[Append(Tail(s), p)] = t \o b
    BY <1>4
  <2> HIDE DEF h, t
  <2>8. (h \o t) \o b = h \o (t \o b)
    BY <1>1, <2>2, JoinOfJoin
  <2> QED
    BY <2>5, <2>6, <2>7, <2>8
<1> HIDE DEF G
<1>5. Sent \subseteq G
  BY <1>3, <1>4, TailInduct
<1> QED
  BY <1>5 DEF G, b

\* Where a stream's first packet ends.
LEMMA FirstEndIs ==
  ASSUME NEW s \in Bytes, Len(s) >= WORD
  PROVE  NumberAt(s, 1) \in Nat /\ FirstEnd(s) \in Nat /\ FirstEnd(s) >= 1
<1>1. Len(s) \in Nat /\ WORD \in Nat \ {0}
  BY LenProperties, CodecAssumption DEF Bytes
<1>2. \A i \in 1 .. 1 + WORD - 1 : s[i] \in Byte
  BY <1>1, ElementOfSeq DEF Bytes
<1>3. SubSeq(s, 1, 1 + WORD - 1) \in Bytes
  BY <1>1, <1>2, SubSeqProperties DEF Bytes
<1>4. NumberAt(s, 1) \in Nat
  BY <1>3, ValueIs DEF NumberAt
<1> DEFINE n == NumberAt(s, 1)
<1> HIDE DEF n
<1>5. n \in Nat /\ FirstEnd(s) = WORD + n
  BY <1>4 DEF FirstEnd, n
<1>6. FirstEnd(s) \in Nat /\ FirstEnd(s) >= 1
  BY <1>1, <1>5
<1> QED
  BY <1>4, <1>6

\* What comes behind a place, if anything.
LEMMA BehindIs ==
  ASSUME NEW s \in Bytes, NEW e \in Nat
  PROVE  /\ SubSeq(s, e + 1, Len(s)) \in Bytes /\ Len(s) \in Nat
         /\ e <= Len(s) => Len(SubSeq(s, e + 1, Len(s))) = Len(s) - e
<1> DEFINE k == Len(s)
<1>1. k \in Nat /\ \A i \in e + 1 .. k : s[i] \in Byte
  <2>1. k \in Nat
    BY LenProperties DEF Bytes
  <2>2. ASSUME NEW i \in e + 1 .. k PROVE i \in 1 .. k
    BY <2>1
  <2> QED
    BY <2>1, <2>2, ElementOfSeq DEF Bytes
<1> HIDE DEF k
<1>2. e + 1 \in Int /\ k \in Int
  BY <1>1
<1>3. /\ SubSeq(s, e + 1, k) \in Seq(Byte)
      /\ Len(SubSeq(s, e + 1, k)) = IF e + 1 <= k THEN k - (e + 1) + 1 ELSE 0
  BY <1>1, <1>2, SubSeqProperties
<1>4. (e + 1 <= k => k - (e + 1) + 1 = k - e) /\ (e <= k /\ ~(e + 1 <= k) => k - e = 0)
  BY <1>1
<1> QED
  BY <1>1, <1>3, <1>4 DEF Bytes, k

\* The packets of a stream, from the first on.
LEMMA ParsedIs ==
  ASSUME NEW s \in Bytes
  PROVE  /\ ~FirstIsWhole(s) => Parsed[s] = [packets |-> <<>>, remainder |-> Len(s)]
         /\ FirstIsWhole(s) =>
              /\ Parsed[s].packets = <<BytesToPacket(SubSeq(s, WORD + 1, FirstEnd(s)))>>
                                     \o Parsed[SubSeq(s, FirstEnd(s) + 1, Len(s))].packets
              /\ Parsed[s].remainder = Parsed[SubSeq(s, FirstEnd(s) + 1, Len(s))].remainder
<1> DEFINE P == {BytesToPacket(x) : x \in Bytes}
           V == [packets : Seq(P), remainder : Nat]
           B == {x \in Bytes : ~FirstIsWhole(x)}
           Rest(x) == SubSeq(x, FirstEnd(x) + 1, Len(x))
           First(x) == BytesToPacket(SubSeq(x, WORD + 1, FirstEnd(x)))
           size == [x \in Bytes |-> Len(x)]
           next == [x \in Bytes |-> IF FirstIsWhole(x) THEN Rest(x) ELSE x]
           base == [x \in Bytes |-> [packets |-> <<>>, remainder |-> Len(x)]]
           step == [p \in Bytes \X V |->
                      IF FirstIsWhole(p[1])
                        THEN [packets |-> <<First(p[1])>> \o p[2].packets, remainder |-> p[2].remainder]
                        ELSE p[2]]
<1>1. ASSUME NEW x \in Bytes, FirstIsWhole(x)
      PROVE  Rest(x) \in Bytes /\ Len(Rest(x)) < Len(x) /\ First(x) \in P
  <2> DEFINE e == FirstEnd(x)
  <2>1. Len(x) >= WORD /\ Len(x) >= e
    BY <1>1 DEF FirstIsWhole
  <2>2. e \in Nat /\ e >= 1
    BY <2>1, FirstEndIs
  <2>3. WORD \in Nat
    BY CodecAssumption
  <2> HIDE DEF e
  <2>4. /\ SubSeq(x, e + 1, Len(x)) \in Bytes /\ Len(x) \in Nat
        /\ Len(SubSeq(x, e + 1, Len(x))) = Len(x) - e
    BY <2>1, <2>2, BehindIs
  <2>5. SubSeq(x, WORD + 1, e) \in Bytes
    <3>1. ASSUME NEW i \in WORD + 1 .. e PROVE x[i] \in Byte
      <4>1. i \in 1 .. Len(x)
        BY <2>1, <2>2, <2>3, <2>4
      <4> QED
        BY <4>1, ElementOfSeq DEF Bytes
    <3> QED
      BY <2>2, <2>3, <3>1, SubSeqProperties DEF Bytes
  <2> QED
    BY <2>2, <2>4, <2>5 DEF e
<1>2. <<>> \in Seq(P) /\ \A x \in Bytes : Len(x) \in Nat
  BY EmptySeq, LenProperties DEF Bytes
<1> HIDE DEF Rest, First, P
<1>3. /\ size \in [Bytes -> Nat] /\ next \in [Bytes -> Bytes] /\ base \in [Bytes -> V]
      /\ \A x \in Bytes : x \notin B => size[next[x]] < size[x]
  BY <1>1, <1>2
<1>4. step \in [Bytes \X V -> V]
  <2>1. ASSUME NEW p \in Bytes \X V, FirstIsWhole(p[1])
        PROVE  [packets |-> <<First(p[1])>> \o p[2].packets, remainder |-> p[2].remainder] \in V
    <3>1. First(p[1]) \in P /\ p[2].packets \in Seq(P) /\ p[2].remainder \in Nat
      BY <1>1, <2>1
    <3>2. <<First(p[1])>> \in Seq(P)
      BY <3>1
    <3>3. <<First(p[1])>> \o p[2].packets \in Seq(P)
      BY <3>1, <3>2, ConcatProperties
    <3> QED
      BY <3>1, <3>3
  <2> HIDE DEF V
  <2> QED
    BY <2>1
<1>5. PICK f \in [Bytes -> V] : \A x \in Bytes : Recursive(f, x, base, step, next, B)
  <2> HIDE DEF V, B, size, next, base, step
  <2>1. IsRecursion(Bytes, size, next, V, B, base, step)
    BY <1>3, <1>4 DEF IsRecursion
  <2> QED
    BY <2>1, RecursionExists
<1> DEFINE Eq(g, x) == g[x] = IF FirstIsWhole(x)
                                THEN [packets |-> <<First(x)>> \o g[Rest(x)].packets,
                                      remainder |-> g[Rest(x)].remainder]
                                ELSE [packets |-> <<>>, remainder |-> Len(x)]
<1>6. ASSUME NEW x \in Bytes PROVE Eq(f, x)
  <2>1. Recursive(f, x, base, step, next, B)
    BY <1>5
  <2>2. CASE ~FirstIsWhole(x)
    BY <2>1, <2>2 DEF Recursive
  <2>3. CASE FirstIsWhole(x)
    <3>1. next[x] = Rest(x) /\ <<x, f[Rest(x)]>> \in Bytes \X V /\ x \notin B
      BY <1>1, <2>3
    <3>2. f[x] = step[<<x, f[Rest(x)]>>]
      BY <2>1, <3>1 DEF Recursive
    <3> QED
      BY <2>3, <3>1, <3>2
  <2> QED
    BY <2>2, <2>3
<1>7. f = [x \in Bytes |-> IF FirstIsWhole(x)
                             THEN [packets |-> <<First(x)>> \o f[Rest(x)].packets,
                                   remainder |-> f[Rest(x)].remainder]
                             ELSE [packets |-> <<>>, remainder |-> Len(x)]]
  BY <1>6
<1>8. Parsed = [x \in Bytes |-> IF FirstIsWhole(x)
                                  THEN [packets |-> <<First(x)>> \o Parsed[Rest(x)].packets,
                                        remainder |-> Parsed[Rest(x)].remainder]
                                  ELSE [packets |-> <<>>, remainder |-> Len(x)]]
  BY <1>7 DEF Parsed, Rest, First
<1>9. Eq(Parsed, s)
  BY <1>8
<1> QED
  BY <1>9 DEF Rest, First

\* The beginning of the bytes of packets: when a number is there it is the first
\* packet's size, and when that many bytes are there they are its frame.
Begins(ps, u, w) ==
  ps \in Seq(Sendable) /\ ps # <<>> /\ u \in Bytes /\ w \in Bytes /\ u \o w = Flat[ps]

LEMMA FirstOfFlat ==
  ASSUME NEW ps, NEW u, NEW w, Begins(ps, u, w)
  PROVE  /\ Head(ps) \in Sendable /\ Tail(ps) \in Seq(Sendable)
         /\ Len(u) >= WORD =>
              /\ NumberAt(u, 1) = Size(Head(ps))
              /\ SubSeq(u, WORD + 1, Len(u)) \in Bytes
              /\ u = Uint64(Size(Head(ps))) \o SubSeq(u, WORD + 1, Len(u))
         /\ FirstIsWhole(u) <=> Len(u) >= WORD + Size(Head(ps))
         /\ FirstIsWhole(u) =>
              /\ BytesToPacket(SubSeq(u, WORD + 1, FirstEnd(u))) = Head(ps)
              /\ SubSeq(u, FirstEnd(u) + 1, Len(u)) \in Bytes
              /\ SubSeq(u, FirstEnd(u) + 1, Len(u)) \o w = Flat[Tail(ps)]
<1> DEFINE h == Head(ps)
           n == Size(h)
           a == Uint64(n)
           f == Frame(h)
           t == Flat[Tail(ps)]
           af == a \o f
<1> USE DEF Begins
<1>1. h \in Sendable /\ Tail(ps) \in Seq(Sendable)
  BY HeadTailProperties
<1>2. Flat[ps] = ToBytes(h) \o t /\ t \in Bytes
  BY <1>1, FlatIs
<1> HIDE DEF h
<1>3. /\ f \in Bytes /\ Len(f) = n /\ n \in Nat /\ n \in Word
      /\ ToBytes(h) = a \o f /\ BytesToPacket(f) = h
  BY <1>1, FrameRead, SendableIs
<1>4. a \in Bytes /\ Len(a) = WORD /\ WORD \in Nat \ {0}
  BY <1>3, NumberRead, CodecAssumption
<1>5. Len(u) \in Nat /\ Len(w) \in Nat
  BY LenProperties DEF Bytes
<1> HIDE DEF n, a, f, t
<1>6. af \in Bytes /\ Len(af) = WORD + n
  BY <1>3, <1>4, JoinBytes
<1>7. af \o t = u \o w
  BY <1>2, <1>3
<1>8. ASSUME Len(u) >= WORD
      PROVE  /\ NumberAt(u, 1) = n
             /\ SubSeq(u, WORD + 1, Len(u)) \in Bytes
             /\ u = a \o SubSeq(u, WORD + 1, Len(u))
  <2>1. f \o t \in Bytes
    BY <1>2, <1>3, JoinBytes
  <2>2. a \o (f \o t) = u \o w
    <3>1. a \in Seq(Byte) /\ f \in Seq(Byte) /\ t \in Seq(Byte)
      BY <1>2, <1>3, <1>4 DEF Bytes
    <3>2. (a \o f) \o t = a \o (f \o t)
      BY <3>1, JoinOfJoin
    <3> QED
      BY <1>7, <3>2
  <2>3. Len(a) <= Len(u)
    BY <1>4, <1>8
  <2> DEFINE ft == f \o t
             v == SubSeq(u, Len(a) + 1, Len(u))
  <2> HIDE DEF ft
  <2>4. Parts(u \o w, a, ft) /\ Parts(u \o w, u, w)
    BY <1>4, <2>1, <2>2 DEF ft, Parts
  <2>5. Parts(u, a, v)
    BY <2>3, <2>4, CutAt
  <2> HIDE DEF v
  <2>6. v \in Bytes /\ u = a \o v
    BY <2>5 DEF Parts
  <2>7. Holds(u, 1, a \o v)
    BY <2>6, HoldsItself
  <2>8. Holds(u, 1, a)
    BY <1>4, <2>6, <2>7, HoldsParts
  <2>9. NumberAt(u, 1) = n
    BY <1>3, <2>8, NumberHeld DEF a
  <2>10. v = SubSeq(u, WORD + 1, Len(u))
    BY <1>4 DEF v
  <2> QED
    BY <2>6, <2>9, <2>10
<1>9. Len(u) >= WORD => FirstEnd(u) = WORD + n
  BY <1>8 DEF FirstEnd
<1>10. FirstIsWhole(u) <=> Len(u) >= WORD + n
  BY <1>3, <1>4, <1>5, <1>9 DEF FirstIsWhole
<1>11. ASSUME FirstIsWhole(u)
       PROVE  /\ BytesToPacket(SubSeq(u, WORD + 1, FirstEnd(u))) = h
              /\ SubSeq(u, FirstEnd(u) + 1, Len(u)) \in Bytes
              /\ SubSeq(u, FirstEnd(u) + 1, Len(u)) \o w = t
  <2>1. Len(u) >= WORD + n /\ FirstEnd(u) = WORD + n
    BY <1>3, <1>4, <1>5, <1>9, <1>10, <1>11
  <2>2. Len(af) <= Len(u)
    BY <1>6, <2>1
  <2> DEFINE v == SubSeq(u, Len(af) + 1, Len(u))
  <2> HIDE DEF af
  <2>3. Parts(u \o w, af, t) /\ Parts(u \o w, u, w)
    BY <1>2, <1>6, <1>7 DEF Parts
  <2>4. v \in Bytes /\ u = af \o v /\ t = v \o w
    <3>1. Parts(u, af, v) /\ Parts(t, v, w)
      BY <2>2, <2>3, CutAt
    <3> HIDE DEF v
    <3> QED
      BY <3>1 DEF Parts
  <2> HIDE DEF v
  <2>5. v = SubSeq(u, FirstEnd(u) + 1, Len(u))
    BY <1>6, <2>1 DEF v
  <2>6. Holds(u, 1, af \o v)
    BY <2>4, HoldsItself
  <2>7. Holds(u, 1, af)
    BY <1>6, <2>4, <2>6, HoldsParts
  <2>8. Holds(u, 1 + Len(a), f)
    BY <1>3, <1>4, <2>7, HoldsParts DEF af
  <2>9. SubSeq(u, 1 + Len(a), 1 + Len(a) + Len(f) - 1) = f
    BY <2>8, HeldIsCut
  <2>10. 1 + Len(a) = WORD + 1 /\ 1 + Len(a) + Len(f) - 1 = FirstEnd(u)
    BY <1>3, <1>4, <2>1
  <2> QED
    BY <1>3, <2>4, <2>5, <2>9, <2>10
<1> QED
  BY <1>1, <1>8, <1>10, <1>11 DEF h, n, t, a

\* Whatever the beginning of the bytes of packets is, the whole packets in it are the
\* first of them, and nothing is left when they are all there.
LEMMA ParsedOfFlat ==
  ASSUME NEW ps \in Seq(Sendable), NEW u \in Bytes, NEW w \in Bytes, u \o w = Flat[ps]
  PROVE  \E j \in 0 .. Len(ps) :
           /\ Parsed[u].packets = SubSeq(ps, 1, j)
           /\ j = Len(ps) => Parsed[u].remainder = 0
           /\ w = <<>> => j = Len(ps)
<1> DEFINE Sent == Seq(Sendable)
           Right(s, x, y, j) == /\ Parsed[x].packets = SubSeq(s, 1, j)
                                /\ j = Len(s) => Parsed[x].remainder = 0
                                /\ y = <<>> => j = Len(s)
           G == {s \in Sent : \A x \in Bytes, y \in Bytes :
                              x \o y = Flat[s] => \E j \in 0 .. Len(s) : Right(s, x, y, j)}
<1>1. WORD \in Nat \ {0}
  BY CodecAssumption
<1>2. <<>> \in G
  <2>1. <<>> \in Sent /\ Len(<<>>) = 0
    BY EmptySeq
  <2>2. ASSUME NEW x \in Bytes, NEW y \in Bytes, x \o y = Flat[<<>>]
        PROVE  Right(<<>>, x, y, 0)
    <3>1. x = <<>>
      <4>1. x \o y = <<>>
        BY <2>2, FlatIs
      <4> QED
        BY <4>1, ConcatEqualIffEmpty DEF Bytes
    <3>2. ~FirstIsWhole(x)
      BY <1>1, <2>1, <3>1 DEF FirstIsWhole
    <3>3. Parsed[x] = [packets |-> <<>>, remainder |-> 0]
      BY <2>1, <3>1, <3>2, ParsedIs
    <3>4. SubSeq(<<>>, 1, 0) = <<>>
      BY SubSeqEmpty
    <3> QED
      BY <2>1, <3>3, <3>4
  <2>3. 0 \in 0 .. Len(<<>>)
    BY <2>1
  <2> HIDE DEF Sent, Right
  <2> QED
    BY <2>1, <2>2, <2>3
<1>3. ASSUME NEW s \in Sent, s # <<>>, Tail(s) \in G PROVE s \in G
  <2>1. SUFFICES ASSUME NEW x \in Bytes, NEW y \in Bytes, x \o y = Flat[s]
                 PROVE  \E j \in 0 .. Len(s) : Right(s, x, y, j)
    BY <1>3
  <2> DEFINE h == Head(s)
             r == Tail(s)
             e == FirstEnd(x)
             v == SubSeq(x, e + 1, Len(x))
  <2>2. h \in Sendable /\ r \in Sent /\ Len(s) \in Nat /\ Len(r) = Len(s) - 1 /\ Len(s) >= 1
    <3>1. Len(s) \in Nat \ {0}
      BY <1>3, EmptySeq
    <3> QED
      BY <1>3, <3>1, HeadTailProperties
  <2>3. CASE FirstIsWhole(x)
    <3>1. BytesToPacket(SubSeq(x, WORD + 1, e)) = h /\ v \in Bytes /\ v \o y = Flat[r]
      <4>1. Begins(s, x, y)
        BY <1>3, <2>1 DEF Begins
      <4>2. BytesToPacket(SubSeq(x, WORD + 1, e)) = h
        BY <2>3, <4>1, FirstOfFlat
      <4>3. v \in Bytes /\ v \o y = Flat[r]
        BY <2>3, <4>1, FirstOfFlat
      <4> QED
        BY <4>2, <4>3
    <3>2. Parsed[x].packets = <<h>> \o Parsed[v].packets /\ Parsed[x].remainder = Parsed[v].remainder
      BY <2>1, <2>3, <3>1, ParsedIs
    <3> HIDE DEF v, e
    <3>3. PICK j \in 0 .. Len(r) : Right(r, v, y, j)
      <4> HIDE DEF Right
      <4> QED
        BY <1>3, <3>1
    <3> DEFINE k == Len(s)
               q == Len(r)
    <3>4. /\ j + 1 \in 0 .. k /\ (j + 1 = k <=> j = q)
          /\ j \in Nat /\ 1 \in 1 .. k /\ k \in 1 .. k /\ j + 1 \in 1 .. k
          /\ j # 0 => 2 \in 1 .. k /\ 1 \in 1 .. k - 2 + 1 /\ j \in 1 .. k - 2 + 1
      <4>1. k \in Nat /\ q = k - 1 /\ k >= 1 /\ j \in 0 .. q
        BY <2>2
      <4> HIDE DEF k, q
      <4> QED
        BY <4>1
    <3>5. <<h>> \o SubSeq(r, 1, j) = SubSeq(s, 1, j + 1)
      <4>1. 1 \in 1 .. Len(s) /\ j + 1 \in 1 .. Len(s)
        BY <3>4
      <4>2. SubSeq(s, 1, j + 1) = <<s[1]>> \o SubSeq(s, 1 + 1, j + 1)
        BY <4>1, SubSeqRecursiveFirst
      <4>3. Head(SubSeq(s, 1, j + 1)) = s[1] /\ Tail(SubSeq(s, 1, j + 1)) = SubSeq(s, 1 + 1, j + 1)
        BY <4>1, HeadTailOfSubSeq
      <4>4. s[1] = h
        BY <1>3
      <4>5. SubSeq(s, 1 + 1, j + 1) = SubSeq(r, 1, j)
        <5>1. CASE j = 0
          <6>1. SubSeq(s, 1 + 1, j + 1) = <<>> /\ SubSeq(r, 1, j) = <<>>
            BY <5>1, SubSeqEmpty
          <6> QED
            BY <6>1
        <5>2. CASE j # 0
          <6>1. r = SubSeq(s, 2, Len(s))
            BY <1>3, TailIsSubSeq
          <6>2. /\ 2 \in 1 .. Len(s) /\ Len(s) \in 1 .. Len(s)
                /\ 1 \in 1 .. Len(s) - 2 + 1 /\ j \in 1 .. Len(s) - 2 + 1
            BY <3>4, <5>2
          <6>3. SubSeq(SubSeq(s, 2, Len(s)), 1, j) = SubSeq(s, 2 + 1 - 1, 2 + j - 1)
            BY <6>2, SubSeqOfSubSeq
          <6>4. 2 + 1 - 1 = 1 + 1 /\ 2 + j - 1 = j + 1
            BY <3>4
          <6> QED
            BY <6>1, <6>3, <6>4
        <5> QED
          BY <5>1, <5>2
      <4> QED
        BY <4>2, <4>4, <4>5
    <3>6. Right(s, x, y, j + 1)
      BY <3>2, <3>3, <3>4, <3>5
    <3> HIDE DEF Right
    <3> QED
      BY <3>4, <3>6
  <2>4. CASE ~FirstIsWhole(x)
    <3>1. Parsed[x] = [packets |-> <<>>, remainder |-> Len(x)]
      BY <2>1, <2>4, ParsedIs
    <3>2. SubSeq(s, 1, 0) = <<>>
      BY SubSeqEmpty
    <3>3. y # <<>>
      <4>1. SUFFICES ASSUME y = <<>> PROVE FALSE
        OBVIOUS
      <4> DEFINE t == Flat[r]
                 b == ToBytes(h)
      <4>2. x = b \o t /\ b \in Bytes /\ t \in Bytes
        <5>1. x \o <<>> = x
          BY ConcatEmptySeq DEF Bytes
        <5>2. Flat[s] = b \o t /\ t \in Bytes
          BY <1>3, <2>2, FlatIs
        <5> QED
          BY <2>1, <2>2, <4>1, <5>1, <5>2, FrameRead
      <4>3. Len(b) = WORD + Size(h) /\ Size(h) \in Nat
        BY <2>2, FrameRead
      <4> HIDE DEF b, t
      <4>4. Len(x) = Len(b) + Len(t) /\ Len(t) \in Nat
        BY <4>2, JoinBytes
      <4>5. Len(x) >= WORD + Size(h)
        BY <1>1, <4>3, <4>4
      <4>6. FirstIsWhole(x)
        <5>1. Begins(s, x, y)
          BY <1>3, <2>1 DEF Begins
        <5> QED
          BY <4>5, <5>1, FirstOfFlat
      <4> QED
        BY <2>4, <4>6
    <3>4. Right(s, x, y, 0)
      BY <2>2, <3>1, <3>2, <3>3
    <3>5. 0 \in 0 .. Len(s)
      BY <2>2
    <3> HIDE DEF Right
    <3> QED
      BY <3>4, <3>5
  <2> QED
    BY <2>3, <2>4
<1> HIDE DEF G
<1>4. Sent \subseteq G
  BY <1>2, <1>3, TailInduct
<1> QED
  BY <1>4 DEF G

-----------------------------------------------------------------------------
(* The invariant.                                                          *)

\* A prefix is what has something behind it.
LEMMA PrefixIs ==
  ASSUME NEW s \in Bytes, NEW t \in Bytes
  PROVE  IsPrefix(s, t) <=> \E w \in Bytes : t = s \o w
<1> DEFINE n == Len(s)
           k == Len(t)
<1>1. n \in Nat /\ k \in Nat /\ SubSeq(s, 1, n) = s
  BY LenProperties, SubSeqFull DEF Bytes
<1>2. ASSUME IsPrefix(s, t) PROVE \E w \in Bytes : t = s \o w
  <2> DEFINE w == SubSeq(t, n + 1, k)
  <2>1. n <= k /\ s = SubSeq(t, 1, n)
    BY <1>1, <1>2 DEF IsPrefix
  <2>2. w \in Bytes
    BY <1>1, BehindIs
  <2>3. SubSeq(t, 1, n) \o SubSeq(t, n + 1, k) = SubSeq(t, 1, k)
    <3>1. 1 \in 1 .. k + 1 /\ n \in 1 - 1 .. k /\ k \in n .. k
      BY <1>1, <2>1
    <3> HIDE DEF n
    <3> QED
      BY <3>1, ConcatAdjacentSubSeq DEF Bytes
  <2>4. SubSeq(t, 1, k) = t
    BY SubSeqFull DEF Bytes
  <2>5. t = s \o w
    BY <2>1, <2>3, <2>4
  <2> HIDE DEF w
  <2> QED
    BY <2>2, <2>5
<1>3. ASSUME NEW w \in Bytes, t = s \o w PROVE IsPrefix(s, t)
  <2>1. k = n + Len(w) /\ Len(w) \in Nat
    BY <1>3, JoinBytes
  <2>2. Holds(t, 1, s)
    BY <1>3, HoldsItself, HoldsParts
  <2>3. SubSeq(t, 1, 1 + n - 1) = s
    BY <2>2, HeldIsCut
  <2>4. 1 + n - 1 = n /\ n <= k
    BY <1>1, <2>1
  <2> QED
    BY <1>1, <2>3, <2>4 DEF IsPrefix
<1> QED
  BY <1>2, <1>3

\* The packets of what can be said.
LEMMA PacketsOfIs ==
  ASSUME NEW o \in Seq(Sayable)
  PROVE  /\ PacketsOf(o) \in Seq(Sendable) /\ Len(PacketsOf(o)) = Len(o) /\ Len(o) \in Nat
         /\ \A i \in 1 .. Len(o) : PacketsOf(o)[i] = Packet(o[i], Key) /\ o[i] \in Sayable
<1>1. Len(o) \in Nat /\ \A i \in 1 .. Len(o) : o[i] \in Sayable
  BY LenProperties, ElementOfSeq
<1>2. \A i \in 1 .. Len(o) : Packet(o[i], Key) \in Sendable
  BY <1>1, SayableIs
<1>3. PacketsOf(o) \in [1 .. Len(o) -> Sendable]
  BY <1>2 DEF PacketsOf
<1>4. PacketsOf(o) \in Seq(Sendable) /\ Len(PacketsOf(o)) = Len(o)
  BY <1>1, <1>3, FunctionIsSeq
<1> QED
  BY <1>1, <1>4 DEF PacketsOf

\* The packets of o are those of p and then those of c.
Halves(o, p, c) ==
  /\ o \in Seq(Sayable) /\ p \in Seq(Sendable) /\ c \in Seq(Sendable)
  /\ PacketsOf(o) = p \o c

LEMMA HalvesAre ==
  ASSUME NEW o, NEW p, NEW c, Halves(o, p, c)
  PROVE  /\ SubSeq(PacketsOf(o), Len(p) + 1, Len(o)) = c
         /\ Len(o) = Len(p) + Len(c) /\ Len(o) \in Nat /\ Len(p) \in Nat /\ Len(c) \in Nat
<1> DEFINE all == p \o c
           n == Len(p)
           k == Len(c)
<1>1. o \in Seq(Sayable) /\ p \in Seq(Sendable) /\ c \in Seq(Sendable) /\ PacketsOf(o) = all
  BY DEF Halves
<1>2. /\ n \in Nat /\ k \in Nat /\ all \in Seq(Sendable) /\ Len(all) = n + k
      /\ \A i \in 1 .. n + k : all[i] = IF i <= n THEN p[i] ELSE c[i - n]
  BY <1>1, ConcatProperties, LenProperties
<1>3. Len(o) = n + k
  BY <1>1, <1>2, PacketsOfIs
<1> HIDE DEF all, n, k
<1> DEFINE s == SubSeq(all, n + 1, n + k)
<1>4. \A i \in n + 1 .. n + k : all[i] \in Sendable
  <2>1. \A i \in n + 1 .. n + k : i \in 1 .. Len(all)
    BY <1>2
  <2> QED
    BY <1>2, <2>1, ElementOfSeq
<1>5. /\ s \in Seq(Sendable)
      /\ Len(s) = IF n + 1 <= n + k THEN n + k - (n + 1) + 1 ELSE 0
      /\ \A i \in 1 .. n + k - (n + 1) + 1 : s[i] = all[n + 1 + i - 1]
  BY <1>2, <1>4, SubSeqProperties
<1>6. Len(s) = k
  BY <1>2, <1>5
<1>7. \A i \in 1 .. k : s[i] = c[i]
  <2>1. ASSUME NEW i \in 1 .. k PROVE s[i] = c[i]
    <3>1. /\ i \in 1 .. n + k - (n + 1) + 1 /\ n + 1 + i - 1 \in 1 .. n + k
          /\ ~(n + 1 + i - 1 <= n) /\ n + 1 + i - 1 - n = i
      BY <1>2
    <3>2. s[i] = all[n + 1 + i - 1]
      <4>1. i \in 1 .. n + k - (n + 1) + 1
        BY <3>1
      <4> QED
        BY <1>5, <4>1
    <3>3. all[n + 1 + i - 1] = c[i]
      BY <1>2, <3>1
    <3> QED
      BY <3>2, <3>3
  <2> QED
    BY <2>1
<1> HIDE DEF s
<1>8. s = c
  BY <1>1, <1>5, <1>6, <1>7, SeqEqual DEF k
<1> QED
  BY <1>1, <1>2, <1>3, <1>8 DEF s, n, k, all

\* What the invariant says of the packets and the bytes.
LEMMA WInvIs ==
  ASSUME WInv
  PROVE  /\ Halves(owed, pipe, Coming) /\ Coming \in Seq(Sendable)
         /\ Unread \in Bytes /\ Flat[Coming] \in Bytes
         /\ Len(buffer) \in Nat /\ left \in Nat /\ Len(buffer) + left \in Nat
         /\ \E w \in Bytes : Flat[Coming] = Unread \o w
<1>1. TypeOK /\ KeyFirst /\ Framed
  BY DEF WInv
<1>2. owed \in Seq(Sayable) /\ PacketsOf(owed) = pipe \o Coming /\ IsPrefix(Unread, Flat[Coming])
  BY <1>1 DEF KeyFirst, Framed
<1>3. /\ PacketsOf(owed) \in Seq(Sendable) /\ Len(PacketsOf(owed)) = Len(owed) /\ Len(owed) \in Nat
  BY <1>2, PacketsOfIs
<1>4. pipe \in Seq(Packets) /\ bytes \in Bytes /\ buffer \in Bytes /\ left \in Nat
  BY <1>1 DEF TypeOK, Packets
<1>5. Coming \in Seq(Sendable)
  <2> DEFINE all == PacketsOf(owed)
             n == Len(pipe) + 1
             k == Len(owed)
  <2>1. all \in Seq(Sendable) /\ Len(all) = k /\ k \in Nat /\ n \in Nat \ {0}
    <3>1. Len(pipe) \in Nat
      BY <1>4, LenProperties
    <3> QED
      BY <1>3, <3>1
  <2> HIDE DEF all, n, k
  <2>2. \A i \in n .. k : all[i] \in Sendable
    <3>1. \A i \in n .. k : i \in 1 .. Len(all)
      BY <2>1
    <3> QED
      BY <2>1, <3>1, ElementOfSeq
  <2>3. SubSeq(all, n, k) \in Seq(Sendable)
    BY <2>1, <2>2, SubSeqProperties
  <2> QED
    BY <2>3 DEF Coming, all, n, k
<1>6. pipe \in Seq(Sendable)
  <2>1. Sendable \subseteq Packets
    BY DEF Sendable
  <2>2. Coming \in Seq(Packets)
    BY <1>5, <2>1, SeqMonotonic
  <2>3. /\ Len(pipe) \in Nat /\ Len(Coming) \in Nat /\ Len(pipe \o Coming) = Len(pipe) + Len(Coming)
        /\ \A i \in 1 .. Len(pipe) + Len(Coming) :
             (pipe \o Coming)[i] = IF i <= Len(pipe) THEN pipe[i] ELSE Coming[i - Len(pipe)]
    BY <1>4, <2>2, ConcatProperties, LenProperties
  <2>4. pipe \o Coming \in Seq(Sendable)
    BY <1>2, <1>3
  <2>5. ASSUME NEW i \in 1 .. Len(pipe) PROVE pipe[i] \in Sendable
    <3>1. i \in 1 .. Len(pipe) + Len(Coming) /\ i <= Len(pipe)
      BY <2>3
    <3>2. (pipe \o Coming)[i] = pipe[i] /\ i \in 1 .. Len(pipe \o Coming)
      BY <2>3, <3>1
    <3>3. (pipe \o Coming)[i] \in Sendable
      BY <2>4, <3>2, ElementOfSeq
    <3> QED
      BY <3>2, <3>3
  <2>6. pipe \in [1 .. Len(pipe) -> Packets]
    BY <1>4, LenProperties
  <2>7. pipe \in [1 .. Len(pipe) -> Sendable]
    BY <2>5, <2>6
  <2> QED
    BY <2>3, <2>7, FunctionIsSeq
<1>7. Len(buffer) \in Nat /\ Len(buffer) + left \in Nat
  <2>1. Len(buffer) \in Nat
    BY <1>4, LenProperties DEF Bytes
  <2> QED
    BY <1>4, <2>1
<1>8. Unread \in Bytes
  <2>1. <<>> \in Bytes
    BY EmptySeq DEF Bytes
  <2>2. Uint64(Len(buffer) + left) \in Bytes
    BY <1>7, NumberBytes
  <2>3. (Uint64(Len(buffer) + left) \o buffer) \o bytes \in Bytes
    <3> DEFINE u == Uint64(Len(buffer) + left)
    <3> HIDE DEF u
    <3>1. u \o buffer \in Bytes
      BY <1>4, <2>2, JoinBytes DEF u
    <3>2. (u \o buffer) \o bytes \in Bytes
      BY <1>4, <3>1, JoinBytes
    <3> QED
      BY <3>2 DEF u
  <2> QED
    BY <1>1, <1>4, <2>1, <2>3 DEF Unread, TypeOK
<1>9. Flat[Coming] \in Bytes
  BY <1>5, FlatIs
<1>10. \E w \in Bytes : Flat[Coming] = Unread \o w
  BY <1>2, <1>8, <1>9, PrefixIs
<1> QED
  BY <1>2, <1>4, <1>5, <1>6, <1>7, <1>8, <1>9, <1>10 DEF Halves

\* How the next state's part of it is shown.
LEMMA FramedAgain ==
  ASSUME NEW c, Halves(owed', pipe', c), Unread' \in Bytes,
         \E w \in Bytes : Flat[c] = Unread' \o w,
         ~ended' => Unread' = Flat[c]
  PROVE  Framed' /\ Coming' = c /\ owed' \in Seq(Sayable) /\ pipe' \in Seq(Packets)
<1>1. Coming' = c
  BY HalvesAre DEF Coming
<1>2. owed' \in Seq(Sayable) /\ pipe' \in Seq(Sendable) /\ c \in Seq(Sendable)
      /\ PacketsOf(owed') = pipe' \o c
  BY DEF Halves
<1>3. IsPrefix(Unread', Flat[c])
  BY <1>2, FlatIs, PrefixIs
<1>4. pipe' \in Seq(Packets)
  <2>1. Sendable \subseteq Packets
    BY DEF Sendable
  <2> QED
    BY <1>2, <2>1, SeqMonotonic
<1> QED
  BY <1>1, <1>2, <1>3, <1>4 DEF Framed

LEMMA InitWInv == Init => WInv
<1> SUFFICES ASSUME Init PROVE WInv
  OBVIOUS
<1> USE DEF Init
<1>1. <<>> \in Bytes /\ \A X : <<>> \in Seq(X) /\ Len(<<>>) = 0
  BY EmptySeq DEF Bytes
<1>2. TypeOK
  <2>1. MaxSent \in Nat /\ PIPE \in Nat \ {0} /\ MAXPACKETSIZE \in Nat
    BY WireAssumption, CodecAssumption, WordIs
  <2>2. Len(FileContent) \in Nat
    BY WireAssumption, LenProperties DEF Bytes
  <2> DEFINE n == Len(FileContent)
  <2> HIDE DEF n
  <2>3. sent \in 0 .. MaxSent + 1 /\ SentBytes \in 0 .. n
    BY <2>1, <2>2 DEF n
  <2>4. Len(buffer) + left <= MAXPACKETSIZE /\ Len(pipe) <= PIPE /\ left \in Nat
    BY <1>1, <2>1
  <2> QED
    BY <1>1, <2>3, <2>4 DEF TypeOK, n
<1>3. KeyFirst
  BY <1>1 DEF KeyFirst
<1>4. PacketsOf(<<>>) = <<>> /\ Coming = <<>>
  <2>1. <<>> \in Seq(Sayable)
    BY <1>1
  <2>2. PacketsOf(<<>>) = <<>>
    <3> DEFINE none == PacketsOf(<<>>)
    <3>1. none \in Seq(Sendable) /\ Len(none) = Len(<<>>)
      BY <2>1, PacketsOfIs
    <3> HIDE DEF none
    <3>2. none = <<>>
      BY <1>1, <3>1, EmptySeq
    <3> QED
      BY <3>2 DEF none
  <2>3. SubSeq(<<>>, 0 + 1, 0) = <<>>
    BY SubSeqEmpty
  <2> QED
    BY <1>1, <2>2, <2>3 DEF Coming
<1>5. Framed
  <2>1. Flat[<<>>] = <<>> /\ Unread = <<>>
    BY FlatIs DEF Unread
  <2>2. <<>> = <<>> \o <<>>
    BY <1>1, ConcatEmptySeq DEF Bytes
  <2>3. IsPrefix(<<>>, <<>>)
    BY <1>1, <2>2, PrefixIs
  <2> QED
    BY <1>4, <2>1, <2>2, <2>3 DEF Framed
<1>6. InStep
  BY DEF InStep
<1> QED
  BY <1>2, <1>3, <1>5, <1>6 DEF WInv, HeardAsSaid

\* What is said next has the next packet.
LEMMA PacketsOfAppend ==
  ASSUME NEW o \in Seq(Sayable), NEW m \in Sayable
  PROVE  PacketsOf(Append(o, m)) = Append(PacketsOf(o), Packet(m, Key))
<1> DEFINE p == Packet(m, Key)
           old == PacketsOf(o)
           more == Append(o, m)
           new == PacketsOf(more)
           n == Len(o)
<1>1. p \in Sendable
  BY SayableIs
<1>2. /\ more \in Seq(Sayable) /\ Len(more) = n + 1 /\ more[n + 1] = m
      /\ \A i \in 1 .. n : more[i] = o[i]
  BY AppendProperties
<1> HIDE DEF more
<1>3. /\ old \in Seq(Sendable) /\ Len(old) = n /\ n \in Nat
      /\ new \in Seq(Sendable) /\ Len(new) = Len(more)
      /\ \A i \in 1 .. n : old[i] = Packet(o[i], Key)
      /\ \A i \in 1 .. Len(more) : new[i] = Packet(more[i], Key)
  BY <1>2, PacketsOfIs
<1> HIDE DEF old, new, n
<1> DEFINE all == Append(old, p)
<1>4. /\ all \in Seq(Sendable) /\ Len(all) = n + 1
      /\ \A i \in 1 .. n : all[i] = old[i]
      /\ all[n + 1] = p
  BY <1>1, <1>3, AppendProperties
<1> HIDE DEF all
<1>5. ASSUME NEW i \in 1 .. n + 1 PROVE new[i] = all[i]
  <2>1. CASE i = n + 1
    BY <1>2, <1>3, <1>4, <2>1
  <2>2. CASE i # n + 1
    <3>1. i \in 1 .. n /\ i \in 1 .. n + 1
      BY <1>3, <2>2
    <3> QED
      BY <1>2, <1>3, <1>4, <3>1
  <2> QED
    BY <2>1, <2>2
<1>6. new = all
  BY <1>2, <1>3, <1>4, <1>5, SeqEqual
<1> QED
  BY <1>6 DEF new, all, old, more

\* Whatever is sent is owed, and in the connection behind what is there already.
LEMMA SendKeeps ==
  ASSUME WInv, NEW m \in Sayable, SendPacket(m), sent \in 0 .. MaxSent,
         m = KeyMessage <=> sent = 0, SentBytes' \in 0 .. Len(FileContent)
  PROVE  WInv'
<1> DEFINE p == Packet(m, Key)
<1>1. TypeOK /\ KeyFirst /\ Framed /\ InStep /\ HeardAsSaid
  BY DEF WInv
<1>2. /\ sent' = sent + 1
      /\ UNCHANGED <<ended, reading, left, buffer, pipe, key, right>>
  BY DEF SendPacket
<1>3. sent' \in 0 .. MaxSent + 1 /\ sent' # 0
  BY <1>2, WireAssumption
<1>4. CASE ended
  <2>1. UNCHANGED <<bytes, owed>>
    BY <1>4 DEF SendPacket
  <2>2. TypeOK'
    BY <1>1, <1>2, <1>3, <2>1 DEF TypeOK
  <2>3. KeyFirst'
    BY <1>1, <1>2, <1>3, <1>4, <2>1 DEF KeyFirst
  <2>4. Coming' = Coming /\ Unread' = Unread
    BY <1>2, <2>1 DEF Coming, Unread
  <2>5. Framed'
    BY <1>1, <1>2, <1>4, <2>1, <2>4 DEF Framed
  <2>6. InStep'
    BY <1>1, <1>2, <2>1, <2>4 DEF InStep
  <2> QED
    BY <1>1, <1>2, <2>2, <2>3, <2>5, <2>6 DEF WInv, HeardAsSaid
<1>5. CASE ~ended
  <2> DEFINE b == ToBytes(p)
             c == Append(Coming, p)
  <2>1. p \in Sendable /\ Fits(p)
    BY SayableIs
  <2>2. owed' = Append(owed, m) /\ bytes' = bytes \o b
    BY <1>5, <2>1 DEF SendPacket
  <2>3. b \in Bytes /\ bytes \in Bytes /\ buffer \in Bytes /\ left \in Nat
    BY <1>1, <2>1, FrameRead DEF TypeOK
  <2>4. /\ Halves(owed, pipe, Coming) /\ Coming \in Seq(Sendable)
        /\ Unread \in Bytes /\ Len(buffer) + left \in Nat
    BY WInvIs
  <2>5. /\ owed \in Seq(Sayable) /\ pipe \in Seq(Sendable) /\ PacketsOf(owed) = pipe \o Coming
        /\ Len(owed) \in Nat
    BY <2>4, LenProperties DEF Halves
  <2> HIDE DEF p
  <2>6. Halves(owed', pipe', c)
    <3>1. owed' \in Seq(Sayable) /\ c \in Seq(Sendable)
      BY <2>1, <2>2, <2>4, <2>5, AppendProperties
    <3>2. PacketsOf(owed') = Append(PacketsOf(owed), p)
      BY <2>2, <2>5, PacketsOfAppend DEF p
    <3>3. Append(pipe \o Coming, p) = pipe \o c
      <4>1. pipe \o Coming \in Seq(Sendable)
        BY <2>4, <2>5, ConcatProperties
      <4>2. Append(pipe \o Coming, p) = (pipe \o Coming) \o <<p>> /\ c = Coming \o <<p>>
        BY <2>1, <2>4, <4>1, AppendIsConcat
      <4>3. pipe \in Seq(Sendable) /\ Coming \in Seq(Sendable) /\ <<p>> \in Seq(Sendable)
        BY <2>1, <2>4, <2>5
      <4>4. (pipe \o Coming) \o <<p>> = pipe \o (Coming \o <<p>>)
        BY <4>3, PacketsOfJoin
      <4> QED
        BY <4>2, <4>4
    <3>4. pipe' = pipe
      BY <1>2
    <3> QED
      BY <2>5, <3>1, <3>2, <3>3, <3>4 DEF Halves
  <2>7. Unread' = Unread \o b /\ Unread' \in Bytes
    <3>1. reading \in {"size", "body", "packet"}
      BY <1>1, <1>5 DEF InStep, TypeOK
    <3>2. CASE reading = "size"
      <4>1. Unread = bytes /\ Unread' = bytes'
        BY <1>2, <3>2 DEF Unread
      <4> QED
        BY <2>2, <2>3, <4>1, JoinBytes
    <3>3. CASE reading \in {"body", "packet"}
      <4> DEFINE u == Uint64(Len(buffer) + left)
                 ub == u \o buffer
      <4>1. Unread = ub \o bytes /\ Unread' = ub \o bytes'
        BY <1>2, <3>3 DEF Unread
      <4>2. u \in Bytes
        BY <2>4, NumberBytes
      <4> HIDE DEF u
      <4>3. ub \in Bytes
        BY <2>3, <4>2, JoinBytes
      <4> HIDE DEF ub, b
      <4>4. ub \in Seq(Byte) /\ bytes \in Seq(Byte) /\ b \in Seq(Byte)
        BY <2>3, <4>3 DEF Bytes
      <4>5. (ub \o bytes) \o b = ub \o (bytes \o b)
        BY <4>4, JoinOfJoin
      <4>6. Unread' = Unread \o b
        BY <2>2, <4>1, <4>5
      <4> QED
        BY <2>3, <2>4, <4>6, JoinBytes
    <3> QED
      BY <3>1, <3>2, <3>3
  <2>8. Flat[c] = Unread' /\ ended' = ended
    <3>1. Unread = Flat[Coming]
      BY <1>1, <1>5 DEF Framed
    <3>2. Flat[c] = Flat[Coming] \o b
      BY <2>1, <2>4, FlatAppend
    <3> QED
      BY <1>2, <2>7, <3>1, <3>2
  <2>9. \E w \in Bytes : Flat[c] = Unread' \o w
    <3>1. <<>> \in Bytes /\ Unread' \o <<>> = Unread'
      BY <2>7, EmptySeq, ConcatEmptySeq DEF Bytes
    <3> QED
      BY <2>8, <3>1
  <2> HIDE DEF b, c
  <2>10. Framed' /\ Coming' = c /\ owed' \in Seq(Sayable) /\ pipe' \in Seq(Packets)
    BY <2>6, <2>7, <2>8, <2>9, FramedAgain
  <2>11. TypeOK'
    <3>1. bytes' \in Bytes
      BY <2>2, <2>3, JoinBytes
    <3> QED
      BY <1>1, <1>2, <1>3, <3>1 DEF TypeOK
  <2>12. KeyFirst'
    <3>1. Len(owed') = Len(owed) + 1 /\ owed'[Len(owed) + 1] = m
          /\ \A i \in 1 .. Len(owed) : owed'[i] = owed[i]
      BY <2>2, <2>5, AppendProperties
    <3>2. m = KeyMessage <=> Len(owed) + 1 = 1 /\ key = <<>>
      <4>1. CASE sent = 0
        <5>1. owed = <<>> /\ key = <<>> /\ Len(<<>>) = 0
          BY <1>1, <4>1, EmptySeq DEF KeyFirst
        <5> QED
          BY <4>1, <5>1
      <4>2. CASE sent # 0
        <5>1. key = <<>> => owed # <<>>
          BY <1>1, <1>5, <4>2 DEF KeyFirst, TypeOK
        <5>2. owed # <<>> => Len(owed) # 0
          BY <2>5, EmptySeq
        <5> QED
          BY <2>5, <4>2, <5>1, <5>2
      <4> QED
        BY <4>1, <4>2
    <3>3. ASSUME NEW i \in 1 .. Len(owed') PROVE owed'[i] = KeyMessage <=> i = 1 /\ key' = <<>>
      <4>1. CASE i \in 1 .. Len(owed)
        BY <1>1, <1>2, <3>1, <4>1 DEF KeyFirst
      <4>2. CASE i \notin 1 .. Len(owed)
        <5>1. i = Len(owed) + 1
          BY <2>5, <3>1, <4>2
        <5> QED
          BY <1>2, <3>1, <3>2, <5>1
      <4> QED
        BY <4>1, <4>2
    <3>4. owed' # <<>>
      BY <2>2, <2>5, AppendProperties
    <3> QED
      BY <1>3, <2>10, <3>3, <3>4 DEF KeyFirst
  <2>13. InStep'
    <3>1. Coming # <<>> => c # <<>> /\ Head(c) = Head(Coming)
      BY <2>1, <2>4, HeadTailAppend, AppendProperties DEF c
    <3> QED
      BY <1>1, <1>2, <2>10, <3>1 DEF InStep
  <2> QED
    BY <1>1, <1>2, <2>10, <2>11, <2>12, <2>13 DEF WInv, HeardAsSaid
<1> QED
  BY <1>4, <1>5

\* Reading moves nothing that is owed.
LEMMA SameUnread ==
  ASSUME Framed, UNCHANGED <<owed, pipe, ended>>, Unread' = Unread
  PROVE  Framed' /\ Coming' = Coming
<1>1. Coming' = Coming
  BY DEF Coming
<1> QED
  BY <1>1 DEF Framed

LEMMA ReadSizeKeeps ==
  ASSUME WInv, ReadSize
  PROVE  /\ WInv'
         /\ Unread' = Unread \/ (ended /\ Unread = bytes /\ Len(bytes) < WORD /\ Unread' = <<>>)
<1>1. TypeOK /\ KeyFirst /\ Framed /\ InStep /\ HeardAsSaid
  BY DEF WInv
<1>2. reading = "size" /\ UNCHANGED <<sent, SentBytes, ended, pipe, key, owed, right>>
  BY DEF ReadSize
<1>3. Unread = bytes /\ bytes \in Bytes
  BY <1>1, <1>2 DEF Unread, TypeOK
<1>4. PICK w \in Bytes : Flat[Coming] = bytes \o w
  BY <1>3, WInvIs
<1>5. Coming \in Seq(Sendable) /\ Flat[Coming] \in Bytes
  BY WInvIs
<1>6. KeyFirst'
  BY <1>1, <1>2 DEF KeyFirst
<1>7. CASE Len(bytes) >= WORD
  <2> DEFINE n == Size(Head(Coming))
             rest == SubSeq(bytes, WORD + 1, Len(bytes))
  <2>1. Coming # <<>>
    <3>1. SUFFICES ASSUME Coming = <<>> PROVE FALSE
      OBVIOUS
    <3>2. bytes \o w = <<>>
      BY <1>4, <3>1, FlatIs
    <3>3. bytes = <<>>
      BY <1>3, <3>2, ConcatEqualIffEmpty DEF Bytes
    <3>4. Len(bytes) = 0
      BY <3>3, EmptySeq
    <3>5. WORD \in Nat \ {0}
      BY CodecAssumption
    <3> QED
      BY <1>7, <3>4, <3>5
  <2>2. /\ Head(Coming) \in Sendable /\ NumberAt(bytes, 1) = n
        /\ rest \in Bytes /\ bytes = Uint64(n) \o rest
    <3>1. Begins(Coming, bytes, w)
      BY <1>3, <1>4, <1>5, <2>1 DEF Begins
    <3> QED
      BY <1>7, <3>1, FirstOfFlat
  <2>3. n \in Nat /\ n <= MAXPACKETSIZE
    BY <2>2, SendableIs
  <2>4. left' = n /\ buffer' = <<>> /\ bytes' = rest /\ reading' = "body"
    <3>1. ~(Len(bytes) < WORD)
      <4>1. Len(bytes) \in Nat /\ WORD \in Nat
        BY <1>3, LenProperties, CodecAssumption DEF Bytes
      <4> QED
        BY <1>7, <4>1
    <3> QED
      BY <2>2, <3>1 DEF ReadSize
  <2> HIDE DEF n, rest
  <2>5. Len(buffer') + left' = n /\ buffer' \in Bytes
    <3>1. Len(<<>>) = 0 /\ <<>> \in Bytes
      BY EmptySeq DEF Bytes
    <3> QED
      BY <2>3, <2>4, <3>1
  <2>6. Unread' = Unread
    <3>1. Unread' = (Uint64(n) \o <<>>) \o rest
      BY <2>4, <2>5 DEF Unread
    <3>2. Uint64(n) \in Seq(Byte)
      BY <2>3, NumberBytes DEF Bytes
    <3>3. Uint64(n) \o <<>> = Uint64(n)
      BY <3>2, ConcatEmptySeq
    <3> QED
      BY <1>3, <2>2, <3>1, <3>3
  <2>7. Framed' /\ Coming' = Coming
    BY <1>1, <1>2, <2>6, SameUnread
  <2>8. TypeOK'
    BY <1>1, <1>2, <2>2, <2>3, <2>4, <2>5 DEF TypeOK
  <2>9. InStep'
    BY <2>1, <2>4, <2>5, <2>7 DEF InStep, n
  <2> QED
    BY <1>1, <1>2, <1>6, <2>6, <2>7, <2>8, <2>9 DEF WInv, HeardAsSaid
<1>8. CASE ~(Len(bytes) >= WORD)
  <2>1. ended /\ reading' = "closed" /\ UNCHANGED <<left, buffer, bytes>>
    BY <1>8 DEF ReadSize
  <2>2. Unread' = <<>> /\ <<>> \in Bytes
    BY <2>1, EmptySeq DEF Unread, Bytes
  <2>3. Halves(owed', pipe', Coming)
    BY <1>2, WInvIs
  <2>4. Flat[Coming] = <<>> \o Flat[Coming]
    BY <1>5, ConcatEmptySeq DEF Bytes
  <2>5. Framed' /\ Coming' = Coming
    BY <1>2, <1>5, <2>1, <2>2, <2>3, <2>4, FramedAgain
  <2>6. TypeOK'
    BY <1>1, <1>2, <2>1 DEF TypeOK
  <2>7. InStep'
    BY <1>2, <2>1 DEF InStep
  <2>8. Len(bytes) < WORD
    BY <1>8 DEF ReadSize
  <2> QED
    BY <1>1, <1>2, <1>3, <1>6, <2>1, <2>2, <2>5, <2>6, <2>7, <2>8 DEF WInv, HeardAsSaid
<1> QED
  BY <1>7, <1>8

\* The least of three numbers is none above them.
LEMMA MinOfThree ==
  ASSUME NEW a \in Nat, NEW b \in Nat, NEW c \in Nat, NEW n \in 1 .. Min({a, b, c})
  PROVE  n \in Nat /\ n >= 1 /\ n <= a /\ n <= c
<1>1. \E x \in {a, b, c} : \A y \in {a, b, c} : x <= y
  OBVIOUS
<1>2. /\ Min({a, b, c}) \in {a, b, c}
      /\ \A y \in {a, b, c} : Min({a, b, c}) <= y
  BY <1>1 DEF Min
<1> DEFINE m == Min({a, b, c})
<1> HIDE DEF m
<1>3. m \in Nat /\ m <= a /\ m <= c
  BY <1>2 DEF m
<1>4. n \in 1 .. m
  BY DEF m
<1> QED
  BY <1>3, <1>4

\* Bytes are what is before a place and what is behind it.
LEMMA CutBytes ==
  ASSUME NEW s \in Bytes, NEW k \in 0 .. Len(s)
  PROVE  /\ SubSeq(s, 1, k) \in Bytes /\ Len(SubSeq(s, 1, k)) = k
         /\ SubSeq(s, k + 1, Len(s)) \in Bytes
         /\ s = SubSeq(s, 1, k) \o SubSeq(s, k + 1, Len(s))
<1> DEFINE n == Len(s)
<1>1. n \in Nat /\ k \in 0 .. n /\ s \in Seq(Byte)
  BY LenProperties DEF Bytes
<1>2. SubSeq(s, 1, n) = s
  BY <1>1, SubSeqFull
<1>3. SubSeq(s, k + 1, n) \in Bytes
  BY <1>1, BehindIs
<1> HIDE DEF n
<1>4. 1 \in 1 .. n + 1 /\ k \in 1 - 1 .. n /\ n \in k .. n
  BY <1>1
<1>5. SubSeq(s, 1, k) \o SubSeq(s, k + 1, n) = SubSeq(s, 1, n)
  BY <1>1, <1>4, ConcatAdjacentSubSeq DEF n
<1>6. \A i \in 1 .. k : s[i] \in Byte
  <2>1. \A i \in 1 .. k : i \in 1 .. n
    BY <1>1
  <2> QED
    BY <1>1, <2>1, ElementOfSeq DEF n
<1>7. SubSeq(s, 1, k) \in Seq(Byte) /\ Len(SubSeq(s, 1, k)) = k
  BY <1>1, <1>6, SubSeqProperties
<1> QED
  BY <1>2, <1>3, <1>5, <1>7 DEF Bytes, n

LEMMA ReadBodyKeeps ==
  ASSUME WInv, ReadBody
  PROVE  WInv' /\ Unread' = Unread
<1>1. TypeOK /\ KeyFirst /\ Framed /\ InStep /\ HeardAsSaid
  BY DEF WInv
<1>2. reading = "body" /\ UNCHANGED <<sent, SentBytes, ended, reading, pipe, key, owed, right>>
  BY DEF ReadBody
<1>3. PICK read \in 1 .. Min({left, BUFFER, Len(bytes)}) :
         /\ left' = left - read
         /\ buffer' = buffer \o SubSeq(bytes, 1, read)
         /\ bytes' = SubSeq(bytes, read + 1, Len(bytes))
  BY DEF ReadBody
<1>4. /\ bytes \in Bytes /\ buffer \in Bytes /\ left \in Nat
      /\ Len(bytes) \in Nat /\ Len(buffer) \in Nat
  BY <1>1, LenProperties DEF TypeOK, Bytes
<1>5. read \in Nat /\ read >= 1 /\ read <= left /\ read <= Len(bytes)
  <2>1. BUFFER \in Nat
    BY WireAssumption
  <2> QED
    BY <1>4, <2>1, MinOfThree
<1> DEFINE x == SubSeq(bytes, 1, read)
           y == SubSeq(bytes, read + 1, Len(bytes))
           u == Uint64(Len(buffer) + left)
<1>6. x \in Bytes /\ Len(x) = read /\ y \in Bytes /\ bytes = x \o y
  <2>1. read \in 0 .. Len(bytes)
    BY <1>4, <1>5
  <2> QED
    BY <1>4, <2>1, CutBytes
<1>7. buffer' = buffer \o x /\ bytes' = y /\ left' = left - read
  BY <1>3
<1>8. u \in Bytes
  BY <1>4, NumberBytes
<1>9. Unread = (u \o buffer) \o bytes
  BY <1>2 DEF Unread
<1> HIDE DEF x, y
<1>10. /\ buffer' \in Bytes /\ left' \in Nat /\ Len(buffer') + left' = Len(buffer) + left
       /\ bytes' \in Bytes
  <2>1. buffer' \in Bytes /\ Len(buffer') = Len(buffer) + read
    BY <1>4, <1>6, <1>7, JoinBytes
  <2> QED
    BY <1>4, <1>5, <1>6, <1>7, <2>1
<1>11. Unread' = Unread
  <2>1. Unread' = (u \o (buffer \o x)) \o y
    BY <1>2, <1>7, <1>10 DEF Unread
  <2> HIDE DEF u
  <2>2. /\ u \in Seq(Byte) /\ buffer \in Seq(Byte) /\ x \in Seq(Byte) /\ y \in Seq(Byte)
    BY <1>4, <1>6, <1>8 DEF Bytes
  <2>3. u \o (buffer \o x) = (u \o buffer) \o x
    BY <2>2, JoinOfJoin
  <2> DEFINE ub == u \o buffer
  <2>4. ub \in Seq(Byte)
    BY <2>2, ConcatProperties
  <2> HIDE DEF ub
  <2>5. (ub \o x) \o y = ub \o (x \o y)
    BY <2>2, <2>4, JoinOfJoin
  <2> QED
    BY <1>6, <1>9, <2>1, <2>3, <2>5 DEF ub
<1>12. Framed' /\ Coming' = Coming
  BY <1>1, <1>2, <1>11, SameUnread
<1>13. TypeOK'
  BY <1>1, <1>2, <1>10 DEF TypeOK
<1>14. KeyFirst'
  BY <1>1, <1>2 DEF KeyFirst
<1>15. InStep'
  BY <1>1, <1>2, <1>10, <1>12 DEF InStep
<1> QED
  BY <1>1, <1>2, <1>11, <1>12, <1>13, <1>14, <1>15 DEF WInv, HeardAsSaid

\* Once all of a packet has come, the buffer holds its frame, and the bytes are those of
\* the packets behind it.
LEMMA WholeBuffer ==
  ASSUME WInv, reading \in {"body", "packet"}, left = 0
  PROVE  /\ Coming # <<>> /\ Head(Coming) \in Sendable /\ Tail(Coming) \in Seq(Sendable)
         /\ buffer = Frame(Head(Coming))
         /\ \E w \in Bytes : Flat[Tail(Coming)] = bytes \o w
         /\ ~ended => Flat[Tail(Coming)] = bytes
<1> DEFINE h == Head(Coming)
           n == Size(h)
           u == Uint64(n)
           f == Frame(h)
           t == Flat[Tail(Coming)]
           uf == u \o f
           ub == u \o buffer
<1>1. TypeOK /\ Framed /\ InStep
  BY DEF WInv
<1>2. /\ Coming \in Seq(Sendable) /\ Flat[Coming] \in Bytes
      /\ Coming # <<>> /\ Len(buffer) + left = n /\ Len(buffer) \in Nat
      /\ bytes \in Bytes /\ buffer \in Bytes
  BY <1>1, WInvIs DEF InStep, TypeOK
<1>3. h \in Sendable /\ Tail(Coming) \in Seq(Sendable)
  BY <1>2, HeadTailProperties
<1>4. t \in Bytes /\ Flat[Coming] = ToBytes(h) \o t
  BY <1>2, <1>3, FlatIs
<1>5. f \in Bytes /\ Len(f) = n /\ n \in Nat /\ ToBytes(h) = uf
  BY <1>3, FrameRead
<1>6. u \in Bytes /\ Len(u) = WORD /\ WORD \in Nat
  BY <1>5, NumberBytes, CodecAssumption
<1>7. Len(buffer) = n
  BY <1>2
<1>8. Unread = ub \o bytes
  BY <1>2 DEF Unread
<1>9. PICK w \in Bytes : Flat[Coming] = Unread \o w
  BY WInvIs
<1> HIDE DEF h, n, u, f, t
<1>10. /\ uf \in Bytes /\ ub \in Bytes /\ Len(uf) = WORD + n /\ Len(ub) = WORD + n
  <2>1. uf \in Bytes /\ Len(uf) = Len(u) + Len(f)
    BY <1>5, <1>6, JoinBytes
  <2>2. ub \in Bytes /\ Len(ub) = Len(u) + Len(buffer)
    BY <1>2, <1>6, JoinBytes
  <2> QED
    BY <1>5, <1>6, <1>7, <2>1, <2>2
<1>11. Flat[Coming] = ub \o (bytes \o w) /\ bytes \o w \in Bytes
  <2> HIDE DEF ub
  <2>1. ub \in Seq(Byte) /\ bytes \in Seq(Byte) /\ w \in Seq(Byte)
    BY <1>2, <1>10 DEF Bytes
  <2>2. (ub \o bytes) \o w = ub \o (bytes \o w)
    BY <2>1, JoinOfJoin
  <2>3. bytes \o w \in Bytes
    BY <1>2, JoinBytes
  <2> QED
    BY <1>8, <1>9, <2>2, <2>3
<1> HIDE DEF uf, ub
<1> DEFINE bw == bytes \o w
           v == SubSeq(ub, Len(uf) + 1, Len(ub))
<1> HIDE DEF bw
<1>12. Parts(Flat[Coming], uf, t) /\ Parts(Flat[Coming], ub, bw)
  BY <1>4, <1>5, <1>10, <1>11 DEF Parts, bw
<1>13. Len(uf) <= Len(ub)
  BY <1>5, <1>6, <1>10
<1>14. Parts(ub, uf, v) /\ Parts(t, v, bw)
  BY <1>12, <1>13, CutAt
<1>15. v = <<>>
  <2>1. Len(ub) < Len(uf) + 1 /\ Len(uf) + 1 \in Int /\ Len(ub) \in Int
    BY <1>5, <1>6, <1>10
  <2> QED
    BY <2>1, SubSeqEmpty
<1> HIDE DEF v
<1>16. ub = uf /\ t = bytes \o w
  <2>1. ub = uf \o <<>> /\ t = <<>> \o bw /\ uf \in Seq(Byte) /\ bw \in Seq(Byte)
    BY <1>14, <1>15 DEF Parts, Bytes
  <2>2. uf \o <<>> = uf /\ <<>> \o bw = bw
    BY <2>1, ConcatEmptySeq
  <2> QED
    BY <2>1, <2>2 DEF bw
<1>17. buffer = f
  <2>1. \A x \in Seq(Byte), y \in Seq(Byte), z \in Seq(Byte) : x \o y = x \o z => y = z
    BY ConcatSimplifications
  <2>2. u \in Seq(Byte) /\ buffer \in Seq(Byte) /\ f \in Seq(Byte) /\ u \o buffer = u \o f
    BY <1>2, <1>5, <1>6, <1>16 DEF Bytes, uf, ub
  <2> QED
    BY <2>1, <2>2
<1>18. ~ended => t = bytes
  <2>1. SUFFICES ASSUME ~ended PROVE t = bytes
    OBVIOUS
  <2>2. Unread = Unread \o w /\ Unread \in Bytes
    BY <1>1, <1>9, <2>1, WInvIs DEF Framed
  <2>3. w = <<>>
    BY <2>2, ConcatEqualIffEmpty DEF Bytes
  <2>4. bytes \o <<>> = bytes
    BY <1>2, ConcatEmptySeq DEF Bytes
  <2> QED
    BY <1>16, <2>3, <2>4
<1> QED
  BY <1>2, <1>3, <1>16, <1>17, <1>18 DEF h, f, t

LEMMA EndBodyKeeps ==
  ASSUME WInv, EndBody
  PROVE  WInv' /\ Unread' = Unread
<1>1. TypeOK /\ KeyFirst /\ Framed /\ InStep /\ HeardAsSaid
  BY DEF WInv
<1>2. /\ reading = "body" /\ left = 0
      /\ UNCHANGED <<sent, SentBytes, bytes, ended, left, buffer, pipe, key, owed, right>>
      /\ reading' = IF HasDelimiter(buffer) THEN "packet" ELSE "closed"
  BY DEF EndBody
<1>3. buffer = Frame(Head(Coming)) /\ Head(Coming) \in Sendable /\ Coming # <<>>
  BY <1>2, WholeBuffer
<1>4. reading' = "packet"
  BY <1>2, <1>3, FrameRead
<1>5. Unread' = Unread
  BY <1>2, <1>4 DEF Unread
<1>6. Framed' /\ Coming' = Coming
  BY <1>1, <1>2, <1>5, SameUnread
<1>7. TypeOK'
  BY <1>1, <1>2, <1>4 DEF TypeOK
<1>8. KeyFirst'
  BY <1>1, <1>2 DEF KeyFirst
<1>9. InStep'
  BY <1>1, <1>2, <1>4, <1>6 DEF InStep
<1> QED
  BY <1>1, <1>2, <1>5, <1>6, <1>7, <1>8, <1>9 DEF WInv, HeardAsSaid

LEMMA FillPipeKeeps ==
  ASSUME WInv, FillPipe
  PROVE  WInv'
<1> DEFINE h == Head(Coming)
           t == Tail(Coming)
<1>1. TypeOK /\ KeyFirst /\ Framed /\ InStep /\ HeardAsSaid
  BY DEF WInv
<1>2. /\ reading = "packet" /\ Len(pipe) < PIPE
      /\ pipe' = Append(pipe, BytesToPacket(buffer))
      /\ reading' = "size" /\ buffer' = <<>>
      /\ UNCHANGED <<sent, SentBytes, bytes, ended, left, key, owed, right>>
  BY DEF FillPipe
<1>3. left = 0
  BY <1>1, <1>2 DEF InStep
<1>4. /\ buffer = Frame(h) /\ h \in Sendable /\ t \in Seq(Sendable) /\ Coming # <<>>
      /\ \E w \in Bytes : Flat[t] = bytes \o w
      /\ ~ended => Flat[t] = bytes
  BY <1>2, <1>3, WholeBuffer
<1>5. pipe' = Append(pipe, h)
  BY <1>2, <1>4, FrameRead
<1>6. /\ owed \in Seq(Sayable) /\ pipe \in Seq(Sendable) /\ PacketsOf(owed) = pipe \o Coming
      /\ Coming \in Seq(Sendable)
  BY WInvIs DEF Halves
<1>7. Append(pipe, h) \in Seq(Sendable) /\ Append(pipe, h) \o t = pipe \o Coming
  <2>1. Append(pipe, h) \in Seq(Sendable) /\ Append(pipe, h) = pipe \o <<h>>
    BY <1>4, <1>6, AppendProperties, AppendIsConcat
  <2>2. Coming = <<h>> \o t
    BY <1>4, <1>6, HeadAndTail
  <2>3. pipe \in Seq(Sendable) /\ <<h>> \in Seq(Sendable) /\ t \in Seq(Sendable)
    BY <1>4, <1>6
  <2> HIDE DEF h, t
  <2>4. (pipe \o <<h>>) \o t = pipe \o (<<h>> \o t)
    BY <2>3, PacketsOfJoin
  <2> QED
    BY <2>1, <2>2, <2>4
<1>8. Halves(owed', pipe', t)
  BY <1>2, <1>4, <1>5, <1>6, <1>7 DEF Halves
<1>9. Unread' = bytes /\ bytes \in Bytes
  BY <1>1, <1>2 DEF Unread, TypeOK
<1> HIDE DEF t
<1>10. Framed' /\ Coming' = t /\ pipe' \in Seq(Packets)
  BY <1>2, <1>4, <1>8, <1>9, FramedAgain
<1>11. TypeOK'
  <2>1. Len(pipe') = Len(pipe) + 1 /\ Len(pipe) \in Nat
    BY <1>4, <1>5, <1>6, AppendProperties, LenProperties
  <2>2. Len(pipe') <= PIPE
    <3>1. PIPE \in Nat
      BY WireAssumption
    <3> QED
      BY <1>2, <2>1, <3>1
  <2>3. buffer' \in Bytes /\ Len(buffer') + left' <= MAXPACKETSIZE /\ left' = 0
    <3>1. <<>> \in Bytes /\ Len(<<>>) = 0
      BY EmptySeq DEF Bytes
    <3>2. MAXPACKETSIZE \in Nat
      BY CodecAssumption, WordIs
    <3> QED
      BY <1>2, <1>3, <3>1, <3>2
  <2> QED
    BY <1>1, <1>2, <1>10, <2>2, <2>3 DEF TypeOK, Packets
<1>12. KeyFirst'
  BY <1>1, <1>2 DEF KeyFirst
<1>13. InStep'
  BY <1>2 DEF InStep
<1> QED
  BY <1>1, <1>2, <1>10, <1>11, <1>12, <1>13 DEF WInv, HeardAsSaid

\* The first packet in the pipe is that of the first message that is owed.
LEMMA FirstInPipe ==
  ASSUME WInv, pipe # <<>>
  PROVE  /\ owed \in Seq(Sayable) /\ owed # <<>> /\ Head(owed) \in Sayable /\ Len(owed) \in Nat
         /\ Head(owed) = owed[1] /\ 1 \in 1 .. Len(owed)
         /\ Head(pipe) = Packet(Head(owed), Key)
         /\ Head(owed) = KeyMessage <=> key = <<>>
<1>1. /\ owed \in Seq(Sayable) /\ pipe \in Seq(Sendable) /\ Coming \in Seq(Sendable)
      /\ PacketsOf(owed) = pipe \o Coming
  BY WInvIs DEF Halves
<1>2. Len(pipe) \in Nat \ {0} /\ Len(Coming) \in Nat
  BY <1>1, EmptySeq, LenProperties
<1>3. Len(owed) = Len(pipe) + Len(Coming) /\ Len(owed) \in Nat
  <2>1. Halves(owed, pipe, Coming)
    BY WInvIs
  <2> QED
    BY <2>1, HalvesAre
<1>4. 1 \in 1 .. Len(owed) /\ 1 \in 1 .. Len(pipe) + Len(Coming) /\ 1 <= Len(pipe)
  BY <1>2, <1>3
<1>5. owed # <<>>
  <2>1. Len(<<>>) = 0
    BY EmptySeq
  <2> QED
    BY <1>4, <2>1
<1>6. Head(owed) \in Sayable /\ Head(owed) = owed[1]
  BY <1>1, <1>5, HeadTailProperties
<1>7. Head(pipe) = Packet(Head(owed), Key)
  <2>1. (pipe \o Coming)[1] = pipe[1]
    BY <1>1, <1>4, ConcatProperties
  <2>2. PacketsOf(owed)[1] = Packet(owed[1], Key)
    BY <1>1, <1>4, PacketsOfIs
  <2>3. Head(pipe) = pipe[1]
    BY <1>1
  <2> QED
    BY <1>1, <1>6, <2>1, <2>2, <2>3
<1>8. Head(owed) = KeyMessage <=> key = <<>>
  BY <1>4, <1>6 DEF WInv, KeyFirst
<1> QED
  BY <1>1, <1>3, <1>4, <1>5, <1>6, <1>7, <1>8

LEMMA TakePacketKeeps ==
  ASSUME WInv, TakePacket
  PROVE  WInv'
<1> DEFINE m == Head(owed)
           p == Head(pipe)
<1>1. TypeOK /\ KeyFirst /\ Framed /\ InStep /\ HeardAsSaid
  BY DEF WInv
<1>2. /\ pipe # <<>>
      /\ right' = (right /\ owed # <<>> /\ Heard(p) = m)
      /\ key' = IF p.Header = HeaderOf["ENCRKEY"] THEN Heard(p).value ELSE key
      /\ pipe' = Tail(pipe) /\ owed' = Tail(owed)
      /\ UNCHANGED <<sent, SentBytes, bytes, ended, reading, left, buffer>>
  BY DEF TakePacket
<1>3. /\ owed \in Seq(Sayable) /\ owed # <<>> /\ m \in Sayable /\ Len(owed) \in Nat
      /\ m = owed[1] /\ 1 \in 1 .. Len(owed)
      /\ p = Packet(m, Key)
      /\ m = KeyMessage <=> key = <<>>
  BY <1>2, FirstInPipe
<1>4. key \in {<<>>, Key} /\ Key # <<>>
  BY <1>1, WireAssumption DEF TypeOK
<1>5. Heard(p) = m /\ (p.Header = HeaderOf["ENCRKEY"] <=> m.header = "ENCRKEY")
  <2>1. IsMessage(m) /\ Fits(Packet(m, Key)) /\ (m.header = "ENCRKEY" <=> m = KeyMessage)
    BY <1>3, SayableIs
  <2>2. key = <<>> <=> m.header = "ENCRKEY"
    BY <1>3, <2>1
  <2> HIDE DEF m, p
  <2> QED
    BY <1>3, <1>4, <2>1, <2>2, PacketHeard
<1>6. right' = TRUE /\ key' = Key
  <2>1. right' = TRUE
    BY <1>1, <1>2, <1>3, <1>5 DEF HeardAsSaid
  <2>2. m.header = "ENCRKEY" <=> m = KeyMessage
    BY <1>3, SayableIs
  <2>3. KeyMessage.value = Key
    BY DEF KeyMessage
  <2> QED
    BY <1>2, <1>3, <1>4, <1>5, <2>1, <2>2, <2>3
<1>7. /\ pipe \in Seq(Sendable) /\ Coming \in Seq(Sendable) /\ PacketsOf(owed) = pipe \o Coming
      /\ Unread \in Bytes /\ \E w \in Bytes : Flat[Coming] = Unread \o w
  BY WInvIs DEF Halves
<1> HIDE DEF m, p
<1>8. Tail(owed) \in Seq(Sayable) /\ Len(Tail(owed)) = Len(owed) - 1
      /\ \A i \in 1 .. Len(owed) - 1 : Tail(owed)[i] = owed[i + 1]
  BY <1>3, HeadTailProperties
<1>9. Tail(pipe) \in Seq(Sendable) /\ Len(Tail(pipe)) = Len(pipe) - 1
      /\ \A i \in 1 .. Len(pipe) - 1 : Tail(pipe)[i] = pipe[i + 1]
  BY <1>2, <1>7, HeadTailProperties
<1>10. Len(pipe) \in Nat /\ Len(pipe) >= 1
  <2>1. Len(pipe) \in Nat \ {0}
    BY <1>2, <1>7, EmptySeq
  <2> QED
    BY <2>1
<1>11. PacketsOf(Tail(owed)) = Tail(pipe) \o Coming
  <2> DEFINE n == Len(pipe)
             k == Len(Coming)
             old == PacketsOf(owed)
             new == PacketsOf(Tail(owed))
             tc == Tail(pipe) \o Coming
  <2>1. /\ n \in Nat /\ n >= 1 /\ k \in Nat /\ Len(owed) = n + k
    <3>1. Len(owed) = n + k /\ k \in Nat
      <4>1. Halves(owed, pipe, Coming)
        BY WInvIs
      <4> QED
        BY <4>1, HalvesAre
    <3> QED
      BY <1>10, <3>1
  <2>2. /\ new \in Seq(Sendable) /\ Len(new) = Len(Tail(owed))
        /\ \A i \in 1 .. Len(Tail(owed)) : new[i] = Packet(Tail(owed)[i], Key)
    BY <1>8, PacketsOfIs
  <2>3. \A i \in 1 .. Len(owed) : old[i] = Packet(owed[i], Key)
    BY <1>3, PacketsOfIs
  <2>4. \A i \in 1 .. n + k : old[i] = IF i <= n THEN pipe[i] ELSE Coming[i - n]
    BY <1>7, ConcatProperties
  <2>5. /\ tc \in Seq(Sendable) /\ Len(tc) = Len(Tail(pipe)) + k
        /\ \A i \in 1 .. Len(Tail(pipe)) + k :
             tc[i] = IF i <= Len(Tail(pipe)) THEN Tail(pipe)[i] ELSE Coming[i - Len(Tail(pipe))]
    BY <1>7, <1>9, ConcatProperties
  <2> HIDE DEF n, k, old, new, tc
  <2>6. ASSUME NEW i \in 1 .. n + k - 1 PROVE new[i] = tc[i]
    <3>1. /\ i \in 1 .. Len(owed) - 1 /\ i + 1 \in 1 .. Len(owed) /\ i + 1 \in 1 .. n + k
          /\ i \in 1 .. n - 1 + k /\ (i + 1 <= n <=> i <= n - 1) /\ i - (n - 1) = (i + 1) - n
      BY <2>1
    <3>2. new[i] = old[i + 1]
      BY <1>8, <2>2, <2>3, <3>1
    <3>3. old[i + 1] = IF i + 1 <= n THEN pipe[i + 1] ELSE Coming[(i + 1) - n]
      <4> DEFINE j == i + 1
      <4>1. j \in 1 .. n + k
        BY <3>1
      <4> HIDE DEF j
      <4>2. old[j] = IF j <= n THEN pipe[j] ELSE Coming[j - n]
        BY <2>4, <4>1
      <4> QED
        BY <4>2 DEF j
    <3>4. tc[i] = IF i <= n - 1 THEN Tail(pipe)[i] ELSE Coming[i - (n - 1)]
      BY <1>9, <2>5, <3>1 DEF n
    <3>5. CASE i <= n - 1
      <4>1. i \in 1 .. Len(pipe) - 1
        BY <2>1, <3>5 DEF n
      <4>2. Tail(pipe)[i] = pipe[i + 1]
        BY <1>9, <4>1
      <4>3. new[i] = pipe[i + 1]
        BY <3>1, <3>2, <3>3, <3>5
      <4>4. tc[i] = Tail(pipe)[i]
        BY <3>4, <3>5
      <4> QED
        BY <4>2, <4>3, <4>4
    <3>6. CASE ~(i <= n - 1)
      BY <3>1, <3>2, <3>3, <3>4, <3>6
    <3> QED
      BY <3>5, <3>6
  <2>7. Len(new) = n + k - 1 /\ Len(tc) = n + k - 1
    BY <1>8, <1>9, <2>1, <2>2, <2>5 DEF n
  <2>8. new = tc
    BY <2>2, <2>5, <2>6, <2>7, SeqEqual
  <2> QED
    BY <2>8 DEF new, tc
<1>12. Halves(owed', pipe', Coming)
  BY <1>2, <1>7, <1>8, <1>9, <1>11 DEF Halves
<1>13. Unread' = Unread
  BY <1>2 DEF Unread
<1>14. ~ended' => Unread' = Flat[Coming]
  BY <1>1, <1>2, <1>13 DEF Framed
<1>15. Framed' /\ Coming' = Coming /\ pipe' \in Seq(Packets)
  BY <1>7, <1>12, <1>13, <1>14, FramedAgain
<1>16. TypeOK'
  <2>1. Len(pipe') <= PIPE
    <3>1. Len(pipe) <= PIPE /\ PIPE \in Nat
      BY <1>1, WireAssumption DEF TypeOK
    <3> QED
      BY <1>2, <1>9, <1>10, <3>1
  <2> QED
    BY <1>1, <1>2, <1>6, <1>15, <2>1 DEF TypeOK, Packets
<1>17. KeyFirst'
  <2>1. sent' # 0
    BY <1>1, <1>2, <1>3 DEF KeyFirst
  <2>2. ASSUME NEW i \in 1 .. Len(owed') PROVE owed'[i] # KeyMessage
    <3>1. i \in 1 .. Len(owed) - 1 /\ i + 1 \in 1 .. Len(owed) /\ i + 1 # 1
      BY <1>2, <1>3, <1>8
    <3>2. owed'[i] = owed[i + 1]
      BY <1>2, <1>8, <3>1
    <3> QED
      BY <1>1, <3>1, <3>2 DEF KeyFirst
  <2> QED
    BY <1>2, <1>4, <1>6, <1>8, <2>1, <2>2 DEF KeyFirst
<1>18. InStep'
  BY <1>1, <1>2, <1>15 DEF InStep
<1> QED
  BY <1>6, <1>15, <1>16, <1>17, <1>18 DEF WInv, HeardAsSaid

LEMMA EndConnectionKeeps ==
  ASSUME WInv, EndConnection
  PROVE  /\ WInv' /\ Coming' = Coming
<1>1. TypeOK /\ KeyFirst /\ Framed /\ InStep /\ HeardAsSaid
  BY DEF WInv
<1>2. /\ ~ended /\ ended' = TRUE
      /\ UNCHANGED <<sent, SentBytes, reading, left, buffer, pipe, key, owed, right>>
  BY DEF EndConnection
<1>3. PICK k \in 0 .. Len(bytes) : bytes' = SubSeq(bytes, 1, k)
  BY DEF EndConnection
<1> DEFINE y == SubSeq(bytes, k + 1, Len(bytes))
<1>4. bytes \in Bytes /\ buffer \in Bytes /\ reading \in {"size", "body", "packet"}
  BY <1>1, <1>2 DEF TypeOK, InStep
<1>5. bytes' \in Bytes /\ y \in Bytes /\ bytes = bytes' \o y
  BY <1>3, <1>4, CutBytes
<1> HIDE DEF y
<1>6. /\ Halves(owed, pipe, Coming) /\ Len(buffer) + left \in Nat
      /\ Unread \in Bytes
  BY WInvIs
<1>7. Unread = Flat[Coming]
  BY <1>1, <1>2 DEF Framed
<1>8. Unread' \in Bytes /\ Unread = Unread' \o y
  <2>1. CASE reading = "size"
    <3>1. Unread = bytes /\ Unread' = bytes'
      BY <1>2, <2>1 DEF Unread
    <3> QED
      BY <1>5, <3>1
  <2>2. CASE reading \in {"body", "packet"}
    <3> DEFINE u == Uint64(Len(buffer) + left)
               ub == u \o buffer
    <3>1. Unread = ub \o bytes /\ Unread' = ub \o bytes'
      BY <1>2, <2>2 DEF Unread
    <3>2. u \in Bytes
      BY <1>6, NumberBytes
    <3> HIDE DEF u
    <3>3. ub \in Bytes
      BY <1>4, <3>2, JoinBytes
    <3> HIDE DEF ub
    <3>4. ub \in Seq(Byte) /\ bytes' \in Seq(Byte) /\ y \in Seq(Byte)
      BY <1>5, <3>3 DEF Bytes
    <3>5. (ub \o bytes') \o y = ub \o (bytes' \o y)
      BY <3>4, JoinOfJoin
    <3>6. ub \o bytes' \in Bytes
      BY <3>4, ConcatProperties DEF Bytes
    <3> QED
      BY <1>5, <3>1, <3>5, <3>6
  <2> QED
    BY <1>4, <2>1, <2>2
<1>9. Halves(owed', pipe', Coming)
  BY <1>2, <1>6
<1>10. Framed' /\ Coming' = Coming
  <2>1. \E w \in Bytes : Flat[Coming] = Unread' \o w
    BY <1>5, <1>7, <1>8
  <2> QED
    BY <1>2, <1>8, <1>9, <2>1, FramedAgain
<1>11. TypeOK'
  BY <1>1, <1>2, <1>5 DEF TypeOK
<1>12. KeyFirst'
  BY <1>1, <1>2 DEF KeyFirst
<1>13. InStep'
  BY <1>1, <1>2, <1>10 DEF InStep
<1> QED
  BY <1>1, <1>2, <1>10, <1>11, <1>12, <1>13 DEF WInv, HeardAsSaid

-----------------------------------------------------------------------------
(* Every step, and the theorems.                                           *)

\* What each of the sending steps says may be said, and is the key only if it is first.
LEMMA WhatIsSent ==
  ASSUME WInv, SendEncryptionKey \/ (\E message \in Messages : Send(message)) \/ SendPiece
  PROVE  \E m \in Sayable :
           /\ SendPacket(m) /\ sent \in 0 .. MaxSent /\ SentBytes' \in 0 .. Len(FileContent)
           /\ m = KeyMessage <=> sent = 0
<1>1. /\ sent \in 0 .. MaxSent + 1 /\ SentBytes \in 0 .. Len(FileContent)
      /\ MaxSent \in Nat /\ Len(FileContent) \in Nat /\ FileContent \in Seq(Byte)
  BY WireAssumption, LenProperties DEF WInv, TypeOK, Bytes
<1>2. CASE SendEncryptionKey
  BY <1>1, <1>2 DEF SendEncryptionKey, Sayable
<1>3. CASE \E message \in Messages : Send(message)
  <2>1. PICK m \in Messages : Send(m)
    BY <1>3
  <2>2. m.header # "ENCRKEY" /\ KeyMessage.header = "ENCRKEY"
    BY WireAssumption DEF KeyMessage
  <2> QED
    BY <1>1, <2>1, <2>2 DEF Send, MaySend, Sayable
<1>4. CASE SendPiece
  <2> DEFINE n == PieceLength
             b == SubSeq(FileContent, SentBytes + 1, SentBytes + n)
             m == [header |-> "FILEBYTES", value |-> [ID |-> FileID, bytes |-> b]]
  <2>1. /\ SendPacket(m) /\ SentBytes' = SentBytes + n /\ sent \in 1 .. MaxSent
    BY <1>4 DEF SendPiece, MaySend
  <2>2. PieceBudget \in Nat
    <3> DEFINE h == Len(HeaderOf["FILEBYTES"])
    <3>1. h \in Nat
      BY CodecAssumption, LenProperties DEF Bytes
    <3> HIDE DEF h
    <3>2. MAXPACKETSIZE \in Nat /\ WORD \in Nat /\ PADDING \in Nat /\ h + 1 + WORD + PADDING < MAXPACKETSIZE
      BY CodecAssumption, WordIs DEF h
    <3> QED
      BY <3>1, <3>2 DEF PieceBudget, h
  <2>3. n \in Nat /\ n <= PieceBudget /\ SentBytes + n <= Len(FileContent)
    <3> DEFINE k == Len(FileContent)
    <3>1. n = IF k - SentBytes < PieceBudget THEN k - SentBytes ELSE PieceBudget
      BY DEF PieceLength
    <3> HIDE DEF k, n
    <3>2. k \in Nat /\ SentBytes \in 0 .. k
      BY <1>1 DEF k
    <3>3. n \in Nat /\ n <= PieceBudget /\ SentBytes + n <= k
      BY <2>2, <3>1, <3>2
    <3> QED
      BY <3>3 DEF k
  <2> HIDE DEF n
  <2>4. b \in Bytes /\ Len(b) = n
    <3>1. \A i \in SentBytes + 1 .. SentBytes + n : FileContent[i] \in Byte
      <4>1. \A i \in SentBytes + 1 .. SentBytes + n : i \in 1 .. Len(FileContent)
        BY <1>1, <2>3
      <4> QED
        BY <1>1, <4>1, ElementOfSeq
    <3>2. SentBytes + 1 \in Int /\ SentBytes + n \in Int
      BY <1>1, <2>3
    <3>3. /\ b \in Seq(Byte)
          /\ Len(b) = IF SentBytes + 1 <= SentBytes + n
                        THEN (SentBytes + n) - (SentBytes + 1) + 1 ELSE 0
      BY <3>1, <3>2, SubSeqProperties
    <3> HIDE DEF b
    <3> QED
      BY <1>1, <2>3, <3>3 DEF Bytes
  <2>5. m \in Sayable
    <3>1. m.value \in Piece /\ Len(m.value.bytes) <= PieceBudget
      <4>1. FileID \in Word
        BY WireAssumption
      <4> HIDE DEF b
      <4> QED
        BY <2>3, <2>4, <4>1 DEF Piece
    <3> QED
      BY <3>1 DEF Sayable
  <2>6. m # KeyMessage
    <3>1. m.header = "FILEBYTES" /\ KeyMessage.header = "ENCRKEY"
      BY DEF KeyMessage
    <3> QED
      BY <3>1
  <2>7. SentBytes' \in 0 .. Len(FileContent)
    BY <1>1, <2>1, <2>3
  <2>8. sent \in 0 .. MaxSent /\ sent # 0
    BY <1>1, <2>1
  <2> HIDE DEF m
  <2> QED
    BY <2>1, <2>5, <2>6, <2>7, <2>8
<1> QED
  BY <1>2, <1>3, <1>4

\* The invariant is kept by every step.
LEMMA NextWInv ==
  ASSUME WInv, [Next]_vars
  PROVE  WInv'
<1>1. CASE SendEncryptionKey \/ (\E message \in Messages : Send(message)) \/ SendPiece
  BY <1>1, WhatIsSent, SendKeeps
<1>2. CASE ReadSize
  BY <1>2, ReadSizeKeeps
<1>3. CASE ReadBody
  BY <1>3, ReadBodyKeeps
<1>4. CASE EndBody
  BY <1>4, EndBodyKeeps
<1>5. CASE FillPipe
  BY <1>5, FillPipeKeeps
<1>6. CASE TakePacket
  BY <1>6, TakePacketKeeps
<1>7. CASE EndConnection
  BY <1>7, EndConnectionKeeps
<1>8. CASE UNCHANGED vars
  <2>1. TypeOK' /\ HeardAsSaid' /\ KeyFirst'
    BY <1>8 DEF WInv, vars, TypeOK, HeardAsSaid, KeyFirst
  <2>2. Unread' = Unread /\ UNCHANGED <<owed, pipe, ended>>
    BY <1>8 DEF vars, Unread
  <2>3. Framed' /\ Coming' = Coming
    BY <2>2, SameUnread DEF WInv
  <2>4. InStep'
    BY <1>8, <2>3 DEF WInv, vars, InStep
  <2> QED
    BY <2>1, <2>3, <2>4 DEF WInv
<1> QED
  BY <1>1, <1>2, <1>3, <1>4, <1>5, <1>6, <1>7, <1>8 DEF Next, ReceivePackets

\* What has been said and not been heard is in the pipe as packets and behind it as bytes,
\* and the goroutine of ReceivePackets never loses its place in them, whatever the sizes
\* of the buffers, of the pipe and of what connection.Read gives are.
THEOREM WireInvariantHolds == Spec => []WInv
<1>1. Init => WInv
  BY InitWInv
<1>2. WInv /\ [Next]_vars => WInv'
  BY NextWInv
<1> QED
  BY <1>1, <1>2, PTL DEF Spec

\* Every variable keeps its type: no packet that ReadFromConn reads is greater than
\* MAXPACKETSIZE, and packetPipe never holds more than it can.
THEOREM WireTypeCorrect == Spec => []TypeOK
<1>1. WInv => TypeOK
  BY DEF WInv
<1> QED
  BY <1>1, WireInvariantHolds, PTL

\* What the main loop understands is what the other end meant: no split into reads, no
\* delimiter inside a body or a name and no encryption changes a message, and none is
\* missing because SendPacket found it too big.
THEOREM WireHeardAsSaid == Spec => []HeardAsSaid
<1>1. WInv => HeardAsSaid
  BY DEF WInv
<1> QED
  BY <1>1, WireInvariantHolds, PTL

\* The main loop never tries to decrypt a body that encryption has not made, for which
\* it would end the node.
THEOREM WireDecrypts == Spec => []DecryptsWhatIsEncrypted
<1>1. WInv => DecryptsWhatIsEncrypted
  <2>1. SUFFICES ASSUME WInv, pipe # <<>>, key # <<>>, Head(pipe).Body # <<>>
                 PROVE  CanDecrypt(key, Head(pipe).Body)
    BY DEF DecryptsWhatIsEncrypted
  <2>2. /\ Head(owed) \in Sayable /\ Head(pipe) = Packet(Head(owed), Key)
        /\ Head(owed) # KeyMessage
    BY <2>1, FirstInPipe
  <2>3. IsMessage(Head(owed)) /\ Head(owed).header # "ENCRKEY"
    BY <2>2, SayableIs
  <2>4. key = Key
    BY <2>1 DEF WInv, TypeOK
  <2> QED
    BY <2>1, <2>2, <2>3, <2>4, PacketIs
<1> QED
  BY <1>1, WireInvariantHolds, PTL

-----------------------------------------------------------------------------
(* Wire implements PacketStream.                                           *)

\* While the connection has not ended, the stream holds all that is owed.
LEMMA StreamOpen ==
  WInv /\ ~ended => /\ owed \in Seq(Sayable)
                    /\ Stream = [queue |-> PacketsOf(owed), end |-> "open"]
<1> SUFFICES ASSUME WInv, ~ended
             PROVE  /\ owed \in Seq(Sayable)
                    /\ Stream = [queue |-> PacketsOf(owed), end |-> "open"]
  OBVIOUS
<1>1. Unread = Flat[Coming] /\ Unread \in Bytes /\ Coming \in Seq(Sendable)
  BY WInvIs DEF WInv, Framed
<1>2. Unread \o <<>> = Flat[Coming] /\ <<>> \in Bytes
  BY <1>1, ConcatEmptySeq, EmptySeq DEF Bytes
<1>3. Parsed[Unread].packets = SubSeq(Coming, 1, Len(Coming))
  BY <1>1, <1>2, ParsedOfFlat
<1>4. SubSeq(Coming, 1, Len(Coming)) = Coming
  BY <1>1, SubSeqFull
<1>5. PacketsOf(owed) = pipe \o Coming /\ owed \in Seq(Sayable)
  BY DEF WInv, Framed, KeyFirst
<1> QED
  BY <1>3, <1>4, <1>5 DEF Stream

LEMMA StreamOpenNext ==
  (WInv /\ ~ended => /\ owed \in Seq(Sayable)
                     /\ Stream = [queue |-> PacketsOf(owed), end |-> "open"])'
BY StreamOpen, PTL

\* What is parsed are the first of the packets that are coming.
LEMMA StreamPackets ==
  WInv => /\ pipe \in Seq(Sendable) /\ Coming \in Seq(Sendable)
          /\ \E j \in 0 .. Len(Coming) :
               /\ Parsed[Unread].packets = SubSeq(Coming, 1, j)
               /\ j = Len(Coming) => Parsed[Unread].remainder = 0
          /\ Parsed[Unread].packets \in Seq(Sendable)
<1> SUFFICES ASSUME WInv
             PROVE  /\ pipe \in Seq(Sendable) /\ Coming \in Seq(Sendable)
                    /\ \E j \in 0 .. Len(Coming) :
                         /\ Parsed[Unread].packets = SubSeq(Coming, 1, j)
                         /\ j = Len(Coming) => Parsed[Unread].remainder = 0
                    /\ Parsed[Unread].packets \in Seq(Sendable)
  OBVIOUS
<1>1. pipe \in Seq(Sendable) /\ Coming \in Seq(Sendable) /\ Unread \in Bytes
  BY WInvIs DEF Halves
<1>2. PICK w \in Bytes : Flat[Coming] = Unread \o w
  BY WInvIs
<1>3. PICK j \in 0 .. Len(Coming) :
        /\ Parsed[Unread].packets = SubSeq(Coming, 1, j)
        /\ j = Len(Coming) => Parsed[Unread].remainder = 0
  BY <1>1, <1>2, ParsedOfFlat
<1>4. SubSeq(Coming, 1, j) \in Seq(Sendable)
  <2> DEFINE k == Len(Coming)
  <2>1. k \in Nat /\ j \in 0 .. k
    BY <1>1, LenProperties
  <2>2. \A i \in 1 .. j : Coming[i] \in Sendable
    <3>1. \A i \in 1 .. j : i \in 1 .. k
      BY <2>1
    <3> QED
      BY <1>1, <3>1, ElementOfSeq
  <2>3. j \in Int /\ 1 \in Int
    BY <2>1
  <2> QED
    BY <2>2, <2>3, SubSeqProperties
<1> QED
  BY <1>1, <1>3, <1>4

LEMMA StreamPacketsNext ==
  (WInv => /\ pipe \in Seq(Sendable) /\ Coming \in Seq(Sendable)
           /\ \E j \in 0 .. Len(Coming) :
                /\ Parsed[Unread].packets = SubSeq(Coming, 1, j)
                /\ j = Len(Coming) => Parsed[Unread].remainder = 0
           /\ Parsed[Unread].packets \in Seq(Sendable))'
BY StreamPackets, PTL

LEMMA SendIsPut ==
  ASSUME WInv, WInv', NEW m \in Sayable, SendPacket(m)
  PROVE  S!Put \/ Stream' = Stream
<1>1. UNCHANGED <<ended, reading, left, buffer, pipe>>
  BY DEF SendPacket
<1>2. CASE ended
  <2>1. bytes' = bytes
    BY <1>2 DEF SendPacket
  <2>2. Unread' = Unread
    BY <1>1, <2>1 DEF Unread
  <2> QED
    BY <1>1, <2>2 DEF Stream
<1>3. CASE ~ended
  <2> DEFINE q == PacketsOf(owed)
             p == Packet(m, Key)
             more == Append(q, p)
  <2>1. owed \in Seq(Sayable) /\ Stream = [queue |-> q, end |-> "open"]
    BY <1>3, StreamOpen
  <2>2. owed' = Append(owed, m) /\ ~ended'
    BY <1>1, <1>3 DEF SendPacket
  <2>3. Stream' = [queue |-> PacketsOf(owed'), end |-> "open"]
    BY <2>2, StreamOpenNext
  <2>4. Stream' = [queue |-> more, end |-> "open"]
    BY <2>1, <2>2, <2>3, PacketsOfAppend
  <2>5. q \in Seq(Sendable) /\ p \in Sendable
    BY <2>1, PacketsOfIs, SayableIs
  <2> HIDE DEF q, p
  <2>6. /\ more # <<>> /\ more[Len(more)] = p /\ more = q \o <<p>>
    BY <2>5, AppendProperties, AppendIsConcat
  <2> HIDE DEF more
  <2>7. S!Put
    BY <2>1, <2>4, <2>6 DEF S!Put, S!Push, S!Last
  <2> QED
    BY <2>7
<1> QED
  BY <1>2, <1>3

LEMMA SameStream ==
  ASSUME Unread' = Unread, pipe' = pipe, ended' = ended
  PROVE  Stream' = Stream
BY DEF Stream

\* When the goroutine closes the pipe, less than a size was left.
LEMMA CloseIsNoStep ==
  ASSUME WInv, ended, pipe' = pipe, ended' = ended, Unread = bytes, Len(bytes) < WORD, Unread' = <<>>
  PROVE  Stream' = Stream
<1>1. bytes \in Bytes /\ <<>> \in Bytes /\ Len(<<>>) = 0 /\ Len(bytes) \in Nat /\ WORD \in Nat \ {0}
  BY EmptySeq, LenProperties, CodecAssumption DEF WInv, TypeOK, Bytes
<1>2. ~FirstIsWhole(bytes) /\ ~FirstIsWhole(<<>>)
  BY <1>1 DEF FirstIsWhole
<1>3. /\ Parsed[bytes] = [packets |-> <<>>, remainder |-> Len(bytes)]
      /\ Parsed[<<>>] = [packets |-> <<>>, remainder |-> 0]
  BY <1>1, <1>2, ParsedIs
<1>4. 0 < WORD
  BY <1>1
<1> QED
  BY <1>3, <1>4 DEF Stream

\* A packet that goes from the buffer into the pipe was the first in the bytes.
LEMMA FillIsNoStep ==
  ASSUME WInv, FillPipe
  PROVE  Stream' = Stream
<1> DEFINE h == Head(Coming)
           n == Size(h)
           u == Uint64(n)
           fr == u \o buffer
           rest == SubSeq(Unread, FirstEnd(Unread) + 1, Len(Unread))
<1>1. TypeOK /\ InStep
  BY DEF WInv
<1>2. /\ reading = "packet" /\ pipe' = Append(pipe, BytesToPacket(buffer)) /\ reading' = "size"
      /\ UNCHANGED <<bytes, ended>> /\ left = 0
  BY <1>1 DEF FillPipe, InStep
<1>3. /\ Coming # <<>> /\ h \in Sendable /\ buffer = Frame(h)
  BY <1>2, WholeBuffer
<1>4. pipe' = Append(pipe, h) /\ Len(buffer) = n /\ n \in Nat /\ n \in Word
  BY <1>2, <1>3, FrameRead, SendableIs
<1>5. /\ bytes \in Bytes /\ buffer \in Bytes /\ Unread' = bytes
      /\ Coming \in Seq(Sendable) /\ Unread \in Bytes
  BY <1>1, <1>2, WInvIs DEF TypeOK, Unread
<1>6. PICK w \in Bytes : Flat[Coming] = Unread \o w
  BY WInvIs
<1>7. Unread = fr \o bytes
  <2>1. Len(buffer) + left = n
    BY <1>2, <1>4
  <2> QED
    BY <1>2, <2>1 DEF Unread
<1> HIDE DEF h, n
<1>8. u \in Bytes /\ Len(u) = WORD /\ WORD \in Nat \ {0}
  BY <1>4, NumberRead, CodecAssumption
<1> HIDE DEF u
<1>9. fr \in Bytes /\ Len(fr) = WORD + n /\ Len(Unread) = Len(fr) + Len(bytes) /\ Len(bytes) \in Nat
  <2>1. fr \in Bytes /\ Len(fr) = WORD + n
    BY <1>4, <1>5, <1>8, JoinBytes
  <2> QED
    BY <1>5, <1>7, <2>1, JoinBytes, LenProperties DEF Bytes
<1> HIDE DEF fr
<1>10. Begins(Coming, Unread, w)
  BY <1>3, <1>5, <1>6 DEF Begins
<1>11. Len(Unread) >= WORD /\ Len(Unread) >= WORD + n
  BY <1>4, <1>8, <1>9
<1>12. /\ FirstIsWhole(Unread) /\ NumberAt(Unread, 1) = n
       /\ BytesToPacket(SubSeq(Unread, WORD + 1, FirstEnd(Unread))) = h
  BY <1>10, <1>11, FirstOfFlat DEF n, h
<1>13. rest = bytes
  <2>1. FirstEnd(Unread) = Len(fr)
    BY <1>9, <1>12 DEF FirstEnd
  <2>2. Parts(Unread, fr, bytes) /\ Parts(Unread, Unread, <<>>)
    BY <1>5, <1>7, <1>9, EmptySeq, ConcatEmptySeq DEF Parts, Bytes
  <2>3. Len(fr) <= Len(Unread)
    BY <1>4, <1>8, <1>9
  <2>4. /\ Parts(Unread, fr, SubSeq(Unread, Len(fr) + 1, Len(Unread)))
        /\ Parts(bytes, SubSeq(Unread, Len(fr) + 1, Len(Unread)), <<>>)
    BY <2>2, <2>3, CutAt
  <2>5. rest = SubSeq(Unread, Len(fr) + 1, Len(Unread))
    BY <2>1
  <2> HIDE DEF rest
  <2>6. rest \in Bytes /\ bytes = rest \o <<>>
    BY <2>4, <2>5 DEF Parts
  <2> QED
    BY <2>6, ConcatEmptySeq DEF Bytes
<1>14. /\ Parsed[Unread].packets = <<h>> \o Parsed[bytes].packets
       /\ Parsed[Unread].remainder = Parsed[bytes].remainder
  BY <1>5, <1>12, <1>13, ParsedIs
<1> HIDE DEF rest
<1>15. WInv'
  BY FillPipeKeeps
<1> DEFINE r == Parsed[bytes].packets
<1>16. r \in Seq(Sendable) /\ pipe \in Seq(Sendable)
  BY <1>5, <1>15, StreamPackets, StreamPacketsNext
<1> HIDE DEF r
<1>17. pipe' \o r = pipe \o (<<h>> \o r)
  <2>1. Append(pipe, h) = pipe \o <<h>>
    BY <1>3, <1>16, AppendIsConcat DEF h
  <2>2. <<h>> \in Seq(Sendable)
    BY <1>3 DEF h
  <2>3. (pipe \o <<h>>) \o r = pipe \o (<<h>> \o r)
    BY <1>16, <2>2, PacketsOfJoin
  <2> QED
    BY <1>4, <2>1, <2>3
<1> QED
  BY <1>2, <1>5, <1>14, <1>17 DEF Stream, r

LEMMA TakePacketIsTake ==
  ASSUME WInv, TakePacket
  PROVE  S!Take
<1> DEFINE r == Parsed[Unread].packets
<1>1. pipe # <<>> /\ pipe' = Tail(pipe) /\ UNCHANGED <<ended, reading, left, buffer, bytes>>
  BY DEF TakePacket
<1>2. Unread' = Unread
  BY <1>1 DEF Unread
<1>3. pipe \in Seq(Sendable) /\ r \in Seq(Sendable)
  BY StreamPackets
<1>4. /\ Stream.queue = pipe \o r /\ Stream'.queue = Tail(pipe) \o r
      /\ Stream = [queue |-> Stream.queue, end |-> Stream.end]
      /\ Stream' = [queue |-> Stream'.queue, end |-> Stream.end]
  BY <1>1, <1>2 DEF Stream
<1> HIDE DEF r
<1>5. pipe \o r # <<>> /\ Tail(pipe \o r) = Tail(pipe) \o r
  BY <1>1, <1>3, TailOfConcat
<1>6. Stream' = [Stream EXCEPT !.queue = Tail(Stream.queue)]
  BY <1>4, <1>5
<1> QED
  BY <1>4, <1>5, <1>6 DEF S!Take, S!Pop

LEMMA EndConnectionIsEnd ==
  ASSUME WInv, EndConnection
  PROVE  S!End
<1> DEFINE c == Coming
           q == pipe \o c
           n == Len(pipe)
           k == Len(c)
<1>1. WInv' /\ Coming' = c /\ pipe' = pipe /\ ~ended /\ ended'
  BY EndConnectionKeeps DEF EndConnection
<1>2. Stream = [queue |-> q, end |-> "open"]
  <2>1. PacketsOf(owed) = q
    BY DEF WInv, Framed
  <2> QED
    BY <1>1, <2>1, StreamOpen
<1>3. pipe \in Seq(Sendable) /\ c \in Seq(Sendable)
  BY StreamPackets
<1>4. PICK j \in 0 .. k :
        /\ (Parsed[Unread].packets)' = SubSeq(c, 1, j)
        /\ j = k => (Parsed[Unread].remainder)' = 0
  BY <1>1, StreamPacketsNext
<1>5. Stream' = [queue |-> pipe \o SubSeq(c, 1, j),
                 end |-> IF (Parsed[Unread].remainder)' < WORD THEN "eof" ELSE "torn"]
  BY <1>1, <1>4 DEF Stream
<1>6. pipe \o SubSeq(c, 1, j) = SubSeq(q, 1, n + j)
  BY <1>3, PrefixOfConcat
<1>7. n \in Nat /\ k \in Nat /\ Len(q) = n + k
  BY <1>3, ConcatProperties, LenProperties
<1> HIDE DEF c, q, n, k
<1>8. n + j \in 0 .. Len(q) /\ (j # k => n + j \in 0 .. Len(q) - 1)
  BY <1>7
<1>9. j = k => (Parsed[Unread].remainder)' < WORD
  <2>1. 0 < WORD
    BY CodecAssumption
  <2> QED
    BY <1>4, <2>1
<1>10. CASE (Parsed[Unread].remainder)' < WORD
  <2>1. Stream' = [queue |-> SubSeq(q, 1, n + j), end |-> "eof"]
    BY <1>5, <1>6, <1>10
  <2> QED
    BY <1>2, <1>8, <2>1 DEF S!End, S!Cut
<1>11. CASE ~((Parsed[Unread].remainder)' < WORD)
  <2>1. Stream' = [queue |-> SubSeq(q, 1, n + j), end |-> "torn"]
    BY <1>5, <1>6, <1>11
  <2>2. n + j \in 0 .. Len(q) - 1
    BY <1>8, <1>9, <1>11
  <2> QED
    BY <1>2, <2>1, <2>2 DEF S!End, S!Cut
<1> QED
  BY <1>10, <1>11

LEMMA InitIsOpen == Init => S!Init
<1> SUFFICES ASSUME Init PROVE S!Init
  OBVIOUS
<1>1. <<>> \in Bytes /\ Len(<<>>) = 0 /\ WORD \in Nat \ {0}
  BY EmptySeq, CodecAssumption DEF Bytes
<1>2. ~FirstIsWhole(<<>>)
  BY <1>1 DEF FirstIsWhole
<1>3. Parsed[<<>>] = [packets |-> <<>>, remainder |-> 0]
  BY <1>1, <1>2, ParsedIs
<1>4. pipe = <<>> /\ Unread = <<>> /\ ended = FALSE
  BY DEF Init, Unread
<1>5. <<>> \o <<>> = <<>>
  OBVIOUS
<1>6. Stream = [queue |-> <<>>, end |-> "open"]
  BY <1>3, <1>4, <1>5 DEF Stream
<1> QED
  BY <1>6 DEF S!Init, S!OpenStream

LEMMA StepIsStreamStep ==
  ASSUME WInv, WInv', [Next]_vars
  PROVE  [S!Next]_Stream
<1>1. CASE SendEncryptionKey \/ (\E message \in Messages : Send(message)) \/ SendPiece
  BY <1>1, WhatIsSent, SendIsPut DEF S!Next
<1>2. CASE ReadSize
  <2>1. pipe' = pipe /\ ended' = ended
    BY <1>2 DEF ReadSize
  <2> QED
    BY <1>2, <2>1, ReadSizeKeeps, SameStream, CloseIsNoStep
<1>3. CASE ReadBody
  <2>1. pipe' = pipe /\ ended' = ended
    BY <1>3 DEF ReadBody
  <2> QED
    BY <1>3, <2>1, ReadBodyKeeps, SameStream
<1>4. CASE EndBody
  <2>1. pipe' = pipe /\ ended' = ended
    BY <1>4 DEF EndBody
  <2> QED
    BY <1>4, <2>1, EndBodyKeeps, SameStream
<1>5. CASE FillPipe
  BY <1>5, FillIsNoStep
<1>6. CASE TakePacket
  BY <1>6, TakePacketIsTake DEF S!Next
<1>7. CASE EndConnection
  BY <1>7, EndConnectionIsEnd DEF S!Next
<1>8. CASE UNCHANGED vars
  <2>1. Unread' = Unread /\ pipe' = pipe /\ ended' = ended
    BY <1>8 DEF vars, Unread
  <2> QED
    BY <2>1, SameStream
<1> QED
  BY <1>1, <1>2, <1>3, <1>4, <1>5, <1>6, <1>7, <1>8 DEF Next, ReceivePackets

\* Whatever is written, however the bytes are split into reads, whatever the buffers and
\* the pipe hold and at whichever byte the connection ends, SendPacket, ReceivePackets and
\* the main loop move whole packets, in order, as Stream has it for the rest of the model;
\* and the end is one that Stream knows.
THEOREM WireImplementsStream == Spec => ImplementsStream
<1>1. Init => S!Init
  BY InitIsOpen
<1>2. WInv /\ WInv' /\ [Next]_vars => [S!Next]_Stream
  BY StepIsStreamStep
<1> QED
  BY <1>1, <1>2, WireInvariantHolds, PTL DEF Spec, ImplementsStream, S!Spec

=============================================================================
