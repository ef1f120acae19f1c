--------------------------- MODULE GeneralProofs ---------------------------
(***************************************************************************)
(* Facts about numbers and sequences that the proofs of several models     *)
(* need, and induction and recursion for the provers at hand, which cannot *)
(* instantiate a theorem with an operator: a predicate is the set of the   *)
(* values it holds of, and the step of a recursion is a function.          *)
(***************************************************************************)
EXTENDS Integers, SequencesExt, FiniteSetsExt, TLAPS, SequenceTheorems, WellFoundedInduction

-----------------------------------------------------------------------------
(* Arithmetic.                                                             *)

\* The smaller and the larger of two numbers.
LEMMA MinIs ==
  ASSUME NEW a \in Int, NEW b \in Int
  PROVE  Min({a, b}) = IF a <= b THEN a ELSE b
<1>1. PICK m \in {a, b} : \A y \in {a, b} : m <= y
  OBVIOUS
<1>2. /\ Min({a, b}) \in {a, b}
      /\ \A y \in {a, b} : Min({a, b}) <= y
  BY <1>1 DEF Min
<1> QED
  BY <1>2

LEMMA MaxIs ==
  ASSUME NEW a \in Int, NEW b \in Int
  PROVE  Max({a, b}) = IF a >= b THEN a ELSE b
<1>1. PICK m \in {a, b} : \A y \in {a, b} : m >= y
  OBVIOUS
<1>2. /\ Max({a, b}) \in {a, b}
      /\ \A y \in {a, b} : Max({a, b}) >= y
  BY <1>1 DEF Max
<1> QED
  BY <1>2

\* A product grows with its factor.
LEMMA Monotone ==
  ASSUME NEW a \in Nat, NEW b \in Nat, NEW c \in Nat, a <= b
  PROVE  a * c \in Nat /\ b * c \in Nat /\ a * c <= b * c
<1>1. (b - a) * c \in Nat
  OBVIOUS
<1>2. (b - a) * c = b * c - a * c
  OBVIOUS
<1> QED
  BY <1>1, <1>2

\* The quotient and the remainder of a number are the only ones.
LEMMA DivMod ==
  ASSUME NEW q \in Nat, NEW c \in Nat \ {0}, NEW r \in 0 .. c - 1
  PROVE  (q * c + r) \div c = q /\ (q * c + r) % c = r
<1>1. PICK Q \in Nat : Q = q * c
  OBVIOUS
<1>2. PICK x \in Nat : x = Q + r
  OBVIOUS
<1>3. PICK d \in Nat, m \in 0 .. c - 1 : d = x \div c /\ m = x % c
  OBVIOUS
<1>4. PICK D \in Nat : D = d * c
  OBVIOUS
<1>5. x = D + m
  BY <1>3, <1>4
<1>6. ~ d < q
  <2>1. SUFFICES ASSUME d + 1 <= q PROVE FALSE
    OBVIOUS
  <2>2. (d + 1) * c <= q * c
    BY <2>1, Monotone
  <2>3. (d + 1) * c = d * c + c
    OBVIOUS
  <2>4. D + c <= Q
    BY <2>2, <2>3, <1>1, <1>4
  <2> QED
    BY <2>4, <1>2, <1>5
<1>7. ~ q < d
  <2>1. SUFFICES ASSUME q + 1 <= d PROVE FALSE
    OBVIOUS
  <2>2. (q + 1) * c <= d * c
    BY <2>1, Monotone
  <2>3. (q + 1) * c = q * c + c
    OBVIOUS
  <2>4. Q + c <= D
    BY <2>2, <2>3, <1>1, <1>4
  <2> QED
    BY <2>4, <1>2, <1>5
<1>8. d = q
  BY <1>6, <1>7
<1>9. Q = D
  BY <1>8, <1>1, <1>4
<1>10. m = r
  BY <1>9, <1>2, <1>5
<1> QED
  BY <1>1, <1>2, <1>3, <1>8, <1>10

\* What quotient and remainder are.
LEMMA QuotientAndRemainder ==
  ASSUME NEW n \in Nat, NEW c \in Nat \ {0}
  PROVE  \E q \in Nat, r \in 0 .. c - 1 : q = n \div c /\ r = n % c /\ n = q * c + r
<1>1. PICK d \in Nat, m \in 0 .. c - 1 : d = n \div c /\ m = n % c
  OBVIOUS
<1>2. PICK D \in Nat : D = d * c
  OBVIOUS
<1>3. n = D + m
  BY <1>1, <1>2
<1>4. n = d * c + m
  BY <1>2, <1>3
<1> QED
  BY <1>1, <1>4, Zenon

\* Dividing twice is dividing by the product.
LEMMA DivDiv ==
  ASSUME NEW n \in Nat, NEW a \in Nat \ {0}, NEW b \in Nat \ {0}
  PROVE  (n \div a) \div b = n \div (b * a)
<1>1. PICK q \in Nat, r \in 0 .. a - 1 : q = n \div a /\ n = q * a + r
  BY QuotientAndRemainder
<1>2. PICK p \in Nat, s \in 0 .. b - 1 : p = q \div b /\ q = p * b + s
  BY QuotientAndRemainder
<1>3. PICK c \in Nat \ {0} : c = b * a
  OBVIOUS
<1>4. PICK t \in Nat : t = s * a
  OBVIOUS
<1>5. t <= c - a
  <2>1. s * a <= (b - 1) * a
    BY Monotone
  <2>2. (b - 1) * a = b * a - a
    OBVIOUS
  <2> QED
    BY <2>1, <2>2, <1>3, <1>4
<1>6. n = p * c + (t + r)
  <2>1. n = (p * b + s) * a + r
    BY <1>1, <1>2
  <2>2. (p * b + s) * a = p * (b * a) + s * a
    OBVIOUS
  <2> QED
    BY <2>1, <2>2, <1>3, <1>4
<1>7. t + r \in 0 .. c - 1
  BY <1>5
<1>8. n \div c = p
  BY <1>6, <1>7, DivMod
<1> QED
  BY <1>1, <1>2, <1>3, <1>8

-----------------------------------------------------------------------------
(* Sequences.                                                              *)

\* A function on 1 .. n is a sequence.
LEMMA FunctionIsSeq ==
  ASSUME NEW X, NEW n \in Nat, NEW f \in [1 .. n -> X]
  PROVE  f \in Seq(X) /\ Len(f) = n
<1>1. f \in Seq(X)
  BY SeqDef
<1>2. Len(f) \in Nat /\ DOMAIN f = 1 .. Len(f) /\ DOMAIN f = 1 .. n
  BY <1>1, LenProperties
<1> QED
  BY <1>1, <1>2

\* The parts that Append has put together.
LEMMA FrontAndLast ==
  ASSUME NEW X, NEW s \in Seq(X), NEW e \in X
  PROVE  Front(Append(s, e)) = s /\ Last(Append(s, e)) = e
<1>1. /\ Append(s, e) \in Seq(X) /\ Len(Append(s, e)) = Len(s) + 1 /\ Len(s) \in Nat
      /\ \A i \in 1 .. Len(s) : Append(s, e)[i] = s[i] /\ s[i] \in X
      /\ Append(s, e)[Len(s) + 1] = e
  BY AppendProperties, LenProperties, ElementOfSeq
<1> DEFINE t == SubSeq(Append(s, e), 1, Len(s))
<1>2. \A i \in 1 .. Len(s) : Append(s, e)[i] \in X
  BY <1>1
<1>3. t \in Seq(X) /\ Len(t) = Len(s) /\ \A i \in 1 .. Len(s) : t[i] = Append(s, e)[i]
  BY <1>1, <1>2, SubSeqProperties
<1> HIDE DEF t
<1>4. t = s
  BY <1>1, <1>3, SeqEqual
<1> QED
  BY <1>1, <1>4 DEF Front, Last, t

\* Without its last element a sequence is shorter.
LEMMA FrontShorter ==
  ASSUME NEW X, NEW s \in Seq(X)
  PROVE  /\ Front(s) \in Seq(X)
         /\ s # <<>> => Len(Front(s)) = Len(s) - 1 /\ Len(Front(s)) \in Nat /\ Last(s) \in X
<1>1. Len(s) \in Nat /\ \A i \in 1 .. Len(s) - 1 : s[i] \in X
  BY LenProperties, ElementOfSeq
<1>2. /\ SubSeq(s, 1, Len(s) - 1) \in Seq(X)
      /\ Len(SubSeq(s, 1, Len(s) - 1)) = IF 1 <= Len(s) - 1 THEN Len(s) - 1 - 1 + 1 ELSE 0
  BY <1>1, SubSeqProperties
<1>3. ASSUME s # <<>> PROVE Len(s) >= 1 /\ Last(s) \in X
  <2>1. Len(s) \in Nat \ {0}
    BY <1>3, EmptySeq
  <2> QED
    BY <2>1, ElementOfSeq DEF Last
<1>4. ASSUME s # <<>> PROVE Len(SubSeq(s, 1, Len(s) - 1)) = Len(s) - 1
  <2> DEFINE L == Len(s)  M == Len(SubSeq(s, 1, Len(s) - 1))
  <2>1. L \in Nat /\ L >= 1 /\ M = IF 1 <= L - 1 THEN L - 1 - 1 + 1 ELSE 0
    BY <1>1, <1>2, <1>3, <1>4
  <2> HIDE DEF L, M
  <2>2. M = L - 1
    BY <2>1
  <2> QED
    BY <2>2 DEF L, M
<1>5. ASSUME s # <<>> PROVE Len(s) - 1 \in Nat
  BY <1>1, <1>3, <1>5
<1> QED
  BY <1>2, <1>3, <1>4, <1>5 DEF Front

-----------------------------------------------------------------------------
(* Induction.                                                              *)

\* A set of numbers has a least one.
LEMMA NatMin ==
  ASSUME NEW T \in SUBSET Nat, T # {}
  PROVE  \E n \in T : \A m \in T : n <= m
<1> DEFINE R == OpToRel(<, Nat)
<1>1. IsWellFoundedOn(R, Nat)
  BY NatLessThanWellFounded
<1>2. T \subseteq Nat
  OBVIOUS
<1> HIDE DEF R
<1>3. PICK n \in T : \A m \in T : ~(<<m, n>> \in R)
  BY <1>1, <1>2, WFMin
<1>4. \A m \in T : m \in Nat /\ n \in Nat /\ ~(m < n)
  BY <1>2, <1>3 DEF R, OpToRel
<1> QED
  BY <1>4

\* Induction: a set with 0 and the successors of its members has all numbers.
LEMMA Induct ==
  ASSUME NEW S, 0 \in S, \A n \in Nat : n \in S => n + 1 \in S
  PROVE  Nat \subseteq S
<1> SUFFICES ASSUME NEW k \in Nat, k \notin S PROVE FALSE
  OBVIOUS
<1> DEFINE T == {n \in Nat : n \notin S}
<1>1. T \in SUBSET Nat /\ T # {}
  OBVIOUS
<1> HIDE DEF T
<1>2. PICK n \in T : \A m \in T : n <= m
  BY <1>1, NatMin
<1>3. n \in Nat /\ n \notin S /\ n # 0
  BY <1>2 DEF T
<1>4. n - 1 \in Nat /\ n - 1 \notin T
  BY <1>2, <1>3
<1>5. n - 1 \in S
  BY <1>4 DEF T
<1> QED
  BY <1>3, <1>4, <1>5

\* Induction over sequences, from the end and from the beginning.
LEMMA SeqInduct ==
  ASSUME NEW X, NEW G, <<>> \in G,
         \A s \in Seq(X), e \in X : s \in G => Append(s, e) \in G
  PROVE  Seq(X) \subseteq G
<1> DEFINE A == {n \in Nat : \A s \in Seq(X) : Len(s) = n => s \in G}
<1>1. 0 \in A
  <2>1. \A s \in Seq(X) : Len(s) = 0 => s = <<>>
    BY EmptySeq
  <2> QED
    BY <2>1
<1>2. ASSUME NEW n \in Nat, n \in A PROVE n + 1 \in A
  <2>1. ASSUME NEW s \in Seq(X), Len(s) = n + 1 PROVE s \in G
    <3>1. s # <<>>
      BY <2>1, EmptySeq
    <3>2. PICK t \in Seq(X), e \in X : s = Append(t, e)
      BY <3>1, SequenceEmptyOrAppend
    <3>3. Len(t) = n
      BY <2>1, <3>2, AppendProperties, LenProperties
    <3> QED
      BY <1>2, <3>2, <3>3
  <2> QED
    BY <2>1
<1>3. Nat \subseteq A
  <2> HIDE DEF A
  <2> QED
    BY <1>1, <1>2, Induct
<1>4. ASSUME NEW s \in Seq(X) PROVE s \in G
  <2>1. Len(s) \in A
    BY <1>3, LenProperties
  <2> QED
    BY <2>1
<1> QED
  BY <1>4

LEMMA TailInduct ==
  ASSUME NEW X, NEW G, <<>> \in G,
         \A s \in Seq(X) : s # <<>> /\ Tail(s) \in G => s \in G
  PROVE  Seq(X) \subseteq G
<1> DEFINE A == {n \in Nat : \A s \in Seq(X) : Len(s) = n => s \in G}
<1>1. 0 \in A
  <2>1. \A s \in Seq(X) : Len(s) = 0 => s = <<>>
    BY EmptySeq
  <2> QED
    BY <2>1
<1>2. ASSUME NEW n \in Nat, n \in A PROVE n + 1 \in A
  <2>1. ASSUME NEW s \in Seq(X), Len(s) = n + 1 PROVE s \in G
    <3>1. s # <<>>
      BY <2>1, EmptySeq
    <3>2. Tail(s) \in Seq(X) /\ Len(Tail(s)) = n
      BY <2>1, <3>1, HeadTailProperties
    <3> QED
      BY <1>2, <3>1, <3>2
  <2> QED
    BY <2>1
<1>3. Nat \subseteq A
  <2> HIDE DEF A
  <2> QED
    BY <1>1, <1>2, Induct
<1>4. ASSUME NEW s \in Seq(X) PROVE s \in G
  <2>1. Len(s) \in A
    BY <1>3, LenProperties
  <2> QED
    BY <2>1
<1> QED
  BY <1>4

-----------------------------------------------------------------------------
(* Recursion in which the value at x depends on x and on the value at one  *)
(* other place, next[x], that is smaller: it defines a function.           *)

\* What f must be at x.
Recursive(f, x, base, step, next, B) ==
  f[x] = IF x \in B THEN base[x] ELSE step[<<x, f[next[x]]>>]

\* The parts of such a recursion over S, for values in V: in B there is a value at
\* once, and elsewhere next is smaller.
IsRecursion(S, size, next, V, B, base, step) ==
  /\ size \in [S -> Nat] /\ next \in [S -> S]
  /\ base \in [S -> V] /\ step \in [S \X V -> V]
  /\ \A x \in S : x \notin B => size[next[x]] < size[x]

\* f obeys the recursion where the size is below n.
Obeys(f, n, S, size, base, step, next, B) ==
  \A x \in S : size[x] < n => Recursive(f, x, base, step, next, B)

\* Two functions that obey the recursion where sizes are below n and m agree there.
LEMMA RecursionUnique ==
  ASSUME NEW S, NEW size \in [S -> Nat], NEW next \in [S -> S], NEW B, NEW base, NEW step,
         \A x \in S : x \notin B => size[next[x]] < size[x],
         NEW n \in Nat, NEW f, Obeys(f, n, S, size, base, step, next, B),
         NEW m \in Nat, NEW g, Obeys(g, m, S, size, base, step, next, B)
  PROVE  \A x \in S : size[x] < n /\ size[x] < m => f[x] = g[x]
<1> SUFFICES ASSUME NEW x0 \in S, size[x0] < n, size[x0] < m, f[x0] # g[x0] PROVE FALSE
  OBVIOUS
<1> DEFINE T == {size[x] : x \in {y \in S : size[y] < n /\ size[y] < m /\ f[y] # g[y]}}
<1>1. T \in SUBSET Nat /\ T # {}
  OBVIOUS
<1>2. PICK k \in T : \A j \in T : k <= j
  BY <1>1, NatMin
<1>3. PICK x \in S : k = size[x] /\ size[x] < n /\ size[x] < m /\ f[x] # g[x]
  OBVIOUS
<1>4. Recursive(f, x, base, step, next, B) /\ Recursive(g, x, base, step, next, B)
  BY <1>3 DEF Obeys
<1>5. x \notin B
  BY <1>3, <1>4 DEF Recursive
<1>6. next[x] \in S /\ size[next[x]] < size[x] /\ size[next[x]] \in Nat /\ size[x] \in Nat
  BY <1>5
<1>7. size[next[x]] < n /\ size[next[x]] < m
  BY <1>3, <1>6
<1>8. f[next[x]] = g[next[x]]
  <2>1. size[next[x]] \notin T
    BY <1>2, <1>3, <1>6
  <2> QED
    BY <1>6, <1>7, <2>1
<1> QED
  BY <1>3, <1>4, <1>5, <1>8 DEF Recursive

LEMMA RecursionBelow ==
  ASSUME NEW S, NEW size \in [S -> Nat], NEW next \in [S -> S], NEW V, NEW B,
         NEW base \in [S -> V], NEW step \in [S \X V -> V],
         \A x \in S : x \notin B => size[next[x]] < size[x]
  PROVE  \A n \in Nat : \E f \in [S -> V] : Obeys(f, n, S, size, base, step, next, B)
<1> DEFINE Below(n) == \E f \in [S -> V] : Obeys(f, n, S, size, base, step, next, B)
           A == {n \in Nat : Below(n)}
<1>1. 0 \in A
  <2>1. \A x \in S : ~(size[x] < 0)
    OBVIOUS
  <2>2. Obeys(base, 0, S, size, base, step, next, B)
    BY <2>1 DEF Obeys
  <2> QED
    BY <2>2
<1>2. ASSUME NEW n \in Nat, n \in A PROVE n + 1 \in A
  <2>1. PICK f \in [S -> V] : Obeys(f, n, S, size, base, step, next, B)
    BY <1>2
  <2> DEFINE g == [x \in S |-> IF x \in B THEN base[x] ELSE step[<<x, f[next[x]]>>]]
  <2>2. g \in [S -> V]
    OBVIOUS
  <2>3. ASSUME NEW x \in S, size[x] < n + 1 PROVE Recursive(g, x, base, step, next, B)
    <3>1. CASE x \in B
      BY <3>1 DEF Recursive
    <3>2. CASE x \notin B
      <4>1. next[x] \in S /\ size[next[x]] < n
        <5>1. size[next[x]] < size[x] /\ size[next[x]] \in Nat /\ size[x] \in Nat /\ next[x] \in S
          BY <3>2
        <5> QED
          BY <5>1, <2>3
      <4>2. Recursive(f, next[x], base, step, next, B)
        BY <2>1, <4>1 DEF Obeys
      <4>3. g[next[x]] = f[next[x]]
        BY <4>1, <4>2 DEF Recursive
      <4>4. g[x] = step[<<x, f[next[x]]>>]
        BY <3>2
      <4> HIDE DEF g
      <4> QED
        BY <3>2, <4>3, <4>4 DEF Recursive
    <3> QED
      BY <3>1, <3>2
  <2> HIDE DEF g
  <2>4. Obeys(g, n + 1, S, size, base, step, next, B)
    BY <2>3 DEF Obeys
  <2> QED
    BY <2>2, <2>4
<1> HIDE DEF Below
<1>3. Nat \subseteq A
  BY <1>1, <1>2, Induct
<1> QED
  BY <1>3 DEF Below

\* There is a function that obeys the recursion.
LEMMA RecursionExists ==
  ASSUME NEW S, NEW size, NEW next, NEW V, NEW B, NEW base, NEW step,
         IsRecursion(S, size, next, V, B, base, step)
  PROVE  \E f \in [S -> V] : \A x \in S : Recursive(f, x, base, step, next, B)
<1> SUFFICES ASSUME size \in [S -> Nat], next \in [S -> S],
                    base \in [S -> V], step \in [S \X V -> V],
                    \A x \in S : x \notin B => size[next[x]] < size[x]
             PROVE  \E f \in [S -> V] : \A x \in S : Recursive(f, x, base, step, next, B)
  BY DEF IsRecursion
<1> DEFINE Some(n) == CHOOSE f \in [S -> V] : Obeys(f, n, S, size, base, step, next, B)
           F == [x \in S |-> Some(size[x] + 1)[x]]
<1>1. ASSUME NEW n \in Nat PROVE Some(n) \in [S -> V] /\ Obeys(Some(n), n, S, size, base, step, next, B)
  <2>1. \E f \in [S -> V] : Obeys(f, n, S, size, base, step, next, B)
    BY RecursionBelow
  <2> QED
    BY <2>1, Zenon
<1> HIDE DEF Some
<1>2. F \in [S -> V]
  <2>1. ASSUME NEW x \in S PROVE Some(size[x] + 1)[x] \in V
    <3>1. size[x] + 1 \in Nat
      OBVIOUS
    <3> QED
      BY <1>1, <3>1
  <2> QED
    BY <2>1
<1>3. ASSUME NEW x \in S PROVE Recursive(F, x, base, step, next, B)
  <2>1. size[x] + 1 \in Nat /\ size[x] \in Nat /\ size[x] < size[x] + 1
    OBVIOUS
  <2>2. Recursive(Some(size[x] + 1), x, base, step, next, B)
    BY <1>1, <2>1 DEF Obeys
  <2>3. F[x] = Some(size[x] + 1)[x]
    OBVIOUS
  <2>4. CASE x \in B
    BY <2>2, <2>3, <2>4 DEF Recursive
  <2>5. CASE x \notin B
    <3>1. /\ next[x] \in S /\ size[next[x]] \in Nat /\ size[next[x]] < size[x]
          /\ size[next[x]] + 1 \in Nat
      BY <2>5
    <3>2. size[next[x]] < size[next[x]] + 1 /\ size[next[x]] < size[x] + 1
      BY <2>1, <3>1
    <3> DEFINE f == Some(size[x] + 1)  g == Some(size[next[x]] + 1)
               n == size[x] + 1  m == size[next[x]] + 1
    <3>5. /\ Obeys(f, n, S, size, base, step, next, B)
          /\ Obeys(g, m, S, size, base, step, next, B)
          /\ n \in Nat /\ m \in Nat
      BY <1>1, <2>1, <3>1
    <3>6. size[next[x]] < n /\ size[next[x]] < m
      BY <3>2
    <3>7. F[next[x]] = g[next[x]]
      BY <3>1
    <3> HIDE DEF f, g, n, m, F
    <3>8. f[next[x]] = g[next[x]]
      BY <3>1, <3>5, <3>6, RecursionUnique
    <3>9. F[next[x]] = Some(size[x] + 1)[next[x]]
      BY <3>7, <3>8 DEF f
    <3> QED
      BY <2>2, <2>3, <2>5, <3>9 DEF Recursive
  <2> QED
    BY <2>4, <2>5
<1> HIDE DEF F
<1>4. \A x \in S : Recursive(F, x, base, step, next, B)
  BY <1>3
<1> QED
  BY <1>2, <1>4

-----------------------------------------------------------------------------
(* Recursion in which the value at x may depend on those at all places     *)
(* that are smaller.                                                       *)

\* def[<<f, x>>] depends on the values of f below x only.
DependsBelow(S, size, V, def) ==
  /\ size \in [S -> Nat] /\ def \in [[S -> V] \X S -> V]
  /\ \A f \in [S -> V], g \in [S -> V] : \A x \in S :
       (\A y \in S : size[y] < size[x] => f[y] = g[y]) => def[<<f, x>>] = def[<<g, x>>]

Solves(f, S, V, def) == f \in [S -> V] /\ \A x \in S : f[x] = def[<<f, x>>]

LEMMA RecursionBelowExists ==
  ASSUME NEW S, NEW size, NEW V, NEW v, v \in V, NEW def, DependsBelow(S, size, V, def)
  PROVE  \E f : Solves(f, S, V, def)
<1> DEFINE W == [S -> V]
           height == [n \in Nat |-> n]
           next == [n \in Nat |-> IF n = 0 THEN 0 ELSE n - 1]
           base == [n \in Nat |-> [x \in S |-> v]]
           step == [p \in Nat \X W |-> [x \in S |-> def[<<p[2], x>>]]]
<1>1. /\ size \in [S -> Nat]
      /\ \A f \in W, x \in S : def[<<f, x>>] \in V
      /\ \A f \in W, g \in W : \A x \in S :
           (\A y \in S : size[y] < size[x] => f[y] = g[y]) => def[<<f, x>>] = def[<<g, x>>]
  BY DEF DependsBelow
<1>2. PICK F \in [Nat -> W] : \A n \in Nat : Recursive(F, n, base, step, next, {0})
  <2>1. height \in [Nat -> Nat] /\ next \in [Nat -> Nat] /\ base \in [Nat -> W]
    OBVIOUS
  <2>2. step \in [Nat \X W -> W]
    BY <1>1
  <2>3. \A n \in Nat : n \notin {0} => height[next[n]] < height[n]
    OBVIOUS
  <2> HIDE DEF W, height, next, base, step
  <2>4. IsRecursion(Nat, height, next, W, {0}, base, step)
    BY <2>1, <2>2, <2>3 DEF IsRecursion
  <2> QED
    BY <2>4, RecursionExists, ZenonT(30)
<1>3. \A n \in Nat : \A x \in S : F[n + 1][x] = def[<<F[n], x>>]
  <2>1. ASSUME NEW n \in Nat, NEW x \in S PROVE F[n + 1][x] = def[<<F[n], x>>]
    <3>1. n + 1 \in Nat /\ n + 1 \notin {0} /\ next[n + 1] = n
      OBVIOUS
    <3>2. F[n + 1] = step[<<n + 1, F[n]>>]
      BY <1>2, <3>1 DEF Recursive
    <3>3. <<n + 1, F[n]>> \in Nat \X W
      BY <3>1
    <3> QED
      BY <3>2, <3>3
  <2> QED
    BY <2>1
<1> HIDE DEF height, next, base, step
<1> DEFINE A == {n \in Nat : \A x \in S : size[x] < n => F[n][x] = F[n + 1][x]}
<1>4. 0 \in A
  BY <1>1
<1>5. ASSUME NEW n \in Nat, n \in A PROVE n + 1 \in A
  <2>1. ASSUME NEW x \in S, size[x] < n + 1 PROVE F[n + 1][x] = F[(n + 1) + 1][x]
    <3>1. \A y \in S : size[y] < size[x] => F[n][y] = F[n + 1][y]
      <4>1. ASSUME NEW y \in S, size[y] < size[x] PROVE size[y] < n
        BY <1>1, <2>1, <4>1
      <4> QED
        BY <1>5, <4>1
    <3>2. n + 1 \in Nat /\ F[n] \in W /\ F[n + 1] \in W
      OBVIOUS
    <3>3. F[n + 1][x] = def[<<F[n], x>>] /\ F[(n + 1) + 1][x] = def[<<F[n + 1], x>>]
      BY <1>3, <3>2
    <3> QED
      BY <1>1, <3>1, <3>2, <3>3
  <2> QED
    BY <2>1
<1>6. Nat \subseteq A
  <2> HIDE DEF A
  <2> QED
    BY <1>4, <1>5, Induct
<1> DEFINE f == [x \in S |-> F[size[x] + 1][x]]
<1>7. f \in [S -> V]
  BY <1>1
<1>8. ASSUME NEW y \in S PROVE \A k \in Nat : F[size[y] + 1 + k][y] = f[y]
  <2> DEFINE B == {k \in Nat : F[size[y] + 1 + k][y] = f[y]}
  <2>1. size[y] \in Nat
    BY <1>1
  <2>2. 0 \in B
    BY <2>1
  <2>3. ASSUME NEW k \in Nat, k \in B PROVE k + 1 \in B
    <3>1. size[y] + 1 + k \in Nat /\ size[y] < size[y] + 1 + k
          /\ size[y] + 1 + (k + 1) = (size[y] + 1 + k) + 1
      BY <2>1
    <3>2. F[size[y] + 1 + k][y] = F[(size[y] + 1 + k) + 1][y]
      BY <1>6, <3>1
    <3> QED
      BY <2>3, <3>1, <3>2
  <2> HIDE DEF B
  <2>4. Nat \subseteq B
    BY <2>2, <2>3, Induct
  <2> QED
    BY <2>4 DEF B
<1>9. ASSUME NEW x \in S PROVE f[x] = def[<<f, x>>]
  <2>1. size[x] \in Nat /\ F[size[x]] \in W
    BY <1>1
  <2>2. f[x] = def[<<F[size[x]], x>>]
    BY <1>3, <2>1
  <2>3. ASSUME NEW y \in S, size[y] < size[x] PROVE F[size[x]][y] = f[y]
    <3>1. PICK k \in Nat : k = size[x] - (size[y] + 1)
      BY <1>1, <2>3
    <3>2. size[y] + 1 + k = size[x]
      BY <1>1, <3>1
    <3> HIDE DEF f
    <3> QED
      BY <1>8, <3>2
  <2> HIDE DEF f
  <2> QED
    BY <1>1, <1>7, <2>1, <2>2, <2>3
<1> HIDE DEF f
<1> QED
  BY <1>7, <1>9 DEF Solves

-----------------------------------------------------------------------------
(* Sequences one after the other.                                          *)

LEMMA HeadAndTail ==
  ASSUME NEW S, NEW s \in Seq(S), s # <<>>
  PROVE  s = <<Head(s)>> \o Tail(s) /\ Head(s) \in S /\ Tail(s) \in Seq(S)
<1> DEFINE k == Len(s)
<1>1. k \in Nat /\ k >= 1
  <2>1. k \in Nat \ {0}
    BY EmptySeq
  <2> QED
    BY <2>1
<1>2. SubSeq(s, 1, k) = s /\ Tail(s) = SubSeq(s, 2, k) /\ Head(s) = s[1]
  BY SubSeqFull, TailIsSubSeq
<1>3. 1 \in 1 .. k /\ k \in 1 .. k
  BY <1>1
<1>4. SubSeq(s, 1, k) = <<s[1]>> \o SubSeq(s, 1 + 1, k)
  BY <1>3, SubSeqRecursiveFirst
<1>5. 1 + 1 = 2
  OBVIOUS
<1> QED
  BY <1>2, <1>4, <1>5, HeadTailProperties

LEMMA TailOfConcat ==
  ASSUME NEW S, NEW s \in Seq(S), NEW t \in Seq(S), s # <<>>
  PROVE  s \o t # <<>> /\ Tail(s \o t) = Tail(s) \o t
<1> DEFINE n == Len(s)
           k == Len(t)
           st == s \o t
           r == Tail(s)
           rt == r \o t
<1>1. n \in Nat /\ n >= 1 /\ k \in Nat
  <2>1. n \in Nat \ {0} /\ k \in Nat
    BY EmptySeq, LenProperties
  <2> QED
    BY <2>1
<1>2. /\ st \in Seq(S) /\ Len(st) = n + k
      /\ \A i \in 1 .. n + k : st[i] = IF i <= n THEN s[i] ELSE t[i - n]
  BY ConcatProperties
<1>3. /\ r \in Seq(S) /\ Len(r) = n - 1
      /\ \A i \in 1 .. n - 1 : r[i] = s[i + 1]
  BY HeadTailProperties
<1>4. /\ rt \in Seq(S) /\ Len(rt) = Len(r) + k
      /\ \A i \in 1 .. Len(r) + k : rt[i] = IF i <= Len(r) THEN r[i] ELSE t[i - Len(r)]
  BY <1>3, ConcatProperties
<1>5. st # <<>>
  BY <1>1, <1>2, EmptySeq
<1> HIDE DEF n, k, st, r, rt
<1>6. /\ Tail(st) \in Seq(S) /\ Len(Tail(st)) = n + k - 1
      /\ \A i \in 1 .. n + k - 1 : Tail(st)[i] = st[i + 1]
  <2>1. /\ Tail(st) \in Seq(S) /\ Len(Tail(st)) = Len(st) - 1
        /\ \A i \in 1 .. Len(st) - 1 : Tail(st)[i] = st[i + 1]
    BY <1>2, <1>5, HeadTailProperties
  <2>2. Len(st) - 1 = n + k - 1
    BY <1>1, <1>2
  <2> QED
    BY <2>1, <2>2
<1>7. ASSUME NEW i \in 1 .. n + k - 1 PROVE Tail(st)[i] = rt[i]
  <2> DEFINE j == i + 1
  <2>1. /\ j \in 1 .. n + k /\ i \in 1 .. Len(r) + k /\ (i <= Len(r) <=> j <= n)
        /\ i - Len(r) = j - n /\ (j <= n => i \in 1 .. n - 1)
    BY <1>1, <1>3
  <2>2. Tail(st)[i] = st[j]
    BY <1>6
  <2> HIDE DEF j
  <2>3. st[j] = IF j <= n THEN s[j] ELSE t[j - n]
    BY <1>2, <2>1
  <2>4. rt[i] = IF i <= Len(r) THEN r[i] ELSE t[i - Len(r)]
    BY <1>4, <2>1
  <2>5. CASE j <= n
    BY <1>3, <2>1, <2>2, <2>3, <2>4, <2>5 DEF j
  <2>6. CASE ~(j <= n)
    BY <2>1, <2>2, <2>3, <2>4, <2>6
  <2> QED
    BY <2>5, <2>6
<1>8. Len(rt) = n + k - 1
  BY <1>1, <1>3, <1>4
<1>9. Tail(st) = rt
  BY <1>4, <1>6, <1>7, <1>8, SeqEqual
<1> QED
  BY <1>5, <1>9 DEF st, r, rt

LEMMA PrefixOfConcat ==
  ASSUME NEW S, NEW s \in Seq(S), NEW t \in Seq(S), NEW j \in 0 .. Len(t)
  PROVE  s \o SubSeq(t, 1, j) = SubSeq(s \o t, 1, Len(s) + j)
<1> DEFINE n == Len(s)
           k == Len(t)
           st == s \o t
           p == SubSeq(t, 1, j)
           sp == s \o p
           q == SubSeq(st, 1, n + j)
<1>1. n \in Nat /\ k \in Nat /\ j \in 0 .. k
  BY LenProperties
<1>2. /\ st \in Seq(S) /\ Len(st) = n + k
      /\ \A i \in 1 .. n + k : st[i] = IF i <= n THEN s[i] ELSE t[i - n]
  BY ConcatProperties
<1>3. p \in Seq(S) /\ Len(p) = j /\ \A i \in 1 .. j : p[i] = t[i]
  <2>1. \A i \in 1 .. j : t[i] \in S
    <3>1. \A i \in 1 .. j : i \in 1 .. k
      BY <1>1
    <3> QED
      BY <3>1, ElementOfSeq
  <2> HIDE DEF k
  <2>2. /\ p \in Seq(S) /\ Len(p) = IF 1 <= j THEN j - 1 + 1 ELSE 0
        /\ \A i \in 1 .. j - 1 + 1 : p[i] = t[1 + i - 1]
    BY <1>1, <2>1, SubSeqProperties
  <2> HIDE DEF p
  <2>3. Len(p) = j
    BY <1>1, <2>2
  <2>4. ASSUME NEW i \in 1 .. j PROVE p[i] = t[i]
    <3>1. i \in 1 .. j - 1 + 1 /\ 1 + i - 1 = i
      BY <1>1
    <3> QED
      BY <2>2, <3>1
  <2> QED
    BY <2>2, <2>3, <2>4
<1> HIDE DEF p
<1>4. /\ sp \in Seq(S) /\ Len(sp) = n + Len(p)
      /\ \A i \in 1 .. n + Len(p) : sp[i] = IF i <= n THEN s[i] ELSE p[i - n]
  BY <1>3, ConcatProperties
<1> HIDE DEF n, k, st, sp
<1>5. q \in Seq(S) /\ Len(q) = n + j /\ \A i \in 1 .. n + j : q[i] = st[i]
  <2> DEFINE m == n + j
  <2>1. m \in Nat /\ m <= n + k
    BY <1>1
  <2> HIDE DEF m
  <2>2. \A i \in 1 .. m : st[i] \in S
    <3>1. \A i \in 1 .. m : i \in 1 .. n + k
      BY <1>1, <2>1
    <3> QED
      BY <1>2, <3>1, ElementOfSeq
  <2>3. /\ SubSeq(st, 1, m) \in Seq(S) /\ Len(SubSeq(st, 1, m)) = IF 1 <= m THEN m - 1 + 1 ELSE 0
        /\ \A i \in 1 .. m - 1 + 1 : SubSeq(st, 1, m)[i] = st[1 + i - 1]
    BY <2>1, <2>2, SubSeqProperties
  <2>4. q = SubSeq(st, 1, m)
    BY DEF m
  <2> HIDE DEF q
  <2>5. Len(q) = m
    BY <2>1, <2>3, <2>4
  <2>6. ASSUME NEW i \in 1 .. m PROVE q[i] = st[i]
    <3>1. i \in 1 .. m - 1 + 1 /\ 1 + i - 1 = i
      BY <2>1
    <3> QED
      BY <2>3, <2>4, <3>1
  <2> QED
    BY <2>3, <2>4, <2>5, <2>6 DEF m
<1> HIDE DEF q
<1>6. ASSUME NEW i \in 1 .. n + j PROVE sp[i] = q[i]
  <2>1. i \in 1 .. n + k /\ i \in 1 .. n + Len(p) /\ (~(i <= n) => i - n \in 1 .. j)
    BY <1>1, <1>3
  <2>2. st[i] = IF i <= n THEN s[i] ELSE t[i - n]
    BY <1>2, <2>1
  <2>3. sp[i] = IF i <= n THEN s[i] ELSE p[i - n]
    BY <1>4, <2>1
  <2>4. q[i] = st[i]
    BY <1>5
  <2>5. CASE i <= n
    BY <2>2, <2>3, <2>4, <2>5
  <2>6. CASE ~(i <= n)
    <3>1. p[i - n] = t[i - n]
      BY <1>3, <2>1, <2>6
    <3> QED
      BY <2>2, <2>3, <2>4, <2>6, <3>1
  <2> QED
    BY <2>5, <2>6
<1>7. Len(sp) = n + j
  BY <1>1, <1>3, <1>4
<1>8. sp = q
  BY <1>4, <1>5, <1>6, <1>7, SeqEqual
<1> QED
  BY <1>8 DEF sp, q, st, p, n

=============================================================================
