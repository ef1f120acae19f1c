--------------------------- MODULE FileTreeProofs ---------------------------
(***************************************************************************)
(* Proofs about FileTree, for any directory, whatever is moved away.       *)
(***************************************************************************)
EXTENDS FileTreeInvariant, GeneralProofs, FiniteSetTheorems

-----------------------------------------------------------------------------
(* Lists.                                                                  *)

LEMMA RangeOfNone == Range(<<>>) = {} /\ IsInjective(<<>>)
  BY DEF Range, IsInjective

\* The first of a list, and the others.
LEMMA RangeOfTail ==
  ASSUME NEW X, NEW s \in Seq(X), s # <<>>
  PROVE  /\ Range(s) = {Head(s)} \cup Range(Tail(s))
         /\ Range(s) \subseteq X
         /\ IsInjective(s) => Head(s) \notin Range(Tail(s)) /\ IsInjective(Tail(s))
<1> DEFINE n == Len(s)
           t == Tail(s)
<1>1. n \in Nat \ {0} /\ DOMAIN s = 1 .. n /\ s \in [1 .. n -> X]
  BY EmptySeq, LenProperties
<1>2. t \in Seq(X) /\ Len(t) = n - 1 /\ DOMAIN t = 1 .. n - 1
  BY HeadTailProperties, LenProperties
<1>3. Head(s) = s[1] /\ \A i \in 1 .. n - 1 : t[i] = s[i + 1]
  <2>1. t = SubSeq(s, 2, n)
    BY TailIsSubSeq
  <2>2. \A i \in 2 .. n : s[i] \in X
    BY <1>1
  <2>3. \A i \in 1 .. n - 2 + 1 : SubSeq(s, 2, n)[i] = s[2 + i - 1]
    BY <1>1, <2>2, SubSeqProperties
  <2>4. Head(s) = s[1]
    OBVIOUS
  <2> HIDE DEF n, t
  <2>5. ASSUME NEW i \in 1 .. n - 1 PROVE t[i] = s[i + 1]
    <3>1. i \in 1 .. n - 2 + 1 /\ 2 + i - 1 = i + 1
      BY <1>1
    <3> QED
      BY <2>1, <2>3, <3>1
  <2> QED
    BY <2>4, <2>5
<1> HIDE DEF n, t
<1>4. \A i \in 2 .. n : i - 1 \in 1 .. n - 1 /\ t[i - 1] = s[i]
  <2>1. ASSUME NEW i \in 2 .. n PROVE i - 1 \in 1 .. n - 1 /\ t[i - 1] = s[i]
    <3>1. i - 1 \in 1 .. n - 1 /\ (i - 1) + 1 = i
      BY <1>1
    <3> QED
      BY <1>3, <3>1
  <2> QED
    BY <2>1
<1>5. Range(s) = {Head(s)} \cup Range(t)
  <2>1. \A i \in 1 .. n : i = 1 \/ i \in 2 .. n
    BY <1>1
  <2>2. \A i \in 1 .. n - 1 : i + 1 \in 1 .. n
    BY <1>1
  <2>3. 1 \in 1 .. n
    BY <1>1
  <2>4. Range(s) = {s[i] : i \in 1 .. n} /\ Range(t) = {t[i] : i \in 1 .. n - 1}
    BY <1>1, <1>2 DEF Range
  <2>5. \A i \in 1 .. n : s[i] = Head(s) \/ s[i] \in Range(t)
    BY <1>3, <1>4, <2>1, <2>4
  <2>6. \A i \in 1 .. n - 1 : t[i] \in Range(s)
    BY <1>3, <2>2, <2>4
  <2>7. Head(s) \in Range(s)
    BY <1>3, <2>3, <2>4
  <2> QED
    BY <2>4, <2>5, <2>6, <2>7
<1>6. ASSUME IsInjective(s)
      PROVE  Head(s) \notin Range(t) /\ IsInjective(t)
  <2>1. \A i \in 1 .. n, j \in 1 .. n : s[i] = s[j] => i = j
    BY <1>1, <1>6 DEF IsInjective
  <2>2. \A i \in 1 .. n - 1 : i + 1 \in 1 .. n /\ i + 1 # 1
    BY <1>1
  <2>3. 1 \in 1 .. n
    BY <1>1
  <2>4. \A i \in 1 .. n - 1 : t[i] # s[1]
    BY <1>3, <2>1, <2>2, <2>3
  <2>5. ASSUME NEW i \in 1 .. n - 1, NEW j \in 1 .. n - 1, t[i] = t[j] PROVE i = j
    <3>1. i + 1 = j + 1
      BY <1>3, <2>1, <2>2, <2>5
    <3> QED
      BY <3>1
  <2> QED
    BY <1>2, <1>3, <2>4, <2>5 DEF Range, IsInjective
<1> QED
  BY <1>1, <1>5, <1>6 DEF t, Range

\* A list with one more at its end.
LEMMA RangeOfAppend ==
  ASSUME NEW X, NEW s \in Seq(X), NEW e \in X
  PROVE  /\ Append(s, e) \in Seq(X) /\ Append(s, e) # <<>>
         /\ Range(Append(s, e)) = Range(s) \cup {e}
         /\ IsInjective(s) /\ e \notin Range(s) => IsInjective(Append(s, e))
<1> DEFINE n == Len(s)
           t == Append(s, e)
<1>1. n \in Nat /\ DOMAIN s = 1 .. n
  BY LenProperties
<1>2. t \in Seq(X) /\ t # <<>> /\ Len(t) = n + 1 /\ DOMAIN t = 1 .. n + 1
  BY AppendProperties, LenProperties
<1>3. t[n + 1] = e /\ \A i \in 1 .. n : t[i] = s[i]
  BY AppendProperties
<1> HIDE DEF n, t
<1>4. \A i \in 1 .. n + 1 : i \in 1 .. n \/ i = n + 1
  BY <1>1
<1>5. n + 1 \in 1 .. n + 1 /\ \A i \in 1 .. n : i \in 1 .. n + 1
  BY <1>1
<1>6. Range(t) = Range(s) \cup {e}
  BY <1>1, <1>2, <1>3, <1>4, <1>5 DEF Range
<1>7. ASSUME IsInjective(s), e \notin Range(s) PROVE IsInjective(t)
  BY <1>1, <1>2, <1>3, <1>4, <1>7 DEF Range, IsInjective
<1> QED
  BY <1>2, <1>6, <1>7 DEF t

\* Two lists, one after the other.
LEMMA RangeOfConcat ==
  ASSUME NEW X, NEW s \in Seq(X), NEW t \in Seq(X)
  PROVE  /\ s \o t \in Seq(X)
         /\ Range(s \o t) = Range(s) \cup Range(t)
         /\ IsInjective(s) /\ IsInjective(t) /\ Range(s) \cap Range(t) = {} => IsInjective(s \o t)
<1> DEFINE m == Len(s)
           n == Len(t)
           u == s \o t
<1>1. m \in Nat /\ n \in Nat /\ DOMAIN s = 1 .. m /\ DOMAIN t = 1 .. n
  BY LenProperties
<1>2. u \in Seq(X) /\ Len(u) = m + n /\ DOMAIN u = 1 .. m + n
  BY ConcatProperties, LenProperties
<1>3. \A i \in 1 .. m + n : u[i] = IF i <= m THEN s[i] ELSE t[i - m]
  BY ConcatProperties
<1> HIDE DEF m, n, u
<1>4. \A i \in 1 .. m : i \in 1 .. m + n /\ u[i] = s[i]
  BY <1>1, <1>3
<1>5. \A i \in 1 .. n : i + m \in 1 .. m + n /\ u[i + m] = t[i]
  <2>1. ASSUME NEW i \in 1 .. n PROVE i + m \in 1 .. m + n /\ u[i + m] = t[i]
    <3>1. i + m \in 1 .. m + n /\ ~(i + m <= m) /\ (i + m) - m = i
      BY <1>1
    <3> QED
      BY <1>3, <3>1
  <2> QED
    BY <2>1
<1>6. \A i \in 1 .. m + n : i \in 1 .. m \/ \E j \in 1 .. n : i = j + m
  <2>1. ASSUME NEW i \in 1 .. m + n, i \notin 1 .. m PROVE \E j \in 1 .. n : i = j + m
    <3>1. i - m \in 1 .. n /\ i = (i - m) + m
      BY <1>1, <2>1
    <3> QED
      BY <3>1
  <2> QED
    BY <2>1
<1>7. Range(u) = Range(s) \cup Range(t)
  <2>1. /\ Range(u) = {u[i] : i \in 1 .. m + n}
        /\ Range(s) = {s[i] : i \in 1 .. m} /\ Range(t) = {t[i] : i \in 1 .. n}
    BY <1>1, <1>2 DEF Range
  <2>2. \A i \in 1 .. m : s[i] \in Range(u)
    BY <1>4, <2>1
  <2>3. \A i \in 1 .. n : t[i] \in Range(u)
    BY <1>5, <2>1
  <2>4. \A i \in 1 .. m + n : u[i] \in Range(s) \/ u[i] \in Range(t)
    BY <1>4, <1>5, <1>6, <2>1
  <2> QED
    BY <2>1, <2>2, <2>3, <2>4
<1>8. ASSUME IsInjective(s), IsInjective(t), Range(s) \cap Range(t) = {},
             NEW i \in 1 .. m + n, NEW j \in 1 .. m + n, u[i] = u[j]
      PROVE  i = j
  <2>1. \A a \in 1 .. m, b \in 1 .. n : s[a] # t[b]
    BY <1>1, <1>8 DEF Range
  <2>2. \A a \in 1 .. m, b \in 1 .. m : s[a] = s[b] => a = b
    BY <1>1, <1>8 DEF IsInjective
  <2>3. \A a \in 1 .. n, b \in 1 .. n : t[a] = t[b] => a = b
    BY <1>1, <1>8 DEF IsInjective
  <2>4. CASE i \in 1 .. m /\ j \in 1 .. m
    BY <1>4, <1>8, <2>2, <2>4
  <2>5. ASSUME NEW a \in 1 .. n, NEW b \in 1 .. n, i = a + m, j = b + m PROVE i = j
    BY <1>5, <1>8, <2>3, <2>5
  <2>6. ASSUME NEW a \in 1 .. m, NEW b \in 1 .. n, u[a] = u[b + m] PROVE FALSE
    BY <1>4, <1>5, <2>1, <2>6
  <2> QED
    BY <1>6, <1>8, <2>4, <2>5, <2>6
<1>9. ASSUME IsInjective(s), IsInjective(t), Range(s) \cap Range(t) = {} PROVE IsInjective(u)
  BY <1>2, <1>8, <1>9 DEF IsInjective
<1> QED
  BY <1>2, <1>7, <1>9 DEF u

-----------------------------------------------------------------------------
(* Reading a directory.                                                    *)

\* A finite set can be listed by a key, if no two members have the same.
LEMMA Sortable ==
  ASSUME NEW S, IsFiniteSet(S), NEW key \in [S -> Nat], IsInjective(key)
  PROVE  \E s \in [1 .. Cardinality(S) -> S] :
           \A i \in DOMAIN s, j \in DOMAIN s : i < j => key[s[i]] < key[s[j]]
<1> DEFINE Sorted(T, n) ==
             \E s \in [1 .. n -> T] :
               \A i \in 1 .. n, j \in 1 .. n : i < j => key[s[i]] < key[s[j]]
           A == {n \in Nat : \A T \in SUBSET S : Cardinality(T) = n => Sorted(T, n)}
<1>1. 0 \in A
  <2>1. ASSUME NEW T \in SUBSET S PROVE Sorted(T, 0)
    <3> DEFINE s == [i \in 1 .. 0 |-> i]
    <3>1. s \in [1 .. 0 -> T] /\ \A i \in 1 .. 0 : FALSE
      OBVIOUS
    <3> QED
      BY <3>1
  <2> QED
    BY <2>1
<1>2. ASSUME NEW n \in Nat, n \in A PROVE n + 1 \in A
  <2>1. ASSUME NEW T \in SUBSET S, Cardinality(T) = n + 1 PROVE Sorted(T, n + 1)
    <3>1. IsFiniteSet(T) /\ T # {}
      <4>1. IsFiniteSet(T)
        BY FS_Subset
      <4>2. n + 1 # 0
        OBVIOUS
      <4> QED
        BY <2>1, <4>1, <4>2, FS_EmptySet
    <3>2. PICK m \in T : \A x \in T : key[m] <= key[x]
      <4> DEFINE K == {key[x] : x \in T}
      <4>1. K \in SUBSET Nat /\ K # {}
        BY <3>1
      <4>2. PICK k \in K : \A l \in K : k <= l
        BY <4>1, NatMin
      <4> QED
        BY <4>2
    <3> DEFINE U == T \ {m}
    <3>3. Cardinality(U) = n /\ U \in SUBSET S
      <4>1. Cardinality(U) = Cardinality(T) - 1
        BY <3>1, FS_RemoveElement
      <4>2. (n + 1) - 1 = n
        OBVIOUS
      <4> QED
        BY <2>1, <4>1, <4>2
    <3>4. PICK s \in [1 .. n -> U] :
            \A i \in 1 .. n, j \in 1 .. n : i < j => key[s[i]] < key[s[j]]
      BY <1>2, <3>3
    <3>5. \A x \in U : key[m] < key[x]
      <4>1. ASSUME NEW x \in U PROVE key[m] < key[x]
        <5>1. key[m] # key[x]
          BY DEF IsInjective
        <5>2. key[m] \in Nat /\ key[x] \in Nat /\ key[m] <= key[x]
          BY <3>2
        <5> QED
          BY <5>1, <5>2
      <4> QED
        BY <4>1
    <3> DEFINE z == [i \in 1 .. n + 1 |-> IF i = 1 THEN m ELSE s[i - 1]]
    <3>6. \A i \in 1 .. n + 1 : i # 1 => i - 1 \in 1 .. n /\ z[i] = s[i - 1] /\ z[i] \in U
      <4>1. \A i \in 1 .. n + 1 : i # 1 => i - 1 \in 1 .. n
        OBVIOUS
      <4> QED
        BY <4>1
    <3>7. 1 \in 1 .. n + 1 /\ z[1] = m
      OBVIOUS
    <3>8. z \in [1 .. n + 1 -> T]
      BY <3>6, <3>7
    <3>9. ASSUME NEW i \in 1 .. n + 1, NEW j \in 1 .. n + 1, i < j
          PROVE  key[z[i]] < key[z[j]]
      <4>1. j # 1
        BY <3>9
      <4>2. CASE i = 1
        BY <3>5, <3>6, <3>7, <4>1, <4>2
      <4>3. CASE i # 1
        <5>1. i - 1 < j - 1
          BY <3>9
        <5> QED
          BY <3>4, <3>6, <4>1, <4>3, <5>1
      <4> QED
        BY <4>2, <4>3
    <3> HIDE DEF z
    <3> QED
      BY <3>8, <3>9
  <2> HIDE DEF Sorted
  <2> QED
    BY <2>1
<1>3. Cardinality(S) \in Nat
  BY FS_CardinalityType
<1>4. Sorted(S, Cardinality(S))
  <2> HIDE DEF Sorted
  <2>1. Nat \subseteq A
    <3> HIDE DEF A
    <3> QED
      BY <1>1, <1>2, Induct
  <2> QED
    BY <1>3, <2>1
<1> QED
  BY <1>3, <1>4

\* SetToSeqs makes lists of a set's members, in which each is once.
LEMMA ListOfSet ==
  ASSUME NEW S, IsFiniteSet(S), NEW s \in SetToSeqs(S)
  PROVE  s \in Seq(S) /\ IsInjective(s) /\ Range(s) = S
<1> DEFINE n == Cardinality(S)
<1>1. n \in Nat
  BY FS_CardinalityType
<1>2. s \in [1 .. n -> S] /\ \A i \in 1 .. n, j \in 1 .. n : i # j => s[i] # s[j]
  BY DEF SetToSeqs
<1> HIDE DEF n
<1>3. s \in Seq(S) /\ DOMAIN s = 1 .. n
  BY <1>1, <1>2, FunctionIsSeq
<1>4. IsInjective(s)
  BY <1>2, <1>3 DEF IsInjective
<1>5. s \in Injection(1 .. n, S)
  BY <1>2, <1>4 DEF Injection
<1>6. Cardinality(1 .. n) = n
  <2>1. 0 \in Int /\ 1 \in Int /\ n \in Int
    BY <1>1
  <2>2. Cardinality(1 .. n) = IF 1 > n THEN 0 ELSE n - 1 + 1
    BY <2>1, FS_Interval
  <2> QED
    BY <1>1, <2>2
<1>7. s \in Surjection(1 .. n, S)
  BY <1>5, <1>6, FS_Injection DEF n
<1>8. Range(s) = S
  <2>1. \A x \in S : \E i \in 1 .. n : s[i] = x
    BY <1>7 DEF Surjection
  <2>2. Range(s) = {s[i] : i \in 1 .. n}
    BY <1>3 DEF Range
  <2> QED
    BY <1>2, <2>1, <2>2
<1> QED
  BY <1>3, <1>4, <1>8

\* ReadDir: everything that is there, each entry once.
LEMMA ReadDirIs ==
  ASSUME IsTree(tree), here \subseteq Entries, NEW dir
  PROVE  /\ ReadDir(dir) \in Lists /\ IsInjective(ReadDir(dir))
         /\ Range(ReadDir(dir)) = {e \in here : tree[e].parent = dir}
<1> DEFINE S == {e \in here : tree[e].parent = dir}
           key == [e \in S |-> tree[e].name]
<1>1. IsFiniteSet(S) /\ S \subseteq Entries
  <2>1. S \in SUBSET Entries /\ IsFiniteSet(Entries)
    BY FileTreeAssumption
  <2> QED
    BY <2>1, FS_Subset
<1>2. key \in [S -> Nat] /\ IsInjective(key)
  <2>1. \A e \in S : tree[e].name \in Nat
    BY DEF IsTree, EntryRecords
  <2>2. \A e \in S, f \in S : tree[e].name = tree[f].name => e = f
    BY DEF IsTree
  <2> QED
    BY <2>1, <2>2 DEF IsInjective
<1>3. PICK s \in [1 .. Cardinality(S) -> S] :
        \A i \in DOMAIN s, j \in DOMAIN s : i < j => key[s[i]] < key[s[j]]
  <2> HIDE DEF S, key
  <2> QED
    BY <1>1, <1>2, Sortable
<1>4. Cardinality(S) \in Nat
  <2> HIDE DEF S
  <2> QED
    BY <1>1, FS_CardinalityType
<1>5. s \in SetToSeqs(S)
  <2> DEFINE D == 1 .. Cardinality(S)
  <2>1. ASSUME NEW i \in D, NEW j \in D, i # j PROVE s[i] # s[j]
    <3>1. i < j \/ j < i
      BY <1>4, <2>1
    <3>2. s[i] \in S /\ s[j] \in S /\ key[s[i]] \in Nat /\ key[s[j]] \in Nat
      BY <1>2, <1>3
    <3> HIDE DEF S, key
    <3>3. key[s[i]] < key[s[j]] \/ key[s[j]] < key[s[i]]
      BY <1>3, <3>1
    <3> QED
      BY <3>2, <3>3
  <2> HIDE DEF S
  <2> QED
    BY <1>3, <2>1 DEF SetToSeqs
<1>6. \A i, j \in DOMAIN s : i < j => tree[s[i]].name < tree[s[j]].name
  BY <1>3
<1>7. ReadDir(dir) \in SetToSeqs(S)
  BY <1>5, <1>6 DEF ReadDir
<1>8. ReadDir(dir) \in Seq(S) /\ IsInjective(ReadDir(dir)) /\ Range(ReadDir(dir)) = S
  <2> HIDE DEF S
  <2> QED
    BY <1>1, <1>7, ListOfSet
<1>9. ReadDir(dir) \in Lists
  <2> HIDE DEF S
  <2> QED
    BY <1>1, <1>8, SeqMonotonic DEF Lists
<1> QED
  BY <1>8, <1>9

-----------------------------------------------------------------------------
(* Sums.                                                                   *)

\* it gives the sum of the weights w of the members of every subset of D.
Pick(s) == CHOOSE x \in s : TRUE
Step(D, w, it) ==
  [s \in SUBSET D |-> IF s = {} THEN 0 ELSE it[s \ {Pick(s)}] + w[Pick(s)]]

IsSums(D, w, it) == IsFiniteSet(D) /\ w \in [D -> Nat] /\ it = Step(D, w, it)

LEMMA SumsExist ==
  ASSUME NEW D, IsFiniteSet(D), NEW w \in [D -> Nat]
  PROVE  \E it : IsSums(D, w, it)
<1> DEFINE S == SUBSET D
           size == [s \in S |-> Cardinality(s)]
           next == [s \in S |-> s \ {Pick(s)}]
           base == [s \in S |-> 0]
           step == [p \in S \X Nat |-> IF p[1] = {} THEN 0 ELSE p[2] + w[Pick(p[1])]]
<1>1. \A s \in S : s # {} => Pick(s) \in s /\ Pick(s) \in D
  BY DEF Pick
<1>2. ASSUME NEW s \in S
      PROVE  /\ Cardinality(s) \in Nat
             /\ s # {} => Cardinality(s \ {Pick(s)}) < Cardinality(s)
  <2>1. IsFiniteSet(s)
    BY FS_Subset
  <2>2. Cardinality(s) \in Nat
    BY <2>1, FS_CardinalityType
  <2>3. ASSUME s # {} PROVE Cardinality(s \ {Pick(s)}) < Cardinality(s)
    <3>1. Cardinality(s \ {Pick(s)}) = Cardinality(s) - 1
      BY <1>1, <2>1, <2>3, FS_RemoveElement
    <3> QED
      BY <2>2, <3>1
  <2> QED
    BY <2>2, <2>3
<1>3. size \in [S -> Nat] /\ next \in [S -> S] /\ base \in [S -> Nat]
  BY <1>2
<1>4. step \in [S \X Nat -> Nat]
  <2>1. ASSUME NEW p \in S \X Nat, p[1] # {} PROVE p[2] + w[Pick(p[1])] \in Nat
    <3>1. p[1] \in S /\ p[2] \in Nat
      OBVIOUS
    <3>2. w[Pick(p[1])] \in Nat
      BY <1>1, <2>1, <3>1
    <3> QED
      BY <3>1, <3>2
  <2> QED
    BY <2>1
<1>5. \A s \in S : s \notin {{}} => size[next[s]] < size[s]
  BY <1>2
<1>6. PICK f \in [S -> Nat] : \A s \in S : Recursive(f, s, base, step, next, {{}})
  <2> HIDE DEF S, size, next, base, step
  <2>1. IsRecursion(S, size, next, Nat, {{}}, base, step)
    BY <1>3, <1>4, <1>5 DEF IsRecursion
  <2> QED
    BY <2>1, RecursionExists
<1>7. ASSUME NEW s \in S PROVE f[s] = IF s = {} THEN 0 ELSE f[s \ {Pick(s)}] + w[Pick(s)]
  <2>1. f[s] = IF s \in {{}} THEN base[s] ELSE step[<<s, f[next[s]]>>]
    BY <1>6 DEF Recursive
  <2>2. f[next[s]] \in Nat
    BY <1>3
  <2> QED
    BY <2>1, <2>2
<1>8. f = Step(D, w, f)
  BY <1>7 DEF Step
<1> QED
  BY <1>8 DEF IsSums

\* The order in which the members are added makes no difference.
LEMMA SumsAre ==
  ASSUME NEW D, NEW w, NEW it, IsSums(D, w, it)
  PROVE  /\ it[{}] = 0
         /\ \A s \in SUBSET D : it[s] \in Nat
         /\ \A s \in SUBSET D : \A x \in s : it[s] = it[s \ {x}] + w[x]
<1> USE DEF IsSums
<1>1. /\ it[{}] = 0
      /\ \A s \in SUBSET D : s # {} =>
           Pick(s) \in s /\ Pick(s) \in D /\ it[s] = it[s \ {Pick(s)}] + w[Pick(s)]
  <2>1. {} \in SUBSET D
    OBVIOUS
  <2>2. \A s \in SUBSET D : it[s] = IF s = {} THEN 0 ELSE it[s \ {Pick(s)}] + w[Pick(s)]
    BY DEF Step
  <2>3. \A s \in SUBSET D : s # {} => Pick(s) \in s /\ Pick(s) \in D
    BY DEF Pick
  <2> QED
    BY <2>1, <2>2, <2>3
<1> DEFINE Right(s) == it[s] \in Nat /\ \A x \in s : it[s] = it[s \ {x}] + w[x]
           A == {n \in Nat : \A s \in SUBSET D : Cardinality(s) <= n => Right(s)}
<1>2. \A s \in SUBSET D : IsFiniteSet(s) /\ Cardinality(s) \in Nat
  BY FS_Subset, FS_CardinalityType
<1>3. \A s \in SUBSET D : \A x \in s : Cardinality(s \ {x}) = Cardinality(s) - 1
  BY <1>2, FS_RemoveElement
<1>4. Right({})
  BY <1>1
<1>5. 0 \in A
  <2>1. ASSUME NEW s \in SUBSET D, Cardinality(s) <= 0 PROVE s = {}
    <3>1. Cardinality(s) = 0
      BY <1>2, <2>1
    <3> QED
      BY <1>2, <3>1, FS_EmptySet
  <2> HIDE DEF Right
  <2> QED
    BY <1>4, <2>1
<1>6. ASSUME NEW n \in Nat, n \in A PROVE n + 1 \in A
  <2>1. ASSUME NEW s \in SUBSET D, Cardinality(s) <= n + 1, s # {} PROVE Right(s)
    <3> DEFINE c == Pick(s)
    <3>1. c \in s /\ it[s] = it[s \ {c}] + w[c]
      BY <1>1, <2>1
    <3>2. ASSUME NEW x \in s, NEW t \in SUBSET (s \ {x}) PROVE Right(t)
      <4>1. Cardinality(s \ {x}) <= n
        <5>1. Cardinality(s \ {x}) = Cardinality(s) - 1 /\ Cardinality(s) \in Nat
          BY <1>2, <1>3
        <5> QED
          BY <2>1, <5>1
      <4>2. Cardinality(t) <= Cardinality(s \ {x}) /\ t \in SUBSET D
        BY <1>2, FS_Subset
      <4>3. Cardinality(t) <= n
        BY <1>2, <4>1, <4>2
      <4> HIDE DEF Right
      <4> QED
        BY <1>6, <4>2, <4>3
    <3>3. ASSUME NEW x \in s, x # c PROVE it[s] = it[s \ {x}] + w[x]
      <4> DEFINE r == (s \ {c}) \ {x}
      <4>1. r = (s \ {x}) \ {c} /\ x \in s \ {c} /\ c \in s \ {x}
        BY <3>1, <3>3
      <4>2. it[s \ {c}] = it[r] + w[x]
        BY <3>1, <3>2, <4>1
      <4>3. it[s \ {x}] = it[r] + w[c]
        BY <3>2, <4>1
      <4>4. it[r] \in Nat /\ w[x] \in Nat /\ w[c] \in Nat
        BY <3>1, <3>2
      <4> HIDE DEF r
      <4> QED
        BY <3>1, <4>2, <4>3, <4>4
    <3>4. it[s] \in Nat
      <4>1. it[s \ {c}] \in Nat /\ w[c] \in Nat
        BY <3>1, <3>2
      <4> QED
        BY <3>1, <4>1
    <3> QED
      BY <3>1, <3>3, <3>4
  <2> HIDE DEF Right
  <2> QED
    BY <1>4, <2>1
<1>7. Nat \subseteq A
  <2> HIDE DEF A
  <2> QED
    BY <1>5, <1>6, Induct
<1>8. ASSUME NEW s \in SUBSET D PROVE Right(s)
  <2>1. Cardinality(s) \in Nat /\ Cardinality(s) <= Cardinality(s)
    BY <1>2
  <2> HIDE DEF Right
  <2> QED
    BY <1>7, <2>1
<1> QED
  BY <1>1, <1>8

\* Sums over a set depend on the weights of its members only.
LEMMA SumsAgree ==
  ASSUME NEW D, NEW w, NEW it, IsSums(D, w, it),
         NEW E, NEW v, NEW jt, IsSums(E, v, jt),
         NEW S, S \subseteq D, S \subseteq E, \A x \in S : w[x] = v[x]
  PROVE  it[S] = jt[S]
<1> DEFINE A == {n \in Nat : \A s \in SUBSET S : Cardinality(s) = n => it[s] = jt[s]}
<1>1. /\ it[{}] = 0 /\ \A s \in SUBSET D : \A x \in s : it[s] = it[s \ {x}] + w[x]
      /\ jt[{}] = 0 /\ \A s \in SUBSET E : \A x \in s : jt[s] = jt[s \ {x}] + v[x]
  <2>1. it[{}] = 0 /\ \A s \in SUBSET D : \A x \in s : it[s] = it[s \ {x}] + w[x]
    BY SumsAre
  <2>2. jt[{}] = 0 /\ \A s \in SUBSET E : \A x \in s : jt[s] = jt[s \ {x}] + v[x]
    BY SumsAre
  <2> QED
    BY <2>1, <2>2
<1>2. \A s \in SUBSET S : IsFiniteSet(s) /\ Cardinality(s) \in Nat
  <2>1. IsFiniteSet(S)
    BY FS_Subset DEF IsSums
  <2> QED
    BY <2>1, FS_Subset, FS_CardinalityType
<1>3. 0 \in A
  BY <1>1, <1>2, FS_EmptySet
<1>4. ASSUME NEW n \in Nat, n \in A PROVE n + 1 \in A
  <2>1. ASSUME NEW s \in SUBSET S, Cardinality(s) = n + 1 PROVE it[s] = jt[s]
    <3>1. s # {}
      <4>1. n + 1 # 0
        OBVIOUS
      <4> QED
        BY <2>1, <4>1, FS_EmptySet
    <3>2. PICK x \in s : TRUE
      BY <3>1
    <3>3. Cardinality(s \ {x}) = n
      <4>1. Cardinality(s \ {x}) = Cardinality(s) - 1 /\ (n + 1) - 1 = n
        BY <1>2, FS_RemoveElement
      <4> QED
        BY <2>1, <4>1
    <3>4. it[s \ {x}] = jt[s \ {x}]
      BY <1>4, <3>3
    <3>5. it[s] = it[s \ {x}] + w[x] /\ jt[s] = jt[s \ {x}] + v[x] /\ w[x] = v[x]
      BY <1>1
    <3> QED
      BY <3>4, <3>5
  <2> QED
    BY <2>1
<1>5. Nat \subseteq A
  <2> HIDE DEF A
  <2> QED
    BY <1>3, <1>4, Induct
<1> QED
  BY <1>2, <1>5

\* Weigh(list, size): the weights of a list's places.
Weigh(list, size) == [i \in DOMAIN list |-> size[list[i]]]

LEMMA WeighIs ==
  ASSUME NEW X, NEW list \in Seq(X), NEW size \in [X -> Nat]
  PROVE  /\ IsFiniteSet(DOMAIN list)
         /\ Weigh(list, size) \in [DOMAIN list -> Nat]
<1>1. DOMAIN list = 1 .. Len(list) /\ Len(list) \in Nat /\ \A i \in DOMAIN list : list[i] \in X
  BY LenProperties
<1>2. IsFiniteSet(1 .. Len(list))
  <2>1. 1 \in Int /\ Len(list) \in Int
    BY <1>1
  <2> QED
    BY <2>1, FS_Interval
<1> QED
  BY <1>1, <1>2 DEF Weigh

LEMMA TotalIsSum ==
  ASSUME NEW X, NEW list \in Seq(X), NEW size \in [X -> Nat]
  PROVE  \E it : /\ IsSums(DOMAIN list, Weigh(list, size), it)
                 /\ Total(list, size) = it[DOMAIN list]
<1> DEFINE D == DOMAIN list
           Fold(f) == [s \in SUBSET D |->
                         IF s = {} THEN 0
                         ELSE f[s \ {CHOOSE x \in s : TRUE}] + size[list[CHOOSE x \in s : TRUE]]]
           it == CHOOSE f : f = Fold(f)
<1>1. Total(list, size) = it[D]
  BY DEF Total, FoldSeq, FoldFunction, FoldFunctionOnSet, MapThenFoldSet
<1>2. ASSUME NEW f PROVE Fold(f) = Step(D, Weigh(list, size), f)
  <2>1. ASSUME NEW s \in SUBSET D, s # {} PROVE Weigh(list, size)[Pick(s)] = size[list[Pick(s)]]
    BY <2>1 DEF Weigh, Pick
  <2> QED
    BY <2>1, SMTT(20) DEF Step, Pick
<1>3. PICK f : f = Step(D, Weigh(list, size), f)
  BY WeighIs, SumsExist DEF IsSums
<1>4. it = Fold(it)
  <2>1. f = Fold(f)
    BY <1>2, <1>3
  <2> HIDE DEF Fold
  <2> QED
    BY <2>1
<1> HIDE DEF it, Fold
<1>5. IsSums(D, Weigh(list, size), it)
  BY <1>2, <1>4, WeighIs DEF IsSums
<1> QED
  BY <1>1, <1>5

\* The total of a list that is extended is the total before and what is added.
LEMMA TotalOfNone ==
  ASSUME NEW X, NEW size \in [X -> Nat]
  PROVE  Total(<<>>, size) = 0
<1>1. <<>> \in Seq(X) /\ DOMAIN <<>> = {}
  <2>1. <<>> \in Seq(X) /\ Len(<<>>) = 0
    BY EmptySeq
  <2> QED
    BY <2>1, LenProperties
<1>2. PICK it : IsSums(DOMAIN <<>>, Weigh(<<>>, size), it) /\ Total(<<>>, size) = it[DOMAIN <<>>]
  BY <1>1, TotalIsSum
<1>3. it[{}] = 0
  BY <1>2, SumsAre
<1> QED
  BY <1>1, <1>2, <1>3

LEMMA TotalOfAppend ==
  ASSUME NEW X, NEW list \in Seq(X), NEW e \in X, NEW size \in [X -> Nat]
  PROVE  Total(Append(list, e), size) = Total(list, size) + size[e] /\ Total(list, size) \in Nat
<1> DEFINE n == Len(list)
           longer == Append(list, e)
           D == DOMAIN list
           E == DOMAIN longer
           w == Weigh(list, size)
           v == Weigh(longer, size)
<1>1. n \in Nat /\ D = 1 .. n
  BY LenProperties
<1>2. longer \in Seq(X) /\ Len(longer) = n + 1 /\ E = 1 .. n + 1
  BY AppendProperties, LenProperties
<1>3. longer[n + 1] = e /\ \A i \in 1 .. n : longer[i] = list[i]
  BY AppendProperties
<1> HIDE DEF longer
<1>4. PICK it : IsSums(D, w, it) /\ Total(list, size) = it[D]
  BY TotalIsSum
<1>5. PICK jt : IsSums(E, v, jt) /\ Total(longer, size) = jt[E]
  BY <1>2, TotalIsSum
<1>6. /\ n + 1 \in E /\ E \ {n + 1} = D /\ D \subseteq E
  BY <1>1, <1>2
<1>7. v[n + 1] = size[e] /\ \A i \in D : v[i] = w[i]
  BY <1>1, <1>2, <1>3, <1>6 DEF Weigh
<1> HIDE DEF D, E, w, v
<1>8. it[D] = jt[D]
  BY <1>4, <1>5, <1>6, <1>7, SumsAgree
<1>9. jt[E] = jt[D] + v[n + 1]
  <2>1. IsSums(E, v, jt)
    BY <1>5
  <2>2. \A s \in SUBSET E : \A x \in s : jt[s] = jt[s \ {x}] + v[x]
    <3>1. /\ jt[{}] = 0
          /\ \A s \in SUBSET E : jt[s] \in Nat
          /\ \A s \in SUBSET E : \A x \in s : jt[s] = jt[s \ {x}] + v[x]
      BY <2>1, SumsAre
    <3> QED
      BY <3>1
  <2> QED
    BY <1>6, <2>2
<1>10. it[D] \in Nat
  BY <1>4, SumsAre
<1> QED
  BY <1>4, <1>5, <1>7, <1>8, <1>9, <1>10 DEF longer

\* Totals of a list whose members weigh the same.
LEMMA TotalAgrees ==
  ASSUME NEW X, NEW list \in Seq(X),
         NEW size \in [X -> Nat], NEW other \in [X -> Nat]
  PROVE  (\A e \in Range(list) : size[e] = other[e]) => Total(list, size) = Total(list, other)
<1> HAVE \A e \in Range(list) : size[e] = other[e]
<1> DEFINE D == DOMAIN list
           w == Weigh(list, size)
           v == Weigh(list, other)
<1>1. PICK it : IsSums(D, w, it) /\ Total(list, size) = it[D]
  BY TotalIsSum
<1>2. PICK jt : IsSums(D, v, jt) /\ Total(list, other) = jt[D]
  BY TotalIsSum
<1>3. \A i \in D : w[i] = v[i]
  BY DEF Weigh, Range
<1> HIDE DEF D, w, v
<1> QED
  BY <1>1, <1>2, <1>3, SumsAgree

\* The same for weights of nodes and of entries.
LEMMA InnerTotal ==
  ASSUME NEW list \in Seq(Entries), list \in Seq(Nodes),
         NEW size \in [Nodes -> Nat], NEW other \in [Entries -> Nat]
  PROVE  (\A e \in Range(list) : size[e] = other[e]) => Total(list, size) = Total(list, other)
<1> HAVE \A e \in Range(list) : size[e] = other[e]
<1> DEFINE D == DOMAIN list
           w == Weigh(list, size)
           v == Weigh(list, other)
<1>1. PICK it : IsSums(D, w, it) /\ Total(list, size) = it[D]
  BY TotalIsSum
<1>2. PICK jt : IsSums(D, v, jt) /\ Total(list, other) = jt[D]
  BY TotalIsSum
<1>3. \A i \in D : w[i] = v[i]
  BY DEF Weigh, Range
<1> HIDE DEF D, w, v
<1> QED
  BY <1>1, <1>2, <1>3, SumsAgree

LEMMA TotalOfConcat ==
  ASSUME NEW X, NEW s \in Seq(X), NEW t \in Seq(X), NEW size \in [X -> Nat]
  PROVE  /\ Total(s \o t, size) = Total(s, size) + Total(t, size)
         /\ Total(s, size) \in Nat /\ Total(t, size) \in Nat
<1> DEFINE Right(u) == /\ Total(s \o u, size) = Total(s, size) + Total(u, size)
                       /\ Total(u, size) \in Nat
           G == {u \in Seq(X) : Right(u)}
<1>1. \A u \in Seq(X) : Total(u, size) \in Nat
  <2>1. \A x \in X, u \in Seq(X) : Total(u, size) \in Nat
    BY TotalOfAppend
  <2>2. CASE X = {}
    <3>1. \A u \in Seq(X) : u = <<>>
      <4>1. ASSUME NEW u \in Seq(X), u # <<>> PROVE FALSE
        BY <2>2, <4>1, HeadTailProperties
      <4> QED
        BY <4>1
    <3>2. Total(<<>>, size) = 0
      BY TotalOfNone
    <3> QED
      BY <3>1, <3>2
  <2> QED
    BY <2>1, <2>2
<1>2. <<>> \in G
  <2>1. <<>> \in Seq(X) /\ s \o <<>> = s
    BY EmptySeq, ConcatEmptySeq
  <2>2. Total(<<>>, size) = 0
    BY TotalOfNone
  <2>3. Total(s, size) \in Nat
    BY <1>1
  <2> QED
    BY <2>1, <2>2, <2>3
<1>3. ASSUME NEW u \in Seq(X), NEW e \in X, u \in G PROVE Append(u, e) \in G
  <2>1. Append(u, e) \in Seq(X) /\ s \o u \in Seq(X)
    BY AppendProperties, ConcatProperties
  <2>2. s \o Append(u, e) = Append(s \o u, e)
    <3>1. <<e>> \in Seq(X) /\ Append(u, e) = u \o <<e>> /\ Append(s \o u, e) = (s \o u) \o <<e>>
      BY <2>1, AppendIsConcat
    <3> QED
      BY <3>1, ConcatAssociative, SMTT(20)
  <2>3. Total(Append(s \o u, e), size) = Total(s \o u, size) + size[e]
    BY <2>1, TotalOfAppend
  <2>4. Total(Append(u, e), size) = Total(u, size) + size[e]
    BY TotalOfAppend
  <2>5. Total(s, size) \in Nat /\ Total(u, size) \in Nat /\ size[e] \in Nat
    BY <1>1
  <2>6. Total(s \o u, size) = Total(s, size) + Total(u, size)
    BY <1>3
  <2>7. Right(Append(u, e))
    BY <2>2, <2>3, <2>4, <2>5, <2>6
  <2> HIDE DEF Right
  <2> QED
    BY <2>1, <2>7
<1>4. Seq(X) \subseteq G
  <2> HIDE DEF G
  <2> QED
    BY <1>2, <1>3, SeqInduct
<1> QED
  BY <1>1, <1>4

-----------------------------------------------------------------------------
(* Lists of lists.                                                         *)

\* flat[i]: the first i of the lists, one after the other.
Flattened(seqs, n, flat) ==
  \A i \in 1 .. n : flat[i] = IF i = 1 THEN seqs[i] ELSE flat[i - 1] \o seqs[i]

LEMMA FlattenExists ==
  ASSUME NEW X, NEW seqs \in Seq(Seq(X)), seqs # <<>>
  PROVE  \E flat \in [1 .. Len(seqs) -> Seq(X)] :
           Flattened(seqs, Len(seqs), flat) /\ FlattenSeq(seqs) = flat[Len(seqs)]
<1> DEFINE n == Len(seqs)
           S == 1 .. n
           V == Seq(X)
           Step1(f) == [i \in S |-> IF i = 1 THEN seqs[i] ELSE f[i - 1] \o seqs[i]]
           it == CHOOSE f : f = Step1(f)
           size == [i \in S |-> i]
           next == [i \in S |-> IF i = 1 THEN 1 ELSE i - 1]
           base == [i \in S |-> seqs[i]]
           step == [p \in S \X V |-> p[2] \o seqs[p[1]]]
<1>1. n \in Nat \ {0} /\ \A i \in S : seqs[i] \in V
  BY EmptySeq, LenProperties
<1>2. FlattenSeq(seqs) = it[n]
  BY <1>1 DEF FlattenSeq
<1>3. size \in [S -> Nat] /\ next \in [S -> S] /\ base \in [S -> V]
      /\ \A i \in S : i \notin {1} => size[next[i]] < size[i]
  BY <1>1
<1>4. step \in [S \X V -> V]
  <2>1. ASSUME NEW p \in S \X V PROVE p[2] \o seqs[p[1]] \in V
    <3>1. p[2] \in V /\ seqs[p[1]] \in V
      BY <1>1
    <3> QED
      BY <3>1, ConcatProperties
  <2> HIDE DEF V
  <2> QED
    BY <2>1
<1>5. PICK f \in [S -> V] : \A i \in S : Recursive(f, i, base, step, next, {1})
  <2> HIDE DEF S, V, size, next, base, step
  <2>1. IsRecursion(S, size, next, V, {1}, base, step)
    BY <1>3, <1>4 DEF IsRecursion
  <2> QED
    BY <2>1, RecursionExists
<1>6. ASSUME NEW i \in S PROVE f[i] = IF i = 1 THEN seqs[i] ELSE f[i - 1] \o seqs[i]
  <2>1. f[i] = IF i \in {1} THEN base[i] ELSE step[<<i, f[next[i]]>>]
    BY <1>5 DEF Recursive
  <2>2. CASE i = 1
    BY <2>1, <2>2
  <2>3. CASE i # 1
    <3>1. next[i] = i - 1 /\ next[i] \in S
      BY <1>1, <2>3
    <3>2. <<i, f[i - 1]>> \in S \X V
      BY <3>1
    <3> HIDE DEF V, S, next
    <3> QED
      BY <2>1, <2>3, <3>1, <3>2
  <2> QED
    BY <2>2, <2>3
<1>7. f = Step1(f)
  BY <1>6
<1>8. it = Step1(it)
  BY <1>7
<1> HIDE DEF it
<1>9. \A i \in S : it[i] = IF i = 1 THEN seqs[i] ELSE it[i - 1] \o seqs[i]
  BY <1>8
<1>10. it \in [S -> V]
  <2> DEFINE A == {k \in Nat : k + 1 \in S => it[k + 1] \in V}
  <2>1. 0 \in A
    BY <1>1, <1>9, SMTT(20)
  <2>2. ASSUME NEW k \in Nat, k \in A PROVE k + 1 \in A
    <3>1. ASSUME (k + 1) + 1 \in S PROVE it[(k + 1) + 1] \in V
      <4>1. k + 1 \in S /\ (k + 1) + 1 # 1 /\ ((k + 1) + 1) - 1 = k + 1
        BY <1>1, <3>1
      <4>2. it[(k + 1) + 1] = it[k + 1] \o seqs[(k + 1) + 1]
        BY <1>9, <3>1, <4>1
      <4>3. it[k + 1] \in V /\ seqs[(k + 1) + 1] \in V
        BY <1>1, <2>2, <3>1, <4>1
      <4> QED
        BY <4>2, <4>3, ConcatProperties
    <3> QED
      BY <3>1
  <2>3. Nat \subseteq A
    <3> HIDE DEF A
    <3> QED
      BY <2>1, <2>2, Induct
  <2>4. ASSUME NEW i \in S PROVE it[i] \in V
    <3>1. i - 1 \in Nat /\ (i - 1) + 1 = i
      BY <1>1
    <3> QED
      BY <2>3, <3>1
  <2> QED
    BY <1>8, <2>4
<1> QED
  BY <1>2, <1>9, <1>10 DEF Flattened

LEMMA FlattenOfNone == FlattenSeq(<<>>) = <<>>
<1>1. Len(<<>>) = 0
  BY EmptySeq
<1> QED
  BY <1>1 DEF FlattenSeq

LEMMA FlattenIs ==
  ASSUME NEW X, NEW seqs \in Seq(Seq(X)), NEW s \in Seq(X)
  PROVE  /\ FlattenSeq(seqs) \in Seq(X)
         /\ FlattenSeq(Append(seqs, s)) = FlattenSeq(seqs) \o s
<1> DEFINE n == Len(seqs)
           longer == Append(seqs, s)
<1>1. n \in Nat
  BY LenProperties
<1>2. longer \in Seq(Seq(X)) /\ longer # <<>> /\ Len(longer) = n + 1
  BY AppendProperties
<1>3. longer[n + 1] = s /\ \A i \in 1 .. n : longer[i] = seqs[i]
  BY AppendProperties
<1> HIDE DEF longer
<1>4. PICK g \in [1 .. n + 1 -> Seq(X)] :
        Flattened(longer, n + 1, g) /\ FlattenSeq(longer) = g[n + 1]
  BY <1>2, FlattenExists
<1>5. n + 1 \in 1 .. n + 1 /\ (n + 1 # 1 <=> n # 0) /\ (n + 1) - 1 = n
  BY <1>1
<1>6. g[n + 1] = IF n = 0 THEN s ELSE g[n] \o s
  BY <1>3, <1>4, <1>5 DEF Flattened
<1>7. CASE seqs = <<>>
  <2>1. n = 0 /\ <<>> \in Seq(X)
    BY <1>7, EmptySeq
  <2>2. FlattenSeq(seqs) = <<>> /\ <<>> \o s = s
    BY <1>7, FlattenOfNone, ConcatEmptySeq
  <2> QED
    BY <1>4, <1>6, <2>1, <2>2 DEF longer
<1>8. CASE seqs # <<>>
  <2>1. PICK f \in [1 .. n -> Seq(X)] : Flattened(seqs, n, f) /\ FlattenSeq(seqs) = f[n]
    BY <1>8, FlattenExists
  <2>2. n \in 1 .. n /\ n # 0
    BY <1>8, EmptySeq
  <2> DEFINE A == {k \in Nat : k + 1 \in 1 .. n => f[k + 1] = g[k + 1]}
  <2>3. \A i \in 1 .. n : /\ f[i] = IF i = 1 THEN seqs[i] ELSE f[i - 1] \o seqs[i]
                          /\ g[i] = IF i = 1 THEN seqs[i] ELSE g[i - 1] \o seqs[i]
    <3>1. ASSUME NEW i \in 1 .. n
          PROVE  g[i] = IF i = 1 THEN seqs[i] ELSE g[i - 1] \o seqs[i]
      <4>1. i \in 1 .. n + 1
        BY <1>1
      <4>2. g[i] = IF i = 1 THEN longer[i] ELSE g[i - 1] \o longer[i]
        BY <1>4, <4>1 DEF Flattened
      <4> QED
        BY <1>3, <4>2
    <3>2. ASSUME NEW i \in 1 .. n
          PROVE  f[i] = IF i = 1 THEN seqs[i] ELSE f[i - 1] \o seqs[i]
      BY <2>1 DEF Flattened
    <3> QED
      BY <3>1, <3>2, Zenon
  <2>4. 0 \in A
    <3>1. ASSUME 1 \in 1 .. n PROVE f[1] = g[1]
      <4>1. f[1] = seqs[1]
        BY <2>3, <3>1
      <4>2. g[1] = seqs[1]
        BY <2>3, <3>1
      <4> QED
        BY <4>1, <4>2
    <3> QED
      BY <3>1
  <2>5. ASSUME NEW k \in Nat, k \in A PROVE k + 1 \in A
    <3>1. ASSUME (k + 1) + 1 \in 1 .. n
          PROVE  f[(k + 1) + 1] = g[(k + 1) + 1]
      <4>1. k + 1 \in 1 .. n /\ (k + 1) + 1 # 1 /\ ((k + 1) + 1) - 1 = k + 1
        BY <1>1, <3>1
      <4>2. f[k + 1] = g[k + 1]
        BY <2>5, <4>1
      <4>3. /\ f[(k + 1) + 1] = f[k + 1] \o seqs[(k + 1) + 1]
            /\ g[(k + 1) + 1] = g[k + 1] \o seqs[(k + 1) + 1]
        BY <2>3, <3>1, <4>1
      <4> QED
        BY <4>2, <4>3
    <3> QED
      BY <3>1
  <2>6. Nat \subseteq A
    <3> HIDE DEF A
    <3> QED
      BY <2>4, <2>5, Induct
  <2>7. f[n] = g[n]
    <3>1. n - 1 \in Nat /\ (n - 1) + 1 = n
      BY <2>2
    <3> QED
      BY <2>2, <2>6, <3>1
  <2> QED
    BY <1>4, <1>6, <2>1, <2>2, <2>7 DEF longer
<1> QED
  BY <1>7, <1>8

\* The lists that f gives for the members of another list.
Each(list, f) == [i \in DOMAIN list |-> f[list[i]]]
Joined(list, f) == FlattenSeq(Each(list, f))

LEMMA EachIs ==
  ASSUME NEW X, NEW Y, NEW list \in Seq(X), NEW f \in [X -> Y], NEW e \in X
  PROVE  /\ Each(list, f) \in Seq(Y)
         /\ Each(Append(list, e), f) = Append(Each(list, f), f[e])
         /\ Each(<<>>, f) = <<>>
<1> DEFINE n == Len(list)
           longer == Append(list, e)
           u == Each(list, f)
           v == Each(longer, f)
<1>1. n \in Nat /\ DOMAIN list = 1 .. n /\ list \in [1 .. n -> X]
  BY LenProperties
<1>2. longer \in Seq(X) /\ Len(longer) = n + 1 /\ DOMAIN longer = 1 .. n + 1
      /\ longer \in [1 .. n + 1 -> X]
  <2>1. longer \in Seq(X) /\ Len(longer) = n + 1
    BY AppendProperties
  <2> HIDE DEF longer
  <2> QED
    BY <2>1, LenProperties
<1>3. longer[n + 1] = e /\ \A i \in 1 .. n : longer[i] = list[i]
  BY AppendProperties
<1> HIDE DEF longer
<1>4. u \in Seq(Y) /\ Len(u) = n
  <2>1. u \in [1 .. n -> Y]
    BY <1>1 DEF Each
  <2> HIDE DEF u
  <2> QED
    BY <1>1, <2>1, FunctionIsSeq
<1>5. v \in Seq(Y) /\ Len(v) = n + 1
  <2>1. v \in [1 .. n + 1 -> Y] /\ n + 1 \in Nat
    BY <1>1, <1>2 DEF Each
  <2> HIDE DEF v
  <2> QED
    BY <2>1, FunctionIsSeq
<1>6. Append(u, f[e]) \in Seq(Y) /\ Len(Append(u, f[e])) = n + 1
      /\ Append(u, f[e])[n + 1] = f[e] /\ \A i \in 1 .. n : Append(u, f[e])[i] = u[i]
  BY <1>4, AppendProperties
<1>7. \A i \in 1 .. n + 1 : v[i] = Append(u, f[e])[i]
  <2>1. \A i \in 1 .. n + 1 : i \in 1 .. n \/ i = n + 1
    BY <1>1
  <2>2. \A i \in 1 .. n : u[i] = f[list[i]]
    BY <1>1 DEF Each
  <2>3. \A i \in 1 .. n + 1 : v[i] = f[longer[i]]
    BY <1>2 DEF Each
  <2> HIDE DEF u, v
  <2> QED
    BY <1>3, <1>6, <2>1, <2>2, <2>3
<1>8. v = Append(u, f[e])
  <2> HIDE DEF u, v
  <2> QED
    BY <1>5, <1>6, <1>7, SeqEqual
<1>9. Each(<<>>, f) = <<>>
  BY DEF Each
<1> QED
  BY <1>4, <1>8, <1>9 DEF longer

LEMMA JoinedIs ==
  ASSUME NEW X, NEW Y, NEW list \in Seq(X), NEW f \in [X -> Seq(Y)], NEW e \in X
  PROVE  /\ Joined(<<>>, f) = <<>>
         /\ Joined(list, f) \in Seq(Y)
         /\ Joined(Append(list, e), f) = Joined(list, f) \o f[e]
<1> DEFINE Z == Seq(Y)
<1>1. /\ Each(list, f) \in Seq(Z)
      /\ Each(Append(list, e), f) = Append(Each(list, f), f[e])
      /\ Each(<<>>, f) = <<>>
  <2>1. f \in [X -> Z]
    OBVIOUS
  <2> HIDE DEF Z
  <2> QED
    BY <2>1, EachIs
<1>2. f[e] \in Seq(Y)
  OBVIOUS
<1>3. /\ FlattenSeq(Each(list, f)) \in Seq(Y)
      /\ FlattenSeq(Append(Each(list, f), f[e])) = FlattenSeq(Each(list, f)) \o f[e]
  BY <1>1, <1>2, FlattenIs
<1> QED
  BY <1>1, <1>3, FlattenOfNone DEF Joined

LEMMA JoinedRange ==
  ASSUME NEW X, NEW Y, NEW list \in Seq(X), NEW f \in [X -> Seq(Y)]
  PROVE  \A y : y \in Range(Joined(list, f)) <=> \E e \in Range(list) : y \in Range(f[e])
<1> DEFINE All1(u) == UNION {Range(f[e]) : e \in Range(u)}
           G == {u \in Seq(X) : Range(Joined(u, f)) = All1(u)}
<1>1. <<>> \in G
  <2>1. <<>> \in Seq(X) /\ All1(<<>>) = {}
    BY RangeOfNone
  <2>2. CASE X = {}
    BY <2>1, RangeOfNone, FlattenOfNone DEF Joined, Each
  <2>3. ASSUME NEW e \in X PROVE Joined(<<>>, f) = <<>>
    BY <2>1, JoinedIs
  <2> QED
    BY <2>1, <2>2, <2>3, RangeOfNone
<1>2. ASSUME NEW u \in Seq(X), NEW e \in X, u \in G PROVE Append(u, e) \in G
  <2>1. Joined(u, f) \in Seq(Y) /\ Joined(Append(u, e), f) = Joined(u, f) \o f[e]
    BY JoinedIs, SMTT(20)
  <2>2. f[e] \in Seq(Y)
    OBVIOUS
  <2>3. Range(Joined(u, f) \o f[e]) = Range(Joined(u, f)) \cup Range(f[e])
    BY <2>1, <2>2, RangeOfConcat
  <2>4. Append(u, e) \in Seq(X) /\ Range(Append(u, e)) = Range(u) \cup {e}
    BY RangeOfAppend
  <2>5. All1(Append(u, e)) = All1(u) \cup Range(f[e])
    BY <2>4
  <2> QED
    BY <1>2, <2>1, <2>3, <2>4, <2>5
<1>3. Seq(X) \subseteq G
  <2> HIDE DEF G
  <2> QED
    BY <1>1, <1>2, SeqInduct
<1> QED
  BY <1>3

LEMMA JoinedOnce ==
  ASSUME NEW X, NEW Y, NEW list \in Seq(X), NEW f \in [X -> Seq(Y)]
  PROVE  /\ IsInjective(list)
         /\ \A e \in Range(list) : IsInjective(f[e])
         /\ \A d \in Range(list), e \in Range(list) : d # e => Range(f[d]) \cap Range(f[e]) = {}
         => IsInjective(Joined(list, f))
<1>0. \A u \in Seq(X) : \A y : y \in Range(Joined(u, f)) <=> \E e \in Range(u) : y \in Range(f[e])
  BY JoinedRange
<1> DEFINE Apart(u) ==
             /\ IsInjective(u)
             /\ \A e \in Range(u) : IsInjective(f[e])
             /\ \A d \in Range(u), e \in Range(u) : d # e => Range(f[d]) \cap Range(f[e]) = {}
           G == {u \in Seq(X) : Apart(u) => IsInjective(Joined(u, f))}
<1>1. <<>> \in G
  <2>1. <<>> \in Seq(X)
    OBVIOUS
  <2>2. Joined(<<>>, f) = <<>>
    BY FlattenOfNone DEF Joined, Each
  <2> QED
    BY <2>1, <2>2, RangeOfNone
<1>2. ASSUME NEW u \in Seq(X), NEW e \in X, u \in G PROVE Append(u, e) \in G
  <2>1. Joined(u, f) \in Seq(Y) /\ Joined(Append(u, e), f) = Joined(u, f) \o f[e]
    BY JoinedIs, SMTT(20)
  <2>2. f[e] \in Seq(Y)
    OBVIOUS
  <2>3. Append(u, e) \in Seq(X) /\ Range(Append(u, e)) = Range(u) \cup {e}
    BY RangeOfAppend
  <2>4. ASSUME Apart(Append(u, e)) PROVE IsInjective(Joined(Append(u, e), f))
    <3>1. IsInjective(u) /\ e \notin Range(u)
      <4> DEFINE n == Len(u)
                 v == Append(u, e)
      <4>1. n \in Nat /\ DOMAIN u = 1 .. n
        BY LenProperties
      <4>2. v \in Seq(X) /\ Len(v) = n + 1 /\ v[n + 1] = e /\ \A i \in 1 .. n : v[i] = u[i]
        BY AppendProperties
      <4>3. DOMAIN v = 1 .. n + 1
        BY <4>2, LenProperties
      <4>4. \A i, j \in 1 .. n + 1 : v[i] = v[j] => i = j
        BY <2>4, <4>3 DEF IsInjective
      <4>5. \A i \in 1 .. n : i \in 1 .. n + 1 /\ n + 1 \in 1 .. n + 1 /\ i # n + 1
        BY <4>1
      <4> HIDE DEF n, v
      <4> QED
        BY <4>1, <4>2, <4>4, <4>5 DEF IsInjective, Range
    <3>2. Apart(u)
      BY <2>3, <2>4, <3>1
    <3>3. IsInjective(Joined(u, f)) /\ IsInjective(f[e])
      BY <1>2, <2>3, <2>4, <3>2
    <3>4. \A d \in Range(u) : Range(f[d]) \cap Range(f[e]) = {}
      <4>1. \A d \in Range(u) : d # e /\ d \in Range(Append(u, e)) /\ e \in Range(Append(u, e))
        BY <2>3, <3>1
      <4> QED
        BY <2>4, <4>1
    <3>5. Range(Joined(u, f)) \cap Range(f[e]) = {}
      <4>1. \A y : y \in Range(Joined(u, f)) => \E d \in Range(u) : y \in Range(f[d])
        BY <1>0
      <4> QED
        BY <3>4, <4>1
    <3> QED
      BY <2>1, <2>2, <3>3, <3>5, RangeOfConcat
  <2> QED
    BY <2>3, <2>4
<1>3. Seq(X) \subseteq G
  <2> HIDE DEF G
  <2> QED
    BY <1>1, <1>2, SeqInduct
<1> QED
  BY <1>3

\* The joined lists weigh what the members do, when each weighs its list.
JoinedWeighs(X, Y, list, f) ==
  \A size \in [Y -> Nat], sizes \in [X -> Nat] :
    (\A e \in X : sizes[e] = Total(f[e], size)) =>
      Total(Joined(list, f), size) = Total(list, sizes)

LEMMA JoinedTotal ==
  ASSUME NEW X, NEW Y, NEW list \in Seq(X), NEW f \in [X -> Seq(Y)]
  PROVE  JoinedWeighs(X, Y, list, f)
<1>a. \A u \in Seq(X), e \in X : /\ Joined(u, f) \in Seq(Y)
                                /\ Joined(Append(u, e), f) = Joined(u, f) \o f[e]
  BY JoinedIs, SMTT(20)
<1> SUFFICES ASSUME NEW size \in [Y -> Nat], NEW sizes \in [X -> Nat],
                    \A e \in X : sizes[e] = Total(f[e], size)
             PROVE  Total(Joined(list, f), size) = Total(list, sizes)
  BY DEF JoinedWeighs
<1> DEFINE G == {u \in Seq(X) : Total(Joined(u, f), size) = Total(u, sizes)}
<1>1. <<>> \in G
  <2>1. <<>> \in Seq(X)
    OBVIOUS
  <2>2. Joined(<<>>, f) = <<>>
    BY FlattenOfNone DEF Joined, Each
  <2>3. Total(<<>>, size) = 0 /\ Total(<<>>, sizes) = 0
    <3>1. Total(<<>>, size) = 0
      BY TotalOfNone
    <3>2. Total(<<>>, sizes) = 0
      BY TotalOfNone
    <3> QED
      BY <3>1, <3>2
  <2> QED
    BY <2>1, <2>2, <2>3
<1>2. ASSUME NEW u \in Seq(X), NEW e \in X, u \in G PROVE Append(u, e) \in G
  <2>1. Joined(u, f) \in Seq(Y) /\ Joined(Append(u, e), f) = Joined(u, f) \o f[e]
    BY <1>a
  <2>2. f[e] \in Seq(Y)
    OBVIOUS
  <2>3. Total(Joined(u, f) \o f[e], size) = Total(Joined(u, f), size) + Total(f[e], size)
    BY <2>1, <2>2, TotalOfConcat
  <2>4. sizes[e] = Total(f[e], size)
    OBVIOUS
  <2>5. Append(u, e) \in Seq(X) /\ Total(Append(u, e), sizes) = Total(u, sizes) + sizes[e]
    <3>1. Append(u, e) \in Seq(X)
      BY AppendProperties
    <3> QED
      BY <3>1, TotalOfAppend
  <2> QED
    BY <1>2, <2>1, <2>3, <2>4, <2>5
<1>3. Seq(X) \subseteq G
  <2> HIDE DEF G
  <2> QED
    BY <1>1, <1>2, SeqInduct
<1> QED
  BY <1>3

-----------------------------------------------------------------------------
(* Paths.                                                                  *)

\* A prefix: no longer, and the same at each of its places.
LEMMA PrefixIs ==
  ASSUME NEW S, NEW s \in Seq(S), NEW t \in Seq(S)
  PROVE  IsPrefix(s, t) <=> Len(s) <= Len(t) /\ \A i \in 1 .. Len(s) : s[i] = t[i]
<1> DEFINE m == Len(s)
           n == Len(t)
           p == SubSeq(t, 1, m)
<1>1. m \in Nat /\ n \in Nat
  BY LenProperties
<1>2. SubSeq(s, 1, m) = s
  BY SubSeqFull
<1>3. ASSUME m <= n
      PROVE  p \in Seq(S) /\ Len(p) = m /\ \A i \in 1 .. m : p[i] = t[i]
  <2>1. \A i \in 1 .. m : i \in 1 .. n /\ t[i] \in S
    <3>1. \A i \in 1 .. m : i \in 1 .. n
      BY <1>1, <1>3
    <3> QED
      BY <3>1, ElementOfSeq
  <2> HIDE DEF m, n
  <2>2. /\ p \in Seq(S) /\ Len(p) = IF 1 <= m THEN m - 1 + 1 ELSE 0
        /\ \A i \in 1 .. m - 1 + 1 : p[i] = t[1 + i - 1]
    BY <1>1, <2>1, SubSeqProperties
  <2> HIDE DEF p
  <2>3. Len(p) = m
    BY <1>1, <2>2
  <2>4. ASSUME NEW i \in 1 .. m PROVE p[i] = t[i]
    <3>1. i \in 1 .. m - 1 + 1 /\ 1 + i - 1 = i
      BY <1>1
    <3> QED
      BY <2>2, <3>1
  <2> QED
    BY <2>2, <2>3, <2>4
<1>4. IsPrefix(s, t) <=> m <= n /\ s = p
  BY <1>2 DEF IsPrefix
<1> HIDE DEF p
<1>5. ASSUME m <= n, \A i \in 1 .. m : s[i] = t[i] PROVE s = p
  BY <1>3, <1>5, SeqEqual
<1>6. ASSUME m <= n, s = p PROVE \A i \in 1 .. m : s[i] = t[i]
  BY <1>3, <1>6
<1> QED
  BY <1>4, <1>5, <1>6

LEMMA PrefixOfAppend ==
  ASSUME NEW S, NEW s \in Seq(S), NEW t \in Seq(S), NEW e \in S, IsPrefix(s, t)
  PROVE  IsPrefix(s, Append(t, e))
<1> DEFINE m == Len(s)
           n == Len(t)
           u == Append(t, e)
<1>1. m \in Nat /\ n \in Nat
  BY LenProperties
<1>2. u \in Seq(S) /\ Len(u) = n + 1 /\ \A i \in 1 .. n : u[i] = t[i]
  BY AppendProperties
<1>3. m <= n /\ \A i \in 1 .. m : s[i] = t[i]
  BY PrefixIs
<1> HIDE DEF m, n, u
<1>4. m <= n + 1 /\ \A i \in 1 .. m : i \in 1 .. n
  BY <1>1, <1>3
<1>5. IsPrefix(s, u) <=> m <= Len(u) /\ \A i \in 1 .. m : s[i] = u[i]
  BY <1>2, PrefixIs DEF m
<1> QED
  BY <1>2, <1>3, <1>4, <1>5 DEF u

\* The path of an entry is that of its directory, and then its name.
LEMMA PathsAre ==
  ASSUME IsTree(tree)
  PROVE  /\ PathBelowBase \in [Nodes -> Paths]
         /\ PathBelowBase[0] = <<>>
         /\ \A e \in Entries : /\ tree[e].parent \in Nodes /\ tree[e].name \in Nat
                               /\ PathBelowBase[e] = Append(PathBelowBase[tree[e].parent], tree[e].name)
<1> DEFINE size == [e \in Nodes |-> e]
           next == [e \in Nodes |-> IF e = 0 THEN 0 ELSE tree[e].parent]
           base == [e \in Nodes |-> <<>>]
           step == [p \in Nodes \X Paths |-> IF p[1] = 0 THEN p[2] ELSE Append(p[2], tree[p[1]].name)]
<1>1. Nodes \subseteq Nat /\ Entries \subseteq Nat \ {0} /\ Nodes = {0} \cup Entries
  BY FileTreeAssumption DEF Nodes
<1>2. \A e \in Entries : tree[e].parent \in Nodes /\ tree[e].name \in Nat /\ tree[e].parent < e
  BY DEF IsTree, EntryRecords
<1>3. <<>> \in Paths
  BY DEF Paths
<1>4. size \in [Nodes -> Nat] /\ next \in [Nodes -> Nodes] /\ base \in [Nodes -> Paths]
      /\ \A e \in Nodes : e \notin {0} => size[next[e]] < size[e]
  BY <1>1, <1>2, <1>3
<1>5. step \in [Nodes \X Paths -> Paths]
  <2>1. ASSUME NEW p \in Nodes \X Paths, p[1] # 0 PROVE Append(p[2], tree[p[1]].name) \in Paths
    <3>1. p[2] \in Paths /\ tree[p[1]].name \in Nat
      BY <1>1, <1>2, <2>1
    <3> QED
      BY <3>1, AppendProperties DEF Paths
  <2> QED
    BY <2>1
<1>6. PICK f \in [Nodes -> Paths] : \A e \in Nodes : Recursive(f, e, base, step, next, {0})
  <2> HIDE DEF size, next, base, step
  <2>1. IsRecursion(Nodes, size, next, Paths, {0}, base, step)
    BY <1>4, <1>5 DEF IsRecursion
  <2> QED
    BY <2>1, RecursionExists
<1> DEFINE Unfold(g) ==
             [e \in Nodes |-> IF e = 0 THEN <<>> ELSE Append(g[tree[e].parent], tree[e].name)]
<1>7. ASSUME NEW e \in Nodes
      PROVE  f[e] = IF e = 0 THEN <<>> ELSE Append(f[tree[e].parent], tree[e].name)
  <2>1. f[e] = IF e \in {0} THEN base[e] ELSE step[<<e, f[next[e]]>>]
    BY <1>6 DEF Recursive
  <2>2. CASE e = 0
    BY <2>1, <2>2
  <2>3. CASE e # 0
    <3>1. next[e] = tree[e].parent /\ next[e] \in Nodes
      BY <1>4, <2>3
    <3>2. <<e, f[tree[e].parent]>> \in Nodes \X Paths
      BY <3>1
    <3> HIDE DEF next
    <3> QED
      BY <2>1, <2>3, <3>1, <3>2
  <2> QED
    BY <2>2, <2>3
<1>8. f = Unfold(f)
  BY <1>7
<1>9. PathBelowBase = CHOOSE g : g = Unfold(g)
  BY DEF PathBelowBase
<1>10. PathBelowBase = Unfold(PathBelowBase)
  <2> HIDE DEF Unfold
  <2> QED
    BY <1>8, <1>9
<1> DEFINE P == PathBelowBase
<1>11. P[0] = <<>> /\ \A e \in Entries : P[e] = Append(P[tree[e].parent], tree[e].name)
  BY <1>1, <1>10
<1>12. \A e \in Nodes : P[e] \in Paths
  <2> DEFINE A == {n \in Nat : \A e \in Nodes : e <= n => P[e] \in Paths}
  <2> HIDE DEF P
  <2>1. 0 \in A
    <3>1. \A e \in Nodes : e <= 0 => e = 0
      BY <1>1
    <3> QED
      BY <1>3, <1>11, <3>1
  <2>2. ASSUME NEW n \in Nat, n \in A PROVE n + 1 \in A
    <3>1. ASSUME NEW e \in Nodes, e <= n + 1, e # 0 PROVE P[e] \in Paths
      <4>1. e \in Entries /\ tree[e].parent \in Nodes /\ tree[e].parent <= n
        <5>1. e \in Entries /\ tree[e].parent \in Nodes /\ tree[e].parent < e
          BY <1>1, <1>2, <3>1
        <5>2. tree[e].parent \in Nat /\ e \in Nat
          BY <1>1, <5>1
        <5> QED
          BY <3>1, <5>1, <5>2
      <4>2. P[tree[e].parent] \in Paths /\ tree[e].name \in Nat
        BY <1>2, <2>2, <4>1
      <4>3. Append(P[tree[e].parent], tree[e].name) \in Paths
        BY <4>2, AppendProperties DEF Paths
      <4> QED
        BY <1>11, <4>1, <4>3
    <3> QED
      BY <1>3, <1>11, <3>1
  <2>3. Nat \subseteq A
    <3> HIDE DEF A
    <3> QED
      BY <2>1, <2>2, Induct
  <2>4. \A e \in Nodes : e \in A /\ e <= e
    BY <1>1, <2>3
  <2> QED
    BY <2>4
<1> QED
  BY <1>2, <1>10, <1>11, <1>12

\* Different entries have different paths.
LEMMA PathsDiffer ==
  ASSUME IsTree(tree)
  PROVE  \A e \in Nodes, f \in Nodes : PathBelowBase[e] = PathBelowBase[f] => e = f
<1> DEFINE P == PathBelowBase
           A == {n \in Nat : \A e \in Nodes, f \in Nodes : e <= n /\ P[e] = P[f] => e = f}
<1>1. Nodes \subseteq Nat /\ Nodes = {0} \cup Entries
  BY FileTreeAssumption DEF Nodes
<1>2. /\ P \in [Nodes -> Paths] /\ P[0] = <<>>
      /\ \A e \in Entries : /\ tree[e].parent \in Nodes /\ tree[e].name \in Nat
                            /\ P[e] = Append(P[tree[e].parent], tree[e].name)
  BY PathsAre
<1>3. \A e \in Entries : tree[e].parent < e
  BY DEF IsTree
<1> HIDE DEF P
<1>4. \A e \in Nodes : P[e] = <<>> => e = 0
  <2>1. ASSUME NEW e \in Entries PROVE P[e] # <<>>
    <3>1. P[tree[e].parent] \in Paths /\ tree[e].name \in Nat
      BY <1>2
    <3> QED
      BY <1>2, <3>1, AppendProperties DEF Paths
  <2> QED
    BY <1>1, <2>1
<1>5. 0 \in A
  <2>1. ASSUME NEW e \in Nodes, NEW f \in Nodes, e <= 0, P[e] = P[f] PROVE e = f
    <3>1. e = 0
      BY <1>1, <2>1
    <3> QED
      BY <1>2, <1>4, <2>1, <3>1
  <2> QED
    BY <2>1
<1>6. ASSUME NEW n \in Nat, n \in A PROVE n + 1 \in A
  <2>1. ASSUME NEW e \in Nodes, NEW f \in Nodes, e <= n + 1, P[e] = P[f] PROVE e = f
    <3>1. CASE e = 0 \/ f = 0
      BY <1>2, <1>4, <2>1, <3>1
    <3>2. CASE e # 0 /\ f # 0
      <4>1. e \in Entries /\ f \in Entries
        BY <1>1, <3>2
      <4> DEFINE d == tree[e].parent
                 c == tree[f].parent
      <4>2. d \in Nodes /\ c \in Nodes /\ tree[e].name \in Nat /\ tree[f].name \in Nat
        BY <1>2, <4>1
      <4>3. Append(P[d], tree[e].name) = Append(P[c], tree[f].name)
        BY <1>2, <2>1, <4>1
      <4>4. P[d] = P[c] /\ tree[e].name = tree[f].name
        <5>1. P[d] \in Seq(Nat) /\ P[c] \in Seq(Nat)
          BY <1>2, <4>2 DEF Paths
        <5> DEFINE x == P[d]
                   y == P[c]
                   u == tree[e].name
                   v == tree[f].name
        <5>2. x \in Seq(Nat) /\ y \in Seq(Nat) /\ u \in Nat /\ v \in Nat
              /\ Append(x, u) = Append(y, v)
          BY <4>2, <4>3, <5>1
        <5> HIDE DEF x, y, u, v
        <5>3. x = y /\ u = v
          BY <5>2, AppendInjective
        <5> QED
          BY <5>3 DEF x, y, u, v
      <4>5. d <= n
        <5>1. d < e /\ d \in Nat /\ e \in Nat
          BY <1>1, <1>3, <4>1, <4>2
        <5> QED
          BY <2>1, <5>1
      <4>6. d = c
        <5> HIDE DEF d, c
        <5> QED
          BY <1>6, <4>2, <4>4, <4>5
      <4> QED
        BY <4>1, <4>4, <4>6 DEF IsTree
    <3> QED
      BY <3>1, <3>2
  <2> QED
    BY <2>1
<1>7. Nat \subseteq A
  <2> HIDE DEF A
  <2> QED
    BY <1>5, <1>6, Induct
<1>8. \A e \in Nodes : e \in A /\ e <= e
  BY <1>1, <1>7
<1> QED
  BY <1>8 DEF P

\* With a directory goes all that is in it.
LEMMA BelowIs ==
  ASSUME IsTree(tree), NEW d \in Entries, NEW e \in Entries, tree[e].parent \in Below(d)
  PROVE  e \in Below(d)
<1> DEFINE P == PathBelowBase
           c == tree[e].parent
<1>1. c \in Entries /\ IsPrefix(P[d], P[c])
  BY DEF Below
<1>2. P[d] \in Paths /\ P[c] \in Paths /\ tree[e].name \in Nat /\ P[e] = Append(P[c], tree[e].name)
  BY <1>1, PathsAre DEF Nodes
<1> HIDE DEF P, c
<1>3. IsPrefix(P[d], P[e])
  BY <1>1, <1>2, PrefixOfAppend DEF Paths
<1> QED
  BY <1>3 DEF Below, P

-----------------------------------------------------------------------------
(* The calls of GetDir.                                                    *)

LEMMA StackIs ==
  ASSUME TypeOK, pc = "walk"
  PROVE  /\ Len(stack) \in Nat \ {0} /\ DOMAIN stack = 1 .. Len(stack)
         /\ Len(stack) \in DOMAIN stack
         /\ \A i \in DOMAIN stack : stack[i] \in CallRecords
         /\ Current \in CallRecords
<1>1. stack \in Seq(CallRecords) /\ stack # <<>>
  BY DEF TypeOK
<1>2. Len(stack) \in Nat \ {0}
  BY <1>1, EmptySeq
<1>3. DOMAIN stack = 1 .. Len(stack) /\ \A i \in DOMAIN stack : stack[i] \in CallRecords
  BY <1>1, LenProperties
<1> QED
  BY <1>2, <1>3 DEF Current

\* What a record of a call is made of.
LEMMA CallFields ==
  ASSUME NEW call \in CallRecords
  PROVE  /\ call.dir \in Nodes /\ call.entries \in Seq(Entries)
         /\ call.Files \in Seq(Entries) /\ call.Symlinks \in Seq(Entries)
         /\ call.Directories \in Seq(Entries) /\ call.Size \in Nat
         /\ Range(call.Files \o call.Symlinks \o call.Directories) =
              Range(call.Files) \cup Range(call.Symlinks) \cup Range(call.Directories)
<1>1. /\ call.dir \in Nodes /\ call.entries \in Seq(Entries)
      /\ call.Files \in Seq(Entries) /\ call.Symlinks \in Seq(Entries)
      /\ call.Directories \in Seq(Entries) /\ call.Size \in Nat
  BY DEF CallRecords, Lists
<1> DEFINE a == call.Files
           b == call.Symlinks
           c == call.Directories
<1>2. a \in Seq(Entries) /\ b \in Seq(Entries) /\ c \in Seq(Entries)
  BY <1>1
<1> HIDE DEF a, b, c
<1>3. a \o b \in Seq(Entries) /\ Range(a \o b) = Range(a) \cup Range(b)
  BY <1>2, RangeOfConcat
<1>4. Range((a \o b) \o c) = Range(a \o b) \cup Range(c)
  <2> DEFINE d == a \o b
  <2>1. d \in Seq(Entries)
    BY <1>3
  <2> HIDE DEF d
  <2>2. Range(d \o c) = Range(d) \cup Range(c)
    BY <1>2, <2>1, RangeOfConcat
  <2> QED
    BY <2>2 DEF d
<1> QED
  BY <1>1, <1>3, <1>4 DEF a, b, c

\* Directories further in have larger numbers.
LEMMA DirsRise ==
  ASSUME TypeOK, Calls, pc = "walk"
  PROVE  \A i \in DOMAIN stack, j \in DOMAIN stack : i < j => stack[i].dir < stack[j].dir
<1> DEFINE n == Len(stack)
           dir == [i \in 1 .. n |-> stack[i].dir]
<1>1. n \in Nat \ {0} /\ DOMAIN stack = 1 .. n /\ \A i \in 1 .. n : stack[i] \in CallRecords
  BY StackIs
<1>2. \A i \in 1 .. n : dir[i] \in Nat
  <2>1. \A i \in 1 .. n : stack[i].dir \in Nodes
    BY <1>1, CallFields
  <2>2. Nodes \subseteq Nat
    BY FileTreeAssumption DEF Nodes
  <2> QED
    BY <2>1, <2>2
<1>3. ASSUME NEW i \in 1 .. n - 1 PROVE dir[i] < dir[i + 1]
  <2>1. i \in 1 .. n /\ i + 1 \in 1 .. n
    BY <1>1
  <2> DEFINE e == Head(stack[i].entries)
  <2>2. stack[i].entries # <<>> /\ stack[i + 1].dir = e
    BY DEF TypeOK
  <2>3. stack[i].entries \in Seq(Entries)
    BY <1>1, <2>1, CallFields
  <2>4. e \in Range(stack[i].entries) /\ e \in Entries
    BY <2>2, <2>3, RangeOfTail
  <2>5. tree[e].parent = stack[i].dir
    BY <1>1, <2>1, <2>4 DEF Calls, Running
  <2>6. tree[e].parent < e
    BY <2>4 DEF TypeOK, IsTree
  <2> QED
    BY <2>1, <2>2, <2>5, <2>6
<1>4. ASSUME NEW i \in 1 .. n PROVE \A k \in Nat : i + k + 1 \in 1 .. n => dir[i] < dir[i + k + 1]
  <2> DEFINE A == {k \in Nat : i + k + 1 \in 1 .. n => dir[i] < dir[i + k + 1]}
  <2> HIDE DEF dir, n
  <2>1. 0 \in A
    <3>1. ASSUME i + 0 + 1 \in 1 .. n PROVE dir[i] < dir[i + 0 + 1]
      <4>1. i \in 1 .. n - 1 /\ i + 0 + 1 = i + 1
        BY <1>1, <3>1
      <4> QED
        BY <1>3, <4>1
    <3> QED
      BY <3>1
  <2>2. ASSUME NEW k \in Nat, k \in A PROVE k + 1 \in A
    <3>1. ASSUME i + (k + 1) + 1 \in 1 .. n PROVE dir[i] < dir[i + (k + 1) + 1]
      <4> DEFINE j == i + k + 1
      <4>1. j \in 1 .. n - 1 /\ j \in 1 .. n /\ j + 1 \in 1 .. n /\ i + (k + 1) + 1 = j + 1
        BY <1>1, <3>1
      <4>2. dir[i] < dir[j]
        BY <2>2, <4>1
      <4> HIDE DEF j
      <4>3. dir[j] < dir[j + 1]
        BY <1>3, <4>1
      <4>4. dir[i] \in Nat /\ dir[j] \in Nat /\ dir[j + 1] \in Nat
        BY <1>2, <4>1
      <4>5. dir[i] < dir[j + 1]
        BY <4>2, <4>3, <4>4
      <4> QED
        BY <4>1, <4>5
    <3> QED
      BY <3>1
  <2>3. Nat \subseteq A
    <3> HIDE DEF A
    <3> QED
      BY <2>1, <2>2, Induct
  <2> QED
    BY <2>3
<1>5. ASSUME NEW i \in 1 .. n, NEW j \in 1 .. n, i < j PROVE dir[i] < dir[j]
  <2>1. j - i - 1 \in Nat /\ i + (j - i - 1) + 1 = j
    BY <1>5
  <2> HIDE DEF dir, n
  <2> QED
    BY <1>4, <2>1
<1> QED
  BY <1>1, <1>5

\* The entry whose turn it is, and what the call has left after it.
LEMMA EntryIs ==
  ASSUME TInv, Walking
  PROVE  /\ Entry \in Entries /\ Entry \in Range(Current.entries)
         /\ tree[Entry].parent = Current.dir
         /\ Entry \notin Range(Current.Files) /\ Entry \notin Range(Current.Symlinks)
         /\ Entry \notin Range(Current.Directories)
         /\ Tail(Current.entries) \in Seq(Entries) /\ IsInjective(Tail(Current.entries))
         /\ Range(Current.entries) = {Entry} \cup Range(Tail(Current.entries))
         /\ Entry \notin Range(Tail(Current.entries))
         /\ Running(Current) /\ Current \in CallRecords
<1>1. Current \in CallRecords /\ Running(Current) /\ Current.entries # <<>>
  <2>1. TypeOK /\ pc = "walk" /\ Calls /\ Current.entries # <<>>
    BY DEF TInv, Walking
  <2> QED
    BY <2>1, StackIs DEF Calls, Current
<1>2. Current.entries \in Seq(Entries)
  BY <1>1, CallFields
<1>3. Range(Current.entries) = {Entry} \cup Range(Tail(Current.entries))
  BY <1>1, <1>2, RangeOfTail DEF Entry
<1>4. Entry \in Entries /\ Entry \in Range(Current.entries)
  BY <1>1, <1>2, <1>3, HeadTailProperties DEF Entry
<1>5. tree[Entry].parent = Current.dir
      /\ Entry \notin Range(Current.Files \o Current.Symlinks \o Current.Directories)
      /\ IsInjective(Current.entries)
  BY <1>1, <1>4 DEF Running
<1>6. /\ Tail(Current.entries) \in Seq(Entries) /\ IsInjective(Tail(Current.entries))
      /\ Entry \notin Range(Tail(Current.entries))
  BY <1>1, <1>2, <1>5, RangeOfTail, HeadTailProperties DEF Entry
<1> QED
  BY <1>1, <1>3, <1>4, <1>5, <1>6, CallFields

\* A call that has dealt with its entry.
LEMMA DealtWith ==
  ASSUME TInv, Walking, NEW call \in CallRecords, call.dir = Current.dir,
         call.entries = Tail(Current.entries), call.Directories = Current.Directories,
         Kept(call, call.dir), Counted(call),
         Range(call.Files) \in {Range(Current.Files), Range(Current.Files) \cup {Entry}},
         Range(call.Symlinks) \subseteq Range(Current.Symlinks) \cup {Entry},
         Entry \in here => Dealt(Entry, call)
  PROVE  Running(call)
<1> DEFINE old == Range(Current.Files) \cup Range(Current.Symlinks) \cup Range(Current.Directories)
           new == Range(call.Files) \cup Range(call.Symlinks) \cup Range(call.Directories)
<1>1. /\ Running(Current) /\ Current \in CallRecords /\ Entry \in Entries
      /\ Range(Current.entries) = {Entry} \cup Range(call.entries)
      /\ Entry \notin Range(call.entries) /\ IsInjective(call.entries)
  BY EntryIs
<1>2. /\ Range(Current.Files \o Current.Symlinks \o Current.Directories) = old
      /\ Range(call.Files \o call.Symlinks \o call.Directories) = new
  BY <1>1, CallFields
<1>3. new \subseteq old \cup {Entry}
  OBVIOUS
<1> HIDE DEF old, new
<1>4. ASSUME NEW e \in Range(call.entries)
      PROVE  tree[e].parent = call.dir /\ e \notin new
  <2>1. e \in Range(Current.entries) /\ e # Entry
    BY <1>1
  <2>2. tree[e].parent = Current.dir /\ e \notin old
    BY <1>1, <1>2, <2>1 DEF Running
  <2> QED
    BY <1>3, <2>1, <2>2
<1>5. ASSUME NEW e \in here, tree[e].parent = call.dir
      PROVE  e \in Range(call.entries) \/ Dealt(e, call)
  <2>1. e \in Range(Current.entries) \/ Dealt(e, Current)
    BY <1>1, <1>5 DEF Running
  <2>2. Dealt(e, Current) => Dealt(e, call)
    BY DEF Dealt
  <2> QED
    BY <1>1, <2>1, <2>2
<1>6. /\ call.dir # 0 => recursive /\ tree[call.dir].kind = "dir"
      /\ found[call.dir] = Nothing(call.dir)
  BY <1>1 DEF Running
<1> QED
  BY <1>1, <1>2, <1>4, <1>5, <1>6 DEF Running

\* The invariant is kept when the current call goes on to its next entry.
LEMMA Updated ==
  ASSUME TInv, Walking, NEW call \in CallRecords, Running(call), call.dir = Current.dir,
         call.Directories = Current.Directories,
         Update(call), pc' = pc, looked' = FALSE,
         UNCHANGED <<recursive, tree, here, found, sendVars>>
  PROVE  TInv'
<1> DEFINE n == Len(stack)
<1>1. n \in Nat \ {0} /\ DOMAIN stack = 1 .. n /\ n \in 1 .. n /\ stack \in Seq(CallRecords)
      /\ pc = "walk" /\ TypeOK /\ Calls /\ Current = stack[n]
  BY StackIs DEF TInv, Walking, TypeOK, Current
<1>2. /\ stack' \in Seq(CallRecords) /\ Len(stack') = n
      /\ \A i \in 1 .. n : stack'[i] = IF i = n THEN call ELSE stack[i]
  <2>1. stack' = [stack EXCEPT ![n] = call]
    BY DEF Update
  <2> QED
    BY <1>1, <2>1, ExceptSeq
<1>3. DOMAIN stack' = 1 .. n /\ stack' # <<>>
  BY <1>1, <1>2, LenProperties, EmptySeq
<1>4. \A i \in 1 .. n : /\ stack'[i].dir = stack[i].dir
                        /\ stack'[i].Directories = stack[i].Directories
  BY <1>1, <1>2
<1>5. /\ recursive' = recursive /\ tree' = tree /\ here' = here /\ found' = found
      /\ accepted' = accepted /\ TotalTransferSize' = TotalTransferSize
      /\ DownloadsPath' = DownloadsPath
      /\ Sizes' = Sizes /\ SizesFound' = SizesFound
  BY DEF sendVars, Sizes, SizesFound
<1> HIDE DEF n
<1>6. TypeOK'
  <2>1. ASSUME NEW i \in 1 .. n - 1
        PROVE  stack'[i].entries # <<>> /\ stack'[i + 1].dir = Head(stack'[i].entries)
    <3>1. i \in 1 .. n /\ i + 1 \in 1 .. n /\ i # n
      BY <1>1
    <3>2. stack[i].entries # <<>> /\ stack[i + 1].dir = Head(stack[i].entries)
      BY <1>1 DEF TypeOK, n
    <3> QED
      BY <1>2, <1>4, <3>1, <3>2
  <2>2. IsTree(tree)'
    BY <1>1, <1>5 DEF TypeOK, IsTree
  <2> QED
    BY <1>1, <1>2, <1>3, <1>5, <2>1, <2>2 DEF TypeOK
<1>7. Rooted'
  BY <1>5 DEF TInv, Rooted
<1>8. \A e : Finished(e) => Finished(e)'
  BY <1>5 DEF Finished, Counted, Dealt
<1>9. Calls'
  <2>1. ASSUME NEW i \in 1 .. n
        PROVE  Running(stack[i])' /\ \A e \in Range(stack'[i].Directories) : Finished(e)'
    <3>1. \A e \in Range(stack[i].Directories) : Finished(e)
      BY <1>1 DEF Calls
    <3>2. \A e \in Range(stack'[i].Directories) : Finished(e)'
      BY <1>4, <1>8, <3>1
    <3>3. CASE i = n
      <4>1. stack'[i] = call
        BY <1>2, <3>3
      <4>2. Running(stack[i])'
        BY <1>5, <4>1 DEF Running, Kept, Listed, Counted, Dealt
      <4> QED
        BY <3>2, <4>2
    <3>4. CASE i # n
      <4>1. stack'[i] = stack[i] /\ Running(stack[i])
        BY <1>1, <1>2, <3>4 DEF Calls
      <4>2. Running(stack[i])'
        BY <1>5, <4>1 DEF Running, Kept, Listed, Counted, Dealt
      <4> QED
        BY <3>2, <4>2
    <3> QED
      BY <3>3, <3>4
  <2> QED
    BY <1>3, <2>1 DEF Calls
<1>10. Founds'
  BY <1>5, <1>8 DEF TInv, Founds, Kept, Listed
<1>11. Untouched'
  BY <1>1, <1>3, <1>4, <1>5 DEF TInv, Untouched
<1>12. Nested' /\ WalkStopsOnlyForDirs'
  <2>1. 1 \in 1 .. n
    BY <1>1
  <2>2. stack[1].dir = 0
    BY <1>1 DEF TInv, Nested
  <2> QED
    BY <1>1, <1>3, <1>4, <2>1, <2>2 DEF Nested, WalkStopsOnlyForDirs
<1> QED
  BY <1>6, <1>7, <1>9, <1>10, <1>11, <1>12 DEF TInv

\* Nothing but the look at an entry, or an error of it.
LEMMA Stays ==
  ASSUME TInv, Walking, looked' \in BOOLEAN,
         pc' \in {"walk", "panic"},
         pc' = "panic" => Entry \notin here \/ (tree[Entry].kind = "dir" /\ ~tree[Entry].ok),
         UNCHANGED <<recursive, tree, here, stack, found, sendVars>>
  PROVE  TInv'
<1>1. /\ recursive' = recursive /\ tree' = tree /\ here' = here /\ found' = found
      /\ stack' = stack /\ accepted' = accepted /\ TotalTransferSize' = TotalTransferSize
      /\ DownloadsPath' = DownloadsPath
      /\ Sizes' = Sizes /\ SizesFound' = SizesFound
  BY DEF sendVars, Sizes, SizesFound
<1>2. Entry \in Entries
  BY EntryIs
<1>3. pc = "walk" /\ Current.entries # <<>>
  BY DEF Walking
<1>4. pc' \in {"walk", "panic"}
  OBVIOUS
<1>6. TypeOK'
  <2>1. (Current.entries # <<>>)'
    BY <1>1, <1>3 DEF Current
  <2>2. IsTree(tree)'
    BY <1>1 DEF TInv, TypeOK, IsTree
  <2> QED
    BY <1>1, <1>3, <1>4, <2>1, <2>2 DEF TInv, TypeOK
<1>7. Rooted' /\ Calls' /\ Founds' /\ Untouched'
  <2>1. \A e : Finished(e) => Finished(e)'
    BY <1>1 DEF Finished, Counted, Dealt
  <2>2. Rooted' /\ Untouched'
    BY <1>1 DEF TInv, Rooted, Untouched
  <2>3. Founds'
    BY <1>1, <2>1 DEF TInv, Founds, Kept, Listed
  <2>4. ASSUME NEW i \in DOMAIN stack
        PROVE  Running(stack[i])' /\ \A e \in Range(stack'[i].Directories) : Finished(e)'
    <3>1. Running(stack[i]) /\ \A e \in Range(stack[i].Directories) : Finished(e)
      BY DEF TInv, Calls
    <3>2. Running(stack[i])'
      BY <1>1, <3>1 DEF Running, Kept, Listed, Counted, Dealt
    <3> QED
      BY <1>1, <2>1, <3>1, <3>2
  <2>5. Calls'
    BY <1>1, <2>4 DEF Calls
  <2> QED
    BY <2>2, <2>3, <2>5
<1>8. Nested' /\ WalkStopsOnlyForDirs'
  <2>1. pc' = "panic" => \/ here' # Entries
                         \/ \E e \in Entries : tree'[e].kind = "dir" /\ ~tree'[e].ok
    BY <1>1, <1>2
  <2> QED
    BY <1>1, <1>3, <1>4, <2>1 DEF TInv, Nested, WalkStopsOnlyForDirs
<1> QED
  BY <1>6, <1>7, <1>8 DEF TInv

LEMMA LookKeeps == TInv /\ Look => TInv'
<1> SUFFICES ASSUME TInv, Look PROVE TInv'
  OBVIOUS
<1>1. Walking /\ UNCHANGED <<recursive, tree, here, stack, found, sendVars>>
  BY DEF Look
<1>2. pc' \in {"walk", "panic"} /\ (pc' = "panic" => Entry \notin here)
  BY DEF Look, Walking
<1>3. looked' \in BOOLEAN
  BY DEF Look, TInv, TypeOK
<1> QED
  BY <1>1, <1>2, <1>3, Stays

\* A file or symlink that is left out, or an inner directory that is not walked.
LEMMA Skipped ==
  ASSUME TInv, Walking, Entry \in here => Dealt(Entry, Current), Update(Rest), pc' = pc,
         looked' = FALSE, UNCHANGED <<recursive, tree, here, found, sendVars>>
  PROVE  TInv'
<1>1. Current \in CallRecords /\ Running(Current) /\ Tail(Current.entries) \in Seq(Entries)
  BY EntryIs
<1>2. /\ Rest \in CallRecords /\ Rest.dir = Current.dir /\ Rest.entries = Tail(Current.entries)
      /\ Rest.Files = Current.Files /\ Rest.Symlinks = Current.Symlinks
      /\ Rest.Directories = Current.Directories /\ Rest.Size = Current.Size
  BY <1>1 DEF CallRecords, Lists, Rest
<1>3. Kept(Rest, Rest.dir) /\ Counted(Rest)
  BY <1>1, <1>2 DEF Running, Kept, Counted
<1>4. Entry \in here => Dealt(Entry, Rest)
  BY <1>2 DEF Dealt
<1>5. /\ Range(Rest.Files) \in {Range(Current.Files), Range(Current.Files) \cup {Entry}}
      /\ Range(Rest.Symlinks) \subseteq Range(Current.Symlinks) \cup {Entry}
  BY <1>2
<1> DEFINE call == Rest
<1>6. /\ call \in CallRecords /\ call.dir = Current.dir /\ call.entries = Tail(Current.entries)
      /\ call.Directories = Current.Directories /\ Kept(call, call.dir) /\ Counted(call)
      /\ Range(call.Files) \in {Range(Current.Files), Range(Current.Files) \cup {Entry}}
      /\ Range(call.Symlinks) \subseteq Range(Current.Symlinks) \cup {Entry}
      /\ (Entry \in here => Dealt(Entry, call)) /\ Update(call)
  BY <1>2, <1>3, <1>4, <1>5
<1> HIDE DEF call
<1>7. Running(call)
  BY <1>6, DealtWith
<1> QED
  BY <1>6, <1>7, Updated

LEMMA GetFileKeeps == TInv /\ GetFile => TInv'
<1> SUFFICES ASSUME TInv, GetFile PROVE TInv'
  OBVIOUS
<1>1. /\ Walking /\ tree[Entry].kind = "file" /\ looked' = FALSE /\ pc' = pc
      /\ UNCHANGED <<recursive, tree, here, found, sendVars>>
  BY DEF GetFile
<1>2. CASE ~(Entry \in here /\ tree[Entry].ok)
  <2>1. Update(Rest)
    BY <1>2 DEF GetFile
  <2>2. Entry \in here => Dealt(Entry, Current)
    BY <1>1, <1>2 DEF Dealt
  <2> QED
    BY <1>1, <2>1, <2>2, Skipped
<1>3. CASE Entry \in here /\ tree[Entry].ok
  <2> DEFINE call == [Rest EXCEPT !.Files = Append(@, Entry), !.Size = @ + tree[Entry].size]
             list == Current.Files
  <2>1. Update(call)
    BY <1>3 DEF GetFile
  <2>2. /\ Current \in CallRecords /\ Running(Current) /\ Entry \in Entries
        /\ Tail(Current.entries) \in Seq(Entries) /\ Entry \notin Range(list)
        /\ tree[Entry].parent = Current.dir
    BY <1>1, EntryIs
  <2>3. list \in Seq(Entries) /\ tree[Entry].size \in Nat
    BY <2>2, CallFields DEF TInv, TypeOK, IsTree, EntryRecords
  <2>4. /\ Append(list, Entry) \in Seq(Entries)
        /\ Range(Append(list, Entry)) = Range(list) \cup {Entry}
        /\ IsInjective(list) => IsInjective(Append(list, Entry))
    BY <2>2, <2>3, RangeOfAppend
  <2>5. /\ call \in CallRecords /\ call.dir = Current.dir /\ call.entries = Tail(Current.entries)
        /\ call.Files = Append(list, Entry) /\ call.Symlinks = Current.Symlinks
        /\ call.Directories = Current.Directories
        /\ call.Size = Current.Size + tree[Entry].size
    <3>1. /\ Rest \in CallRecords /\ Rest.dir = Current.dir
          /\ Rest.entries = Tail(Current.entries) /\ Rest.Files = list
          /\ Rest.Symlinks = Current.Symlinks /\ Rest.Directories = Current.Directories
          /\ Rest.Size = Current.Size
      BY <2>2, <2>3 DEF CallRecords, Lists, Rest
    <3>2. call = [Rest EXCEPT !.Files = Append(list, Entry), !.Size = Current.Size + tree[Entry].size]
      BY <3>1
    <3>3. Current.Size + tree[Entry].size \in Nat
      BY <2>2, <2>3, CallFields
    <3> HIDE DEF call, list
    <3> QED
      BY <2>4, <3>1, <3>2, <3>3 DEF CallRecords, Lists
  <2> HIDE DEF call, list
  <2>6. Kept(call, call.dir)
    <3>1. Listed(list, Current.dir, "file") /\ \A e \in Range(list) : tree[e].ok
      BY <2>2 DEF Running, Kept, list
    <3>2. Listed(call.Files, call.dir, "file") /\ \A e \in Range(call.Files) : tree[e].ok
      BY <1>1, <1>3, <2>2, <2>4, <2>5, <3>1 DEF Listed
    <3> QED
      BY <2>2, <2>5, <3>2 DEF Running, Kept
  <2>7. Counted(call)
    <3>1. Sizes \in [Entries -> Nat] /\ Sizes[Entry] = tree[Entry].size
      BY <2>2 DEF TInv, TypeOK, IsTree, EntryRecords, Sizes
    <3>2. /\ Total(Append(list, Entry), Sizes) = Total(list, Sizes) + Sizes[Entry]
          /\ Total(list, Sizes) \in Nat
      BY <2>2, <2>3, <3>1, TotalOfAppend
    <3>3. SizesFound \in [Entries -> Nat]
      BY DEF TInv, TypeOK, Directories, SizesFound, Nodes
    <3>4. Total(Current.Directories, SizesFound) \in Nat
      <4>1. Current.Directories \in Seq(Entries)
        BY <2>2, CallFields
      <4> QED
        BY <2>2, <3>3, <4>1, TotalOfAppend
    <3>5. Current.Size = Total(list, Sizes) + Total(Current.Directories, SizesFound)
      BY <2>2 DEF Running, Counted, list
    <3> QED
      BY <2>3, <2>5, <3>1, <3>2, <3>4, <3>5 DEF Counted
  <2>8. /\ Range(call.Files) \in {Range(Current.Files), Range(Current.Files) \cup {Entry}}
        /\ Range(call.Symlinks) \subseteq Range(Current.Symlinks) \cup {Entry}
        /\ Dealt(Entry, call)
    BY <1>1, <2>4, <2>5 DEF Dealt, list
  <2>9. Running(call)
    BY <1>1, <2>5, <2>6, <2>7, <2>8, DealtWith
  <2> QED
    BY <1>1, <2>1, <2>5, <2>9, Updated
<1> QED
  BY <1>2, <1>3

LEMMA GetSymlinkKeeps == TInv /\ GetSymlink => TInv'
<1> SUFFICES ASSUME TInv, GetSymlink PROVE TInv'
  OBVIOUS
<1>1. /\ Walking /\ tree[Entry].kind = "link" /\ looked' = FALSE /\ pc' = pc
      /\ UNCHANGED <<recursive, tree, here, found, sendVars>>
  BY DEF GetSymlink
<1>2. CASE Entry \notin here
  <2>1. Update(Rest)
    BY <1>2 DEF GetSymlink
  <2> QED
    BY <1>1, <1>2, <2>1, Skipped
<1>3. CASE Entry \in here
  <2> DEFINE call == [Rest EXCEPT !.Symlinks = Append(@, Entry)]
             list == Current.Symlinks
  <2>1. Update(call)
    BY <1>3 DEF GetSymlink
  <2>2. /\ Current \in CallRecords /\ Running(Current) /\ Entry \in Entries
        /\ Tail(Current.entries) \in Seq(Entries) /\ Entry \notin Range(list)
        /\ tree[Entry].parent = Current.dir
    BY <1>1, EntryIs
  <2>3. list \in Seq(Entries)
    BY <2>2, CallFields
  <2>4. /\ Append(list, Entry) \in Seq(Entries)
        /\ Range(Append(list, Entry)) = Range(list) \cup {Entry}
        /\ IsInjective(list) => IsInjective(Append(list, Entry))
    BY <2>2, <2>3, RangeOfAppend
  <2>5. /\ call \in CallRecords /\ call.dir = Current.dir /\ call.entries = Tail(Current.entries)
        /\ call.Files = Current.Files /\ call.Symlinks = Append(list, Entry)
        /\ call.Directories = Current.Directories /\ call.Size = Current.Size
    BY <2>2, <2>3, <2>4 DEF CallRecords, Lists, Rest
  <2> HIDE DEF call, list
  <2>6. Kept(call, call.dir) /\ Counted(call)
    <3>1. Listed(list, Current.dir, "link")
      BY <2>2 DEF Running, Kept, list
    <3>2. Listed(call.Symlinks, call.dir, "link")
      BY <1>1, <2>2, <2>4, <2>5, <3>1 DEF Listed
    <3> QED
      BY <2>2, <2>5, <3>2 DEF Running, Kept, Counted
  <2>7. /\ Range(call.Files) \in {Range(Current.Files), Range(Current.Files) \cup {Entry}}
        /\ Range(call.Symlinks) \subseteq Range(Current.Symlinks) \cup {Entry}
        /\ Dealt(Entry, call)
    BY <1>1, <2>4, <2>5 DEF Dealt, list
  <2>8. Running(call)
    BY <1>1, <2>5, <2>6, <2>7, DealtWith
  <2> QED
    BY <1>1, <2>1, <2>5, <2>8, Updated
<1> QED
  BY <1>2, <1>3

\* A call of GetDir that has not dealt with anything, for a directory of which
\* nothing has been found.
LEMMA CallRuns ==
  ASSUME IsTree(tree), here \subseteq Entries, found \in [Nodes -> Directories],
         NEW d \in Nodes, found[d] = Nothing(d), d # 0 => recursive /\ tree[d].kind = "dir"
  PROVE  /\ Call(d, ReadDir(d)) \in CallRecords
         /\ Running(Call(d, ReadDir(d)))
<1> DEFINE call == Call(d, ReadDir(d))
<1>1. /\ ReadDir(d) \in Seq(Entries) /\ IsInjective(ReadDir(d))
      /\ Range(ReadDir(d)) = {e \in here : tree[e].parent = d}
  BY ReadDirIs DEF Lists
<1>2. <<>> \in Seq(Entries) /\ Range(<<>>) = {} /\ IsInjective(<<>>)
  BY RangeOfNone, EmptySeq
<1>3. /\ call \in CallRecords /\ call.dir = d /\ call.entries = ReadDir(d) /\ call.Files = <<>>
      /\ call.Symlinks = <<>> /\ call.Directories = <<>> /\ call.Size = 0
  BY <1>1, <1>2 DEF Call, CallRecords, Lists
<1> HIDE DEF call
<1>4. Kept(call, call.dir)
  BY <1>2, <1>3 DEF Kept, Listed
<1>5. Counted(call)
  <2>1. Sizes \in [Entries -> Nat] /\ SizesFound \in [Entries -> Nat]
    BY DEF IsTree, EntryRecords, Sizes, SizesFound, Directories, Nodes
  <2>2. Total(<<>>, Sizes) = 0
    BY <2>1, TotalOfNone
  <2>3. Total(<<>>, SizesFound) = 0
    BY <2>1, TotalOfNone
  <2> QED
    BY <1>3, <2>2, <2>3 DEF Counted
<1>6. Range(call.Files \o call.Symlinks \o call.Directories) = {}
  BY <1>2, <1>3, CallFields
<1>7. Running(call)
  BY <1>1, <1>3, <1>4, <1>5, <1>6 DEF Running
<1> QED
  BY <1>3, <1>7 DEF call

\* Nothing has been found of a directory whose turn it is.
LEMMA NothingYet ==
  ASSUME TInv, Walking
  PROVE  found[Entry] = Nothing(Entry)
<1>1. /\ Entry \in Entries /\ tree[Entry].parent = Current.dir
      /\ Entry \notin Range(Current.Directories) /\ Running(Current)
  BY EntryIs
<1>2. TypeOK /\ Calls /\ pc = "walk"
  BY DEF TInv, Walking
<1>3. Entry \notin Range(found[tree[Entry].parent].Directories)
  <2>1. found[Current.dir].Directories = <<>>
    BY <1>1 DEF Running, Nothing, Directory, Call
  <2> QED
    BY <1>1, <2>1, RangeOfNone
<1>4. ASSUME NEW i \in DOMAIN stack, Entry \in Range(stack[i].Directories) PROVE FALSE
  <2>1. tree[Entry].parent = stack[i].dir
    BY <1>2, <1>4 DEF Calls, Running, Kept, Listed
  <2>2. CASE i = Len(stack)
    BY <1>1, <1>4, <2>2 DEF Current
  <2>3. CASE i # Len(stack)
    <3>1. i < Len(stack) /\ Len(stack) \in DOMAIN stack
      BY <1>2, <2>3, StackIs
    <3>2. stack[i].dir < stack[Len(stack)].dir
      BY <1>2, <3>1, DirsRise
    <3>3. stack[i].dir \in Nat
      <4>1. stack[i].dir \in Nodes
        BY <1>2, StackIs, CallFields
      <4>2. Nodes \subseteq Nat
        BY FileTreeAssumption DEF Nodes
      <4> QED
        BY <4>1, <4>2
    <3> QED
      BY <1>1, <2>1, <3>2, <3>3 DEF Current
  <2> QED
    BY <2>2, <2>3
<1> QED
  BY <1>1, <1>3, <1>4 DEF TInv, Untouched

\* The invariant is kept when GetDir calls itself.
LEMMA Called ==
  ASSUME TInv, Walking, NEW call \in CallRecords, Running(call), call.dir = Entry,
         Range(call.Directories) = {}, stack' = Append(stack, call), pc' = pc, looked' = FALSE,
         UNCHANGED <<recursive, tree, here, found, sendVars>>
  PROVE  TInv'
<1> DEFINE n == Len(stack)
<1>1. /\ n \in Nat \ {0} /\ DOMAIN stack = 1 .. n /\ n \in 1 .. n /\ stack \in Seq(CallRecords)
      /\ pc = "walk" /\ TypeOK /\ Calls /\ Current = stack[n]
  BY StackIs DEF TInv, Walking, TypeOK, Current
<1>2. /\ stack' \in Seq(CallRecords) /\ Len(stack') = n + 1 /\ stack' # <<>>
      /\ \A i \in 1 .. n : stack'[i] = stack[i]
      /\ stack'[n + 1] = call
  BY <1>1, AppendProperties
<1>3. DOMAIN stack' = 1 .. n + 1
  BY <1>2, LenProperties
<1>4. /\ recursive' = recursive /\ tree' = tree /\ here' = here /\ found' = found
      /\ accepted' = accepted /\ TotalTransferSize' = TotalTransferSize
      /\ DownloadsPath' = DownloadsPath
      /\ Sizes' = Sizes /\ SizesFound' = SizesFound
  BY DEF sendVars, Sizes, SizesFound
<1> HIDE DEF n
<1>6. \A i \in 1 .. n + 1 : i \in 1 .. n \/ i = n + 1
  BY <1>1
<1>7. TypeOK'
  <2>1. ASSUME NEW i \in 1 .. n
        PROVE  stack'[i].entries # <<>> /\ stack'[i + 1].dir = Head(stack'[i].entries)
    <3>1. CASE i = n
      <4>1. stack'[i].entries # <<>> /\ Head(stack'[i].entries) = Entry
        BY <1>1, <1>2, <3>1 DEF Walking, Entry
      <4> QED
        BY <1>2, <3>1, <4>1
    <3>2. CASE i # n
      <4>1. i \in 1 .. n - 1 /\ i + 1 \in 1 .. n
        BY <1>1, <3>2
      <4>2. stack[i].entries # <<>> /\ stack[i + 1].dir = Head(stack[i].entries)
        BY <1>1, <4>1 DEF TypeOK, n
      <4> QED
        BY <1>2, <4>1, <4>2
    <3> QED
      BY <3>1, <3>2
  <2>2. IsTree(tree)'
    BY <1>1, <1>4 DEF TypeOK, IsTree
  <2>3. (Len(stack) - 1)' = n
    BY <1>1, <1>2
  <2> QED
    BY <1>1, <1>2, <1>4, <2>1, <2>2, <2>3 DEF TypeOK
<1>8. Rooted'
  BY <1>4 DEF TInv, Rooted
<1>9. \A e : Finished(e) => Finished(e)'
  BY <1>4 DEF Finished, Counted, Dealt
<1>10. Calls'
  <2>1. ASSUME NEW i \in 1 .. n + 1
        PROVE  Running(stack[i])' /\ \A e \in Range(stack'[i].Directories) : Finished(e)'
    <3>1. CASE i = n + 1
      <4>1. stack'[i] = call
        BY <1>2, <3>1
      <4>2. Running(stack[i])'
        BY <1>4, <4>1 DEF Running, Kept, Listed, Counted, Dealt
      <4> QED
        BY <4>1, <4>2
    <3>2. CASE i \in 1 .. n
      <4>1. /\ stack'[i] = stack[i] /\ Running(stack[i])
            /\ \A e \in Range(stack[i].Directories) : Finished(e)
        BY <1>1, <1>2, <3>2 DEF Calls
      <4>2. Running(stack[i])'
        BY <1>4, <4>1 DEF Running, Kept, Listed, Counted, Dealt
      <4> QED
        BY <1>9, <4>1, <4>2
    <3> QED
      BY <1>6, <3>1, <3>2
  <2> QED
    BY <1>3, <2>1 DEF Calls
<1>11. Founds'
  BY <1>4, <1>9 DEF TInv, Founds, Kept, Listed
<1>12. Untouched'
  <2>1. \A i \in DOMAIN stack : i \in DOMAIN stack' /\ stack'[i] = stack[i]
    BY <1>1, <1>2, <1>3
  <2> QED
    BY <1>4, <2>1 DEF TInv, Untouched
<1>13. Nested' /\ WalkStopsOnlyForDirs'
  <2>1. 1 \in 1 .. n
    BY <1>1
  <2>2. stack[1].dir = 0
    BY <1>1 DEF TInv, Nested
  <2> QED
    BY <1>1, <1>2, <2>1, <2>2 DEF Nested, WalkStopsOnlyForDirs
<1> QED
  BY <1>7, <1>8, <1>10, <1>11, <1>12, <1>13 DEF TInv

LEMMA GetInnerDirKeeps == TInv /\ GetInnerDir => TInv'
<1> SUFFICES ASSUME TInv, GetInnerDir PROVE TInv'
  OBVIOUS
<1>1. /\ Walking /\ looked /\ tree[Entry].kind = "dir"
      /\ UNCHANGED <<recursive, tree, here, found, sendVars>>
  BY DEF GetInnerDir
<1>2. CASE ~recursive
  <2>1. Update(Rest) /\ looked' = FALSE /\ pc' = pc
    BY <1>2 DEF GetInnerDir
  <2>2. Dealt(Entry, Current)
    BY <1>1, <1>2 DEF Dealt
  <2> QED
    BY <1>1, <2>1, <2>2, Skipped
<1>3. CASE recursive /\ Entry \in here /\ tree[Entry].ok
  <2> DEFINE call == Call(Entry, ReadDir(Entry))
  <2>1. stack' = Append(stack, call) /\ looked' = FALSE /\ pc' = pc
    BY <1>3 DEF GetInnerDir
  <2>2. Entry \in Entries
    BY <1>1, EntryIs
  <2>3. call \in CallRecords /\ Running(call)
    <3>1. found[Entry] = Nothing(Entry)
      BY <1>1, NothingYet
    <3>2. Entry \in Nodes
      BY <2>2 DEF Nodes
    <3>3. IsTree(tree) /\ here \subseteq Entries /\ found \in [Nodes -> Directories]
      BY DEF TInv, TypeOK
    <3> QED
      BY <1>1, <1>3, <3>1, <3>2, <3>3, CallRuns
  <2>4. call.dir = Entry /\ Range(call.Directories) = {}
    BY RangeOfNone DEF Call
  <2> HIDE DEF call
  <2> QED
    BY <1>1, <2>1, <2>3, <2>4, Called
<1>4. CASE recursive /\ ~(Entry \in here /\ tree[Entry].ok)
  <2>1. pc' = "panic" /\ looked' = TRUE /\ stack' = stack
    BY <1>1, <1>4 DEF GetInnerDir, TInv, TypeOK
  <2>2. Entry \notin here \/ (tree[Entry].kind = "dir" /\ ~tree[Entry].ok)
    BY <1>1, <1>4
  <2> QED
    BY <1>1, <2>1, <2>2, Stays
<1> QED
  BY <1>2, <1>3, <1>4

\* The directory that is being walked is in no list of directories yet.
LEMMA InnerDir ==
  ASSUME TInv, pc = "walk", NEW c, c = Current.dir
  PROVE  /\ c \in Nodes /\ Running(Current)
         /\ Len(stack) = 1 => c = 0
         /\ Len(stack) > 1 =>
              /\ Len(stack) - 1 \in DOMAIN stack /\ stack[Len(stack) - 1].entries # <<>>
              /\ c \in Entries /\ c = Head(stack[Len(stack) - 1].entries)
              /\ tree[c].parent = stack[Len(stack) - 1].dir
         /\ \A x \in Nodes : c \notin Range(found[x].Directories)
         /\ \A i \in DOMAIN stack : c \notin Range(stack[i].Directories)
<1> DEFINE n == Len(stack)
           caller == stack[n - 1]
<1>1. /\ n \in Nat \ {0} /\ DOMAIN stack = 1 .. n /\ n \in 1 .. n
      /\ TypeOK /\ Calls /\ Founds /\ Current = stack[n]
      /\ \A i \in 1 .. n : stack[i] \in CallRecords
  BY StackIs DEF TInv, Current
<1>2. Current \in CallRecords /\ Running(Current)
  BY <1>1 DEF Calls
<1>3. c \in Nodes
  BY <1>2, CallFields
<1>4. n = 1 => c = 0
  BY <1>1 DEF TInv, Nested
<1>5. 0 \notin Entries
  BY FileTreeAssumption
<1>6. ASSUME n > 1
      PROVE  /\ n - 1 \in 1 .. n /\ n - 1 # n /\ caller.entries # <<>> /\ c = Head(caller.entries)
             /\ caller \in CallRecords /\ Running(caller)
  <2> HIDE DEF n
  <2>1. n - 1 \in 1 .. n /\ n - 1 \in 1 .. n - 1 /\ n - 1 # n /\ (n - 1) + 1 = n
    BY <1>1, <1>6
  <2>2. stack[n - 1].entries # <<>> /\ stack[(n - 1) + 1].dir = Head(stack[n - 1].entries)
    BY <1>1, <2>1 DEF TypeOK, n
  <2> QED
    BY <1>1, <2>1, <2>2 DEF Calls
<1> HIDE DEF n, caller
<1>7. ASSUME n > 1
      PROVE  /\ c \in Entries /\ tree[c].parent = caller.dir
             /\ c \notin Range(caller.Directories) /\ found[caller.dir] = Nothing(caller.dir)
  <2>1. caller \in CallRecords /\ Running(caller) /\ caller.entries # <<>> /\ c = Head(caller.entries)
    BY <1>6, <1>7
  <2>2. caller.entries \in Seq(Entries)
    BY <2>1, CallFields
  <2>3. c \in Range(caller.entries) /\ c \in Entries
    BY <2>1, <2>2, RangeOfTail
  <2>4. c \notin Range(caller.Files \o caller.Symlinks \o caller.Directories)
    BY <2>1, <2>3 DEF Running
  <2>5. c \notin Range(caller.Directories)
    BY <2>1, <2>4, CallFields
  <2> QED
    BY <2>1, <2>3, <2>5 DEF Running
<1>8. ASSUME NEW x \in Nodes, c \in Range(found[x].Directories) PROVE FALSE
  <2>1. found[x].Directories \in Seq(Entries)
    BY <1>1 DEF TypeOK, Directories, Lists
  <2>2. c \in Entries /\ tree[c].parent = x
    BY <1>1, <1>8, <2>1, RangeOfSeq DEF Founds, Kept, Listed
  <2>3. n > 1
    BY <1>1, <1>4, <1>5, <2>2
  <2>4. found[x].Directories = <<>>
    BY <1>7, <2>2, <2>3 DEF Nothing, Directory, Call
  <2> QED
    BY <1>8, <2>4, RangeOfNone
<1>9. ASSUME NEW i \in 1 .. n, c \in Range(stack[i].Directories) PROVE FALSE
  <2>1. stack[i].Directories \in Seq(Entries)
    BY <1>1, CallFields
  <2>2. c \in Entries
    BY <1>9, <2>1, RangeOfSeq
  <2>3. tree[c].parent = stack[i].dir
    BY <1>1, <1>9 DEF Calls, Running, Kept, Listed
  <2>4. n > 1
    BY <1>1, <1>4, <1>5, <2>2
  <2>5. stack[i].dir = stack[n - 1].dir /\ i # n - 1
    BY <1>7, <1>9, <2>3, <2>4 DEF caller
  <2>6. n - 1 \in 1 .. n
    BY <1>6, <2>4
  <2>7. i < n - 1 \/ n - 1 < i
    BY <1>1, <2>5, <2>6
  <2>8. stack[i].dir < stack[n - 1].dir \/ stack[n - 1].dir < stack[i].dir
    BY <1>1, <2>6, <2>7, DirsRise
  <2>9. stack[i].dir \in Nat
    <3>1. stack[i].dir \in Nodes
      BY <1>1, CallFields
    <3>2. Nodes \subseteq Nat
      BY FileTreeAssumption DEF Nodes
    <3> QED
      BY <3>1, <3>2
  <2> QED
    BY <2>5, <2>8, <2>9
<1> QED
  BY <1>1, <1>2, <1>3, <1>4, <1>6, <1>7, <1>8, <1>9 DEF n, caller

\* What has been found stays, and what is returned is complete.
LEMMA FoundGrows ==
  ASSUME TInv, Return, NEW c, c = Current.dir
  PROVE  /\ found' \in [Nodes -> Directories]
         /\ found'[c] = Directory(Current) /\ \A x \in Nodes \ {c} : found'[x] = found[x]
         /\ \A list \in Seq(Entries) :
              c \notin Range(list) => Total(list, SizesFound') = Total(list, SizesFound)
         /\ \A x \in Nodes \ {c} : Finished(x) => Finished(x)'
         /\ Finished(c)' /\ Founds'
<1>1. /\ pc = "walk" /\ Current.entries = <<>>
      /\ found' = [found EXCEPT ![c] = Directory(Current)]
      /\ recursive' = recursive /\ tree' = tree /\ here' = here
      /\ TypeOK /\ Calls /\ Founds
  BY DEF Return, TInv
<1>2. /\ c \in Nodes /\ Running(Current)
      /\ \A x \in Nodes : c \notin Range(found[x].Directories)
  BY <1>1, InnerDir
<1>3. Current \in CallRecords /\ \A e \in Range(Current.Directories) : Finished(e)
  BY <1>1, StackIs DEF Calls, Current
<1>4. found \in [Nodes -> Directories] /\ found' \in [Nodes -> Directories]
  BY <1>1, <1>2, <1>3 DEF TypeOK, Directory, CallRecords, Directories
<1>5. found'[c] = Directory(Current) /\ \A x \in Nodes \ {c} : found'[x] = found[x]
  BY <1>1, <1>2, <1>4
<1>6. Sizes' = Sizes
  BY <1>1 DEF Sizes
<1>7. ASSUME NEW list \in Seq(Entries), c \notin Range(list)
      PROVE  Total(list, SizesFound') = Total(list, SizesFound)
  <2>1. SizesFound \in [Entries -> Nat] /\ SizesFound' \in [Entries -> Nat]
    BY <1>4 DEF SizesFound, Directories, Nodes
  <2>2. \A e \in Range(list) : SizesFound'[e] = SizesFound[e]
    <3>1. \A e \in Range(list) : e \in Entries
      BY RangeOfSeq
    <3>2. ASSUME NEW e \in Entries, e # c PROVE found'[e] = found[e]
      BY <1>5, <3>2 DEF Nodes
    <3> QED
      BY <1>7, <3>1, <3>2 DEF SizesFound
  <2> QED
    BY <2>1, <2>2, TotalAgrees
<1>8. ASSUME NEW x \in Nodes \ {c}, Finished(x) PROVE Finished(x)'
  <2> DEFINE d == found[x]
  <2>1. d.Directories \in Seq(Entries) /\ c \notin Range(d.Directories)
    BY <1>2, <1>4 DEF Directories, Lists
  <2>2. Total(d.Directories, SizesFound') = Total(d.Directories, SizesFound)
    BY <1>7, <2>1
  <2>3. found'[x] = d
    BY <1>5
  <2>4. Counted(d) /\ \A e \in here : tree[e].parent = x => Dealt(e, d)
    BY <1>8 DEF Finished
  <2> HIDE DEF d
  <2>5. d.Size = Total(d.Files, Sizes') + Total(d.Directories, SizesFound')
    BY <1>6, <2>2, <2>4 DEF Counted
  <2>6. Counted(found[x])'
    BY <2>3, <2>5 DEF Counted
  <2>7. \A e \in here' : tree'[e].parent = x => Dealt(e, found[x])'
    BY <1>1, <2>3, <2>4 DEF Dealt
  <2> QED
    BY <2>6, <2>7 DEF Finished
<1>9. c \notin Range(Current.Directories)
  <2>1. Len(stack) \in DOMAIN stack
    BY <1>1, StackIs
  <2> QED
    BY <1>1, <2>1, InnerDir DEF Current
<1> DEFINE d == Directory(Current)
<1>10. /\ d.Files = Current.Files /\ d.Symlinks = Current.Symlinks
       /\ d.Directories = Current.Directories /\ d.Size = Current.Size
  BY DEF Directory
<1>11. found'[c] = d
  BY <1>5
<1> HIDE DEF d
<1>12. Finished(c)'
  <2>1. Current.Directories \in Seq(Entries)
    BY <1>3, CallFields
  <2>2. Total(d.Directories, SizesFound') = Total(d.Directories, SizesFound)
    BY <1>7, <1>9, <1>10, <2>1
  <2>3. d.Size = Total(d.Files, Sizes') + Total(d.Directories, SizesFound')
    BY <1>2, <1>6, <1>10, <2>2 DEF Running, Counted
  <2>4. Counted(found[c])'
    BY <1>11, <2>3 DEF Counted
  <2>5. \A e \in here : tree[e].parent = c => Dealt(e, d)
    <3>1. Range(Current.entries) = {}
      BY <1>1, RangeOfNone
    <3>2. \A e \in here : tree[e].parent = c => Dealt(e, Current)
      BY <1>2, <3>1 DEF Running
    <3> QED
      BY <1>10, <3>2 DEF Dealt
  <2>6. \A e \in here' : tree'[e].parent = c => Dealt(e, found[c])'
    BY <1>1, <1>11, <2>5 DEF Dealt
  <2> QED
    BY <2>4, <2>6 DEF Finished
<1>13. Founds'
  <2>1. ASSUME NEW x \in Nodes
        PROVE  Kept(found[x], x)' /\ \A e \in Range(found'[x].Directories) : Finished(e)'
    <3>1. CASE x = c
      <4>1. Kept(d, c)
        BY <1>2, <1>10 DEF Running, Kept, Listed
      <4>2. Kept(found[x], x)'
        BY <1>1, <1>11, <3>1, <4>1 DEF Kept, Listed
      <4>3. Current.Directories \in Seq(Entries)
        BY <1>3, CallFields
      <4>4. \A e \in Range(Current.Directories) : e \in Nodes \ {c}
        BY <1>9, <4>3, RangeOfSeq DEF Nodes
      <4>5. \A e \in Range(Current.Directories) : Finished(e)'
        BY <1>3, <1>8, <4>4
      <4> QED
        BY <1>10, <1>11, <3>1, <4>2, <4>5
    <3>2. CASE x # c
      <4>1. found'[x] = found[x] /\ Kept(found[x], x)
            /\ \A e \in Range(found[x].Directories) : Finished(e)
        BY <1>1, <1>5, <3>2 DEF Founds
      <4>2. Kept(found[x], x)'
        BY <1>1, <4>1 DEF Kept, Listed
      <4>3. found[x].Directories \in Seq(Entries)
        BY <1>4 DEF Directories, Lists
      <4>4. \A e \in Range(found[x].Directories) : e \in Nodes \ {c}
        BY <1>2, <4>3, RangeOfSeq DEF Nodes
      <4> QED
        BY <1>8, <4>1, <4>2, <4>4
    <3> QED
      BY <3>1, <3>2
  <2> QED
    BY <2>1 DEF Founds
<1> QED
  BY <1>4, <1>5, <1>7, <1>8, <1>12, <1>13

\* The caller goes on with what has been returned to it.
LEMMA CallerGoesOn ==
  ASSUME TInv, Return, Len(stack) > 1, NEW call, call = ReturnTo(stack[Len(stack) - 1])
  PROVE  /\ call \in CallRecords /\ call.dir = stack[Len(stack) - 1].dir
         /\ call.Directories = Append(stack[Len(stack) - 1].Directories, Current.dir)
         /\ Range(call.Directories) = Range(stack[Len(stack) - 1].Directories) \cup {Current.dir}
         /\ Running(call)'
<1>1. PICK c : c = Current.dir
  OBVIOUS
<1>2. PICK caller : caller = stack[Len(stack) - 1]
  OBVIOUS
<1>3. /\ pc = "walk" /\ TypeOK /\ Calls
      /\ recursive' = recursive /\ tree' = tree /\ here' = here /\ Sizes' = Sizes
  BY DEF Return, TInv, Sizes
<1>4. /\ Len(stack) - 1 \in DOMAIN stack /\ caller.entries # <<>> /\ c = Head(caller.entries)
      /\ c \in Entries /\ tree[c].parent = caller.dir /\ Running(Current)
      /\ c \notin Range(caller.Directories)
  BY <1>1, <1>2, <1>3, InnerDir
<1>5. Current \in CallRecords /\ caller \in CallRecords /\ Running(caller)
  BY <1>2, <1>3, <1>4, StackIs DEF Calls
<1>6. /\ caller.entries \in Seq(Entries) /\ caller.Directories \in Seq(Entries)
      /\ caller.Size \in Nat /\ Current.Size \in Nat
  BY <1>5, CallFields
<1>7. /\ Tail(caller.entries) \in Seq(Entries) /\ IsInjective(Tail(caller.entries))
      /\ Range(caller.entries) = {c} \cup Range(Tail(caller.entries))
      /\ c \notin Range(Tail(caller.entries))
  <2>1. IsInjective(caller.entries)
    BY <1>5 DEF Running
  <2> QED
    BY <1>4, <1>6, <2>1, RangeOfTail, HeadTailProperties
<1> DEFINE list == caller.Directories
<1>8. /\ Append(list, c) \in Seq(Entries)
      /\ Range(Append(list, c)) = Range(list) \cup {c}
      /\ IsInjective(list) => IsInjective(Append(list, c))
  BY <1>4, <1>6, RangeOfAppend
<1>9. /\ call \in CallRecords /\ call.dir = caller.dir /\ call.entries = Tail(caller.entries)
      /\ call.Files = caller.Files /\ call.Symlinks = caller.Symlinks
      /\ call.Directories = Append(list, c) /\ call.Size = caller.Size + Current.Size
  <2>1. call = [caller EXCEPT !.entries = Tail(caller.entries), !.Directories = Append(list, c),
                              !.Size = caller.Size + Current.Size]
    BY <1>1, <1>2, <1>5 DEF ReturnTo, CallRecords
  <2>2. caller.Size + Current.Size \in Nat
    BY <1>6
  <2> HIDE DEF list
  <2> QED
    BY <1>5, <1>7, <1>8, <2>1, <2>2 DEF CallRecords, Lists
<1>10. c # 0 /\ recursive /\ tree[c].kind = "dir"
  <2>1. c # 0
    BY <1>4, FileTreeAssumption
  <2> QED
    BY <1>1, <1>4, <2>1 DEF Running
<1>11. Kept(call, call.dir)
  <2>1. Listed(list, caller.dir, "dir")
    BY <1>5 DEF Running, Kept
  <2>2. Listed(Append(list, c), caller.dir, "dir")
    BY <1>4, <1>8, <1>10, <2>1 DEF Listed
  <2> QED
    BY <1>5, <1>9, <1>10, <2>2 DEF Running, Kept
<1>12. /\ found' \in [Nodes -> Directories] /\ found'[c] = Directory(Current)
       /\ \A x \in Nodes \ {c} : found'[x] = found[x]
       /\ \A l \in Seq(Entries) :
            c \notin Range(l) => Total(l, SizesFound') = Total(l, SizesFound)
  BY <1>1, FoundGrows
<1>13. call.Size = Total(call.Files, Sizes') + Total(call.Directories, SizesFound')
  <2>1. SizesFound' \in [Entries -> Nat]
    BY <1>12 DEF SizesFound, Directories, Nodes
  <2>2. SizesFound'[c] = Current.Size
    BY <1>4, <1>12 DEF SizesFound, Directory
  <2>3. Total(list, SizesFound') = Total(list, SizesFound)
    BY <1>4, <1>6, <1>12
  <2>4. /\ Total(Append(list, c), SizesFound') = Total(list, SizesFound') + SizesFound'[c]
        /\ Total(list, SizesFound') \in Nat
    <3> DEFINE size == SizesFound'
    <3>1. size \in [Entries -> Nat] /\ list \in Seq(Entries)
      BY <1>6, <2>1
    <3> HIDE DEF size, list
    <3>2. Total(Append(list, c), size) = Total(list, size) + size[c] /\ Total(list, size) \in Nat
      BY <1>4, <3>1, TotalOfAppend
    <3> QED
      BY <3>2 DEF size
  <2>5. caller.Size = Total(caller.Files, Sizes) + Total(list, SizesFound)
    BY <1>5 DEF Running, Counted
  <2>6. Total(caller.Files, Sizes) \in Nat
    <3>1. caller.Files \in Seq(Entries)
      BY <1>5, CallFields
    <3>2. Sizes \in [Entries -> Nat]
      BY <1>3 DEF TypeOK, IsTree, EntryRecords, Sizes
    <3> QED
      BY <1>4, <3>1, <3>2, TotalOfAppend
  <2> HIDE DEF list
  <2> QED
    BY <1>3, <1>6, <1>9, <2>2, <2>3, <2>4, <2>5, <2>6
<1>14. ASSUME NEW e \in Range(call.entries)
       PROVE  tree[e].parent = call.dir
              /\ e \notin Range(call.Files \o call.Symlinks \o call.Directories)
  <2>1. e \in Range(caller.entries) /\ e # c
    BY <1>7, <1>9
  <2>2. /\ tree[e].parent = caller.dir
        /\ e \notin Range(caller.Files \o caller.Symlinks \o caller.Directories)
    BY <1>5, <2>1 DEF Running
  <2>3. e \notin Range(caller.Files) \cup Range(caller.Symlinks) \cup Range(list)
    BY <1>5, <2>2, CallFields
  <2>4. e \notin Range(call.Files) \cup Range(call.Symlinks) \cup Range(call.Directories)
    BY <1>8, <1>9, <2>1, <2>3
  <2> QED
    BY <1>9, <2>2, <2>4, CallFields
<1>15. ASSUME NEW e \in here, tree[e].parent = call.dir
       PROVE  e \in Range(call.entries) \/ Dealt(e, call)
  <2>1. e \in Range(caller.entries) \/ Dealt(e, caller)
    BY <1>5, <1>9, <1>15 DEF Running
  <2>2. Dealt(e, caller) => Dealt(e, call)
    BY <1>8, <1>9 DEF Dealt
  <2>3. Dealt(c, call)
    BY <1>8, <1>9, <1>10 DEF Dealt
  <2> QED
    BY <1>7, <1>9, <2>1, <2>2, <2>3
<1>16. found'[call.dir] = Nothing(call.dir)
  <2>1. caller.dir # c
    <3>1. tree[c].parent < c
      BY <1>3, <1>4 DEF TypeOK, IsTree
    <3>2. c \in Nat /\ caller.dir \in Nodes /\ Nodes \subseteq Nat
      BY <1>4, <1>5, CallFields, FileTreeAssumption DEF Nodes
    <3> QED
      BY <1>4, <3>1, <3>2
  <2>2. caller.dir \in Nodes \ {c} /\ found[caller.dir] = Nothing(caller.dir)
    BY <1>5, <2>1, CallFields DEF Running
  <2> QED
    BY <1>9, <1>12, <2>2
<1>17. Running(call)'
  <2>1. (call.dir # 0 => recursive' /\ tree'[call.dir].kind = "dir")
    BY <1>3, <1>5, <1>9 DEF Running
  <2>2. Kept(call, call.dir)'
    BY <1>3, <1>11 DEF Kept, Listed
  <2>3. Counted(call)'
    BY <1>13 DEF Counted
  <2>4. \A e \in here' : tree'[e].parent = call.dir => e \in Range(call.entries) \/ Dealt(e, call)'
    BY <1>3, <1>15 DEF Dealt
  <2>5. IsInjective(call.entries)
    BY <1>7, <1>9
  <2> QED
    BY <1>3, <1>14, <1>16, <2>1, <2>2, <2>3, <2>4, <2>5 DEF Running
<1> QED
  BY <1>1, <1>2, <1>8, <1>9, <1>17

\* The calls that wait do not notice what is returned further in.
LEMMA CallsWait ==
  ASSUME TInv, Return, NEW i \in DOMAIN stack, i # Len(stack), NEW call, call = stack[i]
  PROVE  /\ Running(call)'
         /\ \A e \in Range(call.Directories) : Finished(e)'
<1>1. PICK c : c = Current.dir
  OBVIOUS
<1>2. /\ pc = "walk" /\ TypeOK /\ Calls
      /\ recursive' = recursive /\ tree' = tree /\ here' = here /\ Sizes' = Sizes
  BY DEF Return, TInv, Sizes
<1>3. call \in CallRecords /\ Running(call) /\ \A e \in Range(call.Directories) : Finished(e)
  BY <1>2, StackIs DEF Calls
<1>4. call.Directories \in Seq(Entries) /\ call.dir \in Nodes /\ c \notin Range(call.Directories)
  BY <1>1, <1>2, <1>3, CallFields, InnerDir
<1>5. call.dir # c
  <2>1. i < Len(stack) /\ Len(stack) \in DOMAIN stack
    BY <1>2, StackIs
  <2>2. call.dir < c
    BY <1>1, <1>2, <2>1, DirsRise DEF Current
  <2>3. call.dir \in Nat
    <3>1. Nodes \subseteq Nat
      BY FileTreeAssumption DEF Nodes
    <3> QED
      BY <1>4, <3>1
  <2> QED
    BY <2>2, <2>3
<1>6. /\ \A x \in Nodes \ {c} : found'[x] = found[x]
      /\ Total(call.Directories, SizesFound') = Total(call.Directories, SizesFound)
      /\ \A x \in Nodes \ {c} : Finished(x) => Finished(x)'
  BY <1>1, <1>4, FoundGrows
<1>7. \A e \in Range(call.Directories) : Finished(e)'
  <2>1. \A e \in Range(call.Directories) : e \in Nodes \ {c}
    BY <1>4, RangeOfSeq DEF Nodes
  <2> QED
    BY <1>3, <1>6, <2>1
<1>8. Counted(call)'
  BY <1>2, <1>3, <1>6 DEF Running, Counted
<1>9. found'[call.dir] = Nothing(call.dir)
  BY <1>3, <1>4, <1>5, <1>6 DEF Running
<1>10. Kept(call, call.dir)'
  BY <1>2, <1>3 DEF Running, Kept, Listed
<1>11. \A e : Dealt(e, call)' <=> Dealt(e, call)
  BY <1>2 DEF Dealt
<1>12. Running(call)'
  BY <1>2, <1>3, <1>8, <1>9, <1>10, <1>11 DEF Running
<1> QED
  BY <1>7, <1>12

\* What has been returned to a caller stays with it.
LEMMA StillReturned ==
  ASSUME TInv, Return, NEW e \in Entries, found[e] # Nothing(e)
  PROVE  \/ e \in Range(found'[tree[e].parent].Directories)
         \/ \E i \in DOMAIN stack : i # Len(stack) /\ e \in Range(stack[i].Directories)
<1>1. PICK c : c = Current.dir
  OBVIOUS
<1>2. pc = "walk" /\ TypeOK /\ Calls
  BY DEF Return, TInv
<1>3. /\ Len(stack) \in DOMAIN stack /\ tree[e].parent \in Nodes
  BY <1>2, StackIs DEF TypeOK, IsTree, EntryRecords
<1>4. /\ found'[c] = Directory(Current)
      /\ \A x \in Nodes \ {c} : found'[x] = found[x]
  BY <1>1, FoundGrows
<1>5. Running(Current)
  BY <1>2, <1>3 DEF Calls, Current
<1>6. CASE e \in Range(found[tree[e].parent].Directories)
  <2>1. CASE tree[e].parent = c
    <3>1. found[c].Directories = <<>>
      BY <1>1, <1>5 DEF Running, Nothing, Directory, Call
    <3> QED
      BY <1>6, <2>1, <3>1, RangeOfNone
  <2>2. CASE tree[e].parent # c
    BY <1>3, <1>4, <1>6, <2>2
  <2> QED
    BY <2>1, <2>2
<1>7. CASE \E i \in DOMAIN stack : e \in Range(stack[i].Directories)
  <2>1. PICK i \in DOMAIN stack : e \in Range(stack[i].Directories)
    BY <1>7
  <2>2. CASE i = Len(stack)
    <3>1. e \in Range(Current.Directories)
      BY <2>1, <2>2 DEF Current
    <3>2. tree[e].parent = c
      BY <1>1, <1>5, <3>1 DEF Running, Kept, Listed
    <3> QED
      BY <1>4, <3>1, <3>2 DEF Directory
  <2>3. CASE i # Len(stack)
    BY <2>1, <2>3
  <2> QED
    BY <2>2, <2>3
<1> QED
  BY <1>6, <1>7 DEF TInv, Untouched

LEMMA ReturnKeepsInner ==
  ASSUME TInv, Return, Len(stack) > 1
  PROVE  TInv'
<1>0. PICK n : n = Len(stack)
  OBVIOUS
<1>a. PICK call : call = ReturnTo(stack[Len(stack) - 1])
  OBVIOUS
<1>b. PICK c : c = Current.dir
  OBVIOUS
<1>1. /\ n \in Nat \ {0} /\ DOMAIN stack = 1 .. n /\ n \in 1 .. n /\ stack \in Seq(CallRecords)
      /\ TypeOK /\ Calls
      /\ \A i \in 1 .. n : stack[i] \in CallRecords
      /\ pc = "walk" /\ Current.entries = <<>>
  BY <1>0, StackIs DEF TInv, Return, TypeOK
<1>2. n > 1
  BY <1>0
<1>3. /\ call \in CallRecords /\ call.dir = stack[n - 1].dir
      /\ Range(call.Directories) = Range(stack[n - 1].Directories) \cup {c}
      /\ Running(call)'
  BY <1>0, <1>a, <1>b, CallerGoesOn
<1>4. stack' = Append(SubSeq(stack, 1, n - 2), call) /\ pc' = pc
  BY <1>0, <1>a, <1>1 DEF Return
<1>5. /\ stack' \in Seq(CallRecords) /\ Len(stack') = n - 1
      /\ stack'[n - 1] = call /\ \A i \in 1 .. n - 2 : stack'[i] = stack[i]
  <2> DEFINE m == n - 2
             front == SubSeq(stack, 1, m)
  <2>1. m \in Nat /\ m + 1 = n - 1 /\ \A i \in 1 .. m : i \in 1 .. n
    BY <1>1, <1>2
  <2>2. \A i \in 1 .. m : stack[i] \in CallRecords
    BY <1>1, <2>1
  <2>3. stack' = Append(front, call)
    BY <1>4
  <2> HIDE DEF m
  <2>4. /\ front \in Seq(CallRecords) /\ Len(front) = IF 1 <= m THEN m - 1 + 1 ELSE 0
        /\ \A i \in 1 .. m - 1 + 1 : front[i] = stack[1 + i - 1]
    BY <2>1, <2>2, SubSeqProperties
  <2> HIDE DEF front
  <2>5. Len(front) = m
    BY <2>1, <2>4
  <2>6. ASSUME NEW i \in 1 .. m PROVE front[i] = stack[i]
    <3>1. i \in 1 .. m - 1 + 1 /\ 1 + i - 1 = i
      BY <2>1
    <3> QED
      BY <2>4, <3>1
  <2>7. /\ Append(front, call) \in Seq(CallRecords) /\ Len(Append(front, call)) = m + 1
        /\ Append(front, call)[m + 1] = call
        /\ \A i \in 1 .. m : Append(front, call)[i] = front[i]
    BY <1>3, <2>4, <2>5, AppendProperties
  <2> QED
    BY <2>1, <2>3, <2>6, <2>7 DEF m
<1>6. DOMAIN stack' = 1 .. n - 1 /\ stack' # <<>>
  BY <1>1, <1>2, <1>5, LenProperties, EmptySeq
<1>7. \A i \in 1 .. n - 1 : i \in 1 .. n /\ i # n /\ (i \in 1 .. n - 2 \/ i = n - 1)
  BY <1>1
<1>8. \A i \in 1 .. n - 1 : stack'[i].dir = stack[i].dir
  BY <1>3, <1>5, <1>7
<1>9. /\ recursive' = recursive /\ tree' = tree /\ here' = here /\ looked' = looked
      /\ accepted' = accepted /\ TotalTransferSize' = TotalTransferSize
      /\ DownloadsPath' = DownloadsPath
      /\ found' = [found EXCEPT ![c] = Directory(Current)]
  BY <1>b, <1>0, <1>2 DEF Return
<1>10. /\ found' \in [Nodes -> Directories]
       /\ Finished(c)' /\ Founds'
       /\ \A x \in Nodes \ {c} : found'[x] = found[x]
  BY <1>b, FoundGrows
<1>11. TypeOK'
  <2>1. ASSUME NEW i \in 1 .. n - 2
        PROVE  stack'[i].entries # <<>> /\ stack'[i + 1].dir = Head(stack'[i].entries)
    <3>1. i \in 1 .. n - 1 /\ i + 1 \in 1 .. n - 1
      BY <1>1
    <3>2. stack[i].entries # <<>> /\ stack[i + 1].dir = Head(stack[i].entries)
      BY <1>0, <1>1, <3>1 DEF TypeOK
    <3> QED
      BY <1>5, <1>8, <3>1, <3>2
  <2>2. IsTree(tree)'
    BY <1>1, <1>9 DEF TypeOK, IsTree
  <2>3. (Len(stack) - 1)' = n - 2
    BY <1>1, <1>5
  <2>4. looked' = FALSE
    BY <1>1, <1>9 DEF TypeOK
  <2> QED
    BY <1>1, <1>4, <1>5, <1>6, <1>9, <1>10, <2>1, <2>2, <2>3, <2>4 DEF TypeOK
<1>12. Rooted'
  BY <1>9 DEF TInv, Rooted
<1>13. Calls'
  <2>1. ASSUME NEW i \in 1 .. n - 1
        PROVE  Running(stack[i])' /\ \A e \in Range(stack'[i].Directories) : Finished(e)'
    <3>1. PICK old : old = stack[i]
      OBVIOUS
    <3>2. i \in DOMAIN stack /\ i # Len(stack)
      BY <1>0, <1>1, <1>7
    <3>3. Running(old)' /\ \A e \in Range(old.Directories) : Finished(e)'
      BY <3>1, <3>2, CallsWait
    <3>4. PICK new : new = stack'[i]
      OBVIOUS
    <3>5. Running(new)' /\ \A e \in Range(new.Directories) : Finished(e)'
      <4>1. CASE i \in 1 .. n - 2
        <5>1. new = old
          BY <1>5, <3>1, <3>4, <4>1
        <5> QED
          BY <3>3, <5>1
      <4>2. CASE i = n - 1
        <5>1. new = call /\ old = stack[n - 1]
          BY <1>5, <3>1, <3>4, <4>2
        <5> QED
          BY <1>3, <1>10, <3>3, <5>1
      <4> QED
        BY <1>7, <4>1, <4>2
    <3>6. Running(stack[i])'
      BY <3>4, <3>5 DEF Running
    <3> QED
      BY <3>4, <3>5, <3>6
  <2> QED
    BY <1>6, <2>1 DEF Calls
<1>14. Untouched'
  <2>1. ASSUME NEW e \in Entries
        PROVE  \/ found'[e] = Nothing(e)
               \/ e \in Range(found'[tree'[e].parent].Directories)
               \/ \E i \in DOMAIN stack' : e \in Range(stack'[i].Directories)
    <3>1. ASSUME NEW i \in 1 .. n, i # n, e \in Range(stack[i].Directories)
          PROVE  \E j \in DOMAIN stack' : e \in Range(stack'[j].Directories)
      <4>1. i \in 1 .. n - 1 /\ (i \in 1 .. n - 2 \/ i = n - 1)
        BY <1>1, <3>1
      <4>2. e \in Range(stack'[i].Directories)
        BY <1>3, <1>5, <3>1, <4>1
      <4> QED
        BY <1>6, <4>1, <4>2
    <3>2. CASE found[e] # Nothing(e)
      BY <1>0, <1>1, <1>9, <3>1, <3>2, StillReturned
    <3>3. CASE found[e] = Nothing(e) /\ e # c
      BY <1>10, <3>3 DEF Nodes
    <3>4. CASE e = c
      <4>1. n - 1 \in DOMAIN stack' /\ e \in Range(stack'[n - 1].Directories)
        BY <1>1, <1>2, <1>3, <1>5, <1>6, <3>4
      <4> QED
        BY <4>1
    <3> QED
      BY <3>2, <3>3, <3>4
  <2> QED
    BY <2>1 DEF Untouched
<1>15. Nested' /\ WalkStopsOnlyForDirs'
  <2>1. 1 \in 1 .. n - 1
    BY <1>1, <1>2
  <2>2. stack[1].dir = 0
    BY <1>1 DEF TInv, Nested
  <2> QED
    BY <1>1, <1>4, <1>6, <1>8, <2>1, <2>2 DEF Nested, WalkStopsOnlyForDirs
<1> QED
  BY <1>10, <1>11, <1>12, <1>13, <1>14, <1>15 DEF TInv

LEMMA ReturnKeepsOuter ==
  ASSUME TInv, Return, Len(stack) = 1
  PROVE  TInv'
<1>1. /\ pc = "walk" /\ TypeOK /\ Current.entries = <<>> /\ 1 \in DOMAIN stack
      /\ Current = stack[1] /\ Current \in CallRecords
  BY StackIs DEF TInv, Return, Current
<1>2. Current.dir = 0 /\ 0 \in Nodes
  BY <1>1, InnerDir DEF Nodes
<1>3. /\ pc' = "serving" /\ stack' = <<>> /\ TotalTransferSize' = Current.Size
      /\ recursive' = recursive /\ tree' = tree /\ here' = here /\ looked' = looked
      /\ accepted' = accepted /\ DownloadsPath' = DownloadsPath
  BY DEF Return
<1>4. /\ found' \in [Nodes -> Directories] /\ found'[0] = Directory(Current)
      /\ \A x \in Nodes \ {0} : found'[x] = found[x]
      /\ Finished(0)' /\ Founds'
  BY <1>2, FoundGrows
<1>5. DOMAIN stack' = {} /\ Len(stack') = 0 /\ stack' \in Seq(CallRecords)
  <2>1. <<>> \in Seq(CallRecords) /\ Len(<<>>) = 0
    BY EmptySeq
  <2>2. DOMAIN <<>> = 1 .. 0
    BY <2>1, LenProperties
  <2> QED
    BY <1>3, <2>1, <2>2
<1>6. TypeOK'
  <2>1. IsTree(tree)'
    BY <1>1, <1>3 DEF TypeOK, IsTree
  <2>2. looked' = FALSE
    BY <1>1, <1>3 DEF TypeOK
  <2>3. TotalTransferSize' \in Nat
    BY <1>1, <1>3, CallFields
  <2>4. (1 .. Len(stack) - 1)' = {}
    BY <1>5
  <2> QED
    BY <1>1, <1>3, <1>4, <1>5, <2>1, <2>2, <2>3, <2>4 DEF TypeOK
<1>7. Rooted' /\ Calls'
  BY <1>3, <1>5 DEF TInv, Rooted, Calls
<1>8. Untouched'
  <2>1. ASSUME NEW e \in Entries
        PROVE  \/ found'[e] = Nothing(e)
               \/ e \in Range(found'[tree'[e].parent].Directories)
    <3>1. e \in Nodes \ {0}
      BY FileTreeAssumption DEF Nodes
    <3>2. CASE found[e] = Nothing(e)
      BY <1>4, <3>1, <3>2
    <3>3. CASE found[e] # Nothing(e)
      <4>1. \A i \in DOMAIN stack : i = Len(stack)
        BY <1>1, StackIs
      <4> QED
        BY <1>3, <3>3, <4>1, StillReturned
    <3> QED
      BY <3>2, <3>3
  <2> QED
    BY <2>1 DEF Untouched
<1>9. Nested' /\ WalkStopsOnlyForDirs'
  <2>1. TotalTransferSize' = found'[0].Size
    BY <1>3, <1>4 DEF Directory
  <2> QED
    BY <1>3, <1>4, <2>1 DEF Nested, WalkStopsOnlyForDirs
<1> QED
  BY <1>4, <1>6, <1>7, <1>8, <1>9 DEF TInv

LEMMA ReturnKeeps == TInv /\ Return => TInv'
<1> SUFFICES ASSUME TInv, Return PROVE TInv'
  OBVIOUS
<1>1. Len(stack) > 1 \/ Len(stack) = 1
  BY DEF Return
<1> QED
  BY <1>1, ReturnKeepsInner, ReturnKeepsOuter

LEMMA OnAcceptKeeps == TInv /\ OnAccept => TInv'
<1> SUFFICES ASSUME TInv, OnAccept PROVE TInv'
  OBVIOUS
<1>1. /\ recursive' = recursive /\ tree' = tree /\ here' = here /\ found' = found
      /\ stack' = stack /\ looked' = looked /\ TotalTransferSize' = TotalTransferSize
      /\ accepted' = TRUE /\ pc = "serving"
      /\ DownloadsPath' \in {Downloads, Append(Downloads, Last(Base))}
      /\ Sizes' = Sizes /\ SizesFound' = SizesFound
  BY DEF OnAccept, AnswerYes, Sizes, SizesFound
<1>2. \/ /\ pc' = "sending"
         /\ FilesToSend' = [i \in DOMAIN GetAllFiles |-> RelativeFile(GetAllFiles[i])]
         /\ SymlinksToSend' = [i \in DOMAIN GetAllSymlinks |-> RelativeSymlink(GetAllSymlinks[i])]
      \/ pc' = "panic"
  BY DEF OnAccept
<1>3. TypeOK'
  <2>1. IsTree(tree)' /\ Current' = Current
    BY <1>1 DEF TInv, TypeOK, IsTree, Current
  <2> QED
    BY <1>1, <1>2, <2>1 DEF TInv, TypeOK
<1>4. \A e : Finished(e) => Finished(e)'
  BY <1>1 DEF Finished, Counted, Dealt
<1>5. Rooted' /\ Untouched'
  BY <1>1 DEF TInv, Rooted, Untouched
<1>6. Founds'
  BY <1>1, <1>4 DEF TInv, Founds, Kept, Listed
<1>7. Calls'
  <2>1. ASSUME NEW i \in DOMAIN stack
        PROVE  Running(stack[i])' /\ \A e \in Range(stack'[i].Directories) : Finished(e)'
    <3>1. Running(stack[i]) /\ \A e \in Range(stack[i].Directories) : Finished(e)
      BY DEF TInv, Calls
    <3>2. Running(stack[i])'
      BY <1>1, <3>1 DEF Running, Kept, Listed, Counted, Dealt
    <3> QED
      BY <1>1, <1>4, <3>1, <3>2
  <2> QED
    BY <1>1, <2>1 DEF Calls
<1>8. GetAllFiles' = GetAllFiles /\ GetAllSymlinks' = GetAllSymlinks
  BY <1>1 DEF GetAllFiles, GetAllSymlinks, All
<1>9. \A e : RelativeFile(e)' = RelativeFile(e) /\ RelativeSymlink(e)' = RelativeSymlink(e)
  <2>1. PathBelowBase' = PathBelowBase
    BY <1>1 DEF PathBelowBase
  <2> QED
    BY <1>1, <2>1 DEF RelativeFile, RelativeSymlink, Path
<1>10. Nested'
  <2>1. ASSUME pc' = "sending"
        PROVE  /\ FilesToSend' = [i \in DOMAIN GetAllFiles' |-> RelativeFile(GetAllFiles[i])']
               /\ SymlinksToSend' = [i \in DOMAIN GetAllSymlinks' |-> RelativeSymlink(GetAllSymlinks[i])']
    BY <1>2, <1>8, <1>9, <2>1
  <2>2. Finished(0)' /\ TotalTransferSize' = found'[0].Size
    BY <1>1, <1>4 DEF TInv, Nested
  <2> QED
    BY <1>1, <1>2, <2>1, <2>2 DEF Nested
<1>11. WalkStopsOnlyForDirs'
  BY <1>1 DEF WalkStopsOnlyForDirs
<1> QED
  BY <1>3, <1>5, <1>6, <1>7, <1>10, <1>11 DEF TInv

LEMMA MoveAwayKeeps == TInv /\ MoveAway => TInv'
<1> SUFFICES ASSUME TInv, MoveAway PROVE TInv'
  OBVIOUS
<1>1. /\ recursive' = recursive /\ tree' = tree /\ found' = found /\ pc' = pc /\ pc = "walk"
      /\ stack' = stack /\ looked' = looked /\ TotalTransferSize' = TotalTransferSize
      /\ accepted' = accepted /\ DownloadsPath' = DownloadsPath
      /\ Sizes' = Sizes /\ SizesFound' = SizesFound
  BY DEF MoveAway, sendVars, Sizes, SizesFound
<1>2. PICK d \in here : here' = here \ Below(d)
  BY DEF MoveAway
<1>3. here' \subseteq here /\ here \subseteq Entries /\ IsTree(tree)
  BY <1>2 DEF TInv, TypeOK
<1>4. TypeOK'
  <2>1. IsTree(tree)' /\ Current' = Current
    BY <1>1, <1>3 DEF IsTree, Current
  <2> QED
    BY <1>1, <1>3, <2>1 DEF TInv, TypeOK
<1>5. Rooted'
  <2>1. ASSUME NEW e \in here' PROVE tree[e].parent \in {0} \cup here'
    <3>1. e \in Entries /\ d \in Entries /\ e \notin Below(d) /\ tree[e].parent \in {0} \cup here
      BY <1>2, <1>3 DEF TInv, Rooted
    <3>2. tree[e].parent \notin Below(d)
      BY <1>3, <3>1, BelowIs
    <3> QED
      BY <1>2, <3>1, <3>2
  <2> QED
    BY <1>1, <2>1 DEF Rooted
<1>6. \A e : Finished(e) => Finished(e)'
  BY <1>1, <1>3 DEF Finished, Counted, Dealt
<1>7. Untouched'
  BY <1>1 DEF TInv, Untouched
<1>8. Founds'
  BY <1>1, <1>6 DEF TInv, Founds, Kept, Listed
<1>9. Calls'
  <2>1. ASSUME NEW i \in DOMAIN stack
        PROVE  Running(stack[i])' /\ \A e \in Range(stack'[i].Directories) : Finished(e)'
    <3>1. Running(stack[i]) /\ \A e \in Range(stack[i].Directories) : Finished(e)
      BY DEF TInv, Calls
    <3>2. Running(stack[i])'
      BY <1>1, <1>3, <3>1 DEF Running, Kept, Listed, Counted, Dealt
    <3> QED
      BY <1>1, <1>6, <3>1, <3>2
  <2> QED
    BY <1>1, <2>1 DEF Calls
<1>10. Nested' /\ WalkStopsOnlyForDirs'
  BY <1>1 DEF TInv, Nested, WalkStopsOnlyForDirs
<1> QED
  BY <1>4, <1>5, <1>7, <1>8, <1>9, <1>10 DEF TInv

LEMMA InitHolds == Init => TInv
<1> SUFFICES ASSUME Init PROVE TInv
  OBVIOUS
<1> DEFINE call == Call(0, ReadDir(0))
<1>1. /\ pc = "walk" /\ recursive \in BOOLEAN /\ here = Entries /\ looked = FALSE
      /\ accepted = FALSE /\ TotalTransferSize = 0 /\ stack = <<call>>
      /\ DownloadsPath = Downloads
      /\ found = [dir \in Nodes |-> Nothing(dir)]
  BY DEF Init, Nothing
<1>2. IsTree(tree)
  BY FileTreeAssumption DEF Init
<1>3. /\ <<>> \in Seq(Entries) /\ Range(<<>>) = {} /\ IsInjective(<<>>)
      /\ \A d : /\ Nothing(d).Files = <<>> /\ Nothing(d).Symlinks = <<>>
                /\ Nothing(d).Directories = <<>> /\ Nothing(d).Size = 0
                /\ Nothing(d) \in Directories
  BY RangeOfNone, EmptySeq DEF Nothing, Directory, Call, Directories, Lists
<1>4. found \in [Nodes -> Directories] /\ 0 \in Nodes
  BY <1>1, <1>3 DEF Nodes
<1>5. call \in CallRecords /\ Running(call)
  <2>1. found[0] = Nothing(0)
    BY <1>1, <1>4
  <2> QED
    BY <1>1, <1>2, <1>4, <2>1, CallRuns
<1>6. call.dir = 0 /\ Range(call.Directories) = {}
  BY RangeOfNone DEF Call
<1> HIDE DEF call
<1>7. /\ stack \in Seq(CallRecords) /\ Len(stack) = 1 /\ DOMAIN stack = {1}
      /\ stack[1] = call /\ stack # <<>>
  BY <1>1, <1>5
<1>8. TypeOK
  <2>1. \A i \in 1 .. Len(stack) - 1 : FALSE
    BY <1>7
  <2>2. here \subseteq Entries /\ TotalTransferSize \in Nat
    BY <1>1
  <2> QED
    BY <1>1, <1>2, <1>4, <1>7, <2>1, <2>2 DEF TypeOK
<1>9. Rooted
  BY <1>1, <1>2 DEF Rooted, IsTree, EntryRecords, Nodes
<1>10. Calls
  BY <1>5, <1>6, <1>7 DEF Calls
<1>11. Founds
  <2>1. ASSUME NEW dir \in Nodes
        PROVE  Kept(found[dir], dir) /\ Range(found[dir].Directories) = {}
    BY <1>1, <1>3 DEF Kept, Listed
  <2> QED
    BY <2>1 DEF Founds
<1>12. Untouched /\ Nested /\ WalkStopsOnlyForDirs
  BY <1>1, <1>6, <1>7 DEF Untouched, Nested, WalkStopsOnlyForDirs, Nodes
<1> QED
  BY <1>8, <1>9, <1>10, <1>11, <1>12 DEF TInv

LEMMA NextKeeps == TInv /\ [Next]_vars => TInv'
<1> SUFFICES ASSUME TInv, [Next]_vars PROVE TInv'
  OBVIOUS
<1>1. CASE Next
  BY <1>1, LookKeeps, GetFileKeeps, GetSymlinkKeeps, GetInnerDirKeeps, ReturnKeeps,
     OnAcceptKeeps, MoveAwayKeeps DEF Next
<1>2. CASE UNCHANGED vars
  <2>1. /\ recursive' = recursive /\ tree' = tree /\ here' = here /\ found' = found
        /\ pc' = pc /\ stack' = stack /\ looked' = looked /\ accepted' = accepted
        /\ TotalTransferSize' = TotalTransferSize /\ FilesToSend' = FilesToSend
        /\ SymlinksToSend' = SymlinksToSend /\ DownloadsPath' = DownloadsPath
        /\ Sizes' = Sizes /\ SizesFound' = SizesFound
    BY <1>2 DEF vars, Sizes, SizesFound
  <2>2. \A e : Finished(e) => Finished(e)'
    BY <2>1 DEF Finished, Counted, Dealt
  <2>3. IsTree(tree)' /\ Current' = Current
    BY <2>1 DEF TInv, TypeOK, IsTree, Current
  <2>4. TypeOK' /\ Rooted' /\ Untouched' /\ WalkStopsOnlyForDirs'
    BY <2>1, <2>3 DEF TInv, TypeOK, Rooted, Untouched, WalkStopsOnlyForDirs
  <2>5. Founds'
    BY <2>1, <2>2 DEF TInv, Founds, Kept, Listed
  <2>6. Calls'
    <3>1. ASSUME NEW i \in DOMAIN stack
          PROVE  Running(stack[i])' /\ \A e \in Range(stack'[i].Directories) : Finished(e)'
      <4>1. Running(stack[i]) /\ \A e \in Range(stack[i].Directories) : Finished(e)
        BY DEF TInv, Calls
      <4>2. Running(stack[i])'
        BY <2>1, <4>1 DEF Running, Kept, Listed, Counted, Dealt
      <4> QED
        BY <2>1, <2>2, <4>1, <4>2
    <3> QED
      BY <2>1, <3>1 DEF Calls
  <2>7. Nested'
    <3>1. GetAllFiles' = GetAllFiles /\ GetAllSymlinks' = GetAllSymlinks
      BY <2>1 DEF GetAllFiles, GetAllSymlinks, All
    <3>2. \A e : RelativeFile(e)' = RelativeFile(e) /\ RelativeSymlink(e)' = RelativeSymlink(e)
      <4>1. PathBelowBase' = PathBelowBase
        BY <2>1 DEF PathBelowBase
      <4> QED
        BY <2>1, <4>1 DEF RelativeFile, RelativeSymlink, Path
    <3>3. pc' = "sending" =>
            /\ FilesToSend' = [i \in DOMAIN GetAllFiles' |-> RelativeFile(GetAllFiles[i])']
            /\ SymlinksToSend' = [i \in DOMAIN GetAllSymlinks' |-> RelativeSymlink(GetAllSymlinks[i])']
      BY <2>1, <3>1, <3>2 DEF TInv, Nested
    <3>4. Finished(0) => Finished(0)'
      BY <2>2
    <3> QED
      BY <2>1, <3>3, <3>4 DEF TInv, Nested
  <2> QED
    BY <2>4, <2>5, <2>6, <2>7 DEF TInv
<1> QED
  BY <1>1, <1>2

-----------------------------------------------------------------------------
(* Theorems.                                                               *)

\* In any directory, while anything may be moved away (fsys/dir.go:31): every call
\* of GetDir has dealt with the entries it is past, every directory it has
\* returned from is complete, with its size, and what is sent is all that was found.
THEOREM TreeInvariant == Spec => []TInv
<1>1. Init => TInv
  BY InitHolds
<1>2. TInv /\ [Next]_vars => TInv'
  BY NextKeeps
<1> QED
  BY <1>1, <1>2, PTL DEF Spec

\* The state is what it is declared to be, and the calls of GetDir are nested.
THEOREM TreeTypeCorrect == Spec => []TypeOK
<1>1. TInv => TypeOK
  BY DEF TInv
<1> QED
  BY <1>1, TreeInvariant, PTL

\* Before the offer (fsys/dir.go:77-113), only a directory that may not be read
\* and entries that are moved away end the sender.
THEOREM TreeWalkStopsOnlyForDirs == Spec => []WalkStopsOnlyForDirs
<1>1. TInv => WalkStopsOnlyForDirs
  BY DEF TInv
<1> QED
  BY <1>1, TreeInvariant, PTL

-----------------------------------------------------------------------------
(* Induction over the tree.                                                *)

LEMMA NodesAre == Nodes \subseteq Nat /\ IsFiniteSet(Nodes) /\ 0 \in Nodes /\ 0 \notin Entries
<1>1. IsFiniteSet({0} \cup Entries)
  <2>1. IsFiniteSet({0}) /\ IsFiniteSet(Entries)
    BY FS_Singleton, FileTreeAssumption
  <2> QED
    BY <2>1, FS_Union
<1> QED
  BY <1>1, FileTreeAssumption DEF Nodes

\* How many nodes come after a node.
After == [d \in Nodes |-> Cardinality({e \in Nodes : d < e})]

LEMMA AfterIs ==
  /\ After \in [Nodes -> Nat]
  /\ \A d \in Nodes, e \in Nodes : d < e => After[e] < After[d]
<1>1. Nodes \subseteq Nat /\ IsFiniteSet(Nodes)
  BY NodesAre
<1>2. ASSUME NEW d \in Nodes
      PROVE  IsFiniteSet({e \in Nodes : d < e}) /\ Cardinality({e \in Nodes : d < e}) \in Nat
  <2> DEFINE S == {e \in Nodes : d < e}
  <2>1. S \in SUBSET Nodes
    OBVIOUS
  <2> HIDE DEF S
  <2>2. IsFiniteSet(S)
    BY <1>1, <2>1, FS_Subset
  <2>3. Cardinality(S) \in Nat
    BY <2>2, FS_CardinalityType
  <2> QED
    BY <2>2, <2>3 DEF S
<1>3. After \in [Nodes -> Nat]
  BY <1>2 DEF After
<1>4. ASSUME NEW d \in Nodes, NEW e \in Nodes, d < e PROVE After[e] < After[d]
  <2> DEFINE S == {x \in Nodes : d < x}
             T == {x \in Nodes : e < x}
  <2>1. T \in SUBSET S /\ e \in S /\ e \notin T
    <3>1. ASSUME NEW x \in Nodes, e < x PROVE d < x
      BY <1>1, <1>4, <3>1
    <3>2. ~(e < e)
      BY <1>1
    <3> QED
      BY <1>4, <3>1, <3>2
  <2>2. After[e] = Cardinality(T) /\ After[d] = Cardinality(S)
    BY DEF After
  <2>3. IsFiniteSet(S) /\ Cardinality(S) \in Nat /\ Cardinality(T) \in Nat
    BY <1>2
  <2> HIDE DEF S, T
  <2>4. Cardinality(T) <= Cardinality(S) /\ Cardinality(S) # Cardinality(T)
    BY <2>1, <2>3, FS_Subset
  <2> QED
    BY <2>2, <2>3, <2>4
<1> QED
  BY <1>3, <1>4

\* From what is in a directory to the directory, and the other way.
LEMMA UpFromLeaves ==
  ASSUME NEW G, \A d \in Nodes : (\A e \in Nodes : d < e => e \in G) => d \in G
  PROVE  Nodes \subseteq G
<1> SUFFICES ASSUME NEW d0 \in Nodes, d0 \notin G PROVE FALSE
  OBVIOUS
<1> DEFINE T == {After[d] : d \in {x \in Nodes : x \notin G}}
<1>1. T \in SUBSET Nat /\ T # {}
  BY AfterIs
<1>2. PICK k \in T : \A j \in T : k <= j
  <2> HIDE DEF T
  <2> QED
    BY <1>1, NatMin
<1>3. PICK d \in Nodes : d \notin G /\ k = After[d]
  OBVIOUS
<1>4. ASSUME NEW e \in Nodes, d < e, e \notin G PROVE FALSE
  <2>1. After[e] < After[d] /\ After[e] \in Nat /\ After[d] \in Nat
    BY <1>4, AfterIs
  <2>2. After[e] \in T
    BY <1>4
  <2> QED
    BY <1>2, <1>3, <2>1, <2>2
<1> QED
  BY <1>3, <1>4

LEMMA DownFromRoot ==
  ASSUME NEW G, \A d \in Nodes : (\A e \in Nodes : e < d => e \in G) => d \in G
  PROVE  Nodes \subseteq G
<1> SUFFICES ASSUME NEW d0 \in Nodes, d0 \notin G PROVE FALSE
  OBVIOUS
<1> DEFINE T == {d \in Nodes : d \notin G}
<1>1. T \in SUBSET Nat /\ T # {}
  BY NodesAre
<1>2. PICK d \in T : \A e \in T : d <= e
  <2> HIDE DEF T
  <2> QED
    BY <1>1, NatMin
<1>3. ASSUME NEW e \in Nodes, e < d, e \notin G PROVE FALSE
  <2>1. e \in T /\ e \in Nat /\ d \in Nat
    BY <1>1, <1>2, <1>3
  <2> QED
    BY <1>2, <1>3, <2>1
<1> QED
  BY <1>2, <1>3

-----------------------------------------------------------------------------
(* What GetAllFiles and GetAllSymlinks give.                               *)

\* What is in a directory comes after it.
LEMMA FoundInside ==
  ASSUME TInv, NEW d \in Nodes
  PROVE  /\ found[d].Directories \in Seq(Entries) /\ found[d].Directories \in Seq(Nodes)
         /\ found[d].Files \in Seq(Entries) /\ found[d].Symlinks \in Seq(Entries)
         /\ found[d].Size \in Nat
         /\ \A e \in Range(found[d].Directories) : e \in Nodes /\ e \in Entries /\ d < e
                                                   /\ tree[e].parent = d
<1>1. /\ found[d].Directories \in Seq(Entries)
      /\ found[d].Files \in Seq(Entries) /\ found[d].Symlinks \in Seq(Entries)
      /\ found[d].Size \in Nat
  BY DEF TInv, TypeOK, Directories, Lists
<1>2. Entries \subseteq Nodes
  BY DEF Nodes
<1>3. found[d].Directories \in Seq(Nodes)
  BY <1>1, <1>2, SeqMonotonic
<1>4. ASSUME NEW e \in Range(found[d].Directories)
      PROVE  e \in Entries /\ d < e /\ tree[e].parent = d
  <2>1. e \in Entries
    BY <1>1, RangeOfSeq
  <2>2. tree[e].parent = d
    BY DEF TInv, Founds, Kept, Listed
  <2>3. tree[e].parent < e
    BY <2>1 DEF TInv, TypeOK, IsTree
  <2> QED
    BY <2>1, <2>2, <2>3
<1> QED
  BY <1>1, <1>2, <1>3, <1>4

\* all is the recursion of All.
IsAll(own, all) ==
  /\ all \in [Nodes -> Seq(Entries)]
  /\ \A d \in Nodes :
       all[d] = own[d] \o IF recursive THEN Joined(found[d].Directories, all) ELSE <<>>

LEMMA AllAre ==
  ASSUME TInv, NEW own \in [Nodes -> Seq(Entries)]
  PROVE  \E all : IsAll(own, all) /\ All(own) = all[0]
<1> DEFINE V == Seq(Entries)
           W == [Nodes -> V]
           Value(f, d) == own[d] \o IF recursive THEN Joined(found[d].Directories, f) ELSE <<>>
           def == [p \in W \X Nodes |-> Value(p[1], p[2])]
           Unfold(f) == [d \in Nodes |-> Value(f, d)]
           it == CHOOSE f : f = Unfold(f)
<1>1. <<>> \in V /\ \A d \in Nodes : own[d] \in V
  OBVIOUS
<1>2. ASSUME NEW f \in W, NEW d \in Nodes PROVE Value(f, d) \in V
  <2>1. found[d].Directories \in Seq(Nodes)
    BY FoundInside
  <2>2. Joined(found[d].Directories, f) \in V
    <3>1. PICK list \in Seq(Nodes) : list = found[d].Directories
      BY <2>1
    <3>2. Joined(list, f) \in Seq(Entries)
      BY JoinedIs
    <3> QED
      BY <3>1, <3>2
  <2>3. own[d] \in V
    OBVIOUS
  <2>4. \A s \in V, t \in V : s \o t \in V
    BY ConcatProperties
  <2> HIDE DEF V
  <2> QED
    BY <1>1, <2>2, <2>3, <2>4
<1>3. ASSUME NEW f, NEW g, NEW d \in Nodes, \A e \in Nodes : d < e => f[e] = g[e]
      PROVE  Value(f, d) = Value(g, d)
  <2> DEFINE list == found[d].Directories
  <2>1. list \in Seq(Nodes) /\ \A e \in Range(list) : e \in Nodes /\ d < e
    BY FoundInside
  <2>2. \A i \in DOMAIN list : f[list[i]] = g[list[i]]
    BY <1>3, <2>1 DEF Range
  <2>3. Joined(list, f) = Joined(list, g)
    BY <2>2 DEF Joined, Each
  <2> QED
    BY <2>3
<1>4. PICK f \in W : \A d \in Nodes : f[d] = Value(f, d)
  <2>1. DependsBelow(Nodes, After, V, def)
    <3>1. \A p \in W \X Nodes : p[1] \in W /\ p[2] \in Nodes
      OBVIOUS
    <3>2. \A g \in W, d \in Nodes : <<g, d>> \in W \X Nodes /\ def[<<g, d>>] = Value(g, d)
      OBVIOUS
    <3> HIDE DEF Value
    <3>3. def \in [W \X Nodes -> V]
      BY <1>2, <3>1
    <3>4. ASSUME NEW g \in W, NEW h \in W, NEW d \in Nodes,
                 \A e \in Nodes : After[e] < After[d] => g[e] = h[e]
          PROVE  def[<<g, d>>] = def[<<h, d>>]
      <4>1. \A e \in Nodes : d < e => g[e] = h[e]
        BY <3>4, AfterIs
      <4>2. Value(g, d) = Value(h, d)
        BY <1>3, <4>1
      <4> HIDE DEF def
      <4> QED
        BY <3>2, <4>2, ZenonT(30)
    <3> HIDE DEF def, V
    <3> QED
      BY <3>3, <3>4, AfterIs DEF DependsBelow
  <2>2. PICK g \in W : \A d \in Nodes : g[d] = def[<<g, d>>]
    <3>1. PICK v \in V : TRUE
      BY <1>1
    <3> DEFINE size == After
    <3>2. DependsBelow(Nodes, size, V, def)
      BY <2>1
    <3> HIDE DEF V, def, size
    <3>3. \E g : Solves(g, Nodes, V, def)
      BY <3>1, <3>2, RecursionBelowExists
    <3> QED
      BY <3>3 DEF Solves
  <2>3. \A d \in Nodes : def[<<g, d>>] = Value(g, d)
    <3> HIDE DEF Value, W
    <3> QED
      OBVIOUS
  <2> HIDE DEF def, Value
  <2> QED
    BY <2>2, <2>3
<1> HIDE DEF Value
<1>5. f = Unfold(f)
  BY <1>4
<1>6. DOMAIN found = Nodes
  BY DEF TInv, TypeOK
<1>7. All(own) = it[0]
  BY <1>6 DEF All, Joined, Each, Value
<1>8. it = Unfold(it)
  <2> HIDE DEF Unfold
  <2> QED
    BY <1>5
<1> HIDE DEF it
<1>9. \A d \in Nodes : it[d] = Value(it, d)
  BY <1>8
<1>10. Nodes \subseteq {d \in Nodes : it[d] = f[d]}
  <2> DEFINE G == {d \in Nodes : it[d] = f[d]}
  <2>1. ASSUME NEW d \in Nodes, \A e \in Nodes : d < e => e \in G PROVE d \in G
    <3>1. \A e \in Nodes : d < e => it[e] = f[e]
      BY <2>1
    <3>2. Value(it, d) = Value(f, d)
      BY <1>3, <3>1
    <3> QED
      BY <1>4, <1>9, <3>2
  <2> HIDE DEF G
  <2>2. Nodes \subseteq G
    BY <2>1, UpFromLeaves
  <2> QED
    BY <2>2 DEF G
<1>11. it \in W
  <2>1. \A d \in Nodes : it[d] \in V
    <3> HIDE DEF V
    <3> QED
      BY <1>10
  <2> HIDE DEF V
  <2> QED
    BY <1>8, <2>1
<1>12. IsAll(own, it)
  BY <1>9, <1>11 DEF IsAll, Value
<1> QED
  BY <1>7, <1>12

LEMMA AllRange ==
  ASSUME TInv, NEW own \in [Nodes -> Seq(Entries)], NEW all, IsAll(own, all), NEW d \in Nodes
  PROVE  /\ all[d] \in Seq(Entries)
         /\ \A x : x \in Range(all[d]) <=>
              \/ x \in Range(own[d])
              \/ recursive /\ \E e \in Range(found[d].Directories) : x \in Range(all[e])
<1>1. all \in [Nodes -> Seq(Entries)]
      /\ all[d] = own[d] \o IF recursive THEN Joined(found[d].Directories, all) ELSE <<>>
  BY DEF IsAll
<1>2. PICK list \in Seq(Nodes) : list = found[d].Directories
  BY FoundInside
<1>3. PICK part \in Seq(Entries) : part = own[d]
  OBVIOUS
<1>4. all[d] \in Seq(Entries)
  BY <1>1
<1>5. CASE recursive
  <2>1. Joined(list, all) \in Seq(Entries)
    BY <1>1, JoinedIs
  <2>2. PICK joined \in Seq(Entries) : joined = Joined(list, all)
    BY <2>1
  <2>3. \A x : x \in Range(joined) <=> \E e \in Range(list) : x \in Range(all[e])
    BY <1>1, <2>2, JoinedRange
  <2>4. Range(part \o joined) = Range(part) \cup Range(joined)
    BY RangeOfConcat
  <2>5. all[d] = part \o joined
    BY <1>1, <1>2, <1>3, <1>5, <2>2
  <2> QED
    BY <1>2, <1>3, <1>4, <1>5, <2>3, <2>4, <2>5
<1>6. CASE ~recursive
  <2>1. all[d] = part
    BY <1>1, <1>3, <1>6, ConcatEmptySeq
  <2> QED
    BY <1>3, <1>4, <1>6, <2>1
<1> QED
  BY <1>5, <1>6

\* x is somewhere in the directory d.
Inside(x, d) ==
  IsPrefix(PathBelowBase[d], PathBelowBase[x]) /\ Len(PathBelowBase[d]) < Len(PathBelowBase[x])

LEMMA InsideIs ==
  ASSUME IsTree(tree), NEW d \in Nodes, NEW e \in Entries, tree[e].parent = d
  PROVE  /\ Inside(e, d) /\ ~Inside(e, e)
         /\ \A x \in Entries : Inside(x, e) => Inside(x, d)
         /\ \A f \in Entries : tree[f].parent = d => ~Inside(f, e)
         /\ \A f \in Entries, x \in Entries :
              tree[f].parent = d /\ Inside(x, e) /\ Inside(x, f) => e = f
<1> DEFINE P == PathBelowBase
<1>1. /\ \A x \in Nodes : P[x] \in Seq(Nat) /\ Len(P[x]) \in Nat
      /\ \A x \in Entries : tree[x].name \in Nat /\ P[x] = Append(P[tree[x].parent], tree[x].name)
      /\ Entries \subseteq Nodes
  <2>1. \A x \in Nodes : P[x] \in Seq(Nat)
    BY PathsAre DEF Paths
  <2>2. \A x \in Nodes : Len(P[x]) \in Nat
    BY <2>1, LenProperties
  <2> QED
    BY <2>1, <2>2, PathsAre DEF Nodes
<1> DEFINE n == Len(P[d])
<1>2. n \in Nat
  BY <1>1
<1>3. ASSUME NEW f \in Entries, tree[f].parent = d
      PROVE  Len(P[f]) = n + 1 /\ \A i \in 1 .. n : P[f][i] = P[d][i]
  <2>1. PICK s \in Seq(Nat) : s = P[d]
    BY <1>1
  <2>2. PICK m \in Nat : m = tree[f].name
    BY <1>1
  <2>3. P[f] = Append(s, m)
    BY <1>1, <1>3, <2>1, <2>2
  <2>4. Len(Append(s, m)) = Len(s) + 1 /\ \A i \in 1 .. Len(s) : Append(s, m)[i] = s[i]
    BY AppendProperties
  <2> QED
    BY <2>1, <2>3, <2>4
<1>4. \A x \in Nodes, y \in Nodes :
        Inside(x, y) <=> Len(P[y]) < Len(P[x]) /\ \A i \in 1 .. Len(P[y]) : P[y][i] = P[x][i]
  <2>1. ASSUME NEW x \in Nodes, NEW y \in Nodes
        PROVE  Inside(x, y) <=> Len(P[y]) < Len(P[x]) /\ \A i \in 1 .. Len(P[y]) : P[y][i] = P[x][i]
    <3>1. PICK s \in Seq(Nat), t \in Seq(Nat) : s = P[y] /\ t = P[x]
      BY <1>1
    <3>2. IsPrefix(s, t) <=> Len(s) <= Len(t) /\ \A i \in 1 .. Len(s) : s[i] = t[i]
      BY PrefixIs
    <3>3. Len(s) \in Nat /\ Len(t) \in Nat
      BY LenProperties
    <3> QED
      BY <3>1, <3>2, <3>3 DEF Inside
  <2> QED
    BY <2>1
<1> HIDE DEF P, n
<1>5. e \in Nodes /\ Len(P[e]) = n + 1 /\ \A i \in 1 .. n : P[e][i] = P[d][i]
  BY <1>1, <1>3
<1>6. Len(P[d]) = n
  BY DEF n
<1>7. Inside(e, d) /\ ~Inside(e, e)
  <2>1. Len(P[d]) < Len(P[e]) /\ ~(Len(P[e]) < Len(P[e]))
    BY <1>2, <1>5, <1>6
  <2> QED
    BY <1>4, <1>5, <1>6, <2>1
<1>8. ASSUME NEW x \in Entries, Inside(x, e) PROVE Inside(x, d)
  <2>1. x \in Nodes /\ Len(P[x]) \in Nat
    BY <1>1
  <2>2. Len(P[e]) < Len(P[x]) /\ \A i \in 1 .. n + 1 : P[e][i] = P[x][i]
    BY <1>4, <1>5, <1>8, <2>1, SMTT(20)
  <2>3. n < Len(P[x]) /\ \A i \in 1 .. n : i \in 1 .. n + 1
    BY <1>2, <1>5, <2>1, <2>2
  <2>4. \A i \in 1 .. n : P[d][i] = P[x][i]
    BY <1>5, <2>2, <2>3
  <2> QED
    BY <1>4, <1>6, <2>1, <2>3, <2>4
<1>9. ASSUME NEW f \in Entries, tree[f].parent = d, Inside(f, e) PROVE FALSE
  <2>1. f \in Nodes /\ Len(P[f]) = n + 1
    BY <1>1, <1>3, <1>9
  <2>2. Len(P[e]) < Len(P[f])
    BY <1>4, <1>5, <1>9, <2>1
  <2> QED
    BY <1>2, <1>5, <2>1, <2>2
<1>10. ASSUME NEW f \in Entries, NEW x \in Entries, tree[f].parent = d, Inside(x, e), Inside(x, f)
       PROVE  e = f
  <2>1. f \in Nodes /\ x \in Nodes /\ Len(P[f]) = n + 1
    BY <1>1, <1>3, <1>10
  <2>2. /\ \A i \in 1 .. n + 1 : P[e][i] = P[x][i]
        /\ \A i \in 1 .. n + 1 : P[f][i] = P[x][i]
    BY <1>4, <1>5, <1>10, <2>1
  <2>3. P[e] = P[f]
    <3>1. PICK s \in Seq(Nat), t \in Seq(Nat) : s = P[e] /\ t = P[f]
      BY <1>1, <1>5, <2>1
    <3>2. Len(s) = Len(t) /\ \A i \in 1 .. Len(s) : s[i] = t[i]
      BY <1>5, <2>1, <2>2, <3>1
    <3>3. s = t
      BY <3>2, SeqEqual
    <3> QED
      BY <3>1, <3>3
  <2> QED
    BY <1>5, <2>1, <2>3, PathsDiffer DEF P
<1> QED
  BY <1>7, <1>8, <1>9, <1>10

\* The list has nothing twice, when each directory's own part is of what is in it.
LEMMA AllOnce ==
  ASSUME TInv, NEW own \in [Nodes -> Seq(Entries)], NEW all, IsAll(own, all),
         \A d \in Nodes : IsInjective(own[d]) /\ \A x \in Range(own[d]) : tree[x].parent = d
  PROVE  /\ IsInjective(all[0])
         /\ \A d \in Nodes : \A x \in Range(all[d]) :
              \E c \in Nodes : x \in Range(own[c]) /\ (recursive \/ c = d)
<1> DEFINE Good(d) ==
             /\ IsInjective(all[d])
             /\ \A x \in Range(all[d]) : /\ Inside(x, d)
                                        /\ \E c \in Nodes : x \in Range(own[c]) /\ (recursive \/ c = d)
           G == {d \in Nodes : Good(d)}
<1>1. IsTree(tree)
  BY DEF TInv, TypeOK
<1>2. ASSUME NEW d \in Nodes, \A e \in Nodes : d < e => e \in G PROVE Good(d)
  <2>1. /\ all[d] \in Seq(Entries)
        /\ \A x : x \in Range(all[d]) <=>
             \/ x \in Range(own[d])
             \/ recursive /\ \E e \in Range(found[d].Directories) : x \in Range(all[e])
    BY AllRange, ZenonT(30)
  <2>2. PICK list \in Seq(Nodes) : list = found[d].Directories
    BY FoundInside
  <2>3. \A e \in Range(list) : e \in Nodes /\ e \in Entries /\ tree[e].parent = d /\ Good(e)
    BY <1>2, <2>2, FoundInside
  <2>4. PICK part \in Seq(Entries) : part = own[d]
    OBVIOUS
  <2>5. IsInjective(part) /\ \A x \in Range(part) : x \in Entries /\ tree[x].parent = d
    BY <2>4, RangeOfSeq
  <2>6. \A e \in Range(list) : \A x \in Range(all[e]) : x \in Entries /\ Inside(x, e)
    <3>1. ASSUME NEW e \in Range(list), NEW x \in Range(all[e]) PROVE x \in Entries /\ Inside(x, e)
      <4>1. Inside(x, e)
        BY <2>3
      <4>2. PICK s \in Seq(Entries) : s = all[e]
        BY <2>3 DEF IsAll
      <4>3. x \in Entries
        BY <4>2, RangeOfSeq
      <4> QED
        BY <4>1, <4>3
    <3> QED
      BY <3>1
  <2> HIDE DEF Good
  <2>7. ASSUME NEW x \in Range(all[d]) PROVE Inside(x, d)
    <3>1. CASE x \in Range(part)
      BY <1>1, <2>5, <3>1, InsideIs
    <3>2. ASSUME NEW e \in Range(list), x \in Range(all[e]) PROVE Inside(x, d)
      BY <1>1, <2>3, <2>6, <3>2, InsideIs
    <3> QED
      BY <2>1, <2>2, <2>4, <3>1, <3>2
  <2>8. ASSUME NEW x \in Range(all[d])
        PROVE  \E c \in Nodes : x \in Range(own[c]) /\ (recursive \/ c = d)
    <3>1. CASE x \in Range(own[d])
      BY <3>1
    <3>2. ASSUME NEW e \in Range(list), x \in Range(all[e]), recursive
          PROVE  \E c \in Nodes : x \in Range(own[c]) /\ (recursive \/ c = d)
      BY <2>3, <3>2 DEF Good
    <3> QED
      BY <2>1, <2>2, <3>1, <3>2
  <2>9. IsInjective(all[d])
    <3>1. all \in [Nodes -> Seq(Entries)]
          /\ all[d] = part \o IF recursive THEN Joined(list, all) ELSE <<>>
      BY <2>2, <2>4 DEF IsAll
    <3>2. CASE ~recursive
      BY <2>5, <3>1, <3>2, ConcatEmptySeq
    <3>3. CASE recursive
      <4>1. IsInjective(list)
        BY <2>2 DEF TInv, Founds, Kept, Listed
      <4>2. \A e \in Range(list) : IsInjective(all[e])
        BY <2>3 DEF Good
      <4>3. ASSUME NEW e \in Range(list), NEW f \in Range(list), e # f
            PROVE  Range(all[e]) \cap Range(all[f]) = {}
        <5>1. ASSUME NEW x \in Range(all[e]), x \in Range(all[f]) PROVE FALSE
          <6>1. x \in Entries /\ Inside(x, e) /\ Inside(x, f)
            BY <2>6, <5>1
          <6>2. e \in Entries /\ f \in Entries /\ tree[e].parent = d /\ tree[f].parent = d
            BY <2>3
          <6> QED
            BY <1>1, <4>3, <6>1, <6>2, InsideIs
        <5> QED
          BY <5>1
      <4>4. PICK joined : joined = Joined(list, all)
        OBVIOUS
      <4>5. joined \in Seq(Entries)
        BY <3>1, <4>4, JoinedIs
      <4>6. IsInjective(joined)
        BY <3>1, <4>1, <4>2, <4>3, <4>4, JoinedOnce
      <4>7. Range(part) \cap Range(joined) = {}
        <5>1. \A x : x \in Range(joined) <=> \E e \in Range(list) : x \in Range(all[e])
          BY <3>1, <4>4, JoinedRange, ZenonT(30)
        <5>2. ASSUME NEW x \in Range(part), NEW e \in Range(list), x \in Range(all[e]) PROVE FALSE
          <6>1. x \in Entries /\ tree[x].parent = d /\ Inside(x, e)
            BY <2>5, <2>6, <5>2
          <6>2. e \in Entries /\ tree[e].parent = d
            BY <2>3
          <6> QED
            BY <1>1, <6>1, <6>2, InsideIs
        <5> QED
          BY <5>1, <5>2
      <4> QED
        BY <2>5, <3>1, <3>3, <4>4, <4>5, <4>6, <4>7, RangeOfConcat
    <3> QED
      BY <3>2, <3>3
  <2> QED
    BY <2>7, <2>8, <2>9 DEF Good
<1>3. Nodes \subseteq G
  <2>1. ASSUME NEW d \in Nodes, \A e \in Nodes : d < e => e \in G PROVE d \in G
    BY <1>2, <2>1
  <2> HIDE DEF G
  <2> QED
    BY <2>1, UpFromLeaves
<1> QED
  BY <1>3, NodesAre


-----------------------------------------------------------------------------
(* What will be sent.                                                      *)

\* The Files, or the Symlinks, of each directory: GetAllFiles and
\* GetAllSymlinks flatten these.
OwnFiles == [d \in Nodes |-> found[d].Files]
OwnSymlinks == [d \in Nodes |-> found[d].Symlinks]

LEMMA OwnAre ==
  ASSUME TInv
  PROVE  /\ OwnFiles \in [Nodes -> Seq(Entries)] /\ OwnSymlinks \in [Nodes -> Seq(Entries)]
         /\ GetAllFiles = All(OwnFiles) /\ GetAllSymlinks = All(OwnSymlinks)
         /\ \A d \in Nodes : /\ IsInjective(OwnFiles[d])
                             /\ \A x \in Range(OwnFiles[d]) :
                                  tree[x].parent = d /\ tree[x].kind = "file" /\ tree[x].ok
         /\ \A d \in Nodes : /\ IsInjective(OwnSymlinks[d])
                             /\ \A x \in Range(OwnSymlinks[d]) :
                                  tree[x].parent = d /\ tree[x].kind = "link"
<1>1. DOMAIN found = Nodes
  BY DEF TInv, TypeOK
<1>2. OwnFiles \in [Nodes -> Seq(Entries)] /\ OwnSymlinks \in [Nodes -> Seq(Entries)]
  BY FoundInside DEF OwnFiles, OwnSymlinks
<1>3. GetAllFiles = All(OwnFiles) /\ GetAllSymlinks = All(OwnSymlinks)
  BY <1>1 DEF GetAllFiles, GetAllSymlinks, OwnFiles, OwnSymlinks
<1>4. ASSUME NEW d \in Nodes
      PROVE  /\ OwnFiles[d] = found[d].Files /\ OwnSymlinks[d] = found[d].Symlinks
             /\ Kept(found[d], d)
  BY DEF TInv, Founds, OwnFiles, OwnSymlinks
<1> QED
  BY <1>2, <1>3, <1>4, ZenonT(30) DEF Kept, Listed

\* A directory that has stayed has been walked, and all of it is in the list.
LEMMA AllReached ==
  ASSUME TInv, Finished(0), NEW own \in [Nodes -> Seq(Entries)], NEW all, IsAll(own, all),
         NEW d \in Nodes, d \in {0} \cup here, d # 0 => recursive /\ tree[d].kind = "dir"
  PROVE  Finished(d) /\ \A x \in Range(own[d]) : x \in Range(all[0])
<1>0. ASSUME NEW c \in Nodes
      PROVE  \A x : x \in Range(all[c]) <=>
               \/ x \in Range(own[c])
               \/ recursive /\ \E e \in Range(found[c].Directories) : x \in Range(all[e])
  BY AllRange, ZenonT(30)
<1> DEFINE Stayed(c) == c \in {0} \cup here /\ (c # 0 => recursive /\ tree[c].kind = "dir")
           Reached(c) == Finished(c) /\ \A x : x \in Range(all[c]) => x \in Range(all[0])
           G == {c \in Nodes : Stayed(c) => Reached(c)}
<1>1. ASSUME NEW c \in Nodes, \A b \in Nodes : b < c => b \in G, Stayed(c) PROVE Reached(c)
  <2>1. CASE c = 0
    BY <2>1
  <2>2. CASE c # 0
    <3>1. c \in Entries /\ c \in here /\ recursive /\ tree[c].kind = "dir"
      BY <1>1, <2>2 DEF Nodes
    <3>2. PICK b : b = tree[c].parent
      OBVIOUS
    <3>3. b \in Nodes /\ b < c /\ (b # 0 => tree[b].kind = "dir")
      BY <3>1, <3>2 DEF TInv, TypeOK, IsTree, EntryRecords
    <3>4. b \in {0} \cup here
      BY <3>1, <3>2 DEF TInv, Rooted
    <3>5. Reached(b)
      BY <1>1, <3>1, <3>3, <3>4
    <3>6. c \in Range(found[b].Directories)
      BY <3>1, <3>2, <3>5 DEF Finished, Dealt
    <3>7. Finished(c)
      BY <3>3, <3>6 DEF TInv, Founds
    <3>8. \A x : x \in Range(all[c]) => x \in Range(all[b])
      BY <1>0, <3>1, <3>3, <3>6
    <3> QED
      BY <3>5, <3>7, <3>8
  <2> QED
    BY <2>1, <2>2
<1>2. Nodes \subseteq G
  <2>1. ASSUME NEW c \in Nodes, \A b \in Nodes : b < c => b \in G PROVE c \in G
    BY <1>1, <2>1
  <2> HIDE DEF G
  <2> QED
    BY <2>1, DownFromRoot
<1>3. Reached(d)
  BY <1>2
<1>4. \A x : x \in Range(own[d]) => x \in Range(all[d])
  BY <1>0
<1> QED
  BY <1>3, <1>4

LEMMA FilesOnce == TInv => EveryFileOnce
<1> SUFFICES ASSUME TInv, pc \in {"serving", "sending"}
             PROVE  /\ IsInjective(GetAllFiles)
                    /\ \A e \in Entries :
                         tree[e].kind = "file" =>
                           /\ e \in here /\ tree[e].ok /\ InReach(e) => e \in Range(GetAllFiles)
                           /\ e \in Range(GetAllFiles) => tree[e].ok /\ InReach(e)
  BY DEF EveryFileOnce
<1>1. Finished(0)
  BY DEF TInv, Nested
<1>2. PICK own \in [Nodes -> Seq(Entries)] : own = OwnFiles
  BY OwnAre
<1>3. \A d \in Nodes : /\ IsInjective(own[d])
                       /\ \A x \in Range(own[d]) :
                            tree[x].parent = d /\ tree[x].kind = "file" /\ tree[x].ok
  BY <1>2, OwnAre
<1>4. PICK all : IsAll(own, all) /\ GetAllFiles = all[0]
  <2>1. \E all : IsAll(own, all) /\ All(own) = all[0]
    BY AllAre
  <2>2. GetAllFiles = All(own)
    BY <1>2, OwnAre
  <2> QED
    BY <2>1, <2>2
<1>5. /\ IsInjective(all[0])
      /\ \A d \in Nodes : \A x \in Range(all[d]) :
           \E c \in Nodes : x \in Range(own[c]) /\ (recursive \/ c = d)
  <2>1. \A d \in Nodes : IsInjective(own[d]) /\ \A x \in Range(own[d]) : tree[x].parent = d
    BY <1>3
  <2>2. IsAll(own, all)
    BY <1>4
  <2> QED
    BY <2>1, <2>2, AllOnce
<1>6. ASSUME NEW e \in Entries, tree[e].kind = "file", e \in here, tree[e].ok, InReach(e)
      PROVE  e \in Range(all[0])
  <2>1. PICK d : d = tree[e].parent
    OBVIOUS
  <2>2. d \in Nodes /\ (d # 0 => recursive /\ tree[d].kind = "dir")
    BY <1>6, <2>1 DEF TInv, TypeOK, IsTree, EntryRecords, InReach
  <2>3. d \in {0} \cup here
    BY <1>6, <2>1 DEF TInv, Rooted
  <2>4. Finished(d) /\ \A x \in Range(own[d]) : x \in Range(all[0])
    BY <1>1, <1>4, <2>2, <2>3, AllReached
  <2>5. e \in Range(found[d].Files)
    BY <1>6, <2>1, <2>4 DEF Finished, Dealt
  <2>6. own[d] = found[d].Files
    BY <1>2, <2>2 DEF OwnFiles
  <2> QED
    BY <2>4, <2>5, <2>6
<1>7. ASSUME NEW e \in Entries, e \in Range(all[0]) PROVE tree[e].ok /\ InReach(e)
  <2>1. PICK c \in Nodes : e \in Range(own[c]) /\ (recursive \/ c = 0)
    BY <1>5, <1>7, NodesAre
  <2> QED
    BY <1>3, <2>1 DEF InReach
<1> QED
  BY <1>4, <1>5, <1>6, <1>7

\* What can be sent is sent once (fsys/dir.go:69, 120): whatever is moved away
\* during the walk, the list has no file twice and leaves out no file that has
\* stayed, is in reach and can be opened.
THEOREM TreeEveryFileOnce == Spec => []EveryFileOnce
<1> QED
  BY FilesOnce, TreeInvariant, PTL


\* The size of a directory that GetDir has returned is that of the files in the
\* list it gives, those of its directories included.
LEMMA AllTotal ==
  ASSUME TInv, Finished(0), NEW all, IsAll(OwnFiles, all)
  PROVE  Total(all[0], Sizes) = found[0].Size
<1> DEFINE Good(d) == Finished(d) => Total(all[d], Sizes) = found[d].Size
           G == {d \in Nodes : Good(d)}
<1>1. all \in [Nodes -> Seq(Entries)] /\ Entries \subseteq Nodes
  BY DEF IsAll, Nodes
<1>2. Sizes \in [Entries -> Nat] /\ SizesFound \in [Entries -> Nat]
  <2>1. \A e \in Entries : tree[e].size \in Nat
    BY DEF TInv, TypeOK, IsTree, EntryRecords
  <2>2. \A e \in Entries : found[e].Size \in Nat
    BY <1>1, FoundInside
  <2> QED
    BY <2>1, <2>2 DEF Sizes, SizesFound
<1>3. PICK totals : totals = [e \in Nodes |-> Total(all[e], Sizes)]
  OBVIOUS
<1>4. totals \in [Nodes -> Nat]
  <2>1. ASSUME NEW e \in Nodes PROVE Total(all[e], Sizes) \in Nat
    <3>1. PICK s \in Seq(Entries) : s = all[e]
      BY <1>1
    <3>2. Total(s, Sizes) \in Nat
      BY <1>2, TotalOfConcat
    <3> QED
      BY <3>1, <3>2
  <2> QED
    BY <1>3, <2>1
<1>5. ASSUME NEW d \in Nodes, \A e \in Nodes : d < e => e \in G, Finished(d)
      PROVE  Total(all[d], Sizes) = found[d].Size
  <2>1. PICK part \in Seq(Entries) : part = found[d].Files
    BY FoundInside
  <2>2. PICK list \in Seq(Entries) : list = found[d].Directories
    BY FoundInside
  <2>3. list \in Seq(Nodes)
    BY <2>2, FoundInside
  <2>4. found[d].Size = Total(part, Sizes) + Total(list, SizesFound)
    BY <1>5, <2>1, <2>2 DEF Finished, Counted
  <2>5. all[d] = part \o IF recursive THEN Joined(list, all) ELSE <<>>
    BY <2>1, <2>2 DEF IsAll, OwnFiles
  <2>6. Total(part, Sizes) \in Nat
    BY <1>2, TotalOfConcat
  <2>7. CASE ~recursive
    <3>1. list = <<>>
      BY <2>2, <2>7 DEF TInv, Founds, Kept
    <3>2. Total(list, SizesFound) = 0
      BY <1>2, <3>1, TotalOfNone
    <3>3. all[d] = part
      BY <2>5, <2>7, ConcatEmptySeq
    <3> QED
      BY <2>4, <2>6, <3>2, <3>3
  <2>8. CASE recursive
    <3>1. PICK joined : joined = Joined(list, all)
      OBVIOUS
    <3>2. joined \in Seq(Entries)
      BY <1>1, <2>3, <3>1, JoinedIs, NodesAre
    <3>3. Total(part \o joined, Sizes) = Total(part, Sizes) + Total(joined, Sizes)
      BY <1>2, <3>2, TotalOfConcat
    <3>4. Total(joined, Sizes) = Total(list, totals)
      <4>1. JoinedWeighs(Nodes, Entries, list, all)
        BY <1>1, <2>3, JoinedTotal
      <4>2. \A e \in Nodes : totals[e] = Total(all[e], Sizes)
        BY <1>3
      <4> QED
        BY <1>2, <1>4, <3>1, <4>1, <4>2 DEF JoinedWeighs
    <3>5. \A e \in Range(list) : totals[e] = SizesFound[e]
      <4>1. ASSUME NEW e \in Range(list) PROVE totals[e] = SizesFound[e]
        <5>1. e \in Nodes /\ e \in Entries /\ d < e
          BY <2>2, FoundInside
        <5>2. Finished(e)
          BY <2>2 DEF TInv, Founds
        <5>3. Total(all[e], Sizes) = found[e].Size
          BY <1>5, <5>1, <5>2
        <5> QED
          BY <1>3, <5>1, <5>3 DEF SizesFound
      <4> QED
        BY <4>1
    <3>6. Total(list, totals) = Total(list, SizesFound)
      BY <1>2, <1>4, <2>3, <3>5, InnerTotal
    <3>7. all[d] = part \o joined
      BY <2>5, <2>8, <3>1
    <3> QED
      BY <2>4, <3>3, <3>4, <3>6, <3>7
  <2> QED
    BY <2>7, <2>8
<1>6. Nodes \subseteq G
  <2>1. ASSUME NEW d \in Nodes, \A e \in Nodes : d < e => e \in G PROVE d \in G
    BY <1>5, <2>1
  <2> HIDE DEF G
  <2> QED
    BY <2>1, UpFromLeaves
<1> QED
  BY <1>6, NodesAre

\* The sum over the files as they are sent is that over the list.
LEMMA SentTotal ==
  ASSUME TInv, NEW list \in Seq(Entries), NEW sent,
         sent = [i \in DOMAIN list |-> RelativeFile(list[i])]
  PROVE  FoldSeq(LAMBDA file, sum : sum + tree[file.entry].size, 0, sent) = Total(list, Sizes)
<1> DEFINE D == DOMAIN list
           w == Weigh(list, Sizes)
           Fold(f) == [s \in SUBSET DOMAIN sent |->
                         IF s = {} THEN 0
                         ELSE f[s \ {CHOOSE x \in s : TRUE}]
                              + tree[sent[CHOOSE x \in s : TRUE].entry].size]
           it == CHOOSE f : f = Fold(f)
<1>1. FoldSeq(LAMBDA file, sum : sum + tree[file.entry].size, 0, sent) = it[DOMAIN sent]
  BY DEF FoldSeq, FoldFunction, FoldFunctionOnSet, MapThenFoldSet
<1>2. DOMAIN sent = D
  OBVIOUS
<1>3. Sizes \in [Entries -> Nat]
  <2>1. \A e \in Entries : tree[e].size \in Nat
    BY DEF TInv, TypeOK, IsTree, EntryRecords
  <2> QED
    BY <2>1 DEF Sizes
<1>4. \A i \in D : tree[sent[i].entry].size = w[i]
  <2>1. ASSUME NEW i \in D PROVE tree[sent[i].entry].size = w[i]
    <3>1. sent[i].entry = list[i]
      BY DEF RelativeFile
    <3>2. list[i] \in Entries
      OBVIOUS
    <3> QED
      BY <3>1, <3>2 DEF Weigh, Sizes
  <2> QED
    BY <2>1
<1>5. ASSUME NEW f PROVE Fold(f) = Step(D, w, f)
  <2>1. ASSUME NEW s \in SUBSET D, s # {} PROVE w[Pick(s)] = tree[sent[Pick(s)].entry].size
    <3>1. Pick(s) \in D
      BY <2>1 DEF Pick
    <3> QED
      BY <1>4, <3>1
  <2>2. ASSUME NEW s \in SUBSET D
        PROVE  (IF s = {} THEN 0
                ELSE f[s \ {CHOOSE x \in s : TRUE}] + tree[sent[CHOOSE x \in s : TRUE].entry].size)
               = (IF s = {} THEN 0 ELSE f[s \ {Pick(s)}] + w[Pick(s)])
    <3>1. CASE s = {}
      BY <3>1
    <3>2. CASE s # {}
      <4>1. w[Pick(s)] = tree[sent[Pick(s)].entry].size
        BY <2>1, <3>2
      <4> HIDE DEF w
      <4> QED
        BY <3>2, <4>1 DEF Pick
    <3> QED
      BY <3>1, <3>2
  <2> HIDE DEF w, D
  <2> QED
    BY <1>2, <2>2 DEF Step
<1>6. PICK f : f = Step(D, w, f)
  BY <1>3, WeighIs, SumsExist DEF IsSums
<1>7. it = Fold(it)
  <2>1. f = Fold(f)
    BY <1>5, <1>6
  <2> HIDE DEF Fold
  <2> QED
    BY <2>1
<1> HIDE DEF it, Fold
<1>8. IsSums(D, w, it)
  BY <1>3, <1>5, <1>7, WeighIs DEF IsSums
<1>9. PICK jt : IsSums(D, w, jt) /\ Total(list, Sizes) = jt[D]
  BY <1>3, TotalIsSum
<1>10. it[D] = jt[D]
  <2> HIDE DEF D, w
  <2> QED
    BY <1>8, <1>9, SumsAgree
<1> QED
  BY <1>1, <1>2, <1>9, <1>10

LEMMA SizeSummed == TInv => SizeIsSum
<1> SUFFICES ASSUME TInv, pc = "sending"
             PROVE  TotalTransferSize =
                      FoldSeq(LAMBDA file, sum : sum + tree[file.entry].size, 0, FilesToSend)
  BY DEF SizeIsSum
<1>1. /\ Finished(0) /\ TotalTransferSize = found[0].Size
      /\ FilesToSend = [i \in DOMAIN GetAllFiles |-> RelativeFile(GetAllFiles[i])]
  BY DEF TInv, Nested
<1>2. PICK all : IsAll(OwnFiles, all) /\ GetAllFiles = all[0]
  <2>1. \E all : IsAll(OwnFiles, all) /\ All(OwnFiles) = all[0]
    BY OwnAre, AllAre
  <2> QED
    BY <2>1, OwnAre
<1>3. PICK list \in Seq(Entries) : list = GetAllFiles
  BY <1>2, NodesAre DEF IsAll
<1>4. Total(list, Sizes) = found[0].Size
  BY <1>1, <1>2, <1>3, AllTotal
<1>5. PICK sent : sent = [i \in DOMAIN list |-> RelativeFile(list[i])]
  OBVIOUS
<1>6. FoldSeq(LAMBDA file, sum : sum + tree[file.entry].size, 0, sent) = Total(list, Sizes)
  BY <1>5, SentTotal
<1>7. FilesToSend = sent
  BY <1>1, <1>3, <1>5
<1> QED
  BY <1>1, <1>4, <1>6, <1>7

\* The size offered (node/node.go, TotalTransferSize) is the sum over the files
\* that are sent, those of the inner directories included.
THEOREM TreeSizeIsSum == Spec => []SizeIsSum
<1> QED
  BY SizeSummed, TreeInvariant, PTL

\* SetRelativePaths (fsys/dir.go, fsys/symlink.go) makes a symlink's target
\* relative to the same directory as a file's path: the two meet again.
LEMMA LinksLand == TInv => LinksLandOnFiles
<1> SUFFICES ASSUME TInv, pc = "sending",
                    NEW i \in DOMAIN SymlinksToSend, NEW j \in DOMAIN FilesToSend,
                    tree[SymlinksToSend[i].entry].target = Path(FilesToSend[j].entry)
             PROVE  SymlinkPointsTo(SymlinksToSend[i]) = PlaceOfFile(FilesToSend[j])
  BY DEF LinksLandOnFiles
<1>1. /\ FilesToSend = [k \in DOMAIN GetAllFiles |-> RelativeFile(GetAllFiles[k])]
      /\ SymlinksToSend = [k \in DOMAIN GetAllSymlinks |-> RelativeSymlink(GetAllSymlinks[k])]
  BY DEF TInv, Nested
<1>2. PICK file : FilesToSend[j] = RelativeFile(file)
  BY <1>1
<1>3. PICK symlink : SymlinksToSend[i] = RelativeSymlink(symlink)
  BY <1>1
<1>4. tree[symlink].target = Path(file)
  BY <1>2, <1>3 DEF RelativeFile, RelativeSymlink
<1>5. SymlinksToSend[i].TargetPath = FilesToSend[j].RelativeParentPath
  BY <1>2, <1>3, <1>4 DEF RelativeFile, RelativeSymlink
<1> QED
  BY <1>5 DEF SymlinkPointsTo, PlaceOfFile

\* A symlink to a file of the tree arrives as a symlink to that file's place.
THEOREM TreeLinksLandOnFiles == Spec => []LinksLandOnFiles
<1> QED
  BY LinksLand, TreeInvariant, PTL


-----------------------------------------------------------------------------
(* Where things arrive.                                                    *)

\* A path is a prefix of what is below it.
LEMMA PrefixOfBelow ==
  ASSUME NEW S, NEW b \in Seq(S), NEW p \in Seq(S)
  PROVE  IsPrefix(b, b) /\ IsPrefix(b, b \o p)
<1> DEFINE u == b \o p
<1>1. Len(b) \in Nat /\ Len(p) \in Nat
  BY LenProperties
<1>2. /\ u \in Seq(S) /\ Len(u) = Len(b) + Len(p)
      /\ \A i \in 1 .. Len(b) + Len(p) : u[i] = IF i <= Len(b) THEN b[i] ELSE p[i - Len(b)]
  BY ConcatProperties
<1> HIDE DEF u
<1>3. \A i \in 1 .. Len(b) : u[i] = b[i]
  BY <1>1, <1>2
<1>4. Len(b) <= Len(u) /\ Len(b) <= Len(b)
  BY <1>1, <1>2
<1>5. IsPrefix(b, u)
  BY <1>2, <1>3, <1>4, PrefixIs
<1>6. IsPrefix(b, b)
  BY <1>4, PrefixIs
<1> QED
  BY <1>5, <1>6 DEF u

\* filepath.Rel of a path below the base: no "..", and the names below.
LEMMA RelIs ==
  ASSUME NEW b \in Paths, NEW p \in Paths
  PROVE  Rel(b, b \o p) = [up |-> 0, down |-> p]
<1> DEFINE u == b \o p
           C == CommonPrefixes({b, u})
           longest == LongestCommonPrefix({b, u})
           n == Len(b)
           k == Len(p)
<1>1. b \in Seq(Nat) /\ p \in Seq(Nat)
  BY DEF Paths
<1>2. n \in Nat /\ k \in Nat /\ u \in Seq(Nat) /\ Len(u) = n + k
  BY <1>1, LenProperties, ConcatProperties
<1>3. b \in C
  <2>1. SubSeq(b, 1, n) = b
    BY <1>1, SubSeqFull
  <2>2. n \in 0 .. n
    BY <1>2
  <2>3. b \in Prefixes(b)
    BY <2>1, <2>2 DEF Prefixes
  <2>4. IsPrefix(b, b) /\ IsPrefix(b, u)
    BY <1>1, PrefixOfBelow
  <2> HIDE DEF u, n
  <2> QED
    BY <2>3, <2>4 DEF CommonPrefixes
<1>4. ASSUME NEW x \in C PROVE Len(x) \in Nat /\ Len(x) <= n
  <2> HIDE DEF u, n
  <2>1. PICK t \in {b, u} : x \in Prefixes(t)
    BY DEF CommonPrefixes
  <2>2. PICK l \in 0 .. Len(t) : x = SubSeq(t, 1, l)
    BY <2>1 DEF Prefixes
  <2>3. t \in Seq(Nat) /\ Len(t) \in Nat
    BY <1>1, <1>2, LenProperties
  <2>4. \A i \in 1 .. l : t[i] \in Nat
    <3>1. \A i \in 1 .. l : i \in 1 .. Len(t)
      BY <2>2, <2>3
    <3> QED
      BY <2>3, <3>1, ElementOfSeq
  <2>5. SubSeq(t, 1, l) \in Seq(Nat)
    <3>1. l \in Int /\ 1 \in Int
      BY <2>2, <2>3
    <3> QED
      BY <2>4, <3>1, SubSeqProperties
  <2>6. Len(x) \in Nat
    BY <2>2, <2>5, LenProperties
  <2>7. IsPrefix(x, b)
    BY DEF CommonPrefixes
  <2>8. Len(x) <= n
    BY <2>7 DEF IsPrefix, n
  <2> QED
    BY <2>6, <2>8
<1>5. longest \in C /\ Len(b) <= Len(longest)
  <2>1. longest = CHOOSE x \in C : \A other \in C : Len(other) <= Len(x)
    BY DEF LongestCommonPrefix
  <2> HIDE DEF C, longest
  <2>2. \A other \in C : Len(other) <= Len(b)
    BY <1>4
  <2>3. longest \in C /\ \A other \in C : Len(other) <= Len(longest)
    BY <1>3, <2>1, <2>2
  <2> QED
    BY <1>3, <2>3
<1>6. Len(longest) = n
  <2> HIDE DEF C, longest
  <2>1. Len(longest) \in Nat /\ Len(longest) <= n
    BY <1>4, <1>5
  <2> HIDE DEF n
  <2>2. n <= Len(longest)
    BY <1>5 DEF n
  <2> QED
    BY <1>2, <2>1, <2>2
<1>7. SubSeq(u, n + 1, n + k) = p
  <2>1. CASE k = 0
    <3>1. p = <<>>
      BY <1>1, <2>1, EmptySeq
    <3>2. n + 1 \in Int /\ n + k \in Int /\ n + k < n + 1
      BY <1>2, <2>1
    <3>3. SubSeq(u, n + 1, n + k) = <<>>
      BY <3>2, SubSeqEmpty
    <3> QED
      BY <3>1, <3>3
  <2>2. CASE k # 0
    <3>1. n + 1 \in n + 1 .. n + k /\ n + k \in n + 1 .. n + k
      BY <1>2, <2>2
    <3>2. SubSeq(u, n + 1, n + k) = SubSeq(p, n + 1 - n, n + k - n)
      BY <1>1, <3>1, SubSeqOfConcat2
    <3>3. n + 1 - n = 1 /\ n + k - n = k
      BY <1>2
    <3>4. SubSeq(p, 1, k) = p
      BY <1>1, SubSeqFull
    <3> QED
      BY <3>2, <3>3, <3>4
  <2> QED
    BY <2>1, <2>2
<1>8. Rel(b, u) = [up |-> n - Len(longest), down |-> SubSeq(u, Len(longest) + 1, Len(u))]
  BY DEF Rel
<1> HIDE DEF longest, u, n, k
<1>9. n - Len(longest) = 0
  BY <1>2, <1>6
<1> QED
  BY <1>2, <1>6, <1>7, <1>8, <1>9 DEF u

\* filepath.Join of names without "..": they come after the path.
LEMMA JoinIs ==
  ASSUME NEW q \in Paths, NEW p \in Paths
  PROVE  Join(q, [up |-> 0, down |-> p]) = q \o p
<1>1. q \in Seq(Nat) /\ Len(q) \in Nat
  BY LenProperties DEF Paths
<1>2. Max({Len(q) - 0, 0}) = Len(q)
  <2>1. Len(q) - 0 = Len(q) /\ Len(q) \in Int /\ 0 \in Int /\ Len(q) >= 0
    BY <1>1
  <2> QED
    BY <2>1, MaxIs
<1>3. SubSeq(q, 1, Len(q)) = q
  BY <1>1, SubSeqFull
<1> QED
  BY <1>2, <1>3 DEF Join

\* The folder the receiver downloads to, whichever of the two it is.
Chosen == DownloadsPath \in {Downloads, Append(Downloads, Last(Base))}

LEMMA PlaceIs ==
  ASSUME IsTree(tree), Chosen, NEW e \in Entries
  PROVE  /\ DownloadsPath \in Paths /\ PathBelowBase[e] \in Paths /\ PathBelowBase[e] # <<>>
         /\ PlaceOfFile(RelativeFile(e)) = DownloadsPath \o PathBelowBase[e]
         /\ PlaceOfSymlink(RelativeSymlink(e)) = DownloadsPath \o PathBelowBase[e]
<1>1. DownloadsPath \in Paths
  <2>1. Base \in Seq(Nat) /\ Base # <<>> /\ Downloads \in Seq(Nat)
    BY FileTreeAssumption DEF Paths
  <2>2. Len(Base) \in Nat \ {0}
    BY <2>1, EmptySeq
  <2>3. Len(Base) \in 1 .. Len(Base)
    BY <2>2
  <2>4. Base[Len(Base)] \in Nat
    BY <2>1, <2>3, ElementOfSeq
  <2> QED
    BY <2>1, <2>4, AppendProperties DEF Chosen, Last, Paths
<1>2. PICK p \in Paths : p = PathBelowBase[e]
  BY PathsAre DEF Nodes
<1>3. p # <<>>
  <2>1. 0 \in Nodes /\ e \in Nodes /\ e # 0
    BY NodesAre DEF Nodes
  <2> QED
    BY <1>2, <2>1, PathsAre, PathsDiffer
<1>4. Base \in Paths
  BY FileTreeAssumption
<1>5. Rel(Base, Path(e)) = [up |-> 0, down |-> p]
  BY <1>2, <1>4, RelIs DEF Path
<1>6. Join(DownloadsPath, [up |-> 0, down |-> p]) = DownloadsPath \o p
  BY <1>1, JoinIs
<1> QED
  BY <1>1, <1>2, <1>3, <1>5, <1>6 DEF PlaceOfFile, PlaceOfSymlink, RelativeFile, RelativeSymlink

\* The places of a list's entries: no two are the same.
ArePlaces(places, list) ==
  places = [i \in DOMAIN list |-> DownloadsPath \o PathBelowBase[list[i]]]

LEMMA PlacesAre ==
  ASSUME IsTree(tree), Chosen, NEW list \in Seq(Entries), IsInjective(list),
         NEW places, ArePlaces(places, list)
  PROVE  /\ places \in Seq(Paths) /\ IsInjective(places)
         /\ \A x \in Range(places) :
              \E e \in Range(list) : e \in Entries /\ x = DownloadsPath \o PathBelowBase[e]
<1>1. DOMAIN list = 1 .. Len(list) /\ Len(list) \in Nat /\ \A i \in DOMAIN list : list[i] \in Entries
  BY LenProperties
<1>0. /\ DOMAIN places = DOMAIN list /\ places = [i \in DOMAIN list |-> places[i]]
      /\ \A i \in DOMAIN list : places[i] = DownloadsPath \o PathBelowBase[list[i]]
  BY DEF ArePlaces
<1>2. ASSUME NEW i \in DOMAIN list PROVE places[i] \in Paths
  <2>1. list[i] \in Entries
    BY <1>1
  <2>2. PICK q \in Paths, p \in Paths : q = DownloadsPath /\ p = PathBelowBase[list[i]]
    BY <2>1, PlaceIs
  <2>3. q \o p \in Paths
    BY ConcatProperties DEF Paths
  <2> QED
    BY <1>0, <2>2, <2>3
<1>3. places \in [1 .. Len(list) -> Paths]
  BY <1>0, <1>1, <1>2
<1>4. places \in Seq(Paths)
  BY <1>1, <1>3, FunctionIsSeq
<1>5. ASSUME NEW i \in DOMAIN list, NEW j \in DOMAIN list, places[i] = places[j] PROVE i = j
  <2>1. list[i] \in Entries /\ list[j] \in Entries
    BY <1>1
  <2>2. PICK q \in Seq(Nat), p \in Seq(Nat), r \in Seq(Nat) :
          q = DownloadsPath /\ p = PathBelowBase[list[i]] /\ r = PathBelowBase[list[j]]
    BY <2>1, PlaceIs DEF Paths
  <2>3. q \o p = q \o r
    BY <1>0, <1>5, <2>2
  <2>4. p = r
    BY <2>3, ConcatSimplifications
  <2>5. list[i] = list[j]
    BY <2>1, <2>2, <2>4, PathsDiffer DEF Nodes
  <2> QED
    BY <2>5 DEF IsInjective
<1>6. IsInjective(places)
  BY <1>0, <1>5 DEF IsInjective
<1>7. ASSUME NEW x \in Range(places)
      PROVE  \E e \in Range(list) : e \in Entries /\ x = DownloadsPath \o PathBelowBase[e]
  <2>1. PICK i \in DOMAIN list : x = places[i]
    BY <1>0 DEF Range
  <2>2. list[i] \in Range(list) /\ list[i] \in Entries
    BY <1>1 DEF Range
  <2> QED
    BY <1>0, <2>1, <2>2
<1> QED
  BY <1>4, <1>6, <1>7

\* The lists of what is sent: their entries' places, each entry once.
LEMMA ListsAre ==
  ASSUME TInv
  PROVE  /\ GetAllFiles \in Seq(Entries) /\ IsInjective(GetAllFiles)
         /\ \A e \in Range(GetAllFiles) : tree[e].kind = "file"
         /\ GetAllSymlinks \in Seq(Entries) /\ IsInjective(GetAllSymlinks)
         /\ \A e \in Range(GetAllSymlinks) : tree[e].kind = "link"
<1>1. ASSUME NEW own \in [Nodes -> Seq(Entries)], NEW kind,
             \A d \in Nodes : IsInjective(own[d]) /\ \A x \in Range(own[d]) : tree[x].parent = d,
             \A d \in Nodes : \A x \in Range(own[d]) : tree[x].kind = kind
      PROVE  /\ All(own) \in Seq(Entries) /\ IsInjective(All(own))
             /\ \A e \in Range(All(own)) : tree[e].kind = kind
  <2>1. PICK all : IsAll(own, all) /\ All(own) = all[0]
    BY AllAre
  <2>2. /\ IsInjective(all[0])
        /\ \A d \in Nodes : \A x \in Range(all[d]) :
             \E c \in Nodes : x \in Range(own[c]) /\ (recursive \/ c = d)
    BY <1>1, <2>1, AllOnce
  <2>3. all[0] \in Seq(Entries)
    BY <2>1, NodesAre DEF IsAll
  <2>4. \A e \in Range(all[0]) : tree[e].kind = kind
    BY <1>1, <2>2, NodesAre
  <2> QED
    BY <2>1, <2>2, <2>3, <2>4
<1>2. /\ OwnFiles \in [Nodes -> Seq(Entries)] /\ OwnSymlinks \in [Nodes -> Seq(Entries)]
      /\ GetAllFiles = All(OwnFiles) /\ GetAllSymlinks = All(OwnSymlinks)
  BY OwnAre
<1>3. /\ \A d \in Nodes : /\ IsInjective(OwnFiles[d])
                          /\ \A x \in Range(OwnFiles[d]) : tree[x].parent = d
      /\ \A d \in Nodes : \A x \in Range(OwnFiles[d]) : tree[x].kind = "file"
      /\ \A d \in Nodes : /\ IsInjective(OwnSymlinks[d])
                          /\ \A x \in Range(OwnSymlinks[d]) : tree[x].parent = d
      /\ \A d \in Nodes : \A x \in Range(OwnSymlinks[d]) : tree[x].kind = "link"
  BY OwnAre
<1>4. /\ All(OwnFiles) \in Seq(Entries) /\ IsInjective(All(OwnFiles))
      /\ \A e \in Range(All(OwnFiles)) : tree[e].kind = "file"
  BY <1>1, <1>2, <1>3
<1>5. /\ All(OwnSymlinks) \in Seq(Entries) /\ IsInjective(All(OwnSymlinks))
      /\ \A e \in Range(All(OwnSymlinks)) : tree[e].kind = "link"
  BY <1>1, <1>2, <1>3
<1> QED
  BY <1>2, <1>4, <1>5

LEMMA PlacesDiffer == TInv => PlacesApart
<1> SUFFICES ASSUME TInv, pc = "sending",
                    NEW files, files = [i \in DOMAIN FilesToSend |-> PlaceOfFile(FilesToSend[i])],
                    NEW links, links = [i \in DOMAIN SymlinksToSend |-> PlaceOfSymlink(SymlinksToSend[i])]
             PROVE  /\ IsInjective(files \o links)
                    /\ \A place \in Range(files \o links) : IsStrictPrefix(DownloadsPath, place)
  BY DEF PlacesApart
<1>1. IsTree(tree) /\ Chosen
  BY DEF TInv, TypeOK, Chosen
<1>2. PICK s \in Seq(Entries) : s = GetAllFiles
  BY ListsAre
<1>3. PICK t \in Seq(Entries) : t = GetAllSymlinks
  BY ListsAre
<1>4. /\ IsInjective(s) /\ \A e \in Range(s) : tree[e].kind = "file"
      /\ IsInjective(t) /\ \A e \in Range(t) : tree[e].kind = "link"
  BY <1>2, <1>3, ListsAre
<1>5. /\ FilesToSend = [i \in DOMAIN s |-> RelativeFile(s[i])]
      /\ SymlinksToSend = [i \in DOMAIN t |-> RelativeSymlink(t[i])]
  BY <1>2, <1>3 DEF TInv, Nested
<1>6. /\ files \in Seq(Paths) /\ IsInjective(files)
      /\ \A x \in Range(files) :
           \E e \in Range(s) : e \in Entries /\ x = DownloadsPath \o PathBelowBase[e]
  <2>1. DOMAIN files = DOMAIN s /\ files = [i \in DOMAIN s |-> files[i]]
    BY <1>5
  <2>2. ASSUME NEW i \in DOMAIN s PROVE files[i] = DownloadsPath \o PathBelowBase[s[i]]
    <3>1. s[i] \in Entries
      OBVIOUS
    <3>2. files[i] = PlaceOfFile(RelativeFile(s[i]))
      BY <1>5
    <3> QED
      BY <1>1, <3>1, <3>2, PlaceIs
  <2>3. ArePlaces(files, s)
    BY <2>1, <2>2 DEF ArePlaces
  <2> QED
    BY <1>1, <1>4, <2>3, PlacesAre
<1>7. /\ links \in Seq(Paths) /\ IsInjective(links)
      /\ \A x \in Range(links) :
           \E e \in Range(t) : e \in Entries /\ x = DownloadsPath \o PathBelowBase[e]
  <2>1. DOMAIN links = DOMAIN t /\ links = [i \in DOMAIN t |-> links[i]]
    BY <1>5
  <2>2. ASSUME NEW i \in DOMAIN t PROVE links[i] = DownloadsPath \o PathBelowBase[t[i]]
    <3>1. t[i] \in Entries
      OBVIOUS
    <3>2. links[i] = PlaceOfSymlink(RelativeSymlink(t[i]))
      BY <1>5
    <3> QED
      BY <1>1, <3>1, <3>2, PlaceIs
  <2>3. ArePlaces(links, t)
    BY <2>1, <2>2 DEF ArePlaces
  <2> QED
    BY <1>1, <1>4, <2>3, PlacesAre
<1>8. ASSUME NEW e \in Entries, NEW f \in Entries,
             DownloadsPath \o PathBelowBase[e] = DownloadsPath \o PathBelowBase[f]
      PROVE  e = f
  <2>1. PICK q \in Seq(Nat), p \in Seq(Nat), r \in Seq(Nat) :
          q = DownloadsPath /\ p = PathBelowBase[e] /\ r = PathBelowBase[f]
    BY <1>1, PlaceIs DEF Paths
  <2>2. p = r
    BY <1>8, <2>1, ConcatSimplifications
  <2> QED
    BY <1>1, <2>1, <2>2, PathsDiffer DEF Nodes
<1>9. Range(files) \cap Range(links) = {}
  <2>1. ASSUME NEW x \in Range(files), x \in Range(links) PROVE FALSE
    <3>1. PICK e \in Range(s) : e \in Entries /\ x = DownloadsPath \o PathBelowBase[e]
      BY <1>6
    <3>2. PICK f \in Range(t) : f \in Entries /\ x = DownloadsPath \o PathBelowBase[f]
      BY <1>7, <2>1
    <3>3. e = f
      BY <1>8, <3>1, <3>2
    <3> QED
      BY <1>4, <3>3
  <2> QED
    BY <2>1
<1>10. /\ Range(files \o links) = Range(files) \cup Range(links)
       /\ IsInjective(files \o links)
  <2>1. files \in Seq(Paths) /\ links \in Seq(Paths) /\ IsInjective(files) /\ IsInjective(links)
    BY <1>6, <1>7
  <2>2. PICK f \in Seq(Paths), l \in Seq(Paths) : f = files /\ l = links
    BY <2>1
  <2>3. /\ Range(f \o l) = Range(f) \cup Range(l)
        /\ IsInjective(f) /\ IsInjective(l) /\ Range(f) \cap Range(l) = {} => IsInjective(f \o l)
    BY RangeOfConcat
  <2> QED
    BY <1>9, <2>1, <2>2, <2>3
<1>11. ASSUME NEW e \in Entries PROVE IsStrictPrefix(DownloadsPath, DownloadsPath \o PathBelowBase[e])
  <2>1. PICK q \in Seq(Nat), p \in Seq(Nat) : q = DownloadsPath /\ p = PathBelowBase[e] /\ p # <<>>
    BY <1>1, PlaceIs DEF Paths
  <2>2. IsPrefix(q, q \o p)
    BY PrefixOfBelow
  <2>3. q # q \o p
    BY <2>1, ConcatEqualIffEmpty
  <2> QED
    BY <2>1, <2>2, <2>3 DEF IsStrictPrefix
<1>12. ASSUME NEW place \in Range(files \o links) PROVE IsStrictPrefix(DownloadsPath, place)
  <2>1. PICK e \in Entries : place = DownloadsPath \o PathBelowBase[e]
    BY <1>6, <1>7, <1>10
  <2> QED
    BY <1>11, <2>1
<1> QED
  BY <1>10, <1>12

\* No two entries arrive in the same place, and all of them below the folder the
\* receiver downloads to, with the directory's name or without it (node/node.go,
\* receive: the folder made on yes, and the paths joined to it).
THEOREM TreePlacesApart == Spec => []PlacesApart
<1> QED
  BY PlacesDiffer, TreeInvariant, PTL

=============================================================================
