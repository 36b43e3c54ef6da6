------------------------- MODULE Selection_proofs --------------------------
(***************************************************************************)
(* What the operators on sequences return that the runners are written      *)
(* with: appending, joining, slices, insertion and removal keep a list of   *)
(* systems free of repetitions, Only keeps the order and the elements of a   *)
(* set, and the counts of rows add up.                                     *)
(***************************************************************************)
EXTENDS Selection, SequencesExt, FiniteSetTheorems, SequenceTheorems, TLAPS

(* A sequence, whatever its elements are. *)
IsSeq(s) == \E S : s \in Seq(S)

(* A sequence has its places in order. *)
LEMMA SeqFacts ==
    ASSUME NEW s, IsSeq(s)
    PROVE  Len(s) \in Nat /\ DOMAIN s = 1 .. Len(s)
  BY LenProperties, Zenon DEF IsSeq

(* One row more. *)
LEMMA Appending ==
    ASSUME NEW s, IsSeq(s), NEW e
    PROVE  /\ IsSeq(Append(s, e))
           /\ Len(Append(s, e)) = Len(s) + 1
           /\ DOMAIN Append(s, e) = 1 .. Len(s) + 1
           /\ Append(s, e)[Len(s) + 1] = e
           /\ \A i \in 1 .. Len(s) : Append(s, e)[i] = s[i]
  <1>1. PICK S : s \in Seq(S)
    BY Zenon DEF IsSeq
  <1>2. s \in Seq(S \cup {e})
    BY <1>1, SeqMonotonic, Zenon
  <1>3. Append(s, e) \in Seq(S \cup {e})
    BY <1>2, AppendProperties, Zenon
  <1>. QED BY <1>2, <1>3, AppendProperties, SeqFacts DEF IsSeq

(* One sequence after the other. *)
LEMMA Joining ==
    ASSUME NEW s, IsSeq(s), NEW t, IsSeq(t)
    PROVE  /\ IsSeq(s \o t)
           /\ Len(s \o t) = Len(s) + Len(t)
           /\ DOMAIN (s \o t) = 1 .. Len(s) + Len(t)
           /\ \A i \in 1 .. Len(s) : (s \o t)[i] = s[i]
           /\ \A i \in 1 .. Len(t) : (s \o t)[Len(s) + i] = t[i]
           /\ ToSet(s \o t) = ToSet(s) \cup ToSet(t)
  <1>1. PICK S : s \in Seq(S)
    BY Zenon DEF IsSeq
  <1>2. PICK T : t \in Seq(T)
    BY Zenon DEF IsSeq
  <1>3. s \in Seq(S \cup T) /\ t \in Seq(S \cup T)
    BY <1>1, <1>2, SeqMonotonic, Zenon
  <1>4. /\ s \o t \in Seq(S \cup T)
        /\ Len(s \o t) = Len(s) + Len(t)
        /\ Len(s) \in Nat /\ Len(t) \in Nat
        /\ DOMAIN s = 1 .. Len(s) /\ DOMAIN t = 1 .. Len(t)
        /\ \A i \in 1 .. Len(s) + Len(t) :
              (s \o t)[i] = IF i <= Len(s) THEN s[i] ELSE t[i - Len(s)]
    BY <1>3, ConcatProperties, SeqFacts, Zenon
  <1>5. IsSeq(s \o t) /\ DOMAIN (s \o t) = 1 .. Len(s) + Len(t)
    BY <1>4, SeqFacts, Zenon DEF IsSeq
  <1>6. /\ \A i \in 1 .. Len(s) : (s \o t)[i] = s[i]
        /\ \A i \in 1 .. Len(t) : (s \o t)[Len(s) + i] = t[i]
    BY <1>4
  <1>7. ToSet(s \o t) = ToSet(s) \cup ToSet(t)
    <2>1. ASSUME NEW x \in ToSet(s \o t) PROVE x \in ToSet(s) \cup ToSet(t)
      <3>1. PICK i \in 1 .. Len(s) + Len(t) : x = (s \o t)[i]
        BY <1>5, <2>1, Zenon DEF ToSet
      <3>2. i \in 1 .. Len(s) \/ i - Len(s) \in 1 .. Len(t)
        BY <1>4
      <3>. QED BY <1>4, <3>1, <3>2 DEF ToSet
    <2>2. ASSUME NEW i \in 1 .. Len(t) PROVE t[i] \in ToSet(s \o t)
      <3>1. Len(s) + i \in DOMAIN (s \o t)
        BY <1>4, <1>5
      <3>. QED BY <1>6, <3>1, Zenon DEF ToSet
    <2>3. ASSUME NEW i \in 1 .. Len(s) PROVE s[i] \in ToSet(s \o t)
      <3>1. i \in DOMAIN (s \o t)
        BY <1>4, <1>5
      <3>. QED BY <1>6, <3>1, Zenon DEF ToSet
    <2>. QED BY <1>4, <2>1, <2>2, <2>3, Zenon DEF ToSet
  <1>. QED BY <1>4, <1>5, <1>6, <1>7, Zenon

(* Part of a sequence. *)
LEMMA Slice ==
    ASSUME NEW T, NEW s \in Seq(T), NEW m \in Nat \ {0}, NEW n \in Int, n <= Len(s)
    PROVE  /\ SubSeq(s, m, n) \in Seq(T)
           /\ Len(SubSeq(s, m, n)) = IF m <= n THEN n - m + 1 ELSE 0
           /\ \A i \in 1 .. n - m + 1 : SubSeq(s, m, n)[i] = s[m + i - 1]
           /\ ToSet(SubSeq(s, m, n)) = {s[i] : i \in m .. n}
           /\ IsInjective(s) => IsInjective(SubSeq(s, m, n))
  <1> DEFINE t == SubSeq(s, m, n)
  <1>1. Len(s) \in Nat /\ DOMAIN s = 1 .. Len(s) /\ \A i \in 1 .. Len(s) : s[i] \in T
    BY LenProperties, Zenon
  <1>2. \A i \in m .. n : s[i] \in T
    BY <1>1
  <1>3. /\ t \in Seq(T)
        /\ Len(t) = IF m <= n THEN n - m + 1 ELSE 0
        /\ \A i \in 1 .. n - m + 1 : t[i] = s[m + i - 1]
    BY <1>2, SubSeqProperties
  <1> HIDE DEF t
  <1>4. DOMAIN t = 1 .. n - m + 1
    BY <1>3, LenProperties
  <1>5. ToSet(t) = {s[i] : i \in m .. n}
    <2>1. ASSUME NEW i \in m .. n PROVE s[i] \in ToSet(t)
      <3>1. i - m + 1 \in 1 .. n - m + 1 /\ m + (i - m + 1) - 1 = i
        OBVIOUS
      <3>. QED BY <1>3, <1>4, <3>1, Zenon DEF ToSet
    <2>2. ASSUME NEW i \in 1 .. n - m + 1 PROVE t[i] \in {s[k] : k \in m .. n}
      <3>1. m + i - 1 \in m .. n
        OBVIOUS
      <3>. QED BY <1>3, <3>1, Zenon
    <2>. QED BY <1>4, <2>1, <2>2, Zenon DEF ToSet
  <1>6. ASSUME IsInjective(s), NEW i \in 1 .. n - m + 1, NEW j \in 1 .. n - m + 1, t[i] = t[j]
        PROVE  i = j
    <2>1. m + i - 1 \in DOMAIN s /\ m + j - 1 \in DOMAIN s
      BY <1>1
    <2>2. m + i - 1 = m + j - 1
      BY <1>3, <1>6, <2>1, Zenon DEF IsInjective
    <2>. QED BY <2>2
  <1>7. IsInjective(s) => IsInjective(t)
    BY <1>4, <1>6, Zenon DEF IsInjective
  <1>. QED BY <1>3, <1>5, <1>7, Zenon DEF t

(* What is left after the first element. *)
LEMMA TailFacts ==
    ASSUME NEW T, NEW s \in Seq(T), s # <<>>, IsInjective(s)
    PROVE  /\ Tail(s) \in Seq(T) /\ IsInjective(Tail(s)) /\ Len(Tail(s)) = Len(s) - 1
           /\ Head(s) \in T /\ ToSet(s) = ToSet(Tail(s)) \cup {Head(s)} /\ Head(s) \notin ToSet(Tail(s))
           /\ Len(s) \in Nat
  <1> DEFINE n == Len(s)
  <1>1. n \in Nat /\ n # 0 /\ DOMAIN s = 1 .. n
    BY LenProperties, EmptySeq, Zenon
  <1>2. /\ Tail(s) \in Seq(T) /\ IsInjective(Tail(s)) /\ ToSet(Tail(s)) = {s[i] : i \in 2 .. n}
        /\ Len(Tail(s)) = n - 1 /\ Head(s) \in T
    <2>1. Tail(s) \in Seq(T) /\ Len(Tail(s)) = n - 1 /\ Head(s) \in T
      BY HeadTailProperties, Zenon
    <2>2. Tail(s) = SubSeq(s, 2, n)
      BY TailIsSubSeq, Zenon
    <2>3. IsInjective(SubSeq(s, 2, n)) /\ ToSet(SubSeq(s, 2, n)) = {s[i] : i \in 2 .. n}
      BY <1>1, Slice
    <2>. QED BY <2>1, <2>2, <2>3, Zenon
  <1>3. Head(s) = s[1]
    OBVIOUS
  <1>4. 1 .. n = (2 .. n) \cup {1} /\ 1 \notin 2 .. n
    BY <1>1
  <1>5. ToSet(s) = ToSet(Tail(s)) \cup {s[1]}
    BY <1>1, <1>2, <1>4, Zenon DEF ToSet
  <1>6. \A i \in 2 .. n : s[i] # s[1]
    BY <1>1, <1>4, Zenon DEF IsInjective
  <1>. QED BY <1>1, <1>2, <1>3, <1>5, <1>6, Zenon

(* Two sequences without a common element. *)
LEMMA JoinInjective ==
    ASSUME NEW s, IsSeq(s), NEW t, IsSeq(t), IsInjective(s), IsInjective(t), ToSet(s) \cap ToSet(t) = {}
    PROVE  IsInjective(s \o t)
  <1> DEFINE n == Len(s)
             k == Len(t)
             u == s \o t
  <1>1. /\ DOMAIN u = 1 .. n + k /\ \A i \in 1 .. n : u[i] = s[i]
        /\ \A i \in 1 .. k : u[n + i] = t[i]
        /\ n \in Nat /\ k \in Nat /\ DOMAIN s = 1 .. n /\ DOMAIN t = 1 .. k
    BY SeqFacts, Joining, Zenon
  <1> HIDE DEF u, n, k
  <1>2. \A i \in 1 .. n, j \in 1 .. k : u[i] # u[n + j]
    BY <1>1, Zenon DEF ToSet
  <1>3. \A i, j \in 1 .. n : u[i] = u[j] => i = j
    BY <1>1, Zenon DEF IsInjective
  <1>4. \A i, j \in 1 .. k : u[n + i] = u[n + j] => i = j
    BY <1>1 DEF IsInjective
  <1>5. \A i \in 1 .. n + k : i \in 1 .. n \/ \E j \in 1 .. k : i = n + j
    <2> SUFFICES ASSUME NEW i \in 1 .. n + k, i \notin 1 .. n PROVE i - n \in 1 .. k /\ i = n + (i - n)
      BY Zenon
    <2>. QED BY <1>1
  <1>6. ASSUME NEW i \in 1 .. n + k, NEW j \in 1 .. n + k, u[i] = u[j] PROVE i = j
    <2>1. CASE i \in 1 .. n /\ j \in 1 .. n
      BY <1>3, <1>6, <2>1, Zenon
    <2>2. CASE i \in 1 .. n /\ j \notin 1 .. n
      BY <1>2, <1>5, <1>6, <2>2, Zenon
    <2>3. CASE i \notin 1 .. n /\ j \in 1 .. n
      BY <1>2, <1>5, <1>6, <2>3, Zenon
    <2>4. CASE i \notin 1 .. n /\ j \notin 1 .. n
      BY <1>4, <1>5, <1>6, <2>4, Zenon
    <2>. QED BY <2>1, <2>2, <2>3, <2>4, Zenon
  <1>7. IsInjective(u)
    BY <1>1, <1>6, Zenon DEF IsInjective
  <1>. QED BY <1>7, Zenon DEF u

(* A new element at the end. *)
LEMMA AppendInjection ==
    ASSUME NEW T, NEW s \in Seq(T), IsInjective(s), NEW e \in T, e \notin ToSet(s)
    PROVE  /\ Append(s, e) \in Seq(T) /\ IsInjective(Append(s, e))
           /\ ToSet(Append(s, e)) = ToSet(s) \cup {e}
  <1> DEFINE one == <<e>>
  <1>1. one \in Seq(T) /\ ToSet(one) = {e} /\ IsInjective(one)
    BY DEF ToSet, IsInjective
  <1>2. Append(s, e) \in Seq(T) /\ Append(s, e) = s \o one
    BY AppendProperties, AppendIsConcat, Zenon
  <1> HIDE DEF one
  <1>3. IsSeq(s) /\ IsSeq(one) /\ ToSet(s) \cap ToSet(one) = {}
    BY <1>1, Zenon DEF IsSeq
  <1>4. ToSet(s \o one) = ToSet(s) \cup {e}
    BY <1>1, <1>3, Joining, Zenon
  <1>5. IsInjective(s \o one)
    BY <1>1, <1>3, JoinInjective, Zenon
  <1>. QED BY <1>2, <1>4, <1>5, Zenon

(* The server inserts a new element somewhere. *)
LEMMA Inserting ==
    ASSUME NEW T, NEW s \in Seq(T), NEW i \in 1 .. Len(s) + 1, NEW e \in T
    PROVE  /\ InsertAt(s, i, e) \in Seq(T)
           /\ ToSet(InsertAt(s, i, e)) = ToSet(s) \cup {e}
           /\ Len(InsertAt(s, i, e)) = Len(s) + 1
           /\ \A j \in 1 .. i - 1 : InsertAt(s, i, e)[j] = s[j]
           /\ InsertAt(s, i, e)[i] = e
           /\ \A j \in i .. Len(s) : InsertAt(s, i, e)[j + 1] = s[j]
           /\ IsInjective(s) /\ e \notin ToSet(s) => IsInjective(InsertAt(s, i, e))
  <1> DEFINE n == Len(s)
             a == SubSeq(s, 1, i - 1)
             m == <<e>>
             b == SubSeq(s, i, n)
             u == a \o m \o b
  <1>1. n \in Nat /\ DOMAIN s = 1 .. n /\ i \in Nat \ {0} /\ i - 1 \in Int /\ i - 1 <= n /\ i <= n + 1
    BY LenProperties
  <1>2. /\ a \in Seq(T) /\ Len(a) = i - 1
        /\ \A j \in 1 .. i - 1 : a[j] = s[j]
        /\ ToSet(a) = {s[j] : j \in 1 .. i - 1}
        /\ IsInjective(s) => IsInjective(a)
    <2>1. i - 1 - 1 + 1 = i - 1 /\ \A j \in 1 .. i - 1 : 1 + j - 1 = j
      BY <1>1
    <2>. QED BY <1>1, <2>1, Slice
  <1>3. /\ b \in Seq(T) /\ Len(b) = n - i + 1
        /\ \A j \in 1 .. n - i + 1 : b[j] = s[i + j - 1]
        /\ ToSet(b) = {s[j] : j \in i .. n}
        /\ IsInjective(s) => IsInjective(b)
    <2>1. (IF i <= n THEN n - i + 1 ELSE 0) = n - i + 1
      BY <1>1
    <2>. QED BY <1>1, <2>1, Slice
  <1>4. m \in Seq(T) /\ Len(m) = 1 /\ m[1] = e /\ ToSet(m) = {e} /\ IsInjective(m)
    BY DEF ToSet, IsInjective
  <1> HIDE DEF a, b, m
  <1>5. IsSeq(a) /\ IsSeq(m) /\ IsSeq(b) /\ IsSeq(a \o m)
    BY <1>2, <1>3, <1>4, Joining, Zenon DEF IsSeq
  <1>6. u \in Seq(T)
    BY <1>2, <1>3, <1>4, ConcatProperties, Zenon
  <1>7. /\ Len(a \o m) = i /\ ToSet(a \o m) = ToSet(a) \cup {e}
        /\ \A j \in 1 .. i - 1 : (a \o m)[j] = s[j]
        /\ (a \o m)[i] = e
    <2>1. i - 1 + 1 = i
      BY <1>1
    <2>2. Len(a) + 1 = i
      BY <1>1, <1>2
    <2>3. /\ Len(a \o m) = Len(a) + Len(m) /\ ToSet(a \o m) = ToSet(a) \cup ToSet(m)
          /\ \A j \in 1 .. Len(a) : (a \o m)[j] = a[j]
          /\ \A j \in 1 .. Len(m) : (a \o m)[Len(a) + j] = m[j]
      BY <1>5, Joining
    <2>4. (a \o m)[i] = m[1]
      BY <1>4, <2>2, <2>3
    <2>. QED BY <1>2, <1>4, <2>2, <2>3, <2>4, Zenon
  <1>8. /\ Len(u) = n + 1 /\ ToSet(u) = ToSet(a) \cup {e} \cup ToSet(b)
        /\ \A j \in 1 .. i : u[j] = (a \o m)[j]
        /\ \A j \in 1 .. n - i + 1 : u[i + j] = b[j]
    <2>1. /\ Len(u) = Len(a \o m) + Len(b) /\ ToSet(u) = ToSet(a \o m) \cup ToSet(b)
          /\ \A j \in 1 .. Len(a \o m) : u[j] = (a \o m)[j]
          /\ \A j \in 1 .. Len(b) : u[Len(a \o m) + j] = b[j]
      BY <1>5, Joining
    <2>2. i + (n - i + 1) = n + 1
      BY <1>1
    <2> HIDE DEF u
    <2>. QED BY <1>3, <1>7, <2>1, <2>2, Zenon
  <1>9. ToSet(u) = ToSet(s) \cup {e}
    <2>1. 1 .. n = (1 .. i - 1) \cup (i .. n)
      BY <1>1
    <2>. QED BY <1>1, <1>2, <1>3, <1>8, <2>1, Zenon DEF ToSet
  <1>10. ASSUME NEW j \in i .. n PROVE u[j + 1] = s[j]
    <2>1. j + 1 - i \in 1 .. n - i + 1 /\ i + (j + 1 - i) = j + 1 /\ i + (j + 1 - i) - 1 = j
      BY <1>1
    <2> HIDE DEF u, a, b, m
    <2>2. u[i + (j + 1 - i)] = b[j + 1 - i]
      BY <1>8, <2>1, Zenon
    <2>3. b[j + 1 - i] = s[i + (j + 1 - i) - 1]
      BY <1>3, <2>1, Zenon
    <2>. QED BY <2>1, <2>2, <2>3, Zenon
  <1>11. ASSUME IsInjective(s), e \notin ToSet(s) PROVE IsInjective(u)
    <2>1. ToSet(a) \cap ToSet(b) = {}
      <3>1. \A j \in 1 .. i - 1, k \in i .. n : s[j] # s[k]
        BY <1>1, <1>11 DEF IsInjective
      <3>. QED BY <1>2, <1>3, <3>1
    <2>2. ToSet(a) \subseteq ToSet(s) /\ ToSet(b) \subseteq ToSet(s)
      <3>1. (1 .. i - 1) \subseteq DOMAIN s /\ (i .. n) \subseteq DOMAIN s
        BY <1>1
      <3>. QED BY <1>2, <1>3, <3>1, Zenon DEF ToSet
    <2>3. IsInjective(a \o m)
      BY <1>2, <1>4, <1>5, <1>11, <2>2, JoinInjective, Zenon
    <2>4. ToSet(a \o m) \cap ToSet(b) = {}
      BY <1>7, <1>11, <2>1, <2>2, Zenon
    <2>. QED BY <1>3, <1>5, <1>11, <2>3, <2>4, JoinInjective, Zenon
  <1>12. u = InsertAt(s, i, e)
    BY Zenon DEF InsertAt, a, b, m
  <1>13. \A j \in 1 .. i - 1 : u[j] = s[j]
    BY <1>1, <1>7, <1>8
  <1>14. u[i] = e
    BY <1>1, <1>7, <1>8
  <1> HIDE DEF u
  <1>. QED BY <1>6, <1>8, <1>9, <1>10, <1>11, <1>12, <1>13, <1>14, Zenon

(* The server removes an element. *)
LEMMA Removing ==
    ASSUME NEW T, NEW s \in Seq(T), NEW i \in 1 .. Len(s), IsInjective(s)
    PROVE  /\ RemoveAt(s, i) \in Seq(T)
           /\ ToSet(RemoveAt(s, i)) \subseteq ToSet(s)
           /\ IsInjective(RemoveAt(s, i))
  <1> DEFINE n == Len(s)
             a == SubSeq(s, 1, i - 1)
             b == SubSeq(s, i + 1, n)
  <1>1. n \in Nat /\ DOMAIN s = 1 .. n /\ i \in Nat \ {0} /\ i + 1 \in Nat \ {0} /\ i - 1 \in Int /\ i - 1 <= n
    BY LenProperties
  <1>2. /\ a \in Seq(T) /\ ToSet(a) = {s[j] : j \in 1 .. i - 1}
        /\ IsInjective(a)
    BY <1>1, Slice
  <1>3. /\ b \in Seq(T) /\ ToSet(b) = {s[j] : j \in i + 1 .. n}
        /\ IsInjective(b)
    BY <1>1, Slice
  <1> HIDE DEF a, b
  <1>4. IsSeq(a) /\ IsSeq(b) /\ a \o b \in Seq(T)
    BY <1>2, <1>3, ConcatProperties, Zenon DEF IsSeq
  <1>5. \A j \in 1 .. i - 1, k \in i + 1 .. n : s[j] # s[k]
    BY <1>1 DEF IsInjective
  <1>6. ToSet(a) \cap ToSet(b) = {}
    BY <1>2, <1>3, <1>5, Zenon
  <1>7. IsInjective(a \o b) /\ ToSet(a \o b) = ToSet(a) \cup ToSet(b)
    BY <1>2, <1>3, <1>4, <1>6, Joining, JoinInjective, Zenon
  <1>8. ToSet(a) \cup ToSet(b) \subseteq ToSet(s)
    <2>1. (1 .. i - 1) \subseteq DOMAIN s /\ (i + 1 .. n) \subseteq DOMAIN s
      BY <1>1
    <2>. QED BY <1>2, <1>3, <2>1, Zenon DEF ToSet
  <1>. QED BY <1>4, <1>7, <1>8, Zenon DEF RemoveAt, a, b

(* The elements of a finite set in some order. *)
LEMMA Listed ==
    ASSUME NEW S, IsFiniteSet(S)
    PROVE  /\ SetToSeq(S) \in Seq(S) /\ IsInjective(SetToSeq(S))
           /\ Len(SetToSeq(S)) = Cardinality(S) /\ Cardinality(S) \in Nat
  <1> DEFINE n == Cardinality(S)
  <1>1. n \in Nat /\ ExistsBijection(1 .. n, S)
    BY FS_CardinalityType, Zenon
  <1>2. \E f \in [1 .. n -> S] : IsInjective(f)
    BY <1>1, Zenon DEF ExistsBijection, Bijection, Injection, IsInjective
  <1>3. SetToSeq(S) \in [1 .. n -> S] /\ IsInjective(SetToSeq(S))
    BY <1>2, Zenon DEF SetToSeq
  <1>. QED BY <1>1, <1>3

(* The places of a finite set of numbers can be put in order, and the order     *)
(* has each of them: the number of places up to one is its rank.             *)
LEMMA Ordering ==
    ASSUME NEW I, I \subseteq Nat, IsFiniteSet(I)
    PROVE  /\ InOrder(I) \in [1 .. Cardinality(I) -> I]
           /\ \A j, k \in 1 .. Cardinality(I) : j < k => InOrder(I)[j] < InOrder(I)[k]
           /\ \A i \in I : \E k \in 1 .. Cardinality(I) : InOrder(I)[k] = i
  <1> DEFINE n == Cardinality(I)
             upto(i) == {j \in I : j <= i}
             rank == [i \in I |-> Cardinality(upto(i))]
  <1>1. n \in Nat
    BY FS_CardinalityType, Zenon
  <1>2. ASSUME NEW i \in I
        PROVE  IsFiniteSet(upto(i)) /\ Cardinality(upto(i)) \in 1 .. n
    <2>1. IsFiniteSet(upto(i)) /\ Cardinality(upto(i)) <= n
      BY FS_Subset, Zenon
    <2>2. Cardinality(upto(i)) \in Nat /\ i \in upto(i)
      BY <2>1, FS_CardinalityType
    <2>3. Cardinality(upto(i)) # 0
      BY <2>1, <2>2, FS_EmptySet, Zenon
    <2>. QED BY <1>1, <2>1, <2>2, <2>3
  <1>3. ASSUME NEW i \in I, NEW j \in I, i < j
        PROVE  Cardinality(upto(i)) < Cardinality(upto(j))
    <2>0. i \in Nat /\ j \in Nat /\ i < j
      BY <1>3, Zenon
    <2>1. upto(i) \in SUBSET upto(j) /\ j \in upto(j) /\ j \notin upto(i)
      <3>1. \A k \in Nat : k <= i => k <= j
        BY <2>0
      <3>2. j <= j /\ ~(j <= i)
        BY <2>0
      <3>. QED BY <1>3, <3>1, <3>2, Zenon
    <2> HIDE DEF upto
    <2>2. Cardinality(upto(i)) <= Cardinality(upto(j))
      BY <1>2, <2>1, FS_Subset, Zenon
    <2>3. Cardinality(upto(j)) # Cardinality(upto(i))
      BY <1>2, <2>1, FS_Subset, Zenon
    <2>. QED BY <1>1, <1>2, <2>2, <2>3
  <1>4. /\ rank \in [I -> 1 .. n]
        /\ \A i, j \in I : i < j => rank[i] < rank[j]
    BY <1>2, <1>3, Zenon
  <1> HIDE DEF rank
  <1>5. IsFiniteSet(1 .. n) /\ Cardinality(1 .. n) = n
    <2> HIDE DEF n, upto
    <2>1. 1 \in Int /\ n \in Int
      BY <1>1
    <2>2. IsFiniteSet(1 .. n) /\ Cardinality(1 .. n) = IF 1 > n THEN 0 ELSE n - 1 + 1
      BY <2>1, FS_Interval, Zenon
    <2>. QED BY <1>1, <2>2
  <1>6. rank \in Injection(I, 1 .. n)
    BY <1>1, <1>4 DEF Injection, IsInjective
  <1>7. rank \in Surjection(I, 1 .. n)
    BY <1>5, <1>6, FS_Injection, Zenon
  <1>8. \A k \in 1 .. n : \E i \in I : rank[i] = k
    BY <1>7, Zenon DEF Surjection
  <1> DEFINE f == [k \in 1 .. n |-> CHOOSE i \in I : rank[i] = k]
  <1>9. f \in [1 .. n -> I] /\ \A k \in 1 .. n : rank[f[k]] = k
    BY <1>8, Zenon
  <1>10. \A j, k \in 1 .. n : j < k => f[j] < f[k]
    <2> SUFFICES ASSUME NEW j \in 1 .. n, NEW k \in 1 .. n, j < k
                 PROVE  f[j] < f[k]
      BY Zenon
    <2>1. f[j] \in I /\ f[k] \in I /\ rank[f[j]] = j /\ rank[f[k]] = k
      BY <1>9, Zenon
    <2> HIDE DEF f
    <2>2. f[j] \in Nat /\ f[k] \in Nat
      BY <2>1, Zenon
    <2>3. ~(f[k] < f[j]) /\ f[j] # f[k]
      BY <1>4, <2>1, <2>2
    <2>. QED BY <2>2, <2>3
  <1>11. /\ InOrder(I) \in [1 .. n -> I]
         /\ \A j, k \in DOMAIN InOrder(I) : j < k => InOrder(I)[j] < InOrder(I)[k]
    <2>1. \E g \in [1 .. n -> I] : \A j, k \in DOMAIN g : j < k => g[j] < g[k]
      <3>1. DOMAIN f = 1 .. n
        BY <1>9, Zenon
      <3>. QED BY <1>9, <1>10, <3>1, Zenon
    <2> HIDE DEF f
    <2>. QED BY <2>1, Zenon DEF InOrder
  <1> DEFINE g == InOrder(I)
  <1>12. g \in [1 .. n -> I] /\ \A j, k \in 1 .. n : j < k => g[j] < g[k]
    BY <1>11, Zenon
  <1> HIDE DEF g
  <1>13. g \in Injection(1 .. n, I)
    <2> SUFFICES ASSUME NEW j \in 1 .. n, NEW k \in 1 .. n, g[j] = g[k] PROVE j = k
      BY <1>12, Zenon DEF Injection, IsInjective
    <2>1. j \in Nat /\ k \in Nat
      BY <1>1
    <2>2. g[j] \in I
      BY <1>12, Zenon
    <2>3. g[j] \in Nat
      BY <2>2, Zenon
    <2>4. ~(j < k) /\ ~(k < j)
      BY <1>12, <2>3
    <2>. QED BY <2>1, <2>4
  <1>14. g \in Surjection(1 .. n, I)
    BY <1>5, <1>13, FS_Injection, Zenon
  <1>15. \A i \in I : \E k \in 1 .. n : g[k] = i
    BY <1>14, Zenon DEF Surjection
  <1>. QED BY <1>12, <1>15, Zenon DEF g

(* What is kept of a sequence is in S, has everything of S, and repeats       *)
(* nothing the sequence does not repeat.                                    *)
LEMMA OnlyFacts ==
    ASSUME NEW T, NEW s \in Seq(T), NEW S
    PROVE  /\ Only(s, S) \in Seq(T \cap S)
           /\ Len(Only(s, S)) = Cardinality(PlacesOf(s, S))
           /\ ToSet(Only(s, S)) = ToSet(s) \cap S
           /\ IsInjective(s) => IsInjective(Only(s, S))
  <1> DEFINE I == PlacesOf(s, S)
             n == Cardinality(I)
             f == InOrder(I)
  <1>1. DOMAIN s = 1 .. Len(s) /\ Len(s) \in Nat /\ \A i \in 1 .. Len(s) : s[i] \in T
    BY LenProperties, Zenon
  <1>2. I \in SUBSET (1 .. Len(s)) /\ IsFiniteSet(I) /\ I \subseteq Nat /\ n \in Nat
    <2>1. I \in SUBSET (1 .. Len(s)) /\ IsFiniteSet(1 .. Len(s))
      BY <1>1, FS_Interval DEF PlacesOf
    <2>2. IsFiniteSet(I)
      BY <2>1, FS_Subset, Zenon
    <2>3. n \in Nat
      BY <2>2, FS_CardinalityType, Zenon
    <2>. QED BY <2>1, <2>2, <2>3
  <1>3. \A i \in I : s[i] \in T \cap S
    BY <1>1, Zenon DEF PlacesOf
  <1>4. /\ f \in [1 .. n -> I]
        /\ \A j, k \in 1 .. n : j < k => f[j] < f[k]
        /\ \A i \in I : \E k \in 1 .. n : f[k] = i
    BY <1>2, Ordering, Zenon
  <1>5. Only(s, S) = [k \in 1 .. n |-> s[f[k]]]
    BY Zenon DEF Only
  <1>6. \A i \in 1 .. Len(s) : s[i] \in S => i \in I
    BY <1>1, Zenon DEF PlacesOf
  <1> HIDE DEF I, f, n
  <1> DEFINE o == [k \in 1 .. n |-> s[f[k]]]
  <1>7. o \in Seq(T \cap S) /\ Len(o) = n /\ DOMAIN o = 1 .. n
    <2>1. o \in [1 .. n -> T \cap S]
      BY <1>3, <1>4, Zenon
    <2>2. DOMAIN o = 1 .. n
      BY <2>1, Zenon
    <2> HIDE DEF o
    <2>. QED BY <1>2, <2>1, <2>2
  <1>8. ToSet(o) = ToSet(s) \cap S
    <2>1. ASSUME NEW k \in 1 .. n PROVE o[k] \in ToSet(s) \cap S
      BY <1>1, <1>2, <1>3, <1>4, Zenon DEF ToSet
    <2>2. ASSUME NEW x \in ToSet(s) \cap S PROVE x \in ToSet(o)
      <3>1. PICK i \in 1 .. Len(s) : x = s[i]
        BY <1>1, Zenon DEF ToSet
      <3>2. PICK k \in 1 .. n : f[k] = i
        BY <1>4, <1>6, <3>1, Zenon
      <3>. QED BY <1>7, <3>1, <3>2, Zenon DEF ToSet
    <2>. QED BY <1>7, <2>1, <2>2, Zenon DEF ToSet
  <1>9. IsInjective(s) => IsInjective(o)
    <2> SUFFICES ASSUME IsInjective(s), NEW j \in 1 .. n, NEW k \in 1 .. n, o[j] = o[k]
                 PROVE  j = k
      BY <1>7, Zenon DEF IsInjective
    <2>1. f[j] \in I /\ f[k] \in I
      BY <1>4, Zenon
    <2>2. f[j] = f[k]
      BY <1>1, <1>2, <2>1, Zenon DEF IsInjective
    <2>3. f[j] \in Nat
      BY <1>2, <2>1, Zenon
    <2>4. ~(j < k) /\ ~(k < j)
      BY <1>4, <2>2, <2>3
    <2>. QED BY <1>2, <2>4
  <1>. QED BY <1>5, <1>7, <1>8, <1>9, Zenon DEF n, I

(* An empty list has no rows. *)
LEMMA CountNone == \A r : WithStatus(<<>>, r) = 0
  BY FS_EmptySet DEF WithStatus

(* A row that is appended is counted with its status. *)
LEMMA CountOne ==
    ASSUME NEW rows, IsSeq(rows), NEW row, NEW r
    PROVE  /\ WithStatus(rows, r) \in Nat
           /\ WithStatus(Append(rows, row), r)
                = WithStatus(rows, r) + (IF row.status = r THEN 1 ELSE 0)
  <1> DEFINE old == {i \in DOMAIN rows : rows[i].status = r}
             new == {i \in DOMAIN Append(rows, row) : Append(rows, row)[i].status = r}
             n == Len(rows)
  <1>1. n \in Nat /\ DOMAIN rows = 1 .. n /\ old \in SUBSET (1 .. n)
    BY SeqFacts, Zenon
  <1>2. /\ DOMAIN Append(rows, row) = 1 .. n + 1
        /\ Append(rows, row)[n + 1] = row
        /\ \A i \in 1 .. n : Append(rows, row)[i] = rows[i]
    BY Appending
  <1>3. IsFiniteSet(old) /\ Cardinality(old) \in Nat
    <2>1. IsFiniteSet(1 .. n)
      BY <1>1, FS_Interval
    <2>2. IsFiniteSet(old)
      BY <1>1, <2>1, FS_Subset, Zenon
    <2>. QED BY <2>2, FS_CardinalityType, Zenon
  <1>4. n + 1 \notin old /\ new = IF row.status = r THEN old \cup {n + 1} ELSE old
    <2>1. 1 .. n + 1 = (1 .. n) \cup {n + 1} /\ n + 1 \notin 1 .. n
      BY <1>1
    <2>2. \A i \in 1 .. n : i \in new <=> i \in old
      BY <1>1, <1>2, <2>1, Zenon
    <2>3. n + 1 \in new <=> row.status = r
      BY <1>2, <2>1, Zenon
    <2>4. new \subseteq (1 .. n) \cup {n + 1} /\ old \subseteq 1 .. n
      BY <1>1, <1>2, <2>1, Zenon
    <2> HIDE DEF new, old
    <2>5. CASE row.status = r
      BY <2>1, <2>2, <2>3, <2>4, <2>5, Zenon
    <2>6. CASE row.status # r
      <3>1. new \subseteq 1 .. n
        BY <2>3, <2>4, <2>6, Zenon
      <3>. QED BY <2>1, <2>2, <2>4, <2>6, <3>1, Zenon
    <2>. QED BY <2>5, <2>6, Zenon
  <1> HIDE DEF new, old
  <1>5. Cardinality(old \cup {n + 1}) = Cardinality(old) + 1
    BY <1>3, <1>4, FS_AddElement, Zenon
  <1>6. Cardinality(new) = Cardinality(old) + (IF row.status = r THEN 1 ELSE 0)
    BY <1>3, <1>4, <1>5
  <1>. QED BY <1>3, <1>6, Zenon DEF WithStatus, new, old

(* Rows that all have one of two statuses are counted by these. *)
LEMMA CountBoth ==
    ASSUME NEW rows, IsSeq(rows), NEW q, NEW r, q # r,
           \A i \in DOMAIN rows : rows[i].status \in {q, r}
    PROVE  /\ Len(rows) = WithStatus(rows, q) + WithStatus(rows, r)
           /\ \A x : x \notin {q, r} => WithStatus(rows, x) = 0
  <1> DEFINE D == DOMAIN rows
             At(x) == {i \in D : rows[i].status = x}
  <1>1. IsFiniteSet(D) /\ Cardinality(D) = Len(rows)
    BY SeqFacts, FS_Interval
  <1>2. At(q) \in SUBSET D /\ At(r) \in SUBSET D /\ At(q) \cup At(r) = D /\ At(q) \cap At(r) = {}
    BY Zenon
  <1>3. \A x : x \notin {q, r} => At(x) = {}
    BY Zenon
  <1> HIDE DEF At, D
  <1>4. IsFiniteSet(At(q)) /\ IsFiniteSet(At(r))
    BY <1>1, <1>2, FS_Subset, Zenon
  <1>5. Cardinality(At(q)) \in Nat /\ Cardinality(At(r)) \in Nat
    BY <1>4, FS_CardinalityType, Zenon
  <1>6. Cardinality(At(q) \cup At(r))
          = Cardinality(At(q)) + Cardinality(At(r)) - Cardinality(At(q) \cap At(r))
    BY <1>4, FS_Union, Zenon
  <1>7. Len(rows) = Cardinality(At(q)) + Cardinality(At(r))
    <2>1. Cardinality(At(q) \cap At(r)) = 0
      BY <1>2, FS_EmptySet, Zenon
    <2>2. Cardinality(At(q) \cup At(r)) = Len(rows)
      BY <1>1, <1>2, Zenon
    <2>. QED BY <1>5, <1>6, <2>1, <2>2
  <1>8. \A x : x \notin {q, r} => Cardinality(At(x)) = 0
    BY <1>3, FS_EmptySet, Zenon
  <1>. QED BY <1>7, <1>8, Zenon DEF WithStatus, At, D

(* Rows of different names: no name is found twice, and one that is there      *)
(* once.                                                                   *)
LEMMA NamedOnce ==
    ASSUME NEW rows, IsSeq(rows), NEW s,
           \A i, j \in DOMAIN rows : rows[i].name = rows[j].name => i = j
    PROVE  /\ Named(rows, s) <= 1
           /\ (\E i \in DOMAIN rows : rows[i].name = s) => Named(rows, s) = 1
  <1> DEFINE At == {i \in DOMAIN rows : rows[i].name = s}
  <1>1. At = {} \/ \E i \in DOMAIN rows : At = {i}
    <2>1. ASSUME NEW i \in At PROVE At = {i}
      BY <2>1, Zenon
    <2>. QED BY <2>1, Zenon
  <1>2. (\E i \in DOMAIN rows : rows[i].name = s) => At # {}
    BY Zenon
  <1> HIDE DEF At
  <1>3. CASE At = {}
    BY <1>2, <1>3, FS_EmptySet DEF Named, At
  <1>4. ASSUME NEW i \in DOMAIN rows, At = {i} PROVE Cardinality(At) = 1
    BY <1>4, FS_Singleton, Zenon
  <1>. QED BY <1>1, <1>3, <1>4 DEF Named, At

(* The elements of a list up to one of them. *)
UpTo(s, x) == {s[j] : j \in {j \in DOMAIN s : \E i \in DOMAIN s : s[i] = x /\ j <= i}}

(* The first k elements of a list without repetitions are k. *)
LEMMA FirstOnes ==
    ASSUME NEW T, NEW s \in Seq(T), IsInjective(s), NEW k \in 0 .. Len(s)
    PROVE  /\ IsFiniteSet({s[j] : j \in 1 .. k})
           /\ Cardinality({s[j] : j \in 1 .. k}) = k
  <1> DEFINE C == {s[j] : j \in 1 .. k}
             f == [j \in 1 .. k |-> s[j]]
  <1>1. k \in Nat /\ 1 .. k \subseteq DOMAIN s
    BY LenProperties
  <1>2. IsFiniteSet(1 .. k) /\ Cardinality(1 .. k) = k
    <2>1. IsFiniteSet(1 .. k) /\ Cardinality(1 .. k) = IF 1 > k THEN 0 ELSE k - 1 + 1
      BY <1>1, FS_Interval
    <2>. QED BY <1>1, <2>1
  <1>3. f \in Bijection(1 .. k, C)
    <2>1. \A i, j \in 1 .. k : s[i] = s[j] => i = j
      BY <1>1, Zenon DEF IsInjective
    <2>2. f \in [1 .. k -> C]
      BY Zenon
    <2>3. \A c \in C : \E j \in 1 .. k : f[j] = c
      BY Zenon
    <2>4. IsInjective(f)
      BY <2>1, Zenon DEF IsInjective
    <2> HIDE DEF C, f
    <2>. QED BY <2>2, <2>3, <2>4, Zenon DEF Bijection, Injection, Surjection
  <1> HIDE DEF C, f
  <1>4. IsFiniteSet(C) /\ Cardinality(C) = k
    BY <1>2, <1>3, FS_Bijection, Zenon DEF ExistsBijection
  <1>. QED BY <1>4, Zenon DEF C

(* A list without repetitions has as many elements as places. *)
LEMMA Distinct ==
    ASSUME NEW T, NEW s \in Seq(T), IsInjective(s)
    PROVE  IsFiniteSet(ToSet(s)) /\ Cardinality(ToSet(s)) = Len(s)
  <1>1. Len(s) \in 0 .. Len(s) /\ ToSet(s) = {s[j] : j \in 1 .. Len(s)}
    BY LenProperties DEF ToSet
  <1>. QED BY <1>1, FirstOnes, Zenon

(* The elements of S up to the k-th of those that are in S: there are k. *)
LEMMA Ranked ==
    ASSUME NEW T, NEW s \in Seq(T), IsInjective(s), NEW S, NEW k \in 1 .. Len(Only(s, S))
    PROVE  Cardinality(UpTo(s, Only(s, S)[k]) \cap S) = k
  <1> DEFINE P == PlacesOf(s, S)
             n == Cardinality(P)
             f == InOrder(P)
             t == Only(s, S)
  <1>1. Len(s) \in Nat /\ DOMAIN s = 1 .. Len(s)
    BY LenProperties, Zenon
  <1>2. IsFiniteSet(P) /\ P \subseteq Nat /\ n \in Nat
    <2>1. IsFiniteSet(1 .. Len(s))
      BY <1>1, FS_Interval
    <2>2. P \subseteq 1 .. Len(s)
      BY <1>1, Zenon DEF PlacesOf
    <2>. QED BY <1>1, <2>1, <2>2, FS_Subset, FS_CardinalityType
  <1>3. /\ f \in [1 .. n -> P]
        /\ \A i, j \in 1 .. n : i < j => f[i] < f[j]
        /\ \A i \in P : \E j \in 1 .. n : f[j] = i
    BY <1>2, Ordering, Zenon
  <1>4. /\ t \in Seq(T \cap S) /\ IsInjective(t) /\ Len(t) = n
        /\ \A j \in 1 .. n : t[j] = s[f[j]]
    <2>1. t \in Seq(T \cap S) /\ IsInjective(t) /\ Len(t) = n
      BY OnlyFacts, Zenon
    <2>2. t = [j \in 1 .. n |-> s[f[j]]]
      BY Zenon DEF Only
    <2>. QED BY <2>1, <2>2, Zenon
  <1>5. P = {i \in DOMAIN s : s[i] \in S} /\ \A i, j \in DOMAIN s : s[i] = s[j] => i = j
    BY Zenon DEF PlacesOf, IsInjective
  <1> HIDE DEF P, n, f, t
  <1>6. k \in 1 .. n /\ f[k] \in P /\ t[k] = s[f[k]]
    BY <1>3, <1>4, Zenon DEF t
  <1>7. \A j \in 1 .. n : f[j] <= f[k] <=> j <= k
    <2> TAKE j \in 1 .. n
    <2>1. f[j] \in Nat /\ f[k] \in Nat /\ j \in Nat /\ k \in Nat
      <3>1. j \in Nat /\ k \in Nat
        BY <1>2, <1>6
      <3>2. f[j] \in P /\ f[k] \in P
        BY <1>3, <1>6, Zenon
      <3>. QED BY <1>2, <3>1, <3>2, Zenon
    <2>2. (j < k => f[j] < f[k]) /\ (k < j => f[k] < f[j])
      BY <1>3, <1>6, Zenon
    <2>. QED BY <2>1, <2>2
  <1>8. UpTo(s, t[k]) = {s[i] : i \in {i \in DOMAIN s : i <= f[k]}}
    BY <1>5, <1>6, Zenon DEF UpTo
  <1>9. UpTo(s, t[k]) \cap S = {s[i] : i \in {i \in P : i <= f[k]}}
    BY <1>5, <1>8, Zenon
  <1>10. {s[i] : i \in {i \in P : i <= f[k]}} = {t[j] : j \in 1 .. k}
    <2>1. ASSUME NEW i \in P, i <= f[k] PROVE \E j \in 1 .. k : s[i] = t[j]
      <3>1. PICK j \in 1 .. n : f[j] = i
        BY <1>3, Zenon
      <3>2. j \in 1 .. k
        BY <1>2, <1>6, <1>7, <2>1, <3>1
      <3>. QED BY <1>4, <3>1, <3>2, Zenon
    <2>2. ASSUME NEW j \in 1 .. k PROVE f[j] \in P /\ f[j] <= f[k] /\ t[j] = s[f[j]]
      <3>1. j \in 1 .. n /\ j <= k
        BY <1>2, <1>6
      <3>. QED BY <1>3, <1>4, <1>7, <3>1, Zenon
    <2>. QED BY <2>1, <2>2
  <1>11. k \in 0 .. Len(t)
    BY <1>2, <1>4, <1>6
  <1>12. Cardinality({t[j] : j \in 1 .. k}) = k
    BY <1>4, <1>11, FirstOnes, Zenon
  <1>. QED BY <1>9, <1>10, <1>12, Zenon DEF t

(* The same without a selection. *)
LEMMA RankedAll ==
    ASSUME NEW T, NEW s \in Seq(T), IsInjective(s), NEW k \in 1 .. Len(s)
    PROVE  UpTo(s, s[k]) \subseteq T /\ Cardinality(UpTo(s, s[k])) = k
  <1>1. Len(s) \in Nat /\ DOMAIN s = 1 .. Len(s) /\ \A i \in 1 .. Len(s) : s[i] \in T
    BY LenProperties, Zenon
  <1>2. UpTo(s, s[k]) = {s[j] : j \in 1 .. k}
    BY <1>1 DEF UpTo, IsInjective
  <1>3. k \in 0 .. Len(s) /\ \A j \in 1 .. k : j \in 1 .. Len(s)
    BY <1>1
  <1>. QED BY <1>1, <1>2, <1>3, FirstOnes, Zenon

(* An element is among those up to itself, which are finitely many. *)
LEMMA UpToFacts ==
    ASSUME NEW T, NEW s \in Seq(T), NEW x \in ToSet(s)
    PROVE  x \in UpTo(s, x) /\ IsFiniteSet(UpTo(s, x))
  <1>1. Len(s) \in Nat /\ DOMAIN s = 1 .. Len(s)
    BY LenProperties, Zenon
  <1>2. PICK i \in 1 .. Len(s) : s[i] = x
    BY <1>1, Zenon DEF ToSet
  <1>3. x \in UpTo(s, x)
    BY <1>1, <1>2 DEF UpTo
  <1> DEFINE J == {j \in DOMAIN s : \E m \in DOMAIN s : s[m] = x /\ j <= m}
  <1>4. IsFiniteSet(J)
    <2>1. IsFiniteSet(1 .. Len(s)) /\ J \subseteq 1 .. Len(s)
      BY <1>1, FS_Interval
    <2>. QED BY <2>1, FS_Subset, Zenon
  <1> HIDE DEF J
  <1>5. IsFiniteSet({s[j] : j \in J})
    <2> DEFINE f == [j \in J |-> s[j]]
               C == {s[j] : j \in J}
    <2>1. f \in [J -> C] /\ \A c \in C : \E j \in J : f[j] = c
      BY Zenon
    <2> HIDE DEF f, C
    <2>2. f \in Surjection(J, C)
      BY <2>1, Zenon DEF Surjection
    <2>3. IsFiniteSet(C)
      BY <1>4, <2>2, FS_Surjection, Zenon
    <2>. QED BY <2>3, Zenon DEF C
  <1>. QED BY <1>3, <1>5, Zenon DEF UpTo, J

(* What comes before an element still does after an insertion. *)
LEMMA UpToGrows ==
    ASSUME NEW T, NEW s \in Seq(T), NEW i \in 1 .. Len(s) + 1, NEW e \in T, NEW x
    PROVE  UpTo(s, x) \subseteq UpTo(InsertAt(s, i, e), x)
  <1> DEFINE t == InsertAt(s, i, e)
             n == Len(s)
             At(j) == IF j < i THEN j ELSE j + 1
  <1>1. n \in Nat /\ DOMAIN s = 1 .. n /\ i \in Nat
    BY LenProperties
  <1>2. /\ t \in Seq(T) /\ Len(t) = n + 1
        /\ \A j \in 1 .. i - 1 : t[j] = s[j]
        /\ \A j \in i .. n : t[j + 1] = s[j]
    BY Inserting
  <1>3. DOMAIN t = 1 .. n + 1
    BY <1>2, LenProperties, Zenon
  <1> HIDE DEF t, n
  <1>4. \A j \in 1 .. n : At(j) \in 1 .. n + 1 /\ t[At(j)] = s[j]
    BY <1>1, <1>2
  <1>5. \A j, k \in 1 .. n : j <= k => At(j) <= At(k)
    BY <1>1
  <1> HIDE DEF At
  <1> SUFFICES ASSUME NEW j \in 1 .. n, NEW k \in 1 .. n, s[k] = x, j <= k
               PROVE  s[j] \in UpTo(t, x)
    BY <1>1, Zenon DEF UpTo, t
  <1>. QED BY <1>3, <1>4, <1>5, Zenon DEF UpTo

=============================================================================
