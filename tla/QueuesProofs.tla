---------------------------- MODULE QueuesProofs ----------------------------
(* What the operations on tail queues keep, for queues of anything.        *)
EXTENDS Queues, FiniteSetTheorems, TLAPS

(* Without keeps just what is not in S, and nothing twice.                 *)
LEMMA WithoutLists ==
  ASSUME NEW E, NEW q \in Seq(E), NEW T, Lists(q, T), NEW S
  PROVE  Without(q, S) \in Seq(E) /\ Lists(Without(q, S), T \ S)
<1>. DEFINE stay == {i \in DOMAIN q : q[i] \notin S}
            N == Cardinality(stay)
            UpTo(i) == {j \in stay : j <= i}
            rank == [i \in stay |-> Cardinality(UpTo(i))]
            pick(n) == CHOOSE i \in stay : Cardinality(UpTo(i)) = n
<1>1. /\ DOMAIN q = 1 .. Len(q) /\ Len(q) \in Nat
      /\ \A i \in DOMAIN q : q[i] \in E
  OBVIOUS
<1>2. IsFiniteSet(stay) /\ N \in Nat /\ stay \subseteq Nat
  <2>1. IsFiniteSet(1 .. Len(q))
    BY <1>1, FS_Interval
  <2>2. stay \in SUBSET (1 .. Len(q))
    BY <1>1
  <2>. QED  BY <2>1, <2>2, FS_Subset, FS_CardinalityType
<1>3. ASSUME NEW i \in stay
      PROVE  IsFiniteSet(UpTo(i)) /\ Cardinality(UpTo(i)) \in 1 .. N
  <2>1. UpTo(i) \in SUBSET stay
    OBVIOUS
  <2>2. IsFiniteSet(UpTo(i)) /\ Cardinality(UpTo(i)) \in Nat
        /\ Cardinality(UpTo(i)) <= N
    BY <1>2, <2>1, FS_Subset, FS_CardinalityType
  <2>3. i \in UpTo(i)
    BY <1>2
  <2>4. Cardinality(UpTo(i)) # 0
    BY <2>2, <2>3, FS_EmptySet
  <2>. QED  BY <1>2, <2>2, <2>4
<1>4. ASSUME NEW i \in stay, NEW j \in stay, i < j
      PROVE  Cardinality(UpTo(i)) # Cardinality(UpTo(j))
  <2>. HIDE DEF stay
  <2>0. i \in Nat /\ j \in Nat
    BY <1>2
  <2>1. UpTo(i) \in SUBSET UpTo(j)
    <3>1. ASSUME NEW x \in UpTo(i)  PROVE x \in UpTo(j)
      <4>1. x \in Nat /\ x \in stay /\ x <= i
        BY <1>2
      <4>2. x <= j
        BY <1>4, <2>0, <4>1
      <4>. QED  BY <4>1, <4>2
    <3>. QED  BY <3>1
  <2>2. j \in UpTo(j) /\ j \notin UpTo(i)
    BY <1>4, <2>0
  <2>3. IsFiniteSet(UpTo(j))
    BY <1>3
  <2>. QED  BY <2>1, <2>2, <2>3, FS_Subset
<1>5. ASSUME NEW i \in stay, NEW j \in stay,
             Cardinality(UpTo(i)) = Cardinality(UpTo(j))
      PROVE  i = j
  BY <1>2, <1>4, <1>5
<1>6. \A n \in 1 .. N : \E i \in stay : Cardinality(UpTo(i)) = n
  <2>. HIDE DEF UpTo
  <2>1. rank \in [stay -> 1 .. N]
    BY <1>3
  <2>2. rank \in Injection(stay, 1 .. N)
    BY <1>5, <2>1 DEF Injection, IsInjective
  <2>3. IsFiniteSet(1 .. N) /\ Cardinality(1 .. N) = N
    BY <1>2, FS_Interval
  <2>4. rank \in Surjection(stay, 1 .. N)
    BY <2>2, <2>3, FS_Injection
  <2>. QED  BY <2>4 DEF Surjection
<1>7. \A n \in 1 .. N : pick(n) \in stay /\ Cardinality(UpTo(pick(n))) = n
  BY <1>6
<1>8. \A i \in stay : /\ Cardinality(UpTo(i)) \in 1 .. N
                      /\ pick(Cardinality(UpTo(i))) = i
  BY <1>3, <1>5, <1>7
<1>9. Without(q, S) = [n \in 1 .. N |-> q[pick(n)]]
  BY DEF Without
<1>. HIDE DEF N, pick, UpTo
<1>10. Without(q, S) \in Seq(E) /\ DOMAIN Without(q, S) = 1 .. N
  BY <1>1, <1>2, <1>7, <1>9
<1>11. {Without(q, S)[n] : n \in DOMAIN Without(q, S)} = T \ S
  <2>1. ASSUME NEW n \in 1 .. N  PROVE Without(q, S)[n] \in T \ S
    BY <1>7, <1>9 DEF Lists
  <2>2. ASSUME NEW e \in T \ S  PROVE \E n \in 1 .. N : Without(q, S)[n] = e
    <3>1. PICK i \in DOMAIN q : q[i] = e
      BY DEF Lists
    <3>2. i \in stay
      BY <3>1
    <3>. QED  BY <1>8, <1>9, <3>1, <3>2
  <2>. QED  BY <1>10, <2>1, <2>2
<1>12. ASSUME NEW m \in 1 .. N, NEW n \in 1 .. N,
              Without(q, S)[m] = Without(q, S)[n]
       PROVE  m = n
  BY <1>7, <1>9, <1>12 DEF Lists
<1>. QED  BY <1>10, <1>11, <1>12 DEF Lists

LEMMA AppendLists ==
  ASSUME NEW E, NEW q \in Seq(E), NEW T, Lists(q, T), NEW e \in E, e \notin T
  PROVE  Append(q, e) \in Seq(E) /\ Lists(Append(q, e), T \cup {e})
BY DEF Lists

LEMMA TailLists ==
  ASSUME NEW E, NEW q \in Seq(E), NEW T, Lists(q, T), q # <<>>
  PROVE  /\ Head(q) \in T /\ Tail(q) \in Seq(E)
         /\ Lists(Tail(q), T \ {Head(q)})
<1>1. Head(q) \in T /\ Tail(q) \in Seq(E)
  BY DEF Lists
<1>. DEFINE r == Tail(q)
<1>2. /\ DOMAIN q = 1 .. Len(q) /\ DOMAIN r = 1 .. Len(q) - 1 /\ Len(q) \in Nat \ {0}
      /\ \A i \in 1 .. Len(q) - 1 : r[i] = q[i + 1]
      /\ Head(q) = q[1]
  OBVIOUS
<1>. HIDE DEF r
<1>3. ASSUME NEW i \in DOMAIN r, NEW j \in DOMAIN r, r[i] = r[j]  PROVE i = j
  <2>1. i \in Nat /\ j \in Nat /\ i + 1 \in DOMAIN q /\ j + 1 \in DOMAIN q
    BY <1>2
  <2>2. q[i + 1] = q[j + 1]
    BY <1>2, <1>3
  <2>3. i + 1 = j + 1
    BY <2>1, <2>2 DEF Lists
  <2>. QED  BY <2>1, <2>3
<1>4. ASSUME NEW i \in DOMAIN r  PROVE r[i] \in T \ {Head(q)}
  BY <1>2 DEF Lists
<1>5. ASSUME NEW e \in T \ {Head(q)}  PROVE \E i \in DOMAIN r : r[i] = e
  <2>1. PICK i \in DOMAIN q : q[i] = e
    BY DEF Lists
  <2>2. i # 1
    BY <1>2, <2>1
  <2>3. i - 1 \in DOMAIN r /\ r[i - 1] = e
    BY <1>2, <2>1, <2>2
  <2>. QED  BY <2>3
<1>6. Lists(r, T \ {Head(q)})
  BY <1>3, <1>4, <1>5 DEF Lists
<1>. QED  BY <1>1, <1>6 DEF r

LEMMA ConcatLists ==
  ASSUME NEW E, NEW q \in Seq(E), NEW r \in Seq(E), NEW T, NEW U,
         Lists(q, T), Lists(r, U), T \cap U = {}
  PROVE  q \o r \in Seq(E) /\ Lists(q \o r, T \cup U)
<1>. DEFINE s == q \o r
<1>1. /\ s \in Seq(E) /\ Len(q) \in Nat /\ Len(r) \in Nat
      /\ DOMAIN q = 1 .. Len(q) /\ DOMAIN r = 1 .. Len(r)
      /\ DOMAIN s = 1 .. Len(q) + Len(r)
      /\ \A i \in DOMAIN s : s[i] = IF i <= Len(q) THEN q[i] ELSE r[i - Len(q)]
  OBVIOUS
<1>. HIDE DEF s
<1>2. ASSUME NEW i \in DOMAIN s
      PROVE  \/ i \in DOMAIN q /\ s[i] = q[i] /\ q[i] \in T
             \/ i - Len(q) \in DOMAIN r /\ s[i] = r[i - Len(q)] /\ r[i - Len(q)] \in U
  BY <1>1 DEF Lists
<1>3. ASSUME NEW e \in T \cup U  PROVE \E i \in DOMAIN s : s[i] = e
  <2>1. CASE e \in T
    <3>1. PICK i \in DOMAIN q : q[i] = e
      BY <2>1 DEF Lists
    <3>. QED  BY <1>1, <3>1
  <2>2. CASE e \in U
    <3>1. PICK i \in DOMAIN r : r[i] = e
      BY <2>2 DEF Lists
    <3>2. i + Len(q) \in DOMAIN s /\ s[i + Len(q)] = e
      BY <1>1, <3>1
    <3>. QED  BY <3>2
  <2>. QED  BY <2>1, <2>2
<1>4. ASSUME NEW i \in DOMAIN s, NEW j \in DOMAIN s, s[i] = s[j]  PROVE i = j
  BY <1>1, <1>2, <1>4 DEF Lists
<1>5. Lists(s, T \cup U)
  BY <1>2, <1>3, <1>4 DEF Lists
<1>. QED  BY <1>1, <1>5 DEF s
=============================================================================
