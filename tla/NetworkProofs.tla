---------------------------- MODULE NetworkProofs ----------------------------
(***************************************************************************)
(* Proofs about Ipam and Network.                                          *)
(***************************************************************************)
EXTENDS Network, FoldTheorems, SequenceTheorems

-----------------------------------------------------------------------------
\* Sequences.

\* A set of naturals that is not empty has a least element.
LEMMA MinIsLeast ==
    ASSUME NEW I \in SUBSET Nat, I # {}
    PROVE  Min(I) \in I /\ \A j \in I : Min(I) <= j
<1>1. PICK x \in I : \A y \in I : ~ (<<y, x>> \in OpToRel(<, Nat))
  BY NatLessThanWellFounded, WFMin
<1>2. ASSUME NEW y \in I PROVE x <= y
  <2>1. ASSUME y < x PROVE FALSE
    <3>1. <<y, x>> \in {z \in Nat \X Nat : z[1] < z[2]} BY <2>1
    <3>2. <<y, x>> \in OpToRel(<, Nat) BY <3>1 DEF OpToRel
    <3>3. QED BY <1>1, <3>2
  <2>2. x \in Nat /\ y \in Nat OBVIOUS
  <2>3. QED BY <2>1, <2>2
<1>3. QED BY <1>2 DEF Min

\* Taking one element out moves the following ones to the left.
LEMMA RemoveAtIs ==
    ASSUME NEW S, NEW s \in Seq(S), NEW i \in 1 .. Len(s)
    PROVE  /\ RemoveAt(s, i) \in Seq(S)
           /\ Len(RemoveAt(s, i)) = Len(s) - 1
           /\ \A j \in 1 .. (Len(s) - 1) : RemoveAt(s, i)[j] = IF j < i THEN s[j] ELSE s[j + 1]
<1> DEFINE n == Len(s)
           a == SubSeq(s, 1, i - 1)
           b == SubSeq(s, i + 1, n)
<1>1. n \in Nat /\ i \in 1 .. n /\ \A j \in 1 .. n : s[j] \in S BY LenProperties, ElementOfSeq
<1> HIDE DEF n
<1>2. a \in Seq(S) /\ Len(a) = i - 1 /\ \A j \in 1 .. i - 1 : a[j] = s[j]
  <2>1. \A j \in 1 .. i - 1 : s[j] \in S BY <1>1
  <2>2. /\ SubSeq(s, 1, i - 1) \in Seq(S)
        /\ Len(SubSeq(s, 1, i - 1)) = IF 1 <= i - 1 THEN i - 1 - 1 + 1 ELSE 0
        /\ \A j \in 1 .. i - 1 - 1 + 1 : SubSeq(s, 1, i - 1)[j] = s[1 + j - 1]
    BY <1>1, <2>1, SubSeqProperties
  <2>3. QED BY <1>1, <2>2
<1>3. b \in Seq(S) /\ Len(b) = n - i /\ \A j \in 1 .. n - i : b[j] = s[i + j]
  <2>1. \A j \in i + 1 .. n : s[j] \in S BY <1>1
  <2>2. /\ SubSeq(s, i + 1, n) \in Seq(S)
        /\ Len(SubSeq(s, i + 1, n)) = IF i + 1 <= n THEN n - (i + 1) + 1 ELSE 0
        /\ \A j \in 1 .. n - (i + 1) + 1 : SubSeq(s, i + 1, n)[j] = s[(i + 1) + j - 1]
    BY <1>1, <2>1, SubSeqProperties
  <2>3. QED BY <1>1, <2>2
<1>4. RemoveAt(s, i) = a \o b BY DEF RemoveAt, n
<1> HIDE DEF a, b
<1>5. /\ a \o b \in Seq(S) /\ Len(a \o b) = Len(a) + Len(b)
      /\ \A j \in 1 .. Len(a) + Len(b) : (a \o b)[j] = IF j <= Len(a) THEN a[j] ELSE b[j - Len(a)]
  BY <1>2, <1>3, ConcatProperties
<1>6. Len(a) + Len(b) = n - 1 BY <1>1, <1>2, <1>3
<1>7. ASSUME NEW j \in 1 .. n - 1
      PROVE  (a \o b)[j] = IF j < i THEN s[j] ELSE s[j + 1]
  <2>1. CASE j < i
    <3>1. (a \o b)[j] = a[j] /\ a[j] = s[j] BY <1>1, <1>2, <1>5, <1>6, <1>7, <2>1
    <3>2. QED BY <2>1, <3>1
  <2>2. CASE ~ (j < i)
    <3>1. (a \o b)[j] = b[j - (i - 1)] BY <1>1, <1>2, <1>5, <1>6, <1>7, <2>2
    <3>2. j - (i - 1) \in 1 .. n - i /\ i + (j - (i - 1)) = j + 1 BY <1>1, <1>7, <2>2
    <3>3. b[j - (i - 1)] = s[i + (j - (i - 1))] BY <1>3, <3>2
    <3>4. QED BY <2>2, <3>1, <3>2, <3>3
  <2>3. QED BY <2>1, <2>2
<1>8. QED BY <1>4, <1>5, <1>6, <1>7 DEF n

\* Putting one element in moves the following ones to the right.
LEMMA InsertAtIs ==
    ASSUME NEW S, NEW s \in Seq(S), NEW i \in 1 .. (Len(s) + 1), NEW e \in S
    PROVE  /\ InsertAt(s, i, e) \in Seq(S)
           /\ Len(InsertAt(s, i, e)) = Len(s) + 1
           /\ \A j \in 1 .. (Len(s) + 1) : InsertAt(s, i, e)[j] =
                 IF j < i THEN s[j] ELSE IF j = i THEN e ELSE s[j - 1]
<1> DEFINE n == Len(s)
           a == SubSeq(s, 1, i - 1)
           b == SubSeq(s, i, n)
           c == a \o <<e>>
<1>1. n \in Nat /\ i \in 1 .. n + 1 /\ \A j \in 1 .. n : s[j] \in S BY LenProperties, ElementOfSeq
<1> HIDE DEF n
<1>2. a \in Seq(S) /\ Len(a) = i - 1 /\ \A j \in 1 .. i - 1 : a[j] = s[j]
  <2>1. \A j \in 1 .. i - 1 : s[j] \in S BY <1>1
  <2>2. /\ SubSeq(s, 1, i - 1) \in Seq(S)
        /\ Len(SubSeq(s, 1, i - 1)) = IF 1 <= i - 1 THEN i - 1 - 1 + 1 ELSE 0
        /\ \A j \in 1 .. i - 1 - 1 + 1 : SubSeq(s, 1, i - 1)[j] = s[1 + j - 1]
    BY <1>1, <2>1, SubSeqProperties
  <2>3. QED BY <1>1, <2>2
<1>3. b \in Seq(S) /\ Len(b) = n - i + 1 /\ \A j \in 1 .. n - i + 1 : b[j] = s[i + j - 1]
  <2>1. \A j \in i .. n : s[j] \in S BY <1>1
  <2>2. /\ SubSeq(s, i, n) \in Seq(S)
        /\ Len(SubSeq(s, i, n)) = IF i <= n THEN n - i + 1 ELSE 0
        /\ \A j \in 1 .. n - i + 1 : SubSeq(s, i, n)[j] = s[i + j - 1]
    BY <1>1, <2>1, SubSeqProperties
  <2>3. QED BY <1>1, <2>2
<1>4. InsertAt(s, i, e) = c \o b BY DEF InsertAt, n
<1> HIDE DEF a, b
<1>5. <<e>> \in Seq(S) /\ Len(<<e>>) = 1 /\ <<e>>[1] = e OBVIOUS
<1>6. c \in Seq(S) /\ Len(c) = i /\ (\A j \in 1 .. i - 1 : c[j] = s[j]) /\ c[i] = e
  <2> DEFINE d == <<e>>
  <2>1. d \in Seq(S) /\ Len(d) = 1 /\ d[1] = e BY <1>5
  <2> HIDE DEF d
  <2>2. /\ a \o d \in Seq(S) /\ Len(a \o d) = Len(a) + Len(d)
        /\ \A j \in 1 .. Len(a) + Len(d) : (a \o d)[j] = IF j <= Len(a) THEN a[j] ELSE d[j - Len(a)]
    BY <1>2, <2>1, ConcatProperties
  <2>3. c = a \o d BY DEF d
  <2> HIDE DEF c
  <2>4. QED BY <1>1, <1>2, <2>1, <2>2, <2>3
<1> HIDE DEF c
<1>7. /\ c \o b \in Seq(S) /\ Len(c \o b) = Len(c) + Len(b)
      /\ \A j \in 1 .. Len(c) + Len(b) : (c \o b)[j] = IF j <= Len(c) THEN c[j] ELSE b[j - Len(c)]
  BY <1>3, <1>6, ConcatProperties
<1>8. Len(c) + Len(b) = n + 1 BY <1>1, <1>3, <1>6
<1>9. ASSUME NEW j \in 1 .. n + 1
      PROVE  (c \o b)[j] = IF j < i THEN s[j] ELSE IF j = i THEN e ELSE s[j - 1]
  <2>1. CASE j <= i
    <3>1. (c \o b)[j] = c[j] BY <1>1, <1>6, <1>7, <1>8, <1>9, <2>1
    <3>2. QED BY <1>1, <1>6, <1>9, <2>1, <3>1
  <2>2. CASE ~ (j <= i)
    <3>1. (c \o b)[j] = b[j - i] BY <1>1, <1>6, <1>7, <1>8, <1>9, <2>2
    <3>2. j - i \in 1 .. n - i + 1 /\ i + (j - i) - 1 = j - 1 BY <1>1, <1>9, <2>2
    <3>3. b[j - i] = s[i + (j - i) - 1] BY <1>3, <3>2
    <3>4. QED BY <1>1, <1>9, <2>2, <3>1, <3>2, <3>3
  <2>3. QED BY <2>1, <2>2
<1>10. QED BY <1>4, <1>7, <1>8, <1>9 DEF n

-----------------------------------------------------------------------------
\* Intervals of free addresses.

Pools == Seq(Nat \X Nat)

\* An address is free when an interval contains it.
LEMMA InFree ==
    ASSUME NEW pool \in Pools, NEW x
    PROVE  /\ x \in FreeAddresses(pool) <=> \E i \in 1 .. Len(pool) : x \in pool[i][1] .. pool[i][2]
           /\ DOMAIN pool = 1 .. Len(pool) /\ Len(pool) \in Nat
           /\ \A i \in 1 .. Len(pool) : /\ pool[i] \in Nat \X Nat
                                        /\ pool[i][1] \in Nat /\ pool[i][2] \in Nat
<1>1. DOMAIN pool = 1 .. Len(pool) /\ Len(pool) \in Nat BY LenProperties DEF Pools
<1>2. \A i \in 1 .. Len(pool) : pool[i] \in Nat \X Nat BY ElementOfSeq DEF Pools
<1>3. \A i \in 1 .. Len(pool) : pool[i][1] \in Nat /\ pool[i][2] \in Nat BY <1>2
<1>4. QED BY <1>1, <1>2, <1>3 DEF FreeAddresses

\* An interval goes.
LEMMA RemoveInterval ==
    ASSUME NEW pool \in Pools, WellFormed(pool), NEW i \in 1 .. Len(pool)
    PROVE  /\ RemoveAt(pool, i) \in Pools /\ WellFormed(RemoveAt(pool, i))
           /\ FreeAddresses(RemoveAt(pool, i)) = FreeAddresses(pool) \ (pool[i][1] .. pool[i][2])
<1> DEFINE q == RemoveAt(pool, i)
           n == Len(pool)
<1>1. /\ DOMAIN pool = 1 .. n /\ n \in Nat
      /\ \A j \in 1 .. n : pool[j][1] \in Nat /\ pool[j][2] \in Nat
  BY InFree
<1>2. q \in Pools /\ Len(q) = n - 1 /\ \A j \in 1 .. n - 1 : q[j] = IF j < i THEN pool[j] ELSE pool[j + 1]
  BY RemoveAtIs DEF Pools
<1> HIDE DEF q, n
<1>3. DOMAIN q = 1 .. n - 1 BY <1>2, InFree
<1>4. \A j \in 1 .. n : pool[j][1] <= pool[j][2] BY <1>1 DEF WellFormed
<1>5. \A j, k \in 1 .. n : j < k => pool[j][2] < pool[k][1] BY <1>1 DEF WellFormed
<1>6. i \in 1 .. n BY DEF n
<1>7. \A j \in 1 .. n - 1 : q[j][1] <= q[j][2] BY <1>1, <1>2, <1>4, <1>6
<1>8. ASSUME NEW j \in 1 .. n - 1, NEW k \in 1 .. n - 1, j < k PROVE q[j][2] < q[k][1]
  <2>1. PICK u \in 1 .. n : q[j] = pool[u] /\ u = IF j < i THEN j ELSE j + 1 BY <1>1, <1>2, <1>6
  <2>2. PICK v \in 1 .. n : q[k] = pool[v] /\ v = IF k < i THEN k ELSE k + 1 BY <1>1, <1>2, <1>6
  <2>3. u < v BY <1>1, <1>6, <1>8, <2>1, <2>2
  <2>4. QED BY <1>5, <2>1, <2>2, <2>3
<1>9. WellFormed(q) BY <1>3, <1>7, <1>8 DEF WellFormed
<1>10. ASSUME NEW x PROVE x \in FreeAddresses(q) <=> x \in FreeAddresses(pool) /\ x \notin pool[i][1] .. pool[i][2]
  <2>1. x \in FreeAddresses(q) <=> \E j \in 1 .. n - 1 : x \in q[j][1] .. q[j][2] BY <1>2, InFree
  <2>2. x \in FreeAddresses(pool) <=> \E j \in 1 .. n : x \in pool[j][1] .. pool[j][2] BY InFree DEF n
  <2>3. ASSUME NEW j \in 1 .. n - 1, x \in q[j][1] .. q[j][2]
        PROVE  x \in FreeAddresses(pool) /\ x \notin pool[i][1] .. pool[i][2]
    <3>1. PICK u \in 1 .. n : q[j] = pool[u] /\ u = IF j < i THEN j ELSE j + 1 BY <1>1, <1>2, <1>6
    <3>2. u # i BY <1>1, <1>6, <2>3, <3>1
    <3>3. x \notin pool[i][1] .. pool[i][2] BY <1>1, <1>4, <1>5, <1>6, <2>3, <3>1, <3>2
    <3>4. QED BY <2>2, <2>3, <3>1, <3>3
  <2>4. ASSUME NEW j \in 1 .. n, x \in pool[j][1] .. pool[j][2], x \notin pool[i][1] .. pool[i][2]
        PROVE  x \in FreeAddresses(q)
    <3>1. j # i BY <1>1, <1>6, <2>4
    <3>2. CASE j < i
      <4>1. j \in 1 .. n - 1 /\ q[j] = pool[j] BY <1>1, <1>2, <1>6, <2>4, <3>2
      <4>2. QED BY <2>1, <2>4, <4>1
    <3>3. CASE i < j
      <4>1. j - 1 \in 1 .. n - 1 /\ ~ (j - 1 < i) /\ (j - 1) + 1 = j BY <1>1, <1>6, <2>4, <3>3
      <4>2. q[j - 1] = pool[j] BY <1>2, <4>1
      <4>3. QED BY <2>1, <2>4, <4>1, <4>2
    <3>4. QED BY <1>1, <1>6, <2>4, <3>1, <3>2, <3>3
  <2>5. QED BY <2>1, <2>2, <2>3, <2>4
<1>11. FreeAddresses(q) = FreeAddresses(pool) \ (pool[i][1] .. pool[i][2]) BY <1>10
<1>12. QED BY <1>2, <1>9, <1>11 DEF q

\* An interval is replaced by one that fits between its neighbours.
LEMMA ReplaceInterval ==
    ASSUME NEW pool \in Pools, WellFormed(pool), NEW i \in 1 .. Len(pool),
           NEW s \in Nat, NEW e \in Nat, s <= e,
           \A j \in 1 .. Len(pool) : (j < i => pool[j][2] < s) /\ (i < j => e < pool[j][1])
    PROVE  /\ ReplaceAt(pool, i, <<s, e>>) \in Pools /\ WellFormed(ReplaceAt(pool, i, <<s, e>>))
           /\ Len(ReplaceAt(pool, i, <<s, e>>)) = Len(pool)
           /\ \A j \in 1 .. Len(pool) :
                 ReplaceAt(pool, i, <<s, e>>)[j] = IF j = i THEN <<s, e>> ELSE pool[j]
           /\ FreeAddresses(ReplaceAt(pool, i, <<s, e>>))
                 = (FreeAddresses(pool) \ (pool[i][1] .. pool[i][2])) \union (s .. e)
<1> DEFINE r == <<s, e>>
           q == ReplaceAt(pool, i, r)
           n == Len(pool)
<1>1. /\ DOMAIN pool = 1 .. n /\ n \in Nat
      /\ \A j \in 1 .. n : pool[j][1] \in Nat /\ pool[j][2] \in Nat
  BY InFree
<1>2. r \in Nat \X Nat /\ r[1] = s /\ r[2] = e OBVIOUS
<1> HIDE DEF r
<1>3. q \in Pools /\ Len(q) = n /\ \A j \in 1 .. n : q[j] = IF j = i THEN r ELSE pool[j]
  BY <1>2, ExceptSeq DEF ReplaceAt, Pools
<1> HIDE DEF q, n
<1>4. DOMAIN q = 1 .. n BY <1>3, InFree
<1>5. \A j \in 1 .. n : pool[j][1] <= pool[j][2] BY <1>1 DEF WellFormed
<1>6. \A j, k \in 1 .. n : j < k => pool[j][2] < pool[k][1] BY <1>1 DEF WellFormed
<1>7. /\ i \in 1 .. n
      /\ \A j \in 1 .. n : (j < i => pool[j][2] < s) /\ (i < j => e < pool[j][1])
  BY DEF n
<1>8. \A j \in 1 .. n : q[j][1] <= q[j][2] BY <1>1, <1>2, <1>3, <1>5, <1>7
<1>9. \A j, k \in 1 .. n : j < k => q[j][2] < q[k][1] BY <1>1, <1>2, <1>3, <1>6, <1>7
<1>10. WellFormed(q) BY <1>4, <1>8, <1>9 DEF WellFormed
<1>11. ASSUME NEW x
       PROVE  x \in FreeAddresses(q)
                <=> (x \in FreeAddresses(pool) /\ x \notin pool[i][1] .. pool[i][2]) \/ x \in s .. e
  <2>1. x \in FreeAddresses(q) <=> \E j \in 1 .. n : x \in q[j][1] .. q[j][2] BY <1>3, InFree
  <2>2. x \in FreeAddresses(pool) <=> \E j \in 1 .. n : x \in pool[j][1] .. pool[j][2] BY InFree DEF n
  <2>3. \A j \in 1 .. n : j # i /\ x \in pool[j][1] .. pool[j][2] => x \notin pool[i][1] .. pool[i][2]
    BY <1>1, <1>6, <1>7
  <2>4. QED BY <1>2, <1>3, <1>7, <2>1, <2>2, <2>3
<1>12. FreeAddresses(q) = (FreeAddresses(pool) \ (pool[i][1] .. pool[i][2])) \union (s .. e) BY <1>11
<1>13. QED BY <1>3, <1>10, <1>12 DEF q, r, n

\* An interval is put in between two others.
LEMMA InsertInterval ==
    ASSUME NEW pool \in Pools, WellFormed(pool), NEW i \in 1 .. (Len(pool) + 1),
           NEW s \in Nat, NEW e \in Nat, s <= e,
           \A j \in 1 .. Len(pool) : (j < i => pool[j][2] < s) /\ (i <= j => e < pool[j][1])
    PROVE  /\ InsertAt(pool, i, <<s, e>>) \in Pools /\ WellFormed(InsertAt(pool, i, <<s, e>>))
           /\ FreeAddresses(InsertAt(pool, i, <<s, e>>)) = FreeAddresses(pool) \union (s .. e)
<1> DEFINE r == <<s, e>>
           q == InsertAt(pool, i, r)
           n == Len(pool)
<1>1. /\ DOMAIN pool = 1 .. n /\ n \in Nat
      /\ \A j \in 1 .. n : pool[j][1] \in Nat /\ pool[j][2] \in Nat
  BY InFree
<1>2. r \in Nat \X Nat /\ r[1] = s /\ r[2] = e OBVIOUS
<1> HIDE DEF r
<1>3. /\ q \in Pools /\ Len(q) = n + 1
      /\ \A j \in 1 .. n + 1 : q[j] = IF j < i THEN pool[j] ELSE IF j = i THEN r ELSE pool[j - 1]
  BY <1>2, InsertAtIs DEF Pools
<1> HIDE DEF q, n
<1>4. DOMAIN q = 1 .. n + 1 BY <1>3, InFree
<1>5. \A j \in 1 .. n : pool[j][1] <= pool[j][2] BY <1>1 DEF WellFormed
<1>6. \A j, k \in 1 .. n : j < k => pool[j][2] < pool[k][1] BY <1>1 DEF WellFormed
<1>7. /\ i \in 1 .. n + 1
      /\ \A j \in 1 .. n : (j < i => pool[j][2] < s) /\ (i <= j => e < pool[j][1])
  BY DEF n
<1>8. ASSUME NEW j \in 1 .. n + 1 PROVE q[j][1] <= q[j][2]
  <2>1. CASE j < i BY <1>1, <1>3, <1>5, <1>7, <2>1
  <2>2. CASE j = i BY <1>1, <1>2, <1>3, <1>7, <2>2
  <2>3. CASE i < j BY <1>1, <1>3, <1>5, <1>7, <2>3
  <2>4. QED BY <1>1, <1>7, <2>1, <2>2, <2>3
<1>9. ASSUME NEW j \in 1 .. n + 1, NEW k \in 1 .. n + 1, j < k PROVE q[j][2] < q[k][1]
  <2>1. CASE j < i /\ k < i BY <1>1, <1>3, <1>6, <1>7, <1>9, <2>1
  <2>2. CASE j < i /\ k = i BY <1>1, <1>2, <1>3, <1>7, <1>9, <2>2
  <2>3. CASE j < i /\ i < k
    <3>1. k - 1 \in 1 .. n /\ j \in 1 .. n /\ j < k - 1 BY <1>1, <1>7, <1>9, <2>3
    <3>2. q[k] = pool[k - 1] /\ q[j] = pool[j] BY <1>1, <1>3, <1>7, <1>9, <2>3
    <3>3. QED BY <1>6, <3>1, <3>2
  <2>4. CASE j = i
    <3>1. k - 1 \in 1 .. n /\ i <= k - 1 BY <1>1, <1>7, <1>9, <2>4
    <3>2. q[k] = pool[k - 1] /\ q[j] = r BY <1>1, <1>3, <1>7, <1>9, <2>4
    <3>3. QED BY <1>2, <1>7, <3>1, <3>2
  <2>5. CASE i < j
    <3>1. k - 1 \in 1 .. n /\ j - 1 \in 1 .. n /\ j - 1 < k - 1 BY <1>1, <1>7, <1>9, <2>5
    <3>2. q[k] = pool[k - 1] /\ q[j] = pool[j - 1] BY <1>1, <1>3, <1>7, <1>9, <2>5
    <3>3. QED BY <1>6, <3>1, <3>2
  <2>6. QED BY <1>1, <1>7, <1>9, <2>1, <2>2, <2>3, <2>4, <2>5
<1>10. WellFormed(q) BY <1>4, <1>8, <1>9 DEF WellFormed
<1>11. ASSUME NEW x
       PROVE  x \in FreeAddresses(q) <=> x \in FreeAddresses(pool) \/ x \in s .. e
  <2>1. x \in FreeAddresses(q) <=> \E j \in 1 .. n + 1 : x \in q[j][1] .. q[j][2] BY <1>3, InFree
  <2>2. x \in FreeAddresses(pool) <=> \E j \in 1 .. n : x \in pool[j][1] .. pool[j][2] BY InFree DEF n
  <2>3. ASSUME NEW j \in 1 .. n + 1, x \in q[j][1] .. q[j][2]
        PROVE  x \in FreeAddresses(pool) \/ x \in s .. e
    <3>1. CASE j < i
      <4>1. q[j] = pool[j] /\ j \in 1 .. n BY <1>1, <1>3, <1>7, <2>3, <3>1
      <4>2. QED BY <2>2, <2>3, <4>1
    <3>2. CASE j = i BY <1>1, <1>2, <1>3, <1>7, <2>3, <3>2
    <3>3. CASE i < j
      <4>1. q[j] = pool[j - 1] /\ j - 1 \in 1 .. n BY <1>1, <1>3, <1>7, <2>3, <3>3
      <4>2. QED BY <2>2, <2>3, <4>1
    <3>4. QED BY <1>1, <1>7, <3>1, <3>2, <3>3
  <2>4. ASSUME NEW j \in 1 .. n, x \in pool[j][1] .. pool[j][2]
        PROVE  x \in FreeAddresses(q)
    <3>1. CASE j < i
      <4>1. j \in 1 .. n + 1 BY <1>1, <2>4
      <4>2. q[j] = pool[j] BY <1>3, <3>1, <4>1
      <4>3. QED BY <2>1, <2>4, <4>1, <4>2
    <3>2. CASE ~ (j < i)
      <4>1. j + 1 \in 1 .. n + 1 /\ ~ (j + 1 < i) /\ j + 1 # i /\ (j + 1) - 1 = j
        BY <1>1, <1>7, <2>4, <3>2
      <4>2. q[j + 1] = pool[j] BY <1>3, <4>1
      <4>3. QED BY <2>1, <2>4, <4>1, <4>2
    <3>3. QED BY <3>1, <3>2
  <2>5. x \in s .. e => x \in FreeAddresses(q) BY <1>2, <1>3, <1>7, <2>1
  <2>6. QED BY <2>1, <2>2, <2>3, <2>4, <2>5
<1>12. FreeAddresses(q) = FreeAddresses(pool) \union (s .. e) BY <1>11
<1>13. QED BY <1>3, <1>10, <1>12 DEF q, r

\* occupy_ip takes an address out of the pool, and nothing else.
LEMMA OccupyIpIs ==
    ASSUME NEW pool \in Pools, WellFormed(pool), NEW a \in Nat
    PROVE  /\ OccupyIp(a, pool) \in Pools /\ WellFormed(OccupyIp(a, pool))
           /\ FreeAddresses(OccupyIp(a, pool)) = FreeAddresses(pool) \ {a}
<1> DEFINE n == Len(pool)
           I == {j \in 1 .. n : a \in pool[j][1] .. pool[j][2]}
           i == IF I # {} THEN Min(I) ELSE 0
           s == pool[i][1]
           e == pool[i][2]
<1>1. OccupyIp(a, pool) =
        IF i = 0 THEN pool
        ELSE IF s = e THEN RemoveAt(pool, i)
        ELSE IF a = s THEN ReplaceAt(pool, i, <<s + 1, e>>)
        ELSE IF a = e THEN ReplaceAt(pool, i, <<s, e - 1>>)
        ELSE InsertAt(ReplaceAt(pool, i, <<s, a - 1>>), i + 1, <<a + 1, e>>)
  BY DEF OccupyIp, SelectInSeq
<1>2. /\ n \in Nat /\ DOMAIN pool = 1 .. n
      /\ \A j \in 1 .. n : pool[j][1] \in Nat /\ pool[j][2] \in Nat
  BY InFree
<1>3. /\ \A j \in 1 .. n : pool[j][1] <= pool[j][2]
      /\ \A j, k \in 1 .. n : j < k => pool[j][2] < pool[k][1]
  BY <1>2 DEF WellFormed
<1>4. CASE I = {}
  <2>1. i = 0 BY <1>4
  <2>2. a \notin FreeAddresses(pool) BY <1>4, InFree
  <2>3. OccupyIp(a, pool) = pool BY <1>1, <2>1
  <2>4. QED BY <2>2, <2>3
<1>5. CASE I # {}
  <2>1. i \in I /\ i # 0
    <3>1. I \in SUBSET Nat BY <1>2
    <3>2. Min(I) \in I BY <1>5, <3>1, MinIsLeast
    <3>3. QED BY <1>2, <1>5, <3>2
  <2>2. /\ i \in 1 .. n /\ s \in Nat /\ e \in Nat /\ s <= a /\ a <= e
        /\ pool[i][1] = s /\ pool[i][2] = e
    BY <1>2, <2>1
  <2> HIDE DEF i, I, s, e
  <2>3. \A j \in 1 .. n : (j < i => pool[j][2] < s) /\ (i < j => e < pool[j][1])
    BY <1>2, <1>3, <2>2
  <2>4. s .. e \subseteq FreeAddresses(pool) BY <2>2, InFree
  <2>5. CASE s = e
    <3>1. OccupyIp(a, pool) = RemoveAt(pool, i) BY <1>1, <2>1, <2>5
    <3>2. \A x : x \in pool[i][1] .. pool[i][2] <=> x = a BY <2>2, <2>5
    <3>3. /\ RemoveAt(pool, i) \in Pools /\ WellFormed(RemoveAt(pool, i))
          /\ FreeAddresses(RemoveAt(pool, i)) = FreeAddresses(pool) \ (pool[i][1] .. pool[i][2])
      BY <2>2, RemoveInterval
    <3>4. QED BY <3>1, <3>2, <3>3
  <2>6. CASE s # e /\ a = s
    <3> DEFINE t == s + 1
               q == ReplaceAt(pool, i, <<t, e>>)
    <3>1. OccupyIp(a, pool) = q BY <1>1, <2>1, <2>6
    <3>2. t \in Nat /\ t <= e BY <2>2, <2>6
    <3>3. \A j \in 1 .. n : (j < i => pool[j][2] < t) /\ (i < j => e < pool[j][1])
      BY <1>2, <2>2, <2>3
    <3>4. \A x : x \in t .. e <=> x \in s .. e /\ x # a BY <2>2, <2>6
    <3> HIDE DEF t
    <3>5. /\ q \in Pools /\ WellFormed(q)
          /\ FreeAddresses(q) = (FreeAddresses(pool) \ (s .. e)) \union (t .. e)
      BY <2>2, <3>2, <3>3, ReplaceInterval
    <3>6. a \in s .. e BY <2>2
    <3> HIDE DEF q
    <3>7. FreeAddresses(q) = FreeAddresses(pool) \ {a} BY <2>4, <3>4, <3>5, <3>6
    <3>8. QED BY <3>1, <3>5, <3>7
  <2>7. CASE s # e /\ a # s /\ a = e
    <3> DEFINE t == e - 1
               q == ReplaceAt(pool, i, <<s, t>>)
    <3>1. OccupyIp(a, pool) = q BY <1>1, <2>1, <2>7
    <3>2. t \in Nat /\ s <= t BY <2>2, <2>7
    <3>3. \A j \in 1 .. n : (j < i => pool[j][2] < s) /\ (i < j => t < pool[j][1])
      BY <1>2, <2>2, <2>3
    <3>4. \A x : x \in s .. t <=> x \in s .. e /\ x # a BY <2>2, <2>7
    <3> HIDE DEF t
    <3>5. /\ q \in Pools /\ WellFormed(q)
          /\ FreeAddresses(q) = (FreeAddresses(pool) \ (s .. e)) \union (s .. t)
      BY <2>2, <3>2, <3>3, ReplaceInterval
    <3>6. a \in s .. e BY <2>2
    <3> HIDE DEF q
    <3>7. FreeAddresses(q) = FreeAddresses(pool) \ {a} BY <2>4, <3>4, <3>5, <3>6
    <3>8. QED BY <3>1, <3>5, <3>7
  <2>8. CASE s # e /\ a # s /\ a # e
    <3> DEFINE t == a - 1
               u == a + 1
               q == ReplaceAt(pool, i, <<s, t>>)
               k == i + 1
               r == InsertAt(q, k, <<u, e>>)
    <3>1. OccupyIp(a, pool) = r BY <1>1, <2>1, <2>8
    <3>2. t \in Nat /\ s <= t /\ t < u /\ u \in Nat /\ u <= e BY <2>2, <2>8
    <3>3. \A j \in 1 .. n : (j < i => pool[j][2] < s) /\ (i < j => t < pool[j][1])
      BY <1>2, <2>2, <2>3, <3>2
    <3>4. \A x : (x \in s .. t \/ x \in u .. e) <=> x \in s .. e /\ x # a BY <2>2, <2>8
    <3> HIDE DEF t, u
    <3>5. /\ q \in Pools /\ WellFormed(q) /\ Len(q) = n
          /\ \A j \in 1 .. n : q[j] = IF j = i THEN <<s, t>> ELSE pool[j]
          /\ FreeAddresses(q) = (FreeAddresses(pool) \ (s .. e)) \union (s .. t)
      BY <2>2, <3>2, <3>3, ReplaceInterval
    <3> HIDE DEF q
    <3>6. k \in 1 .. Len(q) + 1 BY <1>2, <2>2, <3>5
    <3>7. ASSUME NEW j \in 1 .. Len(q)
          PROVE  (j < k => q[j][2] < u) /\ (k <= j => e < q[j][1])
      <4>1. CASE j < i
        <5>1. q[j] = pool[j] /\ pool[j][2] < s /\ pool[j][2] \in Nat /\ ~ (k <= j)
          BY <1>2, <2>2, <2>3, <3>5, <4>1
        <5>2. QED BY <2>2, <3>2, <5>1
      <4>2. CASE j = i
        <5>1. q[j][2] = t /\ ~ (k <= j) BY <2>2, <3>5, <4>2
        <5>2. QED BY <3>2, <5>1
      <4>3. CASE i < j
        <5>1. q[j] = pool[j] /\ e < pool[j][1] /\ ~ (j < k) BY <1>2, <2>2, <2>3, <3>5, <4>3
        <5>2. QED BY <5>1
      <4>4. QED BY <1>2, <2>2, <3>5, <4>1, <4>2, <4>3
    <3> HIDE DEF k
    <3>8. /\ r \in Pools /\ WellFormed(r)
          /\ FreeAddresses(r) = FreeAddresses(q) \union (u .. e)
      BY <2>2, <3>2, <3>5, <3>6, <3>7, InsertInterval
    <3>9. a \in s .. e BY <2>2
    <3> HIDE DEF r
    <3>10. FreeAddresses(r) = FreeAddresses(pool) \ {a} BY <2>4, <3>4, <3>5, <3>8, <3>9
    <3>11. QED BY <3>1, <3>8, <3>10
  <2>9. QED BY <2>5, <2>6, <2>7, <2>8
<1>6. QED BY <1>4, <1>5

\* deallocate_ip puts an address back that is not in the pool.
LEMMA DeallocateIpIs ==
    ASSUME NEW pool \in Pools, WellFormed(pool), NEW a \in Nat, a \notin FreeAddresses(pool)
    PROVE  /\ DeallocateIp(a, pool) \in Pools /\ WellFormed(DeallocateIp(a, pool))
           /\ FreeAddresses(DeallocateIp(a, pool)) = FreeAddresses(pool) \union {a}
<1> DEFINE n == Len(pool)
           Hit(r) == a < r[1] \/ a = r[2] + 1 \/ (r[1] < a /\ a < r[2])
           I == {j \in 1 .. n : Hit(pool[j])}
           i == IF I # {} THEN Min(I) ELSE 0
           s == pool[i][1]
           e == pool[i][2]
<1>1. DeallocateIp(a, pool) =
        IF i = 0 THEN Append(pool, <<a, a>>)
        ELSE IF a < s - 1 THEN InsertAt(pool, i, <<a, a>>)
        ELSE IF a = s - 1 THEN ReplaceAt(pool, i, <<a, e>>)
        ELSE IF a # e + 1 THEN pool
        ELSE IF i < Len(pool) /\ pool[i + 1][1] = a + 1
             THEN RemoveAt(ReplaceAt(pool, i, <<s, pool[i + 1][2]>>), i + 1)
        ELSE ReplaceAt(pool, i, <<s, a>>)
  BY DEF DeallocateIp, SelectInSeq
<1>2. /\ n \in Nat /\ DOMAIN pool = 1 .. n
      /\ \A j \in 1 .. n : pool[j][1] \in Nat /\ pool[j][2] \in Nat
  BY InFree
<1>3. /\ \A j \in 1 .. n : pool[j][1] <= pool[j][2]
      /\ \A j, k \in 1 .. n : j < k => pool[j][2] < pool[k][1]
  BY <1>2 DEF WellFormed
<1>4. \A j \in 1 .. n : a < pool[j][1] \/ pool[j][2] < a BY <1>2, InFree
<1>5. \A x : x \in a .. a <=> x = a OBVIOUS
<1>6. CASE I = {}
  <2> DEFINE r == <<a, a>>
             m == n + 1
             q == InsertAt(pool, m, r)
  <2>1. DeallocateIp(a, pool) = Append(pool, r) BY <1>1, <1>6
  <2>2. \A j \in 1 .. n : pool[j][2] < a /\ ~ (m <= j) BY <1>2, <1>4, <1>6
  <2>3. r \in Nat \X Nat OBVIOUS
  <2>4. m \in 1 .. n + 1 BY <1>2
  <2>5. m = n + 1 OBVIOUS
  <2> HIDE DEF m, I, i, s, e, Hit
  <2>6. /\ q \in Pools /\ WellFormed(q) /\ FreeAddresses(q) = FreeAddresses(pool) \union (a .. a)
    <3>1. m \in 1 .. (Len(pool) + 1) BY <2>4
    <3>2. \A j \in 1 .. Len(pool) : (j < m => pool[j][2] < a) /\ (m <= j => a < pool[j][1]) BY <2>2
    <3>3. a <= a OBVIOUS
    <3> HIDE DEF n
    <3>4. QED BY <3>1, <3>2, <3>3, InsertInterval
  <2> HIDE DEF r
  <2>7. Append(pool, r) = q
    <3>1. /\ Append(pool, r) \in Seq(Nat \X Nat) /\ Len(Append(pool, r)) = n + 1
          /\ \A j \in 1 .. n : Append(pool, r)[j] = pool[j]
          /\ Append(pool, r)[n + 1] = r
      BY <2>3, AppendProperties DEF Pools
    <3>2. /\ q \in Seq(Nat \X Nat) /\ Len(q) = n + 1
          /\ \A j \in 1 .. n + 1 : q[j] = IF j < m THEN pool[j] ELSE IF j = m THEN r ELSE pool[j - 1]
      <4>1. pool \in Seq(Nat \X Nat) BY DEF Pools
      <4>2. QED BY <2>3, <2>4, <4>1, InsertAtIs
    <3> HIDE DEF q, n
    <3>3. ASSUME NEW j \in 1 .. n + 1 PROVE Append(pool, r)[j] = q[j]
      <4>1. CASE j = m BY <2>5, <3>1, <3>2, <4>1
      <4>2. CASE j # m
        <5>1. j \in 1 .. n /\ j < m BY <1>2, <2>5, <3>3, <4>2
        <5>2. QED BY <3>1, <3>2, <3>3, <5>1
      <4>3. QED BY <4>1, <4>2
    <3>4. QED BY <3>1, <3>2, <3>3, SeqEqual
  <2> HIDE DEF q
  <2>8. QED BY <1>5, <2>1, <2>6, <2>7
<1>7. CASE I # {}
  <2>1. i \in I /\ i # 0 /\ \A j \in I : i <= j
    <3>1. I \in SUBSET Nat BY <1>2
    <3>2. Min(I) \in I /\ \A j \in I : Min(I) <= j BY <1>7, <3>1, MinIsLeast
    <3>3. QED BY <1>2, <1>7, <3>2
  <2> HIDE DEF i
  <2>2. /\ i \in 1 .. n /\ s \in Nat /\ e \in Nat /\ s <= e /\ (a < s \/ a = e + 1)
        /\ pool[i][1] = s /\ pool[i][2] = e
    BY <1>2, <1>3, <1>4, <2>1
  <2>3. ASSUME NEW j \in 1 .. n, j < i PROVE pool[j][2] + 1 < a
    <3>1. ~ Hit(pool[j]) BY <1>2, <2>1, <2>2, <2>3
    <3>2. QED BY <1>2, <1>4, <2>3, <3>1
  <2> HIDE DEF I, s, e
  <2>4. \A j \in 1 .. n : (j < i => pool[j][2] < a /\ pool[j][2] < s) /\ (i < j => e < pool[j][1])
    BY <1>2, <1>3, <2>2, <2>3
  <2>5. s .. e \subseteq FreeAddresses(pool) BY <2>2, InFree
  <2>6. CASE a < s - 1
    <3>1. DeallocateIp(a, pool) = InsertAt(pool, i, <<a, a>>) BY <1>1, <2>1, <2>6
    <3>2. \A j \in 1 .. n : (j < i => pool[j][2] < a) /\ (i <= j => a < pool[j][1])
      BY <1>2, <2>2, <2>4, <2>6, SMTT(30)
    <3>3. i \in 1 .. n + 1 BY <1>2, <2>2
    <3>4. /\ InsertAt(pool, i, <<a, a>>) \in Pools /\ WellFormed(InsertAt(pool, i, <<a, a>>))
          /\ FreeAddresses(InsertAt(pool, i, <<a, a>>)) = FreeAddresses(pool) \union (a .. a)
      BY <1>2, <3>2, <3>3, InsertInterval
    <3>5. QED BY <1>5, <3>1, <3>4
  <2>7. CASE a = s - 1
    <3> DEFINE q == ReplaceAt(pool, i, <<a, e>>)
    <3>1. DeallocateIp(a, pool) = q BY <1>1, <2>1, <2>2, <2>7
    <3>2. a <= e /\ \A j \in 1 .. n : (j < i => pool[j][2] < a) /\ (i < j => e < pool[j][1])
      BY <1>2, <2>2, <2>4, <2>7
    <3>3. /\ q \in Pools /\ WellFormed(q)
          /\ FreeAddresses(q) = (FreeAddresses(pool) \ (s .. e)) \union (a .. e)
      BY <2>2, <3>2, ReplaceInterval
    <3>4. \A x : x \in a .. e <=> x \in s .. e \/ x = a BY <2>2, <2>7
    <3> HIDE DEF q
    <3>5. FreeAddresses(q) = FreeAddresses(pool) \union {a} BY <2>5, <3>3, <3>4
    <3>6. QED BY <3>1, <3>3, <3>5
  <2>8. CASE a = e + 1 /\ i < n /\ pool[i + 1][1] = a + 1
    <3> DEFINE k == i + 1
               f == pool[k][2]
               r == <<s, f>>
               p == RemoveAt(pool, k)
               q == RemoveAt(ReplaceAt(pool, i, r), k)
               u == ReplaceAt(p, i, r)
    <3>1. DeallocateIp(a, pool) = q BY <1>1, <2>1, <2>2, <2>8
    <3>2. k \in 1 .. n /\ f \in Nat /\ pool[k][1] = a + 1 /\ a + 1 <= f /\ i < k BY <1>2, <1>3, <2>2, <2>8
    <3>3. r \in Nat \X Nat BY <2>2, <3>2
    <3> HIDE DEF r
    <3>4. /\ p \in Pools /\ WellFormed(p) /\ Len(p) = n - 1
          /\ FreeAddresses(p) = FreeAddresses(pool) \ ((a + 1) .. f)
          /\ \A j \in 1 .. n - 1 : p[j] = IF j < k THEN pool[j] ELSE pool[j + 1]
      <4>1. pool \in Seq(Nat \X Nat) BY DEF Pools
      <4>2. Len(p) = n - 1 /\ \A j \in 1 .. n - 1 : p[j] = IF j < k THEN pool[j] ELSE pool[j + 1]
        BY <3>2, <4>1, RemoveAtIs
      <4>3. p \in Pools /\ WellFormed(p) /\ FreeAddresses(p) = FreeAddresses(pool) \ (pool[k][1] .. pool[k][2])
        BY <3>2, RemoveInterval
      <4>4. QED BY <3>2, <4>2, <4>3
    <3>5. q = u
      <4> DEFINE t == ReplaceAt(pool, i, r)
      <4>1. /\ t \in Seq(Nat \X Nat) /\ Len(t) = n
            /\ \A j \in 1 .. n : t[j] = IF j = i THEN r ELSE pool[j]
        <5>1. pool \in Seq(Nat \X Nat) /\ t = [pool EXCEPT ![i] = r] BY DEF ReplaceAt, Pools
        <5>2. i \in 1 .. Len(pool) BY <2>2
        <5>3. QED BY <3>3, <5>1, <5>2, ExceptSeq, SMTT(30)
      <4> HIDE DEF t, p
      <4>2. /\ RemoveAt(t, k) \in Seq(Nat \X Nat) /\ Len(RemoveAt(t, k)) = n - 1
            /\ \A j \in 1 .. n - 1 : RemoveAt(t, k)[j] = IF j < k THEN t[j] ELSE t[j + 1]
        BY <3>2, <4>1, RemoveAtIs
      <4>3. q = RemoveAt(t, k) BY DEF t
      <4>4. i \in 1 .. Len(p) BY <1>2, <2>2, <2>8, <3>4
      <4>5. /\ u \in Seq(Nat \X Nat) /\ Len(u) = n - 1
            /\ \A j \in 1 .. n - 1 : u[j] = IF j = i THEN r ELSE p[j]
        <5>1. p \in Seq(Nat \X Nat) /\ u = [p EXCEPT ![i] = r] BY <3>4 DEF ReplaceAt, Pools
        <5>2. /\ [p EXCEPT ![i] = r] \in Seq(Nat \X Nat) /\ Len([p EXCEPT ![i] = r]) = Len(p)
              /\ \A j \in 1 .. Len(p) : [p EXCEPT ![i] = r][j] = IF j = i THEN r ELSE p[j]
          BY <3>3, <4>4, <5>1, ExceptSeq, SMTT(30)
        <5> HIDE DEF u, n
        <5>3. QED BY <3>4, <5>1, <5>2
      <4> HIDE DEF q, u
      <4>6. ASSUME NEW j \in 1 .. n - 1 PROVE RemoveAt(t, k)[j] = u[j]
        <5>1. CASE j < i
          <6>1. j \in 1 .. n /\ j < k /\ j # i BY <1>2, <2>2, <3>2, <5>1
          <6>2. QED BY <3>4, <4>1, <4>2, <4>5, <6>1
        <5>2. CASE j = i
          <6>1. j \in 1 .. n /\ j < k BY <1>2, <2>2, <3>2, <5>2
          <6>2. QED BY <4>1, <4>2, <4>5, <5>2, <6>1
        <5>3. CASE i < j
          <6>1. j + 1 \in 1 .. n /\ ~ (j < k) /\ j # i /\ j + 1 # i BY <1>2, <2>2, <5>3
          <6>2. QED BY <3>4, <4>1, <4>2, <4>5, <6>1
        <5>4. QED BY <1>2, <2>2, <5>1, <5>2, <5>3
      <4>7. QED BY <4>2, <4>3, <4>5, <4>6, SeqEqual
    <3>6. i \in 1 .. Len(p) /\ p[i][1] = s /\ p[i][2] = e
      <4> HIDE DEF p
      <4>1. i \in 1 .. n - 1 /\ i < k BY <1>2, <2>2, <3>2
      <4>2. p[i] = pool[i] BY <3>4, <4>1
      <4>3. QED BY <2>2, <3>4, <4>1, <4>2
    <3>7. ASSUME NEW j \in 1 .. Len(p)
          PROVE  (j < i => p[j][2] < s) /\ (i < j => f < p[j][1])
      <4>1. CASE j < i
        <5>1. p[j] = pool[j] /\ j \in 1 .. n BY <1>2, <2>2, <3>2, <3>4, <4>1, SMTT(30)
        <5>2. QED BY <1>2, <2>2, <2>4, <4>1, <5>1
      <4>2. CASE i < j
        <5>1. p[j] = pool[j + 1] /\ j + 1 \in 1 .. n /\ k < j + 1 BY <1>2, <2>2, <3>4, <4>2
        <5>2. QED BY <1>2, <1>3, <2>2, <3>2, <4>2, <5>1
      <4>3. QED BY <1>2, <2>2, <4>1, <4>2
    <3>8. s <= f BY <2>2, <2>8, <3>2
    <3> HIDE DEF p, f, k
    <3>9. /\ u \in Pools /\ WellFormed(u)
          /\ FreeAddresses(u) = (FreeAddresses(p) \ (s .. e)) \union (s .. f)
      <4>1. u = ReplaceAt(p, i, <<s, f>>) BY DEF r
      <4> HIDE DEF u, n
      <4>2. /\ p \in Pools /\ WellFormed(p) /\ i \in 1 .. Len(p)
            /\ s \in Nat /\ f \in Nat /\ s <= f
            /\ \A j \in 1 .. Len(p) : (j < i => p[j][2] < s) /\ (i < j => f < p[j][1])
        BY <2>2, <3>2, <3>4, <3>6, <3>7, <3>8
      <4>3. /\ ReplaceAt(p, i, <<s, f>>) \in Pools /\ WellFormed(ReplaceAt(p, i, <<s, f>>))
            /\ FreeAddresses(ReplaceAt(p, i, <<s, f>>))
                  = (FreeAddresses(p) \ (p[i][1] .. p[i][2])) \union (s .. f)
        BY <4>2, ReplaceInterval
      <4>4. QED BY <3>6, <4>1, <4>3
    <3>10. \A x : x \in s .. f <=> x \in s .. e \/ x = a \/ x \in (a + 1) .. f
      BY <2>2, <2>8, <3>2
    <3>11. (a + 1) .. f \subseteq FreeAddresses(pool) BY <3>2, InFree DEF f
    <3> HIDE DEF u
    <3>12. FreeAddresses(u) = FreeAddresses(pool) \union {a}
      BY <2>5, <3>4, <3>9, <3>10, <3>11
    <3>13. QED BY <3>1, <3>5, <3>9, <3>12
  <2>9. CASE a = e + 1 /\ ~ (i < n /\ pool[i + 1][1] = a + 1)
    <3> DEFINE q == ReplaceAt(pool, i, <<s, a>>)
    <3>1. DeallocateIp(a, pool) = q BY <1>1, <2>1, <2>2, <2>9
    <3>2. s <= a /\ \A j \in 1 .. n : (j < i => pool[j][2] < s) /\ (i < j => a < pool[j][1])
      BY <1>2, <1>3, <1>4, <2>2, <2>4, <2>9, SMTT(30)
    <3>3. /\ q \in Pools /\ WellFormed(q)
          /\ FreeAddresses(q) = (FreeAddresses(pool) \ (s .. e)) \union (s .. a)
      BY <2>2, <3>2, ReplaceInterval, SMTT(30)
    <3>4. \A x : x \in s .. a <=> x \in s .. e \/ x = a BY <2>2, <2>9
    <3> HIDE DEF q
    <3>5. FreeAddresses(q) = FreeAddresses(pool) \union {a} BY <2>5, <3>3, <3>4
    <3>6. QED BY <3>1, <3>3, <3>5
  <2>10. QED BY <2>2, <2>6, <2>7, <2>8, <2>9
<1>8. QED BY <1>6, <1>7

\* The pool of a subnet with the addresses of s occupied.
Sound(pool, first, last, s) ==
    /\ pool \in Pools /\ WellFormed(pool)
    /\ FreeAddresses(pool) = (first .. last) \ s

\* g occupies one address after the other.
Occupies(g, first, last, taken) ==
    /\ g[{}] = <<<<first, last>>>>
    /\ \A s \in SUBSET taken :
          s # {} /\ Sound(g[s \ {Pick(s)}], first, last, s \ {Pick(s)})
            => g[s] = OccupyIp(Pick(s), g[s \ {Pick(s)}])

\* A function that occupies one address after the other yields sound pools.
LEMMA OccupiedSound ==
    ASSUME NEW first \in Nat, NEW last \in Nat, first <= last,
           NEW taken, taken \subseteq Nat, IsFiniteSet(taken), NEW g, Occupies(g, first, last, taken)
    PROVE  \A s \in SUBSET taken : Sound(g[s], first, last, s)
<1> DEFINE T == {t \in SUBSET taken : ~ Sound(g[t], first, last, t)}
<1>1. Sound(g[{}], first, last, {})
  <2> DEFINE r == <<first, last>>
             p == <<r>>
  <2>1. r \in Nat \X Nat /\ r[1] = first /\ r[2] = last OBVIOUS
  <2> HIDE DEF r
  <2>2. p \in Pools /\ Len(p) = 1 /\ p[1] = r BY <2>1 DEF Pools
  <2> HIDE DEF p
  <2>3. DOMAIN p = 1 .. 1 BY <2>2, InFree
  <2>4. WellFormed(p)
    <3>1. \A j \in DOMAIN p : j = 1 BY <2>3
    <3>2. \A j \in DOMAIN p : p[j][1] <= p[j][2] BY <2>1, <2>2, <3>1
    <3>3. \A j, k \in DOMAIN p : ~ (j < k) BY <3>1
    <3>4. QED BY <3>2, <3>3 DEF WellFormed
  <2>5. \A x : x \in FreeAddresses(p) <=> \E i \in 1 .. 1 : x \in p[i][1] .. p[i][2] BY <2>2, InFree
  <2>6. \A x : x \in FreeAddresses(p) <=> x \in first .. last
    <3>1. \A i : i \in 1 .. 1 <=> i = 1 OBVIOUS
    <3>2. 1 \in 1 .. 1 BY <3>1
    <3>3. \A i \in 1 .. 1 : p[i][1] = first /\ p[i][2] = last BY <2>1, <2>2, <3>1
    <3>4. QED BY <2>5, <3>2, <3>3
  <2>7. g[{}] = p BY DEF Occupies, p, r
  <2>8. QED BY <2>2, <2>4, <2>6, <2>7 DEF Sound
<1>2. ASSUME T # {} PROVE FALSE
  <2>1. T \subseteq SUBSET taken OBVIOUS
  <2> HIDE DEF T
  <2>2. PICK t \in T : \A u \in T : ~ (u \subseteq t /\ u # t)
    <3>1. \A S, U : IsFiniteSet(S) /\ U \subseteq SUBSET S /\ U # {}
                     => \E A \in U : \A B \in U : ~ (B \subseteq A /\ B # A)
      BY MinimalSubset
    <3>2. IsFiniteSet(taken) OBVIOUS
    <3>3. QED BY ONLY <1>2, <2>1, <3>1, <3>2
  <2> USE DEF T
  <2>3. t \in SUBSET taken /\ ~ Sound(g[t], first, last, t) BY <2>2
  <2>4. t # {} BY <1>1, <2>3
  <2> DEFINE a == Pick(t)
             u == t \ {a}
  <2>5. a \in t /\ a \in Nat
    <3>1. a \in t BY <2>4, PickIn
    <3> HIDE DEF a
    <3>2. QED BY <2>3, <3>1
  <2>6. u \notin T /\ u \in SUBSET taken BY <2>2, <2>3, <2>5
  <2>7. Sound(g[u], first, last, u) BY <2>6
  <2>8. g[t] = OccupyIp(a, g[u]) BY <2>3, <2>4, <2>7 DEF Occupies
  <2> HIDE DEF a, u, T
  <2>9. /\ g[t] \in Pools /\ WellFormed(g[t])
        /\ FreeAddresses(g[t]) = ((first .. last) \ u) \ {a}
    <3>1. g[u] \in Pools /\ WellFormed(g[u]) /\ FreeAddresses(g[u]) = (first .. last) \ u
      BY <2>7 DEF Sound
    <3>2. QED BY <2>5, <2>8, <3>1, OccupyIpIs
  <2>10. ((first .. last) \ u) \ {a} = (first .. last) \ t BY <2>5 DEF u
  <2>11. QED BY <2>3, <2>9, <2>10 DEF Sound
<1>3. QED BY <1>2

\* The function that CalculatePool is the value of.
IsOccupied(g, base, A) ==
    g = [s \in SUBSET A |-> IF s = {} THEN base ELSE OccupyIp(Pick(s), g[s \ {Pick(s)}])]

\* calculate_pool: the free addresses are those of the range that no port has.
LEMMA CalculatePoolIs ==
    ASSUME NEW first \in Nat, NEW last \in Nat, first <= last,
           NEW taken \in SUBSET Nat, IsFiniteSet(taken)
    PROVE  Sound(CalculatePool(first, last, taken), first, last, taken)
<1> DEFINE base == <<<<first, last>>>>
           F == [x \in taken \X Pools |-> OccupyIp(x[1], x[2])]
           h == CHOOSE g : IsOccupied(g, base, taken)
<1>1. CalculatePool(first, last, taken) = h[taken]
  BY DEF CalculatePool, FoldSet, MapThenFoldSet, IsOccupied, Pick
<1>2. \E g : IsOccupied(g, base, taken)
  <2>1. PICK g : IsFold(g, F, base, taken)
    <3> HIDE DEF F, base
    <3>1. QED BY FoldExists
  <2>2. g[{}] = base BY <2>1 DEF IsFold
  <2>3. \A s \in SUBSET taken : s # {} => g[s] = F[<<Pick(s), g[s \ {Pick(s)}]>>]
    <3> HIDE DEF F, base
    <3>1. QED BY <2>1 DEF IsFold
  <2>4. ASSUME NEW s \in SUBSET taken, s # {}, g[s \ {Pick(s)}] \in Pools
        PROVE  g[s] = OccupyIp(Pick(s), g[s \ {Pick(s)}])
    <3>1. Pick(s) \in taken BY <2>4, PickIn
    <3>2. <<Pick(s), g[s \ {Pick(s)}]>> \in taken \X Pools BY <2>4, <3>1
    <3>3. F[<<Pick(s), g[s \ {Pick(s)}]>>] = OccupyIp(Pick(s), g[s \ {Pick(s)}]) BY <3>2
    <3>4. QED BY <2>3, <2>4, <3>3
  <2>5. \A s \in SUBSET taken : s # {} /\ Sound(g[s \ {Pick(s)}], first, last, s \ {Pick(s)})
            => g[s] = OccupyIp(Pick(s), g[s \ {Pick(s)}])
    BY <2>4 DEF Sound
  <2>6. \A s \in SUBSET taken : Sound(g[s], first, last, s) BY <2>2, <2>5, OccupiedSound DEF Occupies
  <2>7. \A s \in SUBSET taken : g[s] \in Pools BY <2>6 DEF Sound
  <2>8. \A s \in SUBSET taken : s # {} => g[s] = OccupyIp(Pick(s), g[s \ {Pick(s)}]) BY <2>4, <2>7
  <2>9. g = [s \in SUBSET taken |-> g[s]]
    <3> HIDE DEF F, base
    <3>1. QED BY <2>1 DEF IsFold
  <2> HIDE DEF F, base
  <2>10. g = [s \in SUBSET taken |-> IF s = {} THEN base ELSE OccupyIp(Pick(s), g[s \ {Pick(s)}])]
    BY <2>2, <2>8, <2>9
  <2>11. QED BY <2>10 DEF IsOccupied
<1>3. IsOccupied(h, base, taken) BY <1>2
<1> HIDE DEF h, F, base
<1>4. h[{}] = base /\ \A s \in SUBSET taken : s # {} => h[s] = OccupyIp(Pick(s), h[s \ {Pick(s)}])
  BY <1>3 DEF IsOccupied
<1>5. \A s \in SUBSET taken : Sound(h[s], first, last, s) BY <1>4, OccupiedSound DEF base, Occupies
<1>6. QED BY <1>1, <1>5

-----------------------------------------------------------------------------
\* Types.

\* Whatever a pool holds, occupy_ip and deallocate_ip yield intervals of addresses.
LEMMA PoolsTyped ==
    ASSUME NEW pool \in Pools, NEW a \in Nat
    PROVE  OccupyIp(a, pool) \in Pools /\ DeallocateIp(a, pool) \in Pools
<1>1. /\ Len(pool) \in Nat /\ \A j \in 1 .. Len(pool) : pool[j][1] \in Nat /\ pool[j][2] \in Nat
  BY InFree
<1>2. \A i \in 1 .. Len(pool), r \in Nat \X Nat :
         ReplaceAt(pool, i, r) \in Pools /\ Len(ReplaceAt(pool, i, r)) = Len(pool)
  BY ExceptSeq DEF ReplaceAt, Pools
<1>3. \A q \in Pools : \A i \in 1 .. Len(q) : RemoveAt(q, i) \in Pools BY RemoveAtIs DEF Pools
<1>4. \A q \in Pools : \A i \in 1 .. Len(q) + 1, r \in Nat \X Nat : InsertAt(q, i, r) \in Pools
  BY InsertAtIs DEF Pools
<1>5. OccupyIp(a, pool) \in Pools
  <2> DEFINE I == {j \in 1 .. Len(pool) : a \in pool[j][1] .. pool[j][2]}
             i == IF I # {} THEN Min(I) ELSE 0
             s == pool[i][1]
             e == pool[i][2]
  <2>1. OccupyIp(a, pool) =
          IF i = 0 THEN pool
          ELSE IF s = e THEN RemoveAt(pool, i)
          ELSE IF a = s THEN ReplaceAt(pool, i, <<s + 1, e>>)
          ELSE IF a = e THEN ReplaceAt(pool, i, <<s, e - 1>>)
          ELSE InsertAt(ReplaceAt(pool, i, <<s, a - 1>>), i + 1, <<a + 1, e>>)
    BY DEF OccupyIp, SelectInSeq
  <2>2. CASE I = {} BY <2>1, <2>2
  <2>3. CASE I # {}
    <3>1. i \in I
      <4>1. I \in SUBSET Nat BY <1>1
      <4>2. QED BY <2>3, <4>1, MinIsLeast
    <3> HIDE DEF i
    <3>2. i \in 1 .. Len(pool) /\ s \in Nat /\ e \in Nat /\ s <= a /\ a <= e /\ i # 0 BY <1>1, <3>1
    <3> HIDE DEF I, s, e
    <3>3. CASE s = e BY <1>3, <2>1, <3>2, <3>3
    <3>4. CASE s # e /\ a = s
      <4>1. <<s + 1, e>> \in Nat \X Nat BY <3>2
      <4>2. QED BY <1>2, <2>1, <3>2, <3>4, <4>1
    <3>5. CASE s # e /\ a # s /\ a = e
      <4>1. <<s, e - 1>> \in Nat \X Nat BY <3>2, <3>5
      <4>2. QED BY <1>2, <2>1, <3>2, <3>5, <4>1
    <3>6. CASE s # e /\ a # s /\ a # e
      <4> DEFINE q == ReplaceAt(pool, i, <<s, a - 1>>)
      <4>1. <<s, a - 1>> \in Nat \X Nat /\ <<a + 1, e>> \in Nat \X Nat BY <3>2, <3>6
      <4>2. q \in Pools /\ Len(q) = Len(pool) BY <1>2, <3>2, <4>1
      <4>3. OccupyIp(a, pool) = InsertAt(q, i + 1, <<a + 1, e>>) BY <2>1, <3>2, <3>6
      <4> HIDE DEF q
      <4>4. i + 1 \in 1 .. Len(q) + 1 BY <1>1, <3>2, <4>2
      <4>5. QED BY <1>4, <4>1, <4>2, <4>3, <4>4
    <3>7. QED BY <3>3, <3>4, <3>5, <3>6
  <2>4. QED BY <2>2, <2>3
<1>6. DeallocateIp(a, pool) \in Pools
  <2> DEFINE Hit(r) == a < r[1] \/ a = r[2] + 1 \/ (r[1] < a /\ a < r[2])
             I == {j \in 1 .. Len(pool) : Hit(pool[j])}
             i == IF I # {} THEN Min(I) ELSE 0
             s == pool[i][1]
             e == pool[i][2]
  <2>1. DeallocateIp(a, pool) =
          IF i = 0 THEN Append(pool, <<a, a>>)
          ELSE IF a < s - 1 THEN InsertAt(pool, i, <<a, a>>)
          ELSE IF a = s - 1 THEN ReplaceAt(pool, i, <<a, e>>)
          ELSE IF a # e + 1 THEN pool
          ELSE IF i < Len(pool) /\ pool[i + 1][1] = a + 1
               THEN RemoveAt(ReplaceAt(pool, i, <<s, pool[i + 1][2]>>), i + 1)
          ELSE ReplaceAt(pool, i, <<s, a>>)
    BY DEF DeallocateIp, SelectInSeq
  <2>2. <<a, a>> \in Nat \X Nat OBVIOUS
  <2>3. CASE I = {}
    <3>1. DeallocateIp(a, pool) = Append(pool, <<a, a>>) BY <2>1, <2>3
    <3>2. QED BY <2>2, <3>1, AppendProperties DEF Pools
  <2>4. CASE I # {}
    <3>1. i \in I
      <4>1. I \in SUBSET Nat BY <1>1
      <4>2. QED BY <2>4, <4>1, MinIsLeast
    <3> HIDE DEF i
    <3>2. i \in 1 .. Len(pool) /\ s \in Nat /\ e \in Nat /\ i # 0 BY <1>1, <3>1
    <3> HIDE DEF I, s, e, Hit
    <3>3. <<a, e>> \in Nat \X Nat /\ <<s, a>> \in Nat \X Nat BY <3>2
    <3>4. i \in 1 .. Len(pool) + 1 BY <1>1, <3>2
    <3>5. CASE a < s - 1 BY <1>4, <2>1, <2>2, <3>2, <3>4, <3>5
    <3>6. CASE ~ (a < s - 1) /\ a = s - 1 BY <1>2, <2>1, <3>2, <3>3, <3>6
    <3>7. CASE ~ (a < s - 1) /\ a # s - 1 /\ a # e + 1 BY <2>1, <3>2, <3>7
    <3>8. CASE /\ ~ (a < s - 1) /\ a # s - 1 /\ a = e + 1
               /\ i < Len(pool) /\ pool[i + 1][1] = a + 1
      <4> DEFINE k == i + 1
                 r == <<s, pool[k][2]>>
                 q == ReplaceAt(pool, i, r)
      <4>1. k \in 1 .. Len(pool) BY <1>1, <3>2, <3>8
      <4>2. r \in Nat \X Nat BY <1>1, <3>2, <4>1
      <4>3. DeallocateIp(a, pool) = RemoveAt(q, k) BY <2>1, <3>2, <3>8
      <4> HIDE DEF r, k
      <4>4. q \in Pools /\ Len(q) = Len(pool) BY <1>2, <3>2, <4>2
      <4> HIDE DEF q
      <4>5. QED BY <1>3, <4>1, <4>3, <4>4
    <3>9. CASE /\ ~ (a < s - 1) /\ a # s - 1 /\ a = e + 1
               /\ ~ (i < Len(pool) /\ pool[i + 1][1] = a + 1)
      <4>1. DeallocateIp(a, pool) = ReplaceAt(pool, i, <<s, a>>) BY <2>1, <3>2, <3>9
      <4>2. QED BY <1>2, <3>2, <3>3, <4>1
    <3>10. QED BY <3>5, <3>6, <3>7, <3>8, <3>9
  <2>5. QED BY <2>3, <2>4
<1>7. QED BY <1>5, <1>6

\* The last port that was made is in the map.
IterOK(i) == i \in Iterations /\ (i.last # None => i.map[i.last] # None)

NetworkTyped == NetworkTypeOK /\ (iter # None => IterOK(iter))

\* What the fields of an iteration are.
LEMMA IterFields ==
    ASSUME NEW i, IterOK(i)
    PROVE  /\ i.pool \in Pools /\ i.map \in Ports /\ i.new \subseteq PortIds /\ i.taken \subseteq Nat
           /\ i.todo \subseteq Nodes /\ i.learn \subseteq PortIds /\ i.aborted \in BOOLEAN
           /\ i.last \in PortIds \union {None}
           /\ \A p \in PortIds : i.map[p] # None => i.map[p] \in PortRows
           /\ \A p \in Rows(i.map) : i.map[p].ip \in Nat /\ i.map[p].node \in Nodes
           /\ i.last # None => i.last \in Rows(i.map)
<1>1. /\ i.pool \in Pools /\ i.map \in Ports /\ i.new \subseteq PortIds /\ i.taken \subseteq Nat
      /\ i.todo \subseteq Nodes /\ i.learn \subseteq PortIds /\ i.aborted \in BOOLEAN
      /\ i.last \in PortIds \union {None}
  BY DEF IterOK, Iterations, Pools
<1>2. \A p \in PortIds : i.map[p] # None => i.map[p] \in PortRows BY <1>1 DEF Ports
<1>3. \A p \in Rows(i.map) : i.map[p].ip \in Nat /\ i.map[p].node \in Nodes
  BY <1>2 DEF Rows, PortRows
<1>4. i.last # None => i.last \in Rows(i.map) BY <1>1 DEF IterOK, Rows
<1>5. QED BY <1>1, <1>2, <1>3, <1>4

\* The handler of a failed allocation changes the pool only.
LEMMA HandledIs ==
    ASSUME NEW i, IterOK(i), i.last # None
    PROVE  /\ IterOK(Handled(i))
           /\ Handled(i).map = i.map /\ Handled(i).last = i.last /\ Handled(i).taken = i.taken
           /\ Handled(i).pool = DeallocateIp(i.map[i.last].ip, i.pool)
<1> DEFINE d == DeallocateIp(i.map[i.last].ip, i.pool)
<1>1. d \in Pools BY IterFields, PoolsTyped
<1>2. Handled(i) = [i EXCEPT !.pool = d] BY DEF Handled
<1> HIDE DEF d
<1>3. QED BY <1>1, <1>2 DEF IterOK, Iterations, Pools, d

\* A port is added to the map, and becomes the last one that was made.
Listed(i, p, row, pool) ==
    [[i EXCEPT !.pool = pool] EXCEPT !.map[p] = row, !.last = p]

Inserted(i, p, row, pool) ==
    [Listed(i, p, row, pool) EXCEPT !.new = @ \union {p}]

\* Both leave the fields of an iteration as they should be.
LEMMA ListedIs ==
    ASSUME NEW i, IterOK(i), NEW p \in PortIds, NEW row \in PortRows, NEW pool \in Pools,
           NEW k \in {Listed(i, p, row, pool), Inserted(i, p, row, pool)}
    PROVE  /\ IterOK(k) /\ k.pool = pool /\ k.taken = i.taken /\ k.last = p
           /\ k.map = [i.map EXCEPT ![p] = row]
<1> DEFINE m == [i.map EXCEPT ![p] = row]
           j == [i EXCEPT !.pool = pool]
           l == Listed(i, p, row, pool)
           o == Inserted(i, p, row, pool)
<1>1. row # None BY NetworkAssumption
<1>2. m \in Ports /\ m[p] = row BY IterFields DEF Ports
<1>3. /\ j \in Iterations /\ j.map = i.map /\ j.pool = pool /\ j.taken = i.taken
  BY DEF IterOK, Iterations, Pools
<1>4. l = [j EXCEPT !.map[p] = row, !.last = p] BY DEF Listed
<1> HIDE DEF j, l
<1>5. l = [j EXCEPT !.map = m, !.last = p] BY <1>3, <1>4 DEF Iterations
<1> HIDE DEF m
<1>6. /\ l \in Iterations /\ l.map = m /\ l.last = p /\ l.pool = pool /\ l.taken = i.taken
  BY <1>2, <1>3, <1>5 DEF Iterations
<1>7. o = [l EXCEPT !.new = @ \union {p}] BY DEF Inserted, l
<1> HIDE DEF o
<1>8. /\ o \in Iterations /\ o.map = m /\ o.last = p /\ o.pool = pool /\ o.taken = i.taken
  <2> DEFINE new == l.new \union {p}
  <2>1. new \in SUBSET PortIds BY <1>6 DEF Iterations
  <2>2. o = [l EXCEPT !.new = new] BY <1>6, <1>7 DEF Iterations
  <2> HIDE DEF new
  <2>3. QED BY <1>6, <2>1, <2>2 DEF Iterations
<1>9. IterOK(l) /\ IterOK(o) BY <1>1, <1>2, <1>6, <1>8 DEF IterOK
<1>10. k = l \/ k = o BY DEF l, o
<1>11. QED BY <1>6, <1>8, <1>9, <1>10 DEF m

\* The address that the next node gets.
Next1(n, i) ==
    AllocateIp(i.pool, IF node[n] = None THEN None ELSE node[n].target, None).ip

\* What an attempt for the node n makes of the iteration i: a failure before the name `port`
\* is bound anew, a failing insert, a port.
Attempted(n, i, j) ==
    /\ IterOK(j) /\ j.taken = i.taken
    /\ \/ /\ i.pool = <<>> /\ i.last # None /\ j.last = i.last /\ j.map = i.map
          /\ j.pool = DeallocateIp(i.map[i.last].ip, i.pool)
       \/ /\ i.pool # <<>> /\ i.last # None /\ j.last = i.last /\ j.map = i.map
          /\ j.pool = DeallocateIp(i.map[i.last].ip, OccupyIp(Next1(n, i), i.pool))
       \/ /\ i.pool # <<>> /\ j.last = Fresh /\ j.map = [i.map EXCEPT ![Fresh] = NewPort(n, Next1(n, i))]
          /\ \/ j.pool = DeallocateIp(Next1(n, i), OccupyIp(Next1(n, i), i.pool))
             \/ j.pool = OccupyIp(Next1(n, i), i.pool)

\* A fresh id is one of the ids, and not in the map.
LEMMA FreshIs ==
    ASSUME FreshIds # {}
    PROVE  Fresh \in PortIds /\ port[Fresh] = None /\ iter.map[Fresh] = None
<1>1. Fresh \in FreshIds BY DEF Fresh
<1> HIDE DEF Fresh
<1>2. QED BY <1>1 DEF FreshIds

\* A pool that is not empty has a first address.
LEMMA NextTyped ==
    ASSUME NetworkTyped, NEW n \in Nodes, NEW i, IterOK(i), i.pool # <<>>
    PROVE  /\ Next1(n, i) \in Nat
           /\ NewPort(n, Next1(n, i)) \in PortRows
           /\ i.pool[1][1] \in Nat /\ 1 \in 1 .. Len(i.pool)
<1>1. i.pool \in Pools BY IterFields
<1>2. 1 \in 1 .. Len(i.pool)
  <2>1. Len(i.pool) # 0 BY <1>1, EmptySeq DEF Pools
  <2>2. QED BY <1>1, <2>1, InFree
<1>3. i.pool[1][1] \in Nat BY <1>1, <1>2, InFree
<1>4. node[n] # None => node[n].target \in Nat \union {None}
  BY NetworkAssumption DEF NetworkTyped, NetworkTypeOK, NodeRows
<1>5. Next1(n, i) \in Nat BY <1>3, <1>4 DEF Next1, AllocateIp
<1> HIDE DEF Next1
<1>6. (node[n] # None /\ node[n].target # None) \in BOOLEAN OBVIOUS
<1>7. NewPort(n, Next1(n, i)) \in PortRows BY <1>5, <1>6 DEF NewPort, PortRows
<1>8. QED BY <1>2, <1>3, <1>5, <1>7

\* Allocated is an attempt (_allocate_port, insert and the handler).
LEMMA AllocatedIs ==
    ASSUME NetworkTyped, iter # None, FreshIds # {}, NEW n \in Nodes, NEW i, IterOK(i),
           NEW j \in Allocated(n, i), j # None
    PROVE  Attempted(n, i, j)
<1> DEFINE target == IF node[n] = None THEN None ELSE node[n].target
           got    == AllocateIp(i.pool, target, None)
           drawn  == [i EXCEPT !.pool = got.pool]
           listed == [drawn EXCEPT !.map[Fresh] = NewPort(n, got.ip), !.last = Fresh]
           failed == [Handled(listed) EXCEPT !.aborted = TRUE]
           made1  == [listed EXCEPT !.new = @ \union {Fresh}]
<1>1. CASE i.pool = <<>>
  <2>1. j = Handled(i) BY <1>1 DEF Allocated
  <2>2. i.last # None BY <2>1 DEF Handled
  <2>3. QED BY <1>1, <2>1, <2>2, HandledIs DEF Attempted
<1>2. CASE i.pool # <<>>
  <2>1. j = Handled(drawn) \/ j = failed \/ j = made1 BY <1>2 DEF Allocated
  <2>2. got.ip = Next1(n, i) /\ got.pool = OccupyIp(Next1(n, i), i.pool) BY DEF Next1, AllocateIp
  <2>3. Next1(n, i) \in Nat /\ NewPort(n, Next1(n, i)) \in PortRows BY <1>2, NextTyped
  <2> HIDE DEF got, target
  <2>4. got.pool \in Pools BY <2>2, <2>3, IterFields, PoolsTyped
  <2>5. Fresh \in PortIds /\ Fresh # None BY FreshIs, NetworkAssumption
  <2>6. IterOK(drawn) /\ drawn.pool = got.pool /\ drawn.map = i.map /\ drawn.last = i.last /\ drawn.taken = i.taken
    BY <2>4 DEF IterOK, Iterations, Pools
  <2>7. /\ IterOK(listed) /\ listed.pool = got.pool /\ listed.taken = i.taken /\ listed.last = Fresh
        /\ listed.map = [i.map EXCEPT ![Fresh] = NewPort(n, got.ip)]
        /\ IterOK(made1) /\ made1.pool = got.pool /\ made1.taken = i.taken /\ made1.last = Fresh
        /\ made1.map = [i.map EXCEPT ![Fresh] = NewPort(n, got.ip)]
    <3> DEFINE q == got.pool
               row == NewPort(n, got.ip)
    <3>1. q \in Pools /\ row \in PortRows BY <2>2, <2>3, <2>4
    <3> HIDE DEF q, row
    <3>2. listed = Listed(i, Fresh, row, q) /\ made1 = Inserted(i, Fresh, row, q)
      BY DEF Listed, Inserted, q, row
    <3> HIDE DEF listed, made1
    <3>3. listed \in {Listed(i, Fresh, row, q), Inserted(i, Fresh, row, q)} BY <3>2
    <3>4. made1 \in {Listed(i, Fresh, row, q), Inserted(i, Fresh, row, q)} BY <3>2
    <3>5. /\ IterOK(listed) /\ listed.pool = q /\ listed.taken = i.taken /\ listed.last = Fresh
          /\ listed.map = [i.map EXCEPT ![Fresh] = row]
      BY <2>5, <3>1, <3>3, ListedIs
    <3>6. /\ IterOK(made1) /\ made1.pool = q /\ made1.taken = i.taken /\ made1.last = Fresh
          /\ made1.map = [i.map EXCEPT ![Fresh] = row]
      BY <2>5, <3>1, <3>4, ListedIs
    <3>7. QED BY <3>5, <3>6 DEF q, row
  <2> HIDE DEF drawn, made1
  <2>8. CASE j = Handled(drawn)
    <3>1. drawn.last # None BY <2>8 DEF Handled
    <3>2. /\ IterOK(j) /\ j.map = drawn.map /\ j.last = drawn.last /\ j.taken = drawn.taken
          /\ j.pool = DeallocateIp(drawn.map[drawn.last].ip, drawn.pool)
      BY <2>6, <2>8, <3>1, HandledIs
    <3>3. QED BY <1>2, <2>2, <2>6, <3>1, <3>2 DEF Attempted
  <2>9. CASE j = failed
    <3> DEFINE h == Handled(listed)
    <3> HIDE DEF listed
    <3>1. /\ IterOK(h) /\ h.map = listed.map /\ h.last = listed.last /\ h.taken = listed.taken
          /\ h.pool = DeallocateIp(listed.map[listed.last].ip, listed.pool)
      BY <2>5, <2>7, HandledIs
    <3>2. j = [h EXCEPT !.aborted = TRUE] BY <2>9
    <3> HIDE DEF h
    <3>3. /\ IterOK(j) /\ j.map = h.map /\ j.last = h.last /\ j.taken = h.taken /\ j.pool = h.pool
      BY <3>1, <3>2 DEF IterOK, Iterations
    <3>4. listed.map[Fresh].ip = Next1(n, i)
      <4>1. listed.map[Fresh] = NewPort(n, got.ip) BY <2>5, <2>7, IterFields DEF Ports
      <4>2. QED BY <2>2, <4>1 DEF NewPort
    <3>5. QED BY <1>2, <2>2, <2>7, <3>1, <3>3, <3>4 DEF Attempted
  <2>10. CASE j = made1 BY <1>2, <2>2, <2>7, <2>10 DEF Attempted
  <2>11. QED BY <2>1, <2>8, <2>9, <2>10
<1>3. QED BY <1>1, <1>2

\* Taking a node from the list leaves the rest of the iteration.
LEMMA RestIs ==
    ASSUME NEW i, IterOK(i), NEW n
    PROVE  LET r == [i EXCEPT !.todo = @ \ {n}]
           IN  IterOK(r) /\ r.map = i.map /\ r.pool = i.pool /\ r.taken = i.taken /\ r.last = i.last
<1> DEFINE t == i.todo \ {n}
           r == [i EXCEPT !.todo = t]
<1>1. t \in SUBSET Nodes BY IterFields
<1>2. [i EXCEPT !.todo = @ \ {n}] = r OBVIOUS
<1> HIDE DEF t
<1>3. r \in Iterations /\ r.map = i.map /\ r.pool = i.pool /\ r.taken = i.taken /\ r.last = i.last
  BY <1>1 DEF IterOK, Iterations
<1> HIDE DEF r
<1>4. QED BY <1>2, <1>3 DEF IterOK

\* What the attempt for a hardware node makes of the iteration i.
HwAttempted(n, i, j) ==
    /\ IterOK(j) /\ j.taken = i.taken /\ j.last = i.last
    /\ \/ j.pool = i.pool /\ j.map = i.map
       \/ /\ i.pool # <<>> /\ j.pool = OccupyIp(i.pool[1][1], i.pool)
          /\ \/ j.map = i.map
             \/ j.map = [i.map EXCEPT ![Fresh] = NewPort(n, i.pool[1][1])]

\* AllocateHw is one (_iteration, allocate_ip and insert of hardware ports).
LEMMA AllocateHwIs ==
    ASSUME NetworkTyped, NEW n \in Nodes, AllocateHw(n)
    PROVE  HwAttempted(n, iter, iter')
<1> DEFINE rest == [iter EXCEPT !.todo = @ \ {n}]
           got == AllocateIp(iter.pool, None, None)
           q == got.pool
           row == NewPort(n, got.ip)
           lost == [rest EXCEPT !.pool = q, !.aborted = TRUE]
           won == [rest EXCEPT !.pool = q, !.map[Fresh] = row, !.new = @ \union {Fresh}]
<1>1. iter # None /\ FreshIds # {} /\ IterOK(iter) BY DEF AllocateHw, NetworkTyped
<1>2. IterOK(rest) /\ rest.map = iter.map /\ rest.pool = iter.pool /\ rest.taken = iter.taken /\ rest.last = iter.last
  BY <1>1, RestIs
<1>3. CASE iter.pool = <<>>
  <2>1. iter' = rest BY <1>3 DEF AllocateHw
  <2> HIDE DEF rest
  <2>2. QED BY <1>2, <2>1 DEF HwAttempted
<1>4. CASE iter.pool # <<>>
  <2>1. iter' = lost \/ iter' = won BY <1>4 DEF AllocateHw
  <2>2. got.ip = iter.pool[1][1] /\ q = OccupyIp(iter.pool[1][1], iter.pool) BY DEF AllocateIp
  <2>3. iter.pool[1][1] \in Nat BY <1>1, <1>4, NextTyped
  <2>4. q \in Pools BY <1>1, <2>2, <2>3, IterFields, PoolsTyped
  <2>5. row \in PortRows
    <3>1. (node[n] # None /\ node[n].target # None) \in BOOLEAN OBVIOUS
    <3>2. QED BY <2>2, <2>3, <3>1 DEF NewPort, PortRows
  <2>6. Fresh \in PortIds /\ iter.map[Fresh] = None BY <1>1, FreshIs
  <2>7. row # None BY <2>5, NetworkAssumption
  <2>8. row = NewPort(n, iter.pool[1][1]) BY <2>2
  <2> HIDE DEF got, q, row, rest
  <2>9. CASE iter' = lost
    <3>1. /\ iter' \in Iterations /\ iter'.map = rest.map /\ iter'.pool = q
          /\ iter'.taken = rest.taken /\ iter'.last = rest.last
      BY <1>2, <2>4, <2>9 DEF IterOK, Iterations, Pools
    <3>2. IterOK(iter') BY <1>2, <3>1 DEF IterOK
    <3>3. QED BY <1>2, <1>4, <2>2, <3>1, <3>2 DEF HwAttempted
  <2>10. CASE iter' = won
    <3> DEFINE m == [rest.map EXCEPT ![Fresh] = row]
               new == rest.new \union {Fresh}
    <3>1. m \in Ports /\ new \in SUBSET PortIds /\ \A p \in PortIds : m[p] = IF p = Fresh THEN row ELSE rest.map[p]
      BY <1>2, <2>5, <2>6, IterFields DEF Ports
    <3>2. iter' = [rest EXCEPT !.pool = q, !.map = m, !.new = new]
      BY <1>2, <2>10 DEF IterOK, Iterations
    <3> HIDE DEF m, new
    <3>3. /\ iter' \in Iterations /\ iter'.map = m /\ iter'.pool = q
          /\ iter'.taken = rest.taken /\ iter'.last = rest.last
      BY <1>2, <2>4, <3>1, <3>2 DEF IterOK, Iterations, Pools
    <3>4. rest.last # None => rest.last \in PortIds /\ rest.map[rest.last] # None
      BY <1>2, IterFields DEF IterOK
    <3>5. IterOK(iter') BY <2>7, <3>1, <3>3, <3>4 DEF IterOK
    <3>6. QED BY <1>2, <1>4, <2>2, <2>8, <3>3, <3>5 DEF HwAttempted, m
  <2>11. QED BY <2>1, <2>9, <2>10
<1>5. QED BY <1>3, <1>4

\* Snapshot starts with the addresses that are not taken.
LEMMA SnapshotIs ==
    ASSUME NetworkTyped, Snapshot
    PROVE  /\ IterOK(iter') /\ iter'.last = None
           /\ Sound(iter'.pool, FirstIp, LastIp, iter'.taken)
<1>1. port \in Ports /\ reserved \subseteq FirstIp .. LastIp BY DEF NetworkTyped, NetworkTypeOK
<1>2. \A p \in Rows(port) : port[p].ip \in Nat /\ p \in PortIds BY <1>1 DEF Rows, Ports, PortRows
<1>3. Taken \subseteq Nat
  <2>1. \A x \in FirstIp .. LastIp : x \in Nat BY NetworkAssumption
  <2>2. reserved \subseteq Nat BY <1>1, <2>1
  <2>3. QED BY <1>2, <2>2 DEF Taken
<1>4. IsFiniteSet(Taken)
  <2>1. IsFiniteSet(FirstIp .. LastIp) BY NetworkAssumption, FS_Interval
  <2>2. IsFiniteSet(reserved) BY <1>1, <2>1, FS_Subset
  <2>3. Rows(port) \subseteq PortIds BY DEF Rows
  <2>4. IsFiniteSet(Rows(port)) BY <2>3, NetworkAssumption, FS_Subset
  <2>5. IsFiniteSet({port[p].ip : p \in Rows(port)})
    <3> DEFINE R == Rows(port)
               A == {port[p].ip : p \in R}
               f == [p \in R |-> port[p].ip]
    <3>1. f \in Surjection(R, A) BY DEF Surjection
    <3> HIDE DEF f, A
    <3>2. IsFiniteSet(A) BY <2>4, <3>1, FS_Surjection
    <3>3. QED BY <3>2 DEF A
  <2>6. QED BY <2>2, <2>5, FS_Union DEF Taken
<1> DEFINE p0 == CalculatePool(FirstIp, LastIp, Taken)
           todo == WithoutPorts(VmNodes) \union NewHwPorts
<1>5. Sound(p0, FirstIp, LastIp, Taken) BY <1>3, <1>4, NetworkAssumption, CalculatePoolIs
<1>6. todo \in SUBSET Nodes BY DEF WithoutPorts, NewHwPorts, Nodes
<1>7. p0 \in Seq(Nat \X Nat) BY <1>5 DEF Sound, Pools
<1>8. iter' = [stage |-> "allocate", todo |-> todo, map |-> port, new |-> {}, pool |-> p0,
               taken |-> Taken, last |-> None, aborted |-> FALSE, learn |-> {}]
  BY DEF Snapshot
<1> HIDE DEF p0, todo
<1>9. iter' \in Iterations /\ iter'.last = None /\ iter'.pool = p0 /\ iter'.taken = Taken
  BY <1>1, <1>3, <1>6, <1>7, <1>8 DEF Iterations
<1>10. QED BY <1>5, <1>9 DEF IterOK

\* What DataPlane does to the iteration, and to DHCP.
LEMMA DataPlaneIs ==
    ASSUME NetworkTyped, NEW a \in BOOLEAN, NEW b \in BOOLEAN, DataPlane(a, b)
    PROVE  /\ IterOK(iter') /\ iter'.taken = iter.taken /\ iter'.last = iter.last
           /\ iter'.pool = iter.pool /\ iter'.new = iter.new /\ iter'.aborted = iter.aborted
           /\ iter'.todo = iter.todo
           /\ \A p \in PortIds : /\ iter'.map[p] # None <=> iter.map[p] # None
                                 /\ iter.map[p] # None => /\ iter'.map[p].ip = iter.map[p].ip
                                                          /\ iter'.map[p].node = iter.map[p].node
                                                          /\ iter'.map[p].asked = iter.map[p].asked
           /\ dhcp' \in [cfg : Hosts, ctx : Hosts, fits : BOOLEAN] /\ faults' \in Nat
<1> DEFINE actual == LoadCtx(dhcp)
           known  == {h[1] : h \in actual}
           target == Rows(iter.map)
           create == target \ known
           after  == CreatePorts(dhcp, create, a)
           active == (target \intersect known) \union (IF a THEN create ELSE {})
           first  == {p \in IF a THEN create ELSE {} :
                         node[iter.map[p].node] # None /\ node[iter.map[p].node].net = None}
           m == [p \in PortIds |-> IF p \in active
                                   THEN [iter.map[p] EXCEPT !.status = "ACTIVE"] ELSE iter.map[p]]
           Dhcp == [cfg : Hosts, ctx : Hosts, fits : BOOLEAN]
<1>1. iter # None /\ IterOK(iter) BY DEF DataPlane, NetworkTyped
<1>2. target \subseteq PortIds /\ active \subseteq target /\ first \subseteq PortIds /\ create \subseteq target
  BY DEF Rows
<1>3. dhcp \in Dhcp /\ faults \in Nat BY DEF NetworkTyped, NetworkTypeOK
<1>4. \A d \in Dhcp : LoadCtx(d) \in Hosts
  <2>1. None \in Hosts BY DEF Hosts
  <2>2. QED BY <2>1 DEF LoadCtx
<1>5. \A d \in Dhcp, c \in Hosts : ApplyCfg(d, c, a) \in Dhcp /\ ApplyCfg(d, c, b) \in Dhcp BY DEF ApplyCfg
<1>6. {} \in Hosts BY DEF Hosts
<1>7. faults' \in Nat BY <1>3 DEF DataPlane
<1>8. CASE actual = None
  <2>1. dhcp' = ApplyCfg(dhcp, {}, a) /\ iter' = [iter EXCEPT !.stage = "commit"]
    BY <1>8 DEF DataPlane, CreateSubnet
  <2>2. dhcp' \in Dhcp BY <1>3, <1>5, <1>6, <2>1
  <2>3. /\ iter' \in Iterations /\ iter'.taken = iter.taken /\ iter'.last = iter.last
        /\ iter'.pool = iter.pool /\ iter'.map = iter.map /\ iter'.new = iter.new
        /\ iter'.aborted = iter.aborted /\ iter'.todo = iter.todo
    BY <1>1, <2>1 DEF IterOK, Iterations
  <2>4. IterOK(iter') BY <1>1, <2>3 DEF IterOK
  <2>5. QED BY <1>7, <2>2, <2>3, <2>4
<1>9. CASE actual # None
  <2>1. /\ dhcp' = DeletePorts(after, {h \in actual : h[1] \notin target}, b)
        /\ iter' = [iter EXCEPT !.stage = "commit", !.learn = first, !.map = m]
    BY <1>9 DEF DataPlane
  <2>2. after \in Dhcp
    <3>1. CASE create = {} BY <1>3, <3>1 DEF CreatePorts
    <3>2. CASE create # {}
      <4> DEFINE c == actual \union {Host(p) : p \in create}
      <4>1. actual \subseteq PortIds \X Nat BY <1>3, <1>4, <1>9 DEF Hosts
      <4>2. \A p \in create : Host(p) \in PortIds \X Nat
        <5>1. \A p \in create : p \in PortIds /\ iter.map[p].ip \in Nat BY <1>1, <1>2, IterFields
        <5>2. QED BY <5>1 DEF Host
      <4>3. c \in Hosts BY <4>1, <4>2 DEF Hosts
      <4>4. after = ApplyCfg(dhcp, c, a) BY <3>2 DEF CreatePorts
      <4> HIDE DEF c, after
      <4>5. QED BY <1>3, <1>5, <4>3, <4>4
    <3>3. QED BY <3>1, <3>2
  <2> DEFINE gone == {h \in actual : h[1] \notin target}
  <2> HIDE DEF after, gone
  <2>3. dhcp' \in Dhcp
    <3>1. CASE gone = {} BY <2>1, <2>2, <3>1 DEF DeletePorts, gone
    <3>2. CASE gone # {}
      <4> DEFINE c == IF LoadCtx(after) = None THEN None ELSE LoadCtx(after) \ gone
      <4>1. LoadCtx(after) \in Hosts BY <1>4, <2>2
      <4>2. c \in Hosts BY <4>1 DEF Hosts
      <4>3. dhcp' = ApplyCfg(after, c, b) BY <2>1, <3>2 DEF DeletePorts, gone
      <4> HIDE DEF c
      <4>4. QED BY <1>5, <2>2, <4>2, <4>3
    <3>3. QED BY <3>1, <3>2
  <2>4. \A p \in target : iter.map[p] \in PortRows BY <1>1, <1>2, IterFields DEF Rows
  <2> HIDE DEF target, first
  <2>5. \A p \in active : /\ m[p] \in PortRows /\ m[p].ip = iter.map[p].ip
                          /\ m[p].node = iter.map[p].node /\ m[p].asked = iter.map[p].asked
    <3> HIDE DEF active
    <3>1. QED BY <1>2, <2>4 DEF PortRows
  <2>6. \A p \in PortIds : p \notin active => m[p] = iter.map[p] OBVIOUS
  <2>7. \A p \in PortIds : p \in active => iter.map[p] # None BY <1>2 DEF Rows, target
  <2> HIDE DEF active
  <2>8. m \in Ports
    <3>1. \A p \in PortIds : m[p] \in PortRows \union {None}
      BY <1>1, <2>5, <2>6, IterFields
    <3>2. m = [p \in PortIds |-> m[p]] OBVIOUS
    <3> HIDE DEF m
    <3>3. QED BY <3>1, <3>2 DEF Ports
  <2> HIDE DEF m
  <2>9. /\ iter' \in Iterations /\ iter'.taken = iter.taken /\ iter'.last = iter.last
        /\ iter'.pool = iter.pool /\ iter'.map = m /\ iter'.new = iter.new
        /\ iter'.aborted = iter.aborted /\ iter'.todo = iter.todo
    BY <1>1, <1>2, <2>1, <2>8 DEF IterOK, Iterations
  <2>10. \A p \in PortIds : /\ m[p] # None <=> iter.map[p] # None
                            /\ iter.map[p] # None => /\ m[p].ip = iter.map[p].ip
                                                     /\ m[p].node = iter.map[p].node
                                                     /\ m[p].asked = iter.map[p].asked
    BY <2>5, <2>6, <2>7, NetworkAssumption
  <2>11. IterOK(iter')
    <3>1. iter.last # None => iter.last \in PortIds /\ iter.map[iter.last] # None
      BY <1>1, IterFields DEF IterOK
    <3>2. iter.last # None => m[iter.last] # None BY ONLY <2>10, <3>1
    <3>3. QED BY <2>9, <3>2 DEF IterOK
  <2>12. iter'.map = m BY <2>9
  <2>13. \A p \in PortIds : /\ iter'.map[p] # None <=> iter.map[p] # None
                            /\ iter.map[p] # None => /\ iter'.map[p].ip = iter.map[p].ip
                                                     /\ iter'.map[p].node = iter.map[p].node
                                                     /\ iter'.map[p].asked = iter.map[p].asked
    BY ONLY <2>10, <2>12
  <2>14. QED BY ONLY <1>7, <2>3, <2>9, <2>11, <2>13
<1>10. QED BY <1>8, <1>9

\* Commit writes rows of the right type.
LEMMA CommitIs ==
    ASSUME NetworkTyped, Commit
    PROVE  node' \in [Nodes -> NodeRows \union {None}] /\ port' \in Ports
<1>1. iter # None /\ IterOK(iter) BY DEF Commit, NetworkTyped
<1>2. node \in [Nodes -> NodeRows \union {None}] /\ port \in Ports BY DEF NetworkTyped, NetworkTypeOK
<1>3. CASE iter.aborted BY <1>2, <1>3 DEF Commit
<1>4. CASE ~ iter.aborted
  <2>1. port' = [p \in PortIds |-> IF p \in iter.new \/ port[p] # None THEN iter.map[p] ELSE None]
    BY <1>4 DEF Commit
  <2>2. \A p \in PortIds : iter.map[p] \in PortRows \union {None} BY <1>1, IterFields
  <2>3. port' \in Ports BY <2>1, <2>2 DEF Ports
  <2> DEFINE L(n) == \E p \in iter.learn : iter.map[p].node = n
             c(n) == CHOOSE p \in iter.learn : iter.map[p].node = n
  <2>4. node' = [n \in Nodes |-> IF node[n] # None /\ L(n) THEN [node[n] EXCEPT !.net = c(n)] ELSE node[n]]
    BY <1>4 DEF Commit
  <2>5. \A n \in Nodes : L(n) => c(n) \in PortIds BY <1>1, IterFields
  <2> HIDE DEF L, c
  <2>6. \A n \in Nodes : node[n] # None /\ L(n) => [node[n] EXCEPT !.net = c(n)] \in NodeRows
    BY <1>2, <2>5 DEF NodeRows
  <2>7. \A n \in Nodes : node[n] \in NodeRows \union {None} BY <1>2
  <2>8. node' \in [Nodes -> NodeRows \union {None}] BY <2>4, <2>6, <2>7
  <2>9. QED BY <2>3, <2>8
<1>5. QED BY <1>3, <1>4

\* Every step keeps the types.
LEMMA NetworkTypedStep ==
    ASSUME NetworkTyped, [NetworkNext]_networkVars
    PROVE  NetworkTyped'
<1> USE DEF NetworkTyped, NetworkTypeOK
<1>1. ASSUME NEW n \in Nodes, NEW t \in Targets, CreateNode(n, t) PROVE NetworkTyped'
  <2>1. [target |-> t, net |-> None] \in NodeRows BY DEF NodeRows
  <2>2. node' \in [Nodes -> NodeRows \union {None}] BY <1>1, <2>1 DEF CreateNode
  <2>3. QED BY <1>1, <2>2 DEF CreateNode
<1>2. ASSUME NEW n \in Nodes, DeleteNode(n) PROVE NetworkTyped'
  <2>1. port' \in Ports BY <1>2 DEF DeleteNode, Ports
  <2>2. node' \in [Nodes -> NodeRows \union {None}] BY <1>2 DEF DeleteNode
  <2>3. QED BY <1>2, <2>1, <2>2 DEF DeleteNode
<1>3. ASSUME Snapshot PROVE NetworkTyped'
  <2>1. IterOK(iter') BY <1>3, SnapshotIs
  <2>2. QED BY <1>3, <2>1 DEF Snapshot, IterOK
<1>4. ASSUME NEW n \in Nodes, AllocateVm(n) PROVE NetworkTyped'
  <2>1. iter' # None => IterOK(iter')
    <3> DEFINE r == [iter EXCEPT !.todo = @ \ {n}]
    <3>1. iter # None /\ FreshIds # {} /\ iter' \in Allocated(n, r) BY <1>4 DEF AllocateVm
    <3>2. IterOK(r) BY <3>1, RestIs
    <3> HIDE DEF r
    <3>3. iter' # None => Attempted(n, r, iter') BY <3>1, <3>2, AllocatedIs
    <3>4. QED BY <3>3 DEF Attempted
  <2>2. QED BY <1>4, <2>1 DEF AllocateVm, IterOK
<1>5. ASSUME NEW n \in Nodes, AllocateHw(n) PROVE NetworkTyped'
  <2>1. IterOK(iter') BY <1>5, AllocateHwIs DEF HwAttempted
  <2>2. QED BY <1>5, <2>1 DEF AllocateHw, IterOK
<1>6. ASSUME NEW a \in BOOLEAN, NEW b \in BOOLEAN, DataPlane(a, b) PROVE NetworkTyped'
  <2>1. IterOK(iter') /\ dhcp' \in [cfg : Hosts, ctx : Hosts, fits : BOOLEAN] /\ faults' \in Nat
    BY <1>6, DataPlaneIs
  <2>2. QED BY <1>6, <2>1 DEF DataPlane, IterOK
<1>7. ASSUME Commit PROVE NetworkTyped'
  <2>1. node' \in [Nodes -> NodeRows \union {None}] /\ port' \in Ports BY <1>7, CommitIs
  <2>2. QED BY <1>7, <2>1 DEF Commit
<1>8. ASSUME Crash PROVE NetworkTyped'
  <2>1. faults' \in Nat /\ dhcp' \in [cfg : Hosts, ctx : Hosts, fits : BOOLEAN]
    <3>1. faults' = faults + 1 /\ dhcp' = [dhcp EXCEPT !.fits = FALSE] BY <1>8 DEF Crash
    <3>2. faults \in Nat /\ dhcp \in [cfg : Hosts, ctx : Hosts, fits : BOOLEAN] OBVIOUS
    <3>3. dhcp' = [cfg |-> dhcp.cfg, ctx |-> dhcp.ctx, fits |-> FALSE] BY ONLY <3>1, <3>2
    <3>4. dhcp.cfg \in Hosts /\ dhcp.ctx \in Hosts BY ONLY <3>2
    <3>5. dhcp' \in [cfg : Hosts, ctx : Hosts, fits : BOOLEAN] BY ONLY <3>3, <3>4
    <3>6. faults' \in Nat BY ONLY <3>1, <3>2
    <3>7. QED BY <3>5, <3>6
  <2>2. QED BY <1>8, <2>1 DEF Crash
<1>9. ASSUME UNCHANGED networkVars PROVE NetworkTyped' BY <1>9 DEF networkVars
<1>10. QED BY <1>1, <1>2, <1>3, <1>4, <1>5, <1>6, <1>7, <1>8, <1>9 DEF NetworkNext, Iterate

\* Every behaviour has the types of NetworkTypeOK: rows, pools, the maps of an iteration and
\* the files of DHCP (NetworkService, Ipam, FlatBridgeNetworkDriver).
THEOREM NetworkTypeCorrect == NetworkSpec => []NetworkTypeOK
<1>1. NetworkInit => NetworkTyped
  BY DEF NetworkInit, NetworkTyped, NetworkTypeOK, Ports, Hosts
<1>2. NetworkTyped /\ [NetworkNext]_networkVars => NetworkTyped' BY NetworkTypedStep
<1>3. NetworkTyped => NetworkTypeOK BY DEF NetworkTyped
<1>4. QED BY <1>1, <1>2, <1>3, PTL DEF NetworkSpec

-----------------------------------------------------------------------------
\* The pool of an iteration never contains an address that was taken.

\* The first address of a pool is its least.
LEMMA FirstIsLeast ==
    ASSUME NEW pool \in Pools, WellFormed(pool)
    PROVE  /\ pool = <<>> => FreeAddresses(pool) = {}
           /\ pool # <<>> => /\ pool[1][1] \in FreeAddresses(pool)
                            /\ \A x \in FreeAddresses(pool) : x \in Nat /\ pool[1][1] <= x
<1> DEFINE n == Len(pool)
<1>1. /\ n \in Nat /\ DOMAIN pool = 1 .. n
      /\ \A j \in 1 .. n : pool[j][1] \in Nat /\ pool[j][2] \in Nat
  BY InFree
<1>2. \A x : x \in FreeAddresses(pool) <=> \E j \in 1 .. n : x \in pool[j][1] .. pool[j][2] BY InFree
<1>3. /\ \A j \in 1 .. n : pool[j][1] <= pool[j][2]
      /\ \A j, k \in 1 .. n : j < k => pool[j][2] < pool[k][1]
  BY <1>1 DEF WellFormed
<1>4. pool = <<>> <=> n = 0 BY EmptySeq DEF Pools
<1> HIDE DEF n
<1>5. ASSUME pool # <<>>
      PROVE  /\ pool[1][1] \in FreeAddresses(pool)
             /\ \A x \in FreeAddresses(pool) : x \in Nat /\ pool[1][1] <= x
  <2>1. 1 \in 1 .. n BY <1>1, <1>4, <1>5
  <2>2. pool[1][1] \in pool[1][1] .. pool[1][2] BY <1>1, <1>3, <2>1
  <2>3. ASSUME NEW x \in FreeAddresses(pool) PROVE x \in Nat /\ pool[1][1] <= x
    <3>1. PICK j \in 1 .. n : x \in pool[j][1] .. pool[j][2] BY <1>2
    <3>2. pool[1][1] <= pool[j][1]
      <4>1. CASE j = 1 BY <1>1, <2>1, <4>1
      <4>2. CASE 1 < j BY <1>1, <1>3, <2>1, <4>2
      <4>3. QED BY <1>1, <4>1, <4>2
    <3>3. QED BY <1>1, <2>1, <3>1, <3>2
  <2>4. QED BY <1>2, <2>1, <2>2, <2>3
<1>6. pool = <<>> => FreeAddresses(pool) = {} BY <1>2, <1>4
<1>7. QED BY <1>5, <1>6

\* No client asks for an address.
NoTargets == Targets \subseteq {None}

\* The address of the last port is not taken, and no free address is below it: returned to
\* the pool once more it would have been drawn first.
PoolInv(i) ==
    /\ WellFormed(i.pool) /\ FreeAddresses(i.pool) \intersect i.taken = {}
    /\ i.last # None => /\ i.map[i.last].ip \notin i.taken
                        /\ \A x \in FreeAddresses(i.pool) : i.map[i.last].ip <= x

\* Without targets an attempt keeps this.
LEMMA AttemptedPool ==
    ASSUME NetworkTyped, NoTargets, NEW n \in Nodes, NEW i, IterOK(i), PoolInv(i), NEW j,
           Attempted(n, i, j), Fresh \in PortIds
    PROVE  PoolInv(j)
<1> DEFINE f == i.pool[1][1]
           q == OccupyIp(f, i.pool)
           a == i.map[i.last].ip
           free == FreeAddresses(i.pool)
<1>1. i.pool \in Pools /\ WellFormed(i.pool) /\ free \intersect i.taken = {}
  BY IterFields DEF PoolInv
<1>2. Next1(n, i) = f
  <2>1. node[n] # None => node[n].target = None
    BY DEF NetworkTyped, NetworkTypeOK, NodeRows, NoTargets
  <2>2. QED BY <2>1 DEF Next1, AllocateIp
<1>3. i.last # None => a \in Nat /\ a \notin i.taken /\ \A x \in free : a <= x
  BY IterFields DEF PoolInv
<1>4. i.pool = <<>> => free = {} BY <1>1, FirstIsLeast
<1>5. i.pool # <<>> => f \in free /\ f \in Nat /\ \A x \in free : x \in Nat /\ f <= x
  BY <1>1, NextTyped, FirstIsLeast
<1>6. i.pool # <<>> => q \in Pools /\ WellFormed(q) /\ FreeAddresses(q) = free \ {f}
  BY <1>1, <1>5, OccupyIpIs
<1>7. j.taken = i.taken BY DEF Attempted
<1> HIDE DEF q, f, free, a
<1>8. ASSUME i.pool = <<>>, i.last # None, j.last = i.last, j.map = i.map, j.pool = DeallocateIp(a, i.pool)
      PROVE  PoolInv(j)
  <2>1. WellFormed(j.pool) /\ FreeAddresses(j.pool) = free \union {a}
    <3>1. a \notin FreeAddresses(i.pool) BY <1>4, <1>8 DEF free
    <3>2. QED BY <1>1, <1>3, <1>8, <3>1, DeallocateIpIs DEF free
  <2>2. j.map[j.last].ip = a BY <1>8 DEF a
  <2>3. \A x \in FreeAddresses(j.pool) : a <= x BY <1>3, <1>4, <1>8, <2>1
  <2>4. QED BY <1>1, <1>3, <1>7, <1>8, <2>1, <2>2, <2>3 DEF PoolInv
<1>9. ASSUME i.pool # <<>>, i.last # None, j.last = i.last, j.map = i.map, j.pool = DeallocateIp(a, q)
      PROVE  PoolInv(j)
  <2>1. a \notin free \ {f}
    <3>1. a \in free => a = f BY <1>3, <1>5, <1>9
    <3>2. QED BY <3>1
  <2>2. WellFormed(j.pool) /\ FreeAddresses(j.pool) = (free \ {f}) \union {a}
    <3>1. a \notin FreeAddresses(q) BY <1>6, <1>9, <2>1
    <3>2. a \in Nat /\ q \in Pools /\ WellFormed(q) BY <1>3, <1>6, <1>9
    <3>3. WellFormed(j.pool) /\ FreeAddresses(j.pool) = FreeAddresses(q) \union {a}
      BY <1>9, <3>1, <3>2, DeallocateIpIs
    <3>4. QED BY <1>6, <1>9, <3>3
  <2>3. j.map[j.last].ip = a BY <1>9 DEF a
  <2>4. \A x \in FreeAddresses(j.pool) : a <= x BY <1>3, <1>9, <2>2
  <2>5. QED BY <1>1, <1>3, <1>7, <1>9, <2>2, <2>3, <2>4 DEF PoolInv
<1>10. ASSUME i.pool # <<>>, j.last = Fresh, j.map = [i.map EXCEPT ![Fresh] = NewPort(n, f)],
              \/ j.pool = DeallocateIp(f, q)
              \/ j.pool = q
       PROVE  PoolInv(j)
  <2>1. j.map[j.last].ip = f
    <3>1. j.map[Fresh] = NewPort(n, f) BY <1>10, IterFields DEF Ports
    <3>2. QED BY <1>10, <3>1 DEF NewPort
  <2>2. WellFormed(j.pool) /\ FreeAddresses(j.pool) \subseteq free
    <3>1. f \notin FreeAddresses(q) /\ f \in Nat /\ q \in Pools /\ WellFormed(q) BY <1>5, <1>6, <1>10
    <3>2. WellFormed(DeallocateIp(f, q)) /\ FreeAddresses(DeallocateIp(f, q)) = FreeAddresses(q) \union {f}
      BY <3>1, DeallocateIpIs
    <3>3. QED BY <1>5, <1>6, <1>10, <3>2
  <2>3. f \notin i.taken BY <1>1, <1>5, <1>10
  <2>4. \A x \in FreeAddresses(j.pool) : f <= x BY <1>5, <1>10, <2>2
  <2>5. FreeAddresses(j.pool) \intersect j.taken = {} BY <1>1, <1>7, <2>2
  <2>6. QED BY <1>7, <2>1, <2>2, <2>3, <2>4, <2>5 DEF PoolInv
<1>11. QED BY <1>2, <1>8, <1>9, <1>10 DEF Attempted, a, q

\* Every step keeps the invariant of the pool.
LEMMA PoolStep ==
    ASSUME NoTargets, NetworkTyped, NetworkTyped', iter # None => PoolInv(iter),
           [NetworkNext]_networkVars
    PROVE  iter' # None => PoolInv(iter')
<1>1. ASSUME UNCHANGED iter PROVE iter' # None => PoolInv(iter') BY <1>1
<1>2. ASSUME Snapshot PROVE PoolInv(iter')
  <2>1. iter'.last = None /\ Sound(iter'.pool, FirstIp, LastIp, iter'.taken) BY <1>2, SnapshotIs
  <2>2. QED BY <2>1 DEF PoolInv, Sound
<1>3. ASSUME NEW n \in Nodes, AllocateVm(n) PROVE iter' # None => PoolInv(iter')
  <2> DEFINE r == [iter EXCEPT !.todo = @ \ {n}]
  <2>1. iter # None /\ FreshIds # {} /\ iter' \in Allocated(n, r) /\ IterOK(iter)
    BY <1>3 DEF AllocateVm, NetworkTyped
  <2>2. IterOK(r) /\ r.map = iter.map /\ r.pool = iter.pool /\ r.taken = iter.taken /\ r.last = iter.last
    BY <2>1, RestIs
  <2> HIDE DEF r
  <2>3. PoolInv(r) BY <2>1, <2>2 DEF PoolInv
  <2>4. iter' # None => Attempted(n, r, iter') BY <2>1, <2>2, AllocatedIs
  <2>5. Fresh \in PortIds BY <2>1, FreshIs
  <2>6. QED BY <2>2, <2>3, <2>4, <2>5, AttemptedPool
<1>4. ASSUME NEW n \in Nodes, AllocateHw(n) PROVE PoolInv(iter')
  <2> DEFINE f == iter.pool[1][1]
             m == [iter.map EXCEPT ![Fresh] = NewPort(n, f)]
  <2>1. iter # None /\ FreshIds # {} /\ IterOK(iter) /\ HwAttempted(n, iter, iter')
    BY <1>4, AllocateHwIs DEF AllocateHw, NetworkTyped
  <2>2. iter'.taken = iter.taken /\ iter'.last = iter.last BY <2>1 DEF HwAttempted
  <2>3. iter.last # None => iter'.map[iter.last] = iter.map[iter.last]
    <3>1. Fresh \in PortIds /\ iter.map[Fresh] = None BY <2>1, FreshIs
    <3>2. iter.last # None => iter.last \in PortIds /\ iter.last # Fresh
      BY <2>1, <3>1, IterFields DEF IterOK
    <3>3. iter.last # None => m[iter.last] = iter.map[iter.last] BY <2>1, <3>2, IterFields DEF Ports
    <3>4. iter'.map = iter.map \/ iter'.map = m BY <2>1 DEF HwAttempted
    <3>5. QED BY <3>3, <3>4
  <2>4. iter.pool \in Pools /\ WellFormed(iter.pool) BY <2>1, IterFields DEF PoolInv
  <2>5. WellFormed(iter'.pool) /\ FreeAddresses(iter'.pool) \subseteq FreeAddresses(iter.pool)
    <3>1. iter'.pool = iter.pool \/ (iter.pool # <<>> /\ iter'.pool = OccupyIp(f, iter.pool))
      BY <2>1 DEF HwAttempted
    <3>2. iter.pool # <<>> => f \in Nat BY <2>4, FirstIsLeast
    <3> HIDE DEF f
    <3>3. iter.pool # <<>> => /\ WellFormed(OccupyIp(f, iter.pool))
                              /\ FreeAddresses(OccupyIp(f, iter.pool)) = FreeAddresses(iter.pool) \ {f}
      BY <2>4, <3>2, OccupyIpIs
    <3>4. QED BY <2>4, <3>1, <3>3
  <2>6. QED BY <2>1, <2>2, <2>3, <2>5 DEF PoolInv
<1>5. ASSUME NEW a \in BOOLEAN, NEW b \in BOOLEAN, DataPlane(a, b) PROVE PoolInv(iter')
  <2>1. iter # None /\ IterOK(iter) BY <1>5 DEF DataPlane, NetworkTyped
  <2>2. /\ iter'.taken = iter.taken /\ iter'.last = iter.last /\ iter'.pool = iter.pool
        /\ \A p \in PortIds : iter.map[p] # None => iter'.map[p].ip = iter.map[p].ip
    BY <1>5, DataPlaneIs
  <2>3. iter.last # None => iter'.map[iter.last].ip = iter.map[iter.last].ip
    BY <2>1, <2>2, IterFields DEF IterOK
  <2>4. QED BY <2>1, <2>2, <2>3 DEF PoolInv
<1>6. ASSUME Commit \/ Crash PROVE iter' = None BY <1>6 DEF Commit, Crash
<1>7. ASSUME \/ \E n \in Nodes, t \in Targets : CreateNode(n, t)
             \/ \E n \in Nodes : DeleteNode(n)
             \/ UNCHANGED networkVars
      PROVE  UNCHANGED iter
  BY <1>7 DEF CreateNode, DeleteNode, networkVars
<1>8. QED BY <1>1, <1>2, <1>3, <1>4, <1>5, <1>6, <1>7 DEF NetworkNext, Iterate

\* Where clients do not ask for addresses, the intervals of free addresses stay in order and
\* never contain an address that a port had when the iteration began, whatever fails and
\* however often the handler gives an address back (Ipam, NetworkService._iteration).
THEOREM PoolNeverOffersTaken == NoTargets => (NetworkSpec => []PoolExcludesTaken)
<1> SUFFICES ASSUME NoTargets PROVE NetworkSpec => []PoolExcludesTaken OBVIOUS
<1> DEFINE Inv == NetworkTyped /\ (iter # None => PoolInv(iter))
<1>1. NetworkInit => Inv
  BY DEF NetworkInit, NetworkTyped, NetworkTypeOK, Ports, Hosts
<1>2. Inv /\ [NetworkNext]_networkVars => Inv' BY NetworkTypedStep, PoolStep
<1>3. Inv => PoolExcludesTaken BY DEF PoolInv, PoolExcludesTaken
<1>4. QED BY <1>1, <1>2, <1>3, PTL DEF NetworkSpec

-----------------------------------------------------------------------------
\* The committed ports are a book of leases.

\* Clients are careful, and there is an address for every node but one.
EnoughRoom == Careful /\ Cardinality(Nodes) <= Room + 1

\* Ports of different nodes, at different addresses.
PortsApart(ps) ==
    \A p, q \in Rows(ps) :
        p # q => /\ ps[p].node # ps[q].node
                 /\ ~ ps[p].asked /\ ~ ps[q].asked => ps[p].ip # ps[q].ip

\* The port of a node that is there: at the address that its client asked for, or at one of
\* the range.
RowFits(row, nd) ==
    /\ nd[row.node] # None
    /\ row.asked => row.ip = nd[row.node].target
    /\ ~ row.asked => row.ip \in FirstIp .. LastIp

\* Clients ask for different addresses, and not for hardware nodes.
TargetsApart(nd) ==
    /\ \A m, n \in Nodes :
          m # n /\ nd[m] # None /\ nd[n] # None /\ nd[m].target # None
            => nd[m].target # nd[n].target
    /\ \A n \in HwNodes : nd[n] # None => nd[n].target = None

\* An iteration beside the nodes nd and the ports ps: ps is in the map as it was read.
MapFollows(i, ps) ==
    \A p \in Rows(ps) : /\ i.map[p] # None /\ p \notin i.new
                        /\ i.map[p].node = ps[p].node /\ i.map[p].ip = ps[p].ip
                        /\ i.map[p].asked = ps[p].asked
                        /\ ps[p].ip \in i.taken

\* New ports: of nodes without a port, at addresses that were not taken.
NewFits(i, nd, ps) ==
    /\ i.new \subseteq Rows(i.map)
    /\ \A p \in i.new : /\ RowFits(i.map[p], nd)
                        /\ \A q \in Rows(ps) : ps[q].node # i.map[p].node
                        /\ ~ i.map[p].asked => i.map[p].ip \notin i.taken
    /\ \A p, q \in i.new :
          p # q => /\ i.map[p].node # i.map[q].node
                   /\ ~ i.map[p].asked /\ ~ i.map[q].asked => i.map[p].ip # i.map[q].ip

\* Nodes still to be served: they have no port.
TodoFits(i, nd, ps) ==
    \A n \in i.todo : /\ nd[n] # None
                      /\ \A q \in Rows(ps) : ps[q].node # n
                      /\ \A p \in i.new : i.map[p].node # n

\* While nodes are left, the pool has an address for each of them but one, and none that is
\* in use.
PoolFits(i) ==
    i.todo # {} =>
        /\ WellFormed(i.pool) /\ FreeAddresses(i.pool) \subseteq FirstIp .. LastIp
        /\ FreeAddresses(i.pool) \intersect i.taken = {}
        /\ \A p \in i.new : ~ i.map[p].asked => i.map[p].ip \notin FreeAddresses(i.pool)
        /\ Cardinality(i.todo) <= Cardinality(FreeAddresses(i.pool)) + 1

IterFits(i, nd, ps) ==
    /\ ~ i.aborted
    /\ MapFollows(i, ps) /\ NewFits(i, nd, ps) /\ TodoFits(i, nd, ps) /\ PoolFits(i)

BookInv ==
    /\ PortsApart(port) /\ TargetsApart(node)
    /\ \A p \in Rows(port) : RowFits(port[p], node)
    /\ \A n \in Nodes : node[n] # None => n \in made
    /\ Cardinality(reserved) = LastIp - FirstIp + 1 - Room
    /\ iter # None => IterFits(iter, node, port)

\* A node has got the port Fresh at the address ip.
Served(n, ip, i, j) ==
    /\ j.todo = i.todo \ {n} /\ j.new = i.new \union {Fresh} /\ j.taken = i.taken
    /\ j.aborted = i.aborted /\ j.map = [i.map EXCEPT ![Fresh] = NewPort(n, ip)]
    /\ j.pool = OccupyIp(ip, i.pool)

\* A node has got nothing; the pool may be another one.
Unserved(n, i, j) ==
    /\ j.todo = i.todo \ {n} /\ j.new = i.new /\ j.taken = i.taken
    /\ j.aborted = i.aborted /\ j.map = i.map

\* What AllocateVm does for a node that is there.
LEMMA VmServed ==
    ASSUME NetworkTyped, NEW n \in Nodes, AllocateVm(n), ~ iter.aborted, node[n] # None,
           ~ TargetTaken(n), iter' # None
    PROVE  /\ iter.pool = <<>> => Unserved(n, iter, iter')
           /\ iter.pool # <<>> => Served(n, Next1(n, iter), iter, iter')
<1> DEFINE r == [iter EXCEPT !.todo = @ \ {n}]
           target == IF node[n] = None THEN None ELSE node[n].target
           got    == AllocateIp(r.pool, target, None)
           drawn  == [r EXCEPT !.pool = got.pool]
           listed == [drawn EXCEPT !.map[Fresh] = NewPort(n, got.ip), !.last = Fresh]
           made1  == [listed EXCEPT !.new = @ \union {Fresh}]
<1>1. iter # None /\ FreshIds # {} /\ iter' \in Allocated(n, r) /\ IterOK(iter)
  BY DEF AllocateVm, NetworkTyped
<1>2. IterOK(r) /\ r.map = iter.map /\ r.pool = iter.pool /\ r.taken = iter.taken /\ r.last = iter.last
  BY <1>1, RestIs
<1>3. r.new = iter.new /\ r.aborted = iter.aborted /\ r.todo = iter.todo \ {n}
  BY <1>1 DEF IterOK, Iterations
<1> HIDE DEF r
<1>4. CASE iter.pool = <<>>
  <2>1. iter' = Handled(r) BY <1>1, <1>2, <1>4 DEF Allocated
  <2>2. r.last # None BY <2>1 DEF Handled
  <2>3. /\ iter'.map = r.map /\ iter'.taken = r.taken /\ iter'.todo = r.todo /\ iter'.new = r.new
        /\ iter'.aborted = r.aborted
    BY <1>2, <2>1, <2>2 DEF Handled, IterOK, Iterations
  <2>4. QED BY <1>2, <1>3, <1>4, <2>3 DEF Unserved
<1>5. CASE iter.pool # <<>>
  <2>1. iter' = made1 BY <1>1, <1>2, <1>3, <1>5 DEF Allocated
  <2> DEFINE q == got.pool
             row == NewPort(n, got.ip)
             m == [r.map EXCEPT ![Fresh] = row]
             new == r.new \union {Fresh}
  <2>2. got.ip = Next1(n, iter) /\ q = OccupyIp(Next1(n, iter), iter.pool)
    BY <1>2 DEF Next1, AllocateIp
  <2> HIDE DEF got
  <2>3. drawn = [r EXCEPT !.pool = q] OBVIOUS
  <2>4. listed = [drawn EXCEPT !.map = m, !.last = Fresh] BY <1>2 DEF IterOK, Iterations
  <2>5. made1 = [listed EXCEPT !.new = new] BY <1>2 DEF IterOK, Iterations
  <2> HIDE DEF q, row, m, new, drawn, listed, made1
  <2>6. /\ drawn.taken = r.taken /\ drawn.todo = r.todo /\ drawn.aborted = r.aborted /\ drawn.pool = q
        /\ DOMAIN drawn = DOMAIN r
    BY <1>2, <2>3 DEF IterOK, Iterations
  <2>7. DOMAIN r = {"stage", "todo", "map", "new", "pool", "taken", "last", "aborted", "learn"}
    BY <1>2 DEF IterOK, Iterations
  <2>8. /\ listed.taken = r.taken /\ listed.todo = r.todo /\ listed.aborted = r.aborted /\ listed.pool = q
        /\ listed.map = m /\ DOMAIN listed = DOMAIN r
    BY <2>4, <2>6, <2>7
  <2>9. /\ made1.taken = r.taken /\ made1.todo = r.todo /\ made1.aborted = r.aborted /\ made1.pool = q
        /\ made1.map = m /\ made1.new = new
    BY <2>5, <2>7, <2>8
  <2>10. QED BY <1>2, <1>3, <1>5, <2>1, <2>2, <2>9 DEF Served, m, new, row
<1>6. QED BY <1>4, <1>5

\* What AllocateHw does for a node that is there.
LEMMA HwServed ==
    ASSUME NetworkTyped, NEW n \in Nodes, AllocateHw(n), ~ iter.aborted, node[n] # None
    PROVE  /\ iter.pool = <<>> => Unserved(n, iter, iter')
           /\ iter.pool # <<>> => Served(n, iter.pool[1][1], iter, iter')
<1> DEFINE r == [iter EXCEPT !.todo = @ \ {n}]
           got == AllocateIp(iter.pool, None, None)
           q == got.pool
           row == NewPort(n, got.ip)
           m == [r.map EXCEPT ![Fresh] = row]
           new == r.new \union {Fresh}
<1>1. iter # None /\ IterOK(iter) BY DEF AllocateHw, NetworkTyped
<1>2. IterOK(r) /\ r.map = iter.map /\ r.pool = iter.pool /\ r.taken = iter.taken /\ r.last = iter.last
  BY <1>1, RestIs
<1>3. r.new = iter.new /\ r.aborted = iter.aborted /\ r.todo = iter.todo \ {n}
  BY <1>1 DEF IterOK, Iterations
<1>4. CASE iter.pool = <<>>
  <2>1. iter' = r BY <1>4 DEF AllocateHw
  <2> HIDE DEF r
  <2>2. QED BY <1>2, <1>3, <1>4, <2>1 DEF Unserved
<1>5. CASE iter.pool # <<>>
  <2>1. iter' = [r EXCEPT !.pool = got.pool, !.map[Fresh] = NewPort(n, got.ip), !.new = @ \union {Fresh}]
    BY <1>5 DEF AllocateHw
  <2>2. got.ip = iter.pool[1][1] /\ q = OccupyIp(iter.pool[1][1], iter.pool) BY DEF AllocateIp
  <2> HIDE DEF got, r
  <2>3. iter' = [r EXCEPT !.pool = q, !.map = m, !.new = new] BY <1>2, <2>1 DEF IterOK, Iterations
  <2> HIDE DEF q, m, new, row
  <2>4. /\ iter'.taken = r.taken /\ iter'.todo = r.todo /\ iter'.aborted = r.aborted /\ iter'.pool = q
        /\ iter'.map = m /\ iter'.new = new
    BY <1>2, <2>3 DEF IterOK, Iterations
  <2>5. QED BY <1>2, <1>3, <1>5, <2>2, <2>4 DEF Served, m, new, row
<1>6. QED BY <1>4, <1>5

\* Sets of free addresses and lists of nodes are finite.
LEMMA FiniteSets1 ==
    ASSUME NEW i, IterOK(i)
    PROVE  /\ IsFiniteSet(i.todo) /\ Cardinality(i.todo) \in Nat
           /\ FreeAddresses(i.pool) \subseteq FirstIp .. LastIp
                 => IsFiniteSet(FreeAddresses(i.pool)) /\ Cardinality(FreeAddresses(i.pool)) \in Nat
<1>1. i.todo \subseteq Nodes BY IterFields
<1>2. IsFiniteSet(i.todo) BY <1>1, NetworkAssumption, FS_Subset
<1>3. IsFiniteSet(FirstIp .. LastIp) BY NetworkAssumption, FS_Interval
<1>4. FreeAddresses(i.pool) \subseteq FirstIp .. LastIp => IsFiniteSet(FreeAddresses(i.pool)) BY <1>3, FS_Subset
<1>5. QED BY <1>2, <1>4, FS_CardinalityType

\* An empty pool leaves the last node without an address, and no other.
LEMMA UnservedFits ==
    ASSUME NEW i, IterOK(i), NEW n \in i.todo, NEW j, Unserved(n, i, j), i.pool = <<>>,
           NEW nd, NEW ps, IterFits(i, nd, ps)
    PROVE  IterFits(j, nd, ps)
<1>1. /\ j.todo = i.todo \ {n} /\ j.new = i.new /\ j.taken = i.taken
      /\ j.aborted = i.aborted /\ j.map = i.map
  BY DEF Unserved
<1>2. j.todo = {}
  <2>1. /\ WellFormed(i.pool) /\ FreeAddresses(i.pool) \subseteq FirstIp .. LastIp
        /\ Cardinality(i.todo) <= Cardinality(FreeAddresses(i.pool)) + 1
    BY DEF IterFits, PoolFits
  <2>2. FreeAddresses(i.pool) = {} BY <2>1, IterFields, FirstIsLeast
  <2>3. Cardinality(i.todo) <= 1
    <3>1. Cardinality(FreeAddresses(i.pool)) = 0 BY <2>2, FS_EmptySet
    <3>2. QED BY <2>1, <3>1
  <2>4. /\ IsFiniteSet(i.todo \ {n}) /\ Cardinality(i.todo \ {n}) = Cardinality(i.todo) - 1
    BY FiniteSets1, FS_RemoveElement
  <2>5. Cardinality(i.todo \ {n}) \in Nat BY <2>4, FS_CardinalityType
  <2>6. Cardinality(i.todo \ {n}) = 0 BY <2>3, <2>4, <2>5, FiniteSets1
  <2>7. QED BY <1>1, <2>4, <2>6, FS_EmptySet
<1>3. PoolFits(j) BY <1>2 DEF PoolFits
<1>4. MapFollows(j, ps) BY <1>1 DEF IterFits, MapFollows
<1>5. NewFits(j, nd, ps) BY <1>1 DEF IterFits, NewFits
<1>6. TodoFits(j, nd, ps) BY <1>2 DEF TodoFits
<1>7. QED BY <1>1, <1>3, <1>4, <1>5, <1>6 DEF IterFits

\* A port at the first free address, or at the one that was asked for, fits.
LEMMA ServedFits ==
    ASSUME NetworkTyped, iter # None, FreshIds # {}, IterFits(iter, node, port),
           NEW n \in iter.todo, NEW j, IterOK(j), NEW ip \in Nat, Served(n, ip, iter, j),
           NewPort(n, ip) \in PortRows,
           node[n].target # None => ip = node[n].target,
           node[n].target = None => ip \in FreeAddresses(iter.pool)
    PROVE  IterFits(j, node, port)
<1> DEFINE row == NewPort(n, ip)
           free == FreeAddresses(iter.pool)
<1>1. /\ j.todo = iter.todo \ {n} /\ j.new = iter.new \union {Fresh} /\ j.taken = iter.taken
      /\ j.aborted = iter.aborted /\ j.map = [iter.map EXCEPT ![Fresh] = row]
      /\ j.pool = OccupyIp(ip, iter.pool)
  BY DEF Served
<1>2. IterOK(iter) BY DEF NetworkTyped
<1>3. Fresh \in PortIds /\ port[Fresh] = None /\ iter.map[Fresh] = None BY FreshIs
<1>4. row # None BY NetworkAssumption
<1>5. node[n] # None BY DEF IterFits, TodoFits
<1>6. row.node = n /\ row.ip = ip /\ (row.asked <=> node[n].target # None) BY <1>5 DEF NewPort
<1> HIDE DEF row
<1>7. j.map[Fresh] = row /\ \A p \in PortIds : p # Fresh => j.map[p] = iter.map[p]
  BY <1>1, <1>2, <1>3, IterFields DEF Ports
<1>8. iter.new \subseteq PortIds /\ \A p \in iter.new : p # Fresh /\ iter.map[p] # None
  BY <1>2, <1>3, IterFields DEF IterFits, NewFits, Rows
<1>9. /\ WellFormed(iter.pool) /\ iter.pool \in Pools /\ free \subseteq FirstIp .. LastIp
      /\ free \intersect iter.taken = {}
      /\ \A p \in iter.new : ~ iter.map[p].asked => iter.map[p].ip \notin free
      /\ Cardinality(iter.todo) <= Cardinality(free) + 1
  BY <1>2, IterFields DEF IterFits, PoolFits
<1>10. WellFormed(j.pool) /\ FreeAddresses(j.pool) = free \ {ip} BY <1>1, <1>9, OccupyIpIs
<1>11. MapFollows(j, port)
  <2>1. \A p \in Rows(port) : p \in PortIds /\ p # Fresh BY <1>3 DEF Rows
  <2>2. QED BY <1>1, <1>7, <2>1 DEF IterFits, MapFollows
<1>12. RowFits(row, node) BY <1>5, <1>6, <1>9 DEF RowFits
<1>13. ~ row.asked => ip \in free BY <1>6
<1>14. NewFits(j, node, port)
  <2>1. j.new \subseteq Rows(j.map) BY <1>1, <1>3, <1>4, <1>7, <1>8 DEF Rows
  <2>2. /\ RowFits(j.map[Fresh], node)
        /\ \A q \in Rows(port) : port[q].node # j.map[Fresh].node
        /\ ~ j.map[Fresh].asked => j.map[Fresh].ip \notin j.taken
    <3>1. \A q \in Rows(port) : port[q].node # n BY DEF IterFits, TodoFits
    <3>2. ~ row.asked => ip \notin iter.taken BY <1>9, <1>13
    <3>3. QED BY <1>1, <1>6, <1>7, <1>12, <3>1, <3>2
  <2>3. \A p \in iter.new : /\ RowFits(j.map[p], node)
                            /\ \A q \in Rows(port) : port[q].node # j.map[p].node
                            /\ ~ j.map[p].asked => j.map[p].ip \notin j.taken
    <3>1. \A p \in iter.new : j.map[p] = iter.map[p] BY <1>7, <1>8
    <3>2. \A p \in iter.new : /\ RowFits(iter.map[p], node)
                              /\ \A q \in Rows(port) : port[q].node # iter.map[p].node
                              /\ ~ iter.map[p].asked => iter.map[p].ip \notin iter.taken
      BY DEF IterFits, NewFits
    <3>3. QED BY <1>1, <3>1, <3>2
  <2>4. \A p \in iter.new : /\ j.map[p].node # j.map[Fresh].node
                            /\ ~ j.map[p].asked /\ ~ j.map[Fresh].asked => j.map[p].ip # j.map[Fresh].ip
    <3>1. \A p \in iter.new : iter.map[p].node # n BY DEF IterFits, TodoFits
    <3>2. \A p \in iter.new : ~ iter.map[p].asked /\ ~ row.asked => iter.map[p].ip # ip BY <1>9, <1>13
    <3>3. \A p \in iter.new : j.map[p] = iter.map[p] BY <1>7, <1>8
    <3>4. QED BY <1>6, <1>7, <3>1, <3>2, <3>3
  <2>5. \A p, q \in iter.new :
           p # q => /\ j.map[p].node # j.map[q].node
                    /\ ~ j.map[p].asked /\ ~ j.map[q].asked => j.map[p].ip # j.map[q].ip
    BY <1>7, <1>8 DEF IterFits, NewFits
  <2>6. \A p, q \in j.new :
           p # q => /\ j.map[p].node # j.map[q].node
                    /\ ~ j.map[p].asked /\ ~ j.map[q].asked => j.map[p].ip # j.map[q].ip
    <3>1. \A p \in j.new : p \in iter.new \/ p = Fresh BY <1>1
    <3>2. QED BY ONLY <2>4, <2>5, <3>1
  <2>7. \A p \in j.new : /\ RowFits(j.map[p], node)
                         /\ \A q \in Rows(port) : port[q].node # j.map[p].node
                         /\ ~ j.map[p].asked => j.map[p].ip \notin j.taken
    <3>1. \A p \in j.new : p \in iter.new \/ p = Fresh BY <1>1
    <3>2. QED BY ONLY <2>2, <2>3, <3>1
  <2>8. QED BY <2>1, <2>6, <2>7 DEF NewFits
<1>15. TodoFits(j, node, port)
  <2>1. \A k \in j.todo : k \in iter.todo /\ k # n BY <1>1
  <2>2. \A k \in j.todo : node[k] # None /\ \A q \in Rows(port) : port[q].node # k
    BY <2>1 DEF IterFits, TodoFits
  <2>3. \A k \in j.todo, p \in iter.new : j.map[p].node # k
    BY <1>7, <1>8, <2>1 DEF IterFits, TodoFits
  <2>4. \A k \in j.todo : j.map[Fresh].node # k BY <1>6, <1>7, <2>1
  <2>5. QED BY <1>1, <2>2, <2>3, <2>4 DEF TodoFits
<1>16. PoolFits(j)
  <2>1. FreeAddresses(j.pool) \subseteq FirstIp .. LastIp BY <1>9, <1>10
  <2>2. FreeAddresses(j.pool) \intersect j.taken = {} BY <1>1, <1>9, <1>10
  <2>3. \A p \in j.new : ~ j.map[p].asked => j.map[p].ip \notin FreeAddresses(j.pool)
    <3>1. \A p \in iter.new : ~ j.map[p].asked => j.map[p].ip \notin FreeAddresses(j.pool)
      BY <1>7, <1>8, <1>9, <1>10
    <3>2. j.map[Fresh].ip \notin FreeAddresses(j.pool) BY <1>6, <1>7, <1>10
    <3>3. QED BY <1>1, <3>1, <3>2
  <2>4. Cardinality(j.todo) <= Cardinality(FreeAddresses(j.pool)) + 1
    <3>1. IsFiniteSet(iter.todo) /\ IsFiniteSet(free) /\ Cardinality(iter.todo) \in Nat /\ Cardinality(free) \in Nat
      BY <1>2, <1>9, FiniteSets1
    <3>2. Cardinality(iter.todo \ {n}) = Cardinality(iter.todo) - 1 BY <3>1, FS_RemoveElement
    <3>3. Cardinality(free \ {ip}) = IF ip \in free THEN Cardinality(free) - 1 ELSE Cardinality(free)
      BY <3>1, FS_RemoveElement
    <3> DEFINE a == Cardinality(iter.todo)
               b == Cardinality(free)
               c == Cardinality(iter.todo \ {n})
               d == Cardinality(free \ {ip})
    <3>4. a \in Nat /\ b \in Nat /\ a <= b + 1 /\ c = a - 1 /\ (d = b \/ d = b - 1)
      BY <1>9, <3>1, <3>2, <3>3
    <3> HIDE DEF a, b, c, d
    <3>5. c <= d + 1 BY <3>4
    <3>6. QED BY <1>1, <1>10, <3>5 DEF c, d
  <2>5. QED BY <1>10, <2>1, <2>2, <2>3, <2>4 DEF PoolFits
<1>17. ~ j.aborted BY <1>1 DEF IterFits
<1>18. QED BY <1>11, <1>14, <1>15, <1>16, <1>17 DEF IterFits

\* An iteration begins with an address for each of its nodes but one.
LEMMA SnapshotFits ==
    ASSUME EnoughRoom, NetworkTyped, BookInv, Snapshot
    PROVE  IterFits(iter', node', port')
<1> DEFINE R == Rows(port)
           A == {port[p].ip : p \in R}
           todo == WithoutPorts(VmNodes) \union NewHwPorts
           all == FirstIp .. LastIp
           free == FreeAddresses(iter'.pool)
<1>1. /\ node' = node /\ port' = port /\ iter'.todo = todo /\ iter'.map = port /\ iter'.new = {}
      /\ iter'.taken = Taken /\ iter'.aborted = FALSE
  BY DEF Snapshot
<1>2. IterOK(iter') /\ Sound(iter'.pool, FirstIp, LastIp, iter'.taken) BY SnapshotIs
<1>3. WellFormed(iter'.pool) /\ free = all \ Taken BY <1>1, <1>2 DEF Sound
<1>4. Taken = reserved \union A BY DEF Taken
<1>5. \A p \in R : p \in PortIds /\ port[p] # None /\ port[p].node \in Nodes
  BY DEF Rows, NetworkTyped, NetworkTypeOK, Ports, PortRows
<1>6. todo \subseteq Nodes /\ \A n \in todo : node[n] # None /\ \A q \in R : port[q].node # n
  BY DEF WithoutPorts, NewHwPorts, PortsOf, Nodes
<1> HIDE DEF todo
<1>7. MapFollows(iter', port') BY <1>1, <1>4, <1>5 DEF MapFollows
<1>8. NewFits(iter', node', port') BY <1>1 DEF NewFits
<1>9. TodoFits(iter', node', port') BY <1>1, <1>6 DEF TodoFits
<1>10. Cardinality(todo) <= Cardinality(free) + 1
  <2>1. IsFiniteSet(R) BY <1>5, NetworkAssumption, FS_Subset
  <2>2. IsFiniteSet(all) /\ Cardinality(all) = LastIp - FirstIp + 1 BY NetworkAssumption, FS_Interval
  <2>3. IsFiniteSet(reserved) BY <2>2, FS_Subset DEF NetworkTyped, NetworkTypeOK
  <2>4. IsFiniteSet(A) /\ Cardinality(A) <= Cardinality(R)
    <3> DEFINE f == [p \in R |-> port[p].ip]
    <3>1. f \in Surjection(R, A) BY DEF Surjection
    <3> HIDE DEF f, A, R
    <3>2. QED BY <2>1, <3>1, FS_Surjection
  <2>5. IsFiniteSet(Nodes \ todo) /\ Cardinality(Nodes \ todo) = Cardinality(Nodes) - Cardinality(todo)
    <3>1. Nodes \intersect todo = todo BY <1>6
    <3>2. QED BY <3>1, NetworkAssumption, FS_Difference
  <2>6. Cardinality(R) <= Cardinality(Nodes \ todo)
    <3> DEFINE g == [p \in R |-> port[p].node]
               N == Nodes \ todo
    <3>1. g \in [R -> N] BY <1>5, <1>6
    <3>2. \A p, q \in R : g[p] = g[q] => p = q BY DEF BookInv, PortsApart
    <3> HIDE DEF g, N
    <3>3. g \in Injection(R, N) BY <3>1, <3>2 DEF Injection, IsInjective
    <3> HIDE DEF R
    <3>4. Cardinality(R) <= Cardinality(N) BY <2>5, <3>3, FS_Injection DEF N
    <3>5. QED BY <3>4 DEF N
  <2> HIDE DEF R, A, free, all
  <2>7. IsFiniteSet(Taken) /\ Cardinality(Taken) = Cardinality(reserved) + Cardinality(A) - Cardinality(reserved \intersect A)
    BY <1>4, <2>3, <2>4, FS_Union
  <2>8. Cardinality(free) = Cardinality(all) - Cardinality(all \intersect Taken)
    BY <1>3, <2>2, FS_Difference
  <2>9. Cardinality(all \intersect Taken) <= Cardinality(Taken) /\ IsFiniteSet(all \intersect Taken)
    BY <2>7, FS_Intersection
  <2>10. IsFiniteSet(reserved \intersect A) BY <2>3, FS_Intersection
  <2>11. IsFiniteSet(todo) BY <1>6, NetworkAssumption, FS_Subset
  <2> DEFINE a == Cardinality(todo)
             b == Cardinality(free)
             c == Cardinality(R)
             d == Cardinality(A)
             e == Cardinality(reserved)
             f == Cardinality(reserved \intersect A)
             g == Cardinality(Taken)
             h == Cardinality(all \intersect Taken)
             k == Cardinality(Nodes)
             w == Cardinality(Nodes \ todo)
             l == Cardinality(all)
  <2>12. /\ a \in Nat /\ c \in Nat /\ d \in Nat /\ e \in Nat /\ f \in Nat /\ g \in Nat /\ h \in Nat
         /\ k \in Nat /\ w \in Nat
    BY <2>1, <2>3, <2>4, <2>5, <2>7, <2>9, <2>10, <2>11, NetworkAssumption, FS_CardinalityType
  <2>13. d <= c /\ c <= w /\ w = k - a /\ g = e + d - f /\ b = l - h /\ h <= g
    BY <2>4, <2>5, <2>6, <2>7, <2>8, <2>9
  <2>14. l = LastIp - FirstIp + 1 /\ e = LastIp - FirstIp + 1 - Room /\ k <= Room + 1
    BY <2>2 DEF BookInv, EnoughRoom
  <2>15. FirstIp \in Nat /\ LastIp \in Nat /\ Room \in Nat BY NetworkAssumption
  <2> HIDE DEF a, b, c, d, e, f, g, h, k, w, l
  <2>16. a <= b + 1 BY <2>12, <2>13, <2>14, <2>15
  <2>17. QED BY <2>16 DEF a, b
<1>11. PoolFits(iter') BY <1>1, <1>3, <1>10 DEF PoolFits
<1>12. QED BY <1>1, <1>7, <1>8, <1>9, <1>11 DEF IterFits

\* A node that is served has no rival for its target.
LEMMA NoRival ==
    ASSUME NetworkTyped, BookInv, iter # None, NEW n \in iter.todo
    PROVE  node[n] # None /\ n \in Nodes /\ ~ TargetTaken(n)
<1>1. IterOK(iter) /\ IterFits(iter, node, port) BY DEF NetworkTyped, BookInv
<1>2. node[n] # None /\ n \in Nodes BY <1>1, IterFields DEF IterFits, TodoFits
<1>3. ASSUME NEW row, row.node \in Nodes, row.node # n, RowFits(row, node), node[n].target # None
      PROVE  ~ (row.asked /\ row.ip = node[n].target)
  <2>1. node[row.node] # None BY <1>3 DEF RowFits
  <2>2. node[n].target # node[row.node].target BY <1>2, <1>3, <2>1 DEF BookInv, TargetsApart
  <2>3. QED BY <1>3, <2>2 DEF RowFits
<1>4. ASSUME NEW p \in iter.new
      PROVE  /\ iter.map[p].node \in Nodes /\ iter.map[p].node # n /\ RowFits(iter.map[p], node)
  <2>1. p \in Rows(iter.map) BY <1>1 DEF IterFits, NewFits
  <2>2. QED BY <1>1, <2>1, IterFields DEF IterFits, NewFits, TodoFits
<1>5. ASSUME NEW p \in Rows(port)
      PROVE  /\ port[p].node \in Nodes /\ port[p].node # n /\ RowFits(port[p], node)
  <2>1. port[p] \in PortRows BY DEF Rows, NetworkTyped, NetworkTypeOK, Ports
  <2>2. QED BY <1>1, <2>1 DEF IterFits, TodoFits, BookInv, PortRows
<1>6. ~ TargetTaken(n) BY <1>3, <1>4, <1>5 DEF TargetTaken
<1>7. QED BY <1>2, <1>6

\* Both kinds of allocation keep the iteration as it should be.
LEMMA AllocateFits ==
    ASSUME NetworkTyped, NetworkTyped', BookInv, NEW n \in Nodes, AllocateVm(n) \/ AllocateHw(n),
           iter' # None
    PROVE  IterFits(iter', node', port')
<1>1. /\ iter # None /\ FreshIds # {} /\ n \in iter.todo /\ node' = node /\ port' = port
      /\ AllocateHw(n) => n \in HwNodes
  BY DEF AllocateVm, AllocateHw
<1>2. IterOK(iter) /\ IterOK(iter') /\ IterFits(iter, node, port) BY <1>1 DEF NetworkTyped, BookInv
<1>3. node[n] # None /\ ~ TargetTaken(n) BY <1>1, NoRival
<1>4. ~ iter.aborted BY <1>2 DEF IterFits
<1>5. CASE iter.pool = <<>>
  <2>1. Unserved(n, iter, iter') BY <1>3, <1>4, <1>5, VmServed, HwServed
  <2>2. QED BY <1>1, <1>2, <1>5, <2>1, UnservedFits
<1>6. CASE iter.pool # <<>>
  <2> DEFINE f == iter.pool[1][1]
             ip == IF AllocateVm(n) THEN Next1(n, iter) ELSE f
  <2>1. Served(n, ip, iter, iter') BY <1>3, <1>4, <1>6, VmServed, HwServed
  <2>2. Next1(n, iter) \in Nat /\ f \in Nat BY <1>2, <1>6, NextTyped
  <2>3. f \in FreeAddresses(iter.pool)
    <3>1. iter.pool \in Pools /\ WellFormed(iter.pool) BY <1>1, <1>2, IterFields DEF IterFits, PoolFits
    <3>2. QED BY <1>6, <3>1, FirstIsLeast
  <2>4. Next1(n, iter) = IF node[n].target # None THEN node[n].target ELSE f
    BY <1>3 DEF Next1, AllocateIp
  <2>5. AllocateHw(n) => node[n].target = None BY <1>1, <1>3 DEF BookInv, TargetsApart
  <2>6. /\ node[n].target # None => ip = node[n].target
        /\ node[n].target = None => ip \in FreeAddresses(iter.pool)
    BY <2>3, <2>4, <2>5
  <2>7. ip \in Nat BY <2>2
  <2> HIDE DEF ip, f
  <2>8. NewPort(n, ip) \in PortRows
    <3>1. (node[n] # None /\ node[n].target # None) \in BOOLEAN OBVIOUS
    <3>2. QED BY <2>7, <3>1 DEF NewPort, PortRows
  <2>9. IterFits(iter', node, port) BY <1>1, <1>2, <2>1, <2>6, <2>7, <2>8, ServedFits
  <2>10. QED BY <1>1, <2>9
<1>7. QED BY <1>5, <1>6

\* So does the work on DHCP.
LEMMA DataPlaneFits ==
    ASSUME NetworkTyped, BookInv, NEW a \in BOOLEAN, NEW b \in BOOLEAN, DataPlane(a, b)
    PROVE  IterFits(iter', node', port')
<1>1. iter # None /\ iter.todo = {} /\ node' = node /\ port' = port BY DEF DataPlane
<1>2. IterOK(iter) /\ IterFits(iter, node, port) BY <1>1 DEF NetworkTyped, BookInv
<1>3. /\ iter'.taken = iter.taken /\ iter'.new = iter.new /\ iter'.aborted = iter.aborted /\ iter'.todo = iter.todo
      /\ \A p \in PortIds : iter'.map[p] # None <=> iter.map[p] # None
      /\ \A p \in PortIds : iter.map[p] # None => /\ iter'.map[p].ip = iter.map[p].ip
                                                  /\ iter'.map[p].node = iter.map[p].node
                                                  /\ iter'.map[p].asked = iter.map[p].asked
  BY DataPlaneIs
<1>4. MapFollows(iter', port)
  <2>1. \A p \in Rows(port) : p \in PortIds /\ iter.map[p] # None BY <1>2 DEF Rows, IterFits, MapFollows
  <2>2. QED BY <1>2, <1>3, <2>1 DEF IterFits, MapFollows
<1>5. NewFits(iter', node, port)
  <2>1. \A p \in iter.new : p \in PortIds /\ iter.map[p] # None BY <1>2 DEF Rows, IterFits, NewFits
  <2>2. iter'.new \subseteq Rows(iter'.map) BY <1>3, <2>1 DEF Rows
  <2>3. \A p \in iter.new : /\ iter'.map[p].ip = iter.map[p].ip /\ iter'.map[p].node = iter.map[p].node
                            /\ iter'.map[p].asked = iter.map[p].asked
    BY <1>3, <2>1
  <2>4. \A p \in iter.new : /\ RowFits(iter'.map[p], node)
                            /\ \A q \in Rows(port) : port[q].node # iter'.map[p].node
                            /\ ~ iter'.map[p].asked => iter'.map[p].ip \notin iter.taken
    BY <1>2, <2>3 DEF IterFits, NewFits, RowFits
  <2>5. \A p, q \in iter.new :
           p # q => /\ iter'.map[p].node # iter'.map[q].node
                    /\ ~ iter'.map[p].asked /\ ~ iter'.map[q].asked => iter'.map[p].ip # iter'.map[q].ip
    BY <1>2, <2>3 DEF IterFits, NewFits
  <2>6. QED BY <1>3, <2>2, <2>4, <2>5 DEF NewFits
<1>6. TodoFits(iter', node, port) /\ PoolFits(iter') BY <1>1, <1>3 DEF TodoFits, PoolFits
<1>7. ~ iter'.aborted BY <1>2, <1>3 DEF IterFits
<1>8. QED BY <1>1, <1>4, <1>5, <1>6, <1>7 DEF IterFits

\* A new node has no port yet.
LEMMA CreateNodeFits ==
    ASSUME EnoughRoom, NetworkTyped, BookInv, NEW n \in Nodes, NEW t \in Targets, CreateNode(n, t)
    PROVE  BookInv'
<1> DEFINE rec == [target |-> t, net |-> None]
<1>1. /\ n \notin made /\ made' = made \union {n} /\ node' = [node EXCEPT ![n] = rec]
      /\ port' = port /\ reserved' = reserved /\ iter' = iter
      /\ n \in HwNodes => t = None
      /\ t # None => \A m \in Nodes : node[m] # None => node[m].target # t
  BY DEF CreateNode, EnoughRoom
<1>2. node[n] = None BY <1>1 DEF BookInv
<1>3. rec.target = t OBVIOUS
<1> HIDE DEF rec
<1>4. node'[n] = rec /\ \A m \in Nodes : m # n => node'[m] = node[m]
  BY <1>1 DEF NetworkTyped, NetworkTypeOK
<1>5. \A row : row.node \in Nodes /\ RowFits(row, node) => RowFits(row, node')
  BY <1>2, <1>4 DEF RowFits
<1>6. TargetsApart(node')
  <2>1. \A k \in HwNodes : node'[k] # None => node'[k].target = None
    BY <1>1, <1>3, <1>4 DEF BookInv, TargetsApart, Nodes
  <2>2. ASSUME NEW m \in Nodes, NEW k \in Nodes, m # k, node'[m] # None, node'[k] # None, node'[m].target # None
        PROVE  node'[m].target # node'[k].target
    <3>1. CASE m = n
      <4>1. node'[k] = node[k] /\ node'[m].target = t BY <1>3, <1>4, <2>2, <3>1
      <4>2. QED BY <1>1, <2>2, <4>1
    <3>2. CASE k = n
      <4>1. node'[m] = node[m] /\ node'[k].target = t BY <1>3, <1>4, <2>2, <3>2
      <4>2. QED BY <1>1, <2>2, <4>1
    <3>3. CASE m # n /\ k # n
      <4>1. node'[m] = node[m] /\ node'[k] = node[k] BY <1>4, <3>3
      <4>2. QED BY <2>2, <4>1 DEF BookInv, TargetsApart
    <3>4. QED BY <3>1, <3>2, <3>3
  <2>3. QED BY <2>1, <2>2 DEF TargetsApart
<1>7. \A p \in Rows(port) : RowFits(port[p], node')
  <2>1. \A p \in Rows(port) : port[p].node \in Nodes
    BY DEF Rows, NetworkTyped, NetworkTypeOK, Ports, PortRows
  <2>2. QED BY <1>5, <2>1 DEF BookInv
<1>8. iter' # None => IterFits(iter', node', port')
  <2> SUFFICES ASSUME iter # None PROVE IterFits(iter, node', port) BY <1>1
  <2>1. IterOK(iter) /\ IterFits(iter, node, port) BY DEF NetworkTyped, BookInv
  <2>2. NewFits(iter, node', port)
    <3>1. \A p \in iter.new : iter.map[p].node \in Nodes BY <2>1, IterFields DEF IterFits, NewFits
    <3>2. \A p \in iter.new : RowFits(iter.map[p], node') BY <1>5, <2>1, <3>1 DEF IterFits, NewFits
    <3>3. QED BY <2>1, <3>2 DEF IterFits, NewFits
  <2>3. TodoFits(iter, node', port)
    <3>1. \A k \in iter.todo : k \in Nodes /\ k # n BY <1>2, <2>1, IterFields DEF IterFits, TodoFits
    <3>2. QED BY <1>4, <2>1, <3>1 DEF IterFits, TodoFits
  <2>4. QED BY <2>1, <2>2, <2>3 DEF IterFits
<1>9. \A k \in Nodes : node'[k] # None => k \in made' BY <1>1, <1>4 DEF BookInv
<1>10. PortsApart(port') /\ Cardinality(reserved') = LastIp - FirstIp + 1 - Room BY <1>1 DEF BookInv
<1>11. \A p \in Rows(port') : RowFits(port'[p], node') BY <1>1, <1>7
<1>12. QED BY <1>6, <1>8, <1>9, <1>10, <1>11 DEF BookInv

\* A node is deleted after it has got its port, and the port goes with it.
LEMMA DeleteNodeFits ==
    ASSUME EnoughRoom, NetworkTyped, BookInv, NEW n \in Nodes, DeleteNode(n)
    PROVE  BookInv'
<1>1. /\ PortsOf(n, port) # {} /\ node' = [node EXCEPT ![n] = None]
      /\ iter # None => \A p \in iter.new : iter.map[p].node # n
      /\ port' = [p \in PortIds |-> IF p \in PortsOf(n, port) THEN None ELSE port[p]]
      /\ made' = made /\ reserved' = reserved /\ iter' = iter
  BY DEF DeleteNode, EnoughRoom
<1>2. node'[n] = None /\ \A m \in Nodes : m # n => node'[m] = node[m]
  BY <1>1 DEF NetworkTyped, NetworkTypeOK
<1>3. \A p \in Rows(port') : p \in Rows(port) /\ port'[p] = port[p] /\ port[p].node # n
  BY <1>1 DEF Rows, PortsOf
<1>4. \A row : row.node \in Nodes /\ row.node # n /\ RowFits(row, node) => RowFits(row, node')
  BY <1>2 DEF RowFits
<1>5. PortsApart(port') BY <1>3 DEF BookInv, PortsApart
<1>6. TargetsApart(node')
  <2>1. \A m \in Nodes : node'[m] # None => node'[m] = node[m] BY <1>2
  <2>2. HwNodes \subseteq Nodes BY DEF Nodes
  <2>3. QED BY <2>1, <2>2 DEF BookInv, TargetsApart
<1>7. \A p \in Rows(port') : RowFits(port'[p], node')
  <2>1. \A p \in Rows(port) : port[p].node \in Nodes
    BY DEF Rows, NetworkTyped, NetworkTypeOK, Ports, PortRows
  <2>2. QED BY <1>3, <1>4, <2>1 DEF BookInv
<1>8. iter # None => IterFits(iter, node', port')
  <2> SUFFICES ASSUME iter # None PROVE IterFits(iter, node', port') OBVIOUS
  <2>1. IterOK(iter) /\ IterFits(iter, node, port) BY DEF NetworkTyped, BookInv
  <2>2. MapFollows(iter, port') BY <1>3, <2>1 DEF IterFits, MapFollows
  <2>3. NewFits(iter, node', port')
    <3>1. \A p \in iter.new : iter.map[p].node \in Nodes BY <2>1, IterFields DEF IterFits, NewFits
    <3>2. \A p \in iter.new : RowFits(iter.map[p], node')
      BY <1>1, <1>4, <2>1, <3>1 DEF IterFits, NewFits
    <3>3. \A p \in iter.new : \A q \in Rows(port') : port'[q].node # iter.map[p].node
      BY <1>3, <2>1 DEF IterFits, NewFits
    <3>4. QED BY <2>1, <3>2, <3>3 DEF IterFits, NewFits
  <2>4. TodoFits(iter, node', port')
    <3>1. n \notin iter.todo BY <1>1, <2>1 DEF IterFits, TodoFits, PortsOf
    <3>2. \A k \in iter.todo : k \in Nodes /\ k # n BY <2>1, <3>1, IterFields
    <3>3. \A k \in iter.todo : node'[k] # None BY <1>2, <2>1, <3>2 DEF IterFits, TodoFits
    <3>4. \A k \in iter.todo : \A q \in Rows(port') : port'[q].node # k
      BY <1>3, <2>1 DEF IterFits, TodoFits
    <3>5. QED BY <2>1, <3>3, <3>4 DEF IterFits, TodoFits
  <2>5. QED BY <2>1, <2>2, <2>3, <2>4 DEF IterFits
<1>9. \A k \in Nodes : node'[k] # None => k \in made' BY <1>1, <1>2 DEF BookInv
<1>10. Cardinality(reserved') = LastIp - FirstIp + 1 - Room BY <1>1 DEF BookInv
<1>11. iter' # None => IterFits(iter', node', port') BY <1>1, <1>8
<1>12. QED BY <1>5, <1>6, <1>7, <1>9, <1>10, <1>11 DEF BookInv

\* Which ports a commit leaves, where they come from, and that nodes keep their targets.
LEMMA CommitKeeps ==
    ASSUME NetworkTyped, BookInv, Commit
    PROVE  /\ iter # None /\ IterOK(iter) /\ IterFits(iter, node, port) /\ iter' = None
           /\ Rows(port') = iter.new \union Rows(port)
           /\ \A p \in Rows(port') : port'[p] = iter.map[p]
           /\ \A n \in Nodes : node'[n] # None <=> node[n] # None
           /\ \A n \in Nodes : node[n] # None => node'[n].target = node[n].target
<1>1. iter # None /\ IterOK(iter) /\ IterFits(iter, node, port) /\ iter' = None
  BY DEF Commit, NetworkTyped, BookInv
<1>2. ~ iter.aborted BY <1>1 DEF IterFits
<1>3. port' = [p \in PortIds |-> IF p \in iter.new \/ port[p] # None THEN iter.map[p] ELSE None]
  BY <1>2 DEF Commit
<1>4. \A p \in iter.new : p \in PortIds /\ iter.map[p] # None BY <1>1 DEF IterFits, NewFits, Rows
<1>5. \A p \in Rows(port) : p \in PortIds /\ iter.map[p] # None BY <1>1 DEF IterFits, MapFollows, Rows
<1>6. /\ Rows(port') = iter.new \union Rows(port)
      /\ \A p \in Rows(port') : port'[p] = iter.map[p]
  BY <1>3, <1>4, <1>5 DEF Rows
<1> DEFINE L(n) == \E p \in iter.learn : iter.map[p].node = n
           c(n) == CHOOSE p \in iter.learn : iter.map[p].node = n
<1>7. node' = [n \in Nodes |-> IF node[n] # None /\ L(n) THEN [node[n] EXCEPT !.net = c(n)] ELSE node[n]]
  BY <1>2 DEF Commit
<1>8. \A n \in Nodes : L(n) => c(n) \in PortIds BY <1>1, IterFields
<1> HIDE DEF L, c
<1>9. ASSUME NEW n \in Nodes, node[n] # None
      PROVE  node'[n] # None /\ node'[n].target = node[n].target
  <2>1. node[n] \in NodeRows BY <1>9 DEF NetworkTyped, NetworkTypeOK
  <2>2. CASE L(n)
    <3>1. node'[n] = [node[n] EXCEPT !.net = c(n)] BY <1>7, <1>9, <2>2
    <3>2. c(n) \in PortIds BY <1>8, <2>2
    <3>3. node'[n].target = node[n].target BY <2>1, <3>1 DEF NodeRows
    <3>4. node'[n] \in NodeRows BY <2>1, <3>1, <3>2 DEF NodeRows
    <3>5. QED BY <3>3, <3>4, NetworkAssumption
  <2>3. CASE ~ L(n) BY <1>7, <1>9, <2>3
  <2>4. QED BY <2>2, <2>3
<1>10. \A n \in Nodes : node[n] = None => node'[n] = None BY <1>7
<1>11. QED BY <1>1, <1>6, <1>9, <1>10

\* A commit puts the new ports beside the old ones.
LEMMA CommitFits ==
    ASSUME NetworkTyped, BookInv, Commit
    PROVE  BookInv'
<1>1. /\ iter # None /\ IterOK(iter) /\ IterFits(iter, node, port) /\ iter' = None
      /\ Rows(port') = iter.new \union Rows(port)
      /\ \A p \in Rows(port') : port'[p] = iter.map[p]
      /\ \A n \in Nodes : node'[n] # None <=> node[n] # None
      /\ \A n \in Nodes : node[n] # None => node'[n].target = node[n].target
  BY CommitKeeps
<1>2. ASSUME NEW p \in iter.new
      PROVE  /\ port'[p] = iter.map[p] /\ RowFits(port'[p], node) /\ port'[p].node \in Nodes
             /\ \A q \in Rows(port) : port[q].node # port'[p].node
             /\ ~ port'[p].asked => port'[p].ip \notin iter.taken
  <2>1. port'[p] = iter.map[p] BY <1>1
  <2>2. p \in Rows(iter.map) BY <1>1 DEF IterFits, NewFits
  <2>3. iter.map[p].node \in Nodes BY <1>1, <2>2, IterFields
  <2>4. QED BY <1>1, <2>1, <2>3 DEF IterFits, NewFits
<1>3. ASSUME NEW p \in Rows(port)
      PROVE  /\ port'[p].node = port[p].node /\ port'[p].ip = port[p].ip /\ port'[p].asked = port[p].asked
             /\ port[p].ip \in iter.taken /\ RowFits(port'[p], node) /\ port'[p].node \in Nodes
  <2>1. port'[p] = iter.map[p] BY <1>1
  <2>2. /\ iter.map[p].node = port[p].node /\ iter.map[p].ip = port[p].ip
        /\ iter.map[p].asked = port[p].asked /\ port[p].ip \in iter.taken
    BY <1>1 DEF IterFits, MapFollows
  <2>3. port[p].node \in Nodes BY DEF Rows, NetworkTyped, NetworkTypeOK, Ports, PortRows
  <2>4. RowFits(port[p], node) BY DEF BookInv
  <2>5. RowFits(port'[p], node) BY <2>1, <2>2, <2>4 DEF RowFits
  <2>6. QED BY <2>1, <2>2, <2>3, <2>5
<1>4. PortsApart(port')
  <2> DEFINE Apart(p, q) == /\ port'[p].node # port'[q].node
                            /\ ~ port'[p].asked /\ ~ port'[q].asked => port'[p].ip # port'[q].ip
  <2>1. \A p, q \in iter.new : p # q => Apart(p, q) BY <1>1, <1>2 DEF IterFits, NewFits
  <2>2. \A p, q \in Rows(port) : p # q => Apart(p, q) BY <1>3 DEF BookInv, PortsApart
  <2>3. \A p \in iter.new, q \in Rows(port) : Apart(p, q) /\ Apart(q, p) BY <1>2, <1>3
  <2> HIDE DEF Apart
  <2>4. \A p, q \in Rows(port') : p # q => Apart(p, q) BY ONLY <1>1, <2>1, <2>2, <2>3
  <2>5. QED BY <2>4 DEF PortsApart, Apart
<1>5. TargetsApart(node')
  <2>1. HwNodes \subseteq Nodes BY DEF Nodes
  <2>2. \A n \in HwNodes : node'[n] # None => node'[n].target = None
    BY <1>1, <2>1 DEF BookInv, TargetsApart
  <2>3. \A m, n \in Nodes : m # n /\ node'[m] # None /\ node'[n] # None /\ node'[m].target # None
                               => node'[m].target # node'[n].target
    BY <1>1 DEF BookInv, TargetsApart
  <2>4. QED BY <2>2, <2>3 DEF TargetsApart
<1>6. \A p \in Rows(port') : RowFits(port'[p], node')
  <2>1. \A row : row.node \in Nodes /\ RowFits(row, node) => RowFits(row, node') BY <1>1 DEF RowFits
  <2>2. QED BY <1>1, <1>2, <1>3, <2>1
<1>7. made' = made /\ reserved' = reserved BY DEF Commit
<1>8. \A k \in Nodes : node'[k] # None => k \in made' BY <1>1, <1>7 DEF BookInv
<1>9. Cardinality(reserved') = LastIp - FirstIp + 1 - Room BY <1>7 DEF BookInv
<1>10. QED BY <1>1, <1>4, <1>5, <1>6, <1>8, <1>9 DEF BookInv

\* In the beginning there are neither nodes nor ports.
LEMMA BookInit == NetworkInit => NetworkTyped /\ BookInv
<1> SUFFICES ASSUME NetworkInit PROVE NetworkTyped /\ BookInv OBVIOUS
<1>1. NetworkTyped BY DEF NetworkInit, NetworkTyped, NetworkTypeOK, Ports, Hosts
<1>2. /\ \A n \in Nodes : node[n] = None
      /\ Rows(port) = {} /\ iter = None
      /\ Cardinality(reserved) = LastIp - FirstIp + 1 - Room
  BY DEF NetworkInit, Rows
<1>3. HwNodes \subseteq Nodes BY DEF Nodes
<1>4. BookInv BY <1>2, <1>3 DEF BookInv, PortsApart, TargetsApart
<1>5. QED BY <1>1, <1>4

\* Every step keeps the invariant of the book.
LEMMA BookStep ==
    ASSUME EnoughRoom, NetworkTyped, NetworkTyped', BookInv, [NetworkNext]_networkVars
    PROVE  BookInv'
<1>1. ASSUME node' = node /\ made' = made /\ port' = port /\ reserved' = reserved,
             iter' # None => IterFits(iter', node', port')
      PROVE  BookInv'
  BY <1>1 DEF BookInv
<1>2. ASSUME NEW n \in Nodes, NEW t \in Targets, CreateNode(n, t) PROVE BookInv' BY <1>2, CreateNodeFits
<1>3. ASSUME NEW n \in Nodes, DeleteNode(n) PROVE BookInv' BY <1>3, DeleteNodeFits
<1>4. ASSUME Snapshot PROVE BookInv'
  <2>1. IterFits(iter', node', port') BY <1>4, SnapshotFits
  <2>2. node' = node /\ made' = made /\ port' = port /\ reserved' = reserved BY <1>4 DEF Snapshot
  <2>3. QED BY <1>1, <2>1, <2>2
<1>5. ASSUME NEW n \in Nodes, AllocateVm(n) \/ AllocateHw(n) PROVE BookInv'
  <2>1. iter' # None => IterFits(iter', node', port') BY <1>5, AllocateFits
  <2>2. node' = node /\ made' = made /\ port' = port /\ reserved' = reserved
    BY <1>5 DEF AllocateVm, AllocateHw
  <2>3. QED BY <1>1, <2>1, <2>2
<1>6. ASSUME NEW a \in BOOLEAN, NEW b \in BOOLEAN, DataPlane(a, b) PROVE BookInv'
  <2>1. IterFits(iter', node', port') BY <1>6, DataPlaneFits
  <2>2. node' = node /\ made' = made /\ port' = port /\ reserved' = reserved BY <1>6 DEF DataPlane
  <2>3. QED BY <1>1, <2>1, <2>2
<1>7. ASSUME Commit PROVE BookInv' BY <1>7, CommitFits
<1>8. ASSUME Crash PROVE BookInv' BY <1>1, <1>8 DEF Crash
<1>9. ASSUME UNCHANGED networkVars PROVE BookInv' BY <1>9 DEF networkVars, BookInv
<1>10. QED BY <1>2, <1>3, <1>4, <1>5, <1>6, <1>7, <1>8, <1>9 DEF NetworkNext, Iterate

\* The address that the ports ps give to node n.
LeaseIn(n, ps) ==
    IF \E p \in PortsOf(n, ps) : ~ ps[p].asked
    THEN ps[CHOOSE p \in PortsOf(n, ps) : ~ ps[p].asked].ip ELSE None

\* It is the address of the one port of the node that nobody asked for.
LEMMA LeaseIs ==
    ASSUME NEW ps, PortsApart(ps), NEW n
    PROVE  /\ \A p \in PortsOf(n, ps) : ~ ps[p].asked => LeaseIn(n, ps) = ps[p].ip
           /\ (\A p \in PortsOf(n, ps) : ps[p].asked) => LeaseIn(n, ps) = None
<1>1. \A p, q \in PortsOf(n, ps) : p = q BY DEF PortsApart, PortsOf
<1>2. QED BY <1>1 DEF LeaseIn

\* A step of the network keeps the book, gives back the lease of a deleted node, or assigns
\* addresses that nobody holds.
LEMMA LeaseStep ==
    ASSUME EnoughRoom, NetworkTyped, BookInv, BookInv', [NetworkNext]_networkVars
    PROVE  [Book!LeasesNext]_leaseOf
<1>1. leaseOf = [n \in Nodes |-> LeaseIn(n, port)] BY DEF leaseOf, LeaseIn
<1>2. leaseOf' = [n \in Nodes |-> LeaseIn(n, port')] BY DEF leaseOf, LeaseIn
<1>3. PortsApart(port) /\ PortsApart(port') BY DEF BookInv
<1>4. ASSUME port' = port PROVE leaseOf' = leaseOf BY <1>1, <1>2, <1>4
<1>5. ASSUME NEW n \in Nodes, DeleteNode(n) PROVE Book!Release(n)
  <2>1. port' = [p \in PortIds |-> IF p \in PortsOf(n, port) THEN None ELSE port[p]]
    BY <1>5 DEF DeleteNode
  <2>2. PortsOf(n, port') = {} BY <2>1 DEF PortsOf, Rows
  <2>3. ASSUME NEW m \in Nodes, m # n PROVE LeaseIn(m, port') = LeaseIn(m, port)
    <3>1. /\ PortsOf(m, port') = PortsOf(m, port)
          /\ \A p \in PortsOf(m, port) : port'[p] = port[p]
      BY <2>1, <2>3 DEF PortsOf, Rows
    <3>2. CASE \E p \in PortsOf(m, port) : ~ port[p].asked
      <4>1. PICK p \in PortsOf(m, port) : ~ port[p].asked BY <3>2
      <4>2. LeaseIn(m, port) = port[p].ip BY <1>3, <4>1, LeaseIs
      <4>3. LeaseIn(m, port') = port'[p].ip BY <1>3, <3>1, <4>1, LeaseIs
      <4>4. QED BY <3>1, <4>2, <4>3
    <3>3. CASE \A p \in PortsOf(m, port) : port[p].asked
      <4>1. LeaseIn(m, port) = None BY <1>3, <3>3, LeaseIs
      <4>2. LeaseIn(m, port') = None BY <1>3, <3>1, <3>3, LeaseIs
      <4>3. QED BY <4>1, <4>2
    <3>4. QED BY <3>2, <3>3
  <2>4. LeaseIn(n, port') = None BY <2>2 DEF LeaseIn
  <2>5. leaseOf' = [leaseOf EXCEPT ![n] = None] BY <1>1, <1>2, <2>3, <2>4
  <2>6. QED BY <2>5 DEF Book!Release
<1>6. ASSUME Commit PROVE Book!Assign
  <2>1. /\ iter # None /\ IterFits(iter, node, port)
        /\ Rows(port') = iter.new \union Rows(port)
        /\ \A p \in Rows(port') : port'[p] = iter.map[p]
    BY <1>6, CommitKeeps
  <2>2. ASSUME NEW n \in Nodes, LeaseIn(n, port') # None
        PROVE  \E p \in PortsOf(n, port') : ~ port'[p].asked /\ LeaseIn(n, port') = port'[p].ip
    BY <1>3, <2>2, LeaseIs
  <2>3. ASSUME NEW n \in Nodes PROVE LeaseIn(n, port') \in (FirstIp .. LastIp) \union {None}
    <3>1. CASE LeaseIn(n, port') # None
      <4>1. PICK p \in PortsOf(n, port') : ~ port'[p].asked /\ LeaseIn(n, port') = port'[p].ip
        BY <2>2, <3>1
      <4>2. RowFits(port'[p], node') BY <4>1 DEF BookInv, PortsOf
      <4>3. QED BY <4>1, <4>2 DEF RowFits
    <3>2. QED BY <3>1
  <2>4. ASSUME NEW n \in Nodes, LeaseIn(n, port) # None
        PROVE  LeaseIn(n, port') = LeaseIn(n, port)
    <3>1. PICK p \in PortsOf(n, port) : ~ port[p].asked BY <1>3, <2>4, LeaseIs
    <3>2. LeaseIn(n, port) = port[p].ip BY <1>3, <3>1, LeaseIs
    <3>3. p \in Rows(port) /\ port[p].node = n BY DEF PortsOf
    <3>4. port'[p] = iter.map[p] /\ p \in Rows(port') BY <2>1, <3>3
    <3>5. /\ iter.map[p].node = n /\ iter.map[p].ip = port[p].ip /\ iter.map[p].asked = port[p].asked
      BY <2>1, <3>3 DEF IterFits, MapFollows
    <3>6. p \in PortsOf(n, port') /\ ~ port'[p].asked BY <3>1, <3>4, <3>5 DEF PortsOf
    <3>7. LeaseIn(n, port') = port'[p].ip BY <1>3, <3>6, LeaseIs
    <3>8. QED BY <3>2, <3>4, <3>5, <3>7
  <2>5. ASSUME NEW m \in Nodes, NEW n \in Nodes, m # n, LeaseIn(m, port') # None
        PROVE  LeaseIn(m, port') # LeaseIn(n, port')
    <3>1. CASE LeaseIn(n, port') = None BY <2>5, <3>1
    <3>2. CASE LeaseIn(n, port') # None
      <4>1. PICK p \in PortsOf(m, port') : ~ port'[p].asked /\ LeaseIn(m, port') = port'[p].ip
        BY <2>2, <2>5
      <4>2. PICK q \in PortsOf(n, port') : ~ port'[q].asked /\ LeaseIn(n, port') = port'[q].ip
        BY <2>2, <3>2
      <4>3. p \in Rows(port') /\ q \in Rows(port') /\ p # q BY <2>5 DEF PortsOf
      <4>4. port'[p].ip # port'[q].ip BY <1>3, <4>1, <4>2, <4>3 DEF PortsApart
      <4>5. QED BY <4>1, <4>2, <4>4
    <3>3. QED BY <3>1, <3>2
  <2>6. leaseOf' \in [Nodes -> (FirstIp .. LastIp) \union {None}] BY <1>2, <2>3
  <2>7. \A h \in Nodes : leaseOf[h] # None => leaseOf'[h] = leaseOf[h] BY <1>1, <1>2, <2>4
  <2>8. \A h, g \in Nodes : h # g /\ leaseOf'[h] # None => leaseOf'[h] # leaseOf'[g] BY <1>2, <2>5
  <2>9. QED BY <2>6, <2>7, <2>8 DEF Book!Assign
<1>7. ASSUME NetworkNext PROVE Book!LeasesNext \/ port' = port
  <2>1. \A n \in Nodes, t \in Targets : CreateNode(n, t) => port' = port BY DEF CreateNode
  <2>2. Snapshot \/ Crash => port' = port BY DEF Snapshot, Crash
  <2>3. \A n \in Nodes : AllocateVm(n) \/ AllocateHw(n) => port' = port BY DEF AllocateVm, AllocateHw
  <2>4. \A a, b \in BOOLEAN : DataPlane(a, b) => port' = port BY DEF DataPlane
  <2>5. QED BY <1>5, <1>6, <1>7, <2>1, <2>2, <2>3, <2>4 DEF NetworkNext, Iterate, Book!LeasesNext
<1>8. UNCHANGED networkVars => port' = port BY DEF networkVars
<1>9. QED BY <1>4, <1>7, <1>8

\* The network service implements the book of leases: an address that it hands out belongs
\* to one node, and to that one until it is deleted, whatever crashes, restarts or is deleted
\* in between - when clients are careful and at most one node can be left without an address
\* (NetworkService._iteration, Ipam). With two too many an address is handed out twice.
THEOREM LeasesKept == EnoughRoom => (NetworkSpec => LeasesHonoured)
<1> SUFFICES ASSUME EnoughRoom PROVE NetworkSpec => LeasesHonoured OBVIOUS
<1> DEFINE Inv == NetworkTyped /\ BookInv
<1>1. NetworkInit => Inv BY BookInit
<1>2. Inv /\ [NetworkNext]_networkVars => Inv' BY NetworkTypedStep, BookStep
<1>3. NetworkInit => Book!LeasesInit
  BY DEF NetworkInit, Book!LeasesInit, leaseOf, PortsOf, Rows
<1>4. Inv /\ Inv' /\ [NetworkNext]_networkVars => [Book!LeasesNext]_leaseOf BY LeaseStep
<1>5. QED BY <1>1, <1>2, <1>3, <1>4, PTL DEF NetworkSpec, LeasesHonoured, Book!LeasesSpec
-----------------------------------------------------------------------------
\* With room for all nodes but one the pool never contains an address that was taken, also
\* when clients ask for such an address.

\* A node that got a taken address has left the others one address more, so that the handler,
\* which gives back the address of the last port, is not reached after it.
Spared(i) ==
    /\ WellFormed(i.pool) /\ FreeAddresses(i.pool) \intersect i.taken = {}
    /\ i.last # None => i.last \in i.new
    /\ i.todo # {} /\ (\E p \in i.new : i.map[p].ip \in i.taken)
          => Cardinality(i.todo) <= Cardinality(FreeAddresses(i.pool))

\* Which port is the last one after an attempt, and which pool an empty one becomes.
LEMMA LastAfter ==
    ASSUME NetworkTyped, NEW n \in Nodes, AllocateVm(n) \/ AllocateHw(n), iter' # None
    PROVE  /\ iter'.last = iter.last \/ iter'.last = Fresh
           /\ iter.pool = <<>> =>
                 /\ iter'.last = iter.last
                 /\ \/ iter'.pool = iter.pool
                    \/ iter.last # None /\ iter'.pool = DeallocateIp(iter.map[iter.last].ip, iter.pool)
<1>1. CASE AllocateVm(n)
  <2> DEFINE r == [iter EXCEPT !.todo = @ \ {n}]
  <2>1. iter # None /\ FreshIds # {} /\ iter' \in Allocated(n, r) /\ IterOK(iter)
    BY <1>1 DEF AllocateVm, NetworkTyped
  <2>2. IterOK(r) /\ r.map = iter.map /\ r.pool = iter.pool /\ r.taken = iter.taken /\ r.last = iter.last
    BY <2>1, RestIs
  <2> HIDE DEF r
  <2>3. Attempted(n, r, iter') BY <2>1, <2>2, AllocatedIs
  <2>4. QED BY <2>2, <2>3 DEF Attempted
<1>2. CASE AllocateHw(n)
  <2>1. HwAttempted(n, iter, iter') BY <1>2, AllocateHwIs
  <2>2. QED BY <2>1 DEF HwAttempted
<1>3. QED BY <1>1, <1>2

\* Both kinds of allocation keep this.
LEMMA AllocateSpared ==
    ASSUME NetworkTyped, NetworkTyped', BookInv, Spared(iter), NEW n \in Nodes,
           AllocateVm(n) \/ AllocateHw(n), iter' # None
    PROVE  Spared(iter')
<1> DEFINE free == FreeAddresses(iter.pool)
           a == Cardinality(iter.todo)
           b == Cardinality(free)
<1>1. /\ iter # None /\ FreshIds # {} /\ n \in iter.todo
  BY DEF AllocateVm, AllocateHw
<1>2. IterOK(iter) /\ IterOK(iter') /\ IterFits(iter, node, port) BY <1>1 DEF NetworkTyped, BookInv
<1>3. node[n] # None /\ ~ TargetTaken(n) BY <1>1, NoRival
<1>4. ~ iter.aborted BY <1>2 DEF IterFits
<1>5. /\ WellFormed(iter.pool) /\ free \subseteq FirstIp .. LastIp /\ free \intersect iter.taken = {}
      /\ a <= b + 1 /\ iter.pool \in Pools
  BY <1>1, <1>2, IterFields DEF IterFits, PoolFits
<1>6. IsFiniteSet(iter.todo) /\ IsFiniteSet(free) /\ a \in Nat /\ b \in Nat
  BY <1>2, <1>5, FiniteSets1
<1>7. Cardinality(iter.todo \ {n}) = a - 1 BY <1>1, <1>6, FS_RemoveElement
<1>8. (\E p \in iter.new : iter.map[p].ip \in iter.taken) => a <= b BY <1>1 DEF Spared
<1>9. iter.last # None => iter.last \in iter.new BY DEF Spared
<1>10. CASE iter.pool = <<>>
  <2>1. Unserved(n, iter, iter') BY <1>3, <1>4, <1>10, VmServed, HwServed
  <2>2. /\ iter'.todo = iter.todo \ {n} /\ iter'.new = iter.new /\ iter'.taken = iter.taken
        /\ iter'.map = iter.map
    BY <2>1 DEF Unserved
  <2>3. free = {} BY <1>5, <1>10, FirstIsLeast
  <2>4. b = 0 BY <2>3, FS_EmptySet
  <2>5. a # 0 BY <1>1, <1>6, FS_EmptySet
  <2>6. ~ \E p \in iter.new : iter.map[p].ip \in iter.taken
    <3> HIDE DEF a, b
    <3>1. ~ (a <= b) BY <1>6, <2>4, <2>5
    <3>2. QED BY <1>8, <3>1
  <2>7. iter'.last = iter.last BY <1>10, LastAfter
  <2>8. WellFormed(iter'.pool) /\ FreeAddresses(iter'.pool) \intersect iter.taken = {}
    <3>1. CASE iter'.pool = iter.pool BY <1>5, <3>1
    <3>2. CASE iter.last # None /\ iter'.pool = DeallocateIp(iter.map[iter.last].ip, iter.pool)
      <4> DEFINE ip == iter.map[iter.last].ip
      <4>1. ip \notin iter.taken BY <1>9, <2>6, <3>2
      <4>2. ip \in Nat BY <1>2, <3>2, IterFields
      <4>3. ip \notin free BY <2>3
      <4> HIDE DEF ip
      <4>4. WellFormed(DeallocateIp(ip, iter.pool)) /\ FreeAddresses(DeallocateIp(ip, iter.pool)) = free \union {ip}
        BY <1>5, <4>2, <4>3, DeallocateIpIs
      <4>5. iter'.pool = DeallocateIp(ip, iter.pool) BY <3>2 DEF ip
      <4>6. QED BY <2>3, <4>1, <4>4, <4>5
    <3>3. QED BY <1>10, <3>1, <3>2, LastAfter
  <2>9. QED BY <1>9, <2>2, <2>6, <2>7, <2>8 DEF Spared
<1>11. CASE iter.pool # <<>>
  <2> DEFINE f == iter.pool[1][1]
             ip == IF AllocateVm(n) THEN Next1(n, iter) ELSE f
  <2>1. Served(n, ip, iter, iter') BY <1>3, <1>4, <1>11, VmServed, HwServed
  <2>2. ip \in Nat BY <1>2, <1>11, NextTyped
  <2> HIDE DEF ip
  <2>3. /\ iter'.todo = iter.todo \ {n} /\ iter'.new = iter.new \union {Fresh} /\ iter'.taken = iter.taken
        /\ iter'.map = [iter.map EXCEPT ![Fresh] = NewPort(n, ip)]
        /\ iter'.pool = OccupyIp(ip, iter.pool)
    BY <2>1 DEF Served
  <2>4. WellFormed(iter'.pool) /\ FreeAddresses(iter'.pool) = free \ {ip} BY <1>5, <2>2, <2>3, OccupyIpIs
  <2>5. Fresh \in PortIds /\ iter.map[Fresh] = None BY <1>1, FreshIs
  <2>6. \A p \in iter.new : p # Fresh /\ p \in PortIds
    BY <1>2, <2>5 DEF IterFits, NewFits, Rows
  <2>7. /\ iter'.map[Fresh].ip = ip
        /\ \A p \in iter.new : iter'.map[p] = iter.map[p]
    <3> DEFINE row == NewPort(n, ip)
    <3>1. row.ip = ip BY DEF NewPort
    <3> HIDE DEF row
    <3>2. iter'.map = [iter.map EXCEPT ![Fresh] = row] BY <2>3 DEF row
    <3>3. QED BY <1>2, <2>5, <2>6, <3>1, <3>2, IterFields DEF Ports
  <2>8. iter'.last # None => iter'.last \in iter'.new BY <1>9, <2>3, LastAfter
  <2>9. FreeAddresses(iter'.pool) \intersect iter'.taken = {} BY <1>5, <2>3, <2>4
  <2>10. ASSUME NEW p \in iter'.new, iter'.map[p].ip \in iter.taken
         PROVE  Cardinality(iter'.todo) <= Cardinality(FreeAddresses(iter'.pool))
    <3>1. Cardinality(free \ {ip}) = IF ip \in free THEN b - 1 ELSE b BY <1>6, FS_RemoveElement
    <3>2. a <= b \/ ip \notin free
      <4>1. CASE p = Fresh BY <1>5, <2>7, <2>10, <4>1
      <4>2. CASE p \in iter.new BY <1>8, <2>7, <2>10, <4>2
      <4>3. QED BY <2>3, <4>1, <4>2
    <3> DEFINE c == Cardinality(iter.todo \ {n})
               d == Cardinality(free \ {ip})
    <3>3. c = a - 1 /\ (d = b \/ (d = b - 1 /\ a <= b)) BY <1>7, <3>1, <3>2
    <3> HIDE DEF a, b, c, d
    <3>4. c <= d BY <1>5, <1>6, <3>3
    <3>5. QED BY <2>3, <2>4, <3>4 DEF c, d
  <2>11. QED BY <2>3, <2>4, <2>8, <2>9, <2>10 DEF Spared
<1>12. QED BY <1>10, <1>11

\* So does every other step.
LEMMA SparedStep ==
    ASSUME NetworkTyped, NetworkTyped', BookInv, iter # None => Spared(iter),
           [NetworkNext]_networkVars
    PROVE  iter' # None => Spared(iter')
<1>1. ASSUME UNCHANGED iter PROVE iter' # None => Spared(iter') BY <1>1
<1>2. ASSUME Snapshot PROVE Spared(iter')
  <2>1. iter'.last = None /\ Sound(iter'.pool, FirstIp, LastIp, iter'.taken) BY <1>2, SnapshotIs
  <2>2. iter'.new = {} BY <1>2 DEF Snapshot
  <2>3. QED BY <2>1, <2>2 DEF Spared, Sound
<1>3. ASSUME NEW n \in Nodes, AllocateVm(n) \/ AllocateHw(n) PROVE iter' # None => Spared(iter')
  <2>1. iter # None BY <1>3 DEF AllocateVm, AllocateHw
  <2>2. QED BY <1>3, <2>1, AllocateSpared
<1>4. ASSUME NEW a \in BOOLEAN, NEW b \in BOOLEAN, DataPlane(a, b) PROVE Spared(iter')
  <2>1. iter # None /\ iter.todo = {} BY <1>4 DEF DataPlane
  <2>2. /\ iter'.taken = iter.taken /\ iter'.last = iter.last /\ iter'.pool = iter.pool
        /\ iter'.new = iter.new /\ iter'.todo = iter.todo
    BY <1>4, DataPlaneIs
  <2>3. QED BY <2>1, <2>2 DEF Spared
<1>5. ASSUME Commit \/ Crash PROVE iter' = None BY <1>5 DEF Commit, Crash
<1>6. ASSUME \/ \E n \in Nodes, t \in Targets : CreateNode(n, t)
             \/ \E n \in Nodes : DeleteNode(n)
             \/ UNCHANGED networkVars
      PROVE  UNCHANGED iter
  BY <1>6 DEF CreateNode, DeleteNode, networkVars
<1>7. QED BY <1>1, <1>2, <1>3, <1>4, <1>5, <1>6 DEF NetworkNext, Iterate

\* With addresses for all nodes but one and careful clients, the pool never contains an
\* address that a port had when the iteration began, also when clients ask for one that is
\* taken or lies outside of the range (Ipam, NetworkService._iteration).
THEOREM PoolWithTargets == EnoughRoom => (NetworkSpec => []PoolExcludesTaken)
<1> SUFFICES ASSUME EnoughRoom PROVE NetworkSpec => []PoolExcludesTaken OBVIOUS
<1> DEFINE Inv == NetworkTyped /\ BookInv /\ (iter # None => Spared(iter))
<1>1. NetworkInit => Inv BY BookInit DEF NetworkInit
<1>2. Inv /\ [NetworkNext]_networkVars => Inv' BY NetworkTypedStep, BookStep, SparedStep
<1>3. Inv => PoolExcludesTaken BY DEF Spared, PoolExcludesTaken
<1>4. QED BY <1>1, <1>2, <1>3, PTL DEF NetworkSpec
=============================================================================
