-------------------------- MODULE LinkedListProofs --------------------------
(***************************************************************************)
(* The pointer writes of list.c keep every list a ring and implement       *)
(* sequences, for any number of lists, any heap and any data.  The         *)
(* invariant says that some sequence of addresses per list is what the     *)
(* pointers lay out; each function changes that sequence in one place.     *)
(***************************************************************************)
EXTENDS LinkedList, ListTheorems, FiniteSetTheorems

\* The position behind position i of a ring of n items; behind the tail, and
\* behind "position 0", is the head.
After(i, n) == IF i = n THEN 1 ELSE i + 1

\* The position of the item that insertion behind position k links from.
At(k, n) == IF k = 0 THEN n ELSE k

\* The pointers link the items of s into one ring, in both directions.
Linked(s, nx, pv) ==
  /\ IsInjective(s)
  /\ \A i \in 1 .. Len(s) :
       /\ nx[s[i]] = s[After(i, Len(s))]
       /\ pv[s[After(i, Len(s))]] = s[i]

\* What the provers need to know of a ring, by position.
LEMMA RingByPosition ==
  ASSUME NEW s \in Seq(ADDRS), NEW nx, NEW pv, Linked(s, nx, pv)
  PROVE  /\ Len(s) \in Nat /\ DOMAIN s = 1 .. Len(s)
         /\ s # <<>> => Len(s) # 0
         /\ \A i \in 1 .. Len(s) : s[i] \in ADDRS /\ s[i] \in Range(s)
         /\ \A i, j \in 1 .. Len(s) : s[i] = s[j] => i = j
         /\ \A i \in 1 .. Len(s) - 1 : nx[s[i]] = s[i + 1] /\ pv[s[i + 1]] = s[i]
         /\ s # <<>> => nx[s[Len(s)]] = s[1] /\ pv[s[1]] = s[Len(s)]
<1>1. Len(s) \in Nat /\ DOMAIN s = 1 .. Len(s) /\ (s # <<>> => Len(s) # 0)
      /\ \A i \in 1 .. Len(s) : s[i] \in ADDRS
  BY LenProperties, EmptySeq
<1>2. \A i \in 1 .. Len(s) : s[i] \in Range(s)
  BY <1>1 DEF Range
<1>3. \A i, j \in 1 .. Len(s) : s[i] = s[j] => i = j
  BY <1>1 DEF Linked, IsInjective
<1> DEFINE n == Len(s)
<1>4. n \in Nat /\ (s # <<>> => n # 0)
  BY <1>1
<1>5. \A i \in 1 .. n : nx[s[i]] = s[After(i, n)] /\ pv[s[After(i, n)]] = s[i]
  BY DEF Linked
<1> HIDE DEF n
<1>6. ASSUME NEW i \in 1 .. n - 1
      PROVE  nx[s[i]] = s[i + 1] /\ pv[s[i + 1]] = s[i]
  <2>1. i \in 1 .. n /\ After(i, n) = i + 1
    BY <1>4 DEF After
  <2> QED BY <1>5, <2>1
<1>7. ASSUME s # <<>> PROVE nx[s[n]] = s[1] /\ pv[s[1]] = s[n]
  <2>1. n \in 1 .. n /\ After(n, n) = 1
    BY <1>4, <1>7 DEF After
  <2> QED BY <1>5, <2>1
<1> QED BY <1>1, <1>2, <1>3, <1>6, <1>7 DEF n

\* And what makes one.
LEMMA RingFromPositions ==
  ASSUME NEW s \in Seq(ADDRS), NEW nx, NEW pv, IsInjective(s),
         \A i \in 1 .. Len(s) - 1 : nx[s[i]] = s[i + 1] /\ pv[s[i + 1]] = s[i],
         s # <<>> => nx[s[Len(s)]] = s[1] /\ pv[s[1]] = s[Len(s)]
  PROVE  Linked(s, nx, pv)
<1> DEFINE n == Len(s)
<1>1. n \in Nat /\ (n # 0 => s # <<>>)
  BY LenProperties, EmptySeq
<1>2. \A i \in 1 .. n - 1 : nx[s[i]] = s[i + 1] /\ pv[s[i + 1]] = s[i]
  OBVIOUS
<1>3. n # 0 => nx[s[n]] = s[1] /\ pv[s[1]] = s[n]
  BY <1>1
<1> HIDE DEF n
<1>4. ASSUME NEW i \in 1 .. n
      PROVE  nx[s[i]] = s[After(i, n)] /\ pv[s[After(i, n)]] = s[i]
  <2>1. CASE i = n
    BY <1>1, <1>3, <2>1 DEF After
  <2>2. CASE i # n
    <3>1. i \in 1 .. n - 1 /\ After(i, n) = i + 1
      BY <1>1, <2>2 DEF After
    <3> QED BY <1>2, <3>1
  <2> QED BY <2>1, <2>2
<1> QED BY <1>4 DEF Linked, n

\* Pointers that a ring does not use may change.
LEMMA RingFrame ==
  ASSUME NEW s \in Seq(ADDRS), NEW nx, NEW pv, NEW nx2, NEW pv2,
         Linked(s, nx, pv),
         \A b \in Range(s) : nx2[b] = nx[b] /\ pv2[b] = pv[b]
  PROVE  Linked(s, nx2, pv2)
<1> DEFINE n == Len(s)
<1>1. /\ n \in Nat /\ (s # <<>> => n # 0)
      /\ \A i \in 1 .. n : s[i] \in Range(s)
      /\ \A i \in 1 .. n - 1 : nx[s[i]] = s[i + 1] /\ pv[s[i + 1]] = s[i]
      /\ s # <<>> => nx[s[n]] = s[1] /\ pv[s[1]] = s[n]
  BY RingByPosition
<1> HIDE DEF n
<1>2. ASSUME NEW i \in 1 .. n - 1
      PROVE  nx2[s[i]] = s[i + 1] /\ pv2[s[i + 1]] = s[i]
  <2>1. i \in 1 .. n /\ i + 1 \in 1 .. n
    BY <1>1
  <2> QED BY <1>1, <2>1
<1>3. ASSUME s # <<>> PROVE nx2[s[n]] = s[1] /\ pv2[s[1]] = s[n]
  <2>1. n \in 1 .. n /\ 1 \in 1 .. n
    BY <1>1, <1>3
  <2> QED BY <1>1, <1>3, <2>1
<1>4. IsInjective(s)
  BY DEF Linked
<1> QED BY <1>2, <1>3, <1>4, RingFromPositions DEF n

\* The four writes of an insertion put the new item behind position k.
LEMMA RingInsert ==
  ASSUME NEW s \in Seq(ADDRS), s # <<>>, NEW k \in 0 .. Len(s),
         NEW a \in ADDRS, a \notin Range(s),
         NEW nx, NEW pv, NEW nx2, NEW pv2, Linked(s, nx, pv),
         nx2[a] = s[After(k, Len(s))], nx2[s[At(k, Len(s))]] = a,
         pv2[a] = s[At(k, Len(s))], pv2[s[After(k, Len(s))]] = a,
         \A b \in Range(s) : b # s[At(k, Len(s))] => nx2[b] = nx[b],
         \A b \in Range(s) : b # s[After(k, Len(s))] => pv2[b] = pv[b]
  PROVE  Linked(InsertAt(s, k + 1, a), nx2, pv2)
<1> DEFINE n == Len(s)
           t == InsertAt(s, k + 1, a)
<1>1. /\ n \in Nat \ {0}
      /\ \A i \in 1 .. n : s[i] \in ADDRS /\ s[i] \in Range(s)
      /\ \A i, j \in 1 .. n : s[i] = s[j] => i = j
      /\ \A i \in 1 .. n - 1 : nx[s[i]] = s[i + 1] /\ pv[s[i + 1]] = s[i]
      /\ nx[s[n]] = s[1] /\ pv[s[1]] = s[n]
  BY RingByPosition
<1>2. k \in 0 .. n /\ k + 1 \in 1 .. Len(s) + 1
  BY <1>1
<1>3. t \in Seq(ADDRS) /\ IsInjective(t)
  BY <1>2, InsertAtFacts DEF Linked
<1>4. /\ Len(t) = n + 1
      /\ \A i \in 1 .. n + 1 : t[i] = IF i < k + 1 THEN s[i]
                                     ELSE IF i = k + 1 THEN a ELSE s[i - 1]
  <2> DEFINE m == k + 1
  <2>1. m \in 1 .. Len(s) + 1
    BY <1>2
  <2> HIDE DEF m
  <2>2. /\ Len(InsertAt(s, m, a)) = Len(s) + 1
        /\ \A i \in 1 .. Len(s) + 1 :
             InsertAt(s, m, a)[i] = IF i < m THEN s[i]
                                    ELSE IF i = m THEN a ELSE s[i - 1]
    BY <2>1, InsertAtIndex
  <2> QED BY <2>2 DEF m
<1>5. /\ nx2[a] = s[After(k, n)] /\ nx2[s[At(k, n)]] = a
      /\ pv2[a] = s[At(k, n)] /\ pv2[s[After(k, n)]] = a
      /\ \A i \in 1 .. n : s[i] # s[At(k, n)] => nx2[s[i]] = nx[s[i]]
      /\ \A i \in 1 .. n : s[i] # s[After(k, n)] => pv2[s[i]] = pv[s[i]]
  BY <1>1
<1> HIDE DEF n, t
<1>6. /\ \A i \in 1 .. k : t[i] = s[i]
      /\ t[k + 1] = a
      /\ \A i \in k + 2 .. n + 1 : t[i] = s[i - 1]
  BY <1>1, <1>2, <1>4
<1>7. At(k, n) \in 1 .. n /\ After(k, n) \in 1 .. n
  BY <1>1, <1>2 DEF At, After
<1>8. ASSUME NEW i \in 1 .. n, i # At(k, n) PROVE nx2[s[i]] = nx[s[i]]
  BY <1>1, <1>5, <1>7, <1>8
<1>9. ASSUME NEW i \in 1 .. n, i # After(k, n) PROVE pv2[s[i]] = pv[s[i]]
  BY <1>1, <1>5, <1>7, <1>9
<1>10. ASSUME NEW i \in 1 .. n
       PROVE  nx2[t[i]] = t[i + 1] /\ pv2[t[i + 1]] = t[i]
  <2>1. CASE i < k
    <3>1. t[i] = s[i] /\ t[i + 1] = s[i + 1] /\ i \in 1 .. n - 1
          /\ i + 1 \in 1 .. n
      BY <1>1, <1>2, <1>6, <2>1
    <3>2. i # At(k, n) /\ i + 1 # After(k, n)
      BY <1>1, <1>2, <2>1 DEF At, After
    <3> QED BY <1>1, <1>8, <1>9, <3>1, <3>2
  <2>2. CASE i = k
    <3>1. t[i] = s[k] /\ t[i + 1] = a /\ At(k, n) = k
      BY <1>1, <1>2, <1>6, <2>2 DEF At
    <3> QED BY <1>5, <3>1
  <2>3. CASE i = k + 1
    <3>1. t[i] = a /\ t[i + 1] = s[k + 1] /\ After(k, n) = k + 1
      BY <1>1, <1>2, <1>6, <2>3 DEF After
    <3> QED BY <1>5, <3>1
  <2>4. CASE i > k + 1
    <3>0. /\ i \in k + 2 .. n + 1 /\ i + 1 \in k + 2 .. n + 1 /\ (i + 1) - 1 = i
          /\ i - 1 \in 1 .. n - 1 /\ i - 1 \in 1 .. n
      BY <1>1, <1>2, <2>4
    <3>1. t[i] = s[i - 1] /\ t[i + 1] = s[i]
      <4>1. t[i + 1] = s[(i + 1) - 1]
        BY <1>6, <3>0
      <4> QED BY <1>6, <3>0, <4>1
    <3>2. i - 1 # At(k, n) /\ i # After(k, n)
      BY <1>1, <1>2, <2>4 DEF At, After
    <3>3. nx[s[i - 1]] = s[i] /\ pv[s[i]] = s[i - 1]
      <4>1. (i - 1) + 1 = i
        OBVIOUS
      <4>2. nx[s[i - 1]] = s[(i - 1) + 1] /\ pv[s[(i - 1) + 1]] = s[i - 1]
        BY <1>1, <3>0
      <4> QED BY <4>1, <4>2
    <3> QED BY <1>8, <1>9, <3>0, <3>1, <3>2, <3>3
  <2> QED BY <1>1, <1>2, <2>1, <2>2, <2>3, <2>4
<1>11. nx2[t[n + 1]] = t[1] /\ pv2[t[1]] = t[n + 1]
  <2>1. CASE k = 0
    <3>1. t[1] = a /\ t[n + 1] = s[n] /\ At(k, n) = n
      BY <1>1, <1>2, <1>6, <2>1 DEF At
    <3> QED BY <1>5, <3>1
  <2>2. CASE k = n
    <3>1. t[1] = s[1] /\ t[n + 1] = a /\ After(k, n) = 1
      BY <1>1, <1>2, <1>6, <2>2 DEF After
    <3> QED BY <1>5, <3>1
  <2>3. CASE 0 < k /\ k < n
    <3>1. t[1] = s[1] /\ t[n + 1] = s[n] /\ n # At(k, n) /\ 1 # After(k, n)
      BY <1>1, <1>2, <1>6, <2>3 DEF At, After
    <3> QED BY <1>1, <1>8, <1>9, <3>1
  <2> QED BY <1>1, <1>2, <2>1, <2>2, <2>3
<1>12. \A i \in 1 .. Len(t) - 1 : nx2[t[i]] = t[i + 1] /\ pv2[t[i + 1]] = t[i]
  BY <1>1, <1>4, <1>10
<1>13. nx2[t[Len(t)]] = t[1] /\ pv2[t[1]] = t[Len(t)]
  BY <1>4, <1>11
<1>14. Linked(t, nx2, pv2)
  BY <1>3, <1>12, <1>13, RingFromPositions
<1> QED BY <1>14 DEF t

\* Unlinking the item at position k of a longer ring closes the gap.
LEMMA RingRemove ==
  ASSUME NEW s \in Seq(ADDRS), Len(s) > 1, NEW k \in 1 .. Len(s),
         NEW nx, NEW pv, NEW nx2, NEW pv2, Linked(s, nx, pv),
         \A b \in Range(s) \ {s[k]} :
           /\ nx2[b] = IF b = pv[s[k]] THEN nx[s[k]] ELSE nx[b]
           /\ pv2[b] = IF b = nx[s[k]] THEN pv[s[k]] ELSE pv[b]
  PROVE  Linked(RemoveAt(s, k), nx2, pv2)
<1> DEFINE n == Len(s)
           t == RemoveAt(s, k)
<1>1. /\ n \in Nat /\ n > 1
      /\ \A i \in 1 .. n : s[i] \in ADDRS /\ s[i] \in Range(s)
      /\ \A i, j \in 1 .. n : s[i] = s[j] => i = j
      /\ \A i \in 1 .. n - 1 : nx[s[i]] = s[i + 1] /\ pv[s[i + 1]] = s[i]
      /\ nx[s[n]] = s[1] /\ pv[s[1]] = s[n]
  <2>1. s # <<>>
    BY EmptySeq
  <2> QED BY <2>1, RingByPosition
<1>2. k \in 1 .. n
  OBVIOUS
<1>3. /\ t \in Seq(ADDRS) /\ Len(t) = n - 1
      /\ \A i \in 1 .. n - 1 : t[i] = IF i < k THEN s[i] ELSE s[i + 1]
  BY RemoveAtIndex
<1>4. \A i \in 1 .. n : i # k =>
        /\ nx2[s[i]] = IF s[i] = pv[s[k]] THEN nx[s[k]] ELSE nx[s[i]]
        /\ pv2[s[i]] = IF s[i] = nx[s[k]] THEN pv[s[k]] ELSE pv[s[i]]
  BY <1>1, <1>2
<1>5. DOMAIN t = 1 .. n - 1
  BY <1>3, LenProperties
<1> HIDE DEF n, t
<1>6. IsInjective(t)
  <2>1. SUFFICES ASSUME NEW i \in 1 .. n - 1, NEW j \in 1 .. n - 1, t[i] = t[j]
                 PROVE  i = j
    BY <1>5 DEF IsInjective
  <2> DEFINE u == IF i < k THEN i ELSE i + 1
             v == IF j < k THEN j ELSE j + 1
  <2>2. u \in 1 .. n /\ v \in 1 .. n /\ t[i] = s[u] /\ t[j] = s[v]
    BY <1>1, <1>2, <1>3
  <2> HIDE DEF u, v
  <2>3. u = v
    <3>1. s[u] = s[v]
      BY <2>1, <2>2
    <3>2. \A c, d \in 1 .. n : s[c] = s[d] => c = d
      BY <1>1
    <3> QED BY <2>2, <3>1, <3>2
  <2> QED BY <1>1, <1>2, <2>3 DEF u, v
\* The positions before and behind k in the old ring.
<1> DEFINE p == IF k = 1 THEN n ELSE k - 1
           q == IF k = n THEN 1 ELSE k + 1
<1>7. p \in 1 .. n /\ q \in 1 .. n /\ p # k /\ q # k
      /\ pv[s[k]] = s[p] /\ nx[s[k]] = s[q]
  <2>1. p \in 1 .. n /\ q \in 1 .. n /\ p # k /\ q # k
    BY <1>1, <1>2
  <2>2. pv[s[k]] = s[p]
    <3>1. CASE k = 1
      BY <1>1, <3>1
    <3>2. CASE k # 1
      <4>1. k - 1 \in 1 .. n - 1 /\ (k - 1) + 1 = k
        BY <1>1, <1>2, <3>2
      <4>2. pv[s[(k - 1) + 1]] = s[k - 1]
        BY <1>1, <4>1
      <4> QED BY <3>2, <4>1, <4>2
    <3> QED BY <3>1, <3>2
  <2>3. nx[s[k]] = s[q]
    <3>1. CASE k = n
      BY <1>1, <3>1
    <3>2. CASE k # n
      <4>1. k \in 1 .. n - 1
        BY <1>1, <1>2, <3>2
      <4> QED BY <1>1, <3>2, <4>1
    <3> QED BY <3>1, <3>2
  <2> QED BY <2>1, <2>2, <2>3
<1>8. /\ nx2[s[p]] = s[q] /\ pv2[s[q]] = s[p]
      /\ \A i \in 1 .. n : i # k /\ i # p => nx2[s[i]] = nx[s[i]]
      /\ \A i \in 1 .. n : i # k /\ i # q => pv2[s[i]] = pv[s[i]]
  BY <1>1, <1>4, <1>7
<1>9. /\ \A i \in 1 .. k - 1 : t[i] = s[i]
      /\ \A i \in k .. n - 1 : t[i] = s[i + 1]
  BY <1>1, <1>2, <1>3
<1>10. ASSUME NEW i \in 1 .. n - 2
       PROVE  nx2[t[i]] = t[i + 1] /\ pv2[t[i + 1]] = t[i]
  <2>1. CASE i < k - 1
    <3>1. /\ t[i] = s[i] /\ t[i + 1] = s[i + 1]
          /\ i \in 1 .. n - 1 /\ i \in 1 .. n /\ i + 1 \in 1 .. n
          /\ i # k /\ i # p /\ i + 1 # k /\ i + 1 # q
      BY <1>1, <1>2, <1>9, <2>1
    <3>2. nx[s[i]] = s[i + 1] /\ pv[s[i + 1]] = s[i]
      BY <1>1, <3>1
    <3> QED BY <1>8, <3>1, <3>2
  <2>2. CASE i = k - 1
    <3>1. p = i /\ q = k + 1 /\ t[i] = s[i] /\ t[i + 1] = s[k + 1]
      BY <1>1, <1>2, <1>9, <2>2
    <3> QED BY <1>8, <3>1
  <2>3. CASE i > k - 1
    <3>0. /\ i \in k .. n - 1 /\ i + 1 \in k .. n - 1
          /\ i + 1 \in 1 .. n /\ i + 2 \in 1 .. n
          /\ i + 1 # k /\ i + 1 # p /\ i + 2 # k /\ i + 2 # q
          /\ (i + 1) + 1 = i + 2 /\ i + 1 \in 1 .. n - 1
      BY <1>1, <1>2, <2>3
    <3>1. t[i] = s[i + 1] /\ t[i + 1] = s[i + 2]
      <4>1. t[i + 1] = s[(i + 1) + 1]
        BY <1>9, <3>0
      <4> QED BY <1>9, <3>0, <4>1
    <3>2. nx[s[i + 1]] = s[i + 2] /\ pv[s[i + 2]] = s[i + 1]
      <4>1. nx[s[i + 1]] = s[(i + 1) + 1] /\ pv[s[(i + 1) + 1]] = s[i + 1]
        BY <1>1, <3>0
      <4> QED BY <3>0, <4>1
    <3> QED BY <1>8, <3>0, <3>1, <3>2
  <2> QED BY <1>1, <1>2, <2>1, <2>2, <2>3
<1>11. nx2[t[n - 1]] = t[1] /\ pv2[t[1]] = t[n - 1]
  <2>1. CASE k = 1
    <3>1. p = n /\ q = 2 /\ t[1] = s[2] /\ t[n - 1] = s[n]
      BY <1>1, <1>2, <1>9, <2>1
    <3> QED BY <1>8, <3>1
  <2>2. CASE k = n
    <3>1. p = n - 1 /\ q = 1 /\ t[1] = s[1] /\ t[n - 1] = s[n - 1]
      BY <1>1, <1>2, <1>9, <2>2
    <3> QED BY <1>8, <3>1
  <2>3. CASE k # 1 /\ k # n
    <3>1. /\ t[1] = s[1] /\ t[n - 1] = s[n] /\ n # p /\ 1 # q
          /\ n \in 1 .. n /\ 1 \in 1 .. n
      BY <1>1, <1>2, <1>9, <2>3
    <3> QED BY <1>1, <1>8, <2>3, <3>1
  <2> QED BY <2>1, <2>2, <2>3
<1>12. Len(t) - 1 = n - 2 /\ Len(t) = n - 1
  BY <1>1, <1>3
<1>13. Linked(t, nx2, pv2)
  BY <1>3, <1>6, <1>10, <1>11, <1>12, RingFromPositions
<1> QED BY <1>13 DEF t

\* A ring may be read from its second item.
LEMMA RingRotate ==
  ASSUME NEW s \in Seq(ADDRS), s # <<>>, NEW nx, NEW pv, Linked(s, nx, pv)
  PROVE  Linked(ListRotate(s), nx, pv)
<1> DEFINE n == Len(s)
           t == ListRotate(s)
<1>1. /\ n \in Nat \ {0}
      /\ \A i \in 1 .. n - 1 : nx[s[i]] = s[i + 1] /\ pv[s[i + 1]] = s[i]
      /\ nx[s[n]] = s[1] /\ pv[s[1]] = s[n]
  BY RingByPosition
<1>2. /\ t \in Seq(ADDRS) /\ Len(t) = n
      /\ \A i \in 1 .. n : t[i] = IF i = n THEN s[1] ELSE s[i + 1]
  BY RotateIndex
<1>3. IsInjective(t)
  BY RotateFacts DEF Linked
<1> HIDE DEF n, t
<1>4. ASSUME NEW i \in 1 .. n - 1
      PROVE  nx[t[i]] = t[i + 1] /\ pv[t[i + 1]] = t[i]
  <2>1. t[i] = s[i + 1] /\ t[i + 1] = IF i + 1 = n THEN s[1] ELSE s[(i + 1) + 1]
    BY <1>1, <1>2
  <2>2. CASE i + 1 = n
    BY <1>1, <2>1, <2>2
  <2>3. CASE i + 1 # n
    <3>1. i + 1 \in 1 .. n - 1
      BY <1>1, <2>3
    <3> QED BY <1>1, <2>1, <2>3, <3>1
  <2> QED BY <2>2, <2>3
<1>5. nx[t[n]] = t[1] /\ pv[t[1]] = t[n]
  <2>1. t[n] = s[1] /\ t[1] = IF 1 = n THEN s[1] ELSE s[1 + 1]
    BY <1>1, <1>2
  <2>2. CASE n = 1
    BY <1>1, <2>1, <2>2
  <2>3. CASE n # 1
    <3>1. 1 \in 1 .. n - 1
      BY <1>1, <2>3
    <3> QED BY <1>1, <2>1, <2>3, <3>1
  <2> QED BY <2>2, <2>3
<1>6. Linked(t, nx, pv)
  BY <1>2, <1>3, <1>4, <1>5, RingFromPositions
<1> QED BY <1>6 DEF t

\* What comes first after an insertion.
LEMMA InsertAtFirst ==
  ASSUME NEW s \in Seq(ADDRS), NEW k \in 1 .. Len(s) + 1, NEW a \in ADDRS
  PROVE  /\ InsertAt(s, k, a) \in Seq(ADDRS)
         /\ Len(InsertAt(s, k, a)) = Len(s) + 1
         /\ InsertAt(s, k, a)[1] = IF k = 1 THEN a ELSE s[1]
<1> DEFINE n == Len(s)
           t == InsertAt(s, k, a)
<1>1. /\ t \in Seq(ADDRS) /\ Len(t) = n + 1
      /\ \A i \in 1 .. n + 1 : t[i] = IF i < k THEN s[i]
                                     ELSE IF i = k THEN a ELSE s[i - 1]
  BY InsertAtIndex
<1>2. n \in Nat /\ k \in 1 .. n + 1
  BY LenProperties
<1> HIDE DEF n, t
<1>3. 1 \in 1 .. n + 1 /\ (k # 1 => 1 < k)
  BY <1>2
<1>4. t[1] = IF k = 1 THEN a ELSE s[1]
  BY <1>1, <1>3
<1> QED BY <1>1, <1>4 DEF n, t

-----------------------------------------------------------------------------
(* The walk along next                                                     *)

\* w visits m items from h along nx.
IsWalk(w, h, nx, m) ==
  w = [i \in 1 .. m |-> IF i = 1 THEN h ELSE nx[w[i - 1]]]

\* Walk, of any head and any next pointers.
WalkOf(h, nx) == CHOOSE w : IsWalk(w, h, nx, Cardinality(ADDRS))

\* There is a walk of every length: a shortest missing one could be made from
\* its predecessor.
LEMMA WalkExists ==
  ASSUME NEW h, NEW nx, NEW m \in Nat
  PROVE  \E w : IsWalk(w, h, nx, m)
<1> DEFINE missing == {c \in Nat : ~\E w : IsWalk(w, h, nx, c)}
<1>1. SUFFICES ASSUME missing # {} PROVE FALSE
  OBVIOUS
<1>2. PICK c \in missing : \A d \in missing : c <= d
  <2>1. missing \in SUBSET Nat
    OBVIOUS
  <2> HIDE DEF missing
  <2> QED BY <1>1, <2>1, LeastNumber
<1>3. c \in Nat /\ ~\E w : IsWalk(w, h, nx, c)
  OBVIOUS
<1>4. c # 0
  <2> DEFINE none == [i \in 1 .. 0 |-> h]
  <2>1. IsWalk(none, h, nx, 0)
    BY DEF IsWalk
  <2> QED BY <1>3, <2>1
<1>5. c - 1 \in Nat /\ c - 1 \notin missing
  <2> HIDE DEF missing
  <2>1. c - 1 \in Nat /\ ~(c <= c - 1)
    BY <1>3, <1>4
  <2> QED BY <1>2, <2>1
<1>6. PICK g : IsWalk(g, h, nx, c - 1)
  BY <1>5
<1> DEFINE w == [i \in 1 .. c |-> IF i = 1 THEN h ELSE nx[g[i - 1]]]
<1>7. ASSUME NEW i \in 1 .. c - 1 PROVE w[i] = g[i]
  <2>1. g[i] = IF i = 1 THEN h ELSE nx[g[i - 1]]
    BY <1>6, <1>7 DEF IsWalk
  <2>2. i \in 1 .. c
    BY <1>3
  <2> QED BY <2>1, <2>2
<1>8. \A i \in 1 .. c : i # 1 => i - 1 \in 1 .. c - 1
  BY <1>3
<1>9. w = [i \in 1 .. c |-> IF i = 1 THEN h ELSE nx[w[i - 1]]]
  BY <1>7, <1>8
<1>10. IsWalk(w, h, nx, c)
  BY <1>9 DEF IsWalk
<1> QED BY <1>3, <1>10

\* Walk is that walk, from the head of the list.
LEMMA WalkIsWalkOf ==
  ASSUME NEW l
  PROVE  Walk(l) = WalkOf(head[l], next)
BY DEF Walk, WalkOf, IsWalk

\* Where the walk goes, step by step.
LEMMA WalkSteps ==
  ASSUME NEW h, NEW nx
  PROVE  \A i \in 1 .. Cardinality(ADDRS) :
           WalkOf(h, nx)[i] = IF i = 1 THEN h ELSE nx[WalkOf(h, nx)[i - 1]]
<1>1. Cardinality(ADDRS) \in Nat
  BY LinkedListAssumption, FS_CardinalityType
<1>2. \E w : IsWalk(w, h, nx, Cardinality(ADDRS))
  BY <1>1, WalkExists
<1> DEFINE w == WalkOf(h, nx)
<1>3. IsWalk(w, h, nx, Cardinality(ADDRS))
  BY <1>2 DEF WalkOf
<1> HIDE DEF w
<1>4. \A i \in 1 .. Cardinality(ADDRS) :
        w[i] = IF i = 1 THEN h ELSE nx[w[i - 1]]
  BY <1>3 DEF IsWalk
<1> QED BY <1>4 DEF w

\* A ring has no more items than there are addresses.
LEMMA RingFits ==
  ASSUME NEW s \in Seq(ADDRS), IsInjective(s)
  PROVE  /\ Cardinality(ADDRS) \in Nat
         /\ Len(s) <= Cardinality(ADDRS)
         /\ Cardinality(Range(s)) = Len(s)
<1>1. Len(s) \in Nat /\ s \in [1 .. Len(s) -> ADDRS] /\ DOMAIN s = 1 .. Len(s)
  BY LenProperties
<1>2. Cardinality(1 .. Len(s)) = Len(s)
  BY <1>1, FS_Interval
<1>3. s \in Injection(1 .. Len(s), ADDRS)
  BY <1>1 DEF Injection
<1>4. Cardinality(1 .. Len(s)) <= Cardinality(ADDRS)
  BY <1>3, FS_Injection, LinkedListAssumption
<1>5. s \in Bijection(1 .. Len(s), Range(s))
  BY <1>1 DEF Bijection, Injection, Surjection, Range
<1>6. ExistsBijection(1 .. Len(s), Range(s))
  BY <1>5 DEF ExistsBijection
<1>7. Cardinality(Range(s)) = Len(s)
  BY <1>1, <1>6, FS_CountingElements
<1> QED BY <1>2, <1>4, <1>7, FS_CardinalityType, LinkedListAssumption

\* The walk from the head of a ring visits its items in order, and then comes
\* back to the head, which is what stops get_item_with_data.
LEMMA WalkFollowsRing ==
  ASSUME NEW s \in Seq(ADDRS), s # <<>>, NEW nx, NEW pv, Linked(s, nx, pv)
  PROVE  /\ \A i \in 1 .. Len(s) : WalkOf(s[1], nx)[i] = s[i]
         /\ Len(s) < Cardinality(ADDRS) => WalkOf(s[1], nx)[Len(s) + 1] = s[1]
<1> DEFINE n == Len(s)
           w == WalkOf(s[1], nx)
           c == Cardinality(ADDRS)
<1>1. c \in Nat /\ n <= c
  BY RingFits DEF Linked
<1>2. /\ n \in Nat \ {0}
      /\ \A i \in 1 .. n - 1 : nx[s[i]] = s[i + 1]
      /\ nx[s[n]] = s[1]
  BY RingByPosition
<1>3. \A i \in 1 .. c : w[i] = IF i = 1 THEN s[1] ELSE nx[w[i - 1]]
  BY WalkSteps
<1> HIDE DEF n, w, c
<1> DEFINE astray == {i \in 1 .. n : w[i] # s[i]}
<1>4. astray = {}
  <2>1. SUFFICES ASSUME astray # {} PROVE FALSE
    OBVIOUS
  <2>2. astray \in SUBSET Nat
    BY <1>2
  <2>3. PICK i \in astray : \A j \in astray : i <= j
    <3> HIDE DEF astray
    <3> QED BY <2>1, <2>2, LeastNumber
  <2>4. i \in 1 .. n /\ i \in 1 .. c /\ w[i] # s[i]
    BY <1>1, <1>2
  <2>5. i # 1
    BY <1>3, <2>4
  <2>6. i - 1 \in 1 .. n - 1 /\ i - 1 \in 1 .. n /\ (i - 1) + 1 = i /\ ~(i <= i - 1)
    BY <1>2, <2>4, <2>5
  <2>7. w[i - 1] = s[i - 1]
    BY <2>3, <2>6
  <2>8. nx[s[i - 1]] = s[(i - 1) + 1]
    BY <1>2, <2>6
  <2>9. w[i] = nx[w[i - 1]]
    BY <1>3, <2>4, <2>5
  <2> QED BY <2>4, <2>6, <2>7, <2>8, <2>9
<1>5. \A i \in 1 .. n : w[i] = s[i]
  BY <1>4
<1>6. ASSUME n < c PROVE w[n + 1] = s[1]
  <2>1. n + 1 \in 1 .. c /\ n + 1 # 1 /\ (n + 1) - 1 = n /\ n \in 1 .. n
    BY <1>1, <1>2, <1>6
  <2>2. w[n + 1] = nx[w[(n + 1) - 1]]
    BY <1>3, <2>1
  <2> QED BY <1>2, <1>5, <2>1, <2>2
<1> QED BY <1>5, <1>6 DEF n, w, c

-----------------------------------------------------------------------------
(* The invariant                                                           *)

\* The items of s, read through the data pointers.
Read(s, d) == [i \in 1 .. Len(s) |-> d[s[i]]]

\* R says which addresses each list holds, in order: every list is a ring
\* from its head, no address is in two lists, and the lists are all there is
\* in the heap.
Layout(R, hd, len, nx, pv, d, lv) ==
  /\ R \in [LISTS -> Seq(ADDRS)]
  /\ \A l \in LISTS :
       /\ len[l] = Len(R[l])
       /\ R[l] # <<>> => hd[l] = R[l][1]
       /\ Linked(R[l], nx, pv)
  /\ \A l, m \in LISTS : l # m => Range(R[l]) \cap Range(R[m]) = {}
  /\ lv = UNION {Range(R[l]) : l \in LISTS}
  /\ \A a \in lv : d[a] \in DATA

PointerTypes ==
  /\ head \in [LISTS -> ADDRS \union {NULL}] /\ length \in [LISTS -> Nat]
  /\ next \in [ADDRS -> ADDRS \union {NULL}]
  /\ prev \in [ADDRS -> ADDRS \union {NULL}]
  /\ data \in [ADDRS -> DATA \union {NULL}]

LaidOut(R) == Layout(R, head, length, next, prev, data, live)

\* The inductive invariant: the pointers lay out some sequences.
ListInv == PointerTypes /\ \E R : LaidOut(R)

\* What reading a list gives.
LEMMA ReadFacts ==
  ASSUME NEW s \in Seq(ADDRS), NEW d, \A b \in Range(s) : d[b] \in DATA
  PROVE  /\ Read(s, d) \in Seq(DATA) /\ Len(Read(s, d)) = Len(s)
         /\ \A i \in 1 .. Len(s) : Read(s, d)[i] = d[s[i]]
         /\ Read(s, d) = <<>> <=> s = <<>>
<1> DEFINE n == Len(s)
           r == Read(s, d)
<1>1. n \in Nat /\ (n = 0 <=> s = <<>>) /\ \A i \in 1 .. n : s[i] \in Range(s)
  BY LenProperties, EmptySeq, RangeEquality
<1>2. \A i \in 1 .. n : d[s[i]] \in DATA
  BY <1>1
<1>3. r = [i \in 1 .. n |-> d[s[i]]]
  BY DEF Read
<1> HIDE DEF n, r
<1>4. r \in [1 .. n -> DATA]
  BY <1>2, <1>3
<1>5. r \in Seq(DATA)
  BY <1>1, <1>4, SeqDef
<1>6. Len(r) = n
  BY <1>1, <1>4
<1>7. r = <<>> <=> n = 0
  BY <1>1, <1>5, <1>6, EmptySeq
<1> QED BY <1>1, <1>3, <1>5, <1>6, <1>7 DEF n, r

\* Inserting an item inserts its data.
LEMMA ReadInserted ==
  ASSUME NEW s \in Seq(ADDRS), NEW k \in 1 .. Len(s) + 1, NEW a \in ADDRS,
         NEW d, NEW d2, d2[a] \in DATA,
         \A b \in Range(s) : d[b] \in DATA /\ d2[b] = d[b]
  PROVE  Read(InsertAt(s, k, a), d2) = InsertAt(Read(s, d), k, d2[a])
<1> DEFINE n == Len(s)
           t == InsertAt(s, k, a)
           r == Read(s, d)
           u == InsertAt(r, k, d2[a])
           v == Read(t, d2)
<1>1. n \in Nat /\ k \in 1 .. n + 1 /\ \A i \in 1 .. n : s[i] \in Range(s)
  BY LenProperties, RangeEquality
<1>2. /\ t \in Seq(ADDRS) /\ Len(t) = n + 1 /\ Range(t) = Range(s) \union {a}
      /\ \A i \in 1 .. n + 1 : t[i] = IF i < k THEN s[i]
                                     ELSE IF i = k THEN a ELSE s[i - 1]
  BY InsertAtFacts, InsertAtIndex
<1>3. r \in Seq(DATA) /\ Len(r) = n /\ \A i \in 1 .. n : r[i] = d[s[i]]
  BY ReadFacts
<1>4. /\ v \in Seq(DATA) /\ Len(v) = n + 1
      /\ \A i \in 1 .. n + 1 : v[i] = d2[t[i]]
  <2>1. \A b \in Range(t) : d2[b] \in DATA
    BY <1>2
  <2> HIDE DEF t
  <2>2. /\ v \in Seq(DATA) /\ Len(v) = Len(t)
        /\ \A i \in 1 .. Len(t) : v[i] = d2[t[i]]
    BY <1>2, <2>1, ReadFacts
  <2> QED BY <1>2, <2>2
<1>5. /\ u \in Seq(DATA) /\ Len(u) = n + 1
      /\ \A i \in 1 .. n + 1 : u[i] = IF i < k THEN r[i]
                                     ELSE IF i = k THEN d2[a] ELSE r[i - 1]
  <2> DEFINE e == d2[a]
  <2>1. e \in DATA /\ k \in 1 .. Len(r) + 1
    BY <1>3
  <2> HIDE DEF r, e
  <2>2. /\ InsertAt(r, k, e) \in Seq(DATA)
        /\ Len(InsertAt(r, k, e)) = Len(r) + 1
        /\ \A i \in 1 .. Len(r) + 1 :
             InsertAt(r, k, e)[i] = IF i < k THEN r[i]
                                    ELSE IF i = k THEN e ELSE r[i - 1]
    BY <1>3, <2>1, InsertAtIndex
  <2> QED BY <1>3, <2>2 DEF e
<1> HIDE DEF n, t, r, u, v
<1>6. ASSUME NEW i \in 1 .. n + 1 PROVE u[i] = v[i]
  <2>1. CASE i < k
    <3>1. i \in 1 .. n /\ t[i] = s[i]
      BY <1>1, <1>2, <2>1
    <3> QED BY <1>1, <1>3, <1>4, <1>5, <2>1, <3>1
  <2>2. CASE i = k
    BY <1>1, <1>2, <1>4, <1>5, <2>2
  <2>3. CASE i > k
    <3>1. i - 1 \in 1 .. n /\ t[i] = s[i - 1] /\ u[i] = r[i - 1]
      BY <1>1, <1>2, <1>5, <2>3
    <3> QED BY <1>1, <1>3, <1>4, <3>1
  <2> QED BY <1>1, <2>1, <2>2, <2>3
<1>7. u = v
  BY <1>4, <1>5, <1>6, SeqEqual
<1> QED BY <1>7 DEF u, v, r, t

\* Removing an item removes its data.
LEMMA ReadRemoved ==
  ASSUME NEW s \in Seq(ADDRS), NEW k \in 1 .. Len(s), IsInjective(s),
         NEW d, NEW d2, \A b \in Range(s) : d[b] \in DATA,
         \A b \in Range(s) \ {s[k]} : d2[b] = d[b]
  PROVE  /\ Read(RemoveAt(s, k), d2) = RemoveAt(Read(s, d), k)
         /\ Range(RemoveAt(s, k)) = Range(s) \ {s[k]}
<1> DEFINE n == Len(s)
           t == RemoveAt(s, k)
           r == Read(s, d)
           u == RemoveAt(r, k)
           v == Read(t, d2)
<1>1. /\ n \in Nat /\ k \in 1 .. n /\ Range(s) = {s[i] : i \in 1 .. n}
      /\ \A i, j \in 1 .. n : s[i] = s[j] => i = j
  BY LenProperties, RangeEquality DEF IsInjective
<1>2. /\ t \in Seq(ADDRS) /\ Len(t) = n - 1
      /\ \A i \in 1 .. n - 1 : t[i] = IF i < k THEN s[i] ELSE s[i + 1]
  BY RemoveAtIndex
<1>3. Range(t) = {t[i] : i \in 1 .. n - 1}
  <2> HIDE DEF t
  <2> QED BY <1>2, RangeEquality
<1>4. r \in Seq(DATA) /\ Len(r) = n /\ \A i \in 1 .. n : r[i] = d[s[i]]
  BY ReadFacts
<1>5. /\ u \in Seq(DATA) /\ Len(u) = n - 1
      /\ \A i \in 1 .. n - 1 : u[i] = IF i < k THEN r[i] ELSE r[i + 1]
  <2> HIDE DEF r
  <2>1. k \in 1 .. Len(r)
    BY <1>4
  <2> QED BY <1>4, <2>1, RemoveAtIndex
<1>6. v = Read(t, d2)
  OBVIOUS
<1>7. u = RemoveAt(Read(s, d), k) /\ t = RemoveAt(s, k)
  OBVIOUS
<1> HIDE DEF n, t, r, u, v
<1>8. Range(t) = Range(s) \ {s[k]}
  <2>1. ASSUME NEW i \in 1 .. n - 1 PROVE t[i] \in Range(s) \ {s[k]}
    <3> DEFINE j == IF i < k THEN i ELSE i + 1
    <3>1. j \in 1 .. n /\ j # k /\ t[i] = s[j]
      BY <1>1, <1>2
    <3> HIDE DEF j
    <3> QED BY <1>1, <3>1
  <2>2. ASSUME NEW j \in 1 .. n, s[j] # s[k] PROVE s[j] \in Range(t)
    <3>1. CASE j < k
      <4>1. j \in 1 .. n - 1 /\ t[j] = s[j]
        BY <1>1, <1>2, <3>1
      <4> QED BY <1>3, <4>1
    <3>2. CASE j > k
      <4>1. j - 1 \in 1 .. n - 1 /\ ~(j - 1 < k) /\ (j - 1) + 1 = j
        BY <1>1, <3>2
      <4>2. t[j - 1] = s[(j - 1) + 1]
        BY <1>2, <4>1
      <4> QED BY <1>3, <4>1, <4>2
    <3> QED BY <1>1, <2>2, <3>1, <3>2
  <2> QED BY <1>1, <1>3, <2>1, <2>2
<1>9. /\ v \in Seq(DATA) /\ Len(v) = n - 1
      /\ \A i \in 1 .. n - 1 : v[i] = d2[t[i]]
  <2>1. \A b \in Range(t) : d2[b] \in DATA
    BY <1>8
  <2> QED BY <1>2, <1>6, <2>1, ReadFacts
<1>10. ASSUME NEW i \in 1 .. n - 1 PROVE u[i] = v[i]
  <2> DEFINE j == IF i < k THEN i ELSE i + 1
  <2>1. j \in 1 .. n /\ j # k /\ t[i] = s[j] /\ u[i] = r[j]
    BY <1>1, <1>2, <1>5
  <2> HIDE DEF j
  <2>2. s[j] \in Range(s) \ {s[k]}
    BY <1>1, <2>1
  <2> QED BY <1>4, <1>9, <2>1, <2>2
<1>11. u = v
  BY <1>5, <1>9, <1>10, SeqEqual
<1> QED BY <1>6, <1>7, <1>8, <1>11

\* Rotating the items rotates their data.
LEMMA ReadRotated ==
  ASSUME NEW s \in Seq(ADDRS), s # <<>>, NEW d, \A b \in Range(s) : d[b] \in DATA
  PROVE  Read(ListRotate(s), d) = ListRotate(Read(s, d))
<1> DEFINE n == Len(s)
           t == ListRotate(s)
           r == Read(s, d)
           u == ListRotate(r)
           v == Read(t, d)
<1>1. n \in Nat \ {0}
  BY LenProperties, EmptySeq
<1>2. /\ t \in Seq(ADDRS) /\ Len(t) = n /\ Range(t) = Range(s)
      /\ \A i \in 1 .. n : t[i] = IF i = n THEN s[1] ELSE s[i + 1]
  BY RotateIndex, RotateFacts
<1>3. /\ r \in Seq(DATA) /\ Len(r) = n /\ r # <<>>
      /\ \A i \in 1 .. n : r[i] = d[s[i]]
  BY ReadFacts
<1>4. /\ u \in Seq(DATA) /\ Len(u) = n
      /\ \A i \in 1 .. n : u[i] = IF i = n THEN r[1] ELSE r[i + 1]
  <2> HIDE DEF r
  <2> QED BY <1>3, RotateIndex
<1>5. v \in Seq(DATA) /\ Len(v) = n /\ \A i \in 1 .. n : v[i] = d[t[i]]
  <2> HIDE DEF t
  <2> QED BY <1>2, ReadFacts
<1>6. v = Read(ListRotate(s), d) /\ u = ListRotate(Read(s, d))
  OBVIOUS
<1> HIDE DEF n, t, r, u, v
<1>7. ASSUME NEW i \in 1 .. n PROVE u[i] = v[i]
  <2>1. CASE i = n
    <3>1. 1 \in 1 .. n
      BY <1>1
    <3> QED BY <1>2, <1>3, <1>4, <1>5, <2>1, <3>1
  <2>2. CASE i # n
    <3>1. i + 1 \in 1 .. n
      BY <1>1, <2>2
    <3> QED BY <1>2, <1>3, <1>4, <1>5, <2>2, <3>1
  <2> QED BY <2>1, <2>2
<1>8. u = v
  BY <1>4, <1>5, <1>7, SeqEqual
<1> QED BY <1>6, <1>8

-----------------------------------------------------------------------------
(* What one operation changes                                              *)

\* The contents of every list, by the layout.
ReadAll(R, d) == [l \in LISTS |-> Read(R[l], d)]

\* Contents, of any pointers.
ContentsOf(hd, len, nx, d) ==
  [l \in LISTS |-> [i \in 1 .. len[l] |-> d[WalkOf(hd[l], nx)[i]]]]

LEMMA ContentsUnfold ==
  /\ Contents = ContentsOf(head, length, next, data)
  /\ Contents' = ContentsOf(head', length', next', data')
<1>1. Contents = ContentsOf(head, length, next, data)
  BY WalkIsWalkOf DEF Contents, ContentsOf
<1>2. Contents' = ContentsOf(head', length', next', data')
  BY DEF Contents, ContentsOf, Walk, WalkOf, IsWalk
<1> QED BY <1>1, <1>2

\* The walk reads what the layout says.
LEMMA ContentsRead ==
  ASSUME NEW R, NEW hd, NEW len, NEW nx, NEW pv, NEW d, NEW lv,
         Layout(R, hd, len, nx, pv, d, lv)
  PROVE  ContentsOf(hd, len, nx, d) = ReadAll(R, d)
<1>1. ASSUME NEW l \in LISTS
      PROVE  [i \in 1 .. len[l] |-> d[WalkOf(hd[l], nx)[i]]] = Read(R[l], d)
  <2> DEFINE s == R[l]
             w == WalkOf(hd[l], nx)
  <2>1. /\ s \in Seq(ADDRS) /\ len[l] = Len(s) /\ Linked(s, nx, pv)
        /\ s # <<>> => hd[l] = s[1]
    BY DEF Layout
  <2>2. \A i \in 1 .. Len(s) : w[i] = s[i]
    <3>1. CASE s = <<>>
      <4>1. Len(s) = 0
        BY <3>1
      <4> QED BY <4>1
    <3>2. CASE s # <<>>
      <4> HIDE DEF s
      <4>1. \A i \in 1 .. Len(s) : WalkOf(s[1], nx)[i] = s[i]
        BY <2>1, <3>2, WalkFollowsRing
      <4> QED BY <2>1, <3>2, <4>1
    <3> QED BY <3>1, <3>2
  <2>3. [i \in 1 .. len[l] |-> d[w[i]]] = [i \in 1 .. Len(s) |-> d[s[i]]]
    <3> HIDE DEF w, s
    <3> QED BY <2>1, <2>2
  <2> QED BY <2>3 DEF Read
<1> QED BY <1>1 DEF ContentsOf, ReadAll

\* f with one value changed.
Replace(f, l, t) == [f EXCEPT ![l] = t]

\* From the pointers before to those after, ring s of list l becomes ring t,
\* made of items of s and of fresh ones.
Rewires(l, s, t, hd, len, nx, pv, d, lv, hd2, len2, nx2, pv2, d2, lv2) ==
  /\ t \in Seq(ADDRS) /\ Linked(t, nx2, pv2)
  /\ t # <<>> => hd2[l] = t[1]
  /\ len2[l] = Len(t)
  /\ \A m \in LISTS \ {l} : hd2[m] = hd[m] /\ len2[m] = len[m]
  /\ \A b \in lv \ Range(s) :
       nx2[b] = nx[b] /\ pv2[b] = pv[b] /\ d2[b] = d[b] /\ b \notin Range(t)
  /\ lv2 = (lv \ Range(s)) \union Range(t)
  /\ \A b \in Range(t) : d2[b] \in DATA

\* Nothing of that touches the other lists.
LEMMA OneListChanges ==
  ASSUME NEW R, NEW hd, NEW len, NEW nx, NEW pv, NEW d, NEW lv,
         Layout(R, hd, len, nx, pv, d, lv),
         NEW l \in LISTS, NEW t,
         NEW hd2, NEW len2, NEW nx2, NEW pv2, NEW d2, NEW lv2,
         Rewires(l, R[l], t, hd, len, nx, pv, d, lv,
                 hd2, len2, nx2, pv2, d2, lv2)
  PROVE  /\ Layout(Replace(R, l, t), hd2, len2, nx2, pv2, d2, lv2)
         /\ ReadAll(Replace(R, l, t), d2) = Replace(ReadAll(R, d), l, Read(t, d2))
<1> DEFINE Q == Replace(R, l, t)
<1>1. /\ R \in [LISTS -> Seq(ADDRS)]
      /\ \A m \in LISTS : /\ len[m] = Len(R[m])
                          /\ R[m] # <<>> => hd[m] = R[m][1]
                          /\ Linked(R[m], nx, pv)
      /\ \A m, k \in LISTS : m # k => Range(R[m]) \cap Range(R[k]) = {}
      /\ lv = UNION {Range(R[m]) : m \in LISTS}
      /\ \A b \in lv : d[b] \in DATA
  BY DEF Layout
<1>0. /\ t \in Seq(ADDRS) /\ Linked(t, nx2, pv2)
      /\ t # <<>> => hd2[l] = t[1]
      /\ len2[l] = Len(t)
      /\ \A m \in LISTS \ {l} : hd2[m] = hd[m] /\ len2[m] = len[m]
      /\ \A b \in lv \ Range(R[l]) :
           nx2[b] = nx[b] /\ pv2[b] = pv[b] /\ d2[b] = d[b] /\ b \notin Range(t)
      /\ lv2 = (lv \ Range(R[l])) \union Range(t)
      /\ \A b \in Range(t) : d2[b] \in DATA
  BY DEF Rewires
<1>2. /\ Q \in [LISTS -> Seq(ADDRS)] /\ Q[l] = t
      /\ \A m \in LISTS \ {l} : Q[m] = R[m]
  BY <1>0, <1>1 DEF Replace
<1>3. \A m \in LISTS \ {l} : Range(R[m]) \subseteq lv \ Range(R[l])
  BY <1>1
<1> HIDE DEF Q
<1>4. ASSUME NEW m \in LISTS
      PROVE  /\ len2[m] = Len(Q[m])
             /\ Q[m] # <<>> => hd2[m] = Q[m][1]
             /\ Linked(Q[m], nx2, pv2)
  <2>1. CASE m = l
    BY <1>0, <1>2, <2>1
  <2>2. CASE m # l
    <3>1. len2[m] = Len(R[m]) /\ (R[m] # <<>> => hd2[m] = R[m][1])
      BY <1>0, <1>1, <2>2
    <3>2. \A b \in Range(R[m]) : nx2[b] = nx[b] /\ pv2[b] = pv[b]
      BY <1>0, <1>3, <2>2
    <3>3. R[m] \in Seq(ADDRS) /\ Linked(R[m], nx, pv)
      BY <1>1
    <3>4. Linked(R[m], nx2, pv2)
      BY <3>2, <3>3, RingFrame
    <3> QED BY <1>2, <2>2, <3>1, <3>4
  <2> QED BY <2>1, <2>2
<1>5. \A m \in LISTS \ {l} : Range(t) \cap Range(R[m]) = {}
  BY <1>0, <1>3
<1>6. \A m, k \in LISTS : m # k => Range(Q[m]) \cap Range(Q[k]) = {}
  BY <1>1, <1>2, <1>5
<1>7. lv2 = UNION {Range(Q[m]) : m \in LISTS}
  <2>1. UNION {Range(Q[m]) : m \in LISTS}
          = (UNION {Range(Q[m]) : m \in LISTS \ {l}}) \union Range(Q[l])
    OBVIOUS
  <2>2. UNION {Range(Q[m]) : m \in LISTS \ {l}}
          = UNION {Range(R[m]) : m \in LISTS \ {l}}
    BY <1>2
  <2>3. UNION {Range(R[m]) : m \in LISTS \ {l}} = lv \ Range(R[l])
    BY <1>1
  <2> QED BY <1>0, <1>2, <2>1, <2>2, <2>3
<1>8. \A b \in lv2 : d2[b] \in DATA
  BY <1>0, <1>1
<1>9. Layout(Q, hd2, len2, nx2, pv2, d2, lv2)
  BY <1>2, <1>4, <1>6, <1>7, <1>8 DEF Layout
<1>10. ASSUME NEW m \in LISTS \ {l} PROVE Read(R[m], d2) = Read(R[m], d)
  <2>1. \A i \in 1 .. Len(R[m]) : R[m][i] \in Range(R[m])
    BY <1>1, RangeEquality
  <2>2. \A b \in Range(R[m]) : d2[b] = d[b]
    BY <1>0, <1>3
  <2> QED BY <2>1, <2>2 DEF Read
<1>11. ReadAll(Q, d2) = Replace(ReadAll(R, d), l, Read(t, d2))
  <2>1. \A m \in LISTS : Read(Q[m], d2) = IF m = l THEN Read(t, d2)
                                          ELSE Read(R[m], d)
    BY <1>2, <1>10
  <2> QED BY <2>1 DEF ReadAll, Replace
<1> QED BY <1>9, <1>11 DEF Q

\* The step puts an item that holds x at position k of list l.
Inserts(R, l, a, x, k) ==
  LET t == InsertAt(R[l], k, a) IN
  /\ PointerTypes'
  /\ LaidOut([R EXCEPT ![l] = t])'
  /\ Contents' = [Contents EXCEPT ![l] = InsertAt(Contents[l], k, x)]

\* A fresh item that is linked into the ring of l and nowhere else.
LEMMA NewItemStep ==
  ASSUME PointerTypes, NEW R, LaidOut(R),
         NEW l \in LISTS, NEW a \in ADDRS, NEW x \in DATA, NewItem(l, a, x),
         NEW k \in 1 .. Len(R[l]) + 1,
         NEW p \in Range(R[l]) \union {a}, NEW q \in Range(R[l]) \union {a},
         LinkBetween(a, p, q),
         head' \in {head, [head EXCEPT ![l] = a]},
         head'[l] = InsertAt(R[l], k, a)[1],
         Linked(InsertAt(R[l], k, a), next', prev')
  PROVE  Inserts(R, l, a, x, k)
<1> DEFINE s == R[l]
           t == InsertAt(s, k, a)
           Q == [R EXCEPT ![l] = t]
<1>1. /\ s \in Seq(ADDRS) /\ length[l] = Len(s) /\ Len(s) \in Nat
      /\ Range(s) \subseteq live /\ Range(s) \subseteq ADDRS
      /\ \A b \in live : data[b] \in DATA /\ b \in ADDRS
  <2>1. s \in Seq(ADDRS) /\ length[l] = Len(s)
    BY DEF LaidOut, Layout
  <2>2. Range(s) \subseteq live
    BY DEF LaidOut, Layout
  <2>3. \A m \in LISTS : Range(R[m]) \subseteq ADDRS
    BY RangeOfSeq DEF LaidOut, Layout
  <2>4. \A b \in live : data[b] \in DATA /\ b \in ADDRS
    BY <2>3 DEF LaidOut, Layout
  <2> QED BY <2>1, <2>2, <2>3, <2>4, LenProperties
<1>2. /\ a \notin live /\ live' = live \union {a}
      /\ data' = [data EXCEPT ![a] = x]
      /\ length' = [length EXCEPT ![l] = @ + 1]
      /\ next' = [next EXCEPT ![p] = a, ![a] = q]
      /\ prev' = [prev EXCEPT ![a] = p, ![q] = a]
  BY DEF NewItem, LinkBetween
<1>3. p \in ADDRS /\ q \in ADDRS
  BY <1>1
<1>4. PointerTypes'
  <2>1. head' \in [LISTS -> ADDRS \union {NULL}]
    BY DEF PointerTypes
  <2>2. length' \in [LISTS -> Nat]
    BY <1>2 DEF PointerTypes
  <2>3. /\ next' \in [ADDRS -> ADDRS \union {NULL}]
        /\ prev' \in [ADDRS -> ADDRS \union {NULL}]
    BY <1>2, <1>3 DEF PointerTypes
  <2>4. data' \in [ADDRS -> DATA \union {NULL}]
    BY <1>2 DEF PointerTypes
  <2> QED BY <2>1, <2>2, <2>3, <2>4 DEF PointerTypes
<1>5. /\ data' \in [ADDRS -> DATA \union {NULL}] /\ data'[a] = x
      /\ \A b \in live : data'[b] = data[b]
      /\ \A b \in live \ Range(s) : next'[b] = next[b] /\ prev'[b] = prev[b]
  BY <1>1, <1>2, <1>3 DEF PointerTypes
<1>6. /\ t \in Seq(ADDRS) /\ Len(t) = Len(s) + 1 /\ Range(t) = Range(s) \union {a}
  BY <1>1, InsertAtFacts, InsertAtIndex
<1>7. length'[l] = Len(t) /\ \A m \in LISTS \ {l} : length'[m] = length[m]
  BY <1>1, <1>2, <1>6 DEF PointerTypes
<1>8. \A m \in LISTS \ {l} : head'[m] = head[m]
  BY DEF PointerTypes
<1>9. Read(t, data') = InsertAt(Read(s, data), k, x)
  <2>1. \A b \in Range(s) : data[b] \in DATA /\ data'[b] = data[b]
    BY <1>1, <1>5
  <2> HIDE DEF s
  <2>2. Read(InsertAt(s, k, a), data') = InsertAt(Read(s, data), k, data'[a])
    <3>1. k \in 1 .. Len(s) + 1 /\ data'[a] \in DATA
      BY <1>5 DEF s
    <3> QED BY <1>1, <2>1, <3>1, ReadInserted
  <2> QED BY <1>5, <2>2
<1>10. /\ LaidOut(R)
       /\ head'[l] = t[1] /\ Linked(t, next', prev')
       /\ \A b \in live \ Range(s) : b \notin Range(t) /\ data'[b] = data[b]
       /\ live' = (live \ Range(s)) \union Range(t)
       /\ \A b \in Range(t) : data'[b] \in DATA
  BY <1>1, <1>2, <1>5, <1>6
<1>11. Q = [R EXCEPT ![l] = t] /\ s = R[l]
  OBVIOUS
<1> HIDE DEF t
<1>12. /\ Layout(Q, head', length', next', prev', data', live')
       /\ ReadAll(Q, data') = [ReadAll(R, data) EXCEPT ![l] = Read(t, data')]
  <2>1. \A m \in LISTS \ {l} : head'[m] = head[m] /\ length'[m] = length[m]
    BY <1>7, <1>8
  <2>2. \A b \in live \ Range(R[l]) :
          /\ next'[b] = next[b] /\ prev'[b] = prev[b] /\ data'[b] = data[b]
          /\ b \notin Range(t)
    BY <1>5, <1>10
  <2>3. Layout(R, head, length, next, prev, data, live)
    BY DEF LaidOut
  <2>4. live' = (live \ Range(R[l])) \union Range(t)
    BY <1>10
  <2>5. /\ t \in Seq(ADDRS) /\ Linked(t, next', prev')
        /\ t # <<>> => head'[l] = t[1]
        /\ length'[l] = Len(t)
        /\ \A b \in Range(t) : data'[b] \in DATA
    BY <1>6, <1>7, <1>10
  <2>6. /\ Layout(Replace(R, l, t), head', length', next', prev', data', live')
        /\ ReadAll(Replace(R, l, t), data')
             = Replace(ReadAll(R, data), l, Read(t, data'))
    <3>1. Rewires(l, R[l], t, head, length, next, prev, data, live,
                  head', length', next', prev', data', live')
      BY <2>1, <2>2, <2>4, <2>5 DEF Rewires
    <3> QED BY <2>3, <3>1, OneListChanges
  <2> QED BY <2>6 DEF Replace
<1> HIDE DEF s, Q
<1>13. Contents = ReadAll(R, data)
  BY ContentsUnfold, ContentsRead DEF LaidOut
<1>14. Contents' = ReadAll(Q, data')
  BY <1>12, ContentsUnfold, ContentsRead
<1>15. Contents[l] = Read(s, data)
  BY <1>11, <1>13 DEF ReadAll
<1>16. Contents' = [Contents EXCEPT ![l] = InsertAt(Contents[l], k, x)]
  BY <1>9, <1>12, <1>13, <1>14, <1>15
<1>17. LaidOut(Q)'
  BY <1>12 DEF LaidOut
<1>18. Q = [R EXCEPT ![l] = InsertAt(R[l], k, a)]
  BY <1>11 DEF t, s
<1> QED BY <1>4, <1>16, <1>17, <1>18 DEF Inserts

\* A fresh item linked in behind position k of a list that has a head;
\* behind the tail it becomes the head if the head pointer is moved to it.
LEMMA InsertionStep ==
  ASSUME PointerTypes, NEW R, LaidOut(R),
         NEW l \in LISTS, NEW a \in ADDRS, NEW x \in DATA, length[l] > 0,
         NEW k \in 0 .. Len(R[l]), NewItem(l, a, x),
         LinkBetween(a, R[l][At(k, Len(R[l]))], R[l][After(k, Len(R[l]))]),
         head' = IF k = 0 THEN [head EXCEPT ![l] = a] ELSE head
  PROVE  Inserts(R, l, a, x, k + 1)
<1> DEFINE s == R[l]
           n == Len(s)
           p == s[At(k, n)]
           q == s[After(k, n)]
           t == InsertAt(s, k + 1, a)
<1>1. /\ s \in Seq(ADDRS) /\ length[l] = n /\ Linked(s, next, prev)
      /\ s # <<>> => head[l] = s[1]
      /\ Range(s) \subseteq live
  BY DEF LaidOut, Layout
<1>2. n \in Nat \ {0} /\ s # <<>> /\ \A i \in 1 .. n : s[i] \in Range(s)
      /\ Range(s) \subseteq ADDRS
  <2>1. n \in Nat /\ n > 0
    BY <1>1, LenProperties
  <2> QED BY <1>1, <2>1, RangeEquality, RangeOfSeq
<1>3. k \in 0 .. n
  OBVIOUS
<1>4. /\ a \notin Range(s)
      /\ next' = [next EXCEPT ![p] = a, ![a] = q]
      /\ prev' = [prev EXCEPT ![a] = p, ![q] = a]
  BY <1>1 DEF NewItem, LinkBetween
<1>5. p \in Range(s) /\ q \in Range(s)
  <2> HIDE DEF n, s
  <2>1. At(k, n) \in 1 .. n /\ After(k, n) \in 1 .. n
    BY <1>2, <1>3 DEF At, After
  <2> QED BY <1>2, <2>1
<1>6. p = s[At(k, Len(s))] /\ q = s[After(k, Len(s))] /\ k \in 0 .. Len(s)
  OBVIOUS
<1>7. LinkBetween(a, p, q)
  OBVIOUS
<1>8. /\ t \in Seq(ADDRS) /\ t[1] = IF k = 0 THEN a ELSE s[1]
  <2> DEFINE m == k + 1
  <2>1. s \in Seq(ADDRS) /\ m \in 1 .. Len(s) + 1
    BY <1>1, <1>2, <1>3
  <2>2. m = 1 <=> k = 0
    BY <1>3
  <2> HIDE DEF m, s
  <2>3. /\ InsertAt(s, m, a) \in Seq(ADDRS)
        /\ InsertAt(s, m, a)[1] = IF m = 1 THEN a ELSE s[1]
    BY <2>1, InsertAtFirst
  <2> QED BY <2>2, <2>3 DEF m
<1>9. /\ head' \in {head, [head EXCEPT ![l] = a]}
      /\ head'[l] = t[1]
  BY <1>1, <1>2, <1>8 DEF PointerTypes
<1>10. /\ next'[a] = q /\ next'[p] = a /\ prev'[a] = p /\ prev'[q] = a
       /\ \A b \in Range(s) : b # p => next'[b] = next[b]
       /\ \A b \in Range(s) : b # q => prev'[b] = prev[b]
  <2> HIDE DEF p, q, s
  <2> QED BY <1>2, <1>4, <1>5 DEF PointerTypes
<1>11. k + 1 \in 1 .. Len(R[l]) + 1
  BY <1>2, <1>3
<1>12. t = InsertAt(s, k + 1, a) /\ s = R[l]
  OBVIOUS
<1>13. Linked(InsertAt(s, k + 1, a), next', prev')
  <2>1. /\ next'[a] = s[After(k, Len(s))] /\ next'[s[At(k, Len(s))]] = a
        /\ prev'[a] = s[At(k, Len(s))] /\ prev'[s[After(k, Len(s))]] = a
        /\ \A b \in Range(s) : b # s[At(k, Len(s))] => next'[b] = next[b]
        /\ \A b \in Range(s) : b # s[After(k, Len(s))] => prev'[b] = prev[b]
    BY <1>10
  <2>2. s \in Seq(ADDRS) /\ s # <<>> /\ a \notin Range(s) /\ k \in 0 .. Len(s)
        /\ Linked(s, next, prev)
    BY <1>1, <1>2, <1>4
  <2> HIDE DEF s
  <2> QED BY <2>1, <2>2, RingInsert
<1> HIDE DEF s, p, q, t
<1>14. p \in Range(R[l]) \union {a} /\ q \in Range(R[l]) \union {a}
  BY <1>5, <1>12
<1> DEFINE m == k + 1
<1>15. m \in 1 .. Len(R[l]) + 1 /\ Linked(InsertAt(R[l], m, a), next', prev')
       /\ head'[l] = InsertAt(R[l], m, a)[1]
  BY <1>9, <1>11, <1>12, <1>13
<1> HIDE DEF m
<1>16. Inserts(R, l, a, x, m)
  BY <1>7, <1>9, <1>14, <1>15, NewItemStep
<1> QED BY <1>16 DEF m

\* The first item of a list is a ring of its own.
LEMMA FirstStep ==
  ASSUME PointerTypes, NEW R, LaidOut(R),
         NEW l \in LISTS, NEW a \in ADDRS, NEW x \in DATA, First(l, a, x)
  PROVE  R[l] = <<>> /\ Inserts(R, l, a, x, 1)
<1>1. R[l] \in Seq(ADDRS) /\ Len(R[l]) = 0
  BY DEF LaidOut, Layout, First
<1>2. R[l] = <<>>
  BY <1>1, EmptySeq
<1> DEFINE t == InsertAt(R[l], 1, a)
<1>3. t \in Seq(ADDRS) /\ Len(t) = 1 /\ t[1] = a
  <2> DEFINE s == R[l]
             k == 1
  <2>1. s \in Seq(ADDRS) /\ k \in 1 .. Len(s) + 1 /\ Len(s) = 0
    BY <1>1
  <2>2. t = InsertAt(s, k, a) /\ k = 1
    OBVIOUS
  <2> HIDE DEF s, k, t
  <2>3. /\ InsertAt(s, k, a) \in Seq(ADDRS)
        /\ Len(InsertAt(s, k, a)) = Len(s) + 1
        /\ InsertAt(s, k, a)[1] = IF k = 1 THEN a ELSE s[1]
    BY <2>1, InsertAtFirst
  <2> QED BY <2>1, <2>2, <2>3
<1>4. IsInjective(t)
  <2> HIDE DEF t
  <2> QED BY <1>3, LenProperties DEF IsInjective
<1>5. LinkBetween(a, a, a) /\ head' = [head EXCEPT ![l] = a] /\ NewItem(l, a, x)
  BY DEF First
<1>6. next'[a] = a /\ prev'[a] = a /\ head'[l] = a
  BY <1>5 DEF LinkBetween, PointerTypes
<1>7. Linked(t, next', prev')
  <2> HIDE DEF t
  <2> QED BY <1>3, <1>4, <1>6, RingFromPositions
<1>8. 1 \in 1 .. Len(R[l]) + 1 /\ head'[l] = InsertAt(R[l], 1, a)[1]
  BY <1>1, <1>3, <1>6
<1>9. Inserts(R, l, a, x, 1)
  BY <1>5, <1>7, <1>8, NewItemStep
<1> QED BY <1>2, <1>9

\* What a step that changes list l alone leaves behind: list l is ring t and
\* reads c.
Becomes(R, l, t, c) ==
  /\ PointerTypes'
  /\ LaidOut([R EXCEPT ![l] = t])'
  /\ Contents' = [Contents EXCEPT ![l] = c]

\* The last steps that removal and rotation share with insertion.
LEMMA RewiredStep ==
  ASSUME PointerTypes', NEW R, LaidOut(R), NEW l \in LISTS, NEW t, NEW c,
         Rewires(l, R[l], t, head, length, next, prev, data, live,
                 head', length', next', prev', data', live'),
         Read(t, data') = c
  PROVE  Becomes(R, l, t, c)
<1>1. Layout(R, head, length, next, prev, data, live)
  BY DEF LaidOut
<1>2. /\ Layout(Replace(R, l, t), head', length', next', prev', data', live')
      /\ ReadAll(Replace(R, l, t), data')
           = Replace(ReadAll(R, data), l, Read(t, data'))
  BY <1>1, OneListChanges
<1>3. Contents = ReadAll(R, data)
  BY <1>1, ContentsUnfold, ContentsRead
<1>4. Contents' = ReadAll(Replace(R, l, t), data')
  BY <1>2, ContentsUnfold, ContentsRead
<1>5. Contents' = [Contents EXCEPT ![l] = c]
  BY <1>2, <1>3, <1>4 DEF Replace
<1>6. LaidOut(Replace(R, l, t))'
  BY <1>2 DEF LaidOut
<1> QED BY <1>5, <1>6 DEF Becomes, Replace

\* What the layout says of one list.
LEMMA OneList ==
  ASSUME NEW R, LaidOut(R), NEW l \in LISTS
  PROVE  /\ R[l] \in Seq(ADDRS) /\ Len(R[l]) \in Nat
         /\ length[l] = Len(R[l])
         /\ R[l] # <<>> => head[l] = R[l][1]
         /\ Linked(R[l], next, prev) /\ IsInjective(R[l])
         /\ Range(R[l]) \subseteq live /\ Range(R[l]) \subseteq ADDRS
         /\ \A b \in Range(R[l]) : data[b] \in DATA
         /\ \A i \in 1 .. Len(R[l]) : R[l][i] \in Range(R[l])
         /\ Contents[l] = Read(R[l], data)
<1>1. /\ R[l] \in Seq(ADDRS) /\ length[l] = Len(R[l])
      /\ R[l] # <<>> => head[l] = R[l][1]
      /\ Linked(R[l], next, prev)
      /\ Range(R[l]) \subseteq live
      /\ \A b \in Range(R[l]) : data[b] \in DATA
  BY DEF LaidOut, Layout
<1>2. Contents = ReadAll(R, data)
  BY ContentsUnfold, ContentsRead DEF LaidOut
<1>3. Contents[l] = Read(R[l], data)
  BY <1>2 DEF ReadAll
<1>4. IsInjective(R[l])
  BY <1>1 DEF Linked
<1> QED BY <1>1, <1>3, <1>4, LenProperties, RangeOfSeq, RangeEquality

\* The positions in s of the items that hold x.
Hits(s, x) == {i \in 1 .. Len(s) : data[s[i]] = x}

\* get_item_with_data finds the first item that holds the data.
LEMMA FindsFirst ==
  ASSUME NEW R, LaidOut(R), NEW l \in LISTS, NEW x,
         GetItemWithData(l, x) # NULL
  PROVE  /\ R[l] # <<>> /\ Min(Hits(R[l], x)) \in Hits(R[l], x)
         /\ GetItemWithData(l, x) = R[l][Min(Hits(R[l], x))]
<1> DEFINE s == R[l]
           n == Len(s)
           c == Cardinality(ADDRS)
           w == Walk(l)
           found == {i \in 1 .. c : data[w[i]] = x /\ \A j \in 2 .. i : w[j] # head[l]}
           hits == Hits(s, x)
<1>1. /\ s \in Seq(ADDRS) /\ n \in Nat /\ length[l] = n
      /\ s # <<>> => head[l] = s[1]
      /\ Linked(s, next, prev) /\ IsInjective(s)
  BY OneList
<1>2. GetItemWithData(l, x) = IF length[l] = 0 \/ found = {} THEN NULL
                              ELSE w[Min(found)]
  BY DEF GetItemWithData
<1>3. length[l] # 0 /\ found # {} /\ GetItemWithData(l, x) = w[Min(found)]
  BY <1>2
<1>4. s # <<>> /\ n # 0
  <2>1. s = <<>> => Len(s) = 0
    OBVIOUS
  <2> QED BY <1>1, <1>3, <2>1
<1>5. c \in Nat /\ n <= c
  BY <1>1, RingFits
<1>6. w = WalkOf(s[1], next)
  BY <1>1, <1>4, WalkIsWalkOf
<1>7. s = R[l] /\ n = Len(s)
  OBVIOUS
<1>8. found = {i \in 1 .. c : data[w[i]] = x /\ \A j \in 2 .. i : w[j] # head[l]}
      /\ hits = {i \in 1 .. n : data[s[i]] = x}
  BY DEF Hits
<1> HIDE DEF s
<1>9. /\ \A i \in 1 .. n : w[i] = s[i]
      /\ n < c => w[n + 1] = s[1]
      /\ \A i, j \in 1 .. n : s[i] = s[j] => i = j
  BY <1>1, <1>4, <1>6, WalkFollowsRing, RingByPosition
<1> HIDE DEF n, c, w, found, hits
<1>10. found = hits
  <2>1. ASSUME NEW i \in found PROVE i \in hits
    <3>1. i \in 1 .. c /\ data[w[i]] = x /\ \A j \in 2 .. i : w[j] # head[l]
      BY <1>8
    <3>2. i <= n
      <4>1. SUFFICES ASSUME ~(i <= n) PROVE FALSE
        OBVIOUS
      <4>2. n < c /\ n + 1 \in 2 .. i
        BY <1>1, <1>4, <1>5, <3>1, <4>1
      <4> QED BY <1>1, <1>4, <1>9, <3>1, <4>2
    <3>3. i \in 1 .. n
      BY <1>1, <1>5, <3>1, <3>2
    <3> QED BY <1>8, <1>9, <3>1, <3>3
  <2>2. ASSUME NEW i \in hits PROVE i \in found
    <3>1. i \in 1 .. n /\ data[s[i]] = x
      BY <1>8
    <3>2. i \in 1 .. c
      BY <1>1, <1>5, <3>1
    <3>3. ASSUME NEW j \in 2 .. i PROVE w[j] # head[l]
      <4>1. j \in 1 .. n /\ 1 \in 1 .. n /\ j # 1
        BY <1>1, <3>1
      <4> QED BY <1>1, <1>4, <1>9, <4>1
    <3> QED BY <1>8, <1>9, <3>1, <3>2, <3>3
  <2> QED BY <2>1, <2>2
<1>11. Min(hits) \in hits
  <2>1. hits \in SUBSET Nat /\ hits # {}
    BY <1>1, <1>3, <1>8, <1>10
  <2> QED BY <2>1, MinFacts
<1>12. w[Min(hits)] = s[Min(hits)]
  BY <1>8, <1>9, <1>11
<1>13. /\ s # <<>> /\ Min(hits) \in hits
       /\ GetItemWithData(l, x) = s[Min(hits)]
  BY <1>3, <1>4, <1>10, <1>11, <1>12
<1> QED BY <1>7, <1>13 DEF hits, n, s

\* gkrtos_list_remove of the item at position k.
LEMMA RemovalStep ==
  ASSUME PointerTypes, NEW R, LaidOut(R), NEW l \in LISTS,
         NEW k \in 1 .. Len(R[l]), RemoveItem(l, R[l][k])
  PROVE  Becomes(R, l, RemoveAt(R[l], k), RemoveAt(Contents[l], k))
<1> DEFINE s == R[l]
           n == Len(s)
           t == RemoveAt(s, k)
           item == s[k]
           p == prev[item]
           q == next[item]
<1>1. /\ s \in Seq(ADDRS) /\ n \in Nat /\ length[l] = n
      /\ s # <<>> => head[l] = s[1]
      /\ Linked(s, next, prev) /\ IsInjective(s)
      /\ Range(s) \subseteq live /\ Range(s) \subseteq ADDRS
      /\ \A b \in Range(s) : data[b] \in DATA
      /\ Contents[l] = Read(s, data)
  BY OneList
<1>2. k \in 1 .. n /\ n # 0 /\ s # <<>>
  <2>1. s = <<>> => Len(s) = 0
    OBVIOUS
  <2> QED BY <1>1, <2>1
<1>3. /\ next' = [[next EXCEPT ![p] = q]
                    EXCEPT ![q] = IF @ = item THEN q ELSE @, ![item] = NULL]
      /\ prev' = [[prev EXCEPT ![q] = p]
                    EXCEPT ![p] = IF item # head[l] /\ @ = item THEN p ELSE @,
                           ![item] = NULL]
      /\ data' = [data EXCEPT ![item] = NULL]
      /\ head' = [head EXCEPT ![l] = IF @ = item THEN q ELSE @]
      /\ length' = [length EXCEPT ![l] = @ - 1]
      /\ live' = live \ {item}
  BY DEF RemoveItem, NextWithout, PrevWithout, LiveWithout
<1>4. /\ \A i \in 1 .. n : s[i] \in Range(s)
      /\ \A i, j \in 1 .. n : s[i] = s[j] => i = j
      /\ \A i \in 1 .. n - 1 : next[s[i]] = s[i + 1] /\ prev[s[i + 1]] = s[i]
      /\ next[s[n]] = s[1] /\ prev[s[1]] = s[n]
  <2> HIDE DEF s
  <2> QED BY <1>1, <1>2, RingByPosition
<1>5. /\ t \in Seq(ADDRS) /\ Len(t) = n - 1
      /\ \A i \in 1 .. n - 1 : t[i] = IF i < k THEN s[i] ELSE s[i + 1]
  <2> HIDE DEF s
  <2>1. k \in 1 .. Len(s)
    BY <1>2
  <2> QED BY <1>1, <2>1, RemoveAtIndex
<1>6. /\ Read(t, data') = RemoveAt(Read(s, data), k)
      /\ Range(t) = Range(s) \ {item}
  <2>1. \A b \in Range(s) \ {s[k]} : data'[b] = data[b]
    BY <1>1, <1>3 DEF PointerTypes
  <2> HIDE DEF s
  <2>2. k \in 1 .. Len(s)
    BY <1>2
  <2> QED BY <1>1, <2>1, <2>2, ReadRemoved
<1>7. item = s[k] /\ p = prev[item] /\ q = next[item] /\ t = RemoveAt(s, k)
      /\ s = R[l] /\ n = Len(s)
  OBVIOUS
<1> HIDE DEF s, n, t, item, p, q
<1>8. /\ p \in Range(s) /\ q \in Range(s) /\ next[p] = item /\ prev[q] = item
      /\ \A b \in Range(s) : next[prev[b]] = b /\ prev[next[b]] = b
                             /\ next[b] \in Range(s) /\ prev[b] \in Range(s)
  <2>1. ASSUME NEW i \in 1 .. n
        PROVE  /\ next[prev[s[i]]] = s[i] /\ prev[next[s[i]]] = s[i]
               /\ next[s[i]] \in Range(s) /\ prev[s[i]] \in Range(s)
    <3>1. prev[s[i]] \in Range(s) /\ next[prev[s[i]]] = s[i]
      <4>1. CASE i = 1
        BY <1>1, <1>2, <1>4, <4>1
      <4>2. CASE i # 1
        <5>1. i - 1 \in 1 .. n - 1 /\ i - 1 \in 1 .. n /\ (i - 1) + 1 = i
          BY <1>1, <4>2
        <5>2. /\ next[s[i - 1]] = s[(i - 1) + 1]
              /\ prev[s[(i - 1) + 1]] = s[i - 1]
          BY <1>4, <5>1
        <5> QED BY <1>4, <5>1, <5>2
      <4> QED BY <4>1, <4>2
    <3>2. next[s[i]] \in Range(s) /\ prev[next[s[i]]] = s[i]
      <4>1. CASE i = n
        BY <1>1, <1>2, <1>4, <4>1
      <4>2. CASE i # n
        <5>1. i \in 1 .. n - 1 /\ i + 1 \in 1 .. n
          BY <1>1, <4>2
        <5> QED BY <1>4, <5>1
      <4> QED BY <4>1, <4>2
    <3> QED BY <3>1, <3>2
  <2>2. \A b \in Range(s) : \E i \in 1 .. n : b = s[i]
    BY <1>1, <1>7, RangeEquality
  <2>3. \A b \in Range(s) : next[prev[b]] = b /\ prev[next[b]] = b
                            /\ next[b] \in Range(s) /\ prev[b] \in Range(s)
    BY <2>1, <2>2
  <2>4. item \in Range(s)
    BY <1>2, <1>4, <1>7
  <2> QED BY <1>7, <2>3, <2>4
<1>9. item \in Range(s) /\ item \in ADDRS /\ p \in ADDRS /\ q \in ADDRS
  BY <1>1, <1>2, <1>4, <1>7, <1>8
\* The second writes to next[q] and prev[p] never change anything: in a ring
\* of two the first write already has, in a longer one the test fails.
<1>10. /\ \A b \in Range(s) \ {item} : next'[b] = IF b = p THEN q ELSE next[b]
       /\ \A b \in Range(s) \ {item} : prev'[b] = IF b = q THEN p ELSE prev[b]
  <2>1. ASSUME NEW b \in Range(s), b # item
        PROVE  next'[b] = IF b = p THEN q ELSE next[b]
    <3>1. b \in ADDRS
      BY <1>1
    <3>2. CASE b = q /\ b # p
      <4>1. next'[b] = IF next[b] = item THEN q ELSE next[b]
        BY <1>3, <1>9, <2>1, <3>1, <3>2 DEF PointerTypes
      <4>2. next[b] # item
        BY <1>7, <1>8, <3>2
      <4> QED BY <3>2, <4>1, <4>2
    <3>3. CASE b = q /\ b = p
      BY <1>3, <1>9, <2>1, <3>1, <3>3 DEF PointerTypes
    <3>4. CASE b # q
      BY <1>3, <1>9, <2>1, <3>1, <3>4 DEF PointerTypes
    <3> QED BY <3>2, <3>3, <3>4
  <2>2. ASSUME NEW b \in Range(s), b # item
        PROVE  prev'[b] = IF b = q THEN p ELSE prev[b]
    <3>1. b \in ADDRS
      BY <1>1
    <3>2. CASE b = p /\ b # q
      <4>1. prev'[b] = IF item # head[l] /\ prev[b] = item THEN p ELSE prev[b]
        BY <1>3, <1>9, <2>2, <3>1, <3>2 DEF PointerTypes
      <4>2. prev[b] # item
        BY <1>7, <1>8, <3>2
      <4> QED BY <3>2, <4>1, <4>2
    <3>3. CASE b = q /\ b = p
      BY <1>3, <1>9, <2>2, <3>1, <3>3 DEF PointerTypes
    <3>4. CASE b # p
      BY <1>3, <1>9, <2>2, <3>1, <3>4 DEF PointerTypes
    <3> QED BY <3>2, <3>3, <3>4
  <2> QED BY <2>1, <2>2
<1>11. Linked(t, next', prev')
  <2>1. CASE n = 1
    <3>1. Len(t) = 0
      BY <1>5, <2>1
    <3> QED BY <1>5, <3>1, EmptySeq DEF Linked, IsInjective
  <2>2. CASE n # 1
    <3>1. k \in 1 .. Len(s) /\ Len(s) > 1
      <4>1. n > 1
        BY <1>1, <1>2, <2>2
      <4> QED BY <1>2, <1>7, <4>1
    <3>2. \A b \in Range(s) \ {s[k]} :
            /\ next'[b] = IF b = prev[s[k]] THEN next[s[k]] ELSE next[b]
            /\ prev'[b] = IF b = next[s[k]] THEN prev[s[k]] ELSE prev[b]
      BY <1>7, <1>10
    <3>3. Linked(RemoveAt(s, k), next', prev')
      BY <1>1, <3>1, <3>2, RingRemove
    <3> QED BY <1>7, <3>3
  <2> QED BY <2>1, <2>2
<1>12. t # <<>> => head'[l] = t[1]
  <2>1. SUFFICES ASSUME t # <<>> PROVE head'[l] = t[1]
    OBVIOUS
  <2>2. n - 1 # 0 /\ 1 \in 1 .. n - 1 /\ 1 \in 1 .. n
    BY <1>1, <1>2, <1>5, <2>1, EmptySeq
  <2>3. head'[l] = IF head[l] = item THEN q ELSE head[l]
    BY <1>3 DEF PointerTypes
  <2>4. CASE k = 1
    <3>1. head[l] = item /\ q = s[1 + 1] /\ t[1] = s[1 + 1]
      BY <1>1, <1>2, <1>4, <1>5, <1>7, <2>2, <2>4
    <3> QED BY <2>3, <3>1
  <2>5. CASE k # 1
    <3>1. head[l] # item /\ t[1] = s[1] /\ head[l] = s[1]
      BY <1>1, <1>2, <1>4, <1>5, <1>7, <2>2, <2>5
    <3> QED BY <2>3, <3>1
  <2> QED BY <2>4, <2>5
<1>13. /\ length'[l] = Len(t)
       /\ \A m \in LISTS \ {l} : head'[m] = head[m] /\ length'[m] = length[m]
  BY <1>1, <1>3, <1>5 DEF PointerTypes
<1>14. \A b \in live \ Range(s) :
         b \in ADDRS => next'[b] = next[b] /\ prev'[b] = prev[b]
                        /\ data'[b] = data[b]
  BY <1>3, <1>8, <1>9 DEF PointerTypes
<1>15. live \subseteq ADDRS
  <2>1. \A m \in LISTS : Range(R[m]) \subseteq ADDRS
    BY OneList
  <2> QED BY <2>1 DEF LaidOut, Layout
<1>16. live' = (live \ Range(s)) \union Range(t)
  BY <1>1, <1>3, <1>6, <1>9
<1>17. \A b \in Range(t) : data'[b] \in DATA
  BY <1>1, <1>3, <1>6 DEF PointerTypes
<1>18. Rewires(l, R[l], t, head, length, next, prev, data, live,
               head', length', next', prev', data', live')
  <2>1. \A b \in live \ Range(R[l]) :
          /\ next'[b] = next[b] /\ prev'[b] = prev[b] /\ data'[b] = data[b]
          /\ b \notin Range(t)
    BY <1>6, <1>7, <1>14, <1>15
  <2>2. live' = (live \ Range(R[l])) \union Range(t)
    BY <1>7, <1>16
  <2> QED BY <1>5, <1>11, <1>12, <1>13, <1>17, <2>1, <2>2 DEF Rewires
<1>19. PointerTypes'
  <2>1. head' \in [LISTS -> ADDRS \union {NULL}]
    BY <1>3, <1>9 DEF PointerTypes
  <2>2. length' \in [LISTS -> Nat]
    <3>1. length[l] - 1 \in Nat
      BY <1>1, <1>2
    <3> QED BY <1>3, <3>1 DEF PointerTypes
  <2>3. next' \in [ADDRS -> ADDRS \union {NULL}]
    BY <1>3, <1>9 DEF PointerTypes
  <2>4. prev' \in [ADDRS -> ADDRS \union {NULL}]
    BY <1>3, <1>9 DEF PointerTypes
  <2>5. data' \in [ADDRS -> DATA \union {NULL}]
    BY <1>3 DEF PointerTypes
  <2> QED BY <2>1, <2>2, <2>3, <2>4, <2>5 DEF PointerTypes
<1>20. Becomes(R, l, t, RemoveAt(Contents[l], k))
  BY <1>1, <1>6, <1>18, <1>19, RewiredStep
<1> QED BY <1>7, <1>20

\* gkrtos_list_rotate
LEMMA RotationStep ==
  ASSUME PointerTypes, NEW R, LaidOut(R), NEW l \in LISTS, Rotate(l)
  PROVE  Becomes(R, l, ListRotate(R[l]), ListRotate(Contents[l]))
<1> DEFINE s == R[l]
           t == ListRotate(s)
<1>1. /\ s \in Seq(ADDRS) /\ Len(s) \in Nat /\ length[l] = Len(s)
      /\ s # <<>> => head[l] = s[1]
      /\ Linked(s, next, prev)
      /\ Range(s) \subseteq live /\ Range(s) \subseteq ADDRS
      /\ \A b \in Range(s) : data[b] \in DATA
      /\ Contents[l] = Read(s, data)
  BY OneList
<1>2. /\ length[l] > 0 /\ head' = [head EXCEPT ![l] = next[@]]
      /\ length' = length /\ next' = next /\ prev' = prev /\ data' = data
      /\ live' = live
  BY DEF Rotate
<1>3. s # <<>>
  <2>1. s = <<>> => Len(s) = 0
    OBVIOUS
  <2> QED BY <1>1, <1>2, <2>1
<1>4. s = R[l] /\ t = ListRotate(s)
  OBVIOUS
<1> HIDE DEF s, t
<1>5. /\ t \in Seq(ADDRS) /\ Len(t) = Len(s) /\ Range(t) = Range(s)
      /\ \A i \in 1 .. Len(s) : t[i] = IF i = Len(s) THEN s[1] ELSE s[i + 1]
      /\ Linked(t, next, prev) /\ Read(t, data) = ListRotate(Read(s, data))
  BY <1>1, <1>3, <1>4, RotateIndex, RotateFacts, RingRotate, ReadRotated
<1>6. head'[l] = t[1] /\ t[1] \in ADDRS
  <2> DEFINE n == Len(s)
  <2>1. n \in Nat \ {0}
    BY <1>1, <1>2
  <2>2. /\ \A i \in 1 .. n - 1 : next[s[i]] = s[i + 1]
        /\ next[s[n]] = s[1]
    BY <1>1, <1>3, RingByPosition
  <2>3. t \in Seq(ADDRS) /\ Len(t) = n
        /\ \A i \in 1 .. n : t[i] = IF i = n THEN s[1] ELSE s[i + 1]
    BY <1>5
  <2>4. \A i \in 1 .. n : t[i] \in ADDRS
    BY <2>3, LenProperties
  <2> HIDE DEF n
  <2>5. head'[l] = next[s[1]]
    BY <1>1, <1>2, <1>3 DEF PointerTypes
  <2>6. 1 \in 1 .. n
    BY <2>1
  <2>7. next[s[1]] = t[1]
    <3>1. CASE n = 1
      BY <2>2, <2>3, <2>6, <3>1
    <3>2. CASE n # 1
      <4>1. 1 \in 1 .. n - 1
        BY <2>1, <3>2
      <4> QED BY <2>2, <2>3, <2>6, <3>2, <4>1
    <3> QED BY <3>1, <3>2
  <2> QED BY <2>4, <2>5, <2>6, <2>7
<1>7. PointerTypes'
  BY <1>2, <1>6 DEF PointerTypes
<1>8. \A m \in LISTS \ {l} : head'[m] = head[m]
  BY <1>2 DEF PointerTypes
<1>9. Rewires(l, R[l], t, head, length, next, prev, data, live,
              head', length', next', prev', data', live')
  BY <1>1, <1>2, <1>4, <1>5, <1>6, <1>8 DEF Rewires
<1>10. Read(t, data') = ListRotate(Contents[l])
  BY <1>1, <1>2, <1>5
<1>11. Becomes(R, l, t, ListRotate(Contents[l]))
  BY <1>7, <1>9, <1>10, RewiredStep
<1> QED BY <1>4, <1>11

-----------------------------------------------------------------------------
(* Each function implements its operation                                  *)

\* Every insertion, with the position it inserts at.
LEMMA InsertionsInsert ==
  ASSUME PointerTypes, NEW R, LaidOut(R),
         NEW l \in LISTS, NEW a \in ADDRS, NEW x \in DATA
  PROVE  /\ First(l, a, x) => R[l] = <<>> /\ Inserts(R, l, a, x, 1)
         /\ AppendItem(l, a, x)
              => R[l] # <<>> /\ Inserts(R, l, a, x, Len(R[l]) + 1)
         /\ PrependItem(l, a, x) => R[l] # <<>> /\ Inserts(R, l, a, x, 1 + 1)
         /\ InsertHeadItem(l, a, x) => R[l] # <<>> /\ Inserts(R, l, a, x, 0 + 1)
         /\ \A fits \in BOOLEAN : InsertSortedItem(l, a, x, fits) =>
              /\ Len(R[l]) > 1
              /\ Inserts(R, l, a, x, (IF fits THEN 1 ELSE 2) + 1)
<1> DEFINE s == R[l]
           n == Len(s)
<1>1. /\ s \in Seq(ADDRS) /\ n \in Nat /\ length[l] = n
      /\ s # <<>> => head[l] = s[1]
      /\ \A i \in 1 .. n : next[s[i]] = s[After(i, n)]
      /\ s # <<>> => prev[s[1]] = s[n]
  <2>1. /\ s \in Seq(ADDRS) /\ n \in Nat /\ length[l] = n
        /\ s # <<>> => head[l] = s[1]
        /\ Linked(s, next, prev)
    BY OneList
  <2> HIDE DEF s
  <2> QED BY <2>1, RingByPosition DEF Linked
<1>2. s # <<>> <=> n # 0
  BY <1>1, EmptySeq
<1>3. First(l, a, x) => R[l] = <<>> /\ Inserts(R, l, a, x, 1)
  BY FirstStep
<1>4. ASSUME AppendItem(l, a, x)
      PROVE  R[l] # <<>> /\ Inserts(R, l, a, x, Len(R[l]) + 1)
  <2>1. /\ length[l] > 0 /\ NewItem(l, a, x) /\ head' = head
        /\ LinkBetween(a, prev[head[l]], head[l])
    BY <1>4 DEF AppendItem
  <2>2. s # <<>> /\ n # 0 /\ n \in 0 .. n
    BY <1>1, <1>2, <2>1
  <2>3. LinkBetween(a, s[At(n, n)], s[After(n, n)])
    BY <1>1, <2>1, <2>2 DEF At, After
  <2>4. head' = IF n = 0 THEN [head EXCEPT ![l] = a] ELSE head
    BY <2>1, <2>2
  <2>5. Inserts(R, l, a, x, n + 1)
    BY <2>1, <2>2, <2>3, <2>4, InsertionStep
  <2> QED BY <2>2, <2>5
<1>5. ASSUME PrependItem(l, a, x)
      PROVE  R[l] # <<>> /\ Inserts(R, l, a, x, 1 + 1)
  <2>1. /\ length[l] > 0 /\ NewItem(l, a, x) /\ head' = head
        /\ LinkBetween(a, head[l], next[head[l]])
    BY <1>5 DEF PrependItem
  <2> DEFINE k == 1
  <2>2. s # <<>> /\ n # 0 /\ k \in 0 .. n /\ k \in 1 .. n
    BY <1>1, <1>2, <2>1
  <2>3. LinkBetween(a, s[At(k, n)], s[After(k, n)])
    BY <1>1, <2>1, <2>2 DEF At
  <2>4. head' = IF k = 0 THEN [head EXCEPT ![l] = a] ELSE head
    BY <2>1
  <2> HIDE DEF k
  <2>5. Inserts(R, l, a, x, k + 1)
    BY <2>1, <2>2, <2>3, <2>4, InsertionStep
  <2> QED BY <2>2, <2>5 DEF k
<1>6. ASSUME InsertHeadItem(l, a, x)
      PROVE  R[l] # <<>> /\ Inserts(R, l, a, x, 0 + 1)
  <2>1. /\ length[l] > 0 /\ NewItem(l, a, x) /\ head' = [head EXCEPT ![l] = a]
        /\ LinkBetween(a, prev[head[l]], head[l])
    BY <1>6 DEF InsertHeadItem
  <2> DEFINE k == 0
  <2>2. s # <<>> /\ n # 0 /\ k \in 0 .. n
    BY <1>1, <1>2, <2>1
  <2>3. LinkBetween(a, s[At(k, n)], s[After(k, n)])
    BY <1>1, <2>1, <2>2 DEF At, After
  <2>4. head' = IF k = 0 THEN [head EXCEPT ![l] = a] ELSE head
    BY <2>1
  <2> HIDE DEF k
  <2>5. Inserts(R, l, a, x, k + 1)
    BY <2>1, <2>2, <2>3, <2>4, InsertionStep
  <2> QED BY <2>2, <2>5 DEF k
<1>7. ASSUME NEW fits \in BOOLEAN, InsertSortedItem(l, a, x, fits)
      PROVE  /\ Len(R[l]) > 1
             /\ Inserts(R, l, a, x, (IF fits THEN 1 ELSE 2) + 1)
  <2> DEFINE k == IF fits THEN 1 ELSE 2
             previous == IF fits THEN head[l] ELSE next[head[l]]
  <2>1. /\ length[l] > 1 /\ NewItem(l, a, x) /\ head' = head
        /\ LinkBetween(a, previous, next[previous])
    BY <1>7 DEF InsertSortedItem
  <2>2. s # <<>> /\ n > 1 /\ length[l] > 0 /\ k \in 0 .. n /\ k \in 1 .. n
        /\ k # 0
    BY <1>1, <1>2, <2>1
  <2>3. previous = s[k]
    <3>1. 1 \in 1 .. n /\ After(1, n) = 2 /\ head[l] = s[1]
      BY <1>1, <2>2 DEF After
    <3> QED BY <1>1, <3>1
  <2> HIDE DEF k, previous
  <2>4. LinkBetween(a, s[At(k, n)], s[After(k, n)])
    BY <1>1, <2>1, <2>2, <2>3 DEF At
  <2>5. head' = IF k = 0 THEN [head EXCEPT ![l] = a] ELSE head
    BY <2>1, <2>2
  <2>6. Inserts(R, l, a, x, k + 1)
    BY <2>1, <2>2, <2>4, <2>5, InsertionStep
  <2> QED BY <2>2, <2>6 DEF k
<1> QED BY <1>3, <1>4, <1>5, <1>6, <1>7

\* What ListOps does is an insertion at those positions.
LEMMA OperationsInsert ==
  ASSUME NEW c \in Seq(DATA), NEW x \in DATA
  PROVE  /\ c = <<>> => /\ ListAppend(c, x) = InsertAt(c, 1, x)
                        /\ ListPrepend(c, x) = InsertAt(c, 1, x)
         /\ ListAppend(c, x) = InsertAt(c, Len(c) + 1, x)
         /\ c # <<>> => ListPrepend(c, x) = InsertAt(c, 1 + 1, x)
         /\ ListInsertHead(c, x) = InsertAt(c, 1, x)
         /\ Len(c) > 1 => \A fits \in BOOLEAN :
              ListInsertSorted(c, x, fits)
                = InsertAt(c, (IF fits THEN 1 ELSE 2) + 1, x)
<1>1. /\ Append(c, x) = InsertAt(c, Len(c) + 1, x)
      /\ <<x>> \o c = InsertAt(c, 1, x)
  BY EndsAreInsertions
<1>2. c = <<>> => Len(c) = 0 /\ Len(c) + 1 = 1
  OBVIOUS
<1>3. ASSUME c = <<>> PROVE ListPrepend(c, x) = InsertAt(c, 1, x)
  <2>1. <<x>> \o c = <<x>>
    BY <1>3, ConcatEmptySeq
  <2> QED BY <1>1, <1>3, <2>1 DEF ListPrepend
<1>4. c # <<>> => ListPrepend(c, x) = InsertAt(c, 1 + 1, x)
  BY DEF ListPrepend
<1>5. ASSUME Len(c) > 1, NEW fits \in BOOLEAN
      PROVE  ListInsertSorted(c, x, fits)
               = InsertAt(c, (IF fits THEN 1 ELSE 2) + 1, x)
  <2>1. ~(Len(c) <= 1)
    BY <1>5, LenProperties
  <2> QED BY <2>1 DEF ListInsertSorted
<1> QED BY <1>1, <1>2, <1>3, <1>4, <1>5 DEF ListAppend, ListInsertHead

\* And what it removes is what get_item_with_data finds.
LEMMA OperationRemoves ==
  ASSUME NEW s \in Seq(ADDRS), NEW x,
         \A b \in Range(s) : data[b] \in DATA,
         Min(Hits(s, x)) \in Hits(s, x)
  PROVE  /\ ~Abstract!ListRemoveFaults(Read(s, data), x)
         /\ Abstract!ListRemove(Read(s, data), x)
              = RemoveAt(Read(s, data), Min(Hits(s, x)))
<1> DEFINE c == Read(s, data)
           hits == {i \in 1 .. Len(c) : c[i] = x}
           k == Min(Hits(s, x))
<1>1. /\ c \in Seq(DATA) /\ Len(c) = Len(s)
      /\ \A i \in 1 .. Len(s) : c[i] = data[s[i]]
  BY ReadFacts
<1>2. hits = Hits(s, x)
  BY <1>1 DEF Hits
<1>3. k = Min(hits) /\ k \in hits
  BY <1>2
<1>4. k \in 1 .. Len(c) /\ c[k] = x
  BY <1>3
<1>5. Abstract!SelectInSeq(c, LAMBDA v : v = x)
        = IF hits # {} THEN Abstract!Min(hits) ELSE 0
  BY DEF Abstract!SelectInSeq
<1>6. Abstract!Min(hits) = Min(hits)
  BY DEF Abstract!Min, Min
<1> HIDE DEF c, hits, k
<1>7. Abstract!SelectInSeq(c, LAMBDA v : v = x) = k
  BY <1>3, <1>5, <1>6
<1>8. Abstract!ListRemove(c, x) = RemoveAt(c, k)
  BY <1>4, <1>7 DEF Abstract!ListRemove, Abstract!RemoveFirst, Abstract!RemoveAt,
                    RemoveAt
<1>9. x \in Abstract!Range(c)
  BY <1>1, <1>4, LenProperties DEF Abstract!Range
<1>10. ~Abstract!ListRemoveFaults(c, x)
  BY <1>9 DEF Abstract!ListRemoveFaults
<1> QED BY <1>8, <1>10 DEF c, k

\* Every function keeps the invariant and does the operation it is named for.
LEMMA FunctionsImplement ==
  ASSUME ListInv, NEW l \in LISTS, NEW a \in ADDRS, NEW x \in DATA
  PROVE  /\ First(l, a, x) =>
              /\ ListInv' /\ Abstract!AppendData(l, x)
              /\ Abstract!PrependData(l, x) /\ Abstract!InsertHeadData(l, x)
         /\ AppendItem(l, a, x) => ListInv' /\ Abstract!AppendData(l, x)
         /\ PrependItem(l, a, x) => ListInv' /\ Abstract!PrependData(l, x)
         /\ InsertHeadItem(l, a, x) => ListInv' /\ Abstract!InsertHeadData(l, x)
         /\ \A fits \in BOOLEAN : InsertSortedItem(l, a, x, fits)
              => ListInv' /\ Abstract!InsertSortedData(l, x, fits)
<1>1. PICK R : LaidOut(R)
  BY DEF ListInv
<1>2. PointerTypes
  BY DEF ListInv
<1> DEFINE c == Contents[l]
           s == R[l]
<1>3. /\ c \in Seq(DATA) /\ Len(c) = Len(s) /\ (c = <<>> <=> s = <<>>)
  BY <1>1, OneList, ReadFacts
<1>4. ASSUME NEW k, Inserts(R, l, a, x, k)
      PROVE  ListInv' /\ Contents' = [Contents EXCEPT ![l] = InsertAt(c, k, x)]
  BY <1>4 DEF Inserts, ListInv
<1>5. /\ First(l, a, x) => s = <<>> /\ Inserts(R, l, a, x, 1)
      /\ AppendItem(l, a, x) => s # <<>> /\ Inserts(R, l, a, x, Len(s) + 1)
      /\ PrependItem(l, a, x) => s # <<>> /\ Inserts(R, l, a, x, 1 + 1)
      /\ InsertHeadItem(l, a, x) => s # <<>> /\ Inserts(R, l, a, x, 0 + 1)
      /\ \A fits \in BOOLEAN : InsertSortedItem(l, a, x, fits) =>
           Len(s) > 1 /\ Inserts(R, l, a, x, (IF fits THEN 1 ELSE 2) + 1)
  BY <1>1, <1>2, InsertionsInsert
<1>6. 0 + 1 = 1
  OBVIOUS
<1> HIDE DEF c, s
<1>7. /\ c = <<>> => /\ ListAppend(c, x) = InsertAt(c, 1, x)
                     /\ ListPrepend(c, x) = InsertAt(c, 1, x)
      /\ ListAppend(c, x) = InsertAt(c, Len(c) + 1, x)
      /\ c # <<>> => ListPrepend(c, x) = InsertAt(c, 1 + 1, x)
      /\ ListInsertHead(c, x) = InsertAt(c, 1, x)
      /\ Len(c) > 1 => \A fits \in BOOLEAN :
           ListInsertSorted(c, x, fits)
             = InsertAt(c, (IF fits THEN 1 ELSE 2) + 1, x)
  BY <1>3, OperationsInsert
<1>8. /\ Abstract!AppendData(l, x)
           <=> Contents' = [Contents EXCEPT ![l] = ListAppend(c, x)]
      /\ Abstract!PrependData(l, x)
           <=> Contents' = [Contents EXCEPT ![l] = ListPrepend(c, x)]
      /\ Abstract!InsertHeadData(l, x)
           <=> Contents' = [Contents EXCEPT ![l] = ListInsertHead(c, x)]
      /\ \A fits : Abstract!InsertSortedData(l, x, fits)
           <=> Contents' = [Contents EXCEPT ![l] = ListInsertSorted(c, x, fits)]
  BY DEF c, Abstract!AppendData, Abstract!PrependData, Abstract!InsertHeadData,
         Abstract!InsertSortedData, Abstract!Change,
         Abstract!ListAppend, Abstract!ListPrepend, Abstract!ListInsertHead,
         Abstract!ListInsertSorted, Abstract!InsertAt,
         ListAppend, ListPrepend, ListInsertHead, ListInsertSorted, InsertAt
<1>9. First(l, a, x) => /\ ListInv' /\ Abstract!AppendData(l, x)
                        /\ Abstract!PrependData(l, x)
                        /\ Abstract!InsertHeadData(l, x)
  BY <1>3, <1>4, <1>5, <1>7, <1>8
<1>10. AppendItem(l, a, x) => ListInv' /\ Abstract!AppendData(l, x)
  BY <1>3, <1>4, <1>5, <1>7, <1>8
<1>11. PrependItem(l, a, x) => ListInv' /\ Abstract!PrependData(l, x)
  BY <1>3, <1>4, <1>5, <1>7, <1>8
<1>12. InsertHeadItem(l, a, x) => ListInv' /\ Abstract!InsertHeadData(l, x)
  BY <1>3, <1>4, <1>5, <1>6, <1>7, <1>8
<1>13. ASSUME NEW fits \in BOOLEAN, InsertSortedItem(l, a, x, fits)
       PROVE  ListInv' /\ Abstract!InsertSortedData(l, x, fits)
  BY <1>3, <1>4, <1>5, <1>7, <1>8, <1>13
<1> QED BY <1>9, <1>10, <1>11, <1>12, <1>13

\* Likewise removal ...
LEMMA RemovalImplements ==
  ASSUME ListInv, NEW l \in LISTS, NEW x \in DATA, RemoveData(l, x)
  PROVE  ListInv' /\ Abstract!RemoveData(l, x)
<1>1. PICK R : LaidOut(R)
  BY DEF ListInv
<1>2. PointerTypes
  BY DEF ListInv
<1> DEFINE c == Contents[l]
           s == R[l]
           k == Min(Hits(s, x))
<1>3. GetItemWithData(l, x) # NULL /\ RemoveItem(l, GetItemWithData(l, x))
  BY DEF RemoveData
<1>4. /\ k \in Hits(s, x)
      /\ GetItemWithData(l, x) = s[k]
  BY <1>1, <1>3, FindsFirst
<1>5. /\ s \in Seq(ADDRS) /\ c = Read(s, data)
      /\ \A b \in Range(s) : data[b] \in DATA
  BY <1>1, OneList
<1>6. k \in 1 .. Len(R[l]) /\ RemoveItem(l, R[l][k])
  BY <1>3, <1>4 DEF Hits
<1>7. k = Min(Hits(s, x)) /\ s = R[l] /\ c = Contents[l]
  OBVIOUS
<1> HIDE DEF k, c, s
<1>8. Becomes(R, l, RemoveAt(R[l], k), RemoveAt(Contents[l], k))
  BY <1>1, <1>2, <1>6, RemovalStep
<1>9. ListInv' /\ Contents' = [Contents EXCEPT ![l] = RemoveAt(c, k)]
  BY <1>7, <1>8 DEF Becomes, ListInv
<1>10. /\ ~Abstract!ListRemoveFaults(c, x)
       /\ Abstract!ListRemove(c, x) = RemoveAt(c, k)
  <2>1. /\ ~Abstract!ListRemoveFaults(Read(s, data), x)
        /\ Abstract!ListRemove(Read(s, data), x)
             = RemoveAt(Read(s, data), Min(Hits(s, x)))
    BY <1>4, <1>5, <1>7, OperationRemoves
  <2> QED BY <1>5, <1>7, <2>1
<1> QED BY <1>7, <1>9, <1>10 DEF Abstract!RemoveData, Abstract!Change

\* ... and rotation.
LEMMA RotationImplements ==
  ASSUME ListInv, NEW l \in LISTS, Rotate(l)
  PROVE  ListInv' /\ Abstract!Rotate(l)
<1>1. PICK R : LaidOut(R)
  BY DEF ListInv
<1>2. PointerTypes
  BY DEF ListInv
<1>3. Becomes(R, l, ListRotate(R[l]), ListRotate(Contents[l]))
  BY <1>1, <1>2, RotationStep
<1>4. ListInv' /\ Contents' = [Contents EXCEPT ![l] = ListRotate(Contents[l])]
  BY <1>3 DEF Becomes, ListInv
<1> QED BY <1>4 DEF Abstract!Rotate, Abstract!Change, Abstract!ListRotate, ListRotate

-----------------------------------------------------------------------------
(* Theorems                                                                *)

LEMMA ListInitInv == Init => ListInv
<1> SUFFICES ASSUME Init PROVE ListInv
  OBVIOUS
<1>1. PointerTypes
  BY DEF Init, PointerTypes
<1> DEFINE R == [l \in LISTS |-> <<>>]
<1>2. \A l \in LISTS : R[l] = <<>> /\ Len(R[l]) = 0 /\ Range(R[l]) = {}
  BY DEF Range
<1>3. R \in [LISTS -> Seq(ADDRS)]
  BY EmptySeq
<1> HIDE DEF R
<1>4. \A l \in LISTS : Linked(R[l], next, prev)
  BY <1>2 DEF Linked, IsInjective
<1>5. LaidOut(R)
  BY <1>2, <1>3, <1>4 DEF Init, LaidOut, Layout
<1> QED BY <1>1, <1>5 DEF ListInv

\* Every step keeps the invariant and is a step of the abstract lists.
LEMMA ListStep ==
  ListInv /\ [Next]_vars => ListInv' /\ [Abstract!Next]_Contents
<1> SUFFICES ASSUME ListInv, [Next]_vars
             PROVE  ListInv' /\ [Abstract!Next]_Contents
  OBVIOUS
<1>1. CASE UNCHANGED vars
  <2>1. ListInv'
    BY <1>1 DEF vars, ListInv, PointerTypes, LaidOut
  <2>2. Contents' = Contents
    BY <1>1, ContentsUnfold DEF vars
  <2> QED BY <2>1, <2>2
<1>2. ASSUME NEW l \in LISTS, Rotate(l) PROVE ListInv' /\ Abstract!Next
  BY <1>2, RotationImplements DEF Abstract!Next
<1>3. ASSUME NEW l \in LISTS, NEW x \in DATA, RemoveData(l, x)
      PROVE  ListInv' /\ Abstract!Next
  BY <1>3, RemovalImplements DEF Abstract!Next
<1>4. ASSUME NEW l \in LISTS, NEW x \in DATA, NEW a \in ADDRS, Insert(l, a, x)
      PROVE  ListInv' /\ Abstract!Next
  BY <1>4, FunctionsImplement DEF Insert, Abstract!Next
<1> QED BY <1>1, <1>2, <1>3, <1>4 DEF Next

\* The pointers of every reachable state lay out some lists.
THEOREM ListsLaidOut == Spec => []ListInv
<1>1. Init => ListInv
  BY ListInitInv
<1>2. ListInv /\ [Next]_vars => ListInv'
  BY ListStep
<1> QED BY <1>1, <1>2, PTL DEF Spec

\* The items that the walk counts are those of the layout.
LEMMA ItemsAreRange ==
  ASSUME NEW R, LaidOut(R), NEW l \in LISTS
  PROVE  /\ ItemsOf(l) = Range(R[l])
         /\ length[l] > 0 => Walk(l)[length[l]] = R[l][length[l]]
<1> DEFINE s == R[l]
<1>1. /\ s \in Seq(ADDRS) /\ Len(s) \in Nat /\ length[l] = Len(s)
      /\ s # <<>> => head[l] = s[1]
      /\ Linked(s, next, prev)
  BY OneList
<1>2. s = R[l]
  OBVIOUS
<1> HIDE DEF s
<1>3. \A i \in 1 .. Len(s) : Walk(l)[i] = s[i]
  <2>1. CASE s = <<>>
    <3>1. Len(s) = 0
      BY <2>1
    <3> QED BY <3>1
  <2>2. CASE s # <<>>
    <3>1. Walk(l) = WalkOf(s[1], next)
      BY <1>1, <2>2, WalkIsWalkOf
    <3> QED BY <1>1, <2>2, <3>1, WalkFollowsRing
  <2> QED BY <2>1, <2>2
<1>4. ItemsOf(l) = {s[i] : i \in 1 .. Len(s)}
  BY <1>1, <1>3 DEF ItemsOf
<1>5. ItemsOf(l) = Range(s)
  BY <1>1, <1>4, RangeEquality
<1>6. length[l] > 0 => Walk(l)[length[l]] = s[length[l]]
  <2>1. length[l] > 0 => length[l] \in 1 .. Len(s)
    BY <1>1
  <2> QED BY <1>3, <2>1
<1> QED BY <1>2, <1>5, <1>6

\* Every list is a ring of its length, in both directions, whatever is
\* inserted, removed and rotated and whichever freed addresses malloc reuses.
THEOREM RingsStayWellFormed == Spec => []RingWellFormed
<1>1. ASSUME ListInv PROVE RingWellFormed
  <2>1. PICK R : LaidOut(R)
    BY <1>1 DEF ListInv
  <2>2. SUFFICES ASSUME NEW l \in LISTS, length[l] > 0
                 PROVE  /\ Cardinality(ItemsOf(l)) = length[l]
                        /\ ItemsOf(l) \subseteq live
                        /\ next[Walk(l)[length[l]]] = head[l]
                        /\ \A a \in ItemsOf(l) :
                             prev[next[a]] = a /\ next[prev[a]] = a
    BY DEF RingWellFormed
  <2> DEFINE s == R[l]
             n == Len(s)
  <2>3. /\ s \in Seq(ADDRS) /\ n \in Nat /\ length[l] = n
        /\ s # <<>> => head[l] = s[1]
        /\ Linked(s, next, prev) /\ IsInjective(s)
        /\ Range(s) \subseteq live
        /\ ItemsOf(l) = Range(s) /\ Walk(l)[length[l]] = s[length[l]]
    BY <2>1, <2>2, OneList, ItemsAreRange
  <2>4. s # <<>>
    <3>1. s = <<>> => Len(s) = 0
      OBVIOUS
    <3> QED BY <2>2, <2>3, <3>1
  <2> HIDE DEF s
  <2>5. Cardinality(Range(s)) = n
    BY <2>3, RingFits DEF n
  <2>6. /\ next[s[n]] = s[1] /\ prev[s[1]] = s[n]
        /\ \A i \in 1 .. n - 1 : next[s[i]] = s[i + 1] /\ prev[s[i + 1]] = s[i]
        /\ Range(s) = {s[i] : i \in 1 .. n}
    BY <2>3, <2>4, RingByPosition, RangeEquality DEF n
  <2> HIDE DEF n
  <2>7. ASSUME NEW i \in 1 .. n
        PROVE  prev[next[s[i]]] = s[i] /\ next[prev[s[i]]] = s[i]
    <3>1. prev[next[s[i]]] = s[i]
      <4>1. CASE i = n
        BY <2>6, <4>1
      <4>2. CASE i # n
        <5>1. i \in 1 .. n - 1
          BY <2>3, <4>2
        <5> QED BY <2>6, <5>1
      <4> QED BY <4>1, <4>2
    <3>2. next[prev[s[i]]] = s[i]
      <4>1. CASE i = 1
        BY <2>6, <4>1
      <4>2. CASE i # 1
        <5>1. i - 1 \in 1 .. n - 1 /\ (i - 1) + 1 = i
          BY <2>3, <4>2
        <5>2. /\ next[s[i - 1]] = s[(i - 1) + 1]
              /\ prev[s[(i - 1) + 1]] = s[i - 1]
          BY <2>6, <5>1
        <5> QED BY <5>1, <5>2
      <4> QED BY <4>1, <4>2
    <3> QED BY <3>1, <3>2
  <2> QED BY <2>3, <2>4, <2>5, <2>6, <2>7
<1>2. ListInv => RingWellFormed
  BY <1>1
<1> QED BY <1>2, ListsLaidOut, PTL

\* No item is in two lists and none leaks.
THEOREM HeapStaysPartitioned == Spec => []HeapPartitioned
<1>1. ASSUME ListInv PROVE HeapPartitioned
  <2>1. PICK R : LaidOut(R)
    BY <1>1 DEF ListInv
  <2>2. \A l \in LISTS : ItemsOf(l) = Range(R[l])
    BY <2>1, ItemsAreRange
  <2>3. /\ \A l, m \in LISTS : l # m => Range(R[l]) \cap Range(R[m]) = {}
        /\ live = UNION {Range(R[l]) : l \in LISTS}
    BY <2>1 DEF LaidOut, Layout
  <2>4. {ItemsOf(l) : l \in LISTS} = {Range(R[l]) : l \in LISTS}
    BY <2>2
  <2> QED BY <2>2, <2>3, <2>4 DEF HeapPartitioned
<1>2. ListInv => HeapPartitioned
  BY <1>1
<1> QED BY <1>2, ListsLaidOut, PTL

\* The lists of pointers implement the lists of data.
THEOREM ListsImplementSequences == Spec => ImplementsAbstractLists
<1>1. Init => Abstract!Init
  <2> SUFFICES ASSUME Init PROVE Abstract!Init
    OBVIOUS
  <2>1. \A l \in LISTS : length[l] = 0
    BY DEF Init
  <2>2. Contents = [l \in LISTS |-> [i \in 1 .. 0 |-> data[Walk(l)[i]]]]
    BY <2>1 DEF Contents
  <2>3. \A l \in LISTS : [i \in 1 .. 0 |-> data[Walk(l)[i]]] = <<>>
    OBVIOUS
  <2> QED BY <2>2, <2>3 DEF Abstract!Init
<1>2. ListInv /\ [Next]_vars => [Abstract!Next]_Contents
  BY ListStep
<1> QED BY <1>1, <1>2, ListsLaidOut, PTL DEF Spec, ImplementsAbstractLists, Abstract!Spec

\* Each function does what ListOps says of it, in every reachable state.
THEOREM FunctionsImplementOperations == Spec => EachFunctionImplementsItsOperation
<1> DEFINE Each ==
      \A l \in LISTS, a \in ADDRS, x \in DATA :
       /\ First(l, a, x) \/ AppendItem(l, a, x) => Abstract!AppendData(l, x)
       /\ First(l, a, x) \/ PrependItem(l, a, x) => Abstract!PrependData(l, x)
       /\ First(l, a, x) \/ InsertHeadItem(l, a, x)
            => Abstract!InsertHeadData(l, x)
       /\ \A fits \in BOOLEAN : InsertSortedItem(l, a, x, fits)
            => Abstract!InsertSortedData(l, x, fits)
       /\ RemoveData(l, x) => Abstract!RemoveData(l, x)
       /\ Rotate(l) => Abstract!Rotate(l)
<1>1. ListInv => [Each]_vars
  BY FunctionsImplement, RemovalImplements, RotationImplements
<1> QED BY <1>1, ListsLaidOut, PTL DEF EachFunctionImplementsItsOperation
=============================================================================
