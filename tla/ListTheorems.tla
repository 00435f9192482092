---------------------------- MODULE ListTheorems ----------------------------
(***************************************************************************)
(* What the list operations of ListOps keep: the elements of the list, and *)
(* that no element occurs twice.  Nothing of that depends on the order in  *)
(* which a list holds its elements; the last section says where each       *)
(* operation puts them, and the first what stands in for induction.        *)
(***************************************************************************)
EXTENDS ListOps, SequenceTheorems, WellFoundedInduction, TLAPS

\* The least-number principle.  The provers cannot apply an induction theorem
\* to a formula; they can take the least counterexample.
LEMMA LeastNumber ==
  ASSUME NEW T \in SUBSET Nat, T # {}
  PROVE  \E n \in T : \A m \in T : n <= m
<1> DEFINE less == OpToRel(<, Nat)
<1>1. IsWellFoundedOn(less, Nat)
  BY NatLessThanWellFounded
<1>2. \A x, y \in Nat : x < y => <<x, y>> \in less
  BY DEF OpToRel
<1> HIDE DEF less
<1>3. PICK n \in T : \A m \in T : ~(<<m, n>> \in less)
  BY <1>1, WFMin
<1>4. ASSUME NEW m \in T PROVE n <= m
  <2>1. n \in Nat /\ m \in Nat /\ ~(<<m, n>> \in less)
    BY <1>3
  <2> QED BY <1>2, <2>1
<1> QED BY <1>4

\* What Min means of a set of numbers that has an element.
LEMMA MinFacts ==
  ASSUME NEW T \in SUBSET Nat, T # {}
  PROVE  Min(T) \in T /\ \A m \in T : Min(T) <= m
BY LeastNumber DEF Min

-----------------------------------------------------------------------------
(* Elements                                                                *)

\* Concatenation: injective parts without a common element stay injective.
LEMMA ConcatInjective ==
  ASSUME NEW S, NEW s \in Seq(S), NEW t \in Seq(S),
         IsInjective(s), IsInjective(t), Range(s) \cap Range(t) = {}
  PROVE  IsInjective(s \o t)
<1>1. /\ s \o t \in Seq(S)
      /\ Len(s \o t) = Len(s) + Len(t)
      /\ \A i \in 1 .. Len(s) + Len(t) :
           (s \o t)[i] = IF i <= Len(s) THEN s[i] ELSE t[i - Len(s)]
  BY ConcatProperties
<1>2. Len(s) \in Nat /\ Len(t) \in Nat /\ DOMAIN s = 1 .. Len(s)
      /\ DOMAIN t = 1 .. Len(t) /\ DOMAIN (s \o t) = 1 .. Len(s) + Len(t)
  BY <1>1, LenProperties
<1>3. SUFFICES ASSUME NEW i \in 1 .. Len(s) + Len(t),
                      NEW j \in 1 .. Len(s) + Len(t),
                      (s \o t)[i] = (s \o t)[j]
               PROVE  i = j
  BY <1>2 DEF IsInjective
<1>4. \A k \in 1 .. Len(s), l \in 1 .. Len(t) : s[k] # t[l]
  BY <1>2 DEF Range
<1>5. CASE i <= Len(s) /\ j <= Len(s)
  BY <1>1, <1>2, <1>3, <1>5 DEF IsInjective
<1>6. CASE i > Len(s) /\ j > Len(s)
  <2>1. t[i - Len(s)] = t[j - Len(s)]
    BY <1>1, <1>2, <1>3, <1>6
  <2>2. i - Len(s) \in 1 .. Len(t) /\ j - Len(s) \in 1 .. Len(t)
    BY <1>2, <1>6
  <2> QED BY <1>2, <2>1, <2>2 DEF IsInjective
<1>7. CASE i <= Len(s) /\ j > Len(s)
  BY <1>1, <1>2, <1>3, <1>4, <1>7
<1>8. CASE i > Len(s) /\ j <= Len(s)
  BY <1>1, <1>2, <1>3, <1>4, <1>8
<1> QED BY <1>2, <1>5, <1>6, <1>7, <1>8

\* Concatenation: what it contains, and the above.
LEMMA ConcatFacts ==
  ASSUME NEW S, NEW s \in Seq(S), NEW t \in Seq(S)
  PROVE  /\ s \o t \in Seq(S)
         /\ Range(s \o t) = Range(s) \union Range(t)
         /\ IsInjective(s) /\ IsInjective(t) /\ Range(s) \cap Range(t) = {}
              => IsInjective(s \o t)
<1>1. s \o t \in Seq(S)
  BY ConcatProperties
<1>2. Range(s \o t) = Range(s) \union Range(t)
  BY RangeConcatenation
<1>3. IsInjective(s) /\ IsInjective(t) /\ Range(s) \cap Range(t) = {}
        => IsInjective(s \o t)
  BY ConcatInjective
<1> QED BY <1>1, <1>2, <1>3

\* A sequence of one element.
LEMMA SingletonFacts ==
  ASSUME NEW S, NEW e \in S
  PROVE  <<e>> \in Seq(S) /\ Range(<<e>>) = {e} /\ IsInjective(<<e>>)
BY DEF Range, IsInjective

\* Cutting a list in two loses and repeats nothing.
LEMMA SplitFacts ==
  ASSUME NEW S, NEW s \in Seq(S), NEW i \in 1 .. Len(s) + 1
  PROVE  /\ SubSeq(s, 1, i - 1) \in Seq(S) /\ SubSeq(s, i, Len(s)) \in Seq(S)
         /\ Len(SubSeq(s, 1, i - 1)) = i - 1
         /\ Len(SubSeq(s, i, Len(s))) = Len(s) - i + 1
         /\ Range(SubSeq(s, 1, i - 1)) = {s[k] : k \in 1 .. i - 1}
         /\ Range(SubSeq(s, i, Len(s))) = {s[k] : k \in i .. Len(s)}
         /\ IsInjective(s) => /\ IsInjective(SubSeq(s, 1, i - 1))
                              /\ IsInjective(SubSeq(s, i, Len(s)))
<1> DEFINE a == SubSeq(s, 1, i - 1)
           b == SubSeq(s, i, Len(s))
<1>1. Len(s) \in Nat /\ DOMAIN s = 1 .. Len(s) /\ \A k \in 1 .. Len(s) : s[k] \in S
  BY LenProperties
<1>2. /\ a \in Seq(S) /\ Len(a) = i - 1 /\ DOMAIN a = 1 .. i - 1
      /\ \A k \in 1 .. i - 1 : a[k] = s[k]
  <2>1. \A k \in 1 .. i - 1 : s[k] \in S
    BY <1>1
  <2>2. /\ a \in Seq(S)
        /\ Len(a) = IF 1 <= i - 1 THEN i - 1 - 1 + 1 ELSE 0
        /\ \A k \in 1 .. i - 1 - 1 + 1 : a[k] = s[1 + k - 1]
    BY <1>1, <2>1, SubSeqProperties
  <2> QED BY <1>1, <2>2, LenProperties
<1>3. /\ b \in Seq(S) /\ Len(b) = Len(s) - i + 1
      /\ DOMAIN b = 1 .. Len(s) - i + 1
      /\ \A k \in 1 .. Len(s) - i + 1 : b[k] = s[i + k - 1]
  <2>1. \A k \in i .. Len(s) : s[k] \in S
    BY <1>1
  <2>2. /\ b \in Seq(S)
        /\ Len(b) = IF i <= Len(s) THEN Len(s) - i + 1 ELSE 0
        /\ \A k \in 1 .. Len(s) - i + 1 : b[k] = s[i + k - 1]
    BY <1>1, <2>1, SubSeqProperties
  <2> QED BY <1>1, <2>2, LenProperties
<1>4. Range(a) = {s[k] : k \in 1 .. i - 1}
  BY <1>2 DEF Range
<1>5. Range(b) = {s[k] : k \in i .. Len(s)}
  <2>1. \A k \in i .. Len(s) : k - i + 1 \in DOMAIN b /\ b[k - i + 1] = s[k]
    BY <1>1, <1>3
  <2>2. \A k \in DOMAIN b : i + k - 1 \in i .. Len(s)
    BY <1>1, <1>3
  <2>3. ASSUME NEW k \in i .. Len(s) PROVE s[k] \in Range(b)
    <3>1. s[k] = b[k - i + 1] /\ k - i + 1 \in DOMAIN b
      BY <2>1
    <3> QED BY <3>1 DEF Range
  <2>4. ASSUME NEW e \in Range(b) PROVE \E k \in i .. Len(s) : e = s[k]
    <3>1. PICK k \in DOMAIN b : e = b[k]
      BY DEF Range
    <3>2. e = s[i + k - 1]
      BY <1>3, <3>1
    <3> QED BY <2>2, <3>2
  <2> QED BY <2>3, <2>4
<1>6. ASSUME IsInjective(s) PROVE IsInjective(a) /\ IsInjective(b)
  <2>1. IsInjective(a)
    BY <1>1, <1>2, <1>6 DEF IsInjective
  <2>2. ASSUME NEW k \in DOMAIN b, NEW l \in DOMAIN b, b[k] = b[l]
        PROVE  k = l
    <3>1. s[i + k - 1] = s[i + l - 1] /\ i + k - 1 \in DOMAIN s
          /\ i + l - 1 \in DOMAIN s
      BY <1>1, <1>3, <2>2
    <3>2. i + k - 1 = i + l - 1
      BY <1>6, <3>1 DEF IsInjective
    <3> QED BY <1>1, <1>3, <3>2
  <2> QED BY <2>1, <2>2 DEF IsInjective
<1> QED BY <1>2, <1>3, <1>4, <1>5, <1>6

\* Insertion anywhere adds one element.
LEMMA InsertAtFacts ==
  ASSUME NEW S, NEW s \in Seq(S), NEW i \in 1 .. Len(s) + 1, NEW e \in S
  PROVE  /\ InsertAt(s, i, e) \in Seq(S)
         /\ Range(InsertAt(s, i, e)) = Range(s) \union {e}
         /\ IsInjective(s) /\ e \notin Range(s)
              => IsInjective(InsertAt(s, i, e))
<1> DEFINE a == SubSeq(s, 1, i - 1)
           b == SubSeq(s, i, Len(s))
<1>1. /\ a \in Seq(S) /\ b \in Seq(S)
      /\ Range(a) = {s[k] : k \in 1 .. i - 1}
      /\ Range(b) = {s[k] : k \in i .. Len(s)}
      /\ IsInjective(s) => IsInjective(a) /\ IsInjective(b)
  BY SplitFacts
<1>2. Len(s) \in Nat /\ DOMAIN s = 1 .. Len(s)
  BY LenProperties
<1> DEFINE u == <<e>>
<1>3. u \in Seq(S) /\ Range(u) = {e} /\ IsInjective(u)
  BY SingletonFacts
<1>4. Range(a) \union Range(b) = Range(s)
  BY <1>1, <1>2 DEF Range
<1>5. InsertAt(s, i, e) = (a \o u) \o b
  BY DEF InsertAt
<1> HIDE DEF a, b, u
<1>6. a \o u \in Seq(S) /\ Range(a \o u) = Range(a) \union {e}
  BY <1>1, <1>3, ConcatFacts
<1> DEFINE c == a \o u
<1>7. c \in Seq(S) /\ Range(c) = Range(a) \union {e}
  BY <1>6
<1>8. ASSUME IsInjective(s), e \notin Range(s)
      PROVE  IsInjective(c) /\ Range(c) \cap Range(b) = {}
  <2>1. Range(a) \cap Range(b) = {}
    BY <1>1, <1>2, <1>8 DEF IsInjective
  <2>2. Range(a) \cap Range(u) = {}
    BY <1>3, <1>4, <1>8
  <2>3. IsInjective(c)
    BY <1>1, <1>3, <1>8, <2>2, ConcatFacts
  <2> QED BY <1>4, <1>7, <1>8, <2>1, <2>3
<1> HIDE DEF c
<1>9. /\ c \o b \in Seq(S) /\ Range(c \o b) = Range(c) \union Range(b)
      /\ IsInjective(c) /\ IsInjective(b) /\ Range(c) \cap Range(b) = {}
           => IsInjective(c \o b)
  <2>1. b \in Seq(S) /\ c \in Seq(S)
    BY <1>1, <1>7
  <2> QED BY <2>1, ConcatFacts
<1>10. InsertAt(s, i, e) = c \o b
  BY <1>5 DEF c
<1> QED BY <1>1, <1>4, <1>7, <1>8, <1>9, <1>10

\* t is s with the element e added somewhere.
Adds(S, s, e, t) ==
  /\ t \in Seq(S)
  /\ Range(t) = Range(s) \union {e}
  /\ IsInjective(s) /\ e \notin Range(s) => IsInjective(t)

\* Every insertion of list.c adds its item and disturbs no other.
LEMMA InsertFacts ==
  ASSUME NEW S, NEW s \in Seq(S), NEW e \in S
  PROVE  /\ Adds(S, s, e, ListAppend(s, e))
         /\ Adds(S, s, e, ListInsertHead(s, e))
         /\ Adds(S, s, e, ListPrepend(s, e))
         /\ \A fits \in BOOLEAN : Adds(S, s, e, ListInsertSorted(s, e, fits))
<1>1. Len(s) \in Nat /\ (Len(s) = 0 <=> s = <<>>)
  BY LenProperties, EmptySeq
<1> DEFINE u == <<e>>
<1>2. u \in Seq(S) /\ Range(u) = {e} /\ IsInjective(u)
  BY SingletonFacts
<1>3. Append(s, e) = s \o u
  BY AppendIsConcat
<1>4. Adds(S, s, e, s \o u) /\ Adds(S, s, e, u \o s)
      /\ (s = <<>> => Adds(S, s, e, u))
  <2> HIDE DEF u
  <2>1. Adds(S, s, e, s \o u)
    BY <1>2, ConcatFacts DEF Adds
  <2>2. Adds(S, s, e, u \o s)
    BY <1>2, ConcatFacts DEF Adds
  <2>3. ASSUME s = <<>> PROVE Adds(S, s, e, u)
    <3>1. Range(s) = {}
      BY <2>3 DEF Range
    <3> QED BY <1>2, <3>1 DEF Adds
  <2> QED BY <2>1, <2>2, <2>3
<1>5. ASSUME NEW i \in 1 .. Len(s) + 1 PROVE Adds(S, s, e, InsertAt(s, i, e))
  BY InsertAtFacts DEF Adds
<1>6. Adds(S, s, e, ListAppend(s, e))
  BY <1>3, <1>4 DEF ListAppend
<1>7. Adds(S, s, e, ListInsertHead(s, e))
  BY <1>4 DEF ListInsertHead
<1>8. Adds(S, s, e, ListPrepend(s, e))
  <2>1. CASE s = <<>>
    BY <1>4, <2>1 DEF ListPrepend
  <2>2. CASE s # <<>>
    <3>1. ListPrepend(s, e) = InsertAt(s, 2, e) /\ 2 \in 1 .. Len(s) + 1
      BY <1>1, <2>2 DEF ListPrepend
    <3> QED BY <1>5, <3>1
  <2> QED BY <2>1, <2>2
<1>9. ASSUME NEW fits \in BOOLEAN
      PROVE  Adds(S, s, e, ListInsertSorted(s, e, fits))
  <2>1. CASE Len(s) <= 1
    BY <1>6, <2>1 DEF ListInsertSorted
  <2>2. CASE ~ Len(s) <= 1
    <3>1. ListInsertSorted(s, e, fits) = InsertAt(s, IF fits THEN 2 ELSE 3, e)
          /\ (IF fits THEN 2 ELSE 3) \in 1 .. Len(s) + 1
      BY <1>1, <2>2 DEF ListInsertSorted
    <3> QED BY <1>5, <3>1
  <2> QED BY <2>1, <2>2
<1> QED BY <1>6, <1>7, <1>8, <1>9

\* Removal takes out the item it searched for and no other.
LEMMA RemoveFacts ==
  ASSUME NEW S, NEW s \in Seq(S), IsInjective(s), NEW e
  PROVE  /\ ListRemove(s, e) \in Seq(S)
         /\ Range(ListRemove(s, e)) = Range(s) \ {e}
         /\ IsInjective(ListRemove(s, e))
<1>1. Len(s) \in Nat /\ DOMAIN s = 1 .. Len(s)
  BY LenProperties
<1>2. CASE \E i \in 1 .. Len(s) : s[i] = e
  <2>1. PICK i \in 1 .. Len(s) : s[i] = e
    BY <1>2
  <2>2. {k \in 1 .. Len(s) : s[k] = e} = {i}
    BY <1>1, <2>1 DEF IsInjective
  <2>3. Min({i}) = i
    BY <1>1 DEF Min
  <2>4. SelectInSeq(s, LAMBDA v : v = e) = i
    BY <2>2, <2>3 DEF SelectInSeq
  <2> DEFINE a == SubSeq(s, 1, i - 1)
             b == SubSeq(s, i + 1, Len(s))
  <2>5. ListRemove(s, e) = a \o b
    BY <1>2, <2>4 DEF ListRemove, RemoveFirst, RemoveAt
  <2>6. /\ a \in Seq(S) /\ IsInjective(a)
        /\ Range(a) = {s[k] : k \in 1 .. i - 1}
    BY <1>1, SplitFacts
  <2>7. /\ b \in Seq(S) /\ IsInjective(b)
        /\ Range(b) = {s[k] : k \in i + 1 .. Len(s)}
    <3>1. i + 1 \in 1 .. Len(s) + 1
      BY <1>1
    <3> QED BY <3>1, SplitFacts
  <2>8. Range(a) \cap Range(b) = {}
    BY <1>1, <2>6, <2>7 DEF IsInjective
  <2>9. Range(a) \union Range(b) = Range(s) \ {e}
    <3>1. Range(s) = {s[k] : k \in 1 .. Len(s)}
      BY <1>1 DEF Range
    <3>2. \A k \in 1 .. Len(s) : s[k] # e <=> k \in (1 .. i - 1) \union (i + 1 .. Len(s))
      BY <1>1, <2>1 DEF IsInjective
    <3> QED BY <1>1, <2>6, <2>7, <3>1, <3>2
  <2> HIDE DEF a, b
  <2>10. /\ a \o b \in Seq(S) /\ Range(a \o b) = Range(a) \union Range(b)
         /\ IsInjective(a \o b)
    BY <2>6, <2>7, <2>8, ConcatFacts
  <2> QED BY <2>5, <2>9, <2>10
<1>3. CASE ~ \E i \in 1 .. Len(s) : s[i] = e
  <2>1. ListRemove(s, e) = s
    BY <1>3 DEF ListRemove, RemoveFirst
  <2>2. e \notin Range(s)
    BY <1>1, <1>3 DEF Range
  <2> QED BY <2>1, <2>2
<1> QED BY <1>2, <1>3

\* Rotation reorders.
LEMMA RotateFacts ==
  ASSUME NEW S, NEW s \in Seq(S)
  PROVE  /\ ListRotate(s) \in Seq(S)
         /\ Range(ListRotate(s)) = Range(s)
         /\ IsInjective(s) => IsInjective(ListRotate(s))
         /\ ListRotate(s) = <<>> <=> s = <<>>
<1>1. CASE s = <<>>
  BY <1>1 DEF ListRotate
<1>2. CASE s # <<>>
  <2> DEFINE b == SubSeq(s, 2, Len(s))
  <2>1. Len(s) \in Nat \ {0} /\ DOMAIN s = 1 .. Len(s) /\ s[1] \in S
    BY <1>2, LenProperties, EmptySeq
  <2>2. ListRotate(s) = b \o <<s[1]>>
    <3>1. Tail(s) = b /\ Head(s) = s[1] /\ Tail(s) \in Seq(S)
      BY <1>2, TailIsSubSeq, HeadTailProperties
    <3>2. Append(Tail(s), s[1]) = Tail(s) \o <<s[1]>>
      BY <2>1, <3>1, AppendIsConcat
    <3> QED BY <1>2, <3>1, <3>2 DEF ListRotate
  <2>3. /\ b \in Seq(S) /\ Range(b) = {s[k] : k \in 2 .. Len(s)}
        /\ IsInjective(s) => IsInjective(b)
    <3>1. 2 \in 1 .. Len(s) + 1
      BY <2>1
    <3> QED BY <3>1, SplitFacts
  <2> DEFINE u == <<s[1]>>
  <2>4. u \in Seq(S) /\ Range(u) = {s[1]} /\ IsInjective(u)
    BY <2>1, SingletonFacts
  <2>5. Range(s) = {s[k] : k \in 1 .. Len(s)}
    BY <2>1 DEF Range
  <2>6. Range(b) \union {s[1]} = Range(s)
    <3>1. 1 .. Len(s) = {1} \union (2 .. Len(s))
      BY <2>1
    <3> QED BY <2>3, <2>5, <3>1
  <2>7. ASSUME IsInjective(s) PROVE Range(b) \cap Range(u) = {}
    BY <2>1, <2>3, <2>4, <2>7 DEF IsInjective
  <2> HIDE DEF b, u
  <2>8. /\ b \o u \in Seq(S) /\ Range(b \o u) = Range(b) \union Range(u)
        /\ IsInjective(b) /\ IsInjective(u) /\ Range(b) \cap Range(u) = {}
             => IsInjective(b \o u)
    BY <2>3, <2>4, ConcatFacts
  <2>9. b \o u # <<>>
    <3>1. Range(<<>>) = {}
      BY DEF Range
    <3> QED BY <2>4, <2>8, <3>1
  <2> QED BY <1>2, <2>2, <2>3, <2>4, <2>6, <2>7, <2>8, <2>9 DEF u
<1> QED BY <1>1, <1>2

\* The head of a list is one of its elements.
LEMMA HeadInRange ==
  ASSUME NEW S, NEW s \in Seq(S), s # <<>>
  PROVE  Head(s) \in S /\ Head(s) \in Range(s)
<1>1. Len(s) \in Nat \ {0} /\ DOMAIN s = 1 .. Len(s) /\ s[1] \in S
  BY LenProperties, EmptySeq
<1> QED BY <1>1, HeadTailProperties DEF Range

-----------------------------------------------------------------------------
(* Positions                                                               *)

\* Where insertion puts the new element, and where the others go.
LEMMA InsertAtIndex ==
  ASSUME NEW S, NEW s \in Seq(S), NEW k \in 1 .. Len(s) + 1, NEW e \in S
  PROVE  /\ InsertAt(s, k, e) \in Seq(S)
         /\ Len(InsertAt(s, k, e)) = Len(s) + 1
         /\ \A i \in 1 .. Len(s) + 1 :
              InsertAt(s, k, e)[i] = IF i < k THEN s[i]
                                     ELSE IF i = k THEN e ELSE s[i - 1]
<1> DEFINE a == SubSeq(s, 1, k - 1)
           b == SubSeq(s, k, Len(s))
           u == <<e>>
           n == Len(s)
<1>1. n \in Nat /\ k \in Nat /\ \A i \in 1 .. n : s[i] \in S
  BY LenProperties
<1>2. /\ a \in Seq(S) /\ Len(a) = k - 1
      /\ \A i \in 1 .. k - 1 : a[i] = s[i]
  <2>1. \A i \in 1 .. k - 1 : s[i] \in S
    BY <1>1
  <2>2. /\ a \in Seq(S)
        /\ Len(a) = IF 1 <= k - 1 THEN k - 1 - 1 + 1 ELSE 0
        /\ \A i \in 1 .. k - 1 - 1 + 1 : a[i] = s[1 + i - 1]
    BY <1>1, <2>1, SubSeqProperties
  <2> QED BY <1>1, <2>1, <2>2
<1>3. /\ b \in Seq(S) /\ Len(b) = n - k + 1
      /\ \A i \in 1 .. n - k + 1 : b[i] = s[k + i - 1]
  <2>1. \A i \in k .. n : s[i] \in S
    BY <1>1
  <2>2. /\ b \in Seq(S)
        /\ Len(b) = IF k <= n THEN n - k + 1 ELSE 0
        /\ \A i \in 1 .. n - k + 1 : b[i] = s[k + i - 1]
    BY <1>1, <2>1, SubSeqProperties
  <2> QED BY <1>1, <2>1, <2>2
<1>4. u \in Seq(S) /\ Len(u) = 1 /\ u[1] = e
  OBVIOUS
<1>5. InsertAt(s, k, e) = (a \o u) \o b
  BY DEF InsertAt
<1> HIDE DEF a, b, u
<1> DEFINE c == a \o u
<1>6. /\ c \in Seq(S) /\ Len(c) = k
      /\ \A i \in 1 .. k - 1 : c[i] = a[i]
      /\ c[k] = u[1]
  <2>1. /\ c \in Seq(S) /\ Len(c) = Len(a) + Len(u)
        /\ \A i \in 1 .. Len(a) + Len(u) :
             c[i] = IF i <= Len(a) THEN a[i] ELSE u[i - Len(a)]
    BY <1>2, <1>4, ConcatProperties
  <2> QED BY <1>1, <1>2, <1>4, <2>1
<1> HIDE DEF c
<1>7. /\ c \o b \in Seq(S) /\ Len(c \o b) = n + 1
      /\ \A i \in 1 .. k : (c \o b)[i] = c[i]
      /\ \A i \in k + 1 .. n + 1 : (c \o b)[i] = b[i - k]
  <2>1. /\ c \o b \in Seq(S) /\ Len(c \o b) = Len(c) + Len(b)
        /\ \A i \in 1 .. Len(c) + Len(b) :
             (c \o b)[i] = IF i <= Len(c) THEN c[i] ELSE b[i - Len(c)]
    BY <1>3, <1>6, ConcatProperties
  <2> QED BY <1>1, <1>3, <1>6, <2>1
<1> DEFINE w == c \o b
<1>9. /\ w \in Seq(S) /\ Len(w) = n + 1
      /\ \A i \in 1 .. k : w[i] = c[i]
      /\ \A i \in k + 1 .. n + 1 : w[i] = b[i - k]
  BY <1>7
<1>0. k \in 1 .. n + 1
  OBVIOUS
<1> HIDE DEF n, w
<1>10. ASSUME NEW i \in 1 .. n + 1
      PROVE  w[i] = IF i < k THEN s[i]
                   ELSE IF i = k THEN e ELSE s[i - 1]
  <2>1. CASE i < k
    BY <1>0, <1>1, <1>2, <1>6, <1>9, <2>1
  <2>2. CASE i = k
    BY <1>0, <1>1, <1>4, <1>6, <1>9, <2>2
  <2>3. CASE i > k
    <3>1. w[i] = b[i - k] /\ i - k \in 1 .. n - k + 1
      BY <1>0, <1>1, <1>9, <2>3
    <3>2. b[i - k] = s[k + (i - k) - 1] /\ k + (i - k) - 1 = i - 1
      BY <1>0, <1>1, <1>3, <2>3, <3>1
    <3> QED BY <1>0, <1>1, <2>3, <3>1, <3>2
  <2> QED BY <1>0, <1>1, <2>1, <2>2, <2>3
<1> QED BY <1>5, <1>9, <1>10 DEF c, n, w

\* Appending and inserting at the head are insertions.
LEMMA EndsAreInsertions ==
  ASSUME NEW S, NEW s \in Seq(S), NEW e \in S
  PROVE  /\ Append(s, e) = InsertAt(s, Len(s) + 1, e)
         /\ <<e>> \o s = InsertAt(s, 1, e)
<1> DEFINE n == Len(s)
           u == <<e>>
<1>1. n \in Nat /\ u \in Seq(S) /\ Len(u) = 1 /\ u[1] = e
  BY LenProperties
<1> HIDE DEF u
<1>2. 1 \in 1 .. n + 1 /\ n + 1 \in 1 .. n + 1
  BY <1>1
<1>3. Append(s, e) = InsertAt(s, n + 1, e)
  <2>1. /\ Append(s, e) \in Seq(S) /\ Len(Append(s, e)) = n + 1
        /\ \A i \in 1 .. n : Append(s, e)[i] = s[i]
        /\ Append(s, e)[n + 1] = e
    BY AppendProperties
  <2>2. /\ InsertAt(s, n + 1, e) \in Seq(S) /\ Len(InsertAt(s, n + 1, e)) = n + 1
        /\ \A i \in 1 .. n + 1 :
             InsertAt(s, n + 1, e)[i] = IF i < n + 1 THEN s[i] ELSE e
    <3> DEFINE m == n + 1
    <3>1. m \in 1 .. Len(s) + 1
      BY <1>2
    <3> HIDE DEF m
    <3>2. /\ InsertAt(s, m, e) \in Seq(S) /\ Len(InsertAt(s, m, e)) = n + 1
          /\ \A i \in 1 .. n + 1 :
               InsertAt(s, m, e)[i] = IF i < m THEN s[i]
                                      ELSE IF i = m THEN e ELSE s[i - 1]
      BY <3>1, InsertAtIndex
    <3> QED BY <1>1, <3>2 DEF m
  <2>3. \A i \in 1 .. n + 1 : Append(s, e)[i] = InsertAt(s, n + 1, e)[i]
    BY <1>1, <2>1, <2>2
  <2> QED BY <2>1, <2>2, <2>3, SeqEqual
<1>4. u \o s = InsertAt(s, 1, e)
  <2>1. /\ u \o s \in Seq(S) /\ Len(u \o s) = n + 1
        /\ \A i \in 1 .. n + 1 : (u \o s)[i] = IF i <= 1 THEN u[i] ELSE s[i - 1]
    <3>1. /\ u \o s \in Seq(S) /\ Len(u \o s) = Len(u) + Len(s)
          /\ \A i \in 1 .. Len(u) + Len(s) :
               (u \o s)[i] = IF i <= Len(u) THEN u[i] ELSE s[i - Len(u)]
      BY <1>1, ConcatProperties
    <3> QED BY <1>1, <3>1
  <2>2. /\ InsertAt(s, 1, e) \in Seq(S) /\ Len(InsertAt(s, 1, e)) = n + 1
        /\ \A i \in 1 .. n + 1 :
             InsertAt(s, 1, e)[i] = IF i < 1 THEN s[i]
                                    ELSE IF i = 1 THEN e ELSE s[i - 1]
    BY <1>2, InsertAtIndex
  <2>3. \A i \in 1 .. n + 1 : (u \o s)[i] = InsertAt(s, 1, e)[i]
    BY <1>1, <2>1, <2>2
  <2> QED BY <2>1, <2>2, <2>3, SeqEqual
<1> QED BY <1>3, <1>4 DEF u

\* What removal of a position leaves where.
LEMMA RemoveAtIndex ==
  ASSUME NEW S, NEW s \in Seq(S), NEW k \in 1 .. Len(s)
  PROVE  /\ RemoveAt(s, k) \in Seq(S)
         /\ Len(RemoveAt(s, k)) = Len(s) - 1
         /\ \A i \in 1 .. Len(s) - 1 :
              RemoveAt(s, k)[i] = IF i < k THEN s[i] ELSE s[i + 1]
<1> DEFINE a == SubSeq(s, 1, k - 1)
           b == SubSeq(s, k + 1, Len(s))
           n == Len(s)
<1>1. n \in Nat /\ k \in Nat /\ \A i \in 1 .. n : s[i] \in S
  BY LenProperties
<1>2. /\ a \in Seq(S) /\ Len(a) = k - 1
      /\ \A i \in 1 .. k - 1 : a[i] = s[i]
  <2>1. \A i \in 1 .. k - 1 : s[i] \in S
    BY <1>1
  <2>2. /\ a \in Seq(S)
        /\ Len(a) = IF 1 <= k - 1 THEN k - 1 - 1 + 1 ELSE 0
        /\ \A i \in 1 .. k - 1 - 1 + 1 : a[i] = s[1 + i - 1]
    BY <1>1, <2>1, SubSeqProperties
  <2> QED BY <1>1, <2>1, <2>2
<1>3. /\ b \in Seq(S) /\ Len(b) = n - k
      /\ \A i \in 1 .. n - k : b[i] = s[k + i]
  <2>1. \A i \in k + 1 .. n : s[i] \in S
    BY <1>1
  <2>2. /\ b \in Seq(S)
        /\ Len(b) = IF k + 1 <= n THEN n - (k + 1) + 1 ELSE 0
        /\ \A i \in 1 .. n - (k + 1) + 1 : b[i] = s[k + 1 + i - 1]
    BY <1>1, <2>1, SubSeqProperties
  <2> QED BY <1>1, <2>1, <2>2
<1>4. RemoveAt(s, k) = a \o b
  BY DEF RemoveAt
<1> HIDE DEF a, b
<1>5. /\ a \o b \in Seq(S) /\ Len(a \o b) = n - 1
      /\ \A i \in 1 .. n - 1 :
           (a \o b)[i] = IF i < k THEN a[i] ELSE b[i - (k - 1)]
  <2>1. /\ a \o b \in Seq(S) /\ Len(a \o b) = Len(a) + Len(b)
        /\ \A i \in 1 .. Len(a) + Len(b) :
             (a \o b)[i] = IF i <= Len(a) THEN a[i] ELSE b[i - Len(a)]
    BY <1>2, <1>3, ConcatProperties
  <2> QED BY <1>1, <1>2, <1>3, <2>1
<1> DEFINE w == a \o b
<1>7. /\ w \in Seq(S) /\ Len(w) = n - 1
      /\ \A i \in 1 .. n - 1 : w[i] = IF i < k THEN a[i] ELSE b[i - (k - 1)]
  BY <1>5
<1>0. k \in 1 .. n
  OBVIOUS
<1> HIDE DEF n, w, w
<1>6. ASSUME NEW i \in 1 .. n - 1
      PROVE  w[i] = IF i < k THEN s[i] ELSE s[i + 1]
  <2>1. CASE i < k
    BY <1>0, <1>1, <1>2, <1>7, <2>1
  <2>2. CASE i >= k
    <3>1. w[i] = b[i - (k - 1)] /\ i - (k - 1) \in 1 .. n - k
      BY <1>0, <1>1, <1>7, <2>2
    <3>2. b[i - (k - 1)] = s[k + (i - (k - 1))] /\ k + (i - (k - 1)) = i + 1
      BY <1>0, <1>1, <1>3, <2>2, <3>1
    <3> QED BY <1>0, <1>1, <2>2, <3>1, <3>2
  <2> QED BY <1>0, <1>1, <2>1, <2>2
<1> QED BY <1>4, <1>7, <1>6 DEF n, w

\* Rotation moves every element one position towards the head.
LEMMA RotateIndex ==
  ASSUME NEW S, NEW s \in Seq(S), s # <<>>
  PROVE  /\ ListRotate(s) \in Seq(S)
         /\ Len(ListRotate(s)) = Len(s)
         /\ \A i \in 1 .. Len(s) :
              ListRotate(s)[i] = IF i = Len(s) THEN s[1] ELSE s[i + 1]
<1> DEFINE n == Len(s)
           t == Tail(s)
<1>1. n \in Nat \ {0} /\ s[1] \in S
  BY LenProperties, EmptySeq
<1>2. /\ t \in Seq(S) /\ Len(t) = n - 1
      /\ \A i \in 1 .. n - 1 : t[i] = s[i + 1]
  BY HeadTailProperties
<1>3. Head(s) = s[1]
  OBVIOUS
<1> HIDE DEF t
<1>4. /\ Append(t, s[1]) \in Seq(S) /\ Len(Append(t, s[1])) = n
      /\ \A i \in 1 .. n - 1 : Append(t, s[1])[i] = t[i]
      /\ Append(t, s[1])[n] = s[1]
  <2>1. /\ Append(t, s[1]) \in Seq(S) /\ Len(Append(t, s[1])) = Len(t) + 1
        /\ \A i \in 1 .. Len(t) : Append(t, s[1])[i] = t[i]
        /\ Append(t, s[1])[Len(t) + 1] = s[1]
    BY <1>1, <1>2, AppendProperties
  <2>2. Len(t) + 1 = n
    BY <1>1, <1>2
  <2> QED BY <1>2, <2>1, <2>2
<1>5. ListRotate(s) = Append(t, s[1])
  BY <1>3 DEF ListRotate, t
<1>6. \A i \in 1 .. n : Append(t, s[1])[i] = IF i = n THEN s[1] ELSE s[i + 1]
  BY <1>1, <1>2, <1>4
<1> QED BY <1>4, <1>5, <1>6
=============================================================================
