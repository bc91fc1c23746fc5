--------------------------- MODULE UniCacheProofs ---------------------------
(***************************************************************************)
(* Encoder and decoder go through the same states, for any number of       *)
(* fields, any capacity and either policy, however late a follower is.     *)
(* The argument follows the states of the encoder that a follower has      *)
(* still to go through: its decoder is the first of them turned around,    *)
(* each message is what the encoder sent between two of them, and the last *)
(* one is the encoder of now.  One lemma for each policy says that a       *)
(* message takes a decoder from one such state to the next.                *)
(***************************************************************************)
EXTENDS UniCache, FiniteSetTheorems, TLAPS

-----------------------------------------------------------------------------
(* Lists.                                                                  *)

\* An element that is put in front.
LEMMA PushFront ==
  ASSUME NEW S, NEW s \in Seq(S), NEW x \in S
  PROVE  /\ <<x>> \o s \in Seq(S) /\ Len(<<x>> \o s) = Len(s) + 1
         /\ (<<x>> \o s)[1] = x
         /\ \A j \in 2 .. Len(s) + 1 : (<<x>> \o s)[j] = s[j - 1]
  OBVIOUS

\* A list that has lost an element.
LEMMA WithoutParts ==
  ASSUME NEW S, NEW s \in Seq(S), NEW i \in 1 .. Len(s)
  PROVE  /\ Without(s, i) \in Seq(S) /\ Len(Without(s, i)) = Len(s) - 1
         /\ \A j \in 1 .. Len(s) - 1 : Without(s, i)[j] = IF j < i THEN s[j] ELSE s[j + 1]
<1>1. Len(s) - 1 \in Nat /\ \A j \in 1 .. Len(s) - 1 : s[j] \in S /\ s[j + 1] \in S
  OBVIOUS
<1> QED
  BY <1>1 DEF Without

-----------------------------------------------------------------------------
(* The LruCache.                                                           *)

\* A cache without two entries for a key.
LruOver(A, B, c) ==
  /\ c \in Seq(A \X B)
  /\ \A i, j \in 1 .. Len(c) : c[i][1] = c[j][1] => i = j

\* Its length is the number of its keys.
LEMMA LruLength ==
  ASSUME NEW A, NEW B, NEW c, LruOver(A, B, c)
  PROVE  Cardinality(LruKeys(c)) = Len(c)
<1> DEFINE g == [i \in 1 .. Len(c) |-> c[i][1]]
<1>0. Len(c) \in Nat /\ DOMAIN c = 1 .. Len(c) /\ LruKeys(c) = {c[i][1] : i \in 1 .. Len(c)}
  BY DEF LruOver, LruKeys
<1>1. g \in [1 .. Len(c) -> LruKeys(c)]
  BY <1>0
<1>2. g \in Bijection(1 .. Len(c), LruKeys(c))
  <2>1. \A i, j \in 1 .. Len(c) : g[i] = g[j] => i = j
    BY DEF LruOver
  <2>2. \A k \in LruKeys(c) : \E i \in 1 .. Len(c) : g[i] = k
    BY <1>0
  <2> HIDE DEF g
  <2> QED
    BY <1>1, <2>1, <2>2 DEF Bijection, Injection, Surjection, IsInjective
<1>3. ExistsBijection(1 .. Len(c), LruKeys(c))
  BY <1>2 DEF ExistsBijection
<1>4. IsFiniteSet(1 .. Len(c)) /\ Cardinality(1 .. Len(c)) = Len(c)
  <2>1. 1 \in Int /\ Len(c) \in Int
    BY <1>0
  <2>2. /\ IsFiniteSet(1 .. Len(c))
        /\ Cardinality(1 .. Len(c)) = IF 1 > Len(c) THEN 0 ELSE Len(c) - 1 + 1
    BY <2>1, FS_Interval
  <2> QED
    BY <1>0, <2>2
<1> QED
  BY <1>3, <1>4, FS_Bijection

\* The place of a key.
LEMMA LruPlace ==
  ASSUME NEW A, NEW B, NEW c, LruOver(A, B, c), NEW k \in LruKeys(c)
  PROVE  /\ LruAt(c, k) \in 1 .. Len(c) /\ c[LruAt(c, k)][1] = k
         /\ \A i \in 1 .. Len(c) : c[i][1] = k => i = LruAt(c, k)
<1>1. DOMAIN c = 1 .. Len(c) /\ \E i \in 1 .. Len(c) : c[i][1] = k
  BY DEF LruOver, LruKeys
<1>2. LruAt(c, k) \in 1 .. Len(c) /\ c[LruAt(c, k)][1] = k
  BY <1>1 DEF LruAt
<1> QED
  BY <1>2 DEF LruOver

\* What the leader's cache looks like: no field and no code twice.
GoodLru(e, last) ==
  /\ last \in Nat /\ LruOver(Fields, Nat, e) /\ Len(e) <= Size
  /\ \A i \in 1 .. Len(e) : e[i][2] <= last
  /\ \A i, j \in 1 .. Len(e) : e[i][2] = e[j][2] => i = j

\* The decoder is the encoder turned around.
MirrorLru(d, e) == d = [i \in DOMAIN e |-> <<e[i][2], e[i][1]>>]

\* A decoder has no code twice, and is as long as the encoder.
LEMMA LruMirrored ==
  ASSUME NEW d, NEW e, NEW last, GoodLru(e, last), MirrorLru(d, e)
  PROVE  /\ LruOver(Nat, Fields, d) /\ Len(d) = Len(e)
         /\ \A i \in 1 .. Len(e) : d[i] = <<e[i][2], e[i][1]>>
<1>1. e \in Seq(Fields \X Nat) /\ DOMAIN e = 1 .. Len(e) /\ Len(e) \in Nat
  BY DEF GoodLru, LruOver
<1>2. \A i \in 1 .. Len(e) : e[i] \in Fields \X Nat
  BY <1>1
<1>3. \A i \in 1 .. Len(e) : <<e[i][2], e[i][1]>> \in Nat \X Fields
  BY <1>2
<1>4. d \in Seq(Nat \X Fields) /\ Len(d) = Len(e)
  <2> DEFINE S == Nat \X Fields
             m == Len(e)
             p(i) == <<e[i][2], e[i][1]>>
  <2>1. d = [i \in 1 .. m |-> p(i)]
    BY <1>1 DEF MirrorLru
  <2>2. m \in Nat /\ \A i \in 1 .. m : p(i) \in S
    BY <1>1, <1>3
  <2> HIDE DEF S, m, p
  <2>3. d \in Seq(S) /\ Len(d) = m
    BY <2>1, <2>2
  <2> QED
    BY <2>3 DEF S, m
<1>5. \A i \in 1 .. Len(e) : d[i] = <<e[i][2], e[i][1]>>
  BY <1>1 DEF MirrorLru
<1> QED
  BY <1>4, <1>5 DEF LruOver, GoodLru

\* Using an entry of the encoder, and of the decoder that mirrors it.
LEMMA LruHit ==
  ASSUME NEW e, NEW last, GoodLru(e, last), NEW field \in LruKeys(e)
  PROVE  /\ GoodLru(LruGet(e, field), last)
         /\ \A d : MirrorLru(d, e) =>
              /\ LruValue(e, field) \in LruKeys(d)
              /\ LruValue(d, LruValue(e, field)) = field
              /\ MirrorLru(LruGet(d, LruValue(e, field)), LruGet(e, field))
<1> DEFINE p == LruAt(e, field)
           P == Fields \X Nat
<1>0. e \in Seq(P) /\ Len(e) \in Nat /\ DOMAIN e = 1 .. Len(e) /\ LruOver(Fields, Nat, e)
  BY DEF GoodLru, LruOver
<1>1. p \in 1 .. Len(e) /\ e[p][1] = field
  BY <1>0, LruPlace
<1>2. e[p] \in P
  BY <1>0, <1>1
<1> HIDE DEF p, P
\* Where every entry goes.
<1> DEFINE From(j) == IF j = 1 THEN p ELSE IF j <= p THEN j - 1 ELSE j
           n == Len(e)
<1>3. n \in Nat /\ p \in 1 .. n
  BY <1>0, <1>1
<1>4. /\ \A j \in 1 .. n : From(j) \in 1 .. n
      /\ \A i, j \in 1 .. n : From(i) = From(j) => i = j
  BY <1>3
<1>5. ASSUME NEW S, NEW c \in Seq(S), Len(c) = n
      PROVE  /\ <<c[p]>> \o Without(c, p) \in Seq(S)
             /\ Len(<<c[p]>> \o Without(c, p)) = n
             /\ \A j \in 1 .. n : (<<c[p]>> \o Without(c, p))[j] = c[From(j)]
  <2>1. /\ Without(c, p) \in Seq(S) /\ Len(Without(c, p)) = n - 1
        /\ \A j \in 1 .. n - 1 : Without(c, p)[j] = IF j < p THEN c[j] ELSE c[j + 1]
    BY <1>3, <1>5, WithoutParts
  <2>2. c[p] \in S
    BY <1>3, <1>5
  <2> DEFINE w == Without(c, p)
  <2> HIDE DEF w
  <2>3. w \in Seq(S) /\ Len(w) = n - 1
    BY <2>1 DEF w
  <2>4. /\ <<c[p]>> \o w \in Seq(S) /\ Len(<<c[p]>> \o w) = Len(w) + 1
        /\ (<<c[p]>> \o w)[1] = c[p]
        /\ \A j \in 2 .. Len(w) + 1 : (<<c[p]>> \o w)[j] = w[j - 1]
    BY <2>2, <2>3, PushFront
  <2>5. ASSUME NEW j \in 2 .. n PROVE (<<c[p]>> \o w)[j] = c[From(j)]
    <3>1. j \in 2 .. Len(w) + 1 /\ j - 1 \in 1 .. n - 1
      BY <1>3, <2>3, <2>5
    <3>2. (<<c[p]>> \o w)[j] = w[j - 1]
      BY <2>4, <3>1
    <3>3. w[j - 1] = IF j - 1 < p THEN c[j - 1] ELSE c[j - 1 + 1]
      BY <2>1, <3>1 DEF w
    <3> QED
      BY <1>3, <3>1, <3>2, <3>3
  <2>6. (<<c[p]>> \o w)[1] = c[From(1)]
    BY <2>4
  <2>7. \A j \in 1 .. n : (<<c[p]>> \o w)[j] = c[From(j)]
    <3> HIDE DEF From
    <3>1. \A j \in 1 .. n : j = 1 \/ j \in 2 .. n
      BY <1>3
    <3> QED
      BY <2>5, <2>6, <3>1
  <2>8. Len(<<c[p]>> \o w) = n
    BY <1>3, <2>3, <2>4
  <2> HIDE DEF From
  <2> QED
    BY <2>4, <2>7, <2>8 DEF w
<1> HIDE DEF From
<1>6. LruGet(e, field) = <<e[p]>> \o Without(e, p)
  BY DEF LruGet, p
<1> DEFINE e2 == LruGet(e, field)
<1>7. e2 \in Seq(P) /\ Len(e2) = n /\ \A j \in 1 .. n : e2[j] = e[From(j)]
  <2>1. e \in Seq(P) /\ Len(e) = n
    BY <1>0
  <2> HIDE DEF n
  <2>2. /\ <<e[p]>> \o Without(e, p) \in Seq(P)
        /\ Len(<<e[p]>> \o Without(e, p)) = n
        /\ \A j \in 1 .. n : (<<e[p]>> \o Without(e, p))[j] = e[From(j)]
    BY <1>5, <2>1, Zenon
  <2> QED
    BY <1>6, <2>2, Zenon
<1> HIDE DEF e2
<1>8. GoodLru(e2, last)
  <2>1. /\ last \in Nat /\ n <= Size
        /\ \A i, j \in 1 .. n : e[i][1] = e[j][1] => i = j
        /\ \A i, j \in 1 .. n : e[i][2] = e[j][2] => i = j
        /\ \A i \in 1 .. n : e[i][2] <= last
    BY DEF GoodLru, LruOver
  <2> HIDE DEF n
  <2>2. \A i \in 1 .. n : e2[i][2] <= last
    BY <1>4, <1>7, <2>1
  <2>3. /\ \A i, j \in 1 .. n : e2[i][1] = e2[j][1] => i = j
        /\ \A i, j \in 1 .. n : e2[i][2] = e2[j][2] => i = j
    <3>1. ASSUME NEW i \in 1 .. n, NEW j \in 1 .. n PROVE /\ e2[i][1] = e2[j][1] => i = j
                                                          /\ e2[i][2] = e2[j][2] => i = j
      <4>1. From(i) \in 1 .. n /\ From(j) \in 1 .. n /\ e2[i] = e[From(i)] /\ e2[j] = e[From(j)]
        BY <1>4, <1>7
      <4>2. /\ e[From(i)][1] = e[From(j)][1] => From(i) = From(j)
            /\ e[From(i)][2] = e[From(j)][2] => From(i) = From(j)
        BY <2>1, <4>1, Zenon
      <4> QED
        BY <1>4, <4>1, <4>2, Zenon
    <3> QED
      BY <3>1, Zenon
  <2> QED
    BY <1>7, <2>1, <2>2, <2>3 DEF GoodLru, LruOver, P
<1>9. ASSUME NEW d, MirrorLru(d, e)
      PROVE  /\ LruValue(e, field) \in LruKeys(d)
             /\ LruValue(d, LruValue(e, field)) = field
             /\ MirrorLru(LruGet(d, LruValue(e, field)), e2)
  <2> DEFINE v == LruValue(e, field)
  <2>1. v = e[p][2]
    BY DEF LruValue, p
  <2>2. LruOver(Nat, Fields, d) /\ Len(d) = n /\ \A i \in 1 .. n : d[i] = <<e[i][2], e[i][1]>>
    BY <1>9, LruMirrored
  <2>3. d \in Seq(Nat \X Fields) /\ DOMAIN d = 1 .. n
    BY <2>2 DEF LruOver
  <2> HIDE DEF v
  <2>4. d[p] = <<v, field>>
    BY <1>1, <1>3, <2>1, <2>2
  <2>5. v \in LruKeys(d)
    BY <1>3, <2>3, <2>4 DEF LruKeys
  <2>6. LruAt(d, v) = p
    <3>1. \A i \in 1 .. Len(d) : d[i][1] = v => i = LruAt(d, v)
      BY <2>2, <2>5, LruPlace
    <3> QED
      BY <1>3, <2>2, <2>4, <3>1
  <2>7. LruValue(d, v) = field
    BY <2>4, <2>6 DEF LruValue
  <2>8. LruGet(d, v) = <<d[p]>> \o Without(d, p)
    BY <2>6 DEF LruGet
  <2> DEFINE d2 == LruGet(d, v)
  <2>9. d2 \in Seq(Nat \X Fields) /\ Len(d2) = n /\ \A j \in 1 .. n : d2[j] = d[From(j)]
    <3> DEFINE Q == Nat \X Fields
    <3>1. d \in Seq(Q) /\ Len(d) = n
      BY <2>2, <2>3
    <3> HIDE DEF Q, n
    <3>2. /\ <<d[p]>> \o Without(d, p) \in Seq(Q)
          /\ Len(<<d[p]>> \o Without(d, p)) = n
          /\ \A j \in 1 .. n : (<<d[p]>> \o Without(d, p))[j] = d[From(j)]
      BY <1>5, <3>1, Zenon
    <3> QED
      BY <2>8, <3>2, Zenon DEF Q
  <2> HIDE DEF d2, n
  <2>10. \A j \in 1 .. n : d2[j] = <<e2[j][2], e2[j][1]>>
    BY <1>4, <1>7, <2>2, <2>9
  <2>11. DOMAIN e2 = 1 .. n /\ d2 = [j \in 1 .. n |-> d2[j]]
    BY <1>7, <2>9
  <2>12. MirrorLru(d2, e2)
    BY <2>10, <2>11 DEF MirrorLru
  <2> QED
    BY <2>5, <2>7, <2>12 DEF v, d2
<1> QED
  BY <1>8, <1>9 DEF e2

\* A new field with a code that no entry has.
LEMMA LruPushed ==
  ASSUME NEW e, NEW last, GoodLru(e, last), NEW field \in Fields, field \notin LruKeys(e),
         Len(e) < Size, NEW code \in Nat, NEW next \in Nat, code <= next, last <= next,
         \A i \in 1 .. Len(e) : e[i][2] # code
  PROVE  /\ GoodLru(LruPush(e, field, code), next)
         /\ \A d : MirrorLru(d, e) => MirrorLru(LruPush(d, code, field), LruPush(e, field, code))
<1> DEFINE n == Len(e)
           P == Fields \X Nat
           e2 == LruPush(e, field, code)
<1>0. /\ e \in Seq(P) /\ n \in Nat /\ DOMAIN e = 1 .. n /\ last \in Nat
      /\ \A i \in 1 .. n : e[i][1] # field /\ e[i][2] # code /\ e[i][2] <= last /\ e[i][2] \in Nat
      /\ \A i, j \in 1 .. n : e[i][1] = e[j][1] => i = j
      /\ \A i, j \in 1 .. n : e[i][2] = e[j][2] => i = j
  BY DEF GoodLru, LruOver, LruKeys
<1>1. <<field, code>> \in P
  OBVIOUS
<1>2. /\ e2 \in Seq(P) /\ Len(e2) = n + 1 /\ e2[1] = <<field, code>>
      /\ \A j \in 2 .. n + 1 : e2[j] = e[j - 1]
  <2> HIDE DEF P
  <2> QED
    BY <1>0, <1>1, PushFront DEF LruPush
<1>3. Size \in Nat /\ n < Size
  BY UniCacheAssumption
<1>4. GoodLru(e2, next)
  <2> HIDE DEF n, e2
  <2>1. \A j \in 1 .. n + 1 : j = 1 \/ (j \in 2 .. n + 1 /\ j - 1 \in 1 .. n)
    BY <1>0
  <2>2. ASSUME NEW i \in 1 .. n + 1, NEW j \in 1 .. n + 1
        PROVE  /\ e2[i][1] = e2[j][1] => i = j
               /\ e2[i][2] = e2[j][2] => i = j
    <3>1. CASE i = 1 /\ j = 1
      BY <3>1
    <3>2. CASE i = 1 /\ j \in 2 .. n + 1 /\ j - 1 \in 1 .. n
      BY <1>0, <1>2, <3>2
    <3>3. CASE j = 1 /\ i \in 2 .. n + 1 /\ i - 1 \in 1 .. n
      BY <1>0, <1>2, <3>3
    <3>4. CASE i \in 2 .. n + 1 /\ i - 1 \in 1 .. n /\ j \in 2 .. n + 1 /\ j - 1 \in 1 .. n
      <4>1. /\ e[i - 1][1] = e[j - 1][1] => i - 1 = j - 1
            /\ e[i - 1][2] = e[j - 1][2] => i - 1 = j - 1
        BY <1>0, <3>4
      <4>2. i - 1 = j - 1 => i = j
        BY <1>0, <3>4
      <4> QED
        BY <1>2, <3>4, <4>1, <4>2
    <3> QED
      BY <2>1, <3>1, <3>2, <3>3, <3>4
  <2>3. ASSUME NEW i \in 1 .. n + 1 PROVE e2[i][2] <= next
    <3>1. CASE i = 1
      BY <1>2, <3>1
    <3>2. CASE i \in 2 .. n + 1 /\ i - 1 \in 1 .. n
      BY <1>0, <1>2, <3>2
    <3> QED
      BY <2>1, <3>1, <3>2
  <2>4. n + 1 <= Size
    BY <1>0, <1>3
  <2> QED
    BY <1>2, <2>2, <2>3, <2>4 DEF GoodLru, LruOver
<1>5. ASSUME NEW d, MirrorLru(d, e) PROVE MirrorLru(LruPush(d, code, field), e2)
  <2> DEFINE Q == Nat \X Fields
             d2 == LruPush(d, code, field)
  <2>1. LruOver(Nat, Fields, d) /\ Len(d) = n /\ \A i \in 1 .. n : d[i] = <<e[i][2], e[i][1]>>
    BY <1>5, LruMirrored
  <2>2. d \in Seq(Q) /\ <<code, field>> \in Q
    BY <2>1 DEF LruOver
  <2>3. /\ d2 \in Seq(Q) /\ Len(d2) = n + 1 /\ d2[1] = <<code, field>>
        /\ \A j \in 2 .. n + 1 : d2[j] = d[j - 1]
    <3> HIDE DEF Q
    <3> QED
      BY <2>1, <2>2, PushFront DEF LruPush
  <2> HIDE DEF n, e2, d2
  <2>4. ASSUME NEW j \in 1 .. n + 1 PROVE d2[j] = <<e2[j][2], e2[j][1]>>
    <3>1. CASE j = 1
      BY <1>2, <2>3, <3>1
    <3>2. CASE j # 1
      <4>1. j \in 2 .. n + 1 /\ j - 1 \in 1 .. n
        BY <1>0, <3>2
      <4> QED
        BY <1>2, <2>1, <2>3, <4>1
    <3> QED
      BY <3>1, <3>2
  <2>5. DOMAIN e2 = 1 .. n + 1 /\ d2 = [j \in 1 .. n + 1 |-> d2[j]]
    BY <1>0, <1>2, <2>3
  <2>6. MirrorLru(d2, e2)
    BY <2>4, <2>5 DEF MirrorLru
  <2> QED
    BY <2>6 DEF d2
<1> QED
  BY <1>4, <1>5

\* The entry that was used last of all leaves both sides.
LEMMA LruPopped ==
  ASSUME NEW e, NEW last, GoodLru(e, last), Len(e) > 0
  PROVE  /\ GoodLru(LruPop(e).rest, last) /\ Len(LruPop(e).rest) = Len(e) - 1
         /\ LruKeys(LruPop(e).rest) \subseteq LruKeys(e)
         /\ LruPop(e).entry[2] \in Nat /\ LruPop(e).entry[2] <= last
         /\ \A i \in 1 .. Len(LruPop(e).rest) : LruPop(e).rest[i][2] # LruPop(e).entry[2]
         /\ \A d : MirrorLru(d, e) =>
              /\ LruPop(d).entry[1] = LruPop(e).entry[2]
              /\ MirrorLru(LruPop(d).rest, LruPop(e).rest)
<1> DEFINE n == Len(e)
           P == Fields \X Nat
           r == SubSeq(e, 1, n - 1)
<1>0. /\ e \in Seq(P) /\ n \in Nat /\ DOMAIN e = 1 .. n /\ last \in Nat /\ n <= Size /\ n > 0
      /\ \A i \in 1 .. n : e[i][2] <= last /\ e[i] \in P
      /\ \A i, j \in 1 .. n : e[i][1] = e[j][1] => i = j
      /\ \A i, j \in 1 .. n : e[i][2] = e[j][2] => i = j
  BY DEF GoodLru, LruOver
<1>1. /\ r \in Seq(P) /\ Len(r) = n - 1 /\ \A i \in 1 .. n - 1 : r[i] = e[i]
      /\ DOMAIN r = 1 .. n - 1
  <2> HIDE DEF P
  <2> QED
    BY <1>0
<1>2. LruPop(e).rest = r /\ LruPop(e).entry = e[n]
  BY DEF LruPop
<1> HIDE DEF r, n
<1>3. \A i \in 1 .. n - 1 : i \in 1 .. n /\ i # n
  BY <1>0
<1>4. n \in 1 .. n /\ n - 1 <= Size
  BY <1>0, UniCacheAssumption
<1>5. GoodLru(r, last)
  <2>1. /\ \A i, j \in 1 .. n - 1 : r[i][1] = r[j][1] => i = j
        /\ \A i, j \in 1 .. n - 1 : r[i][2] = r[j][2] => i = j
        /\ \A i \in 1 .. n - 1 : r[i][2] <= last
    BY <1>0, <1>1, <1>3
  <2> QED
    BY <1>0, <1>1, <1>4, <2>1 DEF GoodLru, LruOver
<1>6. LruKeys(r) \subseteq LruKeys(e)
  BY <1>0, <1>1, <1>3 DEF LruKeys
<1>7. e[n][2] \in Nat /\ e[n][2] <= last /\ \A i \in 1 .. n - 1 : r[i][2] # e[n][2]
  BY <1>0, <1>1, <1>3, <1>4
<1>8. ASSUME NEW d, MirrorLru(d, e)
      PROVE  LruPop(d).entry[1] = e[n][2] /\ MirrorLru(LruPop(d).rest, r)
  <2> DEFINE Q == Nat \X Fields
             t == SubSeq(d, 1, n - 1)
  <2>1. LruOver(Nat, Fields, d) /\ Len(d) = n /\ \A i \in 1 .. n : d[i] = <<e[i][2], e[i][1]>>
    BY <1>8, LruMirrored DEF n
  <2>2. d \in Seq(Q)
    BY <2>1 DEF LruOver
  <2>3. /\ t \in Seq(Q) /\ Len(t) = n - 1 /\ \A i \in 1 .. n - 1 : t[i] = d[i]
        /\ DOMAIN t = 1 .. n - 1
    <3> HIDE DEF Q
    <3> QED
      BY <1>0, <2>1, <2>2
  <2>4. LruPop(d).rest = t /\ LruPop(d).entry = d[n]
    BY <2>1 DEF LruPop
  <2> HIDE DEF t
  <2>5. d[n][1] = e[n][2]
    BY <1>4, <2>1
  <2>6. \A i \in 1 .. n - 1 : t[i] = <<r[i][2], r[i][1]>>
    BY <1>1, <1>3, <2>1, <2>3
  <2>7. t = [i \in 1 .. n - 1 |-> t[i]]
    BY <2>3
  <2>8. MirrorLru(t, r)
    BY <1>1, <2>6, <2>7 DEF MirrorLru
  <2> QED
    BY <2>4, <2>5, <2>8
<1> QED
  BY <1>1, <1>2, <1>5, <1>6, <1>7, <1>8 DEF n

-----------------------------------------------------------------------------
(* The queues of an LFUCache.                                              *)

In(q, k) == \E i \in 1 .. Len(q) : q[i] = k

Distinct(q) == \A i, j \in 1 .. Len(q) : q[i] = q[j] => i = j

\* A queue of fields as a queue of their codes.
Coded(v, q) == [i \in 1 .. Len(q) |-> v[q[i]]]

\* The fields of the queue have codes, and no two have the same.
CodesFor(v, q) ==
  /\ \A i \in 1 .. Len(q) : v[q[i]] \in Nat
  /\ \A i, j \in 1 .. Len(q) : v[q[i]] = v[q[j]] => q[i] = q[j]

\* The codes are a queue of the same length.
LEMMA CodedQueue ==
  ASSUME NEW q \in Seq(Fields), NEW v, CodesFor(v, q)
  PROVE  /\ Coded(v, q) \in Seq(Nat) /\ Len(Coded(v, q)) = Len(q)
         /\ \A i \in 1 .. Len(q) : Coded(v, q)[i] = v[q[i]]
<1>1. Len(q) \in Nat /\ \A i \in 1 .. Len(q) : v[q[i]] \in Nat
  BY DEF CodesFor
<1> QED
  BY <1>1 DEF Coded

\* A field is taken out of a queue, and its code out of the queue of codes.
LEMMA KeyRemoved ==
  ASSUME NEW q \in Seq(Fields), Distinct(q), NEW key, In(q, key)
  PROVE  /\ RemoveKey(q, key) \in Seq(Fields) /\ Distinct(RemoveKey(q, key))
         /\ \A k : In(RemoveKey(q, key), k) <=> In(q, k) /\ k # key
         /\ RemoveKey(q, key) = <<>> => \A k : In(q, k) => k = key
         /\ \A v : CodesFor(v, q) =>
              RemoveKey(Coded(v, q), v[key]) = Coded(v, RemoveKey(q, key))
<1> DEFINE n == Len(q)
           p == CHOOSE i \in DOMAIN q : q[i] = key
           r == Without(q, p)
<1>0. n \in Nat /\ DOMAIN q = 1 .. n /\ RemoveKey(q, key) = r
  BY DEF RemoveKey
<1>1. p \in 1 .. n /\ q[p] = key
  BY <1>0 DEF In
<1> HIDE DEF p
<1>2. /\ r \in Seq(Fields) /\ Len(r) = n - 1
      /\ \A j \in 1 .. n - 1 : r[j] = IF j < p THEN q[j] ELSE q[j + 1]
  BY <1>1, WithoutParts
<1> DEFINE From(j) == IF j < p THEN j ELSE j + 1
<1>3. \A j \in 1 .. n - 1 : r[j] = q[From(j)]
  BY <1>2
<1> HIDE DEF r, n
<1>4. /\ \A j \in 1 .. n - 1 : From(j) \in 1 .. n /\ From(j) # p
      /\ \A i, j \in 1 .. n - 1 : From(i) = From(j) => i = j
      /\ \A i \in 1 .. n : i # p => \E j \in 1 .. n - 1 : From(j) = i
  <2>1. ASSUME NEW i \in 1 .. n, i # p PROVE \E j \in 1 .. n - 1 : From(j) = i
    <3>1. CASE i < p
      <4>1. i \in 1 .. n - 1 /\ From(i) = i
        BY <1>0, <1>1, <3>1
      <4> QED
        BY <4>1
    <3>2. CASE ~(i < p)
      <4>1. i - 1 \in 1 .. n - 1 /\ From(i - 1) = i
        BY <1>0, <1>1, <2>1, <3>2
      <4> QED
        BY <4>1
    <3> QED
      BY <3>1, <3>2
  <2> QED
    BY <1>0, <1>1, <2>1
<1> HIDE DEF From
<1>5. \A i, j \in 1 .. n : q[i] = q[j] => i = j
  BY DEF Distinct, n
<1>6. Distinct(r)
  <2> SUFFICES ASSUME NEW i \in 1 .. n - 1, NEW j \in 1 .. n - 1, r[i] = r[j] PROVE i = j
    BY <1>2 DEF Distinct
  <2>1. q[From(i)] = q[From(j)] /\ From(i) \in 1 .. n /\ From(j) \in 1 .. n
    BY <1>3, <1>4
  <2> QED
    BY <1>4, <1>5, <2>1, Zenon
<1>7. ASSUME NEW k PROVE In(r, k) <=> In(q, k) /\ k # key
  <2>1. ASSUME In(r, k) PROVE In(q, k) /\ k # key
    <3>1. PICK j \in 1 .. n - 1 : r[j] = k
      BY <1>2, <2>1 DEF In
    <3>2. From(j) \in 1 .. n /\ From(j) # p /\ q[From(j)] = k
      BY <1>3, <1>4, <3>1
    <3> QED
      BY <1>1, <1>5, <3>2 DEF In, n
  <2>2. ASSUME In(q, k), k # key PROVE In(r, k)
    <3>1. PICK i \in 1 .. n : q[i] = k
      BY <2>2 DEF In, n
    <3>2. PICK j \in 1 .. n - 1 : From(j) = i
      BY <1>1, <1>4, <2>2, <3>1
    <3> QED
      BY <1>2, <1>3, <3>1, <3>2 DEF In
  <2> QED
    BY <2>1, <2>2
<1>8. ASSUME r = <<>>, NEW k, In(q, k) PROVE k = key
  <2>1. ~In(r, k)
    BY <1>8 DEF In
  <2> QED
    BY <1>7, <1>8, <2>1
<1>9. ASSUME NEW v, CodesFor(v, q) PROVE RemoveKey(Coded(v, q), v[key]) = Coded(v, r)
  <2> DEFINE c == Coded(v, q)
  <2>1. c \in Seq(Nat) /\ Len(c) = n /\ \A i \in 1 .. n : c[i] = v[q[i]]
    BY <1>9, CodedQueue DEF n
  <2>2. DOMAIN c = 1 .. n
    BY <2>1
  <2> HIDE DEF c
  <2>3. \A i \in 1 .. n : c[i] = v[key] <=> i = p
    <3>1. \A i, j \in 1 .. n : v[q[i]] = v[q[j]] => q[i] = q[j]
      BY <1>9 DEF CodesFor, n
    <3> QED
      BY <1>1, <1>5, <2>1, <3>1
  <2>4. (CHOOSE i \in DOMAIN c : c[i] = v[key]) = p
    BY <1>1, <2>2, <2>3
  <2>5. RemoveKey(c, v[key]) = Without(c, p)
    BY <2>4 DEF RemoveKey
  <2>6. /\ Without(c, p) \in Seq(Nat) /\ Len(Without(c, p)) = n - 1
        /\ \A j \in 1 .. n - 1 : Without(c, p)[j] = IF j < p THEN c[j] ELSE c[j + 1]
    BY <1>1, <2>1, WithoutParts
  <2>7. \A j \in 1 .. n - 1 : Without(c, p)[j] = c[From(j)]
    BY <2>6 DEF From
  <2>8. \A j \in 1 .. n - 1 : Without(c, p)[j] = v[r[j]]
    <3> SUFFICES ASSUME NEW j \in 1 .. n - 1 PROVE Without(c, p)[j] = v[r[j]]
      OBVIOUS
    <3>1. From(j) \in 1 .. n /\ r[j] = q[From(j)] /\ Without(c, p)[j] = c[From(j)]
      BY <1>3, <1>4, <2>7
    <3>2. c[From(j)] = v[q[From(j)]]
      BY <2>1, <3>1
    <3> QED
      BY <3>1, <3>2
  <2>9. Without(c, p) = [j \in 1 .. n - 1 |-> v[r[j]]]
    BY <1>0, <2>6, <2>8
  <2> QED
    BY <1>2, <2>5, <2>9 DEF Coded, c
<1> QED
  BY <1>0, <1>2, <1>6, <1>7, <1>8, <1>9

\* A field joins a queue, and its code the queue of codes.
LEMMA KeyAppended ==
  ASSUME NEW q \in Seq(Fields), Distinct(q), NEW key \in Fields, ~In(q, key)
  PROVE  /\ Append(q, key) \in Seq(Fields) /\ Distinct(Append(q, key))
         /\ Append(q, key) # <<>>
         /\ \A k : In(Append(q, key), k) <=> In(q, k) \/ k = key
         /\ \A v, w : /\ CodesFor(v, q) /\ w[key] \in Nat
                      /\ \A i \in 1 .. Len(q) : w[q[i]] = v[q[i]]
              => Append(Coded(v, q), w[key]) = Coded(w, Append(q, key))
<1> DEFINE n == Len(q)
           a == Append(q, key)
<1>1. /\ n \in Nat /\ a \in Seq(Fields) /\ Len(a) = n + 1 /\ a[n + 1] = key
      /\ \A i \in 1 .. n : a[i] = q[i]
  OBVIOUS
<1>2. a # <<>>
  BY <1>1
<1> HIDE DEF n, a
<1>3. \A i \in 1 .. n + 1 : i = n + 1 \/ i \in 1 .. n
  BY <1>1
<1>4. /\ \A i \in 1 .. n : q[i] # key /\ i \in 1 .. n + 1
      /\ n + 1 \in 1 .. n + 1
      /\ \A i, j \in 1 .. n : q[i] = q[j] => i = j
  BY <1>1 DEF Distinct, In, n
<1>5. Distinct(a)
  BY <1>1, <1>3, <1>4 DEF Distinct
<1>6. ASSUME NEW k PROVE In(a, k) <=> In(q, k) \/ k = key
  BY <1>1, <1>3, <1>4 DEF In, n
<1>7. ASSUME NEW v, NEW w, CodesFor(v, q), w[key] \in Nat, \A i \in 1 .. n : w[q[i]] = v[q[i]]
      PROVE  Append(Coded(v, q), w[key]) = Coded(w, a)
  <2> DEFINE c == Coded(v, q)
             x == w[key]
  <2>1. c \in Seq(Nat) /\ Len(c) = n /\ \A i \in 1 .. n : c[i] = v[q[i]]
    BY <1>7, CodedQueue DEF n
  <2> HIDE DEF c, x
  <2>2. x \in Nat
    BY <1>7 DEF x
  <2>3. /\ Append(c, x) \in Seq(Nat) /\ Len(Append(c, x)) = n + 1
        /\ Append(c, x)[n + 1] = x /\ \A i \in 1 .. n : Append(c, x)[i] = c[i]
    BY <1>1, <2>1, <2>2
  <2>4. \A i \in 1 .. n + 1 : Append(c, x)[i] = w[a[i]]
    BY <1>1, <1>3, <1>7, <2>1, <2>3 DEF x
  <2>5. Append(c, x) = [i \in 1 .. n + 1 |-> w[a[i]]]
    <3> DEFINE y == Append(c, x)
               z(i) == w[a[i]]
    <3>1. y \in Seq(Nat) /\ Len(y) = n + 1 /\ \A i \in 1 .. n + 1 : y[i] = z(i)
      BY <2>3, <2>4
    <3> HIDE DEF y, z
    <3>2. y = [i \in 1 .. n + 1 |-> y[i]]
      BY <1>1, <3>1
    <3>3. y = [i \in 1 .. n + 1 |-> z(i)]
      BY <3>1, <3>2
    <3> QED
      BY <3>3 DEF y, z
  <2> QED
    BY <1>1, <2>5 DEF Coded, c, x
<1> QED
  BY <1>1, <1>2, <1>5, <1>6, <1>7 DEF a, n

\* The first field leaves a queue, and its code the queue of codes.
LEMMA KeyPopped ==
  ASSUME NEW q \in Seq(Fields), Distinct(q), q # <<>>
  PROVE  /\ Head(q) \in Fields /\ In(q, Head(q))
         /\ Tail(q) \in Seq(Fields) /\ Distinct(Tail(q))
         /\ \A k : In(Tail(q), k) <=> In(q, k) /\ k # Head(q)
         /\ \A v : CodesFor(v, q) =>
              /\ Coded(v, q) # <<>> /\ Head(Coded(v, q)) = v[Head(q)]
              /\ Tail(Coded(v, q)) = Coded(v, Tail(q))
<1> DEFINE n == Len(q)
           t == Tail(q)
<1>1. /\ n \in Nat /\ n > 0 /\ t \in Seq(Fields) /\ Len(t) = n - 1
      /\ Head(q) = q[1] /\ q[1] \in Fields
      /\ \A i \in 1 .. n - 1 : t[i] = q[i + 1]
  OBVIOUS
<1> HIDE DEF n, t
<1>2. /\ 1 \in 1 .. n
      /\ \A i \in 1 .. n - 1 : i + 1 \in 1 .. n /\ i + 1 # 1
      /\ \A i \in 1 .. n : i = 1 \/ (i - 1 \in 1 .. n - 1 /\ i - 1 + 1 = i)
  BY <1>1
<1>3. \A i, j \in 1 .. n : q[i] = q[j] => i = j
  BY DEF Distinct, n
<1>4. Distinct(t)
  <2> SUFFICES ASSUME NEW i \in 1 .. n - 1, NEW j \in 1 .. n - 1, t[i] = t[j] PROVE i = j
    BY <1>1 DEF Distinct
  <2>1. i + 1 = j + 1
    BY <1>1, <1>2, <1>3
  <2> QED
    BY <1>1, <2>1
<1>5. ASSUME NEW k PROVE In(t, k) <=> In(q, k) /\ k # q[1]
  <2>1. ASSUME In(t, k) PROVE In(q, k) /\ k # q[1]
    <3>1. PICK j \in 1 .. n - 1 : t[j] = k
      BY <1>1, <2>1 DEF In
    <3> QED
      BY <1>1, <1>2, <1>3, <3>1 DEF In, n
  <2>2. ASSUME In(q, k), k # q[1] PROVE In(t, k)
    <3>1. PICK i \in 1 .. n : q[i] = k
      BY <2>2 DEF In, n
    <3>2. i - 1 \in 1 .. n - 1 /\ i - 1 + 1 = i
      BY <1>2, <2>2, <3>1
    <3>3. t[i - 1] = k
      BY <1>1, <3>1, <3>2
    <3> QED
      BY <1>1, <3>2, <3>3 DEF In
  <2> QED
    BY <2>1, <2>2
<1>6. ASSUME NEW v, CodesFor(v, q)
      PROVE  Coded(v, q) # <<>> /\ Head(Coded(v, q)) = v[q[1]] /\ Tail(Coded(v, q)) = Coded(v, t)
  <2> DEFINE c == Coded(v, q)
  <2>1. c \in Seq(Nat) /\ Len(c) = n /\ \A i \in 1 .. n : c[i] = v[q[i]]
    BY <1>6, CodedQueue DEF n
  <2> HIDE DEF c
  <2>2. c # <<>> /\ Head(c) = c[1]
    BY <1>1, <2>1
  <2>3. /\ Tail(c) \in Seq(Nat) /\ Len(Tail(c)) = n - 1
        /\ \A i \in 1 .. n - 1 : Tail(c)[i] = c[i + 1]
    BY <1>1, <2>1, <2>2
  <2> DEFINE y == Tail(c)
             z(i) == v[t[i]]
  <2>4. \A i \in 1 .. n - 1 : y[i] = z(i)
    <3> SUFFICES ASSUME NEW i \in 1 .. n - 1 PROVE Tail(c)[i] = v[t[i]]
      OBVIOUS
    <3>1. i + 1 \in 1 .. n /\ t[i] = q[i + 1] /\ Tail(c)[i] = c[i + 1]
      BY <1>1, <1>2, <2>3
    <3>2. c[i + 1] = v[q[i + 1]]
      BY <2>1, <3>1
    <3> QED
      BY <3>1, <3>2
  <2>5. y = [i \in 1 .. n - 1 |-> z(i)]
    <3> HIDE DEF y, z
    <3>1. y \in Seq(Nat) /\ Len(y) = n - 1
      BY <2>3 DEF y
    <3>2. y = [i \in 1 .. n - 1 |-> y[i]]
      BY <1>1, <3>1
    <3> QED
      BY <2>4, <3>2
  <2> QED
    BY <1>1, <1>2, <2>1, <2>2, <2>5 DEF Coded, c
<1>7. In(q, q[1])
  BY <1>2 DEF In, n
<1> QED
  BY <1>1, <1>4, <1>5, <1>6, <1>7 DEF t

-----------------------------------------------------------------------------
(* The LFUCache.                                                           *)

Held(e) == DOMAIN e.values

\* Every field of the leader's cache has a code of its own and waits in the
\* queue of its count, and in no other.
SoundLfu(e, last) ==
  /\ last \in Nat
  /\ Held(e) \subseteq Fields /\ IsFiniteSet(Held(e)) /\ Cardinality(Held(e)) <= Size
  /\ e.values \in [Held(e) -> Nat] /\ e.count \in [Held(e) -> Nat \ {0}]
  /\ \A k \in Held(e) : e.values[k] <= last
  /\ \A j, k \in Held(e) : e.values[j] = e.values[k] => j = k
  /\ DOMAIN e.bin \subseteq Nat
  /\ \A n \in Nat : Bin(e, n) \in Seq(Fields) /\ Distinct(Bin(e, n))
  /\ \A n \in Nat : \A k : In(Bin(e, n), k) <=> k \in Held(e) /\ e.count[k] = n

\* The least frequency is that of a field, unless there is none.
LeastThere(e) ==
  /\ e.min_frequency \in Nat
  /\ \A k \in Held(e) : e.min_frequency <= e.count[k] /\ Bin(e, e.min_frequency) # <<>>

GoodLfu(e, last) == SoundLfu(e, last) /\ LeastThere(e)

\* The decoder is the encoder turned around, with the same counts.
MirrorLfu(d, e) ==
  /\ DOMAIN d.values = {e.values[k] : k \in Held(e)} /\ DOMAIN d.count = DOMAIN d.values
  /\ \A k \in Held(e) : d.values[e.values[k]] = k /\ d.count[e.values[k]] = e.count[k]
  /\ d.min_frequency = e.min_frequency /\ DOMAIN d.bin = DOMAIN e.bin
  /\ \A n \in Nat : Bin(d, n) = Coded(e.values, Bin(e, n))

\* Both sides hold as many entries.
LEMMA LfuLength ==
  ASSUME NEW d, NEW e, NEW last, SoundLfu(e, last), MirrorLfu(d, e)
  PROVE  Cardinality(DOMAIN d.values) = Cardinality(Held(e))
<1> DEFINE T == {e.values[k] : k \in Held(e)}
           g == e.values
           H == Held(e)
<1>1. /\ g \in [H -> T] /\ \A j, k \in H : g[j] = g[k] => j = k
      /\ \A t \in T : \E k \in H : g[k] = t
  BY DEF SoundLfu
<1>2. IsFiniteSet(H) /\ DOMAIN d.values = T
  BY DEF SoundLfu, MirrorLfu
<1> HIDE DEF T, g, H
<1>3. g \in Bijection(H, T)
  BY <1>1 DEF Bijection, Injection, Surjection, IsInjective
<1>4. ExistsBijection(H, T)
  BY <1>3 DEF ExistsBijection
<1> QED
  BY <1>2, <1>4, FS_Bijection DEF H

\* The fields of a queue have codes.
LEMMA QueueCoded ==
  ASSUME NEW e, NEW last, SoundLfu(e, last), NEW n \in Nat
  PROVE  CodesFor(e.values, Bin(e, n)) /\ \A i \in 1 .. Len(Bin(e, n)) : Bin(e, n)[i] \in Held(e)
<1> DEFINE q == Bin(e, n)
<1>1. \A i \in 1 .. Len(q) : q[i] \in Held(e)
  <2> SUFFICES ASSUME NEW i \in 1 .. Len(q) PROVE q[i] \in Held(e)
    OBVIOUS
  <2>1. In(q, q[i])
    BY DEF In
  <2> QED
    BY <2>1 DEF SoundLfu
<1> HIDE DEF q
<1>2. /\ \A k \in Held(e) : e.values[k] \in Nat
      /\ \A j, k \in Held(e) : e.values[j] = e.values[k] => j = k
  BY DEF SoundLfu
<1>3. CodesFor(e.values, q)
  BY <1>1, <1>2 DEF CodesFor
<1> QED
  BY <1>1, <1>3 DEF q

\* What update_frequency_bin does to the queues: the key moves from that of
\* its count n to the next.
MovedUp(c, key, n, c2) ==
  /\ c2.values = c.values /\ c2.count = [c.count EXCEPT ![key] = @ + 1]
  /\ c2.min_frequency = IF n = c.min_frequency /\ RemoveKey(Bin(c, n), key) = <<>>
                        THEN c.min_frequency + 1 ELSE c.min_frequency
  /\ DOMAIN c2.bin = DOMAIN c.bin \cup {n + 1}
  /\ Bin(c2, n) = RemoveKey(Bin(c, n), key)
  /\ Bin(c2, n + 1) = Append(Bin(c, n + 1), key)
  /\ \A m \in Nat : m # n /\ m # n + 1 => Bin(c2, m) = Bin(c, m)

\* A key that is used moves up.
LEMMA FrequencyUpdated ==
  ASSUME NEW c, NEW key, NEW n \in Nat, c.count[key] = n, n \in DOMAIN c.bin
  PROVE  MovedUp(c, key, n, update_frequency_bin(c, key))
<1> DEFINE c2 == update_frequency_bin(c, key)
           old == RemoveKey(c.bin[n], key)
           up == Append(Bin(c, n + 1), key)
           bins == [j \in DOMAIN c.bin \cup {n} |-> IF j = n THEN old ELSE c.bin[j]]
           new == [j \in DOMAIN bins \cup {n + 1} |-> IF j = n + 1 THEN up ELSE bins[j]]
<1>1. c.bin[n] = Bin(c, n)
  BY DEF Bin
<1>2. /\ c2.values = c.values /\ c2.count = [c.count EXCEPT ![key] = @ + 1]
      /\ c2.min_frequency = IF n = c.min_frequency /\ old = <<>>
                            THEN c.min_frequency + 1 ELSE c.min_frequency
      /\ c2.bin = new
  BY DEF update_frequency_bin, Put
<1> HIDE DEF c2, old, up
<1>3. n # n + 1
  OBVIOUS
<1>4. /\ DOMAIN new = DOMAIN c.bin \cup {n + 1} /\ new[n] = old /\ new[n + 1] = up
      /\ \A m \in DOMAIN c.bin : m # n /\ m # n + 1 => new[m] = c.bin[m]
  BY <1>3
<1> HIDE DEF new
<1>5. Bin(c2, n) = old /\ Bin(c2, n + 1) = up
  BY <1>2, <1>4 DEF Bin
<1>6. \A m \in Nat : m # n /\ m # n + 1 => Bin(c2, m) = Bin(c, m)
  BY <1>2, <1>4 DEF Bin
<1> QED
  BY <1>1, <1>2, <1>4, <1>5, <1>6 DEF MovedUp, c2, old, up

\* Using an entry of the encoder, and of the decoder that mirrors it.
LEMMA LfuHit ==
  ASSUME NEW e, NEW last, GoodLfu(e, last), NEW key \in Held(e)
  PROVE  /\ GoodLfu(update_frequency_bin(e, key), last)
         /\ \A d : MirrorLfu(d, e) =>
              /\ e.values[key] \in DOMAIN d.values /\ d.values[e.values[key]] = key
              /\ MirrorLfu(update_frequency_bin(d, e.values[key]), update_frequency_bin(e, key))
<1> DEFINE e2 == update_frequency_bin(e, key)
           n == e.count[key]
           q == Bin(e, n)
           u == Bin(e, n + 1)
           H == Held(e)
<1>0. /\ H \subseteq Fields /\ last \in Nat /\ key \in H /\ H = DOMAIN e.values
      /\ e.values \in [H -> Nat] /\ e.count \in [H -> Nat \ {0}]
      /\ DOMAIN e.bin \subseteq Nat
      /\ \A m \in Nat : Bin(e, m) \in Seq(Fields) /\ Distinct(Bin(e, m))
      /\ \A m \in Nat : \A k : In(Bin(e, m), k) <=> k \in H /\ e.count[k] = m
  BY DEF GoodLfu, SoundLfu, Held
<1>1. n \in Nat /\ n > 0 /\ n + 1 \in Nat /\ n # n + 1
  <2>1. n \in Nat \ {0}
    BY <1>0, Zenon
  <2> HIDE DEF n
  <2> QED
    BY <2>1
<1>2. /\ q \in Seq(Fields) /\ Distinct(q) /\ In(q, key)
      /\ u \in Seq(Fields) /\ Distinct(u) /\ ~In(u, key)
  BY <1>0, <1>1
<1>3. n \in DOMAIN e.bin
  <2>1. q # <<>>
    BY <1>2 DEF In
  <2> QED
    BY <2>1 DEF Bin
<1>4. /\ e2.values = e.values /\ e2.count = [e.count EXCEPT ![key] = @ + 1]
      /\ e2.min_frequency = IF n = e.min_frequency /\ RemoveKey(q, key) = <<>>
                            THEN e.min_frequency + 1 ELSE e.min_frequency
      /\ DOMAIN e2.bin = DOMAIN e.bin \cup {n + 1}
      /\ Bin(e2, n) = RemoveKey(q, key) /\ Bin(e2, n + 1) = Append(u, key)
      /\ \A m \in Nat : m # n /\ m # n + 1 => Bin(e2, m) = Bin(e, m)
  <2>1. MovedUp(e, key, n, e2)
    <3>1. n \in Nat /\ e.count[key] = n /\ n \in DOMAIN e.bin
      BY <1>1, <1>3
    <3> HIDE DEF n
    <3> QED
      BY <3>1, FrequencyUpdated
  <2> QED
    BY <2>1 DEF MovedUp
<1>5. /\ RemoveKey(q, key) \in Seq(Fields) /\ Distinct(RemoveKey(q, key))
      /\ \A k : In(RemoveKey(q, key), k) <=> In(q, k) /\ k # key
      /\ RemoveKey(q, key) = <<>> => \A k : In(q, k) => k = key
      /\ \A v : CodesFor(v, q) => RemoveKey(Coded(v, q), v[key]) = Coded(v, RemoveKey(q, key))
  <2> HIDE DEF q
  <2> QED
    BY <1>2, KeyRemoved
<1>6. /\ Append(u, key) \in Seq(Fields) /\ Distinct(Append(u, key)) /\ Append(u, key) # <<>>
      /\ \A k : In(Append(u, key), k) <=> In(u, k) \/ k = key
      /\ \A v, w : /\ CodesFor(v, u) /\ w[key] \in Nat
                   /\ \A i \in 1 .. Len(u) : w[u[i]] = v[u[i]]
           => Append(Coded(v, u), w[key]) = Coded(w, Append(u, key))
  <2>1. key \in Fields
    BY <1>0
  <2> HIDE DEF u
  <2> QED
    BY <1>2, <2>1, KeyAppended
<1>7. /\ e2.count \in [H -> Nat \ {0}] /\ e2.count[key] = n + 1
      /\ \A k \in H : k # key => e2.count[k] = e.count[k]
      /\ Held(e2) = H
  <2>1. Held(e2) = H
    BY <1>4 DEF Held
  <2> HIDE DEF e2, H, q, u
  <2>2. e2.count[key] = n + 1 /\ n + 1 \in Nat \ {0} /\ \A k \in H : k # key => e2.count[k] = e.count[k]
    <3>1. DOMAIN e.count = H /\ key \in H /\ e2.count = [e.count EXCEPT ![key] = n + 1]
      BY <1>0, <1>4
    <3> HIDE DEF n
    <3>2. n + 1 \in Nat \ {0}
      BY <1>1
    <3> QED
      BY <3>1, <3>2
  <2>3. DOMAIN e2.count = H /\ e2.count = [k \in H |-> e2.count[k]]
    BY <1>0, <1>4
  <2>4. \A k \in H : e2.count[k] \in Nat \ {0}
    <3>1. \A k \in H : e.count[k] \in Nat \ {0}
      BY <1>0, Zenon
    <3> HIDE DEF n
    <3> QED
      BY <2>2, <3>1, Zenon
  <2> QED
    BY <2>1, <2>2, <2>3, <2>4
<1> HIDE DEF e2
<1>8. \A m \in Nat : Bin(e2, m) \in Seq(Fields) /\ Distinct(Bin(e2, m))
  <2> SUFFICES ASSUME NEW m \in Nat PROVE Bin(e2, m) \in Seq(Fields) /\ Distinct(Bin(e2, m))
    OBVIOUS
  <2> HIDE DEF n, q, u
  <2> QED
    BY <1>0, <1>4, <1>5, <1>6
<1>9. ASSUME NEW m \in Nat, NEW k PROVE In(Bin(e2, m), k) <=> k \in H /\ e2.count[k] = m
  <2>1. /\ In(q, k) <=> k \in H /\ e.count[k] = n
        /\ In(u, k) <=> k \in H /\ e.count[k] = n + 1
        /\ In(Bin(e, m), k) <=> k \in H /\ e.count[k] = m
    BY <1>0, <1>1
  <2>2. e.count[key] = n
    OBVIOUS
  <2> HIDE DEF n, q, u, H
  <2>3. CASE m = n
    <3>1. In(Bin(e2, m), k) <=> In(q, k) /\ k # key
      BY <1>4, <1>5, <2>3, Zenon
    <3> QED
      BY <1>1, <1>7, <2>1, <2>3, <3>1
  <2>4. CASE m = n + 1
    <3>1. In(Bin(e2, m), k) <=> In(u, k) \/ k = key
      BY <1>4, <1>6, <2>4, Zenon
    <3> QED
      BY <1>0, <1>1, <1>7, <2>1, <2>4, <3>1
  <2>5. CASE m # n /\ m # n + 1
    <3>1. Bin(e2, m) = Bin(e, m)
      BY <1>4, <2>5
    <3> QED
      BY <1>7, <2>1, <2>2, <2>5, <3>1
  <2> QED
    BY <2>3, <2>4, <2>5
<1>10. SoundLfu(e2, last)
  <2>1. /\ IsFiniteSet(H) /\ Cardinality(H) <= Size
        /\ \A k \in H : e.values[k] <= last
        /\ \A j, k \in H : e.values[j] = e.values[k] => j = k
    BY DEF GoodLfu, SoundLfu
  <2>2. DOMAIN e2.bin \subseteq Nat
    BY <1>0, <1>1, <1>4
  <2> HIDE DEF n, q, u, H
  <2> QED
    BY <1>0, <1>4, <1>7, <1>8, <1>9, <2>1, <2>2 DEF SoundLfu
<1>11. LeastThere(e2)
  <2> DEFINE f == e.min_frequency
  <2>1. f \in Nat /\ \A k \in H : f <= e.count[k] /\ Bin(e, f) # <<>>
    BY DEF GoodLfu, LeastThere
  <2>2. \A k \in H : e.count[k] \in Nat /\ (In(q, k) <=> e.count[k] = n)
    BY <1>0, <1>1
  <2>3. f <= n
    BY <1>0, <2>1
  <2> HIDE DEF n, q, u, H, f
  <2>4. CASE n = f /\ RemoveKey(q, key) = <<>>
    <3>1. e2.min_frequency = n + 1
      BY <1>4, <2>4 DEF f
    <3>2. ASSUME NEW k \in H PROVE n + 1 <= e2.count[k]
      <4>1. CASE k = key
        BY <1>1, <1>7, <4>1
      <4>2. CASE k # key
        <5>1. ~In(q, k)
          BY <1>5, <2>4, <4>2
        <5>2. e.count[k] # n /\ n <= e.count[k] /\ e.count[k] \in Nat
          BY <2>1, <2>2, <2>4, <5>1
        <5> QED
          BY <1>1, <1>7, <4>2, <5>2
      <4> QED
        BY <4>1, <4>2
    <3>3. Bin(e2, n + 1) # <<>>
      BY <1>4, <1>6
    <3> QED
      BY <1>1, <1>7, <3>1, <3>2, <3>3 DEF LeastThere
  <2>5. CASE n = f /\ RemoveKey(q, key) # <<>>
    <3>1. e2.min_frequency = f /\ Bin(e2, f) # <<>>
      BY <1>4, <2>5 DEF f
    <3>2. \A k \in H : f <= e2.count[k]
      BY <1>1, <1>7, <2>1, <2>5
    <3> QED
      BY <1>7, <2>1, <3>1, <3>2 DEF LeastThere
  <2>6. CASE n # f
    <3>1. e2.min_frequency = f
      BY <1>4, <2>6 DEF f
    <3>2. f # n + 1 /\ f # n
      BY <1>1, <2>1, <2>3, <2>6
    <3>3. Bin(e2, f) = Bin(e, f) /\ Bin(e, f) # <<>>
      BY <1>0, <1>4, <2>1, <3>2
    <3>4. \A k \in H : f <= e2.count[k]
      BY <1>1, <1>7, <2>1, <2>3
    <3> QED
      BY <1>7, <2>1, <3>1, <3>3, <3>4 DEF LeastThere
  <2> QED
    BY <2>4, <2>5, <2>6
<1>12. ASSUME NEW d, MirrorLfu(d, e)
       PROVE  /\ e.values[key] \in DOMAIN d.values /\ d.values[e.values[key]] = key
              /\ MirrorLfu(update_frequency_bin(d, e.values[key]), e2)
  <2> DEFINE v == e.values[key]
             d2 == update_frequency_bin(d, v)
  <2>1. /\ DOMAIN d.values = {e.values[k] : k \in H} /\ DOMAIN d.count = DOMAIN d.values
        /\ \A k \in H : d.values[e.values[k]] = k /\ d.count[e.values[k]] = e.count[k]
        /\ d.min_frequency = e.min_frequency /\ DOMAIN d.bin = DOMAIN e.bin
        /\ \A m \in Nat : Bin(d, m) = Coded(e.values, Bin(e, m))
    BY <1>12 DEF MirrorLfu
  <2>2. v \in DOMAIN d.values /\ d.values[v] = key /\ d.count[v] = n /\ v \in Nat
    BY <1>0, <2>1
  <2>3. Bin(d, n) = Coded(e.values, q) /\ Bin(d, n + 1) = Coded(e.values, u)
    BY <1>1, <2>1
  <2>4. /\ d2.values = d.values /\ d2.count = [d.count EXCEPT ![v] = @ + 1]
        /\ d2.min_frequency = IF n = d.min_frequency /\ RemoveKey(Bin(d, n), v) = <<>>
                              THEN d.min_frequency + 1 ELSE d.min_frequency
        /\ DOMAIN d2.bin = DOMAIN d.bin \cup {n + 1}
        /\ Bin(d2, n) = RemoveKey(Bin(d, n), v) /\ Bin(d2, n + 1) = Append(Bin(d, n + 1), v)
        /\ \A m \in Nat : m # n /\ m # n + 1 => Bin(d2, m) = Bin(d, m)
    <3>1. n \in Nat /\ d.count[v] = n /\ n \in DOMAIN d.bin
      BY <1>1, <1>3, <2>1, <2>2
    <3>2. MovedUp(d, v, n, d2)
      <4> HIDE DEF n, v
      <4> QED
        BY <3>1, FrequencyUpdated
    <3> QED
      BY <3>2 DEF MovedUp
  <2>5. CodesFor(e.values, q) /\ CodesFor(e.values, u)
    BY <1>1, QueueCoded DEF GoodLfu
  <2>6. RemoveKey(Bin(d, n), v) = Coded(e.values, RemoveKey(q, key))
    BY <1>5, <2>3, <2>5
  <2>7. Append(Bin(d, n + 1), v) = Coded(e.values, Append(u, key))
    <3>1. Append(Coded(e.values, u), e.values[key]) = Coded(e.values, Append(u, key))
      <4>1. e.values[key] \in Nat /\ \A i \in 1 .. Len(u) : e.values[u[i]] = e.values[u[i]]
        BY <2>2
      <4> HIDE DEF u
      <4> QED
        BY <1>6, <2>5, <4>1, Zenon
    <3> QED
      BY <2>3, <3>1
  <2>8. RemoveKey(Bin(d, n), v) = <<>> <=> RemoveKey(q, key) = <<>>
    <3> DEFINE r == RemoveKey(q, key)
    <3>1. r \in Seq(Fields)
      BY <1>5
    <3> HIDE DEF r
    <3>2. Coded(e.values, r) = <<>> <=> r = <<>>
      <4>1. Len(r) \in Nat /\ (r = <<>> <=> Len(r) = 0)
        BY <3>1
      <4>2. DOMAIN Coded(e.values, r) = 1 .. Len(r)
        BY DEF Coded
      <4>3. ASSUME Len(r) = 0 PROVE Coded(e.values, r) = <<>>
        BY <4>3 DEF Coded
      <4>4. ASSUME Coded(e.values, r) = <<>> PROVE Len(r) = 0
        <5>1. 1 .. Len(r) = {}
          BY <4>2, <4>4
        <5> QED
          BY <4>1, <5>1
      <4> QED
        BY <4>1, <4>3, <4>4
    <3> QED
      BY <2>6, <3>2 DEF r
  <2> HIDE DEF v, d2, n, q, u, H
  <2>9. d2.min_frequency = e2.min_frequency /\ DOMAIN d2.bin = DOMAIN e2.bin
    BY <1>4, <2>1, <2>4, <2>8
  <2>10. \A m \in Nat : Bin(d2, m) = Coded(e2.values, Bin(e2, m))
    BY <1>1, <1>4, <2>1, <2>4, <2>6, <2>7
  <2>11. ASSUME NEW k \in H
         PROVE  d2.values[e2.values[k]] = k /\ d2.count[e2.values[k]] = e2.count[k]
    <3>1. /\ d.values[e.values[k]] = k /\ d.count[e.values[k]] = e.count[k]
          /\ e.values[k] \in DOMAIN d.count
      BY <2>1, <2>11
    <3>2. CASE k = key
      <4>1. e.values[k] = v
        BY <3>2 DEF v
      <4>2. d2.count[v] = d.count[v] + 1
        BY <2>1, <2>2, <2>4
      <4> QED
        BY <1>4, <1>7, <2>2, <2>4, <3>1, <3>2, <4>1, <4>2
    <3>3. CASE k # key
      <4>1. e.values[k] # v
        BY <2>2, <3>1, <3>3
      <4>2. d2.count[e.values[k]] = d.count[e.values[k]]
        BY <2>4, <3>1, <4>1
      <4> QED
        BY <1>4, <1>7, <2>4, <3>1, <3>3, <4>2
    <3> QED
      BY <3>2, <3>3
  <2>12. DOMAIN d2.values = {e2.values[k] : k \in H} /\ DOMAIN d2.count = DOMAIN d2.values
    <3>1. d2.values = d.values /\ e2.values = e.values /\ DOMAIN d2.count = DOMAIN d.count
      BY <1>4, <2>4
    <3> QED
      BY <2>1, <3>1
  <2>13. MirrorLfu(d2, e2)
    BY <1>7, <2>9, <2>10, <2>11, <2>12 DEF MirrorLfu
  <2> QED
    BY <2>2, <2>13 DEF v, d2
<1> QED
  BY <1>10, <1>11, <1>12 DEF e2, GoodLfu

\* The first field of the least frequency leaves both sides.
LEMMA LfuEvicted ==
  ASSUME NEW e, NEW last, GoodLfu(e, last), Held(e) # {}
  PROVE  LET r == LfuEvict(e).rest
             code == LfuEvict(e).entry[2]
         IN /\ SoundLfu(r, last) /\ Cardinality(Held(r)) = Cardinality(Held(e)) - 1
            /\ Held(r) \subseteq Held(e)
            /\ code \in Nat /\ code <= last /\ \A k \in Held(r) : r.values[k] # code
            /\ \A d : MirrorLfu(d, e) =>
                 LfuEvict(d).entry[1] = code /\ MirrorLfu(LfuEvict(d).rest, r)
<1> DEFINE f == e.min_frequency
           q == Bin(e, f)
           key == Head(q)
           H == Held(e)
           R == H \ {key}
           r == LfuEvict(e).rest
           code == LfuEvict(e).entry[2]
<1>0. /\ H \subseteq Fields /\ last \in Nat /\ H = DOMAIN e.values
      /\ e.values \in [H -> Nat] /\ e.count \in [H -> Nat \ {0}]
      /\ DOMAIN e.bin \subseteq Nat
      /\ \A m \in Nat : Bin(e, m) \in Seq(Fields) /\ Distinct(Bin(e, m))
      /\ \A m \in Nat : \A k : In(Bin(e, m), k) <=> k \in H /\ e.count[k] = m
      /\ \A k \in H : e.values[k] <= last
      /\ \A j, k \in H : e.values[j] = e.values[k] => j = k
      /\ IsFiniteSet(H) /\ Cardinality(H) <= Size
  BY DEF GoodLfu, SoundLfu, Held
<1>1. f \in Nat /\ q # <<>> /\ q \in Seq(Fields) /\ Distinct(q)
  BY <1>0 DEF GoodLfu, LeastThere
<1>2. f \in DOMAIN e.bin /\ e.bin[f] = q
  BY <1>1 DEF Bin
<1> HIDE DEF q
<1>3. /\ In(q, key) /\ Tail(q) \in Seq(Fields) /\ Distinct(Tail(q))
      /\ \A k : In(Tail(q), k) <=> In(q, k) /\ k # key
      /\ \A v : CodesFor(v, q) =>
           /\ Coded(v, q) # <<>> /\ Head(Coded(v, q)) = v[key]
           /\ Tail(Coded(v, q)) = Coded(v, Tail(q))
  BY <1>1, KeyPopped
<1>4. key \in H /\ e.count[key] = f
  <2>1. In(Bin(e, f), key)
    BY <1>3 DEF q
  <2> HIDE DEF key, f
  <2> QED
    BY <1>0, <1>1, <2>1
<1>5. /\ r.values = [k \in R |-> e.values[k]] /\ r.count = [k \in R |-> e.count[k]]
      /\ r.min_frequency = f /\ r.bin = [e.bin EXCEPT ![f] = Tail(q)]
      /\ code = e.values[key]
  BY <1>2 DEF LfuEvict, Restrict, Held
<1> HIDE DEF r, key, code, f
<1>6. Bin(r, f) = Tail(q) /\ DOMAIN r.bin = DOMAIN e.bin /\ \A m \in Nat : m # f => Bin(r, m) = Bin(e, m)
  <2>1. /\ DOMAIN r.bin = DOMAIN e.bin /\ r.bin[f] = Tail(q)
        /\ \A m \in DOMAIN e.bin : m # f => r.bin[m] = e.bin[m]
    BY <1>2, <1>5
  <2> QED
    BY <1>2, <2>1 DEF Bin
<1>7. Held(r) = R
  BY <1>5 DEF Held
<1>8. \A m \in Nat : Bin(r, m) \in Seq(Fields) /\ Distinct(Bin(r, m))
  BY <1>0, <1>3, <1>6
<1>9. ASSUME NEW m \in Nat, NEW k PROVE In(Bin(r, m), k) <=> k \in R /\ r.count[k] = m
  <2>1. In(q, k) <=> k \in H /\ e.count[k] = f
    BY <1>0, <1>1 DEF q, f
  <2>2. In(Bin(e, m), k) <=> k \in H /\ e.count[k] = m
    BY <1>0
  <2>3. k \in R => r.count[k] = e.count[k]
    BY <1>5
  <2>4. CASE m = f
    <3>1. In(Bin(r, m), k) <=> In(q, k) /\ k # key
      BY <1>3, <1>6, <2>4, Zenon
    <3> QED
      BY <2>1, <2>3, <2>4, <3>1
  <2>5. CASE m # f
    <3>1. Bin(r, m) = Bin(e, m)
      BY <1>6, <2>5
    <3> QED
      BY <1>4, <2>2, <2>3, <2>5, <3>1
  <2> QED
    BY <2>4, <2>5
<1>10. IsFiniteSet(R) /\ Cardinality(R) = Cardinality(H) - 1
  BY <1>0, <1>4, FS_RemoveElement
<1>11. Cardinality(R) <= Size
  <2>1. Cardinality(H) \in Nat /\ Size \in Nat
    BY <1>0, FS_CardinalityType, UniCacheAssumption
  <2> QED
    BY <1>0, <1>10, <2>1
<1>12. /\ r.values \in [R -> Nat] /\ r.count \in [R -> Nat \ {0}]
       /\ \A k \in R : r.values[k] = e.values[k] /\ r.count[k] = e.count[k]
  <2>1. \A k \in R : e.values[k] \in Nat /\ e.count[k] \in Nat \ {0}
    BY <1>0, Zenon
  <2> QED
    BY <1>5, <2>1
<1>13. SoundLfu(r, last)
  <2>1. /\ R \subseteq Fields /\ \A k \in R : r.values[k] <= last
        /\ \A j, k \in R : r.values[j] = r.values[k] => j = k
    BY <1>0, <1>12
  <2>2. DOMAIN r.bin \subseteq Nat
    BY <1>0, <1>6
  <2> HIDE DEF R, H
  <2> QED
    BY <1>0, <1>7, <1>8, <1>9, <1>10, <1>11, <1>12, <2>1, <2>2 DEF SoundLfu
<1>14. code \in Nat /\ code <= last /\ \A k \in R : r.values[k] # code
  BY <1>0, <1>4, <1>5, <1>12
<1>15. ASSUME NEW d, MirrorLfu(d, e)
       PROVE  LfuEvict(d).entry[1] = code /\ MirrorLfu(LfuEvict(d).rest, r)
  <2> DEFINE t == LfuEvict(d).rest
             D == DOMAIN d.values \ {code}
  <2>1. /\ DOMAIN d.values = {e.values[k] : k \in H} /\ DOMAIN d.count = DOMAIN d.values
        /\ \A k \in H : d.values[e.values[k]] = k /\ d.count[e.values[k]] = e.count[k]
        /\ d.min_frequency = f /\ DOMAIN d.bin = DOMAIN e.bin
        /\ \A m \in Nat : Bin(d, m) = Coded(e.values, Bin(e, m))
    BY <1>15 DEF MirrorLfu, f
  <2>2. CodesFor(e.values, q)
    BY <1>1, QueueCoded DEF GoodLfu, q, f
  <2>3. /\ d.bin[f] = Coded(e.values, q) /\ Head(d.bin[f]) = code
        /\ Tail(d.bin[f]) = Coded(e.values, Tail(q))
    <3>1. d.bin[f] = Bin(d, f)
      BY <1>2, <2>1 DEF Bin
    <3>2. d.bin[f] = Coded(e.values, q)
      BY <1>1, <2>1, <3>1 DEF q, f
    <3> QED
      BY <1>3, <1>5, <2>2, <3>2
  <2>4. /\ LfuEvict(d).entry[1] = code
        /\ t.values = [k \in D |-> d.values[k]] /\ t.count = [k \in D |-> d.count[k]]
        /\ t.min_frequency = f /\ t.bin = [d.bin EXCEPT ![f] = Coded(e.values, Tail(q))]
    BY <2>1, <2>3 DEF LfuEvict, Restrict
  <2> HIDE DEF t
  <2>5. /\ DOMAIN t.bin = DOMAIN r.bin /\ Bin(t, f) = Coded(e.values, Bin(r, f))
        /\ \A m \in Nat : m # f => Bin(t, m) = Bin(d, m)
    <3>1. /\ DOMAIN t.bin = DOMAIN d.bin /\ t.bin[f] = Coded(e.values, Tail(q))
          /\ \A m \in DOMAIN d.bin : m # f => t.bin[m] = d.bin[m]
      BY <1>2, <2>1, <2>4
    <3> QED
      BY <1>2, <1>6, <2>1, <3>1 DEF Bin
  <2>6. ASSUME NEW m \in Nat PROVE Bin(t, m) = Coded(r.values, Bin(r, m))
    <3>1. Bin(t, m) = Coded(e.values, Bin(r, m))
      BY <1>6, <2>1, <2>5
    <3>2. \A i \in 1 .. Len(Bin(r, m)) : Bin(r, m)[i] \in R
      BY <1>7, <1>13, QueueCoded
    <3>3. \A i \in 1 .. Len(Bin(r, m)) : e.values[Bin(r, m)[i]] = r.values[Bin(r, m)[i]]
      BY <1>12, <3>2
    <3> QED
      BY <3>1, <3>3 DEF Coded
  <2>7. \A k \in R : e.values[k] # code /\ e.values[k] \in D
    BY <1>12, <1>14, <2>1
  <2>8. \A k \in R : t.values[r.values[k]] = k /\ t.count[r.values[k]] = r.count[k]
    BY <1>12, <2>1, <2>4, <2>7
  <2>9. D = {r.values[k] : k \in R}
    <3>1. ASSUME NEW x \in D PROVE \E k \in R : r.values[k] = x
      <4>1. PICK k \in H : e.values[k] = x
        BY <2>1
      <4>2. k # key
        BY <1>5, <4>1
      <4> QED
        BY <1>12, <4>1, <4>2
    <3>2. \A k \in R : r.values[k] \in D
      BY <1>12, <2>7
    <3> HIDE DEF D, R
    <3> QED
      BY <3>1, <3>2
  <2>10. DOMAIN t.values = D /\ DOMAIN t.count = D
    BY <2>4
  <2>11. t.min_frequency = r.min_frequency
    BY <1>5, <2>4
  <2> HIDE DEF D, R
  <2>12. MirrorLfu(t, r)
    BY <1>7, <2>5, <2>6, <2>8, <2>9, <2>10, <2>11 DEF MirrorLfu
  <2> QED
    BY <2>4, <2>12 DEF t
<1> QED
  BY <1>7, <1>10, <1>13, <1>14, <1>15 DEF r, code

\* A new field with a code that no entry has.
LEMMA LfuAdded ==
  ASSUME NEW e, NEW last, SoundLfu(e, last), NEW field \in Fields, field \notin Held(e),
         Cardinality(Held(e)) < Size, NEW code \in Nat, NEW next \in Nat,
         code <= next, last <= next, \A k \in Held(e) : e.values[k] # code
  PROVE  /\ GoodLfu(LfuSet(e, field, code), next)
         /\ \A d : MirrorLfu(d, e) => MirrorLfu(LfuSet(d, code, field), LfuSet(e, field, code))
<1> DEFINE H == Held(e)
           G == H \cup {field}
           q == Bin(e, 1)
           a == LfuSet(e, field, code)
<1>0. /\ H \subseteq Fields /\ last \in Nat /\ H = DOMAIN e.values
      /\ e.values \in [H -> Nat] /\ e.count \in [H -> Nat \ {0}]
      /\ DOMAIN e.bin \subseteq Nat
      /\ \A m \in Nat : Bin(e, m) \in Seq(Fields) /\ Distinct(Bin(e, m))
      /\ \A m \in Nat : \A k : In(Bin(e, m), k) <=> k \in H /\ e.count[k] = m
      /\ \A k \in H : e.values[k] <= last
      /\ \A j, k \in H : e.values[j] = e.values[k] => j = k
      /\ IsFiniteSet(H) /\ Cardinality(H) <= Size
  BY DEF SoundLfu, Held
<1>1. /\ a.values = [k \in G |-> IF k = field THEN code ELSE e.values[k]]
      /\ a.count = [k \in G |-> IF k = field THEN 1 ELSE e.count[k]]
      /\ a.min_frequency = 1
      /\ a.bin = [m \in DOMAIN e.bin \cup {1} |-> IF m = 1 THEN Append(q, field) ELSE e.bin[m]]
  <2>1. DOMAIN e.count = H /\ DOMAIN e.values = H
    BY <1>0
  <2> HIDE DEF H
  <2> QED
    BY <2>1 DEF LfuSet, Put
<1>2. q \in Seq(Fields) /\ Distinct(q) /\ ~In(q, field)
  BY <1>0
<1>3. /\ Append(q, field) \in Seq(Fields) /\ Distinct(Append(q, field)) /\ Append(q, field) # <<>>
      /\ \A k : In(Append(q, field), k) <=> In(q, k) \/ k = field
      /\ \A v, w : /\ CodesFor(v, q) /\ w[field] \in Nat
                   /\ \A i \in 1 .. Len(q) : w[q[i]] = v[q[i]]
           => Append(Coded(v, q), w[field]) = Coded(w, Append(q, field))
  <2> HIDE DEF q
  <2> QED
    BY <1>2, KeyAppended
<1> HIDE DEF a
<1>4. /\ Held(a) = G
      /\ a.values[field] = code /\ a.count[field] = 1
      /\ \A k \in H : k # field /\ a.values[k] = e.values[k] /\ a.count[k] = e.count[k]
  BY <1>1 DEF Held
<1>5. a.values \in [G -> Nat] /\ a.count \in [G -> Nat \ {0}]
  <2>1. \A k \in H : e.values[k] \in Nat /\ e.count[k] \in Nat \ {0}
    BY <1>0, Zenon
  <2>2. 1 \in Nat \ {0}
    OBVIOUS
  <2> HIDE DEF H
  <2>3. \A k \in G : /\ (IF k = field THEN code ELSE e.values[k]) \in Nat
                     /\ (IF k = field THEN 1 ELSE e.count[k]) \in Nat \ {0}
    BY <2>1, <2>2
  <2> QED
    BY <1>1, <2>3
<1>6. /\ Bin(a, 1) = Append(q, field) /\ DOMAIN a.bin = DOMAIN e.bin \cup {1}
      /\ \A m \in Nat : m # 1 => Bin(a, m) = Bin(e, m)
  BY <1>1 DEF Bin
<1>7. \A m \in Nat : Bin(a, m) \in Seq(Fields) /\ Distinct(Bin(a, m))
  <2> HIDE DEF q
  <2> QED
    BY <1>0, <1>3, <1>6
<1>8. ASSUME NEW m \in Nat, NEW k PROVE In(Bin(a, m), k) <=> k \in G /\ a.count[k] = m
  <2>1. /\ In(q, k) <=> k \in H /\ e.count[k] = 1
        /\ In(Bin(e, m), k) <=> k \in H /\ e.count[k] = m
    BY <1>0
  <2> HIDE DEF q, H
  <2>2. CASE m = 1
    <3>1. In(Bin(a, m), k) <=> In(q, k) \/ k = field
      BY <1>3, <1>6, <2>2, Zenon
    <3> QED
      BY <1>4, <2>1, <2>2, <3>1
  <2>3. CASE m # 1
    <3>1. Bin(a, m) = Bin(e, m)
      BY <1>6, <2>3
    <3> QED
      BY <1>4, <2>1, <2>3, <3>1
  <2> QED
    BY <2>2, <2>3
<1>9. IsFiniteSet(G) /\ Cardinality(G) <= Size
  <2>1. Cardinality(H) \in Nat /\ Size \in Nat /\ field \notin H
    BY <1>0, FS_CardinalityType, UniCacheAssumption
  <2>2. IsFiniteSet(G) /\ Cardinality(G) = Cardinality(H) + 1
    BY <1>0, <2>1, FS_AddElement
  <2> QED
    BY <2>1, <2>2
<1>10. GoodLfu(a, next)
  <2>1. \A k \in H : e.values[k] \in Nat /\ e.values[k] <= last /\ e.values[k] # code
    BY <1>0
  <2> HIDE DEF H
  <2>0. \A k \in G : k \in H \/ k = field
    OBVIOUS
  <2>2. ASSUME NEW k \in G PROVE a.values[k] <= next
    <3>1. CASE k = field
      BY <1>4, <3>1
    <3>2. CASE k \in H
      <4>1. a.values[k] = e.values[k] /\ e.values[k] \in Nat /\ e.values[k] <= last /\ last \in Nat
        BY <1>0, <1>4, <2>1, <3>2
      <4> QED
        BY <4>1
    <3> QED
      BY <2>0, <3>1, <3>2
  <2>3. \A j, k \in G : a.values[j] = a.values[k] => j = k
    BY <1>0, <1>4, <2>1
  <2>4. DOMAIN a.bin \subseteq Nat /\ G \subseteq Fields
    <3>1. DOMAIN e.bin \subseteq Nat /\ DOMAIN a.bin = DOMAIN e.bin \cup {1} /\ H \subseteq Fields
      BY <1>0, <1>6
    <3> QED
      BY <3>1
  <2> HIDE DEF G
  <2>5. SoundLfu(a, next)
    <3>1. Held(a) = G /\ next \in Nat
      BY <1>4
    <3>2. /\ Held(a) \subseteq Fields /\ IsFiniteSet(Held(a)) /\ Cardinality(Held(a)) <= Size
          /\ a.values \in [Held(a) -> Nat] /\ a.count \in [Held(a) -> Nat \ {0}]
      BY <1>5, <1>9, <2>4, <3>1, Zenon
    <3>3. /\ \A k \in Held(a) : a.values[k] <= next
          /\ \A j, k \in Held(a) : a.values[j] = a.values[k] => j = k
          /\ \A n \in Nat : \A k : In(Bin(a, n), k) <=> k \in Held(a) /\ a.count[k] = n
      BY <1>8, <2>2, <2>3, <3>1, Zenon
    <3> QED
      BY <1>7, <2>4, <3>1, <3>2, <3>3, Zenon DEF SoundLfu
  <2>6. LeastThere(a)
    <3>1. \A k \in G : 1 <= a.count[k]
      BY <1>5
    <3> QED
      BY <1>1, <1>3, <1>4, <1>6, <3>1 DEF LeastThere
  <2> QED
    BY <2>5, <2>6 DEF GoodLfu
<1>11. ASSUME NEW d, MirrorLfu(d, e) PROVE MirrorLfu(LfuSet(d, code, field), a)
  <2> DEFINE b == LfuSet(d, code, field)
             D == DOMAIN d.values \cup {code}
  <2>1. /\ DOMAIN d.values = {e.values[k] : k \in H} /\ DOMAIN d.count = DOMAIN d.values
        /\ \A k \in H : d.values[e.values[k]] = k /\ d.count[e.values[k]] = e.count[k]
        /\ DOMAIN d.bin = DOMAIN e.bin
        /\ \A m \in Nat : Bin(d, m) = Coded(e.values, Bin(e, m))
    BY <1>11 DEF MirrorLfu
  <2>2. /\ b.values = [k \in D |-> IF k = code THEN field ELSE d.values[k]]
        /\ b.count = [k \in D |-> IF k = code THEN 1 ELSE d.count[k]]
        /\ b.min_frequency = 1
        /\ b.bin = [m \in DOMAIN d.bin \cup {1} |-> IF m = 1 THEN Append(Bin(d, 1), code) ELSE d.bin[m]]
    BY <2>1 DEF LfuSet, Put
  <2> HIDE DEF b
  <2>3. /\ Bin(b, 1) = Append(Bin(d, 1), code) /\ DOMAIN b.bin = DOMAIN a.bin
        /\ \A m \in Nat : m # 1 => Bin(b, m) = Bin(d, m)
    BY <1>6, <2>1, <2>2 DEF Bin
  <2>4. Bin(b, 1) = Coded(a.values, Bin(a, 1))
    <3>1. Bin(d, 1) = Coded(e.values, q)
      BY <2>1
    <3>2. CodesFor(e.values, q) /\ \A i \in 1 .. Len(q) : q[i] \in H
      BY QueueCoded
    <3>3. a.values[field] \in Nat /\ \A i \in 1 .. Len(q) : a.values[q[i]] = e.values[q[i]]
      BY <1>4, <3>2
    <3> HIDE DEF q, H
    <3>4. Append(Coded(e.values, q), a.values[field]) = Coded(a.values, Append(q, field))
      BY <1>3, <3>2, <3>3, Zenon
    <3> QED
      BY <1>4, <1>6, <2>3, <3>1, <3>4
  <2>5. ASSUME NEW m \in Nat, m # 1 PROVE Bin(b, m) = Coded(a.values, Bin(a, m))
    <3>1. Bin(b, m) = Coded(e.values, Bin(e, m)) /\ Bin(a, m) = Bin(e, m)
      BY <1>6, <2>1, <2>3, <2>5
    <3>2. \A i \in 1 .. Len(Bin(e, m)) : Bin(e, m)[i] \in H
      BY QueueCoded
    <3>3. \A i \in 1 .. Len(Bin(e, m)) : e.values[Bin(e, m)[i]] = a.values[Bin(e, m)[i]]
      BY <1>4, <3>2
    <3> QED
      BY <3>1, <3>3 DEF Coded
  <2>6. \A k \in H : e.values[k] # code /\ e.values[k] \in D
    BY <2>1
  <2>7. \A k \in G : b.values[a.values[k]] = k /\ b.count[a.values[k]] = a.count[k]
    <3>1. b.values[code] = field /\ b.count[code] = 1
      BY <2>2
    <3>2. \A k \in H : b.values[e.values[k]] = k /\ b.count[e.values[k]] = e.count[k]
      BY <2>1, <2>2, <2>6
    <3> HIDE DEF H
    <3> QED
      BY <1>4, <3>1, <3>2
  <2>8. DOMAIN b.values = D /\ DOMAIN b.count = D
    BY <2>2
  <2>9. D = {a.values[k] : k \in G}
    <3>1. \A k \in G : a.values[k] \in D
      BY <1>4, <2>6
    <3>2. ASSUME NEW x \in D PROVE \E k \in G : a.values[k] = x
      <4>1. CASE x = code
        BY <1>4, <4>1
      <4>2. CASE x # code
        <5>1. PICK k \in H : e.values[k] = x
          BY <2>1, <4>2
        <5> QED
          BY <1>4, <5>1
      <4> QED
        BY <4>1, <4>2
    <3> HIDE DEF D, G
    <3> QED
      BY <3>1, <3>2
  <2> HIDE DEF D, G
  <2>10. MirrorLfu(b, a)
    BY <1>1, <1>4, <2>2, <2>3, <2>4, <2>5, <2>7, <2>8, <2>9 DEF MirrorLfu
  <2> QED
    BY <2>10 DEF b
<1> QED
  BY <1>10, <1>11 DEF a

-----------------------------------------------------------------------------
(* One message.                                                            *)

Good(c, last) == IF policy = "LRU" THEN GoodLru(c, last) ELSE GoodLfu(c, last)

Mirror(d, e) == IF policy = "LRU" THEN MirrorLru(d, e) ELSE MirrorLfu(d, e)

Messages == ({"Encoded"} \X Nat) \cup ({"NotEncoded"} \X Fields)

\* What try_encode sends takes a mirror of the old state to one of the new.
Carries(e, last, field) ==
  LET r == try_encode(e, last, field)
  IN /\ r.message \in Messages /\ Good(r.cache, r.encoding)
     /\ \A d : Mirror(d, e) =>
          /\ Decodes(d, r.message, field)
          /\ Mirror(decode(d, last, r.message).cache, r.cache)
          /\ decode(d, last, r.message).encoding = r.encoding

\* A hit, a miss of a full cache and a miss of one with room, for LRUniCache.
LEMMA LruStep ==
  ASSUME policy = "LRU", NEW e, NEW last, GoodLru(e, last), NEW field \in Fields
  PROVE  Carries(e, last, field)
<1> DEFINE r == try_encode(e, last, field)
<1>0. /\ LruOver(Fields, Nat, e) /\ Len(e) \in Nat /\ Size \in Nat /\ Size > 0 /\ last \in Nat /\ Len(e) <= Size
      /\ \A i \in 1 .. Len(e) : e[i][2] \in Nat /\ e[i][2] <= last
  BY UniCacheAssumption DEF GoodLru, LruOver
<1>1. \A c : Keys(c) = LruKeys(c)
  BY DEF Keys
<1>2. IsFull(e) <=> Len(e) = Size
  BY <1>0, <1>1, LruLength DEF IsFull
<1>3. ASSUME NEW d, MirrorLru(d, e) PROVE IsFull(d) <=> Len(e) = Size
  <2>1. LruOver(Nat, Fields, d) /\ Len(d) = Len(e)
    BY <1>3, LruMirrored
  <2> QED
    BY <1>1, <2>1, LruLength DEF IsFull
<1>4. CASE field \in LruKeys(e)
  <2> DEFINE v == LruValue(e, field)
  <2>1. r.message = <<"Encoded", v>> /\ r.cache = LruGet(e, field) /\ r.encoding = last
    BY <1>1, <1>4 DEF try_encode, Value, Get
  <2>2. v \in Nat
    <3>1. LruAt(e, field) \in 1 .. Len(e)
      BY <1>0, <1>4, LruPlace
    <3> QED
      BY <1>0, <3>1 DEF LruValue
  <2>3. /\ GoodLru(r.cache, last)
        /\ \A d : MirrorLru(d, e) =>
             /\ v \in LruKeys(d) /\ LruValue(d, v) = field
             /\ MirrorLru(LruGet(d, v), r.cache)
    BY <1>4, <2>1, LruHit
  <2> HIDE DEF v, r
  <2>4. ASSUME NEW d, MirrorLru(d, e)
        PROVE  /\ Decodes(d, r.message, field) /\ MirrorLru(decode(d, last, r.message).cache, r.cache)
               /\ decode(d, last, r.message).encoding = last
    <3>1. decode(d, last, r.message) = [cache |-> LruGet(d, v), encoding |-> last]
      BY <2>1 DEF decode, Get
    <3>2. Decodes(d, r.message, field)
      BY <1>1, <2>1, <2>3, <2>4 DEF Decodes, Value
    <3> QED
      BY <2>3, <2>4, <3>1, <3>2
  <2>5. r.message \in Messages
    BY <2>1, <2>2 DEF Messages
  <2> QED
    BY <2>1, <2>3, <2>4, <2>5 DEF Carries, Good, Mirror, r
<1>5. CASE field \notin LruKeys(e) /\ Len(e) = Size
  <2> DEFINE x == LruPop(e).rest
             v == LruPop(e).entry[2]
  <2>1. r.message = <<"NotEncoded", field>> /\ r.cache = LruPush(x, field, v) /\ r.encoding = last
    BY <1>1, <1>2, <1>5 DEF try_encode, Evict, Insert
  <2>2. /\ GoodLru(x, last) /\ Len(x) = Len(e) - 1 /\ LruKeys(x) \subseteq LruKeys(e)
        /\ v \in Nat /\ v <= last /\ \A i \in 1 .. Len(x) : x[i][2] # v
        /\ \A d : MirrorLru(d, e) => LruPop(d).entry[1] = v /\ MirrorLru(LruPop(d).rest, x)
    BY <1>0, <1>5, LruPopped
  <2>3. Len(x) < Size /\ field \notin LruKeys(x) /\ last <= last
    BY <1>0, <1>5, <2>2
  <2> HIDE DEF v, x, r
  <2>4. /\ GoodLru(r.cache, last)
        /\ \A d : MirrorLru(d, x) => MirrorLru(LruPush(d, v, field), r.cache)
    BY <1>0, <2>1, <2>2, <2>3, LruPushed
  <2>5. ASSUME NEW d, MirrorLru(d, e)
        PROVE  /\ Decodes(d, r.message, field) /\ MirrorLru(decode(d, last, r.message).cache, r.cache)
               /\ decode(d, last, r.message).encoding = last
    <3>1. decode(d, last, r.message) = [cache |-> LruPush(LruPop(d).rest, LruPop(d).entry[1], field), encoding |-> last]
      BY <1>3, <1>5, <2>1, <2>5 DEF decode, Evict, Insert
    <3>2. Decodes(d, r.message, field)
      BY <2>1 DEF Decodes
    <3> QED
      BY <2>2, <2>4, <2>5, <3>1, <3>2
  <2>6. r.message \in Messages
    BY <2>1 DEF Messages
  <2> QED
    BY <2>1, <2>4, <2>5, <2>6 DEF Carries, Good, Mirror, r
<1>6. CASE field \notin LruKeys(e) /\ Len(e) # Size
  <2> DEFINE v == last + 1
  <2>1. r.message = <<"NotEncoded", field>> /\ r.cache = LruPush(e, field, v) /\ r.encoding = v
    BY <1>1, <1>2, <1>6 DEF try_encode, Insert
  <2>2. /\ v \in Nat /\ v <= v /\ last <= v /\ Len(e) < Size
        /\ \A i \in 1 .. Len(e) : e[i][2] # v
    BY <1>0, <1>6
  <2> HIDE DEF v, r
  <2>3. /\ GoodLru(r.cache, v)
        /\ \A d : MirrorLru(d, e) => MirrorLru(LruPush(d, v, field), r.cache)
    BY <1>6, <2>1, <2>2, LruPushed
  <2>4. ASSUME NEW d, MirrorLru(d, e)
        PROVE  /\ Decodes(d, r.message, field) /\ MirrorLru(decode(d, last, r.message).cache, r.cache)
               /\ decode(d, last, r.message).encoding = v
    <3>1. decode(d, last, r.message) = [cache |-> LruPush(d, v, field), encoding |-> v]
      BY <1>3, <1>6, <2>1, <2>4 DEF decode, Insert, v
    <3>2. Decodes(d, r.message, field)
      BY <2>1 DEF Decodes
    <3> QED
      BY <2>3, <2>4, <3>1, <3>2
  <2>5. r.message \in Messages
    BY <2>1 DEF Messages
  <2> QED
    BY <2>1, <2>3, <2>4, <2>5 DEF Carries, Good, Mirror, r
<1> QED
  BY <1>4, <1>5, <1>6

\* The same for LFUniCache.
LEMMA LfuStep ==
  ASSUME policy = "LFU", NEW e, NEW last, GoodLfu(e, last), NEW field \in Fields
  PROVE  Carries(e, last, field)
<1> DEFINE r == try_encode(e, last, field)
<1>0. /\ SoundLfu(e, last) /\ Size \in Nat /\ Size > 0 /\ last \in Nat
      /\ IsFiniteSet(Held(e)) /\ Cardinality(Held(e)) <= Size
      /\ \A k \in Held(e) : e.values[k] \in Nat /\ e.values[k] <= last
  BY UniCacheAssumption DEF GoodLfu, SoundLfu
<1>1. Cardinality(Held(e)) \in Nat
  BY <1>0, FS_CardinalityType
<1>2. \A c : Keys(c) = Held(c)
  BY DEF Keys, Held
<1>3. IsFull(e) <=> Cardinality(Held(e)) = Size
  BY <1>2 DEF IsFull
<1>4. ASSUME NEW d, MirrorLfu(d, e) PROVE IsFull(d) <=> Cardinality(Held(e)) = Size
  BY <1>0, <1>2, <1>4, LfuLength DEF IsFull, Held
<1>5. CASE field \in Held(e)
  <2> DEFINE v == e.values[field]
  <2>1. r.message = <<"Encoded", v>> /\ r.cache = update_frequency_bin(e, field) /\ r.encoding = last
    BY <1>2, <1>5 DEF try_encode, Value, Get
  <2>2. v \in Nat
    BY <1>0, <1>5
  <2>3. /\ GoodLfu(r.cache, last)
        /\ \A d : MirrorLfu(d, e) =>
             /\ v \in Held(d) /\ d.values[v] = field
             /\ MirrorLfu(update_frequency_bin(d, v), r.cache)
    BY <1>5, <2>1, LfuHit DEF Held
  <2> HIDE DEF v, r
  <2>4. ASSUME NEW d, MirrorLfu(d, e)
        PROVE  /\ Decodes(d, r.message, field) /\ MirrorLfu(decode(d, last, r.message).cache, r.cache)
               /\ decode(d, last, r.message).encoding = last
    <3>1. decode(d, last, r.message) = [cache |-> update_frequency_bin(d, v), encoding |-> last]
      BY <2>1 DEF decode, Get
    <3>2. Decodes(d, r.message, field)
      BY <1>2, <2>1, <2>3, <2>4 DEF Decodes, Value
    <3> QED
      BY <2>3, <2>4, <3>1, <3>2
  <2>5. r.message \in Messages
    BY <2>1, <2>2 DEF Messages
  <2> QED
    BY <2>1, <2>3, <2>4, <2>5 DEF Carries, Good, Mirror, r
<1>6. CASE field \notin Held(e) /\ Cardinality(Held(e)) = Size
  <2> DEFINE x == LfuEvict(e).rest
             v == LfuEvict(e).entry[2]
  <2>1. r.message = <<"NotEncoded", field>> /\ r.cache = LfuSet(x, field, v) /\ r.encoding = last
    BY <1>2, <1>3, <1>6 DEF try_encode, Evict, Insert
  <2>2. Held(e) # {}
    BY <1>0, <1>6, FS_EmptySet
  <2>3. /\ SoundLfu(x, last) /\ Cardinality(Held(x)) = Cardinality(Held(e)) - 1 /\ Held(x) \subseteq Held(e)
        /\ v \in Nat /\ v <= last /\ \A k \in Held(x) : x.values[k] # v
        /\ \A d : MirrorLfu(d, e) => LfuEvict(d).entry[1] = v /\ MirrorLfu(LfuEvict(d).rest, x)
    BY <2>2, LfuEvicted
  <2>4. Cardinality(Held(x)) < Size /\ field \notin Held(x) /\ last <= last
    BY <1>0, <1>1, <1>6, <2>3
  <2> HIDE DEF v, x, r
  <2>5. /\ GoodLfu(r.cache, last)
        /\ \A d : MirrorLfu(d, x) => MirrorLfu(LfuSet(d, v, field), r.cache)
    BY <1>0, <2>1, <2>3, <2>4, LfuAdded
  <2>6. ASSUME NEW d, MirrorLfu(d, e)
        PROVE  /\ Decodes(d, r.message, field) /\ MirrorLfu(decode(d, last, r.message).cache, r.cache)
               /\ decode(d, last, r.message).encoding = last
    <3>1. decode(d, last, r.message) = [cache |-> LfuSet(LfuEvict(d).rest, LfuEvict(d).entry[1], field), encoding |-> last]
      BY <1>4, <1>6, <2>1, <2>6 DEF decode, Evict, Insert
    <3>2. Decodes(d, r.message, field)
      BY <2>1 DEF Decodes
    <3> QED
      BY <2>3, <2>5, <2>6, <3>1, <3>2
  <2>7. r.message \in Messages
    BY <2>1 DEF Messages
  <2> QED
    BY <2>1, <2>5, <2>6, <2>7 DEF Carries, Good, Mirror, r
<1>7. CASE field \notin Held(e) /\ Cardinality(Held(e)) # Size
  <2> DEFINE v == last + 1
  <2>1. r.message = <<"NotEncoded", field>> /\ r.cache = LfuSet(e, field, v) /\ r.encoding = v
    BY <1>2, <1>3, <1>7 DEF try_encode, Insert
  <2>2. /\ v \in Nat /\ v <= v /\ last <= v /\ Cardinality(Held(e)) < Size
        /\ \A k \in Held(e) : e.values[k] # v
    BY <1>0, <1>1, <1>7
  <2> HIDE DEF v, r
  <2>3. /\ GoodLfu(r.cache, v)
        /\ \A d : MirrorLfu(d, e) => MirrorLfu(LfuSet(d, v, field), r.cache)
    BY <1>0, <1>7, <2>1, <2>2, LfuAdded
  <2>4. ASSUME NEW d, MirrorLfu(d, e)
        PROVE  /\ Decodes(d, r.message, field) /\ MirrorLfu(decode(d, last, r.message).cache, r.cache)
               /\ decode(d, last, r.message).encoding = v
    <3>1. decode(d, last, r.message) = [cache |-> LfuSet(d, v, field), encoding |-> v]
      BY <1>4, <1>7, <2>1, <2>4 DEF decode, Insert, v
    <3>2. Decodes(d, r.message, field)
      BY <2>1 DEF Decodes
    <3> QED
      BY <2>3, <2>4, <3>1, <3>2
  <2>5. r.message \in Messages
    BY <2>1 DEF Messages
  <2> QED
    BY <2>1, <2>3, <2>4, <2>5 DEF Carries, Good, Mirror, r
<1> QED
  BY <1>5, <1>6, <1>7

\* Whatever the policy.
LEMMA OneStep ==
  ASSUME policy \in Policies, NEW e, NEW last, Good(e, last), NEW field \in Fields
  PROVE  Carries(e, last, field)
  BY LruStep, LfuStep DEF Policies, Good

-----------------------------------------------------------------------------
(* The followers.                                                          *)

\* A message m takes the encoder from state a to state b.
Sent(a, m, b) ==
  /\ m[1] \in Fields
  /\ m[2] = try_encode(a.cache, a.last, m[1]).message
  /\ b = [cache |-> try_encode(a.cache, a.last, m[1]).cache,
          last  |-> try_encode(a.cache, a.last, m[1]).encoding]

\* The states of the encoder that a follower has still to go through: h[0]
\* is where its decoder stands, and its last message leads to the present.
Replay(f, h) ==
  /\ \A i \in 0 .. Len(inbox[f]) : Good(h[i].cache, h[i].last)
  /\ Mirror(decoder[f], h[0].cache) /\ encoding[f] = h[0].last
  /\ \A i \in 1 .. Len(inbox[f]) : Sent(h[i - 1], inbox[f][i], h[i])
  /\ h[Len(inbox[f])] = [cache |-> encoder, last |-> encoding["leader"]]

\* Types, and an empty inbox for whoever has no cache.
FollowerTypes ==
  /\ policy \in Policies /\ joined \subseteq Followers /\ Veterans \subseteq joined
  /\ garbled \subseteq joined
  /\ DOMAIN decoder = Followers /\ DOMAIN encoding = Followers \cup {"leader"}
  /\ inbox \in [Followers -> Seq(Fields \X Messages)]
  /\ \A f \in Followers \ joined : inbox[f] = <<>>

ReplayInv ==
  /\ FollowerTypes
  /\ Good(encoder, encoding["leader"])
  /\ \A f \in Aligned : f \notin garbled /\ \E h : Replay(f, h)

\* The policy is that of the deployment.
LEMMA PolicyFixed ==
  ASSUME policy' = policy
  PROVE  /\ \A a, m, b : Sent(a, m, b)' <=> Sent(a, m, b)
         /\ \A c, last : Good(c, last)' <=> Good(c, last)
         /\ \A d, e : Mirror(d, e)' <=> Mirror(d, e)
<1>1. \A c : Keys(c)' = Keys(c) /\ Evict(c)' = Evict(c) /\ (IsFull(c)' <=> IsFull(c))
  BY DEF Keys, Evict, IsFull
<1>2. \A c, k : Value(c, k)' = Value(c, k) /\ Get(c, k)' = Get(c, k)
  BY DEF Value, Get
<1>3. \A c, k, v : Insert(c, k, v)' = Insert(c, k, v)
  BY DEF Insert
<1>4. \A c, last, x : try_encode(c, last, x)' = try_encode(c, last, x)
  BY <1>1, <1>2, <1>3 DEF try_encode
<1>5. \A a, m, b : Sent(a, m, b)' <=> Sent(a, m, b)
  BY <1>4 DEF Sent
<1> QED
  BY <1>5 DEF Good, Mirror

\* A follower whose own state and whose leader do not change.
LEMMA ReplayKept ==
  ASSUME NEW f, NEW h, Replay(f, h), policy' = policy, encoder' = encoder,
         encoding'["leader"] = encoding["leader"], encoding'[f] = encoding[f],
         decoder'[f] = decoder[f], inbox'[f] = inbox[f]
  PROVE  Replay(f, h)'
  BY PolicyFixed DEF Replay

\* The leader encodes a field.
LEMMA EncodeKeeps ==
  ASSUME ReplayInv, NEW field \in Fields, Encode(field)
  PROVE  ReplayInv'
<1> DEFINE r == try_encode(encoder, encoding["leader"], field)
           m == <<field, r.message>>
           now == [cache |-> r.cache, last |-> r.encoding]
<1>1. /\ encoder' = r.cache /\ encoding' = [encoding EXCEPT !["leader"] = r.encoding]
      /\ inbox' = [f \in Followers |-> IF f \in joined THEN Append(inbox[f], m) ELSE inbox[f]]
      /\ policy' = policy /\ decoder' = decoder /\ joined' = joined /\ garbled' = garbled
  BY DEF Encode
<1>2. /\ policy \in Policies /\ joined \subseteq Followers /\ Veterans \subseteq joined
      /\ garbled \subseteq joined
      /\ DOMAIN decoder = Followers /\ DOMAIN encoding = Followers \cup {"leader"}
      /\ inbox \in [Followers -> Seq(Fields \X Messages)]
      /\ \A f \in Followers \ joined : inbox[f] = <<>>
      /\ Good(encoder, encoding["leader"])
  BY DEF ReplayInv, FollowerTypes
<1>3. Carries(encoder, encoding["leader"], field)
  BY <1>2, OneStep
<1>4. r.message \in Messages /\ Good(r.cache, r.encoding)
  BY <1>3 DEF Carries
<1> HIDE DEF r
<1>5. /\ encoding'["leader"] = r.encoding /\ DOMAIN encoding' = DOMAIN encoding
      /\ \A f \in Followers : encoding'[f] = encoding[f]
  <2>1. "leader" \notin Followers
    BY UniCacheAssumption DEF Followers
  <2> QED
    BY <1>1, <1>2, <2>1
<1>6. Good(encoder, encoding["leader"])'
  BY <1>1, <1>4, <1>5 DEF Good
<1>7. m \in Fields \X Messages
  BY <1>4
<1> DEFINE M == Fields \X Messages
<1>8. ASSUME NEW f \in joined
      PROVE  /\ inbox[f] \in Seq(M) /\ Len(inbox[f]) \in Nat
             /\ inbox'[f] \in Seq(M) /\ Len(inbox'[f]) = Len(inbox[f]) + 1
             /\ inbox'[f][Len(inbox[f]) + 1] = m
             /\ \A i \in 1 .. Len(inbox[f]) : inbox'[f][i] = inbox[f][i]
  <2>1. inbox[f] \in Seq(M) /\ inbox'[f] = Append(inbox[f], m) /\ m \in M
    BY <1>1, <1>2, <1>7
  <2> HIDE DEF M, m
  <2> QED
    BY <2>1
<1>9. FollowerTypes'
  <2>1. \A f \in Followers : inbox'[f] \in Seq(M)
    BY <1>1, <1>2, <1>8
  <2>2. inbox' \in [Followers -> Seq(M)]
    <3> HIDE DEF M, m
    <3>1. inbox' = [f \in Followers |-> inbox'[f]]
      BY <1>1
    <3> QED
      BY <2>1, <3>1
  <2>3. \A f \in Followers \ joined : inbox'[f] = <<>>
    BY <1>1, <1>2
  <2> QED
    BY <1>1, <1>2, <1>5, <2>2, <2>3 DEF FollowerTypes
<1>10. ASSUME NEW f \in Aligned PROVE f \notin garbled /\ f \in joined /\ \E h : Replay(f, h)'
  <2>1. f \in joined /\ f \in Followers /\ f \notin garbled
    BY <1>2 DEF Aligned, ReplayInv
  <2>2. PICK h : Replay(f, h)
    BY DEF ReplayInv
  <2> DEFINE n == Len(inbox[f])
             g == [i \in 0 .. n + 1 |-> IF i = n + 1 THEN now ELSE h[i]]
  <2>3. /\ \A i \in 0 .. n : Good(h[i].cache, h[i].last)
        /\ Mirror(decoder[f], h[0].cache) /\ encoding[f] = h[0].last
        /\ \A i \in 1 .. n : Sent(h[i - 1], inbox[f][i], h[i])
        /\ h[n] = [cache |-> encoder, last |-> encoding["leader"]]
    BY <2>2 DEF Replay
  <2>4. n \in Nat /\ Len(inbox'[f]) = n + 1 /\ inbox'[f][n + 1] = m /\ \A i \in 1 .. n : inbox'[f][i] = inbox[f][i]
    BY <1>8, <2>1
  <2> HIDE DEF n
  <2>5. /\ g[n + 1] = now /\ \A i \in 0 .. n : g[i] = h[i]
        /\ \A i \in 1 .. n : g[i] = h[i] /\ g[i - 1] = h[i - 1]
        /\ n + 1 - 1 = n /\ n \in 0 .. n /\ 0 \in 0 .. n
    BY <2>4
  <2> HIDE DEF g, m, now
  <2>6. Sent(g[n + 1 - 1], m, g[n + 1])
    <3>1. g[n + 1 - 1] = [cache |-> encoder, last |-> encoding["leader"]]
      BY <2>3, <2>5
    <3> QED
      BY <2>5, <3>1 DEF Sent, m, now, r
  <2>7. \A i \in 1 .. n + 1 : Sent(g[i - 1], inbox'[f][i], g[i])
    <3>1. \A i \in 1 .. n + 1 : i = n + 1 \/ i \in 1 .. n
      BY <2>4
    <3> QED
      BY <2>3, <2>4, <2>5, <2>6, <3>1
  <2>8. \A i \in 0 .. n + 1 : Good(g[i].cache, g[i].last)
    <3>1. \A i \in 0 .. n + 1 : i = n + 1 \/ i \in 0 .. n
      BY <2>4
    <3> QED
      BY <1>4, <2>3, <2>5, <3>1 DEF now
  <2>9. g[n + 1] = [cache |-> encoder', last |-> encoding'["leader"]]
    BY <1>1, <1>5, <2>5 DEF now
  <2>10. Mirror(decoder'[f], g[0].cache) /\ encoding'[f] = g[0].last
    BY <1>1, <1>5, <2>1, <2>3, <2>5
  <2>11. PICK w : w = g
    OBVIOUS
  <2>12. Replay(f, w)'
    BY <1>1, <2>4, <2>7, <2>8, <2>9, <2>10, <2>11, PolicyFixed DEF Replay
  <2> QED
    BY <2>1, <2>12
<1>11. Aligned' = Aligned
  BY <1>1 DEF Aligned
<1> QED
  BY <1>1, <1>6, <1>9, <1>10, <1>11 DEF ReplayInv

\* A follower decodes its oldest message.
LEMMA DecodeKeeps ==
  ASSUME ReplayInv, NEW f \in Followers, Decode(f)
  PROVE  ReplayInv'
<1> DEFINE M == Fields \X Messages
           field == Head(inbox[f])[1]
           message == Head(inbox[f])[2]
           result == decode(decoder[f], encoding[f], message)
<1>1. /\ inbox[f] # <<>> /\ inbox' = [inbox EXCEPT ![f] = Tail(@)]
      /\ policy' = policy /\ encoder' = encoder /\ joined' = joined
      /\ IF Decodes(decoder[f], message, field)
         THEN /\ decoder' = [decoder EXCEPT ![f] = result.cache]
              /\ encoding' = [encoding EXCEPT ![f] = result.encoding]
              /\ garbled' = garbled
         ELSE garbled' = garbled \cup {f} /\ decoder' = decoder /\ encoding' = encoding
  BY DEF Decode
<1>2. /\ policy \in Policies /\ joined \subseteq Followers /\ Veterans \subseteq joined
      /\ garbled \subseteq joined
      /\ DOMAIN decoder = Followers /\ DOMAIN encoding = Followers \cup {"leader"}
      /\ inbox \in [Followers -> Seq(M)]
      /\ \A x \in Followers \ joined : inbox[x] = <<>>
      /\ Good(encoder, encoding["leader"])
  BY DEF ReplayInv, FollowerTypes
<1>3. "leader" \notin Followers
  BY UniCacheAssumption DEF Followers
<1> HIDE DEF M, result
<1>4. /\ inbox[f] \in Seq(M) /\ Len(inbox[f]) \in Nat /\ Len(inbox[f]) > 0
      /\ inbox'[f] = Tail(inbox[f]) /\ Tail(inbox[f]) \in Seq(M)
      /\ Len(Tail(inbox[f])) = Len(inbox[f]) - 1 /\ Head(inbox[f]) = inbox[f][1]
      /\ \A i \in 1 .. Len(inbox[f]) - 1 : Tail(inbox[f])[i] = inbox[f][i + 1]
  <2>1. inbox[f] \in Seq(M) /\ inbox'[f] = Tail(inbox[f])
    BY <1>1, <1>2
  <2> QED
    BY <1>1, <2>1
<1>5. /\ DOMAIN decoder' = Followers /\ DOMAIN encoding' = Followers \cup {"leader"}
      /\ encoding'["leader"] = encoding["leader"]
      /\ \A x \in Followers : x # f => /\ decoder'[x] = decoder[x] /\ encoding'[x] = encoding[x]
                                       /\ inbox'[x] = inbox[x]
      /\ \A x \in Followers : x # f => (x \in garbled' <=> x \in garbled)
  BY <1>1, <1>2, <1>3
<1>6. FollowerTypes'
  <2>1. f \in joined
    BY <1>1, <1>2
  <2>2. \A x \in Followers : inbox'[x] \in Seq(M)
    BY <1>2, <1>4, <1>5
  <2>3. inbox' \in [Followers -> Seq(M)]
    <3>1. inbox' = [x \in Followers |-> inbox'[x]]
      BY <1>1, <1>2
    <3> QED
      BY <2>2, <3>1
  <2>4. \A x \in Followers \ joined : inbox'[x] = <<>>
    BY <1>2, <1>5, <2>1
  <2>5. garbled' \subseteq joined
    BY <1>1, <1>2, <2>1
  <2> QED
    BY <1>1, <1>2, <1>5, <2>3, <2>4, <2>5 DEF FollowerTypes, M
<1>7. Aligned' = Aligned
  BY <1>1 DEF Aligned
<1>8. ASSUME NEW x \in Aligned, x # f PROVE x \notin garbled' /\ \E h : Replay(x, h)'
  <2>1. PICK h : Replay(x, h)
    BY <1>8 DEF ReplayInv
  <2>2. x \in Followers /\ x \notin garbled
    BY <1>2, <1>8 DEF Aligned, ReplayInv
  <2>3. Replay(x, h)'
    BY <1>1, <1>5, <1>8, <2>1, <2>2, ReplayKept
  <2> QED
    BY <1>5, <1>8, <2>2, <2>3
<1>9. ASSUME f \in Aligned PROVE f \notin garbled' /\ \E h : Replay(f, h)'
  <2>1. PICK h : Replay(f, h)
    BY <1>9 DEF ReplayInv
  <2> DEFINE n == Len(inbox[f])
             g == [i \in 0 .. n - 1 |-> h[i + 1]]
  <2>2. /\ \A i \in 0 .. n : Good(h[i].cache, h[i].last)
        /\ Mirror(decoder[f], h[0].cache) /\ encoding[f] = h[0].last
        /\ \A i \in 1 .. n : Sent(h[i - 1], inbox[f][i], h[i])
        /\ h[n] = [cache |-> encoder, last |-> encoding["leader"]]
    BY <2>1 DEF Replay
  <2>3. n \in Nat /\ n > 0
    BY <1>4
  <2> HIDE DEF n
  <2>4. /\ \A i \in 0 .. n - 1 : g[i] = h[i + 1] /\ i + 1 \in 0 .. n
        /\ \A i \in 1 .. n - 1 : /\ g[i] = h[i + 1] /\ g[i - 1] = h[i] /\ i + 1 - 1 = i
                                 /\ i + 1 \in 1 .. n
        /\ 0 \in 0 .. n /\ 1 \in 1 .. n /\ 1 - 1 = 0 /\ g[0] = h[1] /\ g[n - 1] = h[n]
    BY <2>3
  <2> HIDE DEF g
  <2>5. Sent(h[0], inbox[f][1], h[1]) /\ Good(h[0].cache, h[0].last)
    BY <2>2, <2>4
  <2>6. /\ field \in Fields /\ message = try_encode(h[0].cache, h[0].last, field).message
        /\ h[1] = [cache |-> try_encode(h[0].cache, h[0].last, field).cache,
                   last  |-> try_encode(h[0].cache, h[0].last, field).encoding]
    BY <1>4, <2>5 DEF Sent
  <2> HIDE DEF field, message
  <2>7. Carries(h[0].cache, h[0].last, field)
    BY <1>2, <2>5, <2>6, OneStep
  <2>8. /\ Decodes(decoder[f], message, field) /\ Mirror(result.cache, h[1].cache)
        /\ result.encoding = h[1].last
    BY <2>2, <2>6, <2>7 DEF Carries, result
  <2>9. decoder'[f] = result.cache /\ encoding'[f] = result.encoding /\ garbled' = garbled
    BY <1>1, <1>2, <2>8
  <2>10. Len(inbox'[f]) = n - 1 /\ \A i \in 1 .. n - 1 : inbox'[f][i] = inbox[f][i + 1]
    BY <1>4 DEF n
  <2>11. \A i \in 0 .. n - 1 : Good(g[i].cache, g[i].last)
    BY <2>2, <2>4
  <2>12. \A i \in 1 .. n - 1 : Sent(g[i - 1], inbox'[f][i], g[i])
    BY <2>2, <2>4, <2>10
  <2>13. Mirror(decoder'[f], g[0].cache) /\ encoding'[f] = g[0].last
    BY <2>4, <2>8, <2>9
  <2>14. g[n - 1] = [cache |-> encoder', last |-> encoding'["leader"]]
    BY <1>1, <1>5, <2>2, <2>4
  <2>15. PICK w : w = g
    OBVIOUS
  <2>16. Replay(f, w)'
    BY <1>1, <2>10, <2>11, <2>12, <2>13, <2>14, <2>15, PolicyFixed DEF Replay
  <2>17. f \notin garbled
    BY <1>9 DEF ReplayInv
  <2> QED
    BY <2>9, <2>16, <2>17
<1>10. Good(encoder, encoding["leader"])'
  BY <1>1, <1>2, <1>5 DEF Good
<1> QED
  BY <1>6, <1>7, <1>8, <1>9, <1>10 DEF ReplayInv

\* A follower joins with a clone.
LEMMA JoinKeeps ==
  ASSUME ReplayInv, NEW f \in Joiners, Join(f)
  PROVE  ReplayInv'
<1>1. /\ f \notin joined /\ joined' = joined \cup {f}
      /\ encoding' = [encoding EXCEPT ![f] = encoding["leader"]]
      /\ policy' = policy /\ encoder' = encoder /\ inbox' = inbox /\ garbled' = garbled
  BY DEF Join
<1>2. PICK c \in Clones : decoder' = [decoder EXCEPT ![f] = c]
  BY DEF Join
<1>3. /\ policy \in Policies /\ joined \subseteq Followers /\ Veterans \subseteq joined
      /\ garbled \subseteq joined
      /\ DOMAIN decoder = Followers /\ DOMAIN encoding = Followers \cup {"leader"}
      /\ inbox \in [Followers -> Seq(Fields \X Messages)]
      /\ \A x \in Followers \ joined : inbox[x] = <<>>
      /\ Good(encoder, encoding["leader"])
  BY DEF ReplayInv, FollowerTypes
<1>4. f \in Followers /\ f # "leader" /\ f \notin Veterans
  BY UniCacheAssumption DEF Followers
<1>5. /\ DOMAIN decoder' = Followers /\ DOMAIN encoding' = Followers \cup {"leader"}
      /\ encoding'["leader"] = encoding["leader"]
      /\ decoder'[f] = c /\ encoding'[f] = encoding["leader"]
      /\ \A x \in Followers : x # f => decoder'[x] = decoder[x] /\ encoding'[x] = encoding[x]
  BY <1>1, <1>2, <1>3, <1>4
<1>6. FollowerTypes'
  BY <1>1, <1>3, <1>4, <1>5 DEF FollowerTypes
<1>7. Good(encoder, encoding["leader"])'
  BY <1>1, <1>3, <1>5 DEF Good
<1>8. ASSUME NEW x \in Aligned', x # f PROVE x \notin garbled' /\ \E h : Replay(x, h)'
  <2>1. x \in Aligned
    BY <1>1, <1>8 DEF Aligned
  <2>2. PICK h : Replay(x, h)
    BY <2>1 DEF ReplayInv
  <2>3. x \in Followers /\ x \notin garbled
    BY <1>3, <2>1 DEF Aligned, ReplayInv
  <2>4. Replay(x, h)'
    BY <1>1, <1>5, <1>8, <2>2, <2>3, ReplayKept
  <2> QED
    BY <1>1, <2>3, <2>4
<1>9. ASSUME f \in Aligned' PROVE \E h : Replay(f, h)'
  <2>1. policy = "LRU"
    BY <1>1, <1>4, <1>9 DEF Aligned
  <2>2. c = LruClone
    BY <2>1 DEF Clones
  <2>3. MirrorLru(decoder'[f], encoder)
    BY <1>5, <2>2 DEF MirrorLru, LruClone
  <2>4. inbox'[f] = <<>> /\ Len(inbox'[f]) = 0
    BY <1>1, <1>3, <1>4
  <2>5. PICK w : w = [i \in {0} |-> [cache |-> encoder, last |-> encoding["leader"]]]
    OBVIOUS
  <2>6. w[0] = [cache |-> encoder, last |-> encoding["leader"]]
    BY <2>5
  <2>7. \A i \in 0 .. 0 : i = 0
    OBVIOUS
  <2>8. Good(w[0].cache, w[0].last)'
    BY <1>1, <1>3, <2>6, PolicyFixed
  <2>9. Mirror(decoder[f], w[0].cache)'
    BY <1>1, <2>1, <2>3, <2>6 DEF Mirror
  <2>10. encoding'[f] = w[0].last /\ w[0] = [cache |-> encoder', last |-> encoding'["leader"]]
    BY <1>1, <1>5, <2>6
  <2>11. \A i \in 1 .. 0 : FALSE
    OBVIOUS
  <2>12. Replay(f, w)'
    BY <2>4, <2>7, <2>8, <2>9, <2>10, <2>11 DEF Replay
  <2> QED
    BY <2>12
<1>10. f \notin garbled'
  BY <1>1, <1>3
<1> QED
  BY <1>6, <1>7, <1>8, <1>9, <1>10 DEF ReplayInv

\* What the followers have still to go through leads to the encoder of now,
\* in every state.
LEMMA ReplayAlways == Spec => []ReplayInv
<1>1. Init => ReplayInv
  <2> SUFFICES ASSUME Init PROVE ReplayInv
    OBVIOUS
  <2>0. "leader" \notin Followers /\ Veterans \subseteq Followers
    BY UniCacheAssumption DEF Followers
  <2>1. /\ policy \in Policies /\ encoder = New /\ joined = Veterans /\ garbled = {}
        /\ encoding = [n \in Followers \cup {"leader"} |-> 0]
        /\ decoder = [f \in Followers |-> New] /\ inbox = [f \in Followers |-> <<>>]
    BY DEF Init
  <2>2. /\ encoding["leader"] = 0
        /\ \A f \in Followers : encoding[f] = 0 /\ decoder[f] = New /\ inbox[f] = <<>> /\ Len(inbox[f]) = 0
    BY <2>1
  <2>3. FollowerTypes
    BY <2>0, <2>1 DEF FollowerTypes
  <2>4. ASSUME policy = "LRU" PROVE Good(New, 0) /\ Mirror(New, New)
    <3>1. New = <<>>
      BY <2>4 DEF New
    <3>2. <<>> \in Seq(Fields \X Nat) /\ Len(<<>>) = 0 /\ 0 <= Size /\ \A i \in 1 .. 0 : FALSE
      BY UniCacheAssumption
    <3>3. LruOver(Fields, Nat, <<>>)
      BY <3>2 DEF LruOver
    <3>4. GoodLru(<<>>, 0)
      BY <3>2, <3>3 DEF GoodLru
    <3>5. MirrorLru(<<>>, <<>>)
      BY DEF MirrorLru
    <3> QED
      BY <2>4, <3>1, <3>4, <3>5 DEF Good, Mirror
  <2>5. ASSUME policy = "LFU" PROVE Good(New, 0) /\ Mirror(New, New)
    <3> DEFINE e == New
    <3>1. e.values = <<>> /\ e.count = <<>> /\ e.bin = <<>> /\ e.min_frequency = 0
      BY <2>5 DEF New, LfuNew
    <3> HIDE DEF e
    <3>2. DOMAIN e.values = {} /\ DOMAIN e.count = {} /\ DOMAIN e.bin = {} /\ Held(e) = {}
      BY <3>1 DEF Held
    <3>3. \A n \in Nat : Bin(e, n) = <<>>
      BY <3>2 DEF Bin
    <3>4. Len(<<>>) = 0 /\ \A i \in 1 .. 0 : FALSE
      OBVIOUS
    <3>5. <<>> \in Seq(Fields) /\ Distinct(<<>>) /\ \A k : ~In(<<>>, k)
      BY <3>4 DEF Distinct, In
    <3>6. IsFiniteSet({}) /\ Cardinality({}) = 0 /\ 0 <= Size
      BY FS_EmptySet, UniCacheAssumption
    <3>7. e.values \in [{} -> Nat] /\ e.count \in [{} -> Nat \ {0}]
      BY <3>1
    <3>8. SoundLfu(e, 0)
      BY <3>2, <3>3, <3>5, <3>6, <3>7 DEF SoundLfu
    <3>9. LeastThere(e)
      BY <3>1, <3>2 DEF LeastThere
    <3>10. Coded(e.values, <<>>) = <<>>
      BY <3>4 DEF Coded
    <3>11. MirrorLfu(e, e)
      BY <3>2, <3>3, <3>10 DEF MirrorLfu
    <3> QED
      BY <2>5, <3>8, <3>9, <3>11 DEF Good, Mirror, GoodLfu, e
  <2>6. Good(New, 0) /\ Mirror(New, New)
    BY <2>1, <2>4, <2>5 DEF Policies
  <2>7. ASSUME NEW f \in Aligned PROVE f \notin garbled /\ \E h : Replay(f, h)
    <3>1. f \in Followers
      BY <2>0, <2>1 DEF Aligned
    <3> DEFINE w == [i \in {0} |-> [cache |-> New, last |-> 0]]
    <3>2. w[0] = [cache |-> New, last |-> 0]
      OBVIOUS
    <3>3. (\A i \in 0 .. 0 : i = 0) /\ (\A i \in 1 .. 0 : FALSE)
      OBVIOUS
    <3> HIDE DEF w
    <3>4. Replay(f, w)
      BY <2>1, <2>2, <2>6, <3>1, <3>2, <3>3 DEF Replay
    <3> QED
      BY <2>1, <3>4
  <2> QED
    BY <2>1, <2>2, <2>3, <2>6, <2>7 DEF ReplayInv
<1>2. ReplayInv /\ [Next]_vars => ReplayInv'
  <2> SUFFICES ASSUME ReplayInv, [Next]_vars PROVE ReplayInv'
    OBVIOUS
  <2>1. CASE UNCHANGED vars
    <3>1. /\ UNCHANGED <<policy, encoder, encoding, decoder, inbox, joined, garbled>>
      BY <2>1 DEF vars
    <3>2. Aligned' = Aligned /\ (FollowerTypes <=> FollowerTypes')
      BY <3>1 DEF Aligned, FollowerTypes
    <3>3. \A f, h : Replay(f, h) => Replay(f, h)'
      BY <3>1, ReplayKept
    <3>4. Good(encoder, encoding["leader"])' <=> Good(encoder, encoding["leader"])
      BY <3>1 DEF Good
    <3> QED
      BY <3>1, <3>2, <3>3, <3>4 DEF ReplayInv
  <2> QED
    BY <2>1, EncodeKeeps, DecodeKeeps, JoinKeeps DEF Next
<1> QED
  BY <1>1, <1>2, PTL DEF Spec

\* DecodesExactly, for any number of fields and followers and any capacity:
\* however late a follower is and whatever was evicted meanwhile, try_encode
\* and decode agree on every code.
THEOREM CodesTurnBack == Spec => []DecodesExactly
<1>1. ReplayInv => DecodesExactly
  BY DEF ReplayInv, DecodesExactly
<1> QED
  BY <1>1, ReplayAlways, PTL

\* DecoderMirrorsEncoder: a follower that has decoded everything will evict
\* the same pair as the leader (pop_lru, evict_and_return_key and
\* evict_and_return_value).
THEOREM CachesMirror == Spec => []DecoderMirrorsEncoder
<1>1. ReplayInv => DecoderMirrorsEncoder
  <2> SUFFICES ASSUME ReplayInv, NEW f \in Aligned, inbox[f] = <<>>
               PROVE  /\ encoding[f] = encoding["leader"]
                      /\ IF policy = "LRU"
                         THEN decoder[f] = [i \in DOMAIN encoder |-> <<encoder[i][2], encoder[i][1]>>]
                         ELSE /\ decoder[f].min_frequency = encoder.min_frequency
                              /\ \A k \in DOMAIN encoder.values :
                                   LET code == encoder.values[k]
                                   IN /\ code \in DOMAIN decoder[f].values
                                      /\ decoder[f].values[code] = k
                                      /\ decoder[f].count[code] = encoder.count[k]
                              /\ \A n \in DOMAIN encoder.bin :
                                   decoder[f].bin[n] = [i \in DOMAIN encoder.bin[n] |->
                                                          encoder.values[encoder.bin[n][i]]]
    BY DEF DecoderMirrorsEncoder
  <2>1. PICK h : Replay(f, h)
    BY DEF ReplayInv
  <2>2. Len(inbox[f]) = 0
    OBVIOUS
  <2>3. /\ Mirror(decoder[f], encoder) /\ encoding[f] = encoding["leader"]
        /\ Good(encoder, encoding["leader"]) /\ policy \in Policies
    BY <2>1, <2>2 DEF Replay, ReplayInv, FollowerTypes
  <2>4. CASE policy = "LRU"
    BY <2>3, <2>4 DEF Mirror, MirrorLru
  <2>5. CASE policy # "LRU"
    <3>1. MirrorLfu(decoder[f], encoder) /\ SoundLfu(encoder, encoding["leader"])
      BY <2>3, <2>5 DEF Mirror, Good, GoodLfu
    <3>2. ASSUME NEW n \in DOMAIN encoder.bin
          PROVE  decoder[f].bin[n] = [i \in DOMAIN encoder.bin[n] |-> encoder.values[encoder.bin[n][i]]]
      <4>1. n \in Nat /\ n \in DOMAIN decoder[f].bin
        BY <3>1 DEF SoundLfu, MirrorLfu
      <4>2. Bin(decoder[f], n) = decoder[f].bin[n] /\ Bin(encoder, n) = encoder.bin[n]
        BY <4>1 DEF Bin
      <4>3. decoder[f].bin[n] = Coded(encoder.values, encoder.bin[n]) /\ encoder.bin[n] \in Seq(Fields)
        BY <3>1, <4>1, <4>2 DEF MirrorLfu, SoundLfu
      <4>4. DOMAIN encoder.bin[n] = 1 .. Len(encoder.bin[n])
        BY <4>3
      <4> QED
        BY <4>3, <4>4 DEF Coded
    <3>3. ASSUME NEW k \in DOMAIN encoder.values
          PROVE  /\ encoder.values[k] \in DOMAIN decoder[f].values
                 /\ decoder[f].values[encoder.values[k]] = k
                 /\ decoder[f].count[encoder.values[k]] = encoder.count[k]
      BY <3>1 DEF MirrorLfu, Held
    <3>4. decoder[f].min_frequency = encoder.min_frequency
      BY <3>1 DEF MirrorLfu
    <3> QED
      BY <2>3, <2>5, <3>2, <3>3, <3>4
  <2> QED
    BY <2>4, <2>5
<1> QED
  BY <1>1, ReplayAlways, PTL

\* EvictsLeastFrequent: the unwrap() and pop_front() of the LFUCache never
\* fail, although update_frequency_bin and set only guess the least frequency.
THEOREM LeastFrequencyExact == Spec => []EvictsLeastFrequent
<1>1. ReplayInv => EvictsLeastFrequent
  <2> SUFFICES ASSUME ReplayInv, policy = "LFU" PROVE EvictsLeastFrequent
    BY DEF EvictsLeastFrequent
  <2>1. SoundLfu(encoder, encoding["leader"]) /\ LeastThere(encoder)
    BY DEF ReplayInv, Good, GoodLfu
  <2>2. ASSUME NEW k \in DOMAIN encoder.values, NEW n \in DOMAIN encoder.bin
        PROVE  (k \in Range(encoder.bin[n])) <=> (encoder.count[k] = n)
    <3>1. n \in Nat /\ Bin(encoder, n) = encoder.bin[n]
      BY <2>1 DEF SoundLfu, Bin
    <3>2. encoder.bin[n] \in Seq(Fields) /\ (In(encoder.bin[n], k) <=> encoder.count[k] = n)
      <4>1. /\ Bin(encoder, n) \in Seq(Fields)
            /\ In(Bin(encoder, n), k) <=> k \in Held(encoder) /\ encoder.count[k] = n
        BY <2>1, <3>1, Zenon DEF SoundLfu
      <4>2. k \in Held(encoder)
        BY <2>2 DEF Held
      <4> QED
        BY <3>1, <4>1, <4>2
    <3>3. DOMAIN encoder.bin[n] = 1 .. Len(encoder.bin[n])
      BY <3>2
    <3> QED
      BY <3>2, <3>3 DEF Range, In
  <2>3. \A k \in DOMAIN encoder.values :
          encoder.min_frequency <= encoder.count[k] /\ Bin(encoder, encoder.min_frequency) # <<>>
    BY <2>1 DEF LeastThere, Held
  <2> QED
    BY <2>2, <2>3 DEF EvictsLeastFrequent
<1> QED
  BY <1>1, ReplayAlways, PTL

=============================================================================
