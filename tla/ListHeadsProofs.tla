------------------------ MODULE ListHeadsProofs ---------------------------
(***************************************************************************)
(* The pointers of a list and the sequence of its nodes tell the same, for *)
(* any number of nodes and of lists.                                       *)
(***************************************************************************)
EXTENDS ListHeads, SequenceTheorems, WellFoundedInduction, TLAPS

----------------------------------------------------------------------------
(* Rings.                                                                  *)

Place(h, s, i) == IF i \in 1 .. Len(s) THEN s[i] ELSE h

Ring(nx, pv, h, s) ==
  \A i \in 0 .. Len(s) :
    nx[Place(h, s, i)] = Place(h, s, i + 1) /\ pv[Place(h, s, i + 1)] = Place(h, s, i)

Once(s) == \A i, j \in 1 .. Len(s) : s[i] = s[j] => i = j

Pointers == [Anchor -> Anchor \cup {NULL}]

\* The anchors of a ring, but for the head at one of its ends, are distinct.
LEMMA Places ==
  ASSUME NEW h \in List, NEW s \in Seq(Node), Once(s)
  PROVE  /\ Len(s) \in Nat
         /\ Place(h, s, 0) = h /\ Place(h, s, Len(s) + 1) = h
         /\ \A i \in 1 .. Len(s) : Place(h, s, i) = s[i] /\ s[i] \in Node /\ s[i] # h
         /\ \A i \in 0 .. Len(s) + 1 : Place(h, s, i) \in Anchor
         /\ \A i, j \in 0 .. Len(s) : Place(h, s, i) = Place(h, s, j) => i = j
         /\ \A i, j \in 1 .. Len(s) + 1 : Place(h, s, i) = Place(h, s, j) => i = j
<1>1. Len(s) \in Nat
  OBVIOUS
<1>2. Place(h, s, 0) = h /\ Place(h, s, Len(s) + 1) = h
  BY <1>1 DEF Place
<1>3. \A i \in 1 .. Len(s) : Place(h, s, i) = s[i] /\ s[i] \in Node /\ s[i] # h
  <2>1. h \notin Node
    BY ListAssumption
  <2>2. QED BY <2>1 DEF Place
<1>4. \A i \in 0 .. Len(s) + 1 : i = 0 \/ i = Len(s) + 1 \/ i \in 1 .. Len(s)
  BY <1>1
<1>5. \A i \in 0 .. Len(s) + 1 : Place(h, s, i) \in Anchor
  BY <1>2, <1>3, <1>4 DEF Anchor
<1>6. ASSUME NEW i \in 0 .. Len(s), NEW j \in 0 .. Len(s), Place(h, s, i) = Place(h, s, j)
      PROVE  i = j
  <2>1. (i = 0 \/ i \in 1 .. Len(s)) /\ (j = 0 \/ j \in 1 .. Len(s))
    BY <1>1
  <2>2. QED BY <1>2, <1>3, <1>6, <2>1 DEF Once
<1>7. ASSUME NEW i \in 1 .. Len(s) + 1, NEW j \in 1 .. Len(s) + 1,
             Place(h, s, i) = Place(h, s, j)
      PROVE  i = j
  <2>1. (i = Len(s) + 1 \/ i \in 1 .. Len(s)) /\ (j = Len(s) + 1 \/ j \in 1 .. Len(s))
    BY <1>1
  <2>2. QED BY <1>2, <1>3, <1>7, <2>1 DEF Once
<1>8. QED BY <1>1, <1>2, <1>3, <1>5, <1>6, <1>7

\* A ring none of whose anchors is written to stays.
LEMMA RingStays ==
  ASSUME NEW h \in List, NEW s \in Seq(Node), Once(s),
         NEW nx, NEW pv, NEW nx2, NEW pv2, Ring(nx, pv, h, s),
         nx2[h] = nx[h], pv2[h] = pv[h],
         \A i \in 1 .. Len(s) : nx2[s[i]] = nx[s[i]] /\ pv2[s[i]] = pv[s[i]]
  PROVE  Ring(nx2, pv2, h, s)
<1>1. \A i \in 0 .. Len(s) + 1 : Place(h, s, i) = h \/ \E j \in 1 .. Len(s) : Place(h, s, i) = s[j]
  BY DEF Place
<1>2. \A i \in 0 .. Len(s) + 1 : nx2[Place(h, s, i)] = nx[Place(h, s, i)]
                                 /\ pv2[Place(h, s, i)] = pv[Place(h, s, i)]
  BY <1>1
<1>3. \A i \in 0 .. Len(s) : i \in 0 .. Len(s) + 1 /\ i + 1 \in 0 .. Len(s) + 1
  OBVIOUS
<1>4. QED BY <1>2, <1>3 DEF Ring

LinkedNext(nx, e, before, after) == [nx EXCEPT ![e] = after, ![before] = e]
LinkedPrev(pv, e, before, after) == [pv EXCEPT ![after] = e, ![e] = before]

\* An entry is put after place k of a ring.
LEMMA RingGrows ==
  ASSUME NEW h \in List, NEW s \in Seq(Node), Once(s),
         NEW nx \in Pointers, NEW pv \in Pointers, Ring(nx, pv, h, s),
         NEW e \in Node, \A i \in 1 .. Len(s) : s[i] # e,
         NEW k \in 0 .. Len(s),
         NEW z \in Seq(Node), Len(z) = Len(s) + 1,
         \A i \in 1 .. Len(s) + 1 :
           z[i] = IF i <= k THEN s[i] ELSE IF i = k + 1 THEN e ELSE s[i - 1]
  PROVE  LET before == Place(h, s, k)
             after  == Place(h, s, k + 1)
         IN Ring(LinkedNext(nx, e, before, after), LinkedPrev(pv, e, before, after), h, z)
<1> DEFINE before == Place(h, s, k)
           after  == Place(h, s, k + 1)
           nx2 == LinkedNext(nx, e, before, after)
           pv2 == LinkedPrev(pv, e, before, after)
           n == Len(s)
           P(i) == Place(h, s, i)
<1>1. n \in Nat /\ k \in Int /\ 0 <= k /\ k <= n
  OBVIOUS
<1>2. /\ \A i \in 0 .. n + 1 : P(i) \in Anchor
      /\ P(0) = h /\ P(n + 1) = h
      /\ \A i \in 1 .. n : P(i) = s[i]
      /\ \A i, j \in 0 .. n : P(i) = P(j) => i = j
      /\ \A i, j \in 1 .. n + 1 : P(i) = P(j) => i = j
  BY Places
<1>3. e \in Anchor /\ e # h /\ \A i \in 0 .. n + 1 : P(i) # e
  <2>1. e # h /\ e \in Anchor
    BY ListAssumption DEF Anchor
  <2>2. \A i \in 0 .. n + 1 : i = 0 \/ i = n + 1 \/ i \in 1 .. n
    BY <1>1
  <2>3. QED BY <1>2, <2>1, <2>2
<1>4. before \in Anchor /\ after \in Anchor /\ before # e /\ after # e
  <2>1. k \in 0 .. n + 1 /\ k + 1 \in 0 .. n + 1
    BY <1>1
  <2>2. QED BY <1>2, <1>3, <2>1
<1>5. /\ nx2[e] = after /\ nx2[before] = e
      /\ \A a \in Anchor : a # e /\ a # before => nx2[a] = nx[a]
  <2> HIDE DEF before, after
  <2> QED BY <1>3, <1>4 DEF LinkedNext, Pointers
<1>6. /\ pv2[after] = e /\ pv2[e] = before
      /\ \A a \in Anchor : a # e /\ a # after => pv2[a] = pv[a]
  <2> HIDE DEF before, after
  <2> QED BY <1>3, <1>4 DEF LinkedPrev, Pointers
<1>7. \A i \in 0 .. n + 2 :
        Place(h, z, i) = IF i <= k THEN P(i) ELSE IF i = k + 1 THEN e ELSE P(i - 1)
  <2> TAKE i \in 0 .. n + 2
  <2>1. CASE i = 0
    BY <1>1, <1>2, <2>1 DEF Place
  <2>2. CASE i \in 1 .. n + 1
    <3>1. Place(h, z, i) = z[i]
      BY <1>1, <2>2 DEF Place
    <3>2. CASE i <= k
      <4>1. i \in 1 .. n
        BY <1>1, <2>2, <3>2
      <4>2. z[i] = s[i] /\ P(i) = s[i]
        BY <1>2, <2>2, <3>2, <4>1
      <4> HIDE DEF P
      <4>3. QED BY <3>1, <3>2, <4>2
    <3>3. CASE i = k + 1
      BY <1>1, <2>2, <3>1, <3>3
    <3>4. CASE i > k + 1
      <4>1. i - 1 \in 1 .. n /\ ~(i <= k) /\ i # k + 1
        BY <1>1, <2>2, <3>4
      <4>2. z[i] = s[i - 1]
        BY <2>2, <4>1
      <4>3. P(i - 1) = s[i - 1]
        BY <1>2, <4>1
      <4> HIDE DEF P
      <4>4. QED BY <3>1, <4>1, <4>2, <4>3
    <3>5. QED BY <1>1, <2>2, <3>2, <3>3, <3>4
  <2>3. CASE i = n + 2
    <3>1. Place(h, z, i) = h
      BY <1>1, <2>3 DEF Place
    <3>2. ~(i <= k) /\ i # k + 1 /\ i - 1 = n + 1
      BY <1>1, <2>3
    <3> HIDE DEF P
    <3>3. QED BY <1>2, <3>1, <3>2
  <2>4. QED BY <1>1, <2>1, <2>2, <2>3
<1>8. \A i \in 0 .. n : nx[P(i)] = P(i + 1) /\ pv[P(i + 1)] = P(i)
  BY DEF Ring
<1> DEFINE Q(i) == Place(h, z, i)
<1>9. ASSUME NEW i \in 0 .. n + 1 PROVE nx2[Q(i)] = Q(i + 1) /\ pv2[Q(i + 1)] = Q(i)
  <2>1. i \in Int /\ i \in 0 .. n + 2 /\ i + 1 \in 0 .. n + 2 /\ (i + 1) - 1 = i
    BY <1>1
  <2>2. /\ Q(i) = IF i <= k THEN P(i) ELSE IF i = k + 1 THEN e ELSE P(i - 1)
        /\ Q(i + 1) = IF i + 1 <= k THEN P(i + 1) ELSE IF i + 1 = k + 1 THEN e ELSE P(i)
    BY <1>7, <2>1
  <2>3. before = P(k) /\ after = P(k + 1)
    OBVIOUS
  <2> HIDE DEF P, Q, before, after, nx2, pv2, n
  <2>4. CASE i < k
    <3>1. Q(i) = P(i) /\ Q(i + 1) = P(i + 1)
      BY <1>1, <2>1, <2>2, <2>4
    <3>2. i \in 0 .. n /\ k \in 0 .. n /\ i # k /\ i + 1 \in 1 .. n + 1 /\ k + 1 \in 1 .. n + 1
          /\ i + 1 # k + 1 /\ i \in 0 .. n + 1 /\ i + 1 \in 0 .. n + 1
      BY <1>1, <2>1, <2>4
    <3>3. P(i) # before /\ P(i + 1) # after /\ P(i) # e /\ P(i + 1) # e
          /\ P(i) \in Anchor /\ P(i + 1) \in Anchor
      BY <1>2, <1>3, <2>3, <3>2
    <3>4. QED BY <1>5, <1>6, <1>8, <3>1, <3>2, <3>3
  <2>5. CASE i = k
    <3>1. Q(i) = before /\ Q(i + 1) = e
      BY <1>1, <2>1, <2>2, <2>3, <2>5
    <3>2. QED BY <1>5, <1>6, <3>1
  <2>6. CASE i = k + 1
    <3>1. Q(i) = e /\ Q(i + 1) = after
      BY <1>1, <2>1, <2>2, <2>3, <2>6
    <3>2. QED BY <1>5, <1>6, <3>1
  <2>7. CASE i > k + 1
    <3>1. Q(i) = P(i - 1) /\ Q(i + 1) = P(i)
      BY <1>1, <2>1, <2>2, <2>7
    <3>2. /\ i - 1 \in 0 .. n /\ k \in 0 .. n /\ i - 1 # k /\ i \in 1 .. n + 1
          /\ k + 1 \in 1 .. n + 1 /\ i # k + 1 /\ i - 1 \in 0 .. n + 1 /\ i \in 0 .. n + 1
          /\ (i - 1) + 1 = i
      BY <1>1, <2>1, <2>7
    <3>3. P(i - 1) # before /\ P(i) # after /\ P(i - 1) # e /\ P(i) # e
          /\ P(i - 1) \in Anchor /\ P(i) \in Anchor
      BY <1>2, <1>3, <2>3, <3>2
    <3>4. nx[P(i - 1)] = P(i) /\ pv[P(i)] = P(i - 1)
      <4>1. nx[P(i - 1)] = P((i - 1) + 1) /\ pv[P((i - 1) + 1)] = P(i - 1)
        BY <1>8, <3>2
      <4>2. QED BY <3>2, <4>1
    <3>5. QED BY <1>5, <1>6, <3>1, <3>3, <3>4
  <2>8. QED BY <1>1, <2>1, <2>4, <2>5, <2>6, <2>7
<1>10. Ring(nx2, pv2, h, z)
  <2>1. \A i \in 0 .. Len(z) : i \in 0 .. n + 1
    BY <1>1
  <2> HIDE DEF nx2, pv2
  <2>2. QED BY <1>9, <2>1 DEF Ring
<1>11. QED BY <1>10

UnlinkedNext(nx, pv, e) == [nx EXCEPT ![pv[e]] = nx[e], ![e] = NULL]
UnlinkedPrev(nx, pv, e) == [pv EXCEPT ![nx[e]] = pv[e], ![e] = NULL]

\* The entry in place k of a ring is taken out.
LEMMA RingShrinks ==
  ASSUME NEW h \in List, NEW s \in Seq(Node), Once(s),
         NEW nx \in Pointers, NEW pv \in Pointers, Ring(nx, pv, h, s),
         NEW k \in 1 .. Len(s),
         NEW z \in Seq(Node), Len(z) = Len(s) - 1,
         \A i \in 1 .. Len(s) - 1 : z[i] = IF i < k THEN s[i] ELSE s[i + 1]
  PROVE  Ring(UnlinkedNext(nx, pv, s[k]), UnlinkedPrev(nx, pv, s[k]), h, z)
<1> DEFINE n == Len(s)
           P(i) == Place(h, s, i)
           Q(i) == Place(h, z, i)
           nx2 == UnlinkedNext(nx, pv, s[k])
           pv2 == UnlinkedPrev(nx, pv, s[k])
<1>1. n \in Nat /\ k \in Int /\ 1 <= k /\ k <= n
  OBVIOUS
<1>2. /\ \A i \in 0 .. n + 1 : P(i) \in Anchor
      /\ P(0) = h /\ P(n + 1) = h
      /\ \A i \in 1 .. n : P(i) = s[i] /\ s[i] # h
      /\ \A i, j \in 0 .. n : P(i) = P(j) => i = j
      /\ \A i, j \in 1 .. n + 1 : P(i) = P(j) => i = j
  BY Places
<1>3. \A i \in 0 .. n : nx[P(i)] = P(i + 1) /\ pv[P(i + 1)] = P(i)
  BY DEF Ring
<1>4. P(k) = s[k] /\ nx[s[k]] = P(k + 1) /\ pv[s[k]] = P(k - 1)
  <2>1. k \in 1 .. n /\ k \in 0 .. n /\ k - 1 \in 0 .. n /\ (k - 1) + 1 = k
    BY <1>1
  <2>2. P(k) = s[k]
    BY <1>2, <2>1
  <2> HIDE DEF P
  <2>3. pv[P(k)] = P(k - 1)
    BY <1>3, <2>1
  <2>4. QED BY <1>3, <2>1, <2>2, <2>3
<1>5. P(k) \in Anchor /\ P(k - 1) \in Anchor /\ P(k + 1) \in Anchor
      /\ P(k - 1) # P(k) /\ P(k + 1) # P(k)
  <2>1. /\ k \in 0 .. n + 1 /\ k - 1 \in 0 .. n + 1 /\ k + 1 \in 0 .. n + 1
        /\ k \in 0 .. n /\ k - 1 \in 0 .. n /\ k - 1 # k
        /\ k \in 1 .. n + 1 /\ k + 1 \in 1 .. n + 1 /\ k + 1 # k
    BY <1>1
  <2> HIDE DEF P
  <2>2. QED BY <1>2, <2>1
<1>6. /\ nx2[P(k - 1)] = P(k + 1)
      /\ \A a \in Anchor : a # P(k) /\ a # P(k - 1) => nx2[a] = nx[a]
  <2> HIDE DEF P
  <2> QED BY <1>4, <1>5 DEF UnlinkedNext, Pointers
<1>7. /\ pv2[P(k + 1)] = P(k - 1)
      /\ \A a \in Anchor : a # P(k) /\ a # P(k + 1) => pv2[a] = pv[a]
  <2> HIDE DEF P
  <2> QED BY <1>4, <1>5 DEF UnlinkedPrev, Pointers
<1>8. \A i \in 0 .. n : Q(i) = IF i < k THEN P(i) ELSE P(i + 1)
  <2> TAKE i \in 0 .. n
  <2>1. CASE i = 0
    BY <1>1, <1>2, <2>1 DEF Place
  <2>2. CASE i \in 1 .. n - 1
    <3>1. Q(i) = z[i]
      BY <1>1, <2>2 DEF Place
    <3>2. P(i) = s[i] /\ P(i + 1) = s[i + 1]
      BY <1>1, <1>2, <2>2
    <3>3. z[i] = IF i < k THEN s[i] ELSE s[i + 1]
      BY <2>2
    <3> HIDE DEF P, Q
    <3>4. QED BY <3>1, <3>2, <3>3
  <2>3. CASE i = n /\ n > 0
    <3>1. Q(i) = h
      BY <1>1, <2>3 DEF Place
    <3>2. ~(i < k)
      BY <1>1, <2>3
    <3> HIDE DEF P, Q
    <3>3. QED BY <1>2, <2>3, <3>1, <3>2
  <2>4. QED BY <1>1, <2>1, <2>2, <2>3
<1>9. ASSUME NEW i \in 0 .. n - 1 PROVE nx2[Q(i)] = Q(i + 1) /\ pv2[Q(i + 1)] = Q(i)
  <2>1. i \in Int /\ i \in 0 .. n /\ i + 1 \in 0 .. n
    BY <1>1
  <2>2. /\ Q(i) = IF i < k THEN P(i) ELSE P(i + 1)
        /\ Q(i + 1) = IF i + 1 < k THEN P(i + 1) ELSE P((i + 1) + 1)
    BY <1>8, <2>1
  <2> HIDE DEF P, Q, nx2, pv2, n
  <2>3. CASE i + 1 < k
    <3>1. Q(i) = P(i) /\ Q(i + 1) = P(i + 1)
      BY <1>1, <2>1, <2>2, <2>3
    <3>2. /\ k \in 0 .. n /\ k - 1 \in 0 .. n /\ k \in 1 .. n + 1 /\ k + 1 \in 1 .. n + 1
          /\ i + 1 \in 1 .. n + 1 /\ i \in 0 .. n + 1 /\ i + 1 \in 0 .. n + 1
          /\ i # k /\ i # k - 1 /\ i + 1 # k /\ i + 1 # k + 1
      BY <1>1, <2>1, <2>3
    <3>3. P(i) # P(k) /\ P(i) # P(k - 1) /\ P(i + 1) # P(k) /\ P(i + 1) # P(k + 1)
          /\ P(i) \in Anchor /\ P(i + 1) \in Anchor
      BY <1>2, <2>1, <3>2
    <3>4. QED BY <1>3, <1>6, <1>7, <2>1, <3>1, <3>3
  <2>4. CASE i + 1 = k
    <3>1. Q(i) = P(k - 1) /\ Q(i + 1) = P(k + 1)
      <4>1. i = k - 1 /\ i < k /\ ~(i + 1 < k) /\ (i + 1) + 1 = k + 1
        BY <1>1, <2>1, <2>4
      <4>2. QED BY <2>2, <4>1
    <3>2. QED BY <1>6, <1>7, <3>1
  <2>5. CASE i + 1 > k
    <3>1. Q(i) = P(i + 1) /\ Q(i + 1) = P((i + 1) + 1)
      BY <1>1, <2>1, <2>2, <2>5
    <3>2. /\ k \in 0 .. n /\ k - 1 \in 0 .. n /\ k \in 1 .. n + 1 /\ k + 1 \in 1 .. n + 1
          /\ i + 1 \in 0 .. n + 1 /\ (i + 1) + 1 \in 0 .. n + 1 /\ (i + 1) + 1 \in 1 .. n + 1
          /\ i + 1 # k /\ i + 1 # k - 1 /\ (i + 1) + 1 # k /\ (i + 1) + 1 # k + 1
      BY <1>1, <2>1, <2>5
    <3>3. /\ P(i + 1) # P(k) /\ P(i + 1) # P(k - 1)
          /\ P((i + 1) + 1) # P(k) /\ P((i + 1) + 1) # P(k + 1)
          /\ P(i + 1) \in Anchor /\ P((i + 1) + 1) \in Anchor
      BY <1>2, <2>1, <3>2
    <3>4. QED BY <1>3, <1>6, <1>7, <2>1, <3>1, <3>3
  <2>6. QED BY <1>1, <2>1, <2>3, <2>4, <2>5
<1>10. Ring(nx2, pv2, h, z)
  <2>1. \A i \in 0 .. Len(z) : i \in 0 .. n - 1
    BY <1>1
  <2> HIDE DEF nx2, pv2
  <2>2. QED BY <1>9, <2>1 DEF Ring
<1>11. QED BY <1>10

----------------------------------------------------------------------------
(* Sequences: a node more, a node less.                                    *)

Grown(s, e, k, z) ==
  /\ z \in Seq(Node) /\ Len(z) = Len(s) + 1 /\ k \in 0 .. Len(s)
  /\ \A i \in 1 .. Len(s) + 1 :
       z[i] = IF i <= k THEN s[i] ELSE IF i = k + 1 THEN e ELSE s[i - 1]

Shrunk(s, k, z) ==
  /\ z \in Seq(Node) /\ Len(z) = Len(s) - 1 /\ k \in 1 .. Len(s)
  /\ \A i \in 1 .. Len(s) - 1 : z[i] = IF i < k THEN s[i] ELSE s[i + 1]

LEMMA AppendGrows ==
  ASSUME NEW s \in Seq(Node), NEW e \in Node
  PROVE  Grown(s, e, Len(s), Append(s, e))
<1>1. /\ Append(s, e) \in Seq(Node) /\ Len(Append(s, e)) = Len(s) + 1 /\ Len(s) \in Nat
      /\ \A i \in 1 .. Len(s) : Append(s, e)[i] = s[i]
      /\ Append(s, e)[Len(s) + 1] = e
  BY AppendProperties, LenProperties
<1>2. \A i \in 1 .. Len(s) + 1 : i \in 1 .. Len(s) \/ i = Len(s) + 1
  BY <1>1
<1>3. QED BY <1>1, <1>2 DEF Grown

LEMMA PrependGrows ==
  ASSUME NEW s \in Seq(Node), NEW e \in Node
  PROVE  Grown(s, e, 0, <<e>> \o s)
<1>1. /\ <<e>> \o s \in Seq(Node) /\ Len(<<e>> \o s) = 1 + Len(s) /\ Len(s) \in Nat
      /\ \A i \in 1 .. 1 + Len(s) :
           (<<e>> \o s)[i] = IF i <= 1 THEN <<e>>[i] ELSE s[i - 1]
  <2>1. <<e>> \in Seq(Node) /\ Len(<<e>>) = 1
    OBVIOUS
  <2>2. QED BY <2>1, ConcatProperties, LenProperties
<1>2. QED BY <1>1 DEF Grown

LEMMA RemoveAtShrinks ==
  ASSUME NEW s \in Seq(Node), NEW k \in 1 .. Len(s)
  PROVE  Shrunk(s, k, RemoveAt(s, k))
<1> DEFINE l == SubSeq(s, 1, k - 1)
           r == SubSeq(s, k + 1, Len(s))
<1>1. Len(s) \in Nat /\ k \in Int /\ 1 <= k /\ k <= Len(s) /\ \A i \in 1 .. Len(s) : s[i] \in Node
  BY LenProperties, ElementOfSeq
<1>2. /\ l \in Seq(Node) /\ Len(l) = k - 1
      /\ \A i \in 1 .. k - 1 : l[i] = s[i]
  <2>1. \A i \in 1 .. k - 1 : s[i] \in Node
    BY <1>1
  <2>2. QED BY <1>1, <2>1, SubSeqProperties
<1>3. /\ r \in Seq(Node) /\ Len(r) = Len(s) - k
      /\ \A i \in 1 .. Len(s) - k : r[i] = s[k + i]
  <2>1. \A i \in k + 1 .. Len(s) : s[i] \in Node
    BY <1>1
  <2>2. /\ r \in Seq(Node)
        /\ Len(r) = IF k + 1 <= Len(s) THEN Len(s) - (k + 1) + 1 ELSE 0
        /\ \A i \in 1 .. Len(s) - (k + 1) + 1 : r[i] = s[k + 1 + i - 1]
    BY <1>1, <2>1, SubSeqProperties
  <2>3. QED BY <1>1, <2>2
<1> HIDE DEF l, r
<1>4. /\ l \o r \in Seq(Node) /\ Len(l \o r) = Len(s) - 1
      /\ \A i \in 1 .. Len(l) + Len(r) :
           (l \o r)[i] = IF i <= Len(l) THEN l[i] ELSE r[i - Len(l)]
  <2>1. /\ l \o r \in Seq(Node) /\ Len(l \o r) = Len(l) + Len(r)
        /\ \A i \in 1 .. Len(l) + Len(r) :
             (l \o r)[i] = IF i <= Len(l) THEN l[i] ELSE r[i - Len(l)]
    BY <1>2, <1>3, ConcatProperties
  <2>2. Len(l) + Len(r) = Len(s) - 1
    BY <1>1, <1>2, <1>3
  <2>3. QED BY <2>1, <2>2
<1>5. ASSUME NEW i \in 1 .. Len(s) - 1
      PROVE  (l \o r)[i] = IF i < k THEN s[i] ELSE s[i + 1]
  <2>1. CASE i < k
    BY <1>1, <1>2, <1>3, <1>4, <2>1
  <2>2. CASE ~(i < k)
    <3>1. i - (k - 1) \in 1 .. Len(s) - k
      BY <1>1, <2>2
    <3>2. r[i - (k - 1)] = s[k + (i - (k - 1))]
      BY <1>3, <3>1
    <3>3. i \in 1 .. Len(l) + Len(r) /\ ~(i <= Len(l)) /\ i - Len(l) = i - (k - 1)
      BY <1>1, <1>2, <1>3, <2>2
    <3>4. (l \o r)[i] = r[i - (k - 1)]
      BY <1>4, <3>3
    <3>5. k + (i - (k - 1)) = i + 1
      BY <1>1
    <3>6. QED BY <2>2, <3>2, <3>4, <3>5
  <2>3. QED BY <2>1, <2>2
<1>6. RemoveAt(s, k) = l \o r
  BY DEF RemoveAt, l, r
<1>7. QED BY <1>4, <1>5, <1>6 DEF Shrunk

LEMMA TailShrinks ==
  ASSUME NEW s \in Seq(Node), s # <<>>
  PROVE  Shrunk(s, 1, Tail(s))
<1>1. Len(s) \in Nat /\ 1 <= Len(s)
  BY LenProperties, EmptySeq
<1>2. /\ Tail(s) \in Seq(Node) /\ Len(Tail(s)) = Len(s) - 1
      /\ \A i \in 1 .. Len(s) - 1 : Tail(s)[i] = s[i + 1]
  BY <1>1, HeadTailProperties
<1>3. QED BY <1>1, <1>2 DEF Shrunk

LEMMA GrownNodes ==
  ASSUME NEW s \in Seq(Node), NEW e \in Node, NEW k, NEW z, Grown(s, e, k, z),
         Once(s), ~Contains(s, e)
  PROVE  /\ Once(z)
         /\ \A x : Contains(z, x) <=> Contains(s, x) \/ x = e
<1>1. Len(s) \in Nat /\ k \in Int /\ 0 <= k /\ k <= Len(s) /\ Len(z) = Len(s) + 1
  BY LenProperties DEF Grown
<1>2. \A i \in 1 .. Len(s) : s[i] # e
  BY DEF Contains
<1>3. ASSUME NEW i \in 1 .. Len(z), NEW j \in 1 .. Len(z), z[i] = z[j] PROVE i = j
  <2> DEFINE f(a) == IF a <= k THEN a ELSE a - 1
  <2>1. ASSUME NEW a \in 1 .. Len(z), a # k + 1
        PROVE  f(a) \in 1 .. Len(s) /\ z[a] = s[f(a)]
    <3>1. f(a) \in 1 .. Len(s) /\ a \in 1 .. Len(s) + 1
      BY <1>1, <2>1
    <3>2. z[a] = IF a <= k THEN s[a] ELSE IF a = k + 1 THEN e ELSE s[a - 1]
      BY <3>1 DEF Grown
    <3>3. QED BY <2>1, <3>1, <3>2
  <2>2. k + 1 \in 1 .. Len(z) /\ z[k + 1] = e
    BY <1>1 DEF Grown
  <2>3. ASSUME NEW a \in 1 .. Len(z), a # k + 1 PROVE z[a] # e
    <3>1. f(a) \in 1 .. Len(s) /\ z[a] = s[f(a)]
      BY <2>1, <2>3
    <3> HIDE DEF f
    <3>2. QED BY <1>2, <3>1
  <2>4. CASE i # k + 1 /\ j # k + 1
    <3>1. f(i) = f(j)
      <4>1. f(i) \in 1 .. Len(s) /\ f(j) \in 1 .. Len(s) /\ z[i] = s[f(i)] /\ z[j] = s[f(j)]
        BY <2>1, <2>4
      <4> HIDE DEF f
      <4>2. QED BY <1>3, <4>1 DEF Once
    <3>2. QED BY <1>1, <2>4, <3>1
  <2>5. QED BY <1>3, <2>2, <2>3, <2>4
<1>4. ASSUME NEW x, Contains(z, x) PROVE Contains(s, x) \/ x = e
  <2>1. PICK i \in 1 .. Len(z) : z[i] = x
    BY <1>4 DEF Contains
  <2>2. z[i] = IF i <= k THEN s[i] ELSE IF i = k + 1 THEN e ELSE s[i - 1]
    BY <1>1 DEF Grown
  <2>3. (i <= k => i \in 1 .. Len(s)) /\ (i > k + 1 => i - 1 \in 1 .. Len(s))
    BY <1>1
  <2>4. QED BY <1>1, <2>1, <2>2, <2>3 DEF Contains
<1>5. ASSUME NEW x, Contains(s, x) PROVE Contains(z, x)
  <2>1. PICK i \in 1 .. Len(s) : s[i] = x
    BY <1>5 DEF Contains
  <2>2. CASE i <= k
    <3>1. i \in 1 .. Len(z) /\ z[i] = x
      BY <1>1, <2>1, <2>2 DEF Grown
    <3>2. QED BY <3>1 DEF Contains
  <2>3. CASE i > k
    <3>1. i + 1 \in 1 .. Len(s) + 1 /\ ~(i + 1 <= k) /\ i + 1 # k + 1 /\ (i + 1) - 1 = i
      BY <1>1, <2>3
    <3>2. z[i + 1] = s[(i + 1) - 1]
      BY <3>1 DEF Grown
    <3>3. i + 1 \in 1 .. Len(z) /\ z[i + 1] = x
      BY <1>1, <2>1, <3>1, <3>2
    <3>4. QED BY <3>3 DEF Contains
  <2>4. QED BY <1>1, <2>2, <2>3
<1>6. Contains(z, e)
  <2>1. k + 1 \in 1 .. Len(z) /\ z[k + 1] = e
    BY <1>1 DEF Grown
  <2>2. QED BY <2>1 DEF Contains
<1>7. QED BY <1>3, <1>4, <1>5, <1>6 DEF Once

LEMMA ShrunkNodes ==
  ASSUME NEW s \in Seq(Node), NEW k, NEW z, Shrunk(s, k, z), Once(s)
  PROVE  /\ Once(z)
         /\ \A x : Contains(z, x) <=> Contains(s, x) /\ x # s[k]
<1>1. Len(s) \in Nat /\ k \in Int /\ 1 <= k /\ k <= Len(s) /\ Len(z) = Len(s) - 1
      /\ k \in 1 .. Len(s)
  BY LenProperties DEF Shrunk
<1>2. \A i \in 1 .. Len(z) :
        LET f == IF i < k THEN i ELSE i + 1
        IN  z[i] = s[f] /\ f \in 1 .. Len(s) /\ f # k
  BY <1>1 DEF Shrunk
<1>3. ASSUME NEW i \in 1 .. Len(z), NEW j \in 1 .. Len(z), z[i] = z[j] PROVE i = j
  <2> DEFINE f(a) == IF a < k THEN a ELSE a + 1
  <2>1. f(i) = f(j)
    BY <1>2, <1>3 DEF Once
  <2>2. QED BY <1>1, <2>1
<1>4. ASSUME NEW x, Contains(z, x) PROVE Contains(s, x) /\ x # s[k]
  <2>1. PICK i \in 1 .. Len(z) : z[i] = x
    BY <1>4 DEF Contains
  <2>2. QED BY <1>1, <1>2, <2>1 DEF Contains, Once
<1>5. ASSUME NEW x, Contains(s, x), x # s[k] PROVE Contains(z, x)
  <2>1. PICK i \in 1 .. Len(s) : s[i] = x
    BY <1>5 DEF Contains
  <2>2. CASE i < k
    <3>1. i \in 1 .. Len(z) /\ z[i] = x
      BY <1>1, <2>1, <2>2 DEF Shrunk
    <3>2. QED BY <3>1 DEF Contains
  <2>3. CASE i > k
    <3>1. i - 1 \in 1 .. Len(s) - 1 /\ ~(i - 1 < k) /\ (i - 1) + 1 = i
      BY <1>1, <2>3
    <3>2. z[i - 1] = s[(i - 1) + 1]
      BY <3>1 DEF Shrunk
    <3>3. i - 1 \in 1 .. Len(z) /\ z[i - 1] = x
      BY <1>1, <2>1, <3>1, <3>2
    <3>4. QED BY <3>3 DEF Contains
  <2>4. QED BY <1>1, <1>5, <2>1, <2>2, <2>3
<1>6. QED BY <1>3, <1>4, <1>5 DEF Once

----------------------------------------------------------------------------
(* The inductive invariant.                                                *)

LoopType == [head : List, body : Bodies, into : List \cup {NULL}, pos : Anchor,
             n : Anchor \cup {NULL}]

Types ==
  /\ next \in Pointers /\ prev \in Pointers
  /\ lists \in [List -> Seq(Node)] /\ ready \in SUBSET List /\ todo \in Seq(Node)
  /\ loop = NoLoop \/ loop \in LoopType

\* A node is once in one list.
Apart(l) ==
  /\ \A h \in List : Once(l[h])
  /\ \A e \in Node, g, h \in List : Contains(l[g], e) /\ Contains(l[h], e) => g = h

Rings == \A h \in ready : Ring(next, prev, h, lists[h])

\* The nodes that were linked elsewhere are still linked from one to the next,
\* those that the loop has yet to meet, up to the head that they came from.
Chain(nx, h, s) == \A i \in 1 .. Len(s) : nx[s[i]] = Place(h, s, i + 1)

Adopting == Looping /\ loop.body = "adopt"

Emptied == \A h \in List \ ready : lists[h] = <<>> \/ (Adopting /\ h = loop.head)

Cursors ==
  Looping =>
    /\ Once(todo) /\ Chain(next, loop.head, todo)
    /\ \A e \in Node : Contains(todo, e) => Contains(lists[loop.head], e)
    /\ loop.pos = Place(loop.head, todo, 1)
    /\ todo # <<>> => loop.n = Place(loop.head, todo, 2)
    /\ loop.body # "look" => todo = lists[loop.head]
    /\ IF loop.body = "adopt" THEN loop.head \notin ready /\ loop.into \in ready
                              ELSE loop.head \in ready

Inv == Types /\ Apart(lists) /\ Rings /\ Emptied /\ Cursors /\ UnlinkedIsNull

----------------------------------------------------------------------------
(* What a call does to the lists, and to the pointers.                     *)

LEMMA ApartPut ==
  ASSUME NEW l \in [List -> Seq(Node)], Apart(l), NEW h \in List, NEW e \in Node,
         \A g \in List : ~Contains(l[g], e),
         NEW k, NEW z, Grown(l[h], e, k, z)
  PROVE  [l EXCEPT ![h] = z] \in [List -> Seq(Node)] /\ Apart([l EXCEPT ![h] = z])
<1> DEFINE m == [l EXCEPT ![h] = z]
<1>1. l[h] \in Seq(Node) /\ Once(l[h]) /\ z \in Seq(Node)
  BY DEF Apart, Grown
<1>2. m \in [List -> Seq(Node)] /\ m[h] = z /\ \A g \in List \ {h} : m[g] = l[g]
  BY <1>1
<1>3. Once(z) /\ \A x : Contains(z, x) <=> Contains(l[h], x) \/ x = e
  BY <1>1, GrownNodes
<1> HIDE DEF m
<1>4. \A g \in List : Once(m[g])
  BY <1>2, <1>3 DEF Apart
<1>5. ASSUME NEW x \in Node, NEW f \in List, NEW g \in List, Contains(m[f], x), Contains(m[g], x)
      PROVE  f = g
  <2>1. CASE x = e
    BY <1>2, <1>5, <2>1
  <2>2. CASE x # e
    <3>1. Contains(l[f], x) /\ Contains(l[g], x)
      BY <1>2, <1>3, <1>5, <2>2
    <3>2. QED BY <3>1 DEF Apart
  <2>3. QED BY <2>1, <2>2
<1>6. QED BY <1>2, <1>4, <1>5 DEF Apart, m

LEMMA ApartTake ==
  ASSUME NEW l \in [List -> Seq(Node)], Apart(l), NEW h \in List,
         NEW k, NEW z, Shrunk(l[h], k, z)
  PROVE  [l EXCEPT ![h] = z] \in [List -> Seq(Node)] /\ Apart([l EXCEPT ![h] = z])
<1> DEFINE m == [l EXCEPT ![h] = z]
<1>1. l[h] \in Seq(Node) /\ Once(l[h]) /\ z \in Seq(Node)
  BY DEF Apart, Shrunk
<1>2. m \in [List -> Seq(Node)] /\ m[h] = z /\ \A g \in List \ {h} : m[g] = l[g]
  BY <1>1
<1>3. Once(z) /\ \A x : Contains(z, x) => Contains(l[h], x)
  BY <1>1, ShrunkNodes
<1> HIDE DEF m
<1>4. \A g \in List : Once(m[g])
  BY <1>2, <1>3 DEF Apart
<1>5. ASSUME NEW x \in Node, NEW f \in List, NEW g \in List, Contains(m[f], x), Contains(m[g], x)
      PROVE  f = g
  <2>1. Contains(l[f], x) /\ Contains(l[g], x)
    BY <1>2, <1>3, <1>5
  <2>2. QED BY <2>1 DEF Apart
<1>6. QED BY <1>2, <1>4, <1>5 DEF Apart, m

LEMMA PlaceOf ==
  ASSUME NEW h \in List, NEW s \in Seq(Node), NEW i
  PROVE  Place(h, s, i) = h \/ Contains(s, Place(h, s, i))
BY DEF Place, Contains

\* A ring that the call does not touch.
LEMMA OtherRing ==
  ASSUME NEW g \in List, NEW s \in Seq(Node), Once(s), Ring(next, prev, g, s),
         \A a \in Anchor : a = g \/ Contains(s, a) => next'[a] = next[a] /\ prev'[a] = prev[a]
  PROVE  Ring(next', prev', g, s)
<1>1. \A i \in 1 .. Len(s) : s[i] \in Anchor /\ Contains(s, s[i])
  BY ElementOfSeq DEF Contains, Anchor
<1>2. g \in Anchor
  BY DEF Anchor
<1>3. QED BY <1>1, <1>2, RingStays

LEMMA PutPointers ==
  ASSUME next \in Pointers, prev \in Pointers, NEW h \in List, NEW s \in Seq(Node),
         Once(s), Ring(next, prev, h, s), NEW e \in Node, ~Contains(s, e),
         NEW k, NEW z, Grown(s, e, k, z),
         next' = LinkedNext(next, e, Place(h, s, k), Place(h, s, k + 1)),
         prev' = LinkedPrev(prev, e, Place(h, s, k), Place(h, s, k + 1))
  PROVE  /\ next' \in Pointers /\ prev' \in Pointers /\ Ring(next', prev', h, z)
         /\ \A a \in Anchor : a # e /\ a # h /\ ~Contains(s, a)
                              => next'[a] = next[a] /\ prev'[a] = prev[a]
<1> DEFINE before == Place(h, s, k)
           after  == Place(h, s, k + 1)
<1>1. Len(s) \in Nat /\ k \in 0 .. Len(s) /\ e \in Anchor
  BY LenProperties DEF Grown, Anchor
<1>2. before \in Anchor /\ after \in Anchor
  <2>1. k \in 0 .. Len(s) + 1 /\ k + 1 \in 0 .. Len(s) + 1
    BY <1>1
  <2>2. QED BY <2>1, Places
<1>3. (before = h \/ Contains(s, before)) /\ (after = h \/ Contains(s, after))
  BY PlaceOf
<1>4. Ring(next', prev', h, z)
  <2>1. \A i \in 1 .. Len(s) : s[i] # e
    BY DEF Contains
  <2>2. QED BY <1>1, <2>1, RingGrows DEF Grown
<1> HIDE DEF before, after
<1>5. next' = [next EXCEPT ![e] = after, ![before] = e]
      /\ prev' = [prev EXCEPT ![after] = e, ![e] = before]
  BY DEF LinkedNext, LinkedPrev, before, after
<1>6. next' \in Pointers /\ prev' \in Pointers
  BY <1>1, <1>2, <1>5 DEF Pointers
<1>7. \A a \in Anchor : a # e /\ a # before /\ a # after => next'[a] = next[a] /\ prev'[a] = prev[a]
  BY <1>5 DEF Pointers
<1>8. QED BY <1>3, <1>4, <1>6, <1>7

LEMMA TakePointers ==
  ASSUME next \in Pointers, prev \in Pointers, NEW h \in List, NEW s \in Seq(Node),
         Once(s), Ring(next, prev, h, s), NEW k, NEW z, Shrunk(s, k, z),
         next' = UnlinkedNext(next, prev, s[k]), prev' = UnlinkedPrev(next, prev, s[k])
  PROVE  /\ next' \in Pointers /\ prev' \in Pointers /\ Ring(next', prev', h, z)
         /\ s[k] \in Node /\ next'[s[k]] = NULL /\ prev'[s[k]] = NULL
         /\ \A a \in Anchor : a # h /\ ~Contains(s, a)
                              => next'[a] = next[a] /\ prev'[a] = prev[a]
         /\ k = 1 => \A i \in 2 .. Len(s) : next'[s[i]] = next[s[i]]
<1> DEFINE e == s[k]
           before == Place(h, s, k - 1)
           after  == Place(h, s, k + 1)
<1>1. Len(s) \in Nat /\ k \in 1 .. Len(s) /\ e \in Node /\ e \in Anchor /\ Contains(s, e)
  BY LenProperties, ElementOfSeq DEF Shrunk, Anchor, Contains
<1>2. before \in Anchor /\ after \in Anchor
  <2>1. k - 1 \in 0 .. Len(s) + 1 /\ k + 1 \in 0 .. Len(s) + 1
    BY <1>1
  <2>2. QED BY <2>1, Places
<1>3. (before = h \/ Contains(s, before)) /\ (after = h \/ Contains(s, after))
  BY PlaceOf
<1>4. Ring(next', prev', h, z)
  BY <1>1, RingShrinks DEF Shrunk
<1>5. next[e] = after /\ prev[e] = before
  <2>1. Place(h, s, k) = e
    BY <1>1 DEF Place
  <2>2. k \in 0 .. Len(s) /\ k - 1 \in 0 .. Len(s) /\ (k - 1) + 1 = k
    BY <1>1
  <2>3. prev[Place(h, s, (k - 1) + 1)] = Place(h, s, k - 1)
    BY <2>2 DEF Ring
  <2>4. next[Place(h, s, k)] = Place(h, s, k + 1)
    BY <2>2 DEF Ring
  <2>5. QED BY <2>1, <2>2, <2>3, <2>4
<1>6. k = 1 => before = h
  BY Places
<1> HIDE DEF before, after
<1>7. next' = [next EXCEPT ![before] = after, ![e] = NULL]
      /\ prev' = [prev EXCEPT ![after] = before, ![e] = NULL]
  BY <1>5 DEF UnlinkedNext, UnlinkedPrev
<1> HIDE DEF e
<1>8. next' \in Pointers /\ prev' \in Pointers
  BY <1>1, <1>2, <1>7 DEF Pointers
<1>9. next'[e] = NULL /\ prev'[e] = NULL
  BY <1>1, <1>7 DEF Pointers
<1>10. /\ \A a \in Anchor : a # e /\ a # before => next'[a] = next[a]
       /\ \A a \in Anchor : a # e /\ a # after => prev'[a] = prev[a]
  BY <1>7 DEF Pointers
<1>11. ASSUME k = 1, NEW i \in 2 .. Len(s) PROVE next'[s[i]] = next[s[i]]
  <2>1. i \in 1 .. Len(s) /\ i # k
    BY <1>1, <1>11
  <2>2. s[i] \in Anchor /\ s[i] # h
    BY <2>1, Places DEF Anchor
  <2>3. s[i] # e
    BY <1>1, <2>1 DEF Once, e
  <2>4. QED BY <1>6, <1>10, <1>11, <2>2, <2>3
<1>12. QED BY <1>1, <1>3, <1>4, <1>8, <1>9, <1>10, <1>11 DEF e

----------------------------------------------------------------------------
(* The invariant is inductive: the calls.                                  *)

LEMMA NoLoopHead ==
  /\ NULL \notin Anchor /\ NoLoop.head = NULL /\ NoLoop.body = "none"
  /\ \A h \in List : h \in Anchor /\ h # NoLoop.head
  /\ \A e \in Node : e \in Anchor /\ e \notin List
BY ListAssumption DEF Anchor, NoLoop

\* A list that no loop has taken from its owner is a ring, or it is empty.
LEMMA NonEmptyReady ==
  ASSUME Emptied, NEW h \in List, h # loop.head, lists[h] # <<>>
  PROVE  h \in ready
BY DEF Emptied

LEMMA InitHeadInv ==
  ASSUME Inv, NEW h \in List, InitHead(h)
  PROVE  Inv'
<1>1. h \in Anchor /\ ~Looping /\ lists[h] = <<>> /\ next \in Pointers /\ prev \in Pointers
      /\ loop' = loop /\ lists' = lists /\ todo' = todo /\ ready' = ready \cup {h}
      /\ next' = [next EXCEPT ![h] = h] /\ prev' = [prev EXCEPT ![h] = h]
  BY DEF InitHead, INIT_LIST_HEAD, Inv, Types, Anchor
<1>2. Types'
  BY <1>1 DEF Inv, Types, Pointers
<1>3. /\ next'[h] = h /\ prev'[h] = h
      /\ \A a \in Anchor : a # h => next'[a] = next[a] /\ prev'[a] = prev[a]
  BY <1>1 DEF Pointers
<1>4. ASSUME NEW g \in ready' PROVE Ring(next', prev', g, lists'[g])
  <2>1. CASE g = h
    <3>1. lists'[g] = <<>> /\ Len(lists'[g]) = 0
      BY <1>1, <2>1
    <3>2. \A i : Place(g, lists'[g], i) = h
      BY <2>1, <3>1 DEF Place
    <3>3. QED BY <1>3, <3>2 DEF Ring
  <2>2. CASE g # h
    <3>1. g \in ready /\ g \in List /\ lists[g] \in Seq(Node) /\ Once(lists[g])
          /\ Ring(next, prev, g, lists[g])
      BY <1>1, <2>2 DEF Inv, Types, Apart, Rings
    <3>2. ~Contains(lists[g], h)
      BY <3>1, ElementOfSeq, ListAssumption DEF Contains
    <3>3. QED BY <1>1, <1>3, <2>2, <3>1, <3>2, OtherRing
  <2>3. QED BY <2>1, <2>2
<1>5. Apart(lists)' /\ Emptied' /\ Cursors'
  BY <1>1 DEF Inv, Apart, Emptied, Cursors, Looping, Adopting
<1>6. UnlinkedIsNull'
  <2>1. \A e \in Node : e \in Anchor /\ e # h
    BY ListAssumption DEF Anchor
  <2>2. QED BY <1>1, <1>3, <2>1 DEF Inv, UnlinkedIsNull, Listed
<1>7. QED BY <1>2, <1>4, <1>5, <1>6 DEF Inv, Rings

\* A call that changes one list, which no loop runs along, and its nodes.
LEMMA CallInv ==
  ASSUME Inv, NEW h \in ready, h # loop.head, NEW e \in Node,
         UNCHANGED <<loop, ready, todo>>,
         NEW z, lists' = [lists EXCEPT ![h] = z],
         lists' \in [List -> Seq(Node)], Apart(lists)',
         \A x \in Node : x # e => (Contains(z, x) <=> Contains(lists[h], x)),
         \A g \in List \ {h} : ~Contains(lists[g], e),
         next' \in Pointers, prev' \in Pointers, Ring(next', prev', h, z),
         \A a \in Anchor : a # e /\ a # h /\ ~Contains(lists[h], a)
                           => next'[a] = next[a] /\ prev'[a] = prev[a],
         Contains(z, e) \/ (next'[e] = NULL /\ prev'[e] = NULL)
  PROVE  Inv'
<1>1. /\ h \in List /\ ready \in SUBSET List /\ lists \in [List -> Seq(Node)]
      /\ lists'[h] = z /\ \A g \in List \ {h} : lists'[g] = lists[g]
      /\ loop' = loop /\ ready' = ready /\ todo' = todo
  BY DEF Inv, Types
<1>2. Types'
  BY <1>1 DEF Inv, Types
<1>3. \A g \in List \ {h} : \A a \in Anchor :
        a = g \/ Contains(lists[g], a) => next'[a] = next[a] /\ prev'[a] = prev[a]
  <2> SUFFICES ASSUME NEW g \in List \ {h}, NEW a \in Anchor, a = g \/ Contains(lists[g], a)
               PROVE  a # e /\ a # h /\ ~Contains(lists[h], a)
    OBVIOUS
  <2>1. CASE a = g
    <3>1. a \notin Node
      BY <2>1, ListAssumption
    <3>2. QED BY <1>1, <2>1, <3>1, ElementOfSeq DEF Contains
  <2>2. CASE Contains(lists[g], a)
    <3>1. a \in Node /\ a # h
      BY <1>1, <2>2, ElementOfSeq, ListAssumption DEF Contains
    <3>2. QED BY <1>1, <2>2, <3>1 DEF Inv, Apart
  <2>3. QED BY <2>1, <2>2
<1>4. Rings'
  <2> SUFFICES ASSUME NEW g \in ready PROVE Ring(next', prev', g, lists'[g])
    BY <1>1 DEF Rings
  <2>1. CASE g # h
    <3>1. g \in List /\ lists[g] \in Seq(Node) /\ Once(lists[g]) /\ Ring(next, prev, g, lists[g])
      BY <1>1 DEF Inv, Apart, Rings
    <3>2. QED BY <1>1, <1>3, <2>1, <3>1, OtherRing
  <2>2. QED BY <1>1, <2>1
<1>5. Emptied'
  BY <1>1 DEF Inv, Emptied, Looping, Adopting
<1>6. Cursors'
  <2> SUFFICES ASSUME Looping PROVE Cursors'
    BY <1>1 DEF Cursors, Looping
  <2>1. loop.head \in List \ {h} /\ todo \in Seq(Node)
    BY DEF Inv, Types, Looping, LoopType
  <2>2. \A x \in Node : Contains(todo, x) => Contains(lists[loop.head], x)
    BY DEF Inv, Cursors
  <2>3. \A i \in 1 .. Len(todo) : next'[todo[i]] = next[todo[i]]
    <3> TAKE i \in 1 .. Len(todo)
    <3>1. todo[i] \in Node /\ todo[i] \in Anchor /\ Contains(todo, todo[i])
      BY <2>1, ElementOfSeq DEF Contains, Anchor
    <3>2. QED BY <1>3, <2>1, <2>2, <3>1
  <2>4. Chain(next', loop.head, todo)
    BY <2>3 DEF Inv, Cursors, Chain
  <2>5. lists'[loop.head] = lists[loop.head]
    BY <1>1, <2>1
  <2>6. QED BY <1>1, <2>4, <2>5 DEF Inv, Cursors
<1>7. UnlinkedIsNull'
  <2> SUFFICES ASSUME NEW x \in Node, \A g \in List : ~Contains(lists'[g], x)
               PROVE  next'[x] = NULL /\ prev'[x] = NULL
    BY DEF UnlinkedIsNull, Listed
  <2>1. CASE x = e
    BY <1>1, <2>1
  <2>2. CASE x # e
    <3>1. \A g \in List : ~Contains(lists[g], x)
      BY <1>1, <2>2
    <3>2. x \in Anchor /\ x # h
      BY ListAssumption DEF Anchor
    <3>3. next'[x] = next[x] /\ prev'[x] = prev[x]
      BY <1>1, <2>2, <3>1, <3>2
    <3>4. QED BY <3>1, <3>3 DEF Inv, UnlinkedIsNull, Listed
  <2>3. QED BY <2>1, <2>2
<1>8. Apart(lists)'
  OBVIOUS
<1>9. QED BY <1>2, <1>4, <1>5, <1>6, <1>7, <1>8 DEF Inv

LEMMA PutInv ==
  ASSUME Inv, NEW h \in ready, NEW e \in Node, MayLink(e, h),
         NEW k, NEW z, Grown(lists[h], e, k, z),
         next' = LinkedNext(next, e, Place(h, lists[h], k), Place(h, lists[h], k + 1)),
         prev' = LinkedPrev(prev, e, Place(h, lists[h], k), Place(h, lists[h], k + 1)),
         lists' = [lists EXCEPT ![h] = z], UNCHANGED <<loop, ready, todo>>
  PROVE  Inv'
<1>1. h \in List /\ lists \in [List -> Seq(Node)] /\ lists[h] \in Seq(Node) /\ Once(lists[h])
      /\ Apart(lists) /\ Ring(next, prev, h, lists[h]) /\ next \in Pointers /\ prev \in Pointers
  BY DEF Inv, Types, Apart, Rings
<1>2. h # loop.head /\ \A g \in List : ~Contains(lists[g], e)
  BY DEF MayLink, Listed
<1>3. lists' \in [List -> Seq(Node)] /\ Apart(lists)'
  BY <1>1, <1>2, ApartPut
<1>4. \A x : Contains(z, x) <=> Contains(lists[h], x) \/ x = e
  BY <1>1, <1>2, GrownNodes
<1>5. /\ next' \in Pointers /\ prev' \in Pointers /\ Ring(next', prev', h, z)
      /\ \A a \in Anchor : a # e /\ a # h /\ ~Contains(lists[h], a)
                           => next'[a] = next[a] /\ prev'[a] = prev[a]
  BY <1>1, <1>2, PutPointers
<1>6. QED BY <1>2, <1>3, <1>4, <1>5, CallInv

LEMMA FirstAndLast ==
  ASSUME NEW h \in List, NEW s \in Seq(Node), NEW nx, NEW pv, Ring(nx, pv, h, s)
  PROVE  /\ Place(h, s, 0) = h /\ Place(h, s, 1) = nx[h]
         /\ Place(h, s, Len(s)) = pv[h] /\ Place(h, s, Len(s) + 1) = h
<1>1. Len(s) \in Nat /\ Place(h, s, 0) = h /\ Place(h, s, Len(s) + 1) = h
  BY LenProperties DEF Place
<1>2. 0 \in 0 .. Len(s) /\ Len(s) \in 0 .. Len(s)
  BY <1>1
<1>3. nx[Place(h, s, 0)] = Place(h, s, 0 + 1) /\ pv[Place(h, s, Len(s) + 1)] = Place(h, s, Len(s))
  BY <1>2 DEF Ring
<1>4. QED BY <1>1, <1>3

LEMMA LinkInv ==
  ASSUME Inv, NEW e \in Node, NEW h \in List, Link(e, h) \/ LinkTail(e, h)
  PROVE  Inv'
<1>1. MayLink(e, h) /\ h \in ready /\ lists[h] \in Seq(Node) /\ Ring(next, prev, h, lists[h])
      /\ UNCHANGED <<loop, ready, todo>>
  BY DEF Link, LinkTail, MayLink, Inv, Types, Rings
<1>2. Len(lists[h]) \in Nat /\ 0 + 1 = 1
  BY <1>1, LenProperties
<1>3. CASE Link(e, h)
  <2>1. Grown(lists[h], e, 0, <<e>> \o lists[h])
    BY <1>1, PrependGrows
  <2>2. next' = LinkedNext(next, e, h, next[h]) /\ prev' = LinkedPrev(prev, e, h, next[h])
        /\ lists' = [lists EXCEPT ![h] = <<e>> \o lists[h]]
    BY <1>3 DEF Link, list_add, list_add_between, LinkedNext, LinkedPrev
  <2>3. Place(h, lists[h], 0) = h /\ Place(h, lists[h], 0 + 1) = next[h]
    BY <1>1, FirstAndLast
  <2>4. QED BY <1>1, <2>1, <2>2, <2>3, PutInv
<1>4. CASE LinkTail(e, h)
  <2>1. Grown(lists[h], e, Len(lists[h]), Append(lists[h], e))
    BY <1>1, AppendGrows
  <2>2. next' = LinkedNext(next, e, prev[h], h) /\ prev' = LinkedPrev(prev, e, prev[h], h)
        /\ lists' = [lists EXCEPT ![h] = Append(lists[h], e)]
    BY <1>4 DEF LinkTail, list_add_tail, list_add_between, LinkedNext, LinkedPrev
  <2>3. Place(h, lists[h], Len(lists[h])) = prev[h] /\ Place(h, lists[h], Len(lists[h]) + 1) = h
    BY <1>1, FirstAndLast
  <2>4. QED BY <1>1, <2>1, <2>2, <2>3, PutInv
<1>5. QED BY <1>3, <1>4

LEMMA UnlinkInv ==
  ASSUME Inv, NEW h \in List, NEW k \in DOMAIN lists[h], Unlink(h, k)
  PROVE  Inv'
<1> DEFINE s == lists[h]
           z == RemoveAt(s, k)
           e == s[k]
<1>1. s \in Seq(Node) /\ Once(s) /\ lists \in [List -> Seq(Node)] /\ Apart(lists)
      /\ next \in Pointers /\ prev \in Pointers /\ h # loop.head
      /\ lists' = [lists EXCEPT ![h] = z] /\ UNCHANGED <<loop, ready, todo>>
  BY DEF Unlink, Inv, Types, Apart
<1>2. k \in 1 .. Len(s) /\ e \in Node /\ s # <<>> /\ Contains(s, e)
  BY <1>1, ElementOfSeq, EmptySeq, LenProperties DEF Contains
<1>3. h \in ready /\ Ring(next, prev, h, s)
  <2>1. h \in ready
    BY <1>1, <1>2, NonEmptyReady DEF Inv
  <2>2. QED BY <2>1 DEF Inv, Rings
<1>4. Shrunk(s, k, z)
  BY <1>1, <1>2, RemoveAtShrinks
<1>5. next' = UnlinkedNext(next, prev, e) /\ prev' = UnlinkedPrev(next, prev, e)
  BY DEF Unlink, list_del, UnlinkedNext, UnlinkedPrev
<1> HIDE DEF s, z
<1>6. /\ next' \in Pointers /\ prev' \in Pointers /\ Ring(next', prev', h, z)
      /\ next'[e] = NULL /\ prev'[e] = NULL
      /\ \A a \in Anchor : a # h /\ ~Contains(s, a) => next'[a] = next[a] /\ prev'[a] = prev[a]
  BY <1>1, <1>3, <1>4, <1>5, TakePointers
<1>7. lists' \in [List -> Seq(Node)] /\ Apart(lists)'
  BY <1>1, <1>4, ApartTake DEF s
<1>8. \A x \in Node : x # e => (Contains(z, x) <=> Contains(s, x))
  BY <1>1, <1>4, ShrunkNodes
<1>9. \A g \in List \ {h} : ~Contains(lists[g], e)
  BY <1>1, <1>2 DEF Apart, s
<1> HIDE DEF e
<1>10. QED BY <1>1, <1>2, <1>3, <1>6, <1>7, <1>8, <1>9, CallInv DEF s

----------------------------------------------------------------------------
(* The invariant is inductive: the loops.                                  *)

LEMMA LoopIsLoop ==
  /\ NoLoop \notin LoopType
  /\ Types /\ Looping => loop \in LoopType /\ loop.head \in List /\ loop.head \in Anchor
<1>1. \A r \in LoopType : r.head \in List
  BY DEF LoopType
<1>2. NULL \notin List
  BY ListAssumption
<1>3. NoLoop.head = NULL
  BY DEF NoLoop
<1>4. QED BY <1>1, <1>2, <1>3 DEF Types, Looping, Anchor

LEMMA BeginInv ==
  ASSUME Inv, NEW h \in List, NEW body \in Bodies, NEW into \in List \cup {NULL},
         Begin(h, body, into)
  PROVE  Inv'
<1> DEFINE s == lists[h]
<1>1. /\ ~Looping /\ loop = NoLoop /\ h \in ready /\ s \in Seq(Node) /\ Once(s)
      /\ Ring(next, prev, h, s) /\ next \in Pointers /\ prev \in Pointers /\ Len(s) \in Nat
      /\ next' = next /\ prev' = prev /\ lists' = lists /\ todo' = s
      /\ ready' = IF body = "adopt" THEN ready \ {h} ELSE ready
      /\ loop' = [head |-> h, body |-> body, into |-> into,
                  pos |-> next[h], n |-> At(next, next[h])]
  BY LenProperties DEF Begin, Inv, Types, Apart, Rings, ptrvars, Looping
<1>2. loop'.head = h /\ loop'.body = body /\ loop'.into = into
      /\ loop'.pos = next[h] /\ loop'.n = At(next, next[h])
  BY <1>1
<1>3. Place(h, s, 1) = next[h] /\ next[h] \in Anchor
  <2>1. Place(h, s, 1) = next[h] /\ 1 \in 0 .. Len(s) + 1
    BY <1>1, FirstAndLast
  <2>2. QED BY <1>1, <2>1, Places
<1>4. \A i \in 1 .. Len(s) : i \in 0 .. Len(s) /\ Place(h, s, i) = s[i]
  BY <1>1 DEF Place
<1>5. Chain(next, h, s)
  BY <1>1, <1>4 DEF Ring, Chain
<1>6. s # <<>> => At(next, next[h]) = Place(h, s, 2)
  <2> SUFFICES ASSUME s # <<>> PROVE At(next, next[h]) = Place(h, s, 2)
    OBVIOUS
  <2>1. 1 \in 1 .. Len(s) /\ 1 + 1 = 2
    BY <1>1, EmptySeq
  <2>2. s[1] = next[h] /\ next[s[1]] = Place(h, s, 1 + 1)
    BY <1>3, <1>4, <1>5, <2>1 DEF Chain
  <2>3. QED BY <1>3, <2>1, <2>2 DEF At
<1>7. loop' \in LoopType
  <2>1. At(next, next[h]) \in Anchor \cup {NULL}
    BY <1>1, <1>3 DEF At, Pointers
  <2>2. QED BY <1>1, <1>3, <2>1 DEF LoopType
<1>8. Types' /\ Apart(lists)' /\ Rings' /\ UnlinkedIsNull'
  BY <1>1, <1>7 DEF Inv, Types, Apart, Rings, UnlinkedIsNull, Listed
<1>9. Looping'
  BY <1>7, LoopIsLoop DEF Looping
<1>10. Emptied'
  BY <1>1, <1>2, <1>9 DEF Inv, Emptied, Adopting
<1>11. /\ body = "adopt" => into \in ready \ {h}
  BY DEF Begin
<1>12. Cursors'
  BY <1>1, <1>2, <1>3, <1>5, <1>6, <1>11 DEF Cursors
<1>13. QED BY <1>8, <1>10, <1>12 DEF Inv

\* What the cursors of a loop tell of what it has yet to do.
LEMMA AtCursor ==
  ASSUME Inv, Looping
  PROVE  /\ loop.pos = IF todo = <<>> THEN loop.head ELSE todo[1]
         /\ todo # <<>> => todo[1] \in Node /\ Contains(todo, todo[1])
<1>1. loop.head \in List /\ todo \in Seq(Node) /\ loop.pos = Place(loop.head, todo, 1)
      /\ Len(todo) \in Nat
  BY LoopIsLoop, LenProperties DEF Inv, Cursors, Types
<1>2. todo = <<>> <=> 1 \notin 1 .. Len(todo)
  BY <1>1, EmptySeq
<1>3. QED BY <1>1, <1>2, ElementOfSeq DEF Place, Contains

LEMMA EndInv ==
  ASSUME Inv, End
  PROVE  Inv'
<1>1. Looping /\ loop.pos = loop.head /\ loop' = NoLoop /\ loop.head \in List
      /\ UNCHANGED <<next, prev, lists, ready, todo>>
  BY LoopIsLoop DEF End, ptrvars, Inv
<1>2. todo = <<>>
  BY <1>1, AtCursor, ListAssumption
<1>3. Types' /\ Apart(lists)' /\ Rings' /\ UnlinkedIsNull'
  BY <1>1 DEF Inv, Types, Apart, Rings, UnlinkedIsNull, Listed
<1>4. Emptied'
  BY <1>1, <1>2 DEF Inv, Emptied, Cursors, Adopting
<1>5. Cursors'
  BY <1>1 DEF Cursors, Looping
<1>6. QED BY <1>3, <1>4, <1>5 DEF Inv

\* The loop goes on to the next node, for the body has left alone the pointers
\* of those that are yet to come.
LEMMA Advanced ==
  ASSUME Inv, Looping, loop.pos # loop.head, Advance, todo' = Tail(todo),
         next' \in Pointers,
         \A i \in 2 .. Len(todo) : next'[todo[i]] = next[todo[i]]
  PROVE  /\ todo # <<>> /\ loop.pos = todo[1] /\ todo[1] \in Node /\ Contains(todo, todo[1])
         /\ todo' \in Seq(Node) /\ Once(todo') /\ Looping' /\ loop' \in LoopType
         /\ loop'.head = loop.head /\ loop'.body = loop.body /\ loop'.into = loop.into
         /\ Chain(next', loop.head, todo')
         /\ loop'.pos = Place(loop.head, todo', 1)
         /\ todo' # <<>> => loop'.n = Place(loop.head, todo', 2)
         /\ \A x : Contains(todo', x) <=> Contains(todo, x) /\ x # todo[1]
<1> DEFINE t == Tail(todo)
           h == loop.head
<1>1. loop \in LoopType /\ h \in List /\ h \in Anchor /\ todo \in Seq(Node) /\ Once(todo)
      /\ Chain(next, h, todo) /\ next \in Pointers
  BY LoopIsLoop DEF Inv, Types, Cursors
<1>2. todo # <<>> /\ loop.pos = todo[1] /\ todo[1] \in Node /\ Contains(todo, todo[1])
  BY AtCursor
<1>3. Len(todo) \in Nat /\ Len(todo) >= 1 /\ loop.n = Place(h, todo, 2)
  BY <1>1, <1>2, LenProperties, EmptySeq DEF Inv, Cursors
<1>4. /\ t \in Seq(Node) /\ Len(t) = Len(todo) - 1
      /\ \A i \in 1 .. Len(todo) - 1 : t[i] = todo[i + 1]
      /\ Once(t) /\ \A x : Contains(t, x) <=> Contains(todo, x) /\ x # todo[1]
  <2>1. Shrunk(todo, 1, t)
    BY <1>1, <1>2, TailShrinks
  <2>2. Once(t) /\ \A x : Contains(t, x) <=> Contains(todo, x) /\ x # todo[1]
    BY <1>1, <2>1, ShrunkNodes
  <2>3. QED BY <1>1, <1>2, <2>2, HeadTailProperties
<1> HIDE DEF t
<1>5. \A i \in 1 .. Len(todo) : Place(h, t, i) = Place(h, todo, i + 1)
  <2> TAKE i \in 1 .. Len(todo)
  <2>1. CASE i \in 1 .. Len(todo) - 1
    <3>1. i \in 1 .. Len(t) /\ i + 1 \in 1 .. Len(todo) /\ t[i] = todo[i + 1]
      BY <1>3, <1>4, <2>1
    <3>2. QED BY <3>1 DEF Place
  <2>2. CASE i = Len(todo)
    <3>1. i \notin 1 .. Len(t) /\ i + 1 \notin 1 .. Len(todo)
      BY <1>3, <1>4, <2>2
    <3>2. QED BY <3>1 DEF Place
  <2>3. QED BY <1>3, <2>1, <2>2
<1>6. ASSUME NEW i \in 1 .. Len(t) PROVE next'[t[i]] = Place(h, t, i + 1)
  <2>1. i + 1 \in 2 .. Len(todo) /\ i + 1 \in 1 .. Len(todo) /\ t[i] = todo[i + 1]
    BY <1>3, <1>4
  <2>2. next'[t[i]] = next[todo[i + 1]]
    BY <2>1
  <2>3. next[todo[i + 1]] = Place(h, todo, (i + 1) + 1)
    BY <1>1, <2>1 DEF Chain
  <2>4. Place(h, t, i + 1) = Place(h, todo, (i + 1) + 1)
    BY <1>5, <2>1
  <2>5. QED BY <2>2, <2>3, <2>4
<1>7. loop.n = Place(h, t, 1)
  <2>1. 1 \in 1 .. Len(todo) /\ 1 + 1 = 2
    BY <1>3
  <2>2. QED BY <1>3, <1>5, <2>1
<1>8. loop.n \in Anchor
  <2>1. 1 \in 0 .. Len(t) + 1
    BY <1>3, <1>4
  <2>2. QED BY <1>1, <1>4, <1>7, <2>1, Places
<1>9. t # <<>> => At(next', loop.n) = Place(h, t, 2)
  <2> SUFFICES ASSUME t # <<>> PROVE At(next', loop.n) = Place(h, t, 2)
    OBVIOUS
  <2>1. 1 \in 1 .. Len(t) /\ 1 + 1 = 2
    BY <1>4, LenProperties, EmptySeq
  <2>2. loop.n = t[1]
    BY <1>7, <2>1 DEF Place
  <2>3. QED BY <1>6, <1>8, <2>1, <2>2 DEF At
<1>10. loop' = [loop EXCEPT !.pos = loop.n, !.n = At(next', loop.n)]
  BY DEF Advance
<1>11. At(next', loop.n) \in Anchor \cup {NULL}
  BY <1>8 DEF At, Pointers
<1>12. loop' \in LoopType /\ loop'.head = loop.head /\ loop'.body = loop.body
       /\ loop'.into = loop.into /\ loop'.pos = loop.n /\ loop'.n = At(next', loop.n)
  BY <1>1, <1>8, <1>10, <1>11 DEF LoopType
<1>13. Looping'
  BY <1>12, LoopIsLoop DEF Looping
<1>14. QED BY <1>2, <1>4, <1>6, <1>7, <1>9, <1>12, <1>13 DEF Chain, t

LEMMA LookInv ==
  ASSUME Inv, Step, Look(loop.pos)
  PROVE  Inv'
<1>1. /\ Looping /\ loop.pos # loop.head /\ Advance /\ todo' = Tail(todo)
      /\ next' = next /\ prev' = prev /\ lists' = lists /\ ready' = ready
      /\ loop.body = "look" /\ next \in Pointers
  BY DEF Step, Look, ptrvars, Inv, Types
<1>2. /\ todo' \in Seq(Node) /\ Once(todo') /\ Looping' /\ loop' \in LoopType
      /\ loop'.head = loop.head /\ loop'.body = loop.body /\ loop'.into = loop.into
      /\ Chain(next', loop.head, todo') /\ loop'.pos = Place(loop.head, todo', 1)
      /\ todo' # <<>> => loop'.n = Place(loop.head, todo', 2)
      /\ \A x : Contains(todo', x) => Contains(todo, x)
  BY <1>1, Advanced
<1>3. Types' /\ Apart(lists)' /\ Rings' /\ UnlinkedIsNull'
  BY <1>1, <1>2 DEF Inv, Types, Apart, Rings, UnlinkedIsNull, Listed
<1>4. Emptied'
  BY <1>1, <1>2 DEF Inv, Emptied, Adopting
<1>5. Cursors'
  BY <1>1, <1>2 DEF Inv, Cursors
<1>6. QED BY <1>3, <1>4, <1>5 DEF Inv

LEMMA AdoptInv ==
  ASSUME Inv, Step, Adopt(loop.pos)
  PROVE  Inv'
<1> DEFINE h == loop.head
           f == loop.into
           s == lists[h]
           d == lists[f]
           e == todo[1]
           z == Append(d, e)
           l == [lists EXCEPT ![h] = Tail(s)]
<1>1. /\ Looping /\ loop.pos # h /\ Advance /\ todo' = Tail(todo) /\ ready' = ready
      /\ loop.body = "adopt" /\ h \in List /\ h \notin ready /\ f \in ready /\ f \in List
      /\ h # f /\ todo = s /\ next \in Pointers /\ prev \in Pointers
      /\ lists \in [List -> Seq(Node)] /\ Apart(lists) /\ ready \in SUBSET List
  BY LoopIsLoop DEF Step, Adopt, Inv, Types, Cursors
<1>2. todo # <<>> /\ loop.pos = e /\ e \in Node /\ Contains(s, e)
  BY <1>1, AtCursor
<1>3. /\ s \in Seq(Node) /\ Once(s) /\ d \in Seq(Node) /\ Once(d) /\ Ring(next, prev, f, d)
  BY <1>1 DEF Apart, Inv, Rings
<1>4. ~Contains(d, e)
  BY <1>1, <1>2 DEF Apart
<1>5. Grown(d, e, Len(d), z) /\ Shrunk(s, 1, Tail(s))
  BY <1>1, <1>2, <1>3, AppendGrows, TailShrinks
<1>6. /\ next' = LinkedNext(next, e, prev[f], f) /\ prev' = LinkedPrev(prev, e, prev[f], f)
      /\ lists' = [lists EXCEPT ![h] = Tail(s), ![f] = Append(d, e)]
  <2>1. list_add_tail(e, f) /\ lists' = [lists EXCEPT ![h] = Tail(@), ![f] = Append(@, e)]
    BY <1>2 DEF Adopt
  <2>2. QED BY <1>1, <2>1 DEF list_add_tail, list_add_between, LinkedNext, LinkedPrev
<1>7. Place(f, d, Len(d)) = prev[f] /\ Place(f, d, Len(d) + 1) = f
  BY <1>1, <1>3, FirstAndLast
<1> HIDE DEF z, h, f, e, s, d
<1>8. /\ next' \in Pointers /\ prev' \in Pointers /\ Ring(next', prev', f, z)
      /\ \A a \in Anchor : a # e /\ a # f /\ ~Contains(d, a)
                           => next'[a] = next[a] /\ prev'[a] = prev[a]
  BY <1>1, <1>2, <1>3, <1>4, <1>5, <1>6, <1>7, PutPointers
<1>9. /\ \A x : Contains(z, x) <=> Contains(d, x) \/ x = e
  BY <1>2, <1>3, <1>4, <1>5, GrownNodes
<1>10. /\ \A x : Contains(Tail(s), x) <=> Contains(s, x) /\ x # s[1]
  BY <1>3, <1>5, ShrunkNodes
<1>11. s[1] = e
  BY <1>1 DEF e
<1>12. l \in [List -> Seq(Node)] /\ Apart(l) /\ l[h] = Tail(s) /\ l[f] = d
       /\ \A g \in List \ {h} : l[g] = lists[g]
  <2>1. Tail(s) \in Seq(Node)
    BY <1>5 DEF Shrunk
  <2>2. l \in [List -> Seq(Node)] /\ Apart(l)
    BY <1>1, <1>5, ApartTake DEF s
  <2>3. l[h] = Tail(s) /\ \A g \in List \ {h} : l[g] = lists[g]
    BY <1>1, <2>1
  <2> HIDE DEF l
  <2>4. l[f] = d
    BY <1>1, <2>3 DEF d
  <2>5. QED BY <2>2, <2>3, <2>4
<1>13. \A g \in List : ~Contains(l[g], e)
  <2> SUFFICES ASSUME NEW g \in List PROVE ~Contains(l[g], e)
    OBVIOUS
  <2>1. CASE g = h
    BY <1>10, <1>11, <1>12, <2>1
  <2>2. CASE g # h
    BY <1>1, <1>2, <1>12, <2>2 DEF Apart, s
  <2>3. QED BY <2>1, <2>2
<1>14. lists' = [l EXCEPT ![f] = z]
  BY <1>1, <1>6 DEF z
<1>15. lists' \in [List -> Seq(Node)] /\ Apart(lists')
  <2> HIDE DEF l
  <2>1. Grown(l[f], e, Len(d), z)
    BY <1>5, <1>12
  <2>2. QED BY <1>1, <1>2, <1>12, <1>13, <1>14, <2>1, ApartPut
<1>16. lists'[f] = z /\ lists'[h] = Tail(s)
       /\ \A g \in List : g # h /\ g # f => lists'[g] = lists[g]
  <2>1. z \in Seq(Node)
    BY <1>5 DEF Grown
  <2>2. QED BY <1>1, <1>12, <1>14, <2>1
<1>17. \A i \in 2 .. Len(todo) : next'[todo[i]] = next[todo[i]]
  <2> TAKE i \in 2 .. Len(todo)
  <2>1. i \in 1 .. Len(s) /\ i # 1 /\ 1 \in 1 .. Len(s) /\ todo[i] = s[i]
    BY <1>1, <1>3, LenProperties
  <2>2. s[i] \in Node /\ Contains(s, s[i])
    BY <1>3, <2>1, ElementOfSeq DEF Contains
  <2>3. s[i] # e
    BY <1>3, <1>11, <2>1 DEF Once
  <2>4. ~Contains(d, s[i])
    BY <1>1, <2>2 DEF Apart, s, d
  <2>5. s[i] \in Anchor /\ s[i] # f
    BY <1>1, <2>2, ListAssumption DEF Anchor
  <2>6. QED BY <1>8, <2>1, <2>3, <2>4, <2>5
<1>18. /\ todo' \in Seq(Node) /\ Once(todo') /\ Looping' /\ loop' \in LoopType
       /\ loop'.head = h /\ loop'.body = "adopt" /\ loop'.into = f
       /\ Chain(next', h, todo') /\ loop'.pos = Place(h, todo', 1)
       /\ todo' # <<>> => loop'.n = Place(h, todo', 2)
  BY <1>1, <1>8, <1>17, Advanced DEF h, f
<1>19. Types'
  BY <1>1, <1>8, <1>15, <1>18 DEF Types
<1>20. Rings'
  <2> SUFFICES ASSUME NEW g \in ready PROVE Ring(next', prev', g, lists'[g])
    BY <1>1 DEF Rings
  <2>1. CASE g = f
    BY <1>8, <1>16, <2>1
  <2>2. CASE g # f
    <3>1. g \in List /\ g # h /\ lists[g] \in Seq(Node) /\ Once(lists[g])
          /\ Ring(next, prev, g, lists[g]) /\ lists'[g] = lists[g]
      BY <1>1, <1>16, <2>2 DEF Inv, Apart, Rings
    <3>2. ASSUME NEW a \in Anchor, a = g \/ Contains(lists[g], a)
          PROVE  a # e /\ a # f /\ ~Contains(d, a)
      <4>1. CASE a = g
        <5>1. a \notin Node
          BY <3>1, <4>1, ListAssumption
        <5>2. QED BY <1>2, <1>3, <2>2, <4>1, <5>1, ElementOfSeq DEF Contains
      <4>2. CASE Contains(lists[g], a)
        <5>1. a \in Node
          BY <3>1, <4>2, ElementOfSeq DEF Contains
        <5>2. a # f
          BY <1>1, <5>1, ListAssumption
        <5>3. a # e /\ ~Contains(d, a)
          BY <1>1, <1>2, <2>2, <3>1, <4>2, <5>1 DEF Apart, s, d
        <5>4. QED BY <5>2, <5>3
      <4>3. QED BY <3>2, <4>1, <4>2
    <3>3. QED BY <1>8, <3>1, <3>2, OtherRing
  <2>3. QED BY <2>1, <2>2
<1>21. Emptied'
  <2> SUFFICES ASSUME NEW g \in List \ ready, g # h PROVE lists'[g] = <<>>
    BY <1>1, <1>18 DEF Emptied, Adopting
  <2>1. g # f /\ lists'[g] = lists[g]
    BY <1>1, <1>16
  <2>2. QED BY <2>1 DEF Inv, Emptied, h
<1>22. Cursors'
  <2>1. todo' = lists'[h]
    BY <1>1, <1>16
  <2>2. QED BY <1>1, <1>18, <2>1 DEF Cursors
<1>23. UnlinkedIsNull'
  <2> SUFFICES ASSUME NEW x \in Node, \A g \in List : ~Contains(lists'[g], x)
               PROVE  next'[x] = NULL /\ prev'[x] = NULL
    BY DEF UnlinkedIsNull, Listed
  <2>1. x # e /\ ~Contains(d, x)
    BY <1>1, <1>9, <1>16
  <2>2. \A g \in List : ~Contains(lists[g], x)
    <3> SUFFICES ASSUME NEW g \in List PROVE ~Contains(lists[g], x)
      OBVIOUS
    <3>1. CASE g = f
      BY <2>1, <3>1 DEF d
    <3>2. CASE g = h
      BY <1>1, <1>10, <1>11, <1>16, <2>1, <3>2 DEF s
    <3>3. CASE g # f /\ g # h
      BY <1>16, <3>3
    <3>4. QED BY <3>1, <3>2, <3>3
  <2>3. x \in Anchor /\ x # f
    BY <1>1, ListAssumption DEF Anchor
  <2>4. next'[x] = next[x] /\ prev'[x] = prev[x]
    BY <1>8, <2>1, <2>3
  <2>5. QED BY <2>2, <2>4 DEF Inv, UnlinkedIsNull, Listed
<1>24. QED BY <1>15, <1>19, <1>20, <1>21, <1>22, <1>23 DEF Inv

LEMMA ReleaseInv ==
  ASSUME Inv, Step, Release(loop.pos)
  PROVE  Inv'
<1> DEFINE h == loop.head
           s == lists[h]
           e == s[1]
           z == Tail(s)
<1>1. /\ Looping /\ loop.pos # h /\ Advance /\ todo' = z /\ ready' = ready
      /\ loop.body = "unlink" /\ h \in List /\ h \in ready /\ todo = s
      /\ next \in Pointers /\ prev \in Pointers
      /\ lists \in [List -> Seq(Node)] /\ Apart(lists) /\ ready \in SUBSET List
      /\ lists' = [lists EXCEPT ![h] = z]
  BY LoopIsLoop DEF Step, Release, Inv, Types, Cursors
<1>2. s # <<>> /\ loop.pos = e /\ e \in Node /\ Contains(s, e)
  BY <1>1, AtCursor
<1>3. s \in Seq(Node) /\ Once(s) /\ Ring(next, prev, h, s)
  BY <1>1 DEF Apart, Inv, Rings
<1>4. Shrunk(s, 1, z)
  BY <1>2, <1>3, TailShrinks
<1>5. next' = UnlinkedNext(next, prev, s[1]) /\ prev' = UnlinkedPrev(next, prev, s[1])
  BY <1>2 DEF Release, list_del, UnlinkedNext, UnlinkedPrev
<1> HIDE DEF h, s, z
<1>6. /\ next' \in Pointers /\ prev' \in Pointers /\ Ring(next', prev', h, z)
      /\ next'[e] = NULL /\ prev'[e] = NULL
      /\ \A a \in Anchor : a # h /\ ~Contains(s, a) => next'[a] = next[a] /\ prev'[a] = prev[a]
      /\ \A i \in 2 .. Len(s) : next'[s[i]] = next[s[i]]
  BY <1>1, <1>3, <1>4, <1>5, TakePointers
<1>7. lists' \in [List -> Seq(Node)] /\ Apart(lists')
  BY <1>1, <1>4, ApartTake DEF s
<1>8. z \in Seq(Node) /\ \A x : Contains(z, x) <=> Contains(s, x) /\ x # e
  BY <1>3, <1>4, ShrunkNodes DEF Shrunk
<1>9. lists'[h] = z /\ \A g \in List \ {h} : lists'[g] = lists[g]
  BY <1>1, <1>8
<1>10. /\ todo' \in Seq(Node) /\ Once(todo') /\ Looping' /\ loop' \in LoopType
       /\ loop'.head = h /\ loop'.body = "unlink" /\ loop'.into = loop.into
       /\ Chain(next', h, todo') /\ loop'.pos = Place(h, todo', 1)
       /\ todo' # <<>> => loop'.n = Place(h, todo', 2)
  <2>1. todo' = Tail(todo)
    BY <1>1 DEF z
  <2>2. \A i \in 2 .. Len(todo) : next'[todo[i]] = next[todo[i]]
    BY <1>1, <1>6
  <2>3. QED BY <1>1, <1>6, <2>1, <2>2, Advanced DEF h
<1>11. Types'
  BY <1>1, <1>6, <1>7, <1>10 DEF Types
<1>12. Rings'
  <2> SUFFICES ASSUME NEW g \in ready PROVE Ring(next', prev', g, lists'[g])
    BY <1>1 DEF Rings
  <2>1. CASE g = h
    BY <1>6, <1>9, <2>1
  <2>2. CASE g # h
    <3>1. g \in List /\ lists[g] \in Seq(Node) /\ Once(lists[g])
          /\ Ring(next, prev, g, lists[g]) /\ lists'[g] = lists[g]
      BY <1>1, <1>9, <2>2 DEF Inv, Apart, Rings
    <3>2. ASSUME NEW a \in Anchor, a = g \/ Contains(lists[g], a)
          PROVE  a # h /\ ~Contains(s, a)
      <4>1. CASE a = g
        <5>1. a \notin Node
          BY <3>1, <4>1, ListAssumption
        <5>2. QED BY <1>3, <2>2, <4>1, <5>1, ElementOfSeq DEF Contains
      <4>2. CASE Contains(lists[g], a)
        <5>1. a \in Node
          BY <3>1, <4>2, ElementOfSeq DEF Contains
        <5>2. a # h
          BY <1>1, <5>1, ListAssumption
        <5>3. ~Contains(s, a)
          BY <1>1, <2>2, <3>1, <4>2, <5>1 DEF Apart, s
        <5>4. QED BY <5>2, <5>3
      <4>3. QED BY <3>2, <4>1, <4>2
    <3>3. QED BY <1>6, <3>1, <3>2, OtherRing
  <2>3. QED BY <2>1, <2>2
<1>13. Emptied'
  <2> SUFFICES ASSUME NEW g \in List \ ready PROVE lists'[g] = <<>>
    BY <1>1 DEF Emptied
  <2>1. g # h /\ lists'[g] = lists[g]
    BY <1>1, <1>9
  <2>2. QED BY <1>1, <2>1 DEF Inv, Emptied, Adopting
<1>14. Cursors'
  <2>1. todo' = lists'[h]
    BY <1>1, <1>9
  <2>2. QED BY <1>1, <1>10, <2>1 DEF Cursors
<1>15. UnlinkedIsNull'
  <2> SUFFICES ASSUME NEW x \in Node, \A g \in List : ~Contains(lists'[g], x)
               PROVE  next'[x] = NULL /\ prev'[x] = NULL
    BY DEF UnlinkedIsNull, Listed
  <2>1. CASE x = e
    BY <1>6, <2>1
  <2>2. CASE x # e
    <3>1. ~Contains(s, x)
      BY <1>1, <1>8, <1>9, <2>2
    <3>2. \A g \in List : ~Contains(lists[g], x)
      BY <1>9, <3>1 DEF s
    <3>3. x \in Anchor /\ x # h
      BY <1>1, ListAssumption DEF Anchor
    <3>4. next'[x] = next[x] /\ prev'[x] = prev[x]
      BY <1>6, <3>1, <3>3
    <3>5. QED BY <3>2, <3>4 DEF Inv, UnlinkedIsNull, Listed
  <2>3. QED BY <2>1, <2>2
<1>16. QED BY <1>7, <1>11, <1>12, <1>13, <1>14, <1>15 DEF Inv

----------------------------------------------------------------------------
(* The theorems.                                                           *)

LEMMA InvInit == ListInit => Inv
<1> SUFFICES ASSUME ListInit PROVE Inv
  OBVIOUS
<1>1. /\ next = [a \in Anchor |-> NULL] /\ prev = [a \in Anchor |-> NULL] /\ ~Looping
      /\ lists = [h \in List |-> <<>>] /\ ready = {} /\ todo = <<>> /\ loop = NoLoop
  BY DEF ListInit, Looping
<1>2. <<>> \in Seq(Node) /\ \A e : ~Contains(<<>>, e)
  BY EmptySeq DEF Contains
<1>3. Types
  BY <1>1, <1>2 DEF Types, Pointers
<1>4. Apart(lists)
  BY <1>1, <1>2 DEF Apart, Once
<1>5. Rings /\ Emptied /\ Cursors
  BY <1>1 DEF Rings, Emptied, Cursors
<1>6. UnlinkedIsNull
  BY <1>1 DEF UnlinkedIsNull, Anchor
<1>7. QED BY <1>3, <1>4, <1>5, <1>6 DEF Inv

LEMMA InvNext == Inv /\ [ListNext]_listvars => Inv'
<1> SUFFICES ASSUME Inv, [ListNext]_listvars PROVE Inv'
  OBVIOUS
<1>1. ASSUME NEW h \in List, InitHead(h) PROVE Inv'
  BY <1>1, InitHeadInv
<1>2. ASSUME NEW e \in Node, NEW h \in List, Link(e, h) \/ LinkTail(e, h) PROVE Inv'
  BY <1>2, LinkInv
<1>3. ASSUME NEW h \in List, NEW k \in DOMAIN lists[h], Unlink(h, k) PROVE Inv'
  BY <1>3, UnlinkInv
<1>4. ASSUME NEW h \in List, NEW body \in Bodies, NEW into \in List \cup {NULL},
             Begin(h, body, into)
      PROVE  Inv'
  BY <1>4, BeginInv
<1>5. CASE Step
  <2>1. Look(loop.pos) \/ Adopt(loop.pos) \/ Release(loop.pos)
    BY <1>5 DEF Step
  <2>2. QED BY <1>5, <2>1, LookInv, AdoptInv, ReleaseInv
<1>6. CASE End
  BY <1>6, EndInv
<1>7. CASE UNCHANGED listvars
  BY <1>7 DEF listvars, ptrvars, Inv, Types, Apart, Rings, Emptied, Cursors, UnlinkedIsNull,
              Looping, Adopting, Listed
<1>8. QED BY <1>1, <1>2, <1>3, <1>4, <1>5, <1>6, <1>7 DEF ListNext

LEMMA InvHolds == ListSpec => []Inv
BY InvInit, InvNext, PTL DEF ListSpec

LEMMA RingAnswers ==
  ASSUME NEW h \in List, NEW s \in Seq(Node), Once(s), Ring(next, prev, h, s)
  PROVE  /\ next[h] = IF s = <<>> THEN h ELSE Head(s)
         /\ \A i \in 1 .. Len(s) : next[s[i]] \in Node \cup {h} /\ (next[s[i]] = h <=> i = Len(s))
         /\ Len(s) \in Nat /\ (s = <<>> <=> Len(s) = 0)
<1>1. Len(s) \in Nat /\ (s = <<>> <=> Len(s) = 0)
  BY LenProperties, EmptySeq
<1>2. next[h] = Place(h, s, 1)
  BY FirstAndLast
<1>3. s # <<>> => Head(s) = s[1] /\ 1 \in 1 .. Len(s)
  BY <1>1, HeadTailProperties
<1>4. s = <<>> => 1 \notin 1 .. Len(s)
  BY <1>1
<1>5. next[h] = IF s = <<>> THEN h ELSE Head(s)
  BY <1>2, <1>3, <1>4 DEF Place
<1>6. ASSUME NEW i \in 1 .. Len(s)
      PROVE  next[s[i]] \in Node \cup {h} /\ (next[s[i]] = h <=> i = Len(s))
  <2>1. i \in 0 .. Len(s) /\ Place(h, s, i) = s[i] /\ i \in Nat
    BY <1>1 DEF Place
  <2>2. next[s[i]] = Place(h, s, i + 1)
    BY <2>1 DEF Ring
  <2>3. CASE i = Len(s)
    <3>1. i + 1 \notin 1 .. Len(s)
      BY <1>1, <2>3
    <3>2. QED BY <2>2, <2>3, <3>1 DEF Place
  <2>4. CASE i # Len(s)
    <3>1. i + 1 \in 1 .. Len(s)
      BY <1>1, <2>1, <2>4
    <3>2. s[i + 1] \in Node /\ s[i + 1] # h
      BY <3>1, ElementOfSeq, ListAssumption
    <3>3. QED BY <2>2, <2>4, <3>1, <3>2 DEF Place
  <2>5. QED BY <2>3, <2>4
<1>7. QED BY <1>1, <1>5, <1>6

\* A list is a ring through its nodes, in both directions, after whatever calls
\* and whatever loops (ListsAreRings; list.c:18-79).
THEOREM ListsAreRingsHolds == ListSpec => []ListsAreRings
<1>1. Inv => ListsAreRings
  <2> SUFFICES ASSUME Inv, NEW h \in ready, NEW i \in 0 .. Len(lists[h])
               PROVE  /\ next[InRing(h, i)] = InRing(h, i + 1)
                      /\ prev[InRing(h, i + 1)] = InRing(h, i)
    BY DEF ListsAreRings
  <2>1. lists[h] \in Seq(Node) /\ Ring(next, prev, h, lists[h])
    BY DEF Inv, Types, Rings
  <2>2. DOMAIN lists[h] = 1 .. Len(lists[h])
    BY <2>1
  <2>3. \A j : InRing(h, j) = Place(h, lists[h], j)
    BY <2>2 DEF InRing, Place
  <2>4. QED BY <2>1, <2>3 DEF Ring
<1>2. QED BY <1>1, InvHolds, PTL

\* What the kernel asks of a list it is told (AnswersRight; list.c:86-99).
THEOREM AnswersRightHolds == ListSpec => []AnswersRight
<1>1. Inv => AnswersRight
  <2> SUFFICES ASSUME Inv, NEW h \in ready
               PROVE  /\ list_empty(h) <=> lists[h] = <<>>
                      /\ list_first(h) = IF lists[h] = <<>> THEN h ELSE Head(lists[h])
                      /\ \A e \in Node : list_is_last(e, h) <=>
                           lists[h] # <<>> /\ e = lists[h][Len(lists[h])]
    BY DEF AnswersRight
  <2> DEFINE s == lists[h]
  <2>1. h \in List /\ s \in Seq(Node) /\ Once(s) /\ Ring(next, prev, h, s)
    BY DEF Inv, Types, Apart, Rings
  <2>2. /\ next[h] = IF s = <<>> THEN h ELSE Head(s)
        /\ \A i \in 1 .. Len(s) : next[s[i]] = h <=> i = Len(s)
        /\ Len(s) \in Nat /\ (s = <<>> <=> Len(s) = 0)
    BY <2>1, RingAnswers
  <2>3. s # <<>> => Head(s) # h
    <3>1. s # <<>> => Head(s) \in Node
      BY <2>1
    <3>2. QED BY <2>1, <3>1, ListAssumption
  <2>4. ASSUME NEW e \in Node, next[e] = h PROVE s # <<>> /\ e = s[Len(s)]
    <3>1. CASE Contains(s, e)
      <4>1. PICK i \in 1 .. Len(s) : s[i] = e
        BY <3>1 DEF Contains
      <4>2. i = Len(s)
        BY <2>2, <2>4, <4>1
      <4>3. QED BY <2>2, <4>1, <4>2
    <3>2. ASSUME NEW g \in List, g # h, Contains(lists[g], e) PROVE FALSE
      <4>1. PICK i \in 1 .. Len(lists[g]) : lists[g][i] = e
        BY <3>2 DEF Contains
      <4>2. lists[g] \in Seq(Node) /\ Once(lists[g])
        BY DEF Inv, Types, Apart
      <4>3. CASE g \in ready
        <5>1. next[lists[g][i]] \in Node \cup {g}
          BY <4>2, <4>3, RingAnswers DEF Inv, Rings
        <5>2. QED BY <2>1, <2>4, <3>2, <4>1, <5>1, ListAssumption
      <4>4. CASE g \notin ready
        <5>1. lists[g] # <<>>
          BY <4>1, <4>2, LenProperties, EmptySeq
        <5>2. Looping /\ g = loop.head /\ todo = lists[g] /\ Chain(next, g, lists[g])
          BY <4>4, <5>1 DEF Inv, Emptied, Cursors, Adopting
        <5>3. next[e] = Place(g, lists[g], i + 1)
          BY <4>1, <5>2 DEF Chain
        <5>4. Place(g, lists[g], i + 1) \in Node \cup {g}
          BY <4>2, ElementOfSeq DEF Place
        <5>5. QED BY <2>1, <2>4, <3>2, <5>3, <5>4, ListAssumption
      <4>5. QED BY <4>3, <4>4
    <3>3. CASE ~Listed(e)
      <4>1. next[e] = NULL
        BY <3>3 DEF Inv, UnlinkedIsNull
      <4>2. QED BY <2>1, <2>4, <4>1, ListAssumption
    <3>4. QED BY <3>1, <3>2, <3>3 DEF Listed
  <2>5. s # <<>> => next[s[Len(s)]] = h
    BY <2>2
  <2>6. QED BY <2>2, <2>3, <2>4, <2>5 DEF list_empty, list_first, list_is_last
<1>2. QED BY <1>1, InvHolds, PTL

\* A loop meets all the nodes that its list had, though it links them elsewhere
\* or unlinks them (LoopMeetsAll; list.h:123-125, sys.c:245-253).
THEOREM LoopMeetsAllHolds == ListSpec => []LoopMeetsAll
<1>1. Inv => LoopMeetsAll
  <2> SUFFICES ASSUME Inv, Looping
               PROVE  loop.pos = IF todo = <<>> THEN loop.head ELSE Head(todo)
    BY DEF LoopMeetsAll
  <2>1. todo \in Seq(Node)
    BY DEF Inv, Types
  <2>2. todo # <<>> => Head(todo) = todo[1]
    BY <2>1, HeadTailProperties
  <2>3. QED BY <2>2, AtCursor
<1>2. QED BY <1>1, InvHolds, PTL

\* A node that is in no list points nowhere (UnlinkedIsNull; list.c:74-79).
THEOREM UnlinkedIsNullHolds == ListSpec => []UnlinkedIsNull
<1>1. Inv => UnlinkedIsNull
  BY DEF Inv
<1>2. QED BY <1>1, InvHolds, PTL

=============================================================================
