--------------------------- MODULE ProcessProofs ---------------------------
(***************************************************************************)
(* Theorems about module Process, for every number of tasks, every quantum *)
(* and every bound: the type invariant, Placement and UniquePids; who is   *)
(* woken and why (WakeCause); that the children's lists are a forest       *)
(* (Family); that a waitList names tasks that sleep, each in one list      *)
(* (Waiters); that what the kernel stops for is an unguarded situation     *)
(* that was admitted (Faultless); and that each step is a round robin's    *)
(* (StepsRound).                                                           *)
(***************************************************************************)
EXTENDS Process, SequenceTheorems, WellFoundedInduction, TLAPS

(***************************************************************************)
(* What list_add_tail and list_del (list.c) do to a list, for every list   *)
(* of every length, and what update_process_state_rr and sched_next_rr do  *)
(* to a well-formed process table, for any number of PCBs.                 *)
(***************************************************************************)

----------------------------------------------------------------------------
(* Lists.                                                                  *)

\* A non-empty set of natural numbers has the minimum that Min chooses.
LEMMA MinIsLeast ==
  ASSUME NEW I \in SUBSET Nat, I # {}
  PROVE  Min(I) \in I /\ \A i \in I : Min(I) <= i
<1> DEFINE R == {p \in Nat \X Nat : p[1] < p[2]}
<1>1. OpToRel(<, Nat) = R
  BY DEF OpToRel
<1>2. IsWellFoundedOn(R, Nat)
  BY <1>1, NatLessThanWellFounded
<1>3. PICK x \in I : \A y \in I : <<y, x>> \notin R
  <2> HIDE DEF R
  <2> QED BY <1>2, WFMin
<1>4. ASSUME NEW y \in I PROVE x <= y
  <2>1. x \in Nat /\ y \in Nat
    OBVIOUS
  <2>2. <<y, x>> \in R <=> y < x
    BY <2>1
  <2>3. <<y, x>> \notin R
    BY <1>3
  <2>4. QED
    BY <2>1, <2>2, <2>3
<1>5. QED
  BY <1>4 DEF Min

----------------------------------------------------------------------------
LEMMA RemoveAtProperties ==
  ASSUME NEW S, NEW s \in Seq(S), NEW i \in 1 .. Len(s)
  PROVE  /\ RemoveAt(s, i) \in Seq(S)
         /\ Len(RemoveAt(s, i)) = Len(s) - 1
         /\ \A j \in 1 .. Len(s) - 1 :
              RemoveAt(s, i)[j] = IF j < i THEN s[j] ELSE s[j + 1]
<1> DEFINE l == SubSeq(s, 1, i - 1)
           r == SubSeq(s, i + 1, Len(s))
<1>1. Len(s) \in Nat /\ i \in Int /\ \A j \in 1 .. Len(s) : s[j] \in S
  BY LenProperties, ElementOfSeq
<1>2. /\ l \in Seq(S) /\ Len(l) = i - 1
      /\ \A j \in 1 .. i - 1 : l[j] = s[j]
  <2>1. \A j \in 1 .. i - 1 : s[j] \in S
    BY <1>1
  <2>2. QED BY <1>1, <2>1, SubSeqProperties
<1>3. /\ r \in Seq(S) /\ Len(r) = Len(s) - i
      /\ \A j \in 1 .. Len(s) - i : r[j] = s[i + j]
  <2>1. \A j \in i + 1 .. Len(s) : s[j] \in S
    BY <1>1
  <2>2. /\ r \in Seq(S)
        /\ Len(r) = IF i + 1 <= Len(s) THEN Len(s) - (i + 1) + 1 ELSE 0
        /\ \A j \in 1 .. Len(s) - (i + 1) + 1 : r[j] = s[i + 1 + j - 1]
    BY <1>1, <2>1, SubSeqProperties
  <2>3. QED BY <1>1, <2>2
<1> HIDE DEF l, r
<1>4. /\ l \o r \in Seq(S)
      /\ Len(l \o r) = Len(l) + Len(r)
      /\ \A j \in 1 .. Len(l) + Len(r) :
           (l \o r)[j] = IF j <= Len(l) THEN l[j] ELSE r[j - Len(l)]
  BY <1>2, <1>3, ConcatProperties
<1>5. RemoveAt(s, i) = l \o r
  BY DEF RemoveAt, l, r
<1>6. ASSUME NEW j \in 1 .. Len(s) - 1
      PROVE  (l \o r)[j] = IF j < i THEN s[j] ELSE s[j + 1]
  <2>1. CASE j < i
    BY <1>1, <1>2, <1>3, <1>4, <2>1
  <2>2. CASE ~(j < i)
    <3>1. j - (i - 1) \in 1 .. Len(s) - i
      BY <1>1, <2>2
    <3>2. r[j - (i - 1)] = s[i + (j - (i - 1))]
      BY <1>3, <3>1
    <3>3. QED BY <1>1, <1>2, <1>3, <1>4, <2>2, <3>2
  <2>3. QED BY <2>1, <2>2
<1>7. QED
  BY <1>1, <1>2, <1>3, <1>4, <1>5, <1>6

\* list_del of a node that is in the list takes it out at the place where it
\* is first found.
LEMMA RemoveFirstIsRemoveAt ==
  ASSUME NEW S, NEW s \in Seq(S), NEW e, Contains(s, e)
  PROVE  \E i \in 1 .. Len(s) : s[i] = e /\ RemoveFirst(s, e) = RemoveAt(s, i)
<1> DEFINE I == {i \in 1 .. Len(s) : s[i] = e}
<1>1. I # {} /\ I \subseteq Nat
  BY LenProperties DEF Contains
<1>2. SelectInSeq(s, LAMBDA v : v = e) = Min(I)
  BY <1>1 DEF SelectInSeq
<1>3. Min(I) \in I
  <2> HIDE DEF I
  <2> QED BY <1>1, MinIsLeast
<1>4. RemoveFirst(s, e) = RemoveAt(s, Min(I))
  BY <1>2 DEF RemoveFirst, Contains
<1>5. QED
  BY <1>3, <1>4

LEMMA RemoveAbsent ==
  ASSUME NEW S, NEW s \in Seq(S), NEW e, ~Contains(s, e)
  PROVE  RemoveFirst(s, e) = s
BY DEF RemoveFirst, Contains

\* list_del of the first node.
LEMMA RemoveFirstHead ==
  ASSUME NEW S, NEW s \in Seq(S), s # <<>>
  PROVE  RemoveFirst(s, Head(s)) = Tail(s)
<1> DEFINE I == {i \in 1 .. Len(s) : s[i] = Head(s)}
           r == RemoveAt(s, 1)
<1>1. Len(s) \in Nat /\ Len(s) >= 1 /\ Head(s) = s[1]
  BY LenProperties, HeadTailProperties, EmptySeq
<1>2. I # {} /\ I \subseteq Nat /\ 1 \in I /\ Contains(s, Head(s))
  BY <1>1 DEF Contains
<1>3. Min(I) = 1
  <2> HIDE DEF I
  <2>1. Min(I) \in I /\ Min(I) <= 1
    BY <1>2, MinIsLeast
  <2>2. Min(I) \in 1 .. Len(s)
    BY <2>1 DEF I
  <2>3. QED BY <1>1, <2>1, <2>2
<1>4. SelectInSeq(s, LAMBDA v : v = Head(s)) = Min(I)
  BY <1>2 DEF SelectInSeq
<1>5. RemoveFirst(s, Head(s)) = r
  BY <1>2, <1>3, <1>4 DEF RemoveFirst, Contains
<1> HIDE DEF I
<1>6. /\ r \in Seq(S) /\ Len(r) = Len(s) - 1
      /\ \A j \in 1 .. Len(s) - 1 : r[j] = s[j + 1]
  <2>1. 1 \in 1 .. Len(s)
    BY <1>1
  <2>2. /\ r \in Seq(S) /\ Len(r) = Len(s) - 1
        /\ \A j \in 1 .. Len(s) - 1 : r[j] = IF j < 1 THEN s[j] ELSE s[j + 1]
    BY <2>1, RemoveAtProperties
  <2>3. QED BY <1>1, <2>2
<1>7. /\ Tail(s) \in Seq(S) /\ Len(Tail(s)) = Len(s) - 1
      /\ \A j \in 1 .. Len(s) - 1 : Tail(s)[j] = s[j + 1]
  BY <1>1, HeadTailProperties
<1> HIDE DEF r
<1>8. r = Tail(s)
  BY <1>1, <1>6, <1>7, SeqEqual
<1>9. QED BY <1>5, <1>8

LEMMA RemoveFirstType ==
  ASSUME NEW S, NEW s \in Seq(S), NEW e
  PROVE  RemoveFirst(s, e) \in Seq(S)
<1>1. CASE Contains(s, e)
  BY <1>1, RemoveFirstIsRemoveAt, RemoveAtProperties
<1>2. CASE ~Contains(s, e)
  BY <1>2 DEF RemoveFirst, Contains
<1>3. QED BY <1>1, <1>2

\* With or without the node: the list keeps its order but for the place k.
LEMMA RemoveFirstShape ==
  ASSUME NEW S, NEW s \in Seq(S), NEW e
  PROVE  \E k \in 1 .. Len(s) + 1 :
           /\ Len(RemoveFirst(s, e)) = IF k <= Len(s) THEN Len(s) - 1 ELSE Len(s)
           /\ \A j \in 1 .. Len(RemoveFirst(s, e)) :
                RemoveFirst(s, e)[j] = s[IF j < k THEN j ELSE j + 1]
           /\ k <= Len(s) => s[k] = e
           /\ k = Len(s) + 1 => ~Contains(s, e)
<1>0. Len(s) \in Nat
  BY LenProperties
<1>1. CASE Contains(s, e)
  <2>1. PICK i \in 1 .. Len(s) : s[i] = e /\ RemoveFirst(s, e) = RemoveAt(s, i)
    BY <1>1, RemoveFirstIsRemoveAt
  <2>2. /\ Len(RemoveAt(s, i)) = Len(s) - 1
        /\ \A j \in 1 .. Len(s) - 1 :
             RemoveAt(s, i)[j] = IF j < i THEN s[j] ELSE s[j + 1]
    BY RemoveAtProperties
  <2>3. /\ i \in 1 .. Len(s) + 1 /\ i <= Len(s) /\ i # Len(s) + 1
    BY <1>0
  <2>4. QED BY <2>1, <2>2, <2>3
<1>2. CASE ~Contains(s, e)
  <2>1. RemoveFirst(s, e) = s
    BY <1>2 DEF RemoveFirst, Contains
  <2>2. Len(s) + 1 \in 1 .. Len(s) + 1 /\ ~(Len(s) + 1 <= Len(s))
    BY <1>0
  <2>3. \A j \in 1 .. Len(s) : j < Len(s) + 1
    BY <1>0
  <2>4. QED BY <1>2, <2>1, <2>2, <2>3
<1>3. QED BY <1>1, <1>2

----------------------------------------------------------------------------
(* The four queues of the scheduler. *)

Queues == [QueueNames -> Seq(Task)]

\* Unlinking takes a PCB out of every queue and leaves the others where they are.
LEMMA UnlinkedType ==
  ASSUME NEW q \in Queues, NEW t
  PROVE  Unlinked(q, t) \in Queues
BY RemoveFirstType DEF Queues, Unlinked

LEMMA UnlinkedProperties ==
  ASSUME NEW q \in Queues, NEW t, NodesDistinct(q)
  PROVE  /\ NodesDistinct(Unlinked(q, t))
         /\ \A n \in QueueNames : \A u \in Task :
              Contains(Unlinked(q, t)[n], u) <=> Contains(q[n], u) /\ u # t
<1> DEFINE r(n) == RemoveFirst(q[n], t)
<1>0. \A n \in QueueNames : /\ Unlinked(q, t)[n] = r(n)
                            /\ q[n] \in Seq(Task) /\ r(n) \in Seq(Task)
  BY RemoveFirstType DEF Unlinked, Queues
<1>1. \A n \in QueueNames : \E k \in 1 .. Len(q[n]) + 1 :
        /\ Len(r(n)) = IF k <= Len(q[n]) THEN Len(q[n]) - 1 ELSE Len(q[n])
        /\ \A j \in 1 .. Len(r(n)) : r(n)[j] = q[n][IF j < k THEN j ELSE j + 1]
        /\ k <= Len(q[n]) => q[n][k] = t
        /\ k = Len(q[n]) + 1 => ~Contains(q[n], t)
  BY <1>0, RemoveFirstShape
<1>2. PICK k \in [QueueNames -> Int] : \A n \in QueueNames :
        /\ k[n] \in 1 .. Len(q[n]) + 1
        /\ Len(r(n)) = IF k[n] <= Len(q[n]) THEN Len(q[n]) - 1 ELSE Len(q[n])
        /\ \A j \in 1 .. Len(r(n)) : r(n)[j] = q[n][IF j < k[n] THEN j ELSE j + 1]
        /\ k[n] <= Len(q[n]) => q[n][k[n]] = t
        /\ k[n] = Len(q[n]) + 1 => ~Contains(q[n], t)
  <2> DEFINE P(n, x) ==
               /\ x \in 1 .. Len(q[n]) + 1
               /\ Len(r(n)) = IF x <= Len(q[n]) THEN Len(q[n]) - 1 ELSE Len(q[n])
               /\ \A j \in 1 .. Len(r(n)) : r(n)[j] = q[n][IF j < x THEN j ELSE j + 1]
               /\ x <= Len(q[n]) => q[n][x] = t
               /\ x = Len(q[n]) + 1 => ~Contains(q[n], t)
  <2>1. \A n \in QueueNames : \E x \in Int : P(n, x)
    BY <1>0, <1>1, LenProperties
  <2> HIDE DEF P
  <2> DEFINE f == [n \in QueueNames |-> CHOOSE x \in Int : P(n, x)]
  <2>2. f \in [QueueNames -> Int] /\ \A n \in QueueNames : P(n, f[n])
    BY <2>1
  <2>3. QED BY <2>2 DEF P
<1> HIDE DEF r
<1> DEFINE from(n, j) == IF j < k[n] THEN j ELSE j + 1
<1>3. ASSUME NEW n \in QueueNames, NEW j \in 1 .. Len(r(n))
      PROVE  from(n, j) \in 1 .. Len(q[n]) /\ r(n)[j] = q[n][from(n, j)] /\ from(n, j) # k[n]
  <2>1. Len(q[n]) \in Nat /\ k[n] \in Int /\ j \in Int
    BY <1>0, <1>2, LenProperties
  <2>2. from(n, j) \in 1 .. Len(q[n]) /\ from(n, j) # k[n]
    BY <1>2, <2>1
  <2>3. QED BY <1>2, <2>2
<1>4. \A n \in QueueNames : DOMAIN q[n] = 1 .. Len(q[n]) /\ DOMAIN r(n) = 1 .. Len(r(n))
  BY <1>0, LenProperties
<1>5. NodesDistinct(Unlinked(q, t))
  <2> SUFFICES ASSUME NEW m \in QueueNames, NEW n \in QueueNames,
                      NEW i \in DOMAIN r(m), NEW j \in DOMAIN r(n),
                      r(m)[i] = r(n)[j]
               PROVE  m = n /\ i = j
    BY <1>0 DEF NodesDistinct
  <2>1. i \in 1 .. Len(r(m)) /\ j \in 1 .. Len(r(n)) /\ k[m] \in Int
    BY <1>4, <1>2
  <2>2. q[m][from(m, i)] = q[n][from(n, j)]
    BY <1>3, <2>1
  <2>3. from(m, i) \in DOMAIN q[m] /\ from(n, j) \in DOMAIN q[n]
    BY <1>3, <1>4, <2>1
  <2> HIDE DEF from
  <2>4. m = n /\ from(m, i) = from(n, j)
    BY <2>2, <2>3 DEF NodesDistinct
  <2>5. Len(r(m)) \in Nat
    BY <1>0, LenProperties
  <2>6. QED BY <2>1, <2>4, <2>5 DEF from
<1>6. ASSUME NEW n \in QueueNames, NEW u \in Task
      PROVE  Contains(r(n), u) <=> Contains(q[n], u) /\ u # t
  <2>0. Len(q[n]) \in Nat /\ Len(r(n)) \in Nat /\ k[n] \in Int
    BY <1>0, <1>2, LenProperties
  <2>1. ASSUME Contains(r(n), u) PROVE Contains(q[n], u) /\ u # t
    <3>1. PICK j \in 1 .. Len(r(n)) : r(n)[j] = u
      BY <2>1 DEF Contains
    <3>2. from(n, j) \in 1 .. Len(q[n]) /\ q[n][from(n, j)] = u /\ from(n, j) # k[n]
      BY <1>3, <3>1
    <3>3. Contains(q[n], u)
      BY <3>2 DEF Contains
    <3>4. CASE k[n] <= Len(q[n])
      <4>1. k[n] \in DOMAIN q[n] /\ q[n][k[n]] = t /\ from(n, j) \in DOMAIN q[n]
        BY <1>2, <1>4, <3>2, <3>4, <2>0
      <4>2. u # t
        BY <3>2, <4>1 DEF NodesDistinct
      <4>3. QED BY <3>3, <4>2
    <3>5. CASE ~(k[n] <= Len(q[n]))
      <4>1. ~Contains(q[n], t)
        BY <1>2, <2>0, <3>5
      <4>2. QED BY <3>3, <4>1
    <3>6. QED BY <3>4, <3>5
  <2>2. ASSUME Contains(q[n], u), u # t PROVE Contains(r(n), u)
    <3>1. PICK i \in 1 .. Len(q[n]) : q[n][i] = u
      BY <2>2 DEF Contains
    <3>2. i # k[n]
      BY <1>2, <2>0, <2>2, <3>1
    <3> DEFINE j == IF i < k[n] THEN i ELSE i - 1
    <3>3. j \in 1 .. Len(r(n)) /\ from(n, j) = i
      BY <1>2, <2>0, <3>2
    <3>4. r(n)[j] = u
      BY <1>3, <3>1, <3>3
    <3>5. QED BY <3>3, <3>4 DEF Contains
  <2>3. QED BY <2>1, <2>2
<1>7. QED BY <1>0, <1>5, <1>6

\* list_add_tail of a node that is in no queue.
LEMMA AppendedProperties ==
  ASSUME NEW q \in Queues, NEW t \in Task, NEW m \in QueueNames
  PROVE  /\ Appended(q, m, t) \in Queues
         /\ \A n \in QueueNames : \A u \in Task :
              Contains(Appended(q, m, t)[n], u)
                <=> Contains(q[n], u) \/ (n = m /\ u = t)
         /\ NodesDistinct(q) /\ (\A n \in QueueNames : ~Contains(q[n], t))
              => NodesDistinct(Appended(q, m, t))
<1> DEFINE a == Appended(q, m, t)
<1>1. /\ q[m] \in Seq(Task) /\ a \in Queues
      /\ a[m] = Append(q[m], t)
      /\ \A n \in QueueNames \ {m} : a[n] = q[n]
  BY AppendProperties DEF Queues, Appended
<1> HIDE DEF a
<1>2. /\ Len(q[m]) \in Nat
      /\ Len(a[m]) = Len(q[m]) + 1
      /\ \A i \in 1 .. Len(q[m]) : a[m][i] = q[m][i]
      /\ a[m][Len(q[m]) + 1] = t
  BY <1>1, AppendProperties, LenProperties
<1>3. \A n \in QueueNames : DOMAIN q[n] = 1 .. Len(q[n]) /\ DOMAIN a[n] = 1 .. Len(a[n])
  BY <1>1, LenProperties DEF Queues
<1>4. ASSUME NEW n \in QueueNames, NEW u \in Task
      PROVE  Contains(a[n], u) <=> Contains(q[n], u) \/ (n = m /\ u = t)
  <2>1. CASE n # m
    BY <1>1, <2>1 DEF Contains
  <2>2. CASE n = m
    <3>1. \A i \in 1 .. Len(a[m]) : i \in 1 .. Len(q[m]) \/ i = Len(q[m]) + 1
      BY <1>2
    <3>2. /\ Len(q[m]) + 1 \in 1 .. Len(a[m])
          /\ \A i \in 1 .. Len(q[m]) : i \in 1 .. Len(a[m])
      BY <1>2
    <3>3. QED BY <1>2, <2>2, <3>1, <3>2 DEF Contains
  <2>3. QED BY <2>1, <2>2
<1>5. ASSUME NodesDistinct(q), \A n \in QueueNames : ~Contains(q[n], t)
      PROVE  NodesDistinct(a)
  <2> SUFFICES ASSUME NEW n1 \in QueueNames, NEW n2 \in QueueNames,
                      NEW i \in DOMAIN a[n1], NEW j \in DOMAIN a[n2],
                      a[n1][i] = a[n2][j]
               PROVE  n1 = n2 /\ i = j
    BY DEF NodesDistinct
  <2>1. \A n \in QueueNames : \A x \in DOMAIN a[n] :
          \/ x \in DOMAIN q[n] /\ a[n][x] = q[n][x]
          \/ n = m /\ x = Len(q[m]) + 1 /\ a[n][x] = t
    <3> SUFFICES ASSUME NEW n \in QueueNames, NEW x \in DOMAIN a[n]
                 PROVE  \/ x \in DOMAIN q[n] /\ a[n][x] = q[n][x]
                        \/ n = m /\ x = Len(q[m]) + 1 /\ a[n][x] = t
      OBVIOUS
    <3>1. CASE n # m
      BY <1>1, <3>1
    <3>2. CASE n = m
      <4>1. DOMAIN q[m] = 1 .. Len(q[m]) /\ x \in 1 .. Len(q[m]) + 1
        BY <1>2, <1>3, <3>2
      <4>2. QED BY <1>2, <3>2, <4>1
    <3>3. QED BY <3>1, <3>2
  <2>2. \A n \in QueueNames : \A x \in DOMAIN q[n] : q[n][x] # t
    BY <1>3, <1>5 DEF Contains
  <2>3. QED BY <1>5, <2>1, <2>2 DEF NodesDistinct
<1>6. QED BY <1>1, <1>4, <1>5 DEF a

\* list_del of the first node of a queue.
Popped(q, m) == [q EXCEPT ![m] = Tail(@)]

LEMMA TailProperties ==
  ASSUME NEW q \in Queues, NEW m \in QueueNames, q[m] # <<>>
  PROVE  /\ Head(q[m]) \in Task
         /\ Contains(q[m], Head(q[m]))
         /\ Popped(q, m) \in Queues
         /\ NodesDistinct(q) =>
              /\ NodesDistinct(Popped(q, m))
              /\ \A n \in QueueNames : \A u \in Task :
                   Contains(Popped(q, m)[n], u) <=> Contains(q[n], u) /\ u # Head(q[m])
<1> DEFINE h == Head(q[m])
           b == Popped(q, m)
<1>1. /\ q[m] \in Seq(Task) /\ Tail(q[m]) \in Seq(Task) /\ b \in Queues
      /\ b[m] = Tail(q[m])
      /\ \A n \in QueueNames \ {m} : b[n] = q[n]
  BY HeadTailProperties DEF Queues, Popped
<1> HIDE DEF b
<1>2. /\ Len(q[m]) \in Nat \ {0} /\ h = q[m][1] /\ h \in Task
      /\ Len(b[m]) = Len(q[m]) - 1
      /\ \A i \in 1 .. Len(b[m]) : b[m][i] = q[m][i + 1]
  <2>1. Len(q[m]) \in Nat \ {0}
    BY <1>1, EmptySeq
  <2>2. h = q[m][1]
    BY <1>1, <2>1
  <2>3. h \in Task
    BY <1>1, HeadTailProperties
  <2>4. /\ Len(Tail(q[m])) = Len(q[m]) - 1
        /\ \A i \in 1 .. Len(Tail(q[m])) : Tail(q[m])[i] = q[m][i + 1]
    BY <1>1, HeadTailProperties
  <2>5. QED BY <1>1, <2>1, <2>2, <2>3, <2>4
<1>3. \A n \in QueueNames : DOMAIN q[n] = 1 .. Len(q[n]) /\ DOMAIN b[n] = 1 .. Len(b[n])
  BY <1>1, LenProperties DEF Queues
<1>4. Contains(q[m], h) /\ 1 \in DOMAIN q[m]
  BY <1>2, <1>3 DEF Contains
<1> HIDE DEF h
<1>5. ASSUME NodesDistinct(q)
      PROVE  /\ NodesDistinct(b)
             /\ \A n \in QueueNames : \A u \in Task :
                  Contains(b[n], u) <=> Contains(q[n], u) /\ u # h
  <2> DEFINE from(n, i) == IF n = m THEN i + 1 ELSE i
  <2>1. ASSUME NEW n \in QueueNames, NEW i \in DOMAIN b[n]
        PROVE  /\ i \in Int /\ from(n, i) \in DOMAIN q[n] /\ b[n][i] = q[n][from(n, i)]
               /\ n = m => from(n, i) # 1
    <3>0. Len(q[n]) \in Nat /\ Len(b[n]) \in Nat /\ i \in 1 .. Len(b[n])
      BY <1>1, <1>3, LenProperties DEF Queues
    <3>1. CASE n # m
      BY <1>1, <1>3, <3>0, <3>1
    <3>2. CASE n = m
      BY <1>2, <1>3, <3>0, <3>2
    <3>3. QED BY <3>1, <3>2
  <2>2. NodesDistinct(b)
    <3> SUFFICES ASSUME NEW n1 \in QueueNames, NEW n2 \in QueueNames,
                        NEW i \in DOMAIN b[n1], NEW j \in DOMAIN b[n2],
                        b[n1][i] = b[n2][j]
                 PROVE  n1 = n2 /\ i = j
      BY DEF NodesDistinct
    <3>1. n1 = n2 /\ from(n1, i) = from(n2, j)
      <4> HIDE DEF from
      <4> QED BY <1>5, <2>1 DEF NodesDistinct
    <3>2. QED BY <2>1, <3>1
  <2>3. ASSUME NEW n \in QueueNames, NEW u \in Task
        PROVE  Contains(b[n], u) <=> Contains(q[n], u) /\ u # h
    <3>1. ASSUME Contains(b[n], u) PROVE Contains(q[n], u) /\ u # h
      <4>1. PICK i \in DOMAIN b[n] : b[n][i] = u
        BY <1>3, <3>1 DEF Contains
      <4>2. from(n, i) \in DOMAIN q[n] /\ q[n][from(n, i)] = u /\ (n = m => from(n, i) # 1)
        BY <2>1, <4>1
      <4>3. Contains(q[n], u)
        BY <1>3, <4>2 DEF Contains
      <4>4. u # h
        <5> HIDE DEF from
        <5> QED BY <1>2, <1>4, <1>5, <4>2 DEF NodesDistinct
      <4>5. QED BY <4>3, <4>4
    <3>2. ASSUME Contains(q[n], u), u # h PROVE Contains(b[n], u)
      <4>1. CASE n # m
        BY <1>1, <3>2, <4>1
      <4>2. CASE n = m
        <5>1. PICK i \in 1 .. Len(q[m]) : q[m][i] = u
          BY <3>2, <4>2 DEF Contains
        <5>2. i # 1
          BY <1>2, <3>2, <5>1
        <5>3. i - 1 \in 1 .. Len(b[m]) /\ b[m][i - 1] = u
          BY <1>2, <5>1, <5>2
        <5>4. QED BY <4>2, <5>3 DEF Contains
      <4>3. QED BY <4>1, <4>2
    <3>3. QED BY <3>1, <3>2
  <2>4. QED BY <2>2, <2>3
<1>6. QED BY <1>1, <1>2, <1>4, <1>5 DEF h, b

----------------------------------------------------------------------------
(* The process table.                                                      *)

In(s, n, t) == Contains(s.queue[n], t)

IsFree(s, t) == In(s, "freequeue", t)

(***************************************************************************)
(* A well-formed table.  F: the PCBs of failed forks.  Out: the PCBs that  *)
(* may be in no queue.                                                     *)
(***************************************************************************)
StatesAgree(s, F) ==
  \A n \in QueueNames : \A t \in Task : In(s, n, t) =>
    \/ s.current_state[t] = StateOf[n]
    \/ n = "freequeue" /\ t \in F /\ s.current_state[t] = "ST_RUN"

PidsAgree(s, F) ==
  \A n \in QueueNames : \A t \in Task : In(s, n, t) =>
    IF n = "freequeue"
    THEN \/ s.PID[t] = -1 /\ s.current_state[t] = "ST_FREE"
         \/ s.PID[t] > 0  /\ s.current_state[t] = "ST_RUN" /\ t \in F
    ELSE s.PID[t] > 0

PidsUnique(s) ==
  \A t, u \in Task :
    ~IsFree(s, t) /\ ~IsFree(s, u) /\ s.PID[t] = s.PID[u] => t = u

Table(s, F, Out) ==
  /\ s \in SchedType
  /\ NodesDistinct(s.queue)
  /\ StatesAgree(s, F)
  /\ PidsAgree(s, F)
  /\ PidsUnique(s)
  /\ s.PID[Idle] = 0
  /\ \A t \in Task : s.PID[t] >= -1
  /\ \A t \in Task \ Out : Linked(s, t)

----------------------------------------------------------------------------
LEMMA IdleIsTask == Idle \in Task /\ task1 \in Task /\ Idle # task1
BY NrTasksAssumption DEF Task, Idle, task1

LEMMA StateOfType == StateOf \in [QueueNames -> States]
BY DEF StateOf, QueueNames, States

LEMMA SchedTypeQueues ==
  ASSUME NEW s \in SchedType
  PROVE  s.queue \in Queues
BY DEF SchedType, Queues

LEMMA IdleInNoQueue ==
  ASSUME NEW s, NEW F, NEW Out, Table(s, F, Out)
  PROVE  \A n \in QueueNames : ~In(s, n, Idle)
<1> SUFFICES ASSUME NEW n \in QueueNames, In(s, n, Idle) PROVE FALSE
  OBVIOUS
<1>1. s.PID[Idle] = 0
  BY DEF Table
<1>2. s.PID[Idle] = -1 \/ s.PID[Idle] > 0
  BY IdleIsTask DEF Table, PidsAgree
<1>3. QED BY <1>1, <1>2

\* What an Update makes of a table, whatever its argument: a table again, and
\* the fields it leaves alone.
LEMMA UpdateKeeps ==
  ASSUME NEW s \in SchedType, NEW t \in Task, NEW dest \in QueueNames
  PROVE  /\ Update(s, t, dest) \in SchedType
         /\ Update(s, t, dest).PID = s.PID
         /\ Update(s, t, dest).current = s.current
         /\ Update(s, t, dest).tick_counter = s.tick_counter
         /\ Update(s, t, dest).sound = (s.sound /\ NodeAsNeeded(s, t))
<1> DEFINE into == IF s.PID[t] < 0 THEN "freequeue" ELSE dest
           others == IF LeavesQueue(s, t) THEN Unlinked(s.queue, t) ELSE s.queue
           q == IF s.PID[t] = 0 THEN s.queue ELSE Appended(others, into, t)
           st == [s.current_state EXCEPT ![t] = StateOf[into]]
           ok == s.sound /\ NodeAsNeeded(s, t)
<1>1. Update(s, t, dest) = [s EXCEPT !.queue = q, !.current_state = st, !.sound = ok]
  BY DEF Update, SchedType
<1>2. into \in QueueNames
  BY DEF QueueNames
<1>3. others \in Queues
  BY SchedTypeQueues, UnlinkedType
<1>4. q \in Queues
  <2> HIDE DEF others, into
  <2> QED BY <1>2, <1>3, SchedTypeQueues, AppendedProperties
<1>5. st \in [Task -> States]
  BY <1>2, StateOfType DEF SchedType
<1>6. ok \in BOOLEAN
  BY DEF SchedType, NodeAsNeeded, LeavesQueue, Linked
<1> HIDE DEF q, st, ok
<1>7. /\ Update(s, t, dest) \in SchedType
      /\ Update(s, t, dest).PID = s.PID /\ Update(s, t, dest).current = s.current
      /\ Update(s, t, dest).tick_counter = s.tick_counter
      /\ Update(s, t, dest).sound = ok
  BY <1>1, <1>4, <1>5, <1>6 DEF SchedType, Queues
<1>8. QED
  BY <1>7 DEF ok

\* The state and the queue of the PCB that it moves.
LEMMA UpdateMoves ==
  ASSUME NEW s \in SchedType, NEW t \in Task, NEW dest \in QueueNames
  PROVE  /\ Update(s, t, dest).current_state
              = [s.current_state EXCEPT
                   ![t] = StateOf[IF s.PID[t] < 0 THEN "freequeue" ELSE dest]]
         /\ Update(s, t, dest).queue
              = IF s.PID[t] = 0 THEN s.queue
                ELSE Appended(IF LeavesQueue(s, t) THEN Unlinked(s.queue, t) ELSE s.queue,
                              IF s.PID[t] < 0 THEN "freequeue" ELSE dest, t)
<1> DEFINE into == IF s.PID[t] < 0 THEN "freequeue" ELSE dest
           others == IF LeavesQueue(s, t) THEN Unlinked(s.queue, t) ELSE s.queue
           q == IF s.PID[t] = 0 THEN s.queue ELSE Appended(others, into, t)
           st == [s.current_state EXCEPT ![t] = StateOf[into]]
           ok == s.sound /\ NodeAsNeeded(s, t)
<1>1. Update(s, t, dest) = [s EXCEPT !.queue = q, !.current_state = st, !.sound = ok]
  BY DEF Update, SchedType
<1> HIDE DEF q, st, ok
<1>2. Update(s, t, dest).current_state = st /\ Update(s, t, dest).queue = q
  BY <1>1 DEF SchedType
<1>3. QED
  BY <1>2 DEF q, st

LEMMA UpdateType ==
  ASSUME NEW s \in SchedType, NEW t \in Task, NEW dest \in QueueNames
  PROVE  /\ Update(s, t, dest) \in SchedType
         /\ Update(s, t, dest).PID = s.PID
         /\ Update(s, t, dest).current = s.current
         /\ Update(s, t, dest).tick_counter = s.tick_counter
         /\ NodeAsNeeded(s, t) => Update(s, t, dest).sound = s.sound
         /\ ~NodeAsNeeded(s, t) => Update(s, t, dest).sound = FALSE
         /\ Update(s, t, dest).current_state
              = [s.current_state EXCEPT
                   ![t] = StateOf[IF s.PID[t] < 0 THEN "freequeue" ELSE dest]]
         /\ Update(s, t, dest).queue
              = IF s.PID[t] = 0 THEN s.queue
                ELSE Appended(IF LeavesQueue(s, t) THEN Unlinked(s.queue, t) ELSE s.queue,
                              IF s.PID[t] < 0 THEN "freequeue" ELSE dest, t)
<1> DEFINE u == Update(s, t, dest)
<1>1. /\ u \in SchedType /\ u.PID = s.PID /\ u.current = s.current
      /\ u.tick_counter = s.tick_counter /\ u.sound = (s.sound /\ NodeAsNeeded(s, t))
  BY UpdateKeeps
<1>2. s.sound \in BOOLEAN
  BY DEF SchedType
<1> HIDE DEF u
<1>3. /\ NodeAsNeeded(s, t) => u.sound = s.sound
      /\ ~NodeAsNeeded(s, t) => u.sound = FALSE
  BY <1>1, <1>2
<1>4. QED BY <1>1, <1>3, UpdateMoves DEF u

\* Of these, what a call that finds its node as it needs it leaves alone.
LEMMA UpdateFields ==
  ASSUME NEW s \in SchedType, NEW t \in Task, NEW dest \in QueueNames,
         NodeAsNeeded(s, t)
  PROVE  /\ Update(s, t, dest).PID = s.PID
         /\ Update(s, t, dest).current = s.current
         /\ Update(s, t, dest).sound = s.sound
<1>1. s.sound \in BOOLEAN
  BY DEF SchedType
<1>2. QED BY <1>1, UpdateKeeps

LEMMA UpdateStates ==
  ASSUME NEW s \in SchedType, NEW t \in Task, NEW dest \in QueueNames
  PROVE  /\ \A x \in Task : x # t =>
              Update(s, t, dest).current_state[x] = s.current_state[x]
         /\ Update(s, t, dest).current_state[t]
              = StateOf[IF s.PID[t] < 0 THEN "freequeue" ELSE dest]
<1> DEFINE st == StateOf[IF s.PID[t] < 0 THEN "freequeue" ELSE dest]
<1>1. s.current_state \in [Task -> States]
  BY DEF SchedType
<1>2. Update(s, t, dest).current_state = [s.current_state EXCEPT ![t] = st]
  BY UpdateMoves
<1> HIDE DEF st
<1>3. /\ \A x \in Task : x # t =>
            Update(s, t, dest).current_state[x] = s.current_state[x]
      /\ Update(s, t, dest).current_state[t] = st
  BY <1>1, <1>2
<1>4. QED BY <1>3 DEF st

LEMMA DispatchType ==
  ASSUME NEW s \in SchedType, NEW t \in Task
  PROVE  LET u == Dispatch(s, t)
         IN /\ u \in SchedType
            /\ u.PID = s.PID /\ u.current = s.current
            /\ u.tick_counter = s.tick_counter
            /\ NodeAsNeeded(s, t) => u.sound = s.sound
            /\ ~NodeAsNeeded(s, t) => u.sound = FALSE
            /\ u.current_state = [s.current_state EXCEPT ![t] = "ST_RUN"]
            /\ u.queue = IF LeavesQueue(s, t) THEN Unlinked(s.queue, t) ELSE s.queue
<1> DEFINE q == IF LeavesQueue(s, t) THEN Unlinked(s.queue, t) ELSE s.queue
           st == [s.current_state EXCEPT ![t] = "ST_RUN"]
           ok == s.sound /\ NodeAsNeeded(s, t)
<1>1. Dispatch(s, t) = [s EXCEPT !.queue = q, !.current_state = st, !.sound = ok]
  BY DEF Dispatch, SchedType
<1>2. q \in Queues
  BY SchedTypeQueues, UnlinkedType
<1>3. st \in [Task -> States]
  BY DEF SchedType, States
<1>4. ok \in BOOLEAN
  BY DEF SchedType, NodeAsNeeded, LeavesQueue, Linked
<1> HIDE DEF q, st, ok
<1>5. /\ Dispatch(s, t) \in SchedType
      /\ Dispatch(s, t).PID = s.PID /\ Dispatch(s, t).current = s.current
      /\ Dispatch(s, t).tick_counter = s.tick_counter
      /\ Dispatch(s, t).sound = ok
      /\ Dispatch(s, t).current_state = st
      /\ Dispatch(s, t).queue = q
  BY <1>1, <1>2, <1>3, <1>4 DEF SchedType, Queues
<1>6. /\ NodeAsNeeded(s, t) => ok = s.sound
      /\ ~NodeAsNeeded(s, t) => ok = FALSE
  BY DEF ok, SchedType
<1>7. QED
  BY <1>5, <1>6 DEF q, st

\* A call leaves a queue that the PCB is not in as it is, or puts it at the
\* end.
LEMMA UpdateQueue ==
  ASSUME NEW s \in SchedType, NEW t \in Task, NEW dest \in QueueNames,
         NEW n \in QueueNames \ {"freequeue"}, ~In(s, n, t)
  PROVE  /\ dest # n \/ ~(s.PID[t] > 0) => Update(s, t, dest).queue[n] = s.queue[n]
         /\ dest = n /\ s.PID[t] > 0 => Update(s, t, dest).queue[n] = Append(s.queue[n], t)
<1> DEFINE into == IF s.PID[t] < 0 THEN "freequeue" ELSE dest
           others == IF LeavesQueue(s, t) THEN Unlinked(s.queue, t) ELSE s.queue
<1>1. /\ s.queue \in Queues /\ s.queue[n] \in Seq(Task)
      /\ s.PID[t] \in Int
  BY SchedTypeQueues DEF SchedType
<1>2. others \in [QueueNames -> Seq(Task)] /\ others[n] = s.queue[n]
  <2>1. RemoveFirst(s.queue[n], t) = s.queue[n]
    BY <1>1, RemoveAbsent DEF In
  <2>2. Unlinked(s.queue, t) \in Queues /\ Unlinked(s.queue, t)[n] = s.queue[n]
    BY <1>1, <2>1, UnlinkedType DEF Unlinked
  <2>3. QED BY <1>1, <2>2 DEF Queues
<1>3. into \in QueueNames /\ (into = n <=> ~(s.PID[t] < 0) /\ dest = n)
  BY DEF QueueNames
<1>4. Update(s, t, dest).queue = IF s.PID[t] = 0 THEN s.queue ELSE Appended(others, into, t)
  BY UpdateMoves
<1> HIDE DEF others, into
<1>5. Appended(others, into, t)[n] = IF into = n THEN Append(s.queue[n], t) ELSE s.queue[n]
  BY <1>1, <1>2, <1>3 DEF Appended
<1>6. CASE s.PID[t] = 0
  BY <1>4, <1>6
<1>7. CASE s.PID[t] # 0
  <2>1. Update(s, t, dest).queue[n] = IF into = n THEN Append(s.queue[n], t) ELSE s.queue[n]
    BY <1>4, <1>5, <1>7
  <2>2. s.PID[t] < 0 <=> ~(s.PID[t] > 0)
    BY <1>1, <1>7
  <2>3. QED BY <1>3, <2>1, <2>2
<1>8. QED BY <1>6, <1>7

LEMMA DispatchQueue ==
  ASSUME NEW s \in SchedType, NEW t \in Task, NEW n \in QueueNames, ~In(s, n, t)
  PROVE  Dispatch(s, t).queue[n] = s.queue[n]
<1>1. s.queue[n] \in Seq(Task)
  BY DEF SchedType
<1>2. RemoveFirst(s.queue[n], t) = s.queue[n]
  BY <1>1, RemoveAbsent DEF In
<1>3. Unlinked(s.queue, t)[n] = s.queue[n]
  BY <1>2 DEF Unlinked
<1>4. QED BY <1>3, DispatchType

LEMMA SchedNextType ==
  ASSUME NEW s \in SchedType
  PROVE  /\ SchedNext(s) \in SchedType
         /\ SchedNext(s).PID = s.PID
         /\ NextTask(s) \in Task
<1> DEFINE nt == NextTask(s)
           p  == IF s.current_state[s.current] = "ST_RUN"
                 THEN Update(s, s.current, "readyqueue") ELSE s
           d  == Dispatch(p, nt)
           c  == IF s.PID[s.current] # s.PID[nt] THEN nt ELSE s.current
<1>1. nt \in Task /\ s.current \in Task
  <2>1. s.queue["readyqueue"] \in Seq(Task)
    BY DEF SchedType, QueueNames
  <2>2. QED BY <2>1, HeadTailProperties, IdleIsTask DEF NextTask, SchedType
<1>2. p \in SchedType /\ p.PID = s.PID /\ p.current = s.current
  BY <1>1, UpdateType DEF QueueNames
<1>3. d \in SchedType /\ d.PID = s.PID /\ d.current = s.current
  <2> HIDE DEF p, nt
  <2> QED BY <1>1, <1>2, DispatchType
<1>4. get_quantum(nt) \in 0 .. DEFAULT_QUANTUM_TICKS
  BY QuantumAssumption DEF get_quantum
<1>5. SchedNext(s) = [d EXCEPT !.tick_counter = get_quantum(nt), !.current = c]
  BY <1>3 DEF SchedNext, SchedType
<1>6. c \in Task
  BY <1>1
<1> HIDE DEF d, c, nt
<1>7. QED
  BY <1>1, <1>3, <1>4, <1>5, <1>6 DEF SchedType, nt

\* Lists that are broken stay broken.
LEMMA SchedNextSound ==
  ASSUME NEW s \in SchedType, SchedNext(s).sound
  PROVE  s.sound
<1> DEFINE nt == NextTask(s)
           p  == IF s.current_state[s.current] = "ST_RUN"
                 THEN Update(s, s.current, "readyqueue") ELSE s
           d  == Dispatch(p, nt)
           c  == IF s.PID[s.current] # s.PID[nt] THEN nt ELSE d.current
<1>1. s.current \in Task /\ nt \in Task
  BY SchedNextType DEF SchedType
<1>2. p \in SchedType /\ (p.sound => s.sound)
  <2>1. "readyqueue" \in QueueNames
    BY DEF QueueNames
  <2>2. /\ Update(s, s.current, "readyqueue") \in SchedType
        /\ Update(s, s.current, "readyqueue").sound => s.sound
    BY <1>1, <2>1, UpdateType
  <2>3. QED BY <2>2
<1>3. SchedNext(s) = [d EXCEPT !.tick_counter = get_quantum(nt), !.current = c]
  BY DEF SchedNext
<1> HIDE DEF nt, p, c
<1>4. d \in SchedType /\ (d.sound => p.sound)
  BY <1>1, <1>2, DispatchType
<1> HIDE DEF d
<1>5. SchedNext(s).sound = d.sound
  BY <1>3, <1>4 DEF SchedType
<1>6. QED BY <1>2, <1>4, <1>5

----------------------------------------------------------------------------
\* Moving a PCB whose node is as the kernel needs it keeps the table
\* well-formed, and puts it in the queue named, or in the freequeue.
LEMMA UpdateTable ==
  ASSUME NEW s, NEW F, NEW Out, Table(s, F, Out), Idle \in Out,
         NEW t \in Task, NEW dest \in QueueNames,
         NodeAsNeeded(s, t),
         dest # "freequeue" \/ s.PID[t] < 0
  PROVE  LET u == Update(s, t, dest)
             into == IF s.PID[t] < 0 THEN "freequeue" ELSE dest
         IN /\ Table(u, F, (Out \ {t}) \cup {Idle})
            /\ \A n \in QueueNames : \A x \in Task :
                 In(u, n, x) <=> IF x = t /\ t # Idle THEN n = into ELSE In(s, n, x)
<1> DEFINE into == IF s.PID[t] < 0 THEN "freequeue" ELSE dest
           others == IF LeavesQueue(s, t) THEN Unlinked(s.queue, t) ELSE s.queue
           u == Update(s, t, dest)
<1>1. /\ s \in SchedType /\ NodesDistinct(s.queue) /\ s.queue \in Queues
      /\ s.PID \in [Task -> Int] /\ s.current_state \in [Task -> States]
      /\ Idle \in Task /\ into \in QueueNames
  BY SchedTypeQueues, IdleIsTask DEF Table, SchedType, QueueNames
<1>2. /\ u \in SchedType /\ u.PID = s.PID
      /\ u.current_state = [s.current_state EXCEPT ![t] = StateOf[into]]
      /\ u.queue = IF s.PID[t] = 0 THEN s.queue
                   ELSE Appended(others, into, t)
  BY <1>1, UpdateType
<1> HIDE DEF u, into
<1>3. /\ others \in Queues /\ NodesDistinct(others)
      /\ \A n \in QueueNames : \A x \in Task :
           t # Idle => (Contains(others[n], x) <=> In(s, n, x) /\ x # t)
  <2>1. CASE LeavesQueue(s, t)
    BY <1>1, <2>1, UnlinkedType, UnlinkedProperties DEF In
  <2>2. CASE ~LeavesQueue(s, t)
    <3>1. t # Idle => \A n \in QueueNames : ~In(s, n, t)
      BY <2>2 DEF NodeAsNeeded, Linked, In
    <3>2. QED BY <1>1, <2>2, <3>1 DEF In
  <2>3. QED BY <2>1, <2>2
<1> HIDE DEF others
<1>4. t # Idle => s.PID[t] # 0 /\ ~(IsFree(s, t) /\ LeavesQueue(s, t))
  <2>1. ASSUME t # Idle, IsFree(s, t) PROVE s.PID[t] # 0 /\ ~LeavesQueue(s, t)
    <3>1. \/ s.PID[t] = -1 /\ s.current_state[t] = "ST_FREE"
          \/ s.PID[t] > 0  /\ s.current_state[t] = "ST_RUN"
      BY <2>1 DEF Table, PidsAgree, IsFree, QueueNames
    <3>2. QED BY <3>1 DEF LeavesQueue
  <2>2. ASSUME t # Idle, ~IsFree(s, t) PROVE s.PID[t] # 0
    <3>1. ~IsFree(s, Idle) \/ s.PID[Idle] = 0
      BY DEF Table
    <3>2. QED BY <1>1, <2>2 DEF Table, PidsUnique, PidsAgree, IsFree, QueueNames
  <2>3. QED BY <2>1, <2>2
<1>5. \A n \in QueueNames : \A x \in Task :
        In(u, n, x) <=> IF x = t /\ t # Idle THEN n = into ELSE In(s, n, x)
  <2>1. CASE t = Idle
    BY <1>2, <2>1 DEF Table, In
  <2>2. CASE t # Idle
    <3>1. u.queue = Appended(others, into, t)
      BY <1>2, <1>4, <2>2
    <3>2. \A n \in QueueNames : \A x \in Task :
            Contains(u.queue[n], x) <=> Contains(others[n], x) \/ (n = into /\ x = t)
      BY <1>1, <1>3, <3>1, AppendedProperties
    <3>3. QED BY <1>3, <2>2, <3>2 DEF In
  <2>3. QED BY <2>1, <2>2
<1>6. NodesDistinct(u.queue)
  <2>1. CASE t = Idle
    BY <1>1, <1>2, <2>1 DEF Table
  <2>2. CASE t # Idle
    <3>1. u.queue = Appended(others, into, t)
      BY <1>2, <1>4, <2>2
    <3>2. \A n \in QueueNames : ~Contains(others[n], t)
      BY <1>3, <2>2
    <3>3. QED BY <1>1, <1>3, <3>1, <3>2, AppendedProperties
  <2>3. QED BY <2>1, <2>2
<1>7. t # Idle => /\ into = "freequeue" => s.PID[t] = -1
                  /\ into # "freequeue" => s.PID[t] > 0
  BY <1>1, <1>4 DEF Table, into
<1>8. StatesAgree(u, F)
  <2> SUFFICES ASSUME NEW n \in QueueNames, NEW x \in Task, In(u, n, x)
               PROVE  \/ u.current_state[x] = StateOf[n]
                      \/ n = "freequeue" /\ x \in F /\ u.current_state[x] = "ST_RUN"
    BY DEF StatesAgree
  <2>1. CASE x = t /\ t # Idle
    BY <1>1, <1>2, <1>5, <2>1
  <2>2. CASE x # t
    BY <1>1, <1>2, <1>5, <2>2 DEF Table, StatesAgree
  <2>3. CASE x = t /\ t = Idle
    <3>1. In(s, n, Idle)
      BY <1>5, <2>3
    <3>2. QED BY <3>1, IdleInNoQueue
  <2>4. QED BY <2>1, <2>2, <2>3
<1>9. PidsAgree(u, F)
  <2> SUFFICES ASSUME NEW n \in QueueNames, NEW x \in Task, In(u, n, x)
               PROVE  IF n = "freequeue"
                      THEN \/ u.PID[x] = -1 /\ u.current_state[x] = "ST_FREE"
                           \/ u.PID[x] > 0  /\ u.current_state[x] = "ST_RUN" /\ x \in F
                      ELSE u.PID[x] > 0
    BY DEF PidsAgree
  <2>1. CASE x = t /\ t # Idle
    BY <1>1, <1>2, <1>5, <1>7, <2>1 DEF StateOf
  <2>2. CASE x # t
    BY <1>1, <1>2, <1>5, <2>2 DEF Table, PidsAgree
  <2>3. CASE x = t /\ t = Idle
    <3>1. In(s, n, Idle)
      BY <1>5, <2>3
    <3>2. QED BY <3>1, IdleInNoQueue
  <2>4. QED BY <2>1, <2>2, <2>3
<1>10. PidsUnique(u)
  <2>1. t # Idle => ~IsFree(s, t) \/ into = "freequeue"
    <3> SUFFICES ASSUME t # Idle, IsFree(s, t) PROVE into = "freequeue"
      OBVIOUS
    <3>1. Linked(s, t) /\ ~LeavesQueue(s, t)
      BY <1>4 DEF IsFree, In, Linked, QueueNames
    <3>2. QED BY <3>1 DEF NodeAsNeeded
  <2>2. \A x \in Task : ~IsFree(u, x) => ~IsFree(s, x)
    BY <1>5, <2>1 DEF IsFree, QueueNames
  <2>3. QED BY <1>2, <2>2 DEF Table, PidsUnique
<1>11. \A x \in Task \ ((Out \ {t}) \cup {Idle}) : Linked(u, x)
  <2> SUFFICES ASSUME NEW x \in Task, x # Idle, x \notin Out \/ x = t PROVE Linked(u, x)
    OBVIOUS
  <2>1. CASE x = t
    BY <1>1, <1>5, <2>1 DEF Linked, In
  <2>2. CASE x # t
    BY <1>5, <2>2 DEF Table, Linked, In
  <2>3. QED BY <2>1, <2>2
<1>12. QED
  BY <1>2, <1>5, <1>6, <1>8, <1>9, <1>10, <1>11 DEF Table, into, u

\* The two uses of it: a task goes to a queue, a PCB to the freequeue.
LEMMA EnqueueTable ==
  ASSUME NEW s, NEW F, NEW Out, Table(s, F, Out), Idle \in Out,
         NEW t \in Task, NEW dest \in QueueNames,
         NodeAsNeeded(s, t), s.PID[t] >= 0, t # Idle, dest # "freequeue"
  PROVE  /\ Table(Update(s, t, dest), F, (Out \ {t}) \cup {Idle})
         /\ \A n \in QueueNames : \A x \in Task :
              In(Update(s, t, dest), n, x) <=> IF x = t THEN n = dest ELSE In(s, n, x)
<1>1. ~(s.PID[t] < 0)
  BY DEF Table, SchedType
<1>2. QED BY <1>1, UpdateTable

LEMMA RequeueTable ==
  ASSUME NEW s, NEW F, NEW Out, Table(s, F, Out), Idle \in Out,
         NEW t \in Task, NodeAsNeeded(s, t), ~(s.PID[t] < 0)
  PROVE  /\ Table(Update(s, t, "readyqueue"), F, (Out \ {t}) \cup {Idle})
         /\ \A n \in QueueNames : \A x \in Task :
              In(Update(s, t, "readyqueue"), n, x)
                <=> IF x = t /\ t # Idle THEN n = "readyqueue" ELSE In(s, n, x)
<1>1. "readyqueue" \in QueueNames /\ "readyqueue" # "freequeue"
  BY DEF QueueNames
<1>2. QED BY <1>1, UpdateTable

LEMMA ReleaseTable ==
  ASSUME NEW s, NEW F, NEW Out, Table(s, F, Out), Idle \in Out,
         NEW t \in Task, NEW dest \in QueueNames,
         NodeAsNeeded(s, t), s.PID[t] < 0, t # Idle
  PROVE  /\ Table(Update(s, t, dest), F, (Out \ {t}) \cup {Idle})
         /\ \A n \in QueueNames : \A x \in Task :
              In(Update(s, t, dest), n, x)
                <=> IF x = t THEN n = "freequeue" ELSE In(s, n, x)
BY UpdateTable

LEMMA MoveTable ==
  ASSUME NEW s, NEW F, NEW Out, Table(s, F, Out), Idle \in Out,
         NEW t \in Task, NEW dest \in QueueNames,
         NodeAsNeeded(s, t), dest # "freequeue"
  PROVE  Table(Update(s, t, dest), F, Out)
<1>1. Table(Update(s, t, dest), F, (Out \ {t}) \cup {Idle})
  BY UpdateTable
<1>2. QED BY <1>1 DEF Table

LEMMA InOneQueue ==
  ASSUME NEW s \in SchedType, NodesDistinct(s.queue),
         NEW m \in QueueNames, NEW n \in QueueNames, NEW t,
         In(s, m, t), In(s, n, t)
  PROVE  m = n
<1>1. PICK i \in 1 .. Len(s.queue[m]) : s.queue[m][i] = t
  BY DEF In, Contains
<1>2. PICK j \in 1 .. Len(s.queue[n]) : s.queue[n][j] = t
  BY DEF In, Contains
<1>3. s.queue[m] \in Seq(Task) /\ s.queue[n] \in Seq(Task)
  BY DEF SchedType
<1>4. i \in DOMAIN s.queue[m] /\ j \in DOMAIN s.queue[n]
  BY <1>3, LenProperties
<1>5. QED
  BY <1>1, <1>2, <1>4 DEF NodesDistinct

\* sched_next_rr keeps the table well-formed, hands the CPU to a task that is
\* then in no queue, and finds every node as it needs it.
LEMMA SchedNextTable ==
  ASSUME NEW s, NEW F, Table(s, F, {Idle, s.current}),
         s.current # Idle =>
           /\ s.current_state[s.current] = "ST_RUN" <=> ~Linked(s, s.current)
           /\ ~Linked(s, s.current) => s.PID[s.current] > 0
           /\ IsFree(s, s.current) => s.PID[s.current] = -1
  PROVE  LET z == SchedNext(s)
         IN /\ Table(z, F, {Idle, z.current})
            /\ z.sound = s.sound
            /\ z.PID = s.PID
            /\ z.current_state[z.current] = "ST_RUN"
            /\ z.current # Idle => ~Linked(z, z.current) /\ z.PID[z.current] > 0
            /\ \A t \in Task : IsFree(z, t) <=> IsFree(s, t)
<1> DEFINE cur == s.current
           nt  == NextTask(s)
           run == s.current_state[cur] = "ST_RUN"
           p   == IF run THEN Update(s, cur, "readyqueue") ELSE s
           d   == Dispatch(p, nt)
           z   == SchedNext(s)
<1>0. /\ s \in SchedType /\ NodesDistinct(s.queue) /\ cur \in Task /\ Idle \in Task
      /\ "readyqueue" \in QueueNames /\ "freequeue" \in QueueNames
      /\ s.PID \in [Task -> Int] /\ s.current_state \in [Task -> States]
      /\ s.PID[Idle] = 0
  BY IdleIsTask DEF Table, SchedType, QueueNames
<1>1. /\ Table(p, F, {Idle})
      /\ p.sound = s.sound /\ p.PID = s.PID /\ p.current = cur
      /\ \A n \in QueueNames : \A x \in Task :
           In(p, n, x) <=> IF run /\ x = cur /\ cur # Idle THEN n = "readyqueue"
                                                         ELSE In(s, n, x)
  <2>1. CASE run
    <3>1. NodeAsNeeded(s, cur)
      BY <2>1 DEF NodeAsNeeded, LeavesQueue
    <3>2. ~(s.PID[cur] < 0)
      BY <1>0, <2>1
    <3>3. /\ Table(Update(s, cur, "readyqueue"), F, ({Idle, cur} \ {cur}) \cup {Idle})
          /\ \A n \in QueueNames : \A x \in Task :
               In(Update(s, cur, "readyqueue"), n, x)
                 <=> IF x = cur /\ cur # Idle THEN n = "readyqueue" ELSE In(s, n, x)
      <4> DEFINE Out == {Idle, cur}
      <4>1. Table(s, F, Out) /\ Idle \in Out
        OBVIOUS
      <4> HIDE DEF Out
      <4>2. /\ Table(Update(s, cur, "readyqueue"), F, (Out \ {cur}) \cup {Idle})
            /\ \A n \in QueueNames : \A x \in Task :
                 In(Update(s, cur, "readyqueue"), n, x)
                   <=> IF x = cur /\ cur # Idle THEN n = "readyqueue" ELSE In(s, n, x)
        BY <1>0, <3>1, <3>2, <4>1, RequeueTable
      <4>3. QED BY <4>2 DEF Out
    <3>4. ({Idle, cur} \ {cur}) \cup {Idle} = {Idle}
      OBVIOUS
    <3>5. /\ Update(s, cur, "readyqueue").sound = s.sound
          /\ Update(s, cur, "readyqueue").PID = s.PID
          /\ Update(s, cur, "readyqueue").current = cur
      BY <1>0, <3>1, UpdateFields
    <3>6. s.sound \in BOOLEAN
      BY <1>0 DEF SchedType
    <3>7. QED BY <2>1, <3>1, <3>3, <3>4, <3>5, <3>6
  <2>2. CASE ~run
    <3>1. cur = Idle \/ Linked(s, cur)
      BY <2>2
    <3>2. Table(s, F, {Idle})
      BY <3>1 DEF Table
    <3>3. QED BY <2>2, <3>2
  <2>3. QED BY <2>1, <2>2
<1> HIDE DEF p
<1>2. /\ nt \in Task
      /\ nt = Idle \/ In(s, "readyqueue", nt)
      /\ nt = Idle \/ In(p, "readyqueue", nt)
  <2>1. nt \in Task
    BY <1>0, SchedNextType
  <2>2. nt = Idle \/ In(s, "readyqueue", nt)
    <3>1. CASE s.queue["readyqueue"] = <<>>
      BY <3>1 DEF NextTask
    <3>2. CASE s.queue["readyqueue"] # <<>>
      BY <1>0, <3>2, SchedTypeQueues, TailProperties DEF NextTask, In
    <3>3. QED BY <3>1, <3>2
  <2>3. QED BY <1>0, <1>1, <2>1, <2>2
<1> HIDE DEF nt
<1>3. /\ p \in SchedType /\ p.queue \in Queues /\ NodesDistinct(p.queue)
      /\ p.current_state \in [Task -> States]
  BY <1>1, SchedTypeQueues DEF Table, SchedType
<1>4. nt # Idle => /\ p.PID[nt] > 0 /\ LeavesQueue(p, nt) /\ Linked(p, nt)
                   /\ ~IsFree(s, nt)
  <2> SUFFICES ASSUME nt # Idle
               PROVE  /\ p.PID[nt] > 0 /\ LeavesQueue(p, nt) /\ Linked(p, nt)
                      /\ ~IsFree(s, nt)
    OBVIOUS
  <2>1. In(p, "readyqueue", nt) /\ In(s, "readyqueue", nt)
    BY <1>2
  <2>2. p.PID[nt] > 0
    BY <1>0, <1>1, <1>2, <2>1 DEF Table, PidsAgree
  <2>3. p.current_state[nt] = "ST_READY"
    BY <1>0, <1>1, <1>2, <2>1 DEF Table, StatesAgree, StateOf
  <2>4. Linked(p, nt)
    BY <1>0, <2>1 DEF Linked, In
  <2>5. ~IsFree(s, nt)
    BY <1>0, <2>1, InOneQueue DEF IsFree
  <2>6. QED BY <2>2, <2>3, <2>4, <2>5 DEF LeavesQueue
<1>5. NodeAsNeeded(p, nt) /\ (nt = Idle => ~LeavesQueue(p, nt))
  BY <1>0, <1>1, <1>4 DEF NodeAsNeeded, LeavesQueue
<1>6. /\ d \in SchedType /\ d.PID = s.PID /\ d.current = cur /\ d.sound = s.sound
      /\ d.current_state = [p.current_state EXCEPT ![nt] = "ST_RUN"]
      /\ d.queue = IF LeavesQueue(p, nt) THEN Unlinked(p.queue, nt) ELSE p.queue
  <2>1. p.sound \in BOOLEAN
    BY <1>3 DEF SchedType
  <2>2. QED BY <1>1, <1>2, <1>3, <1>5, <2>1, DispatchType
<1> HIDE DEF d
<1>7. /\ NodesDistinct(d.queue)
      /\ \A n \in QueueNames : \A x \in Task :
           In(d, n, x) <=> In(p, n, x) /\ (nt = Idle \/ x # nt)
  <2>1. CASE nt = Idle
    BY <1>3, <1>5, <1>6, <2>1 DEF In
  <2>2. CASE nt # Idle
    BY <1>3, <1>4, <1>6, <2>2, UnlinkedProperties DEF In
  <2>3. QED BY <2>1, <2>2
<1>8. s.PID[cur] = s.PID[nt] => cur = nt
  <2>1. CASE nt = Idle
    <3> SUFFICES ASSUME cur # Idle PROVE s.PID[cur] # 0
      BY <1>0, <2>1
    <3>1. CASE ~Linked(s, cur)
      BY <1>0, <3>1
    <3>2. CASE Linked(s, cur)
      <4>1. PICK n \in QueueNames : In(s, n, cur)
        BY <3>2 DEF Linked, In
      <4>2. QED BY <1>0, <4>1 DEF Table, PidsAgree
    <3>3. QED BY <3>1, <3>2
  <2>2. CASE nt # Idle
    <3>1. s.PID[nt] > 0 /\ ~IsFree(s, nt)
      BY <1>1, <1>4, <2>2
    <3>2. CASE IsFree(s, cur)
      <4>1. cur # Idle
        BY <1>0, <3>2, IdleInNoQueue DEF IsFree
      <4>2. QED BY <1>0, <3>1, <3>2, <4>1
    <3>3. CASE ~IsFree(s, cur)
      BY <1>0, <1>2, <3>1, <3>3 DEF Table, PidsUnique
    <3>4. QED BY <3>2, <3>3
  <2>3. QED BY <2>1, <2>2
<1>9. /\ z \in SchedType /\ z.PID = s.PID /\ z.current = nt /\ z.sound = s.sound
      /\ z.current_state = d.current_state /\ z.queue = d.queue
  <2>1. z = [d EXCEPT !.tick_counter = get_quantum(nt),
                      !.current      = IF s.PID[cur] # s.PID[nt] THEN nt ELSE cur]
    BY <1>6 DEF SchedNext, d, p, nt, SchedType
  <2>2. z \in SchedType /\ z.PID = s.PID
    BY <1>0, SchedNextType
  <2>3. QED BY <1>6, <1>8, <2>1, <2>2 DEF SchedType
<1> HIDE DEF z
<1>10. \A n \in QueueNames : \A x \in Task :
         In(z, n, x) <=> In(p, n, x) /\ (nt = Idle \/ x # nt)
  BY <1>7, <1>9 DEF In
<1>11. StatesAgree(z, F)
  <2> SUFFICES ASSUME NEW n \in QueueNames, NEW x \in Task, In(z, n, x)
               PROVE  \/ z.current_state[x] = StateOf[n]
                      \/ n = "freequeue" /\ x \in F /\ z.current_state[x] = "ST_RUN"
    BY DEF StatesAgree
  <2>1. In(p, n, x) /\ x # nt
    BY <1>1, <1>10, IdleInNoQueue
  <2>2. z.current_state[x] = p.current_state[x]
    BY <1>2, <1>3, <1>6, <1>9, <2>1
  <2>3. QED BY <1>1, <2>1, <2>2 DEF Table, StatesAgree
<1>12. PidsAgree(z, F)
  BY <1>1, <1>2, <1>3, <1>6, <1>9, <1>10, IdleInNoQueue DEF Table, PidsAgree
<1>13. \A t \in Task : IsFree(z, t) <=> IsFree(s, t)
  <2> SUFFICES ASSUME NEW t \in Task PROVE IsFree(z, t) <=> IsFree(s, t)
    OBVIOUS
  <2>1. run /\ cur # Idle => ~IsFree(s, cur)
    BY <1>0 DEF IsFree, Linked, In
  <2>2. IsFree(p, t) <=> IsFree(s, t)
    BY <1>0, <1>1, <2>1 DEF IsFree
  <2>3. QED BY <1>0, <1>4, <1>10, <2>2 DEF IsFree
<1>14. PidsUnique(z)
  BY <1>9, <1>13 DEF Table, PidsUnique
<1>15. \A t \in Task \ {Idle, nt} : Linked(z, t)
  BY <1>1, <1>10 DEF Table, Linked, In
<1>16. z.current_state[nt] = "ST_RUN"
  BY <1>2, <1>3, <1>6, <1>9
<1>17. nt # Idle => ~Linked(z, nt) /\ z.PID[nt] > 0
  BY <1>1, <1>2, <1>4, <1>9, <1>10 DEF Linked, In
<1>18. Table(z, F, {Idle, z.current})
  BY <1>7, <1>9, <1>11, <1>12, <1>14, <1>15 DEF Table
<1>19. QED
  BY <1>9, <1>13, <1>16, <1>17, <1>18 DEF z

\* update_process_state_rr with dest = NULL takes a task out of its queue, if
\* it is in one, and keeps the table well-formed.
LEMMA DispatchTable ==
  ASSUME NEW s, NEW F, NEW Out, Table(s, F, Out), NEW t \in Task, s.PID[t] > 0,
         s.current_state[t] = "ST_RUN" <=> ~Linked(s, t), ~IsFree(s, t)
  PROVE  /\ Table(Dispatch(s, t), F, Out \cup {t})
         /\ Dispatch(s, t).PID = s.PID /\ Dispatch(s, t).current = s.current
         /\ Dispatch(s, t).current_state[t] = "ST_RUN"
         /\ ~Linked(Dispatch(s, t), t)
         /\ \A n \in QueueNames : \A x \in Task :
              In(Dispatch(s, t), n, x) <=> In(s, n, x) /\ x # t
<1> DEFINE d == Dispatch(s, t)
<1>1. /\ s \in SchedType /\ s.queue \in Queues /\ NodesDistinct(s.queue)
      /\ s.current_state \in [Task -> States] /\ s.PID \in [Task -> Int]
      /\ "freequeue" \in QueueNames
  BY SchedTypeQueues DEF Table, SchedType, QueueNames
<1>2. LeavesQueue(s, t) <=> Linked(s, t)
  BY DEF LeavesQueue
<1>3. /\ d \in SchedType /\ d.PID = s.PID /\ d.current = s.current
      /\ d.current_state = [s.current_state EXCEPT ![t] = "ST_RUN"]
      /\ d.queue = IF LeavesQueue(s, t) THEN Unlinked(s.queue, t) ELSE s.queue
  BY <1>1, DispatchType
<1> HIDE DEF d
<1>4. /\ NodesDistinct(d.queue)
      /\ \A n \in QueueNames : \A x \in Task : In(d, n, x) <=> In(s, n, x) /\ x # t
  <2>1. CASE LeavesQueue(s, t)
    BY <1>1, <1>3, <2>1, UnlinkedProperties DEF In
  <2>2. CASE ~LeavesQueue(s, t)
    BY <1>1, <1>2, <1>3, <2>2 DEF In, Linked
  <2>3. QED BY <2>1, <2>2
<1>5. StatesAgree(d, F) /\ PidsAgree(d, F)
  <2>1. \A x \in Task : x # t => d.current_state[x] = s.current_state[x]
    BY <1>1, <1>3
  <2>2. QED BY <1>3, <1>4, <2>1 DEF Table, StatesAgree, PidsAgree
<1>6. PidsUnique(d)
  BY <1>1, <1>3, <1>4 DEF Table, PidsUnique, IsFree
<1>7. \A x \in Task \ (Out \cup {t}) : Linked(d, x)
  BY <1>4 DEF Table, Linked, In
<1>8. ~Linked(d, t) /\ d.current_state[t] = "ST_RUN"
  BY <1>1, <1>3, <1>4 DEF Linked, In
<1>9. Table(d, F, Out \cup {t})
  BY <1>3, <1>4, <1>5, <1>6, <1>7 DEF Table
<1>10. QED BY <1>3, <1>4, <1>8, <1>9 DEF d

----------------------------------------------------------------------------
(* The ready queue, as a queue *)

RQ == "readyqueue"

LEMMA RQIsQueue ==
  /\ RQ \in QueueNames /\ RQ # "freequeue"
  /\ \A s \in SchedType : s.queue[RQ] \in Seq(Task)
BY DEF RQ, QueueNames, SchedType

\* The task that sched_next_rr chooses is ready, if it is not the idle one,
\* and has a PID of its own.
LEMMA NextIsReady ==
  ASSUME NEW s, NEW F, Table(s, F, {Idle, s.current}), s.queue[RQ] # <<>>
  PROVE  /\ NextTask(s) = Head(s.queue[RQ]) /\ NextTask(s) \in Task \ {Idle}
         /\ In(s, RQ, NextTask(s)) /\ ~IsFree(s, NextTask(s))
         /\ s.PID[NextTask(s)] > 0 /\ s.current_state[NextTask(s)] = "ST_READY"
<1> DEFINE nt == NextTask(s)
<1>1. s \in SchedType /\ NodesDistinct(s.queue) /\ s.queue[RQ] \in Seq(Task)
      /\ RQ \in QueueNames /\ "freequeue" \in QueueNames
  BY RQIsQueue DEF Table, QueueNames
<1>2. nt = Head(s.queue[RQ]) /\ nt \in Task /\ In(s, RQ, nt)
  BY <1>1, SchedTypeQueues, TailProperties DEF NextTask, In, RQ
<1> HIDE DEF nt
<1>3. nt # Idle
  BY <1>1, <1>2, IdleInNoQueue
<1>4. ~IsFree(s, nt)
  BY <1>1, <1>2, InOneQueue, RQIsQueue DEF IsFree
<1>5. s.PID[nt] > 0
  BY <1>1, <1>2, RQIsQueue DEF Table, PidsAgree
<1>6. s.current_state[nt] = "ST_READY"
  BY <1>1, <1>2 DEF Table, StatesAgree, StateOf, RQ
<1>7. QED BY <1>2, <1>3, <1>4, <1>5, <1>6 DEF nt

LEMMA NextHasOwnPid ==
  ASSUME NEW s, NEW F, Table(s, F, {Idle, s.current}),
         s.current # Idle =>
           /\ ~Linked(s, s.current) => s.PID[s.current] > 0
           /\ IsFree(s, s.current) => s.PID[s.current] = -1,
         s.PID[s.current] = s.PID[NextTask(s)]
  PROVE  NextTask(s) = s.current
<1> DEFINE cur == s.current
           nt  == NextTask(s)
<1>1. /\ s \in SchedType /\ cur \in Task /\ Idle \in Task /\ s.PID[Idle] = 0
      /\ s.PID \in [Task -> Int]
  BY IdleIsTask DEF Table, SchedType
<1>2. CASE s.queue[RQ] = <<>>
  <2>1. nt = Idle
    BY <1>2 DEF NextTask, RQ
  <2>2. ASSUME cur # Idle, Linked(s, cur) PROVE s.PID[cur] # 0
    <3>1. PICK n \in QueueNames : In(s, n, cur)
      BY <2>2 DEF Linked, In
    <3>2. QED BY <1>1, <3>1 DEF Table, PidsAgree
  <2>3. QED BY <1>1, <2>1, <2>2
<1>3. CASE s.queue[RQ] # <<>>
  <2>1. nt \in Task \ {Idle} /\ ~IsFree(s, nt) /\ s.PID[nt] > 0
    BY <1>3, NextIsReady
  <2> HIDE DEF nt
  <2>2. s.PID[cur] = s.PID[nt]
    BY DEF nt
  <2>3. cur # Idle /\ ~IsFree(s, cur)
    BY <1>1, <2>1, <2>2
  <2>4. nt = cur
    BY <1>1, <2>1, <2>2, <2>3 DEF Table, PidsUnique
  <2>5. QED BY <2>4 DEF nt
<1>4. QED BY <1>2, <1>3

LEMMA ReadyAtTail ==
  ASSUME NEW s \in SchedType, NEW t \in Task, ~In(s, RQ, t)
  PROVE  Update(s, t, RQ).queue[RQ]
           = IF s.PID[t] > 0 THEN Append(s.queue[RQ], t) ELSE s.queue[RQ]
<1>1. RQ \in QueueNames \ {"freequeue"} /\ RQ \in QueueNames
  BY RQIsQueue
<1>2. QED BY <1>1, UpdateQueue

\* sched_next_rr gives the CPU to the head of the ready queue, and the task that
\* had it goes to the tail, if it still runs.
LEMMA SchedNextQueue ==
  ASSUME NEW s, NEW F, Table(s, F, {Idle, s.current}),
         s.current # Idle =>
           /\ s.current_state[s.current] = "ST_RUN" <=> ~Linked(s, s.current)
           /\ ~Linked(s, s.current) => s.PID[s.current] > 0
           /\ IsFree(s, s.current) => s.PID[s.current] = -1
  PROVE  LET q    == s.queue[RQ]
             z    == SchedNext(s)
             back == IF s.current_state[s.current] = "ST_RUN" /\ s.current # Idle
                     THEN <<s.current>> ELSE <<>>
         IN /\ z.current = NextTask(s)
            /\ q = <<>> => z.queue[RQ] = back
            /\ q # <<>> => z.queue[RQ] = Tail(q) \o back
<1> DEFINE cur  == s.current
           nt   == NextTask(s)
           q    == s.queue[RQ]
           runs == s.current_state[cur] = "ST_RUN"
           back == IF runs /\ cur # Idle THEN <<cur>> ELSE <<>>
           p    == IF runs THEN Update(s, cur, "readyqueue") ELSE s
           d    == Dispatch(p, nt)
<1>1. /\ s \in SchedType /\ cur \in Task /\ Idle \in Task /\ s.PID[Idle] = 0
      /\ s.PID \in [Task -> Int] /\ RQ \in QueueNames /\ RQ # "freequeue"
      /\ q \in Seq(Task) /\ nt \in Task /\ RQ = "readyqueue"
  BY IdleIsTask, RQIsQueue, SchedNextType DEF Table, SchedType, RQ
<1>2. /\ p \in SchedType /\ p.PID = s.PID /\ p.current = cur
      /\ p.queue[RQ] = IF runs /\ cur # Idle THEN Append(q, cur) ELSE q
      /\ nt # Idle => p.current_state[nt] # "ST_RUN"
  <2>1. CASE runs
    <3> DEFINE u == Update(s, cur, "readyqueue")
    <3>1. u \in SchedType /\ u.PID = s.PID /\ u.current = cur
      BY <1>1, UpdateKeeps
    <3>2. u.queue[RQ] = IF cur # Idle THEN Append(q, cur) ELSE q
      <4>1. ~In(s, RQ, cur)
        BY <1>1, <2>1, IdleInNoQueue DEF Linked, In
      <4>2. cur # Idle <=> s.PID[cur] > 0
        BY <1>1, <2>1
      <4>3. u.queue[RQ] = IF s.PID[cur] > 0 THEN Append(q, cur) ELSE q
        BY <1>1, <4>1, ReadyAtTail
      <4>4. QED BY <4>2, <4>3
    <3>3. nt # Idle => u.current_state[nt] # "ST_RUN"
      <4>1. nt # Idle => s.current_state[nt] # "ST_RUN"
        BY <1>1, NextIsReady DEF NextTask
      <4>2. nt # Idle => nt # cur
        BY <2>1, <4>1
      <4>3. QED BY <1>1, <4>1, <4>2, UpdateStates
    <3> HIDE DEF u
    <3>4. QED BY <2>1, <3>1, <3>2, <3>3 DEF u
  <2>2. CASE ~runs
    <3>1. nt # Idle => s.current_state[nt] # "ST_RUN"
      BY <1>1, NextIsReady DEF NextTask
    <3>2. QED BY <1>1, <2>2, <3>1
  <2>3. QED BY <2>1, <2>2
<1> HIDE DEF p
<1>3. /\ q = <<>> => nt = Idle
      /\ q # <<>> => nt = Head(q) /\ nt # Idle /\ s.PID[nt] > 0
  BY <1>1, NextIsReady DEF NextTask
<1> HIDE DEF nt
<1>4. /\ d \in SchedType /\ d.current = cur
      /\ d.queue = IF LeavesQueue(p, nt) THEN Unlinked(p.queue, nt) ELSE p.queue
  BY <1>1, <1>2, DispatchType
<1> HIDE DEF d
<1>5. LeavesQueue(p, nt) <=> q # <<>>
  BY <1>1, <1>2, <1>3 DEF LeavesQueue
<1>6. q = <<>> => d.queue[RQ] = back
  <2>1. Append(<<>>, cur) = <<cur>>
    BY <1>1
  <2>2. QED BY <1>2, <1>4, <1>5, <2>1
<1>7. q # <<>> => d.queue[RQ] = Tail(q) \o back
  <2> SUFFICES ASSUME q # <<>> PROVE d.queue[RQ] = Tail(q) \o back
    OBVIOUS
  <2>0. q # <<>>
    OBVIOUS
  <2>1. d.queue[RQ] = RemoveFirst(p.queue[RQ], Head(q))
    BY <1>1, <1>3, <1>4, <1>5 DEF Unlinked
  <2>2. Tail(q) \in Seq(Task)
    BY <1>1, HeadTailProperties
  <2>3. CASE runs /\ cur # Idle
    <3>1. /\ Append(q, cur) \in Seq(Task) /\ Append(q, cur) # <<>>
          /\ Head(Append(q, cur)) = Head(q)
          /\ Tail(Append(q, cur)) = Append(Tail(q), cur)
      <4>1. q \in Seq(Task) /\ cur \in Task
        BY <1>1
      <4> HIDE DEF q, cur
      <4>2. QED BY <4>1, <2>0, AppendProperties, HeadTailAppend
    <3>2. RemoveFirst(Append(q, cur), Head(q)) = Append(Tail(q), cur)
      BY <3>1, RemoveFirstHead
    <3>3. p.queue[RQ] = Append(q, cur) /\ back = <<cur>> /\ cur \in Task
      BY <1>1, <1>2, <2>3
    <3> HIDE DEF q, back, cur
    <3>4. QED BY <2>1, <2>2, <3>2, <3>3, AppendIsConcat
  <2>4. CASE ~(runs /\ cur # Idle)
    <3>1. p.queue[RQ] = q /\ back = <<>>
      BY <1>2, <2>4
    <3>2. q \in Seq(Task)
      BY <1>1
    <3> HIDE DEF q, back
    <3>3. RemoveFirst(q, Head(q)) = Tail(q)
      BY <2>0, <3>2, RemoveFirstHead
    <3>4. QED BY <2>1, <2>2, <3>1, <3>3, ConcatEmptySeq
  <2>5. QED BY <2>3, <2>4
<1>8. SchedNext(s).queue = d.queue /\ SchedNext(s).current = nt
  <2>1. SchedNext(s) = [d EXCEPT !.tick_counter = get_quantum(nt),
                                 !.current      = IF s.PID[cur] # s.PID[nt] THEN nt ELSE cur]
    BY <1>4 DEF SchedNext, d, p, nt, SchedType
  <2>2. s.PID[cur] = s.PID[nt] => cur = nt
    BY NextHasOwnPid DEF nt
  <2>3. QED BY <1>4, <2>1, <2>2 DEF SchedType
<1>9. QED BY <1>6, <1>7, <1>8 DEF nt

(***************************************************************************)
(* The theorems about Process.                                             *)
(***************************************************************************)

----------------------------------------------------------------------------
(* Type correctness. *)

LEMMA SchedInitType == SchedInit => sched \in SchedType
<1> SUFFICES ASSUME SchedInit PROVE sched \in SchedType
  OBVIOUS
<1> DEFINE free == [i \in 1 .. NR_TASKS - 2 |-> i + 1]
           q    == [n \in QueueNames |-> IF n = "freequeue" THEN free ELSE <<>>]
<1>1. free \in Seq(Task)
  BY NrTasksAssumption DEF Task
<1>2. <<>> \in Seq(Task)
  OBVIOUS
<1> HIDE DEF free
<1>3. q \in [QueueNames -> Seq(Task)]
  BY <1>1, <1>2
<1>4. sched.queue = q
  BY DEF SchedInit, free
<1>5. /\ sched.PID = [t \in Task |-> CASE t = Idle -> 0 [] t = task1 -> 1 [] OTHER -> -1]
      /\ sched.current_state = [t \in Task |-> CASE t = Idle  -> "ST_READY"
                                                 [] t = task1 -> "ST_RUN"
                                                 [] OTHER     -> "ST_FREE"]
      /\ sched.current = task1 /\ sched.tick_counter = DEFAULT_QUANTUM_TICKS
      /\ sched.sound = TRUE
  BY DEF SchedInit
<1>6. sched.PID \in [Task -> Int] /\ sched.current_state \in [Task -> States]
  BY <1>5 DEF States
<1>7. task1 \in Task /\ DEFAULT_QUANTUM_TICKS \in 0 .. DEFAULT_QUANTUM_TICKS
  BY IdleIsTask, QuantumAssumption
<1>8. sched = [PID |-> sched.PID, current_state |-> sched.current_state,
               queue |-> sched.queue, current |-> sched.current,
               tick_counter |-> sched.tick_counter, sound |-> sched.sound]
  BY DEF SchedInit
<1>9. QED
  BY <1>3, <1>4, <1>5, <1>6, <1>7, <1>8 DEF SchedType

LEMMA TypeInit == Init => TypeOK
<1> SUFFICES ASSUME Init PROVE TypeOK
  OBVIOUS
<1>1. sched \in SchedType
  BY SchedInitType DEF Init
<1>2. /\ waitList \in [Task -> Seq(Task)]
      /\ fills \in [Task -> SUBSET Task]
      /\ heads \in [Task -> HeadKinds]
  BY DEF Init, HeadKinds
<1>3. pending_unblocks \in [Task -> 0 .. MaxPending]
  BY BoundAssumption DEF Init
<1>4. pidGlobal \in FirstPid .. (FirstPid + MaxForks)
  BY PidAssumption, BoundAssumption DEF Init
<1>5. exiting \in BOOLEAN /\ page_fault \in BOOLEAN /\ unguarded \subseteq Situations
  BY DEF Init
<1>6. QED
  BY <1>1, <1>2, <1>3, <1>4, <1>5 DEF TypeOK

\* The table that fork hands to update_process_state_rr, and the one that a
\* failed fork leaves: a freequeue, and a PCB with a pid and a state.
WithPcb(s, free, c, pid, st, ok) ==
  [s EXCEPT !.queue["freequeue"] = free, !.PID[c] = pid,
            !.current_state[c] = st, !.sound = ok]

LEMMA WithPcbType ==
  ASSUME NEW s \in SchedType, NEW free \in Seq(Task), NEW c \in Task,
         NEW pid \in Int, NEW st \in States, NEW ok \in BOOLEAN
  PROVE  /\ WithPcb(s, free, c, pid, st, ok) \in SchedType
         /\ WithPcb(s, free, c, pid, st, ok).queue = [s.queue EXCEPT !["freequeue"] = free]
         /\ WithPcb(s, free, c, pid, st, ok).PID = [s.PID EXCEPT ![c] = pid]
         /\ WithPcb(s, free, c, pid, st, ok).current_state
              = [s.current_state EXCEPT ![c] = st]
         /\ WithPcb(s, free, c, pid, st, ok).current = s.current
         /\ WithPcb(s, free, c, pid, st, ok).sound = ok
<1> DEFINE q == [s.queue EXCEPT !["freequeue"] = free]
           p == [s.PID EXCEPT ![c] = pid]
           k == [s.current_state EXCEPT ![c] = st]
           u == WithPcb(s, free, c, pid, st, ok)
<1>1. q \in [QueueNames -> Seq(Task)] /\ p \in [Task -> Int] /\ k \in [Task -> States]
  BY DEF SchedType
<1>2. u = [s EXCEPT !.queue = q, !.PID = p, !.current_state = k, !.sound = ok]
  BY DEF SchedType, WithPcb
<1> HIDE DEF q, p, k, u
<1>3. /\ u \in SchedType /\ u.queue = q /\ u.PID = p /\ u.current_state = k
      /\ u.current = s.current /\ u.sound = ok
  BY <1>1, <1>2 DEF SchedType
<1>4. QED BY <1>3 DEF q, p, k, u

LEMMA SpawnType ==
  ASSUME TypeOK, InSyscall, pidGlobal < FirstPid + MaxForks,
         NEW c \in Task, FreeQueue # <<>>, Spawn(c)
  PROVE  TypeOK'
<1> DEFINE ok == sched.sound /\ ~AnchorLinked(c)
           free == Tail(sched.queue["freequeue"])
           taken == WithPcb(sched, free, c, pidGlobal,
                            sched.current_state[current], ok)
<1>1. /\ sched \in SchedType /\ pidGlobal \in Int /\ current \in Task
      /\ sched.current_state[current] \in States
  BY PidAssumption, BoundAssumption DEF TypeOK, SchedType, current
<1>2. free \in Seq(Task)
  BY <1>1, HeadTailProperties DEF FreeQueue, SchedType, QueueNames
<1>3. ok \in BOOLEAN
  BY <1>1 DEF SchedType, AnchorLinked
<1>4. taken \in SchedType
  <2> HIDE DEF free, ok
  <2> QED BY <1>1, <1>2, <1>3, WithPcbType
<1>5. sched' = Update(taken, c, "readyqueue")
  BY DEF Spawn, PcbTaken, PcbFilled, WithPcb
<1>6. sched' \in SchedType
  <2> HIDE DEF taken
  <2> QED BY <1>4, <1>5, UpdateType DEF QueueNames
<1>7. pidGlobal' \in FirstPid .. (FirstPid + MaxForks)
  BY PidAssumption, BoundAssumption DEF TypeOK, Spawn, PcbTaken, PcbFilled
<1>8. waitList' \in [Task -> Seq(Task)]
  <2>1. <<>> \in Seq(Task) /\ waitList \in [Task -> Seq(Task)]
    BY DEF TypeOK
  <2>2. waitList' = [waitList EXCEPT ![c] = <<>>]
    BY DEF Spawn, PcbTaken, PcbFilled
  <2>3. QED BY <2>1, <2>2
<1>9. fills' \in [Task -> SUBSET Task]
  BY <1>1 DEF TypeOK, Spawn, PcbTaken, PcbFilled
<1>10. heads' \in [Task -> HeadKinds]
  BY DEF TypeOK, Spawn, PcbTaken, PcbFilled, HeadKinds
<1>11. pending_unblocks' \in [Task -> 0 .. MaxPending]
  BY BoundAssumption DEF TypeOK, Spawn, PcbTaken, PcbFilled
<1>12. exiting' \in BOOLEAN /\ page_fault' \in BOOLEAN /\ unguarded' \subseteq Situations
  BY DEF TypeOK, Spawn, PcbTaken, PcbFilled
<1>13. QED
  BY <1>6, <1>7, <1>8, <1>9, <1>10, <1>11, <1>12 DEF TypeOK

LEMMA FreeHead ==
  ASSUME sched \in SchedType, FreeQueue # <<>>
  PROVE  Head(FreeQueue) \in Task
BY HeadTailProperties DEF FreeQueue, SchedType, QueueNames

\* A fork or create_thread that touches a page which is not there stops the
\* kernel with the new PCB in no queue.
LEMMA PageFaultSched ==
  ASSUME TypeOK, CreateThreadPageFault \/ ForkPageFault
  PROVE  /\ sched' \in SchedType
         /\ Head(FreeQueue) \in Task
         /\ sched'.current_state = [sched.current_state EXCEPT
              ![Head(FreeQueue)] = sched.current_state[current]]
         /\ sched'.current = sched.current
         /\ sched'.queue = [sched.queue EXCEPT !["freequeue"] = Tail(@)]
<1> DEFINE c == Head(FreeQueue)
           ok == sched.sound /\ ~AnchorLinked(c)
           free == Tail(sched.queue["freequeue"])
           st == sched.current_state[current]
<1>1. /\ sched \in SchedType /\ FreeQueue # <<>> /\ current \in Task
  BY DEF TypeOK, SchedType, current, CreateThreadPageFault, ForkPageFault
<1>2. c \in Task
  BY <1>1, FreeHead
<1>3. PICK id \in Int : sched' = WithPcb(sched, free, c, id, st, ok)
  <2>1. pidGlobal \in Int /\ sched.PID[current] \in Int
    BY <1>1, PidAssumption, BoundAssumption DEF TypeOK, SchedType
  <2>2. CreateThreadPageFault => sched' = WithPcb(sched, free, c, pidGlobal,
                                                  st, ok)
    BY DEF CreateThreadPageFault, PcbTaken, WithPcb
  <2>3. ForkPageFault => sched' = WithPcb(sched, free, c, sched.PID[current],
                                          st, ok)
    BY DEF ForkPageFault, WithPcb
  <2> HIDE DEF c, ok, free, st
  <2>4. QED BY <2>1, <2>2, <2>3
<1>4. free \in Seq(Task) /\ ok \in BOOLEAN /\ st \in States
  BY <1>1, HeadTailProperties DEF FreeQueue, SchedType, QueueNames, AnchorLinked
<1>5. free = Tail(sched.queue["freequeue"]) /\ st = sched.current_state[current]
  OBVIOUS
<1> HIDE DEF c, ok, free, st
<1>6. /\ sched' \in SchedType
      /\ sched'.queue = [sched.queue EXCEPT !["freequeue"] = free]
      /\ sched'.current_state = [sched.current_state EXCEPT ![c] = st]
      /\ sched'.current = sched.current
  <2> DEFINE taken == WithPcb(sched, free, c, id, st, ok)
  <2>1. /\ sched \in SchedType /\ free \in Seq(Task) /\ c \in Task /\ id \in Int
        /\ st \in States /\ ok \in BOOLEAN
    BY <1>1, <1>2, <1>3, <1>4
  <2>2. /\ taken \in SchedType
        /\ taken.queue = [sched.queue EXCEPT !["freequeue"] = free]
        /\ taken.current_state = [sched.current_state EXCEPT ![c] = st]
        /\ taken.current = sched.current
    <3>1. taken \in SchedType
      BY <2>1, WithPcbType
    <3>2. taken.queue = [sched.queue EXCEPT !["freequeue"] = free]
      BY <2>1 DEF WithPcb, SchedType
    <3>3. taken.current_state = [sched.current_state EXCEPT ![c] = st]
      BY <2>1 DEF WithPcb, SchedType
    <3>4. taken.current = sched.current
      BY <2>1 DEF WithPcb, SchedType
    <3>5. QED BY <3>1, <3>2, <3>3, <3>4
  <2>3. sched' = taken
    BY <1>3
  <2> HIDE DEF taken
  <2>4. QED BY <2>2, <2>3
<1>7. QED BY <1>2, <1>5, <1>6 DEF c

LEMMA PageFaultStep ==
  ASSUME TypeOK, CreateThreadPageFault \/ ForkPageFault
  PROVE  /\ TypeOK'
         /\ InSyscall /\ ~exiting /\ ~exiting' /\ FreeQueue # <<>>
         /\ page_fault' /\ ~Running'
         /\ "missing_page" \in unguarded' /\ unguarded \subseteq unguarded'
         /\ waitList' = [waitList EXCEPT ![Head(FreeQueue)] = <<>>]
         /\ current' = current
<1> DEFINE c == Head(FreeQueue)
<1>1. /\ sched' \in SchedType /\ c \in Task /\ sched'.current = sched.current
      /\ current \in Task
  BY PageFaultSched DEF TypeOK, SchedType, current
<1>2. /\ InSyscall /\ FreeQueue # <<>> /\ page_fault' = TRUE /\ UNCHANGED exiting
      /\ unguarded' = unguarded \cup {"missing_page"}
      /\ waitList' = [waitList EXCEPT ![c] = <<>>]
  BY DEF CreateThreadPageFault, ForkPageFault, PcbFilled, NoteIf
<1>3. pidGlobal' \in FirstPid .. (FirstPid + MaxForks)
  <2>1. \/ pidGlobal' = pidGlobal
        \/ pidGlobal' = pidGlobal + 1 /\ pidGlobal < FirstPid + MaxForks
    BY DEF CreateThreadPageFault, ForkPageFault, PcbFilled
  <2>2. QED BY <2>1, PidAssumption, BoundAssumption DEF TypeOK
<1>4. fills' \in [Task -> SUBSET Task]
  <2>1. fills' = fills \/ fills' = [fills EXCEPT ![current] = @ \cup {c}, ![c] = {}]
    BY DEF CreateThreadPageFault, ForkPageFault, PcbFilled
  <2>2. fills \in [Task -> SUBSET Task] /\ c \in Task /\ current \in Task
    BY <1>1 DEF TypeOK
  <2> HIDE DEF c
  <2>3. QED BY <2>1, <2>2
<1>5. heads' \in [Task -> HeadKinds]
  BY DEF TypeOK, CreateThreadPageFault, ForkPageFault, PcbFilled, HeadKinds
<1>6. pending_unblocks' \in [Task -> 0 .. MaxPending]
  <2>1. pending_unblocks' = pending_unblocks
        \/ pending_unblocks' = [pending_unblocks EXCEPT ![c] = 0]
    BY DEF CreateThreadPageFault, ForkPageFault, PcbFilled
  <2>2. pending_unblocks \in [Task -> 0 .. MaxPending] /\ c \in Task
    BY <1>1 DEF TypeOK
  <2> HIDE DEF c
  <2>3. QED BY <2>1, <2>2, BoundAssumption
<1>7. waitList' \in [Task -> Seq(Task)]
  <2>1. <<>> \in Seq(Task) /\ waitList \in [Task -> Seq(Task)]
    BY DEF TypeOK
  <2>2. QED BY <1>2, <2>1
<1>8. QED
  BY <1>1, <1>2, <1>3, <1>4, <1>5, <1>6, <1>7
     DEF TypeOK, Running, InSyscall, InUserMode, Situations, current

LEMMA TypeNext ==
  ASSUME TypeOK, [Next]_vars
  PROVE  TypeOK'
<1>1. sched \in SchedType /\ current \in Task
  BY DEF TypeOK, SchedType, current
<1>2. CASE Fork \/ CreateThread
  BY <1>1, <1>2, FreeHead, SpawnType DEF Fork, CreateThread
<1>3. CASE ForkNoFrames
  <2> DEFINE c == Head(FreeQueue)
             ok == sched.sound /\ ~AnchorLinked(c)
             free == Append(Tail(sched.queue["freequeue"]), c)
  <2>1. c \in Task /\ FreeQueue # <<>>
    BY <1>1, <1>3, FreeHead DEF ForkNoFrames
  <2>2. /\ sched.queue["freequeue"] \in Seq(Task)
        /\ Tail(sched.queue["freequeue"]) \in Seq(Task)
    BY <1>1, <2>1, HeadTailProperties DEF SchedType, QueueNames, FreeQueue
  <2>3. free \in Seq(Task) /\ ok \in BOOLEAN
    BY <1>1, <2>1, <2>2 DEF SchedType, AnchorLinked
  <2>4. sched' = WithPcb(sched, free, c, sched.PID[current],
                         sched.current_state[current], ok)
    BY <1>3 DEF ForkNoFrames, WithPcb
  <2>5. sched.PID[current] \in Int /\ sched.current_state[current] \in States
    BY <1>1 DEF SchedType
  <2>6. sched' \in SchedType
    <3> HIDE DEF free, ok, c
    <3> QED BY <1>1, <2>1, <2>3, <2>4, <2>5, WithPcbType
  <2>7. waitList' \in [Task -> Seq(Task)] /\ heads' \in [Task -> HeadKinds]
    BY <1>3, <2>1 DEF ForkNoFrames, TypeOK, HeadKinds
  <2>8. unguarded' \subseteq Situations
    BY <1>3 DEF ForkNoFrames, TypeOK, NoteIf, Situations
  <2>9. QED
    BY <1>3, <2>6, <2>7, <2>8 DEF ForkNoFrames, TypeOK
<1>4. CASE Block
  <2>1. sched' \in SchedType
    <3>1. Update(sched, current, "blocked") \in SchedType
      BY <1>1, UpdateType DEF QueueNames
    <3>2. QED BY <1>1, <1>4, <3>1, SchedNextType DEF Block
  <2>2. pending_unblocks' \in [Task -> 0 .. MaxPending]
    <3>1. CASE pending_unblocks[current] <= 0
      BY <1>4, <3>1 DEF Block, TypeOK
    <3>2. CASE ~(pending_unblocks[current] <= 0)
      <4>1. pending_unblocks[current] - 1 \in 0 .. MaxPending
        BY <1>1, <3>2, BoundAssumption DEF TypeOK
      <4>2. QED BY <1>4, <3>2, <4>1 DEF Block, TypeOK
    <3>3. QED BY <3>1, <3>2
  <2>3. QED BY <1>4, <2>1, <2>2 DEF Block, TypeOK, lists
<1>5. ASSUME NEW pid \in Pids, Unblock(pid) PROVE TypeOK'
  <2>1. PICK fill \in fills[current] :
          \/ /\ sched' = SchedNext(Update(sched, fill, "readyqueue"))
             /\ UNCHANGED pending_unblocks
             /\ NoteIf("unblock_waiter", AnchorLinked(fill))
          \/ /\ sched' = SchedNext(sched)
             /\ pending_unblocks[fill] < MaxPending
             /\ pending_unblocks' = [pending_unblocks EXCEPT ![fill] = @ + 1]
             /\ UNCHANGED unguarded
    BY <1>5 DEF Unblock
  <2>2. fill \in Task
    BY <1>1 DEF TypeOK
  <2>3. sched' \in SchedType
    <3>1. Update(sched, fill, "readyqueue") \in SchedType
      BY <1>1, <2>2, UpdateType DEF QueueNames
    <3>2. QED BY <1>1, <2>1, <3>1, SchedNextType
  <2>4. pending_unblocks' \in [Task -> 0 .. MaxPending]
    <3>1. pending_unblocks \in [Task -> 0 .. MaxPending]
      BY DEF TypeOK
    <3>2. pending_unblocks[fill] < MaxPending
            => pending_unblocks[fill] + 1 \in 0 .. MaxPending
      BY <2>2, <3>1, BoundAssumption
    <3>3. QED BY <2>1, <2>2, <3>1, <3>2
  <2>5. unguarded' \subseteq Situations
    BY <2>1 DEF NoteIf, TypeOK, Situations
  <2>6. QED BY <1>5, <2>3, <2>4, <2>5 DEF Unblock, TypeOK, lists
<1>6. CASE UnblockNobody
  BY <1>1, <1>6, SchedNextType DEF UnblockNobody, TypeOK, lists
<1>7. ASSUME NEW pid \in Pids, WaitThread(pid) PROVE TypeOK'
  <2> DEFINE bt == FirstWith(pid)
             ok == sched.sound /\ ~AnchorLinked(current) /\ heads[bt] # "copied"
             anchored == [sched EXCEPT !.sound = ok]
  <2>1. \/ page_fault' = TRUE /\ UNCHANGED <<sched, waitList>>
        \/ /\ waitList' = [waitList EXCEPT ![bt] = Append(@, current)]
           /\ sched' = SchedNext(Update(anchored, current, "blocked"))
           /\ UNCHANGED page_fault
    BY <1>1, <1>7 DEF WaitThread, SchedType
  <2>2. ok \in BOOLEAN
    BY <1>1 DEF SchedType, AnchorLinked
  <2>3. anchored \in SchedType
    <3> HIDE DEF ok
    <3> QED BY <1>1, <2>2 DEF SchedType
  <2>4. sched' \in SchedType
    <3> HIDE DEF anchored
    <3>1. Update(anchored, current, "blocked") \in SchedType
      BY <1>1, <2>3, UpdateType DEF QueueNames
    <3>2. QED BY <1>1, <2>1, <3>1, SchedNextType
  <2>5. waitList' \in [Task -> Seq(Task)]
    <3>1. \A t \in Task : Append(waitList[t], current) \in Seq(Task)
      BY <1>1 DEF TypeOK
    <3>2. QED BY <2>1, <3>1 DEF TypeOK
  <2>6. page_fault' \in BOOLEAN /\ unguarded' \subseteq Situations
    BY <1>7, <2>1 DEF WaitThread, NoteIf, TypeOK, Situations
  <2>7. QED BY <1>7, <2>4, <2>5, <2>6 DEF WaitThread, TypeOK
<1>8. CASE Exit
  <2>1. sched' \in SchedType
    <3>1. CASE UNCHANGED sched
      BY <1>1, <3>1
    <3>2. CASE sched' = [sched EXCEPT !.PID[current] = -1]
      <4> DEFINE pids == [sched.PID EXCEPT ![current] = -1]
      <4>1. pids \in [Task -> Int]
        BY <1>1 DEF SchedType
      <4>2. sched' = [sched EXCEPT !.PID = pids]
        BY <3>2
      <4> HIDE DEF pids
      <4>3. QED BY <1>1, <4>1, <4>2 DEF SchedType
    <3>3. QED BY <1>8, <3>1, <3>2 DEF Exit
  <2>2. fills' \in [Task -> SUBSET Task]
    <3>1. CASE current = task1
      BY <1>8, <3>1 DEF Exit, TypeOK
    <3>2. CASE current # task1
      <4>1. fills' = [p \in Task |->
                        CASE p = current -> {}
                          [] p = Idle    -> (fills[Idle] \cup fills[current]) \ {current}
                          [] OTHER       -> fills[p] \ {current}]
        BY <1>8, <3>2 DEF Exit
      <4>2. \A p \in Task : fills'[p] \subseteq Task
        BY <1>1, <4>1, IdleIsTask DEF TypeOK
      <4>3. QED BY <4>1, <4>2
    <3>3. QED BY <3>1, <3>2
  <2>3. /\ exiting' \in BOOLEAN /\ page_fault' \in BOOLEAN
        /\ unguarded' \subseteq Situations
    BY <1>8 DEF Exit, TypeOK, NoteIf, Situations
  <2>4. QED BY <1>8, <2>1, <2>2, <2>3 DEF Exit, TypeOK
<1>9. CASE ExitWake
  <2>1. /\ Head(waitList[current]) \in Task
        /\ Tail(waitList[current]) \in Seq(Task)
    BY <1>1, <1>9, HeadTailProperties DEF ExitWake, TypeOK
  <2>2. sched' \in SchedType
    BY <1>1, <1>9, <2>1, UpdateType DEF ExitWake, QueueNames
  <2>3. waitList' \in [Task -> Seq(Task)]
    BY <1>9, <2>1 DEF ExitWake, TypeOK
  <2>4. QED BY <1>9, <2>2, <2>3 DEF ExitWake, TypeOK
<1>10. CASE ExitDone
  <2>1. Update(sched, current, "freequeue") \in SchedType
    BY <1>1, UpdateType DEF QueueNames
  <2>2. QED BY <1>10, <2>1, SchedNextType DEF ExitDone, TypeOK, lists
<1>11. CASE ClockInterrupt
  <2> DEFINE left == IF sched.tick_counter > 0 THEN sched.tick_counter - 1 ELSE 0
             ticked == [sched EXCEPT !.tick_counter = left]
  <2>1. left \in 0 .. DEFAULT_QUANTUM_TICKS
    BY <1>1, QuantumAssumption DEF SchedType
  <2>2. ticked \in SchedType
    <3> HIDE DEF left
    <3> QED BY <1>1, <2>1 DEF SchedType
  <2>3. sched' = SchedNext(ticked) \/ sched' = ticked
    BY <1>11 DEF ClockInterrupt, Clock
  <2>4. sched' \in SchedType
    <3> HIDE DEF ticked
    <3> QED BY <2>2, <2>3, SchedNextType
  <2>5. QED BY <1>11, <2>4 DEF ClockInterrupt, TypeOK, lists
<1>12. CASE Halted \/ UNCHANGED vars
  BY <1>12 DEF Halted, vars, TypeOK
<1>13. CASE CreateThreadPageFault \/ ForkPageFault
  BY <1>13, PageFaultStep
<1>14. QED
  BY <1>2, <1>3, <1>4, <1>5, <1>6, <1>7, <1>8, <1>9, <1>10, <1>11, <1>12, <1>13 DEF Next

\* The PCBs, the queues and the counters keep their types: the kernel never
\* dispatches, links or wakes something that is no task (Process.TypeOK).
THEOREM TypeCorrect == Spec => []TypeOK
<1>1. Init => TypeOK
  BY TypeInit
<1>2. TypeOK /\ [Next]_vars => TypeOK'
  BY TypeNext
<1>3. QED
  BY <1>1, <1>2, PTL DEF Spec

----------------------------------------------------------------------------
(* Placement and UniquePids are not inductive: that the queues are right   *)
(* after a call depends on the PIDs (a PCB with a PID below 0 goes to the  *)
(* freequeue, one with PID 0 nowhere), that the PIDs are unique on         *)
(* pidGlobal being above them all, and what update_process_state_rr does   *)
(* to the running task on its being in no queue.                           *)

Failed == {t \in Task : heads[t] = "copied"}

CurrentFits ==
  /\ exiting  => current # Idle /\ sched.PID[current] = -1
  /\ ~exiting => sched.current_state[current] = "ST_RUN"
  /\ ~exiting /\ current # Idle => ~Linked(sched, current) /\ sched.PID[current] > 0

Core ==
  /\ Table(sched, Failed, {Idle, current})
  /\ \A t \in Task : sched.PID[t] < pidGlobal
  /\ CurrentFits

IInv == TypeOK /\ (Running => Core)

LEMMA TableWiden ==
  ASSUME NEW s, NEW F, NEW Out, NEW Wider, Table(s, F, Out), Out \subseteq Wider
  PROVE  Table(s, F, Wider)
BY DEF Table

LEMMA CoreInit == Init => Core
<1> SUFFICES ASSUME Init PROVE Core
  OBVIOUS
<1>1. /\ sched \in SchedType /\ Idle \in Task /\ task1 \in Task /\ Idle # task1
  BY SchedInitType, IdleIsTask DEF Init
<1>2. /\ sched.PID = [t \in Task |-> CASE t = Idle -> 0 [] t = task1 -> 1 [] OTHER -> -1]
      /\ sched.current_state = [t \in Task |-> CASE t = Idle  -> "ST_READY"
                                                 [] t = task1 -> "ST_RUN"
                                                 [] OTHER     -> "ST_FREE"]
      /\ current = task1
  BY DEF Init, SchedInit, current
<1>3. \A n \in QueueNames :
        /\ n = "freequeue" => sched.queue[n] = [i \in 1 .. NR_TASKS - 2 |-> i + 1]
        /\ n # "freequeue" => sched.queue[n] = <<>>
  BY DEF Init, SchedInit
<1>4. Failed = {}
  BY DEF Failed, Init
<1>5. \A n \in QueueNames : \A t \in Task :
        In(sched, n, t) <=> n = "freequeue" /\ t \notin {Idle, task1}
  <2> SUFFICES ASSUME NEW n \in QueueNames, NEW t \in Task
               PROVE  In(sched, n, t) <=> n = "freequeue" /\ t \notin {Idle, task1}
    OBVIOUS
  <2>1. CASE n # "freequeue"
    <3>1. sched.queue[n] = <<>> /\ Len(<<>>) = 0
      BY <1>3, <2>1
    <3>2. QED BY <2>1, <3>1 DEF In, Contains
  <2>2. CASE n = "freequeue"
    <3> DEFINE free == [i \in 1 .. NR_TASKS - 2 |-> i + 1]
    <3>1. NR_TASKS - 2 \in Nat
      BY NrTasksAssumption
    <3>2. Len(free) = NR_TASKS - 2
      BY <3>1
    <3>3. In(sched, n, t) <=> \E i \in 1 .. NR_TASKS - 2 : i + 1 = t
      <4>1. sched.queue[n] = free
        BY <1>3, <2>2
      <4>2. \A i \in 1 .. NR_TASKS - 2 : free[i] = i + 1
        OBVIOUS
      <4> HIDE DEF free
      <4>3. QED BY <3>2, <4>1, <4>2 DEF In, Contains
    <3>4. t \notin {Idle, task1} <=> t - 1 \in 1 .. NR_TASKS - 2
      BY NrTasksAssumption DEF Task, Idle, task1
    <3>5. QED BY <2>2, <3>1, <3>3, <3>4 DEF Task
  <2>3. QED BY <2>1, <2>2
<1>6. NodesDistinct(sched.queue)
  <2> SUFFICES ASSUME NEW m \in QueueNames, NEW n \in QueueNames,
                      NEW i \in DOMAIN sched.queue[m], NEW j \in DOMAIN sched.queue[n],
                      sched.queue[m][i] = sched.queue[n][j]
               PROVE  m = n /\ i = j
    BY DEF NodesDistinct
  <2> DEFINE free == [k \in 1 .. NR_TASKS - 2 |-> k + 1]
  <2>1. DOMAIN <<>> = {}
    OBVIOUS
  <2>2. m = "freequeue" /\ n = "freequeue"
    BY <1>3, <2>1
  <2>3. sched.queue[m] = free /\ sched.queue[n] = free
    BY <1>3, <2>2
  <2>4. i \in 1 .. NR_TASKS - 2 /\ j \in 1 .. NR_TASKS - 2 /\ i + 1 = j + 1
    BY <2>3
  <2>5. QED BY <2>2, <2>4, NrTasksAssumption
<1>7. StatesAgree(sched, Failed) /\ PidsAgree(sched, Failed)
  BY <1>1, <1>2, <1>5 DEF StatesAgree, PidsAgree, StateOf
<1>8. PidsUnique(sched)
  BY <1>1, <1>2, <1>5 DEF PidsUnique, IsFree, QueueNames
<1>9. \A t \in Task \ {Idle, current} : Linked(sched, t)
  BY <1>2, <1>5 DEF Linked, In, QueueNames
<1>10. sched.PID[Idle] = 0 /\ \A t \in Task : sched.PID[t] >= -1 /\ sched.PID[t] < 2
  BY <1>1, <1>2
<1>11. Table(sched, Failed, {Idle, current})
  BY <1>1, <1>6, <1>7, <1>8, <1>9, <1>10 DEF Table
<1>12. pidGlobal >= 2 /\ pidGlobal \in Int
  BY PidAssumption DEF Init
<1>13. \A t \in Task : sched.PID[t] < pidGlobal
  BY <1>1, <1>10, <1>12 DEF SchedType
<1>14. CurrentFits
  BY <1>1, <1>2, <1>5 DEF CurrentFits, Init, Linked, In
<1>15. QED
  BY <1>11, <1>13, <1>14 DEF Core

\* What most handlers do to the freequeue: nothing.
SameFree == \A t \in Task : IsFree(sched', t) <=> IsFree(sched, t)

\* Two tables that differ at most in tick_counter and sound.
SameTable(s, u) ==
  /\ s \in SchedType /\ s.queue = u.queue /\ s.PID = u.PID
  /\ s.current_state = u.current_state /\ s.current = u.current

\* What sched_next_rr needs of the table: the running task goes on running and
\* is in no queue, or the handler has put it in one.
MayYield(s) ==
  /\ Table(s, Failed, {Idle, s.current})
  /\ s.current # Idle =>
       /\ s.current_state[s.current] = "ST_RUN" <=> ~Linked(s, s.current)
       /\ ~Linked(s, s.current) => s.PID[s.current] > 0
       /\ IsFree(s, s.current) => s.PID[s.current] = -1

\* After a handler that ends in sched_next_rr the invariant holds again.
LEMMA YieldCore ==
  ASSUME NEW s, MayYield(s),
         \A t \in Task : s.PID[t] < pidGlobal,
         sched' = SchedNext(s), UNCHANGED <<heads, pidGlobal>>, exiting' = FALSE
  PROVE  /\ Core'
         /\ sched'.sound = s.sound
         /\ \A t \in Task : IsFree(sched', t) <=> IsFree(s, t)
<1>1. LET z == SchedNext(s)
      IN /\ Table(z, Failed, {Idle, z.current})
         /\ z.PID = s.PID /\ z.sound = s.sound
         /\ \A t \in Task : IsFree(z, t) <=> IsFree(s, t)
         /\ z.current_state[z.current] = "ST_RUN"
         /\ z.current # Idle => ~Linked(z, z.current) /\ z.PID[z.current] > 0
  BY SchedNextTable DEF MayYield
<1>2. Failed' = Failed
  BY DEF Failed
<1>3. QED
  BY <1>1, <1>2 DEF Core, CurrentFits, current

\* What a system call, or the loop of sys_exit, finds.
LEMMA SyscallFacts ==
  ASSUME TypeOK, Core, ~exiting, current # Idle
  PROVE  /\ sched \in SchedType /\ current \in Task
         /\ sched.current_state[current] = "ST_RUN"
         /\ ~Linked(sched, current) /\ sched.PID[current] > 0
         /\ NodeAsNeeded(sched, current)
BY DEF TypeOK, Core, CurrentFits, SchedType, current, NodeAsNeeded, LeavesQueue

LEMMA SpawnCore ==
  ASSUME TypeOK, Core, InSyscall, FreeQueue # <<>>, Spawn(Head(FreeQueue))
  PROVE  /\ Core'
         /\ Head(FreeQueue) \in Task /\ IsFree(sched, Head(FreeQueue))
         /\ \A t \in Task : IsFree(sched', t) <=> IsFree(sched, t) /\ t # Head(FreeQueue)
         /\ sched'.sound = (sched.sound /\ ~AnchorLinked(Head(FreeQueue)))
<1> DEFINE c == Head(FreeQueue)
           ok == sched.sound /\ ~AnchorLinked(c)
           free == Tail(sched.queue["freequeue"])
           F == Failed \ {c}
           taken == WithPcb(sched, free, c, pidGlobal,
                            sched.current_state[current], ok)
<1>0. InUserMode /\ ~exiting /\ current # Idle
  BY DEF InSyscall, InUserMode
<1>1. /\ sched \in SchedType /\ current \in Task
      /\ sched.current_state[current] = "ST_RUN"
      /\ ~Linked(sched, current) /\ sched.PID[current] > 0
      /\ Idle \in Task /\ "freequeue" \in QueueNames /\ "readyqueue" \in QueueNames
      /\ sched.queue \in Queues
      /\ sched.PID \in [Task -> Int] /\ sched.current_state \in [Task -> States]
      /\ pidGlobal \in Int
  <2>1. /\ sched \in SchedType /\ current \in Task
        /\ sched.current_state[current] = "ST_RUN"
        /\ ~Linked(sched, current) /\ sched.PID[current] > 0
    BY <1>0, SyscallFacts
  <2>2. sched.PID \in [Task -> Int] /\ sched.current_state \in [Task -> States]
    BY <2>1 DEF SchedType
  <2>3. pidGlobal \in Int
    BY PidAssumption, BoundAssumption DEF TypeOK
  <2>4. QED BY <2>1, <2>2, <2>3, SchedTypeQueues, IdleIsTask DEF QueueNames
<1>2. /\ c \in Task /\ IsFree(sched, c) /\ c # Idle /\ c # current
      /\ free \in Seq(Task) /\ ok \in BOOLEAN
  <2>1. c \in Task /\ IsFree(sched, c)
    BY <1>1, TailProperties DEF FreeQueue, IsFree, In
  <2>2. c # Idle
    BY <1>1, <2>1, IdleInNoQueue DEF Core, IsFree
  <2>3. c # current
    BY <1>1, <2>1 DEF IsFree, In, Linked
  <2>4. free \in Seq(Task) /\ ok \in BOOLEAN
    BY <1>1, HeadTailProperties DEF FreeQueue, SchedType, AnchorLinked
  <2>5. QED BY <2>1, <2>2, <2>3, <2>4
<1>3. sched' = Update(taken, c, "readyqueue") /\ pidGlobal' = pidGlobal + 1
  BY DEF Spawn, PcbTaken, PcbFilled, WithPcb
<1>4. /\ taken \in SchedType
      /\ taken.queue = [sched.queue EXCEPT !["freequeue"] = free]
      /\ taken.PID = [sched.PID EXCEPT ![c] = pidGlobal]
      /\ taken.current_state = [sched.current_state EXCEPT ![c] = "ST_RUN"]
      /\ taken.current = current /\ taken.sound = ok
  <2>1. "ST_RUN" \in States
    BY DEF States
  <2>2. taken = WithPcb(sched, free, c, pidGlobal, "ST_RUN", ok)
    BY <1>1
  <2>3. sched.current = current
    BY DEF current
  <2> HIDE DEF c, free, ok, taken
  <2>4. sched \in SchedType /\ free \in Seq(Task) /\ c \in Task /\ pidGlobal \in Int
            /\ ok \in BOOLEAN
    BY <1>1, <1>2
  <2>5. QED BY <2>1, <2>2, <2>3, <2>4, WithPcbType
<1>5. /\ NodesDistinct(taken.queue)
      /\ \A n \in QueueNames : \A x \in Task :
           In(taken, n, x) <=> In(sched, n, x) /\ x # c
  <2>1. NodesDistinct(sched.queue)
    BY DEF Core, Table
  <2>2. taken.queue = Popped(sched.queue, "freequeue")
    BY <1>4 DEF Popped
  <2> HIDE DEF taken
  <2>3. QED BY <1>1, <2>1, <2>2, TailProperties DEF FreeQueue, In
<1> HIDE DEF taken, c
<1>6. StatesAgree(taken, F)
  BY <1>1, <1>2, <1>4, <1>5 DEF Core, Table, StatesAgree
<1>7. PidsAgree(taken, F)
  BY <1>1, <1>2, <1>4, <1>5 DEF Core, Table, PidsAgree
<1>8. PidsUnique(taken)
  <2> SUFFICES ASSUME NEW t \in Task, NEW u \in Task, ~IsFree(taken, t), ~IsFree(taken, u),
                      taken.PID[t] = taken.PID[u]
               PROVE  t = u
    BY DEF PidsUnique
  <2>1. \A x \in Task : x # c /\ ~IsFree(taken, x) => ~IsFree(sched, x)
    BY <1>1, <1>5 DEF IsFree
  <2>2. \A x \in Task : x # c => taken.PID[x] = sched.PID[x] /\ sched.PID[x] < pidGlobal
    BY <1>1, <1>4 DEF Core
  <2>3. taken.PID[c] = pidGlobal
    BY <1>1, <1>2, <1>4
  <2>4. \A x \in Task : sched.PID[x] \in Int
    BY <1>1
  <2>5. CASE t = c \/ u = c
    BY <1>1, <2>2, <2>3, <2>4, <2>5
  <2>6. CASE t # c /\ u # c
    BY <2>1, <2>2, <2>6 DEF Core, Table, PidsUnique
  <2>7. QED BY <2>5, <2>6
<1>9. Table(taken, F, {Idle, current, c})
  <2>1. taken.PID[Idle] = 0
    BY <1>1, <1>2, <1>4 DEF Core, Table
  <2>2. \A t \in Task : taken.PID[t] >= -1
    <3>1. pidGlobal >= -1
      BY PidAssumption, BoundAssumption DEF TypeOK
    <3>2. QED BY <1>1, <1>4, <3>1 DEF Core, Table
  <2>3. \A t \in Task \ {Idle, current, c} : Linked(taken, t)
    BY <1>5 DEF Core, Table, Linked, In
  <2>4. QED BY <1>4, <1>5, <1>6, <1>7, <1>8, <2>1, <2>2, <2>3 DEF Table
<1>10. NodeAsNeeded(taken, c)
  BY <1>1, <1>2, <1>4, <1>5 DEF NodeAsNeeded, LeavesQueue, Linked, In
<1>11. taken.PID[c] >= 0
  BY <1>1, <1>2, <1>4, PidAssumption, BoundAssumption DEF TypeOK
<1> HIDE DEF F
<1>12. /\ Table(sched', F, ({Idle, current, c} \ {c}) \cup {Idle})
       /\ \A n \in QueueNames : \A x \in Task :
            In(sched', n, x) <=> IF x = c THEN n = "readyqueue" ELSE In(taken, n, x)
  <2> DEFINE Out == {Idle, current, c}
  <2>1. /\ Idle \in Out /\ Table(taken, F, Out) /\ c \in Task /\ c # Idle
        /\ "readyqueue" \in QueueNames /\ "readyqueue" # "freequeue"
        /\ NodeAsNeeded(taken, c) /\ taken.PID[c] >= 0
    BY <1>1, <1>2, <1>9, <1>10, <1>11
  <2> HIDE DEF Out
  <2>2. /\ Table(Update(taken, c, "readyqueue"), F, (Out \ {c}) \cup {Idle})
        /\ \A n \in QueueNames : \A x \in Task :
             In(Update(taken, c, "readyqueue"), n, x)
               <=> IF x = c THEN n = "readyqueue" ELSE In(taken, n, x)
    BY <2>1, EnqueueTable
  <2>3. QED BY <1>3, <2>2 DEF Out
<1>13. /\ sched'.PID = taken.PID /\ sched'.current = current /\ sched'.sound = ok
       /\ sched'.current_state[current] = "ST_RUN"
  BY <1>1, <1>2, <1>3, <1>4, <1>10, UpdateFields, UpdateStates
<1>14. Failed' = F
  <2>1. heads' = [heads EXCEPT ![c] = "own"]
    BY DEF Spawn, PcbTaken, PcbFilled, c
  <2>2. QED BY <1>2, <2>1 DEF Failed, TypeOK, F
<1>15. Table(sched', Failed', {Idle, current'})
  BY <1>2, <1>12, <1>13, <1>14, TableWiden DEF current
<1>16. \A t \in Task : sched'.PID[t] < pidGlobal'
  <2> SUFFICES ASSUME NEW t \in Task PROVE taken.PID[t] < pidGlobal + 1
    BY <1>3, <1>13
  <2>1. sched.PID[t] \in Int /\ sched.PID[t] < pidGlobal
    BY <1>1 DEF Core
  <2>2. taken.PID[t] = IF t = c THEN pidGlobal ELSE sched.PID[t]
    BY <1>1, <1>4
  <2>3. QED BY <1>1, <2>1, <2>2
<1>17. CurrentFits'
  <2>1. ~Linked(sched', current)
    BY <1>1, <1>2, <1>5, <1>12 DEF Linked, In
  <2>2. sched'.PID[current] > 0 /\ ~exiting' /\ current' = current
    BY <1>0, <1>1, <1>2, <1>4, <1>13 DEF Spawn, PcbTaken, PcbFilled, current
  <2>3. QED BY <1>13, <2>1, <2>2 DEF CurrentFits, current
<1>18. \A t \in Task : IsFree(sched', t) <=> IsFree(sched, t) /\ t # c
  BY <1>1, <1>5, <1>12 DEF IsFree
<1>19. QED BY <1>2, <1>13, <1>15, <1>16, <1>17, <1>18 DEF Core, c

\* sched_next_rr wakes at most the task that it chooses.
LEMMA SchedNextStates ==
  ASSUME NEW s \in SchedType, NEW x \in Task, s.current_state[x] = "ST_BLOCKED",
         SchedNext(s).current_state[x] # "ST_BLOCKED"
  PROVE  x = NextTask(s)
<1> DEFINE nt == NextTask(s)
           p  == IF s.current_state[s.current] = "ST_RUN"
                 THEN Update(s, s.current, "readyqueue") ELSE s
           d  == Dispatch(p, nt)
<1>1. nt \in Task /\ s.current \in Task /\ "readyqueue" \in QueueNames
  BY SchedNextType DEF SchedType, QueueNames
<1>2. p \in SchedType /\ p.current_state[x] = s.current_state[x]
  <2>1. CASE s.current_state[s.current] = "ST_RUN"
    <3>1. x # s.current
      BY <2>1
    <3>2. Update(s, s.current, "readyqueue") \in SchedType
      BY <1>1, UpdateType
    <3>3. Update(s, s.current, "readyqueue").current_state[x] = s.current_state[x]
      BY <1>1, <3>1, UpdateStates
    <3>4. QED BY <2>1, <3>2, <3>3
  <2>2. CASE s.current_state[s.current] # "ST_RUN"
    BY <2>2
  <2>3. QED BY <2>1, <2>2
<1> HIDE DEF p, nt
<1>3. d \in SchedType /\ d.current_state = [p.current_state EXCEPT ![nt] = "ST_RUN"]
  BY <1>1, <1>2, DispatchType
<1>4. SchedNext(s).current_state = d.current_state
  BY <1>3 DEF SchedNext, SchedType, p, nt
<1>5. QED BY <1>1, <1>2, <1>3, <1>4 DEF nt, SchedType

\* Two tables that differ only in current, tick_counter and sound.
LEMMA TableSame ==
  ASSUME NEW s, NEW F, NEW Out, Table(s, F, Out), NEW u, u \in SchedType,
         u.queue = s.queue, u.PID = s.PID, u.current_state = s.current_state
  PROVE  /\ Table(u, F, Out)
         /\ \A n \in QueueNames : \A x \in Task : In(u, n, x) <=> In(s, n, x)
         /\ \A x \in Task : Linked(u, x) <=> Linked(s, x)
BY DEF Table, StatesAgree, PidsAgree, PidsUnique, IsFree, In, Linked

\* The running task goes to sleep, and the CPU to another one.
LEMMA SleepTable ==
  ASSUME TypeOK, Core, ~exiting, current # Idle, NEW s, SameTable(s, sched)
  PROVE  LET z == Update(s, current, "blocked")
         IN /\ MayYield(z)
            /\ z.PID = sched.PID /\ z.current = current /\ z.sound = s.sound
            /\ z.current_state[current] = "ST_BLOCKED"
            /\ \A n \in QueueNames : \A x \in Task :
                 In(z, n, x) <=> IF x = current THEN n = "blocked" ELSE In(sched, n, x)
<1> DEFINE z == Update(s, current, "blocked")
<1>1. /\ sched \in SchedType /\ current \in Task
      /\ sched.current_state[current] = "ST_RUN"
      /\ ~Linked(sched, current) /\ sched.PID[current] > 0
      /\ "blocked" \in QueueNames /\ "blocked" # "freequeue"
  BY SyscallFacts DEF QueueNames
<1>2. /\ s \in SchedType /\ s.queue = sched.queue /\ s.PID = sched.PID
      /\ s.current_state = sched.current_state /\ s.current = current
  BY DEF SameTable, current
<1>3. Table(s, Failed, {Idle, current}) /\ ~Linked(s, current)
  BY <1>1, <1>2, TableSame DEF Core
<1>4. NodeAsNeeded(s, current) /\ s.PID[current] >= 0 /\ ~(s.PID[current] < 0)
  BY <1>1, <1>2, <1>3 DEF NodeAsNeeded, LeavesQueue, SchedType
<1>5. /\ Table(z, Failed, ({Idle, current} \ {current}) \cup {Idle})
      /\ \A n \in QueueNames : \A x \in Task :
           In(z, n, x) <=> IF x = current THEN n = "blocked" ELSE In(s, n, x)
  <2>1. Idle \in {Idle, current}
    OBVIOUS
  <2>2. QED BY <1>1, <1>3, <1>4, <2>1, EnqueueTable
<1>6. z.PID = sched.PID /\ z.current = current /\ z.sound = s.sound
  BY <1>1, <1>2, <1>4, UpdateFields
<1>7. z.current_state[current] = "ST_BLOCKED"
  <2>1. z.current_state[current] = StateOf["blocked"]
    BY <1>1, <1>2, <1>4, UpdateStates
  <2>2. QED BY <2>1 DEF StateOf
<1> HIDE DEF z
<1>8. Linked(z, current) /\ ~IsFree(z, current)
  <2>1. z \in SchedType /\ NodesDistinct(z.queue)
    BY <1>5 DEF Table
  <2>2. "freequeue" \in QueueNames
    BY DEF QueueNames
  <2>3. QED BY <1>1, <1>5, <2>1, <2>2, InOneQueue DEF Linked, In, IsFree
<1>9. Table(z, Failed, {Idle, z.current})
  BY <1>5, <1>6, TableWiden
<1>10. MayYield(z)
  BY <1>6, <1>7, <1>8, <1>9 DEF MayYield
<1>11. \A n \in QueueNames : \A x \in Task : In(s, n, x) <=> In(sched, n, x)
  BY <1>2 DEF In
<1>12. QED BY <1>5, <1>6, <1>7, <1>10, <1>11 DEF z

LEMMA SleepCore ==
  ASSUME TypeOK, Core, ~exiting, current # Idle, NEW ok \in BOOLEAN,
         sched' = SchedNext(Update([sched EXCEPT !.sound = ok], current, "blocked")),
         UNCHANGED <<heads, pidGlobal, exiting>>
  PROVE  /\ Core' /\ SameFree /\ sched'.sound = ok
         /\ sched'.current_state[current] = "ST_BLOCKED"
<1> DEFINE s == [sched EXCEPT !.sound = ok]
           z == Update(s, current, "blocked")
<1>1. /\ sched \in SchedType /\ current \in Task /\ ~Linked(sched, current)
  BY SyscallFacts
<1>2. SameTable(s, sched) /\ s.sound = ok
  BY <1>1 DEF SameTable, SchedType
<1> HIDE DEF s
<1>3. /\ MayYield(z) /\ z.PID = sched.PID /\ z.current = current /\ z.sound = ok
      /\ z.current_state[current] = "ST_BLOCKED"
      /\ \A n \in QueueNames : \A x \in Task :
           In(z, n, x) <=> IF x = current THEN n = "blocked" ELSE In(sched, n, x)
  BY <1>2, SleepTable
<1> HIDE DEF z
<1>4. \A t \in Task : z.PID[t] < pidGlobal
  BY <1>3 DEF Core
<1>5. sched' = SchedNext(z) /\ exiting' = FALSE
  BY DEF TypeOK, z, s
<1>6. /\ Core' /\ sched'.sound = z.sound
      /\ \A t \in Task : IsFree(sched', t) <=> IsFree(z, t)
  BY <1>3, <1>4, <1>5, YieldCore
<1>7. \A t \in Task : IsFree(z, t) <=> IsFree(sched, t)
  <2>1. "freequeue" \in QueueNames
    BY DEF QueueNames
  <2>2. QED BY <1>1, <1>3, <2>1 DEF IsFree, In, Linked
<1>8. sched'.current_state[current] = "ST_BLOCKED"
  <2>1. z \in SchedType /\ NodesDistinct(z.queue) /\ "readyqueue" \in QueueNames
        /\ z.queue \in Queues
    BY <1>3, SchedTypeQueues DEF MayYield, Table, QueueNames
  <2>2. ~In(z, "readyqueue", current)
    BY <1>1, <1>3, <2>1
  <2>3. current # NextTask(z)
    BY <2>1, <2>2, TailProperties DEF NextTask, In
  <2>4. QED BY <1>1, <1>3, <1>5, <2>1, <2>3, SchedNextStates
<1>9. QED BY <1>3, <1>6, <1>7, <1>8 DEF SameFree

\* The running task gives the CPU away and stays ready.
LEMMA StayTable ==
  ASSUME TypeOK, Core, ~exiting, NEW s, SameTable(s, sched)
  PROVE  MayYield(s)
<1>1. sched.current_state[current] = "ST_RUN" /\ current \in Task
  BY DEF Core, CurrentFits, TypeOK, SchedType, current
<1>2. /\ s \in SchedType /\ s.queue = sched.queue /\ s.PID = sched.PID
      /\ s.current_state = sched.current_state /\ s.current = current
  BY DEF SameTable, current
<1>3. Table(s, Failed, {Idle, s.current})
  BY <1>2, TableSame DEF Core
<1>4. current # Idle => ~Linked(s, current) /\ s.PID[current] > 0
  BY <1>1, <1>2, TableSame DEF Core, CurrentFits
<1>5. IsFree(s, current) => Linked(s, current)
  BY DEF IsFree, In, Linked, QueueNames
<1>6. QED BY <1>1, <1>2, <1>3, <1>4, <1>5 DEF MayYield

LEMMA StayCore ==
  ASSUME TypeOK, Core, ~exiting, NEW s, s \in SchedType,
         s.queue = sched.queue, s.PID = sched.PID,
         s.current_state = sched.current_state, s.current = current,
         sched' = SchedNext(s), UNCHANGED <<heads, pidGlobal, exiting>>
  PROVE  Core' /\ SameFree /\ sched'.sound = s.sound
<1>1. MayYield(s)
  BY StayTable DEF SameTable, current
<1>2. \A t \in Task : s.PID[t] < pidGlobal
  BY DEF Core
<1>3. exiting' = FALSE
  BY DEF TypeOK
<1>4. /\ Core' /\ sched'.sound = s.sound
      /\ \A t \in Task : IsFree(sched', t) <=> IsFree(s, t)
  BY <1>1, <1>2, <1>3, YieldCore
<1>5. QED BY <1>4 DEF SameFree, IsFree, In

LEMMA ForkNoFramesCore ==
  ASSUME TypeOK, Core, ForkNoFrames
  PROVE  Core' /\ SameFree
<1> DEFINE c == Head(FreeQueue)
           ok == sched.sound /\ ~AnchorLinked(c)
           free == Append(Tail(sched.queue["freequeue"]), c)
           tail == [sched.queue EXCEPT !["freequeue"] = Tail(@)]
           pid == sched.PID[current]
           F == Failed \cup {c}
<1>0. ~exiting /\ current # Idle
  BY DEF ForkNoFrames, InSyscall, InUserMode
<1>1. /\ sched \in SchedType /\ current \in Task
      /\ sched.current_state[current] = "ST_RUN"
      /\ ~Linked(sched, current) /\ sched.PID[current] > 0
      /\ "freequeue" \in QueueNames /\ sched.queue \in Queues
  <2>1. sched \in SchedType
    BY DEF TypeOK
  <2>2. QED BY <1>0, <2>1, SyscallFacts, SchedTypeQueues DEF QueueNames
<1>2. /\ c \in Task /\ IsFree(sched, c) /\ tail \in Queues /\ NodesDistinct(tail)
      /\ \A n \in QueueNames : \A x \in Task :
           Contains(tail[n], x) <=> In(sched, n, x) /\ x # c
  <2>1. sched.queue["freequeue"] # <<>>
    BY DEF ForkNoFrames, FreeQueue
  <2>2. NodesDistinct(sched.queue)
    BY DEF Core, Table
  <2>3. c = Head(sched.queue["freequeue"]) /\ tail = Popped(sched.queue, "freequeue")
    BY DEF FreeQueue, Popped
  <2> HIDE DEF c, tail
  <2>4. QED BY <1>1, <2>1, <2>2, <2>3, TailProperties DEF IsFree, In
<1>3. c # Idle /\ c # current
  <2>1. Table(sched, Failed, {Idle, current})
    BY DEF Core
  <2>2. QED BY <1>1, <1>2, <2>1, IdleInNoQueue DEF IsFree, In, Linked
<1>4. /\ sched'.queue = Appended(tail, "freequeue", c)
      /\ sched'.PID = [sched.PID EXCEPT ![c] = pid]
      /\ sched'.current_state = [sched.current_state EXCEPT ![c] = "ST_RUN"]
      /\ sched'.current = current
  <2>1. /\ pid \in Int /\ sched.queue["freequeue"] \in Seq(Task)
        /\ sched.queue["freequeue"] # <<>> /\ sched.current = current
    BY <1>1 DEF SchedType, ForkNoFrames, FreeQueue, current
  <2>2. free \in Seq(Task) /\ ok \in BOOLEAN
    BY <1>1, <1>2, <2>1, HeadTailProperties DEF SchedType, AnchorLinked
  <2>3. sched' = WithPcb(sched, free, c, pid, "ST_RUN", ok)
    BY <1>1 DEF ForkNoFrames, WithPcb
  <2>4. "ST_RUN" \in States
    BY DEF States
  <2>5. Appended(tail, "freequeue", c) = [sched.queue EXCEPT !["freequeue"] = free]
    BY <1>1 DEF Appended, SchedType
  <2>6. sched \in SchedType /\ c \in Task
    BY <1>1, <1>2
  <2> HIDE DEF c, free, ok, pid, tail
  <2>7. /\ sched'.queue = [sched.queue EXCEPT !["freequeue"] = free]
        /\ sched'.PID = [sched.PID EXCEPT ![c] = pid]
        /\ sched'.current_state = [sched.current_state EXCEPT ![c] = "ST_RUN"]
        /\ sched'.current = sched.current
    BY <2>1, <2>2, <2>3, <2>4, <2>6, WithPcbType
  <2>8. QED BY <2>1, <2>5, <2>7
<1> HIDE DEF c, tail
<1>5. /\ NodesDistinct(sched'.queue)
      /\ \A n \in QueueNames : \A x \in Task : In(sched', n, x) <=> In(sched, n, x)
  <2>1. /\ \A n \in QueueNames : \A x \in Task :
             Contains(sched'.queue[n], x) <=> Contains(tail[n], x) \/ (n = "freequeue" /\ x = c)
        /\ NodesDistinct(sched'.queue)
    BY <1>1, <1>2, <1>4, AppendedProperties
  <2>2. \A n \in QueueNames : In(sched, n, c) <=> n = "freequeue"
    <3>1. NodesDistinct(sched.queue)
      BY DEF Core, Table
    <3>2. QED BY <1>1, <1>2, <3>1, InOneQueue DEF IsFree
  <2>3. QED BY <1>2, <2>1, <2>2 DEF In
<1>6. sched.PID \in [Task -> Int] /\ sched.current_state \in [Task -> States]
  BY <1>1 DEF SchedType
<1>7. StatesAgree(sched', F)
  <2>1. StatesAgree(sched, Failed)
    BY DEF Core, Table
  <2>2. \A n \in QueueNames : In(sched, n, c) => n = "freequeue"
    <3>1. NodesDistinct(sched.queue)
      BY DEF Core, Table
    <3>2. QED BY <1>1, <1>2, <3>1, InOneQueue DEF IsFree
  <2>3. QED BY <1>2, <1>4, <1>5, <1>6, <2>1, <2>2 DEF StatesAgree
<1>8. PidsAgree(sched', F)
  <2>1. PidsAgree(sched, Failed)
    BY DEF Core, Table
  <2>2. \A n \in QueueNames : In(sched, n, c) => n = "freequeue"
    <3>1. NodesDistinct(sched.queue)
      BY DEF Core, Table
    <3>2. QED BY <1>1, <1>2, <3>1, InOneQueue DEF IsFree
  <2>3. QED BY <1>1, <1>2, <1>4, <1>5, <1>6, <2>1, <2>2 DEF PidsAgree
<1>9. PidsUnique(sched')
  <2>1. PidsUnique(sched)
    BY DEF Core, Table
  <2>2. \A x \in Task : IsFree(sched', x) <=> IsFree(sched, x)
    BY <1>1, <1>5 DEF IsFree
  <2>3. QED BY <1>2, <1>4, <1>6, <2>1, <2>2 DEF PidsUnique
<1>10. \A t \in Task : /\ sched'.PID[t] >= -1 /\ sched'.PID[t] < pidGlobal
                       /\ t = Idle => sched'.PID[t] = 0
  <2>1. \A t \in Task : /\ sched.PID[t] >= -1 /\ sched.PID[t] < pidGlobal
                        /\ t = Idle => sched.PID[t] = 0
    BY DEF Core, Table
  <2>2. QED BY <1>1, <1>2, <1>3, <1>4, <1>6, <2>1
<1>11. \A t \in Task : Linked(sched', t) <=> Linked(sched, t)
  BY <1>5 DEF Linked, In
<1>12. sched' \in SchedType
  <2>1. [Next]_vars
    BY DEF Next
  <2>2. QED BY <2>1, TypeNext DEF TypeOK
<1>13. Failed' = F
  BY <1>2 DEF ForkNoFrames, Failed, TypeOK, c
<1>14. Table(sched', F, {Idle, current})
  BY <1>5, <1>7, <1>8, <1>9, <1>10, <1>11, <1>12, IdleIsTask DEF Core, Table
<1>15. pidGlobal' = pidGlobal /\ exiting' = exiting /\ current' = current
  BY <1>4 DEF ForkNoFrames, current
<1>16. CurrentFits'
  <2>1. sched'.PID[current] = sched.PID[current] /\ sched'.current_state[current] = "ST_RUN"
    BY <1>1, <1>2, <1>3, <1>4, <1>6
  <2>2. QED BY <1>0, <1>1, <1>11, <1>15, <2>1 DEF CurrentFits
<1>17. SameFree
  BY <1>1, <1>5 DEF SameFree, IsFree
<1>18. QED BY <1>10, <1>13, <1>14, <1>15, <1>16, <1>17 DEF Core

\* The running task wakes one that sleeps, and may then give the CPU away.
LEMMA WakeTable ==
  ASSUME TypeOK, Core, ~exiting, current # Idle, NEW fill \in Task,
         sched.current_state[fill] = "ST_BLOCKED"
  PROVE  LET z == Update(sched, fill, "readyqueue")
         IN /\ MayYield(z) /\ NodeAsNeeded(sched, fill)
            /\ z.PID = sched.PID /\ z.current = current /\ z.sound = sched.sound
            /\ z.current_state[current] = "ST_RUN"
            /\ \A t \in Task : IsFree(z, t) <=> IsFree(sched, t)
            /\ fill # Idle => sched.PID[fill] > 0
<1> DEFINE z == Update(sched, fill, "readyqueue")
<1>0. ~exiting /\ current # Idle
  OBVIOUS
<1>1. /\ sched \in SchedType /\ current \in Task
      /\ sched.current_state[current] = "ST_RUN"
      /\ ~Linked(sched, current) /\ sched.PID[current] > 0
      /\ "readyqueue" \in QueueNames /\ "freequeue" \in QueueNames
  BY <1>0, SyscallFacts DEF QueueNames
<1>2. Table(sched, Failed, {Idle, current}) /\ fill # current
  BY <1>1 DEF Core
<1>3. fill # Idle => /\ Linked(sched, fill) /\ sched.PID[fill] > 0
                     /\ LeavesQueue(sched, fill)
  <2> SUFFICES ASSUME fill # Idle
               PROVE  /\ Linked(sched, fill) /\ sched.PID[fill] > 0
                      /\ LeavesQueue(sched, fill)
    OBVIOUS
  <2>1. PICK n \in QueueNames : In(sched, n, fill)
    BY <1>2 DEF Table, Linked, In
  <2>2. n # "freequeue" /\ Linked(sched, fill)
    BY <1>2, <2>1 DEF Table, StatesAgree, StateOf, In, Linked
  <2>3. sched.PID[fill] > 0
    BY <1>2, <2>1, <2>2 DEF Table, PidsAgree
  <2>4. QED BY <2>2, <2>3 DEF LeavesQueue
<1>4. NodeAsNeeded(sched, fill)
  BY <1>3 DEF NodeAsNeeded
<1>5. /\ Table(z, Failed, {Idle, current})
      /\ \A n \in QueueNames : ~In(z, n, current)
      /\ z \in SchedType
      /\ \A x \in Task : IsFree(z, x) <=> IsFree(sched, x)
  <2>1. \A n \in QueueNames : ~In(sched, n, current)
    BY <1>1 DEF In, Linked
  <2>2. CASE fill = Idle
    <3>1. /\ Table(z, Failed, ({Idle, current} \ {Idle}) \cup {Idle})
          /\ \A n \in QueueNames : \A x \in Task :
               In(z, n, x) <=> IF x = Idle /\ Idle # Idle THEN n = "readyqueue"
                                                         ELSE In(sched, n, x)
      <4>1. /\ Idle \in {Idle, current} /\ Idle \in Task /\ NodeAsNeeded(sched, Idle)
            /\ "readyqueue" # "freequeue" /\ ~(sched.PID[Idle] < 0)
        BY <1>2, <1>4, <2>2 DEF Table
      <4>2. QED BY <1>1, <1>2, <2>2, <4>1, UpdateTable
    <3>2. Table(z, Failed, {Idle, current})
      BY <3>1, TableWiden
    <3>3. QED BY <1>1, <2>1, <3>1, <3>2 DEF Table, IsFree
  <2>3. CASE fill # Idle
    <3>1. /\ Table(z, Failed, ({Idle, current} \ {fill}) \cup {Idle})
          /\ \A n \in QueueNames : \A x \in Task :
               In(z, n, x) <=> IF x = fill THEN n = "readyqueue" ELSE In(sched, n, x)
      <4>1. /\ Idle \in {Idle, current} /\ "readyqueue" # "freequeue"
            /\ sched.PID[fill] >= 0
        BY <1>1, <1>3, <2>3 DEF SchedType
      <4>2. QED BY <1>1, <1>2, <1>4, <2>3, <4>1, EnqueueTable
    <3>2. Table(z, Failed, {Idle, current})
      BY <3>1, TableWiden
    <3>3. ~IsFree(sched, fill)
      <4>1. sched.current_state[fill] # "ST_FREE" /\ sched.current_state[fill] # "ST_RUN"
        OBVIOUS
      <4>2. QED BY <1>1, <1>2, <4>1 DEF Table, StatesAgree, StateOf, IsFree
    <3>4. \A x \in Task : IsFree(z, x) <=> IsFree(sched, x)
      BY <1>1, <3>1, <3>3 DEF IsFree
    <3>5. QED BY <1>1, <1>2, <2>1, <3>1, <3>2, <3>4 DEF Table
  <2>4. QED BY <2>2, <2>3
<1>6. z.PID = sched.PID /\ z.current = current /\ z.sound = sched.sound
  <2>1. sched.current = current
    BY DEF current
  <2>2. QED BY <1>1, <1>4, <2>1, UpdateFields
<1>7. z.current_state[current] = "ST_RUN"
  BY <1>1, <1>2, UpdateStates
<1> HIDE DEF z
<1>8. ~Linked(z, current) /\ ~IsFree(z, current)
  BY <1>1, <1>5 DEF Linked, In, IsFree
<1>9. MayYield(z)
  BY <1>1, <1>5, <1>6, <1>7, <1>8 DEF MayYield
<1>10. QED BY <1>3, <1>4, <1>5, <1>6, <1>7, <1>9 DEF z

LEMMA UnblockCore ==
  ASSUME TypeOK, Core, InSyscall, NEW fill \in Task,
         sched.current_state[fill] = "ST_BLOCKED",
         sched' = SchedNext(Update(sched, fill, "readyqueue")),
         UNCHANGED <<heads, pidGlobal, exiting>>
  PROVE  Core' /\ SameFree /\ sched'.sound = sched.sound
<1> DEFINE z == Update(sched, fill, "readyqueue")
<1>1. ~exiting /\ current # Idle
  BY DEF InSyscall, InUserMode
<1>2. /\ MayYield(z) /\ z.PID = sched.PID /\ z.sound = sched.sound
      /\ \A t \in Task : IsFree(z, t) <=> IsFree(sched, t)
  BY <1>1, WakeTable
<1> HIDE DEF z
<1>3. \A t \in Task : z.PID[t] < pidGlobal
  BY <1>2 DEF Core
<1>4. sched' = SchedNext(z) /\ exiting' = FALSE
  BY <1>1 DEF TypeOK, z
<1>5. /\ Core' /\ sched'.sound = z.sound
      /\ \A t \in Task : IsFree(sched', t) <=> IsFree(z, t)
  BY <1>2, <1>3, <1>4, YieldCore
<1>6. QED BY <1>2, <1>5 DEF SameFree

LEMMA ExitCore ==
  ASSUME TypeOK, Core, Exit, current # task1
  PROVE  Core' /\ SameFree
<1>0. ~exiting /\ current # Idle
  BY DEF Exit, InSyscall, InUserMode
<1>1. /\ sched \in SchedType /\ current \in Task /\ Idle \in Task
      /\ ~Linked(sched, current) /\ sched.PID[current] > 0
      /\ sched.PID \in [Task -> Int]
  BY <1>0, SyscallFacts, IdleIsTask DEF SchedType
<1>2. /\ sched' = [sched EXCEPT !.PID[current] = -1] /\ exiting' = TRUE
      /\ UNCHANGED <<heads, pidGlobal>>
  BY DEF Exit
<1>3. /\ sched'.queue = sched.queue /\ sched'.current_state = sched.current_state
      /\ sched'.PID = [sched.PID EXCEPT ![current] = -1]
      /\ sched'.current = current
  BY <1>1, <1>2 DEF SchedType, current
<1>4. sched' \in SchedType
  <2>1. [Next]_vars
    BY DEF Next
  <2>2. QED BY <2>1, TypeNext DEF TypeOK
<1>5. /\ NodesDistinct(sched.queue) /\ StatesAgree(sched, Failed)
      /\ PidsAgree(sched, Failed) /\ PidsUnique(sched)
      /\ sched.PID[Idle] = 0
      /\ \A t \in Task : sched.PID[t] >= -1 /\ sched.PID[t] < pidGlobal
      /\ \A t \in Task \ {Idle, current} : Linked(sched, t)
  BY DEF Core, Table
<1>6. /\ \A n \in QueueNames : \A x \in Task : In(sched', n, x) <=> In(sched, n, x)
      /\ \A x \in Task : Linked(sched', x) <=> Linked(sched, x)
      /\ \A n \in QueueNames : ~In(sched, n, current)
  BY <1>1, <1>3 DEF In, Linked
<1>7. StatesAgree(sched', Failed) /\ NodesDistinct(sched'.queue)
  BY <1>3, <1>5, <1>6 DEF StatesAgree
<1>8. PidsAgree(sched', Failed)
  BY <1>1, <1>3, <1>5, <1>6 DEF PidsAgree
<1>9. PidsUnique(sched')
  <2> SUFFICES ASSUME NEW t \in Task, NEW u \in Task, ~IsFree(sched', t), ~IsFree(sched', u),
                      sched'.PID[t] = sched'.PID[u]
               PROVE  t = u
    BY DEF PidsUnique
  <2>1. \A x \in Task : ~IsFree(sched', x) => ~IsFree(sched, x)
    BY <1>6 DEF IsFree, QueueNames
  <2>2. \A x \in Task : x # current /\ ~IsFree(sched, x) => sched.PID[x] >= 0
    <3> SUFFICES ASSUME NEW x \in Task, x # current, x # Idle, ~IsFree(sched, x)
                 PROVE  sched.PID[x] > 0
      BY <1>1, <1>5
    <3>1. PICK n \in QueueNames : In(sched, n, x)
      BY <1>5 DEF Linked, In
    <3>2. n # "freequeue"
      BY <3>1 DEF IsFree
    <3>3. QED BY <1>5, <3>1, <3>2 DEF PidsAgree
  <2>3. CASE t = current \/ u = current
    BY <1>1, <1>3, <2>1, <2>2, <2>3
  <2>4. CASE t # current /\ u # current
    BY <1>1, <1>3, <1>5, <2>1, <2>4 DEF PidsUnique
  <2>5. QED BY <2>3, <2>4
<1>10. /\ sched'.PID[Idle] = 0
       /\ \A t \in Task : sched'.PID[t] >= -1 /\ sched'.PID[t] < pidGlobal
       /\ sched'.PID[current] = -1
  BY <1>0, <1>1, <1>3, <1>5, PidAssumption, BoundAssumption DEF TypeOK
<1>11. Table(sched', Failed, {Idle, current})
  BY <1>4, <1>5, <1>6, <1>7, <1>8, <1>9, <1>10 DEF Table
<1>12. Failed' = Failed /\ current' = current
  BY <1>2, <1>3 DEF Failed, current
<1>13. QED
  BY <1>0, <1>2, <1>6, <1>10, <1>11, <1>12
     DEF Core, CurrentFits, SameFree, IsFree, QueueNames

\* A waiter that is where the loop of sys_exit needs it.
LEMMA ExitWakeCore ==
  ASSUME TypeOK, Core, ExitWake, sched'.sound
  PROVE  /\ Core'
         /\ Head(waitList[current]) # current =>
              (Linked(sched', current) <=> Linked(sched, current))
         /\ \A t \in Task \ {current} : IsFree(sched', t) <=> IsFree(sched, t)
<1> DEFINE w == Head(waitList[current])
<1>1. /\ sched \in SchedType /\ w \in Task /\ exiting
      /\ sched' = Update(sched, w, "readyqueue") /\ sched.current = current
      /\ "readyqueue" \in QueueNames /\ "readyqueue" # "freequeue"
      /\ UNCHANGED <<heads, pidGlobal, exiting>>
  <2>1. waitList[current] \in Seq(Task)
    BY DEF TypeOK, SchedType, current
  <2>2. QED BY <2>1, HeadTailProperties DEF ExitWake, TypeOK, current, QueueNames
<1> HIDE DEF w
<1>2. NodeAsNeeded(sched, w)
  BY <1>1, UpdateType
<1>3. Table(sched', Failed, {Idle, current})
  <2>1. Table(sched, Failed, {Idle, current}) /\ Idle \in {Idle, current}
    BY DEF Core
  <2>2. QED BY <1>1, <1>2, <2>1, MoveTable
<1>4. sched'.PID = sched.PID /\ sched'.current = current
  BY <1>1, <1>2, UpdateFields
<1>5. Failed' = Failed /\ current' = current
  BY <1>1, <1>4 DEF Failed, current
<1>6. \A n \in QueueNames : \A x \in Task :
        In(sched', n, x) <=>
          IF x = w /\ w # Idle
          THEN n = IF sched.PID[w] < 0 THEN "freequeue" ELSE "readyqueue"
          ELSE In(sched, n, x)
  <2>1. Table(sched, Failed, {Idle, current}) /\ Idle \in {Idle, current}
    BY DEF Core
  <2>2. QED BY <1>1, <1>2, <2>1, UpdateTable
<1>7. w \notin {Idle, current} => ~IsFree(sched, w) /\ ~(sched.PID[w] < 0)
  <2> SUFFICES ASSUME w \notin {Idle, current}
               PROVE  ~IsFree(sched, w) /\ ~(sched.PID[w] < 0)
    OBVIOUS
  <2>1. PidsAgree(sched, Failed) /\ sched.PID[w] \in Int
    BY <1>1 DEF Core, Table, SchedType
  <2>2. PICK n \in QueueNames : In(sched, n, w)
    BY <1>1 DEF Core, Table, Linked, In
  <2>3. Linked(sched, w)
    BY <2>2 DEF Linked, In
  <2>4. sched.PID[w] > 0 /\ sched.current_state[w] # "ST_RUN"
    BY <1>2, <2>3 DEF NodeAsNeeded, LeavesQueue
  <2>5. ~IsFree(sched, w)
    BY <1>1, <2>1, <2>4 DEF PidsAgree, IsFree, QueueNames
  <2>6. QED BY <2>1, <2>4, <2>5
<1>8. \A t \in Task \ {current} : IsFree(sched', t) <=> IsFree(sched, t)
  BY <1>1, <1>6, <1>7 DEF IsFree, QueueNames
<1>9. w # current => (Linked(sched', current) <=> Linked(sched, current))
  BY <1>1, <1>6 DEF Linked, In, TypeOK, SchedType
<1>10. QED BY <1>1, <1>3, <1>4, <1>5, <1>8, <1>9 DEF Core, CurrentFits, w

\* The running task gives its PCB back, and the CPU to another one.
LEMMA LeaveTable ==
  ASSUME TypeOK, Core, exiting, NodeAsNeeded(sched, current)
  PROVE  LET z == Update(sched, current, "freequeue")
         IN /\ MayYield(z)
            /\ z.PID = sched.PID /\ z.current = current /\ z.sound = sched.sound
            /\ z.current_state[current] = "ST_FREE"
            /\ \A n \in QueueNames : \A x \in Task :
                 In(z, n, x) <=> IF x = current THEN n = "freequeue" ELSE In(sched, n, x)
<1> DEFINE z == Update(sched, current, "freequeue")
<1>1. /\ sched \in SchedType /\ current \in Task /\ current # Idle
      /\ sched.PID[current] = -1 /\ sched.current = current
      /\ "freequeue" \in QueueNames
  BY DEF TypeOK, SchedType, Core, CurrentFits, current, QueueNames
<1>2. /\ Table(z, Failed, ({Idle, current} \ {current}) \cup {Idle})
      /\ \A n \in QueueNames : \A x \in Task :
           In(z, n, x) <=> IF x = current THEN n = "freequeue" ELSE In(sched, n, x)
  <2>1. /\ Table(sched, Failed, {Idle, current}) /\ Idle \in {Idle, current}
        /\ sched.PID[current] < 0
    BY <1>1 DEF Core
  <2>2. QED BY <1>1, <2>1, ReleaseTable
<1>3. z.PID = sched.PID /\ z.current = current /\ z.sound = sched.sound
  BY <1>1, UpdateFields
<1>4. z.current_state[current] = "ST_FREE"
  <2>1. sched.PID[current] < 0
    BY <1>1
  <2>2. z.current_state[current] = StateOf["freequeue"]
    BY <1>1, <2>1, UpdateStates
  <2>3. QED BY <2>2 DEF StateOf
<1> HIDE DEF z
<1>5. Table(z, Failed, {Idle, z.current})
  BY <1>2, <1>3, TableWiden
<1>6. Linked(z, current)
  BY <1>1, <1>2 DEF Linked, In
<1>7. MayYield(z)
  BY <1>1, <1>3, <1>4, <1>5, <1>6 DEF MayYield
<1>8. QED BY <1>2, <1>3, <1>4, <1>7 DEF z

LEMMA ExitDoneCore ==
  ASSUME TypeOK, Core, ExitDone, NodeAsNeeded(sched, current)
  PROVE  /\ Core'
         /\ \A t \in Task : IsFree(sched', t) <=> IsFree(sched, t) \/ t = current
         /\ sched'.sound = sched.sound
<1> DEFINE z == Update(sched, current, "freequeue")
<1>1. /\ exiting /\ current \in Task /\ "freequeue" \in QueueNames
      /\ sched' = SchedNext(z) /\ UNCHANGED <<heads, pidGlobal>> /\ exiting' = FALSE
  BY DEF TypeOK, SchedType, ExitDone, current, QueueNames, lists
<1>2. /\ MayYield(z) /\ z.PID = sched.PID /\ z.sound = sched.sound
      /\ \A n \in QueueNames : \A x \in Task :
           In(z, n, x) <=> IF x = current THEN n = "freequeue" ELSE In(sched, n, x)
  BY <1>1, LeaveTable
<1> HIDE DEF z
<1>3. \A t \in Task : z.PID[t] < pidGlobal
  BY <1>2 DEF Core
<1>4. /\ Core' /\ sched'.sound = z.sound
      /\ \A t \in Task : IsFree(sched', t) <=> IsFree(z, t)
  BY <1>1, <1>2, <1>3, YieldCore
<1>5. QED BY <1>1, <1>2, <1>4 DEF IsFree

\* sys_exit ends well only if its own node is where the freequeue needs it.
LEMMA ExitDoneNeeds ==
  ASSUME TypeOK, ExitDone, sched'.sound
  PROVE  NodeAsNeeded(sched, current)
<1>1. /\ sched \in SchedType /\ current \in Task /\ "freequeue" \in QueueNames
      /\ sched' = SchedNext(Update(sched, current, "freequeue"))
  BY DEF TypeOK, SchedType, ExitDone, current, QueueNames
<1>2. Update(sched, current, "freequeue") \in SchedType
  BY <1>1, UpdateKeeps
<1>3. Update(sched, current, "freequeue").sound
  BY <1>1, <1>2, SchedNextSound
<1>4. QED BY <1>1, <1>3, UpdateKeeps

LEMMA ClockCore ==
  ASSUME TypeOK, Core, ClockInterrupt
  PROVE  Core' /\ SameFree /\ sched'.sound = sched.sound
<1> DEFINE left == IF sched.tick_counter > 0 THEN sched.tick_counter - 1 ELSE 0
           ticked == [sched EXCEPT !.tick_counter = left]
<1>1. /\ sched \in SchedType /\ ~exiting /\ sched.current = current
      /\ UNCHANGED <<heads, pidGlobal, exiting>>
  BY DEF TypeOK, ClockInterrupt, InUserMode, current, lists
<1>2. left \in 0 .. DEFAULT_QUANTUM_TICKS
  BY <1>1, QuantumAssumption DEF SchedType
<1>3. /\ ticked \in SchedType /\ ticked.queue = sched.queue /\ ticked.PID = sched.PID
      /\ ticked.current_state = sched.current_state /\ ticked.current = current
      /\ ticked.sound = sched.sound
  <2> HIDE DEF left
  <2> QED BY <1>1, <1>2 DEF SchedType
<1>4. sched' = SchedNext(ticked) \/ sched' = ticked
  BY DEF ClockInterrupt, Clock
<1> HIDE DEF ticked
<1>5. CASE sched' = SchedNext(ticked)
  BY <1>1, <1>3, <1>5, StayCore
<1>6. CASE sched' = ticked
  <2>1. /\ Table(ticked, Failed, {Idle, current})
        /\ \A x \in Task : Linked(ticked, x) <=> Linked(sched, x)
    BY <1>3, TableSame DEF Core
  <2>2. Failed' = Failed /\ current' = current /\ current \in Task
    BY <1>1, <1>3, <1>6 DEF Failed, current, SchedType
  <2>3. SameFree
    BY <1>3, <1>6 DEF SameFree, IsFree, In
  <2>4. QED BY <1>1, <1>3, <1>6, <2>1, <2>2, <2>3 DEF Core, CurrentFits
<1>7. QED BY <1>4, <1>5, <1>6

\* The calls that create and destroy nothing keep the freequeue, and but for
\* wait_thread on the copied head of a failed fork they break no list.
LEMMA SameFreeNext ==
  ASSUME TypeOK, Core, ~exiting, Running',
         \/ Block
         \/ \E pid \in Pids : Unblock(pid) \/ WaitThread(pid)
         \/ UnblockNobody
         \/ ClockInterrupt
  PROVE  SameFree
<1>0. /\ sched \in SchedType /\ sched.current = current
  BY DEF TypeOK, current
<1>1. CASE Block
  <2>1. /\ current # Idle /\ UNCHANGED <<heads, pidGlobal, exiting>>
        /\ sched.sound \in BOOLEAN /\ sched = [sched EXCEPT !.sound = sched.sound]
    BY <1>0, <1>1 DEF Block, InSyscall, lists, SchedType
  <2>2. CASE sched' = SchedNext(Update(sched, current, "blocked"))
    BY <2>1, <2>2, SleepCore
  <2>3. CASE UNCHANGED sched
    BY <2>3 DEF SameFree, IsFree, In
  <2>4. QED BY <1>1, <2>2, <2>3 DEF Block
<1>2. ASSUME NEW pid \in Pids, Unblock(pid) PROVE SameFree
  <2>1. InSyscall /\ UNCHANGED <<heads, pidGlobal, exiting>>
    BY <1>2 DEF Unblock, lists
  <2>2. PICK fill \in fills[current] :
          IF sched.current_state[fill] = "ST_BLOCKED"
          THEN sched' = SchedNext(Update(sched, fill, "readyqueue"))
          ELSE sched' = SchedNext(sched)
    BY <1>2 DEF Unblock
  <2>3. fill \in Task
    BY <1>0 DEF TypeOK, SchedType
  <2>4. CASE sched.current_state[fill] = "ST_BLOCKED"
    BY <2>1, <2>2, <2>3, <2>4, UnblockCore
  <2>5. CASE sched.current_state[fill] # "ST_BLOCKED"
    BY <1>0, <2>1, <2>2, <2>5, StayCore
  <2>6. QED BY <2>4, <2>5
<1>3. CASE UnblockNobody
  <2>1. UNCHANGED <<heads, pidGlobal, exiting>> /\ sched' = SchedNext(sched)
    BY <1>3 DEF UnblockNobody, lists
  <2>2. QED BY <1>0, <2>1, StayCore
<1>4. ASSUME NEW pid \in Pids, WaitThread(pid) PROVE SameFree
  <2> DEFINE ok == sched.sound /\ ~AnchorLinked(current) /\ heads[FirstWith(pid)] # "copied"
  <2>1. /\ current # Idle /\ UNCHANGED <<heads, pidGlobal, exiting>> /\ ok \in BOOLEAN
    BY <1>0, <1>4 DEF WaitThread, InSyscall, SchedType, AnchorLinked
  <2>2. sched' = SchedNext(Update([sched EXCEPT !.sound = ok], current, "blocked"))
    BY <1>4 DEF WaitThread, Running
  <2> HIDE DEF ok
  <2>3. QED BY <2>1, <2>2, SleepCore
<1>5. CASE ClockInterrupt
  BY <1>5, ClockCore
<1>6. QED BY <1>1, <1>2, <1>3, <1>4, <1>5

LEMMA CoreNext ==
  ASSUME TypeOK, Running => Core, [Next]_vars, Running'
  PROVE  Core'
<1>1. CASE UNCHANGED vars
  BY <1>1 DEF vars, Running, Core, Table, CurrentFits, Failed, current, StatesAgree,
              PidsAgree, PidsUnique, IsFree, In, Linked
<1>2. CASE Fork \/ CreateThread
  BY <1>2, SpawnCore DEF Fork, CreateThread, InSyscall, InUserMode
<1>3. CASE ForkNoFrames
  BY <1>3, ForkNoFramesCore DEF ForkNoFrames, InSyscall, InUserMode
<1>4. CASE Block
  <2>1. Core /\ ~exiting /\ current # Idle /\ UNCHANGED <<heads, pidGlobal, exiting>>
    BY <1>4 DEF Block, InSyscall, InUserMode, lists
  <2>2. CASE sched' = SchedNext(Update(sched, current, "blocked"))
    <3>1. sched.sound \in BOOLEAN /\ sched = [sched EXCEPT !.sound = sched.sound]
      BY DEF TypeOK, SchedType
    <3>2. QED BY <2>1, <2>2, <3>1, SleepCore
  <2>3. CASE UNCHANGED sched
    BY <2>1, <2>3 DEF Core, Table, CurrentFits, Failed, current, StatesAgree,
                      PidsAgree, PidsUnique, IsFree, In, Linked
  <2>4. QED BY <1>4, <2>2, <2>3 DEF Block
<1>5. ASSUME NEW pid \in Pids, Unblock(pid) PROVE Core'
  <2>1. /\ Core /\ InSyscall /\ ~exiting /\ UNCHANGED <<heads, pidGlobal, exiting>>
        /\ sched \in SchedType /\ sched.current = current
    BY <1>5 DEF Unblock, InSyscall, InUserMode, lists, TypeOK, current
  <2>2. PICK fill \in fills[current] :
          IF sched.current_state[fill] = "ST_BLOCKED"
          THEN sched' = SchedNext(Update(sched, fill, "readyqueue"))
          ELSE sched' = SchedNext(sched)
    BY <1>5 DEF Unblock
  <2>3. fill \in Task
    BY <2>1 DEF TypeOK, SchedType, current
  <2>4. CASE sched.current_state[fill] = "ST_BLOCKED"
    BY <2>1, <2>2, <2>3, <2>4, UnblockCore
  <2>5. CASE sched.current_state[fill] # "ST_BLOCKED"
    BY <2>1, <2>2, <2>5, StayCore
  <2>6. QED BY <2>4, <2>5
<1>6. CASE UnblockNobody
  <2>1. /\ Core /\ ~exiting /\ UNCHANGED <<heads, pidGlobal, exiting>>
        /\ sched \in SchedType /\ sched.current = current /\ sched' = SchedNext(sched)
    BY <1>6 DEF UnblockNobody, InSyscall, InUserMode, lists, TypeOK, current
  <2>2. QED BY <2>1, StayCore
<1>7. ASSUME NEW pid \in Pids, WaitThread(pid) PROVE Core'
  <2> DEFINE ok == sched.sound /\ ~AnchorLinked(current) /\ heads[FirstWith(pid)] # "copied"
  <2>1. /\ Core /\ ~exiting /\ current # Idle /\ UNCHANGED <<heads, pidGlobal, exiting>>
        /\ ok \in BOOLEAN
    BY <1>7 DEF WaitThread, InSyscall, InUserMode, TypeOK, SchedType, AnchorLinked
  <2>2. sched' = SchedNext(Update([sched EXCEPT !.sound = ok], current, "blocked"))
    BY <1>7 DEF WaitThread, Running
  <2> HIDE DEF ok
  <2>3. QED BY <2>1, <2>2, SleepCore
<1>8. CASE Exit
  BY <1>8, ExitCore DEF Exit, InSyscall, InUserMode, Running
<1>9. CASE ExitWake
  BY <1>9, ExitWakeCore DEF ExitWake, Running
<1>10. CASE ExitDone
  BY <1>10, ExitDoneCore, ExitDoneNeeds DEF ExitDone, Running
<1>11. CASE ClockInterrupt
  BY <1>11, ClockCore DEF ClockInterrupt, InUserMode
<1>12. CASE Halted
  BY <1>1, <1>12 DEF Halted
<1>13. CASE CreateThreadPageFault \/ ForkPageFault
  BY <1>13, PageFaultStep
<1>14. QED
  BY <1>1, <1>2, <1>3, <1>4, <1>5, <1>6, <1>7, <1>8, <1>9, <1>10, <1>11, <1>12, <1>13 DEF Next

LEMMA Inductive == Spec => []IInv
<1>1. Init => IInv
  BY TypeInit, CoreInit DEF IInv
<1>2. IInv /\ [Next]_vars => IInv'
  BY TypeNext, CoreNext DEF IInv
<1>3. QED
  BY <1>1, <1>2, PTL DEF Spec

LEMMA CorePlacement == TypeOK /\ Core => Placement
<1> SUFFICES ASSUME TypeOK, Core PROVE Placement
  OBVIOUS
<1>1. Table(sched, Failed, {Idle, current}) /\ current \in Task /\ Idle \in Task
  BY IdleIsTask DEF Core, TypeOK, SchedType, current
<1>2. NodesDistinct(sched.queue)
  BY <1>1 DEF Table
<1>3. StateSaysQueue
  BY <1>1 DEF Table, StatesAgree, StateSaysQueue, In, Failed, FailedFork
<1>4. NoneLost
  <2>1. \A t \in Task \ {Idle, current} : Linked(sched, t)
    BY <1>1 DEF Table
  <2>2. ~Linked(sched, Idle)
    BY <1>1, IdleInNoQueue DEF Linked, In
  <2>3. ~exiting => ~Linked(sched, current) /\ sched.current_state[current] = "ST_RUN"
    BY <2>2 DEF Core, CurrentFits
  <2>4. QED BY <2>1, <2>2, <2>3 DEF NoneLost
<1>5. QED BY <1>2, <1>3, <1>4 DEF Placement

LEMMA CoreUniquePids == TypeOK /\ Core => UniquePids
<1> SUFFICES ASSUME TypeOK, Core PROVE UniquePids
  OBVIOUS
<1>1. PidsUnique(sched)
  BY DEF Core, Table
<1>2. QED BY <1>1 DEF PidsUnique, UniquePids, Live, Free, FreeQueue, IsFree, In

\* As long as the kernel runs, every PCB is in one place, of the queue that
\* its state says, and none is lost: whatever system calls the tasks make in
\* whatever order, for any number of PCBs (Process.Placement).
THEOREM PlacementHolds == Spec => []Placement
<1>1. IInv => Placement
  BY CorePlacement DEF IInv, Placement
<1>2. QED BY <1>1, Inductive, PTL

\* Two tasks in use never have the same PID, which is what sched_next_rr,
\* unblock and wait_thread tell them apart by (Process.UniquePids).
THEOREM UniquePidsHold == Spec => []UniquePids
<1>1. IInv => UniquePids
  BY CoreUniquePids DEF IInv, UniquePids
<1>2. QED BY <1>1, Inductive, PTL

----------------------------------------------------------------------------
(* Who wakes a sleeper.  sched_next_rr changes the states of two tasks, of *)
(* which neither sleeps: the running one and the first of the ready queue. *)

\* A task enters the ready queue only as the one that is moved.
LEMMA UpdateReady ==
  ASSUME NEW s \in SchedType, NodesDistinct(s.queue), NEW t \in Task,
         NEW dest \in QueueNames, NEW x \in Task, x # t,
         In(Update(s, t, dest), "readyqueue", x)
  PROVE  In(s, "readyqueue", x)
<1> DEFINE others == IF LeavesQueue(s, t) THEN Unlinked(s.queue, t) ELSE s.queue
           into == IF s.PID[t] < 0 THEN "freequeue" ELSE dest
<1>1. /\ s.queue \in Queues /\ others \in Queues /\ into \in QueueNames
      /\ "readyqueue" \in QueueNames
  BY SchedTypeQueues, UnlinkedType DEF QueueNames
<1>2. Contains(others["readyqueue"], x) => In(s, "readyqueue", x)
  <2>1. CASE LeavesQueue(s, t)
    BY <1>1, <2>1, UnlinkedProperties DEF In
  <2>2. CASE ~LeavesQueue(s, t)
    BY <2>2 DEF In
  <2>3. QED BY <2>1, <2>2
<1>3. Update(s, t, dest).queue = IF s.PID[t] = 0 THEN s.queue ELSE Appended(others, into, t)
  BY UpdateType
<1> HIDE DEF others, into
<1>4. QED BY <1>1, <1>2, <1>3, AppendedProperties DEF In

NobodyWakesIdle ==
  /\ sched.current_state[Idle] # "ST_BLOCKED"
  /\ exiting => sched.current_state[current] # "ST_BLOCKED"

LEMMA NextSleeps ==
  ASSUME TypeOK, Core, NobodyWakesIdle, NEW s, SameTable(s, sched),
         NEW x \in Task, sched.current_state[x] = "ST_BLOCKED"
  PROVE  SchedNext(s).current_state[x] = "ST_BLOCKED"
<1>1. SUFFICES ASSUME x = NextTask(s) PROVE FALSE
  BY SchedNextStates DEF SameTable
<1>2. s.queue \in Queues /\ "readyqueue" \in QueueNames
  BY SchedTypeQueues DEF SameTable, QueueNames
<1>3. In(sched, "readyqueue", x)
  BY <1>1, <1>2, TailProperties DEF NextTask, NobodyWakesIdle, In, SameTable
<1>4. sched.current_state[x] = "ST_READY"
  BY <1>2, <1>3 DEF Core, Table, StatesAgree, StateOf
<1>5. QED BY <1>4

\* A call that moves one task wakes no other.
LEMMA MoveSleeps ==
  ASSUME TypeOK, Core, NobodyWakesIdle, NEW s, SameTable(s, sched),
         NEW t \in Task, NEW dest \in QueueNames,
         NEW x \in Task, x # t, sched.current_state[x] = "ST_BLOCKED"
  PROVE  SchedNext(Update(s, t, dest)).current_state[x] = "ST_BLOCKED"
<1> DEFINE z == Update(s, t, dest)
<1>1. /\ z \in SchedType /\ z.current_state[x] = "ST_BLOCKED"
      /\ "readyqueue" \in QueueNames
  <2>1. s \in SchedType /\ s.current_state[x] = "ST_BLOCKED"
    BY DEF SameTable
  <2>2. z \in SchedType
    BY <2>1, UpdateType
  <2>3. z.current_state[x] = "ST_BLOCKED"
    BY <2>1, UpdateStates
  <2>4. QED BY <2>2, <2>3 DEF QueueNames
<1>2. NodesDistinct(s.queue) /\ s \in SchedType
  BY DEF SameTable, Core, Table
<1>3. \A y \in Task : y # t /\ In(z, "readyqueue", y) => In(s, "readyqueue", y)
  BY <1>2, UpdateReady
<1> HIDE DEF z
<1>4. SUFFICES ASSUME x = NextTask(z) PROVE FALSE
  BY <1>1, SchedNextStates DEF z
<1>5. z.queue \in Queues
  BY <1>1, SchedTypeQueues
<1>6. In(z, "readyqueue", x)
  BY <1>1, <1>4, <1>5, TailProperties DEF NextTask, NobodyWakesIdle, In
<1>7. In(sched, "readyqueue", x)
  BY <1>3, <1>6 DEF In, SameTable
<1>8. sched.current_state[x] = "ST_READY"
  BY <1>1, <1>7 DEF Core, Table, StatesAgree, StateOf
<1>9. QED BY <1>8

\* Only an update to `blocked' puts a task to sleep.
LEMMA SchedNextNoSleep ==
  ASSUME NEW s \in SchedType, NEW x \in Task, s.current_state[x] # "ST_BLOCKED"
  PROVE  SchedNext(s).current_state[x] # "ST_BLOCKED"
<1> DEFINE nt == NextTask(s)
           p  == IF s.current_state[s.current] = "ST_RUN"
                 THEN Update(s, s.current, "readyqueue") ELSE s
           d  == Dispatch(p, nt)
<1>1. nt \in Task /\ s.current \in Task /\ "readyqueue" \in QueueNames
  BY SchedNextType DEF SchedType, QueueNames
<1>2. p \in SchedType /\ p.current_state[x] # "ST_BLOCKED"
  <2>1. Update(s, s.current, "readyqueue") \in SchedType
    BY <1>1, UpdateType
  <2>2. \/ Update(s, s.current, "readyqueue").current_state[x] = s.current_state[x]
        \/ Update(s, s.current, "readyqueue").current_state[x]
             = StateOf[IF s.PID[x] < 0 THEN "freequeue" ELSE "readyqueue"]
    BY <1>1, UpdateStates
  <2>3. Update(s, s.current, "readyqueue").current_state[x] # "ST_BLOCKED"
    BY <2>2 DEF StateOf
  <2>4. QED BY <2>1, <2>3
<1> HIDE DEF p, nt
<1>3. d \in SchedType /\ d.current_state = [p.current_state EXCEPT ![nt] = "ST_RUN"]
  BY <1>1, <1>2, DispatchType
<1>4. SchedNext(s).current_state = d.current_state
  BY <1>3 DEF SchedNext, SchedType, p, nt
<1>5. QED BY <1>1, <1>2, <1>3, <1>4 DEF SchedType

LEMMA MoveNoSleep ==
  ASSUME NEW s \in SchedType, NEW t \in Task, NEW dest \in QueueNames,
         NEW x \in Task, s.current_state[x] # "ST_BLOCKED", x # t \/ dest # "blocked"
  PROVE  /\ Update(s, t, dest) \in SchedType
         /\ Update(s, t, dest).current_state[x] # "ST_BLOCKED"
         /\ SchedNext(Update(s, t, dest)).current_state[x] # "ST_BLOCKED"
<1>1. Update(s, t, dest) \in SchedType
  BY UpdateType
<1>2. Update(s, t, dest).current_state[x] # "ST_BLOCKED"
  <2>1. CASE x # t
    BY <2>1, UpdateStates
  <2>2. CASE x = t
    <3>1. Update(s, t, dest).current_state[x]
            = StateOf[IF s.PID[t] < 0 THEN "freequeue" ELSE dest]
      BY <2>2, UpdateStates
    <3>2. QED BY <2>2, <3>1 DEF StateOf, QueueNames
  <2>3. QED BY <2>1, <2>2
<1>3. QED BY <1>1, <1>2, SchedNextNoSleep

\* What a task that is taken from the freequeue, or put back, was doing.
LEMMA FreeSleepsNot ==
  ASSUME TypeOK, Core, FreeQueue # <<>>
  PROVE  /\ Head(FreeQueue) \in Task /\ Head(FreeQueue) # Idle
         /\ sched.current_state[Head(FreeQueue)] # "ST_BLOCKED"
<1>1. sched.queue \in Queues /\ "freequeue" \in QueueNames
  BY SchedTypeQueues DEF TypeOK, QueueNames
<1>2. Head(FreeQueue) \in Task /\ In(sched, "freequeue", Head(FreeQueue))
  BY <1>1, TailProperties DEF FreeQueue, In
<1>3. QED
  BY <1>1, <1>2, IdleInNoQueue DEF Core, Table, StatesAgree, StateOf

\* A fork leaves the states of the others alone.
LEMMA SpawnStates ==
  ASSUME TypeOK, FreeQueue # <<>>, NEW c \in Task, Spawn(c)
  PROVE  /\ \A x \in Task : x # c => sched'.current_state[x] = sched.current_state[x]
         /\ sched'.current_state[c] # "ST_BLOCKED"
<1> DEFINE q == [sched.queue EXCEPT !["freequeue"] = Tail(@)]
           p == [sched.PID EXCEPT ![c] = pidGlobal]
           k == [sched.current_state EXCEPT ![c] = sched.current_state[current]]
           ok == sched.sound /\ ~AnchorLinked(c)
           z == [sched EXCEPT !.queue = q, !.PID = p, !.current_state = k, !.sound = ok]
<1>1. /\ sched \in SchedType /\ pidGlobal \in Int /\ current \in Task
      /\ "readyqueue" \in QueueNames
  BY PidAssumption, BoundAssumption DEF TypeOK, SchedType, current, QueueNames
<1>2. Tail(sched.queue["freequeue"]) \in Seq(Task)
  BY <1>1, HeadTailProperties DEF FreeQueue, SchedType, QueueNames
<1>3. q \in [QueueNames -> Seq(Task)] /\ p \in [Task -> Int] /\ k \in [Task -> States]
  BY <1>1, <1>2 DEF SchedType
<1>4. ok \in BOOLEAN
  BY <1>1 DEF SchedType, AnchorLinked
<1>5. sched' = Update(z, c, "readyqueue")
  BY <1>1 DEF Spawn, PcbTaken, PcbFilled, SchedType
<1> HIDE DEF q, p, ok
<1>6. z \in SchedType /\ z.current_state = k
  BY <1>1, <1>3, <1>4 DEF SchedType
<1> HIDE DEF z
<1>7. \A x \in Task : x # c => z.current_state[x] = sched.current_state[x]
  BY <1>1, <1>6 DEF SchedType
<1> HIDE DEF k
<1>8. \A x \in Task : x # c =>
        Update(z, c, "readyqueue").current_state[x] = z.current_state[x]
  <2>1. z \in SchedType /\ c \in Task /\ "readyqueue" \in QueueNames
    BY <1>1, <1>6
  <2>2. QED BY <2>1, UpdateStates
<1>9. Update(z, c, "readyqueue").current_state[c] # "ST_BLOCKED"
  <2>1. z \in SchedType /\ c \in Task /\ "readyqueue" \in QueueNames
    BY <1>1, <1>6
  <2>2. QED BY <2>1, UpdateStates DEF StateOf
<1>10. QED BY <1>5, <1>7, <1>8, <1>9

SleepInv == IInv /\ NobodyWakesIdle

WakeAllowed(x) == x \in fills[current] \/ (exiting /\ Contains(waitList[current], x))

\* No task but those allowed is woken, and neither the idle task nor one that
\* exits goes to sleep.
WakeStep ==
  /\ \A x \in Task :
       /\ sched.current_state[x] = "ST_BLOCKED"
       /\ sched'.current_state[x] # "ST_BLOCKED"
       => WakeAllowed(x)
  /\ NobodyWakesIdle'

LEMMA SameStates ==
  ASSUME NobodyWakesIdle, UNCHANGED sched \/ UNCHANGED sched.current_state, UNCHANGED sched.current,
         exiting' => exiting
  PROVE  WakeStep
BY DEF WakeStep, NobodyWakesIdle, current

\* block and wait_thread: the running task sleeps.
LEMMA SleepWakes ==
  ASSUME TypeOK, Core, NobodyWakesIdle, ~exiting, ~exiting', current # Idle,
         NEW s, SameTable(s, sched), sched' = SchedNext(Update(s, current, "blocked"))
  PROVE  WakeStep
<1>1. /\ current \in Task /\ Idle \in Task /\ "blocked" \in QueueNames
      /\ sched.current_state[current] = "ST_RUN"
  BY SyscallFacts, IdleIsTask DEF QueueNames
<1>2. \A x \in Task : sched.current_state[x] = "ST_BLOCKED" =>
        sched'.current_state[x] = "ST_BLOCKED"
  BY <1>1, MoveSleeps
<1>3. sched'.current_state[Idle] # "ST_BLOCKED"
  BY <1>1, MoveNoSleep DEF SameTable, NobodyWakesIdle
<1>4. QED BY <1>2, <1>3 DEF WakeStep, NobodyWakesIdle

\* A call that gives the CPU away.
LEMMA YieldWakes ==
  ASSUME TypeOK, Core, NobodyWakesIdle, ~exiting',
         NEW s, SameTable(s, sched), sched' = SchedNext(s)
  PROVE  WakeStep
<1>1. \A x \in Task : sched.current_state[x] = "ST_BLOCKED" =>
        sched'.current_state[x] = "ST_BLOCKED"
  BY NextSleeps
<1>2. sched'.current_state[Idle] # "ST_BLOCKED"
  BY IdleIsTask, SchedNextNoSleep DEF SameTable, NobodyWakesIdle
<1>3. QED BY <1>1, <1>2 DEF WakeStep, NobodyWakesIdle

LEMMA ItIsTheTable == TypeOK => SameTable(sched, sched)
BY DEF TypeOK, SameTable

LEMMA WakeNext ==
  ASSUME SleepInv, [Next]_vars
  PROVE  WakeStep
<1>1. /\ TypeOK /\ (Running => Core) /\ NobodyWakesIdle /\ SameTable(sched, sched)
      /\ sched \in SchedType /\ current \in Task /\ sched.current = current
  BY ItIsTheTable DEF SleepInv, IInv, TypeOK, SchedType, current
<1>2. CASE UNCHANGED vars \/ Halted
  BY <1>1, <1>2, SameStates DEF vars, Halted
<1>3. CASE Fork \/ CreateThread
  <2> DEFINE c == Head(FreeQueue)
  <2>1. /\ Core /\ ~exiting /\ UNCHANGED exiting /\ FreeQueue # <<>> /\ Spawn(c)
        /\ sched.current_state[current] = "ST_RUN"
    BY <1>1, <1>3 DEF Fork, CreateThread, Spawn, InSyscall, InUserMode, Core, CurrentFits
  <2>2. c \in Task /\ c # Idle /\ sched.current_state[c] # "ST_BLOCKED" /\ Idle \in Task
    BY <1>1, <2>1, FreeSleepsNot, IdleIsTask
  <2>3. \A x \in Task : x # c => sched'.current_state[x] = sched.current_state[x]
    BY <1>1, <2>1, <2>2, SpawnStates
  <2>4. QED BY <1>1, <2>1, <2>2, <2>3 DEF WakeStep, NobodyWakesIdle
<1>4. CASE ForkNoFrames
  <2> DEFINE c == Head(FreeQueue)
             ok == sched.sound /\ ~AnchorLinked(c)
             free == Append(Tail(sched.queue["freequeue"]), c)
             back == WithPcb(sched, free, c, sched.PID[current],
                             sched.current_state[current], ok)
  <2>1. Core /\ ~exiting /\ UNCHANGED exiting /\ FreeQueue # <<>> /\ sched' = back
    BY <1>1, <1>4 DEF ForkNoFrames, WithPcb, InSyscall, InUserMode
  <2>2. c \in Task /\ c # Idle /\ sched.current_state[c] # "ST_BLOCKED"
    BY <1>1, <2>1, FreeSleepsNot
  <2>3. /\ free \in Seq(Task) /\ ok \in BOOLEAN /\ sched.PID[current] \in Int
        /\ sched.current_state[current] \in States
    BY <1>1, <2>1, <2>2, HeadTailProperties
       DEF FreeQueue, SchedType, QueueNames, AnchorLinked, TypeOK
  <2> HIDE DEF c, free, ok
  <2>4. back.current_state = [sched.current_state EXCEPT ![c] = sched.current_state[current]]
    <3>1. sched \in SchedType /\ free \in Seq(Task) /\ c \in Task
          /\ sched.PID[current] \in Int /\ ok \in BOOLEAN
      BY <1>1, <2>2, <2>3
    <3>2. QED BY <3>1 DEF WithPcb, SchedType
  <2>5. QED
    BY <1>1, <2>1, <2>2, <2>4, IdleIsTask DEF WakeStep, NobodyWakesIdle, SchedType
<1>5. CASE Block
  <2>1. Core /\ ~exiting /\ ~exiting' /\ current # Idle
    BY <1>1, <1>5 DEF Block, InSyscall, InUserMode
  <2>2. CASE sched' = SchedNext(Update(sched, current, "blocked"))
    BY <1>1, <2>1, <2>2, SleepWakes
  <2>3. CASE UNCHANGED sched
    BY <1>1, <2>1, <2>3, SameStates
  <2>4. QED BY <1>5, <2>2, <2>3 DEF Block
<1>6. ASSUME NEW pid \in Pids, Unblock(pid) PROVE WakeStep
  <2>1. Core /\ ~exiting /\ ~exiting' /\ fills[current] \subseteq Task
    BY <1>1, <1>6 DEF Unblock, InSyscall, InUserMode, TypeOK
  <2>2. PICK fill \in fills[current] :
          sched' = SchedNext(Update(sched, fill, "readyqueue")) \/ sched' = SchedNext(sched)
    BY <1>6 DEF Unblock
  <2>3. CASE sched' = SchedNext(sched)
    BY <1>1, <2>1, <2>3, YieldWakes
  <2>4. CASE sched' = SchedNext(Update(sched, fill, "readyqueue"))
    <3>1. fill \in Task /\ "readyqueue" \in QueueNames /\ Idle \in Task
      BY <2>1, <2>2, IdleIsTask DEF QueueNames
    <3>2. \A x \in Task : x # fill /\ sched.current_state[x] = "ST_BLOCKED" =>
            sched'.current_state[x] = "ST_BLOCKED"
      BY <1>1, <2>1, <2>4, <3>1, MoveSleeps
    <3>3. sched'.current_state[Idle] # "ST_BLOCKED"
      BY <1>1, <2>4, <3>1, MoveNoSleep DEF NobodyWakesIdle
    <3>4. QED BY <2>1, <2>2, <3>2, <3>3 DEF WakeStep, WakeAllowed, NobodyWakesIdle
  <2>5. QED BY <2>2, <2>3, <2>4
<1>7. CASE UnblockNobody
  <2>1. Core /\ ~exiting' /\ sched' = SchedNext(sched)
    BY <1>1, <1>7 DEF UnblockNobody, InSyscall, InUserMode
  <2>2. QED BY <1>1, <2>1, YieldWakes
<1>8. ASSUME NEW pid \in Pids, WaitThread(pid) PROVE WakeStep
  <2> DEFINE ok == sched.sound /\ ~AnchorLinked(current) /\ heads[FirstWith(pid)] # "copied"
             s == [sched EXCEPT !.sound = ok]
  <2>1. Core /\ ~exiting /\ ~exiting' /\ current # Idle
    BY <1>1, <1>8 DEF WaitThread, InSyscall, InUserMode
  <2>2. ok \in BOOLEAN
    BY <1>1 DEF SchedType, AnchorLinked
  <2>3. UNCHANGED sched \/ sched' = SchedNext(Update(s, current, "blocked"))
    BY <1>8 DEF WaitThread
  <2> HIDE DEF ok
  <2>4. SameTable(s, sched)
    BY <1>1, <2>2 DEF SameTable, SchedType
  <2> HIDE DEF s
  <2>5. CASE UNCHANGED sched
    BY <1>1, <2>1, <2>5, SameStates
  <2>6. CASE sched' = SchedNext(Update(s, current, "blocked"))
    BY <1>1, <2>1, <2>4, <2>6, SleepWakes
  <2>7. QED BY <2>3, <2>5, <2>6
<1>9. CASE Exit
  <2>1. Core /\ ~exiting /\ sched.current_state[current] = "ST_RUN"
    BY <1>1, <1>9 DEF Exit, InSyscall, InUserMode, Core, CurrentFits
  <2>2. /\ sched'.current_state = sched.current_state /\ sched'.current = sched.current
    BY <1>1, <1>9 DEF Exit, SchedType
  <2>3. QED BY <1>1, <2>1, <2>2 DEF WakeStep, NobodyWakesIdle, current
<1>10. CASE ExitWake
  <2> DEFINE w == Head(waitList[current])
  <2>1. /\ exiting /\ waitList[current] \in Seq(Task) /\ waitList[current] # <<>>
        /\ sched' = Update(sched, w, "readyqueue") /\ "readyqueue" \in QueueNames
    BY <1>1, <1>10 DEF ExitWake, TypeOK, QueueNames
  <2>2. w \in Task /\ Contains(waitList[current], w)
    BY <2>1, HeadTailProperties DEF Contains
  <2> HIDE DEF w
  <2>3. \A x \in Task : x # w => sched'.current_state[x] = sched.current_state[x]
    BY <1>1, <2>1, <2>2, UpdateStates
  <2>4. \A x \in Task : sched.current_state[x] # "ST_BLOCKED" =>
          sched'.current_state[x] # "ST_BLOCKED"
    BY <1>1, <2>1, <2>2, MoveNoSleep
  <2>5. sched'.current = current
    BY <1>1, <2>1, <2>2, UpdateKeeps
  <2>6. current' = current
    BY <2>5 DEF current
  <2>7. QED BY <1>1, <2>1, <2>2, <2>3, <2>4, <2>6, IdleIsTask
              DEF WakeStep, WakeAllowed, NobodyWakesIdle
<1>11. CASE ExitDone
  <2>1. /\ Core /\ exiting /\ ~exiting' /\ "freequeue" \in QueueNames /\ Idle \in Task
        /\ sched' = SchedNext(Update(sched, current, "freequeue"))
    BY <1>1, <1>11, IdleIsTask DEF ExitDone, QueueNames
  <2>2. sched.current_state[current] # "ST_BLOCKED"
    BY <1>1, <2>1 DEF NobodyWakesIdle
  <2>3. \A x \in Task : sched.current_state[x] = "ST_BLOCKED" =>
          sched'.current_state[x] = "ST_BLOCKED"
    BY <1>1, <2>1, <2>2, MoveSleeps
  <2>4. sched'.current_state[Idle] # "ST_BLOCKED"
    BY <1>1, <2>1, MoveNoSleep DEF NobodyWakesIdle
  <2>5. QED BY <2>1, <2>3, <2>4 DEF WakeStep, NobodyWakesIdle
<1>12. CASE ClockInterrupt
  <2> DEFINE left == IF sched.tick_counter > 0 THEN sched.tick_counter - 1 ELSE 0
             ticked == [sched EXCEPT !.tick_counter = left]
  <2>1. Core /\ ~exiting /\ ~exiting'
    BY <1>1, <1>12 DEF ClockInterrupt, InUserMode
  <2>2. left \in 0 .. DEFAULT_QUANTUM_TICKS
    BY <1>1, QuantumAssumption DEF SchedType
  <2>3. sched' = SchedNext(ticked) \/ sched' = ticked
    BY <1>12 DEF ClockInterrupt, Clock
  <2> HIDE DEF left
  <2>4. SameTable(ticked, sched)
    BY <1>1, <2>2 DEF SameTable, SchedType
  <2> HIDE DEF ticked
  <2>5. CASE sched' = SchedNext(ticked)
    BY <1>1, <2>1, <2>4, <2>5, YieldWakes
  <2>6. CASE sched' = ticked
    BY <1>1, <2>1, <2>4, <2>6, SameStates DEF SameTable
  <2>7. QED BY <2>3, <2>5, <2>6
<1>13. CASE CreateThreadPageFault \/ ForkPageFault
  <2> DEFINE c == Head(FreeQueue)
  <2>1. /\ Core /\ ~exiting /\ ~exiting' /\ FreeQueue # <<>>
        /\ c \in Task /\ sched.current_state \in [Task -> States]
        /\ sched'.current_state = [sched.current_state EXCEPT ![c] = sched.current_state[current]]
    BY <1>1, <1>13, PageFaultStep, PageFaultSched DEF InSyscall, InUserMode, SchedType
  <2>2. c # Idle /\ sched.current_state[c] # "ST_BLOCKED" /\ Idle \in Task
    BY <1>1, <2>1, FreeSleepsNot, IdleIsTask
  <2> HIDE DEF c
  <2>3. QED BY <1>1, <2>1, <2>2 DEF WakeStep, NobodyWakesIdle
<1>14. QED
  BY <1>2, <1>3, <1>4, <1>5, <1>6, <1>7, <1>8, <1>9, <1>10, <1>11, <1>12, <1>13 DEF Next

LEMMA SleepInvInit == Init => SleepInv
BY TypeInit, CoreInit, IdleIsTask DEF SleepInv, IInv, Init, SchedInit, NobodyWakesIdle

LEMMA SleepInvNext == SleepInv /\ [Next]_vars => SleepInv'
BY WakeNext, TypeNext, CoreNext DEF SleepInv, IInv, WakeStep

\* A sleeper is woken by an unblock of its parent or by the exit of the task it
\* waits for, and by nothing else the kernel does (Process.WakeCause).
THEOREM WakeCauseHolds == Spec => WakeCause
<1>1. Init => SleepInv
  BY SleepInvInit
<1>2. SleepInv /\ [Next]_vars => SleepInv'
  BY SleepInvNext
<1>3. SleepInv /\ [Next]_vars =>
        [\A t \in Task :
           sched.current_state[t] = "ST_BLOCKED" /\ sched'.current_state[t] # "ST_BLOCKED" =>
             t \in fills[current] \/ (exiting /\ Contains(waitList[current], t))]_vars
  BY WakeNext DEF WakeStep, WakeAllowed
<1>4. QED BY <1>1, <1>2, <1>3, PTL DEF Spec, WakeCause

----------------------------------------------------------------------------
(* OneParent, as three facts about who is a child of whom, and with task1, *)
(* which has no creator and never leaves: its exit stops the machine.      *)

Family ==
  /\ \A t, p \in Task : t \in fills[p] =>
       Live(t) /\ t # task1 /\ (p = Idle \/ Live(p))
  /\ \A t, p, q \in Task : t \in fills[p] /\ t \in fills[q] => p = q
  /\ \A t \in Task : Live(t) /\ t # task1 => \E p \in Task : t \in fills[p]
  /\ ~IsFree(sched, task1)
  /\ exiting => current # task1

LEMMA LiveIs == \A t \in Task : Live(t) <=> t # Idle /\ ~IsFree(sched, t)
                                            /\ (t = current => ~exiting)
BY DEF Live, Free, FreeQueue, IsFree, In

LEMMA LiveIsNext ==
  \A t \in Task : Live(t)' <=> t # Idle /\ ~IsFree(sched', t)
                               /\ (t = current' => ~exiting')
BY DEF Live, Free, FreeQueue, IsFree, In

LEMMA InitFree ==
  ASSUME Init, NEW t \in Task, t \notin {Idle, task1}
  PROVE  IsFree(sched, t)
<1>1. Table(sched, Failed, {Idle, current}) /\ current = task1
  BY CoreInit DEF Core, Init, SchedInit, current
<1>2. PICK n \in QueueNames : In(sched, n, t)
  BY <1>1 DEF Table, Linked, In
<1>3. n = "freequeue"
  <2>1. n # "freequeue" => sched.queue[n] = <<>> /\ Len(<<>>) = 0
    BY DEF Init, SchedInit
  <2>2. QED BY <1>2, <2>1 DEF In, Contains
<1>4. QED BY <1>2, <1>3 DEF IsFree

LEMMA FamilyInit == Init => Family
<1> SUFFICES ASSUME Init PROVE Family
  OBVIOUS
<1>1. /\ fills = [t \in Task |-> {}] /\ exiting = FALSE /\ current = task1
      /\ sched.current_state[task1] = "ST_RUN" /\ task1 \in Task
  BY IdleIsTask DEF Init, SchedInit, current
<1>2. \A t \in Task : t \notin {Idle, task1} => IsFree(sched, t)
  BY InitFree
<1>3. ~IsFree(sched, task1)
  <2>1. ~Linked(sched, task1)
    BY <1>1, CoreInit, IdleIsTask DEF Core, CurrentFits
  <2>2. QED BY <2>1 DEF IsFree, In, Linked, QueueNames
<1>4. \A t \in Task : ~(Live(t) /\ t # task1)
  BY <1>2, LiveIs
<1>5. QED BY <1>1, <1>3, <1>4 DEF Family

\* A step that changes neither the freequeue nor the children.
LEMMA SameFamily ==
  ASSUME Family, UNCHANGED fills, SameFree, ~exiting, ~exiting'
  PROVE  Family'
<1>1. \A t \in Task : Live(t)' <=> Live(t)
  BY LiveIs, LiveIsNext DEF SameFree
<1>2. QED BY <1>1, IdleIsTask DEF Family, SameFree

LEMMA SpawnFamily ==
  ASSUME TypeOK, Core, Family, InSyscall, FreeQueue # <<>>, Spawn(Head(FreeQueue))
  PROVE  Family'
<1> DEFINE c == Head(FreeQueue)
<1>1. /\ c \in Task /\ IsFree(sched, c)
      /\ \A t \in Task : IsFree(sched', t) <=> IsFree(sched, t) /\ t # c
  BY SpawnCore
<1>2. /\ fills' = [fills EXCEPT ![current] = @ \cup {c}, ![c] = {}]
      /\ UNCHANGED exiting /\ ~exiting /\ current # Idle
  BY DEF Spawn, PcbTaken, PcbFilled, InSyscall, InUserMode
<1> HIDE DEF c
<1>3. /\ current \in Task /\ c # Idle /\ c # current /\ fills \in [Task -> SUBSET Task]
      /\ ~IsFree(sched, current)
  <2>1. current \in Task /\ ~Linked(sched, current) /\ fills \in [Task -> SUBSET Task]
    BY <1>2, SyscallFacts DEF TypeOK
  <2>2. c # Idle
    BY <1>1, IdleInNoQueue DEF Core, IsFree, QueueNames
  <2>3. ~IsFree(sched, current)
    BY <2>1 DEF IsFree, In, Linked, QueueNames
  <2>4. QED BY <1>1, <2>1, <2>2, <2>3
<1>4. Live(current) /\ ~Live(c)
  BY <1>1, <1>2, <1>3, LiveIs
<1>5. \A t \in Task : Live(t)' <=> Live(t) \/ t = c
  BY <1>1, <1>2, <1>3, LiveIs, LiveIsNext
<1>6. \A p \in Task : fills'[p] = IF p = c THEN {}
                                  ELSE IF p = current THEN fills[p] \cup {c} ELSE fills[p]
  BY <1>1, <1>2, <1>3
<1>7. \A p \in Task : c \notin fills[p]
  BY <1>1, <1>4 DEF Family
<1>8. fills[c] = {}
  BY <1>1, <1>3, <1>4 DEF Family
<1>9. \A t, p \in Task : t \in fills'[p] <=> t \in fills[p] \/ (t = c /\ p = current)
  BY <1>1, <1>3, <1>6, <1>8
<1>10. c # task1
  BY <1>1 DEF Family
<1>11. /\ \A t, p \in Task : t \in fills'[p] =>
            Live(t)' /\ t # task1 /\ (p = Idle \/ Live(p)')
       /\ \A t, p, q \in Task : t \in fills'[p] /\ t \in fills'[q] => p = q
       /\ \A t \in Task : Live(t)' /\ t # task1 => \E p \in Task : t \in fills'[p]
  BY <1>1, <1>3, <1>4, <1>5, <1>7, <1>9, <1>10 DEF Family
<1>12. QED BY <1>1, <1>2, <1>11, IdleIsTask DEF Family

\* exit: the task is nobody's, its children are the idle task's.
LEMMA ExitFamily ==
  ASSUME TypeOK, Core, Family, Exit, current # task1
  PROVE  Family'
<1>1. /\ ~exiting /\ exiting' /\ current # Idle /\ current \in Task /\ Idle \in Task
      /\ fills \in [Task -> SUBSET Task]
  BY IdleIsTask DEF Exit, InSyscall, InUserMode, TypeOK, SchedType, current
<1>2. fills' = [p \in Task |-> CASE p = current -> {}
                                [] p = Idle    -> (fills[Idle] \cup fills[current]) \ {current}
                                [] OTHER       -> fills[p] \ {current}]
  BY DEF Exit
<1>3. SameFree
  BY ExitCore
<1>4. current' = current
  BY DEF Exit, TypeOK, SchedType, current
<1>5. \A t \in Task : Live(t)' <=> Live(t) /\ t # current
  BY <1>1, <1>3, <1>4, LiveIs, LiveIsNext DEF SameFree
<1>6. \A t, p \in Task : t \in fills'[p] <=>
        /\ t # current /\ p # current
        /\ t \in fills[p] \/ (p = Idle /\ t \in fills[current])
  BY <1>1, <1>2
<1>7. /\ \A t, p \in Task : t \in fills'[p] =>
            Live(t)' /\ t # task1 /\ (p = Idle \/ Live(p)')
      /\ \A t, p, q \in Task : t \in fills'[p] /\ t \in fills'[q] => p = q
      /\ \A t \in Task : Live(t)' /\ t # task1 => \E p \in Task : t \in fills'[p]
  BY <1>1, <1>5, <1>6 DEF Family
<1>8. ~IsFree(sched', task1)
  BY <1>3, IdleIsTask DEF SameFree, Family
<1>9. QED BY <1>4, <1>7, <1>8 DEF Family

\* The loop of sys_exit and its end: the PCB that enters the freequeue is that
\* of the task that exits, which is nobody's already.
LEMMA ExitEndFamily ==
  ASSUME TypeOK, Core, Family, ExitWake \/ ExitDone, sched'.sound
  PROVE  Family'
<1>1. exiting /\ UNCHANGED fills /\ sched \in SchedType /\ current \in Task
  BY DEF ExitWake, ExitDone, lists, TypeOK, SchedType, current
<1>2. \A t \in Task : Live(t)' <=> Live(t)
  <2>1. CASE ExitWake
    <3>1. Head(waitList[current]) \in Task /\ "readyqueue" \in QueueNames
      BY <1>1, <2>1, HeadTailProperties DEF ExitWake, TypeOK, QueueNames
    <3>2. sched'.current = sched.current /\ UNCHANGED exiting
      BY <1>1, <2>1, <3>1, UpdateKeeps DEF ExitWake
    <3>3. \A t \in Task \ {current} : IsFree(sched', t) <=> IsFree(sched, t)
      BY <2>1, ExitWakeCore
    <3>4. QED BY <1>1, <3>2, <3>3, LiveIs, LiveIsNext DEF current
  <2>2. CASE ExitDone
    <3>1. /\ ~exiting'
          /\ \A t \in Task : IsFree(sched', t) <=> IsFree(sched, t) \/ t = current
      BY <2>2, ExitDoneCore, ExitDoneNeeds DEF ExitDone
    <3>2. QED BY <1>1, <3>1, LiveIs, LiveIsNext
  <2>3. QED BY <2>1, <2>2
<1>3. ~IsFree(sched', task1) /\ (exiting' => current' # task1)
  <2>1. task1 \in Task /\ current # task1 /\ ~IsFree(sched, task1) /\ task1 # Idle
    BY <1>1, IdleIsTask DEF Family
  <2>2. Live(task1)
    BY <2>1, LiveIs
  <2>3. Live(task1)'
    BY <1>2, <2>1, <2>2
  <2>4. QED BY <2>1, <2>3, LiveIsNext
<1>4. QED BY <1>1, <1>2, <1>3 DEF Family

LEMMA FamilyNext ==
  ASSUME TypeOK, Running => Core /\ Family, [Next]_vars, Running'
  PROVE  Family'
<1>1. CASE UNCHANGED vars \/ Halted
  BY <1>1, LiveIs, LiveIsNext DEF Halted, vars, Running, Family, current, IsFree, In
<1>2. CASE Fork \/ CreateThread
  BY <1>2, SpawnFamily DEF Fork, CreateThread, InSyscall, InUserMode
<1>3. CASE ForkNoFrames
  BY <1>3, ForkNoFramesCore, SameFamily DEF ForkNoFrames, InSyscall, InUserMode
<1>4. CASE Block \/ (\E pid \in Pids : Unblock(pid)) \/ UnblockNobody
           \/ (\E pid \in Pids : WaitThread(pid)) \/ ClockInterrupt
  <2>1. InUserMode /\ UNCHANGED <<fills, exiting>>
    <3>1. Block => InUserMode /\ UNCHANGED <<fills, exiting>>
      BY DEF Block, InSyscall, lists
    <3>2. \A pid \in Pids : Unblock(pid) => InUserMode /\ UNCHANGED <<fills, exiting>>
      BY DEF Unblock, InSyscall, lists
    <3>3. UnblockNobody => InUserMode /\ UNCHANGED <<fills, exiting>>
      BY DEF UnblockNobody, InSyscall, lists
    <3>4. \A pid \in Pids : WaitThread(pid) => InUserMode /\ UNCHANGED <<fills, exiting>>
      BY DEF WaitThread, InSyscall
    <3>5. ClockInterrupt => InUserMode /\ UNCHANGED <<fills, exiting>>
      BY DEF ClockInterrupt, lists
    <3>6. QED BY <1>4, <3>1, <3>2, <3>3, <3>4, <3>5
  <2>2. Core /\ Family /\ ~exiting /\ ~exiting'
    BY <2>1 DEF InUserMode
  <2>3. SameFree
    BY <1>4, <2>2, SameFreeNext
  <2>4. QED BY <2>1, <2>2, <2>3, SameFamily
<1>5. CASE Exit
  BY <1>5, ExitFamily DEF Exit, InSyscall, InUserMode, Running
<1>6. CASE ExitWake \/ ExitDone
  BY <1>6, ExitEndFamily DEF ExitWake, ExitDone, Running
<1>7. CASE CreateThreadPageFault \/ ForkPageFault
  BY <1>7, PageFaultStep
<1>8. QED BY <1>1, <1>2, <1>3, <1>4, <1>5, <1>6, <1>7 DEF Next

\* Every task but task1 has one parent, which is alive or the idle task: as
\* long as the kernel runs, fork, create_thread and exit leave no orphan, no
\* child of two tasks and no dead child (Process.OneParent).
THEOREM OneParentHolds == Spec => []OneParent
<1> DEFINE FInv == IInv /\ (Running => Family)
<1>1. Init => FInv
  BY TypeInit, CoreInit, FamilyInit DEF IInv
<1>2. FInv /\ [Next]_vars => FInv'
  BY TypeNext, CoreNext, FamilyNext DEF IInv
<1>3. FInv => OneParent
  <2> SUFFICES ASSUME Family, NEW t \in Task
               PROVE  LET parents == {p \in Task : t \in fills[p]}
                      IN IF Live(t) /\ t # task1
                         THEN \E p \in Task : parents = {p} /\ (p = Idle \/ Live(p))
                         ELSE parents = {}
    BY DEF OneParent
  <2>1. CASE Live(t) /\ t # task1
    <3>1. PICK p \in Task : t \in fills[p]
      BY <2>1 DEF Family
    <3>2. {q \in Task : t \in fills[q]} = {p} /\ (p = Idle \/ Live(p))
      BY <3>1 DEF Family
    <3>3. QED BY <2>1, <3>2
  <2>2. CASE ~(Live(t) /\ t # task1)
    BY <2>2 DEF Family
  <2>3. QED BY <2>1, <2>2
<1> HIDE DEF FInv
<1>4. QED BY <1>1, <1>2, <1>3, PTL DEF Spec

----------------------------------------------------------------------------
(* The waiters.  A task is linked in a waitList only while it sleeps, and  *)
(* only in one of a PCB that will be handed to sys_exit: both as long as   *)
(* the programs keep clear of what wait_thread and unblock do not guard.   *)

Sleeps(s, t) == s.current_state[t] = "ST_BLOCKED"

\* The PCB is a task's, which has not finished the loop of its sys_exit.
InUse(u) == ~IsFree(sched, u) \/ (u = current /\ exiting)

WaitersAttended ==
  "wait_on_free" \notin unguarded =>
    \A u \in Task : waitList[u] # <<>> => InUse(u)

WaitersSleep ==
  "unblock_waiter" \notin unguarded =>
    \A u \in Task : \A i \in DOMAIN waitList[u] :
      /\ Sleeps(sched, waitList[u][i])
      /\ \A v \in Task : \A j \in DOMAIN waitList[v] :
           waitList[v][j] = waitList[u][i] => u = v /\ i = j

NoneForgotten ==
  "wait_on_free" \notin unguarded =>
    \A t \in Task : Sleeps(sched, t) /\ ~AnchorLinked(t) => pending_unblocks[t] = 0

Waiters == WaitersAttended /\ WaitersSleep

\* A step keeps the waitLists right, and forgets no unblock if none was.
WaitersStep == Waiters' /\ (NoneForgotten => NoneForgotten')

LEMMA WaitersInit == Init => Waiters /\ NoneForgotten
<1> SUFFICES ASSUME Init PROVE Waiters /\ NoneForgotten
  OBVIOUS
<1>1. /\ waitList = [t \in Task |-> <<>>] /\ pending_unblocks = [t \in Task |-> 0]
      /\ DOMAIN <<>> = {}
  BY DEF Init
<1>2. QED
  BY <1>1 DEF Waiters, WaitersAttended, WaitersSleep, NoneForgotten

LEMMA AnchoredIs ==
  ASSUME TypeOK, NEW t \in Task
  PROVE  AnchorLinked(t) <=> \E u \in Task : \E i \in DOMAIN waitList[u] : waitList[u][i] = t
<1>1. \A u \in Task : waitList[u] \in Seq(Task)
  BY DEF TypeOK
<1>2. \A u \in Task : DOMAIN waitList[u] = 1 .. Len(waitList[u])
  BY <1>1, LenProperties
<1>3. QED BY <1>2 DEF AnchorLinked, Contains

LEMMA AnchoredSleep ==
  ASSUME TypeOK, WaitersSleep, "unblock_waiter" \notin unguarded,
         NEW t \in Task, AnchorLinked(t)
  PROVE  Sleeps(sched, t)
BY AnchoredIs DEF WaitersSleep

\* A call that moves one task, or none, puts no other to sleep and wakes none.
LEMMA MoveSame ==
  ASSUME TypeOK, Core, NobodyWakesIdle, NEW s, SameTable(s, sched),
         NEW t \in Task, NEW dest \in QueueNames,
         sched' = SchedNext(Update(s, t, dest))
  PROVE  \A x \in Task : x # t => (Sleeps(sched', x) <=> Sleeps(sched, x))
<1>1. \A x \in Task : x # t /\ Sleeps(sched, x) => Sleeps(sched', x)
  BY MoveSleeps DEF Sleeps
<1>2. \A x \in Task : x # t /\ ~Sleeps(sched, x) => ~Sleeps(sched', x)
  BY MoveNoSleep DEF Sleeps, SameTable
<1>3. QED BY <1>1, <1>2

LEMMA NextSame ==
  ASSUME TypeOK, Core, NobodyWakesIdle, NEW s, SameTable(s, sched),
         sched' = SchedNext(s)
  PROVE  \A x \in Task : Sleeps(sched', x) <=> Sleeps(sched, x)
<1>1. \A x \in Task : Sleeps(sched, x) => Sleeps(sched', x)
  BY NextSleeps DEF Sleeps
<1>2. \A x \in Task : ~Sleeps(sched, x) => ~Sleeps(sched', x)
  BY SchedNextNoSleep DEF Sleeps, SameTable
<1>3. QED BY <1>1, <1>2

\* A step that leaves the waitLists as they are, but for those it empties.
LEMMA WaitListsKept ==
  ASSUME TypeOK, Waiters, unguarded \subseteq unguarded',
         "wait_on_free" \notin unguarded' => UNCHANGED waitList,
         \A u \in Task : waitList'[u] = waitList[u] \/ waitList'[u] = <<>>,
         \A u \in Task : waitList[u] # <<>> /\ InUse(u) => InUse(u)',
         "unblock_waiter" \notin unguarded' =>
           \A x \in Task : AnchorLinked(x) /\ Sleeps(sched, x) => Sleeps(sched', x)
  PROVE  Waiters'
<1>1. WaitersAttended'
  BY DEF Waiters, WaitersAttended
<1>2. WaitersSleep'
  <2> SUFFICES ASSUME "unblock_waiter" \notin unguarded'
               PROVE  \A u \in Task : \A i \in DOMAIN waitList'[u] :
                        /\ Sleeps(sched', waitList'[u][i])
                        /\ \A v \in Task : \A j \in DOMAIN waitList'[v] :
                             waitList'[v][j] = waitList'[u][i] => u = v /\ i = j
    BY DEF WaitersSleep
  <2>1. \A u \in Task : \A i \in DOMAIN waitList[u] :
          /\ Sleeps(sched, waitList[u][i])
          /\ \A v \in Task : \A j \in DOMAIN waitList[v] :
               waitList[v][j] = waitList[u][i] => u = v /\ i = j
    BY DEF Waiters, WaitersSleep
  <2>2. \A u \in Task : \A i \in DOMAIN waitList[u] :
          waitList[u][i] \in Task /\ AnchorLinked(waitList[u][i])
    BY AnchoredIs DEF TypeOK
  <2>3. \A u \in Task : \A i \in DOMAIN waitList'[u] : waitList'[u] = waitList[u]
    <3>1. DOMAIN <<>> = {}
      OBVIOUS
    <3>2. QED BY <3>1
  <2>4. QED BY <2>1, <2>2, <2>3
<1>3. QED BY <1>1, <1>2 DEF Waiters

\* And if, of those that sleep, none has been given an unblock to keep.
LEMMA WaitersKept ==
  ASSUME TypeOK, Waiters, unguarded \subseteq unguarded',
         "wait_on_free" \notin unguarded' => UNCHANGED waitList,
         \A u \in Task : waitList'[u] = waitList[u] \/ waitList'[u] = <<>>,
         \A u \in Task : waitList[u] # <<>> /\ InUse(u) => InUse(u)',
         "unblock_waiter" \notin unguarded' =>
           \A x \in Task : AnchorLinked(x) /\ Sleeps(sched, x) => Sleeps(sched', x),
         \A x \in Task : Sleeps(sched', x) =>
           \/ pending_unblocks'[x] = 0
           \/ Sleeps(sched, x) /\ pending_unblocks'[x] = pending_unblocks[x]
  PROVE  WaitersStep
<1>1. Waiters'
  BY WaitListsKept
<1>2. NoneForgotten => NoneForgotten'
  <2> SUFFICES ASSUME NoneForgotten, "wait_on_free" \notin unguarded', NEW t \in Task,
                      Sleeps(sched', t), ~AnchorLinked(t)'
               PROVE  pending_unblocks'[t] = 0
    BY DEF NoneForgotten
  <2>1. ~AnchorLinked(t)
    BY DEF AnchorLinked
  <2>2. QED BY <2>1 DEF NoneForgotten
<1>3. QED BY <1>1, <1>2 DEF WaitersStep

\* A fork, whether it finds its frames or not, takes a PCB that nobody waits
\* for and that does not sleep.
LEMMA ForkWaiters ==
  ASSUME SleepInv, Core, Waiters, Fork \/ CreateThread \/ ForkNoFrames
  PROVE  WaitersStep
<1> DEFINE c == Head(FreeQueue)
<1>1. /\ TypeOK /\ InSyscall /\ FreeQueue # <<>> /\ ~exiting /\ ~exiting'
      /\ unguarded \subseteq unguarded' /\ waitList' = [waitList EXCEPT ![c] = <<>>]
      /\ waitList \in [Task -> Seq(Task)] /\ sched \in SchedType /\ current \in Task
      /\ pending_unblocks \in [Task -> 0 .. MaxPending]
  <2>1. TypeOK
    BY DEF SleepInv, IInv
  <2>2. InSyscall /\ FreeQueue # <<>> /\ waitList' = [waitList EXCEPT ![c] = <<>>]
        /\ unguarded \subseteq unguarded' /\ UNCHANGED exiting
    BY DEF Fork, CreateThread, ForkNoFrames, Spawn, PcbTaken, PcbFilled, NoteIf
  <2>3. QED BY <2>1, <2>2 DEF TypeOK, InSyscall, InUserMode, SchedType, current
<1>2. /\ c \in Task /\ ~Sleeps(sched, c) /\ IsFree(sched, c)
  <2>1. c \in Task /\ ~Sleeps(sched, c)
    BY <1>1, FreeSleepsNot DEF Sleeps
  <2>2. IsFree(sched, c)
    BY <1>1, SchedTypeQueues, TailProperties DEF FreeQueue, IsFree, In, QueueNames
  <2>3. QED BY <2>1, <2>2
<1>3. "wait_on_free" \notin unguarded' => UNCHANGED waitList
  BY <1>1, <1>2 DEF Waiters, WaitersAttended, InUse
<1>4. CASE Fork \/ CreateThread
  <2>1. Spawn(c)
    BY <1>4 DEF Fork, CreateThread
  <2>2. /\ \A t \in Task : IsFree(sched', t) => IsFree(sched, t)
        /\ pending_unblocks' = [pending_unblocks EXCEPT ![c] = 0]
    BY <1>1, <2>1, SpawnCore DEF Spawn, PcbTaken, PcbFilled
  <2>3. \A x \in Task : x # c => (Sleeps(sched', x) <=> Sleeps(sched, x))
    BY <1>1, <1>2, <2>1, SpawnStates DEF Sleeps
  <2> HIDE DEF c
  <2>4. \A u \in Task : InUse(u) => InUse(u)'
    BY <1>1, <2>2 DEF InUse
  <2>5. \A x \in Task : Sleeps(sched, x) => Sleeps(sched', x)
    BY <1>2, <2>3
  <2>6. \A x \in Task : Sleeps(sched', x) =>
          \/ pending_unblocks'[x] = 0
          \/ Sleeps(sched, x) /\ pending_unblocks'[x] = pending_unblocks[x]
    BY <1>1, <1>2, <2>2, <2>3
  <2>7. QED BY <1>1, <1>3, <2>4, <2>5, <2>6, WaitersKept DEF InUse
<1>5. CASE ForkNoFrames
  <2> DEFINE ok == sched.sound /\ ~AnchorLinked(c)
             free == Append(Tail(sched.queue["freequeue"]), c)
             st == sched.current_state[current]
             pid == sched.PID[current]
  <2>1. SameFree /\ UNCHANGED pending_unblocks
    BY <1>1, <1>5, ForkNoFramesCore DEF ForkNoFrames
  <2>2. st = "ST_RUN" /\ st \in States /\ pid \in Int
    BY <1>1 DEF Core, CurrentFits, States, SchedType
  <2>3. free \in Seq(Task) /\ ok \in BOOLEAN
    BY <1>1, <1>2, HeadTailProperties DEF FreeQueue, SchedType, QueueNames, AnchorLinked
  <2>4. sched' = WithPcb(sched, free, c, pid, st, ok)
    BY <1>5 DEF ForkNoFrames, WithPcb
  <2> HIDE DEF c, free, ok, pid, st
  <2>5. sched'.current_state = [sched.current_state EXCEPT ![c] = st]
    <3>1. /\ sched \in SchedType /\ free \in Seq(Task) /\ c \in Task
          /\ pid \in Int /\ ok \in BOOLEAN
      BY <1>1, <1>2, <2>2, <2>3
    <3>2. WithPcb(sched, free, c, pid, st, ok).current_state
            = [sched.current_state EXCEPT ![c] = st]
      BY <3>1 DEF WithPcb, SchedType
    <3>3. QED BY <2>4, <3>2
  <2>6. \A x \in Task : Sleeps(sched', x) => Sleeps(sched, x)
    BY <1>1, <1>2, <2>2, <2>5 DEF Sleeps, SchedType
  <2>7. \A x \in Task : Sleeps(sched, x) => Sleeps(sched', x)
    BY <1>1, <1>2, <2>2, <2>5 DEF Sleeps, SchedType
  <2>8. QED BY <1>1, <1>3, <2>1, <2>6, <2>7, WaitersKept DEF InUse, SameFree
<1>6. QED BY <1>4, <1>5

\* wait_thread finds a PCB of task[].
LEMMA FirstWithType ==
  ASSUME NEW pid, \E t \in Task : sched.PID[t] = pid
  PROVE  FirstWith(pid) \in Task
<1>1. PICK x \in Task : sched.PID[x] = pid
  OBVIOUS
<1> DEFINE S == {u \in Task : sched.PID[u] = pid}
<1>2. S \subseteq Nat /\ S # {}
  BY <1>1, NrTasksAssumption DEF Task
<1>3. Min(S) \in S /\ \A i \in S : Min(S) <= i
  <2> HIDE DEF S
  <2> QED BY <1>2, MinIsLeast
<1>4. QED BY <1>3 DEF FirstWith

\* wait_thread appends the running task, which is in no waitList and goes to
\* sleep, to that of a PCB that is in use unless the step says otherwise.
LEMMA WaitWaiters ==
  ASSUME SleepInv, Core, Waiters, NEW pid \in Pids, WaitThread(pid), Running'
  PROVE  WaitersStep
<1> DEFINE bt == FirstWith(pid)
           ok == sched.sound /\ ~AnchorLinked(current) /\ heads[bt] # "copied"
           s == [sched EXCEPT !.sound = ok]
<1>1. /\ TypeOK /\ NobodyWakesIdle /\ InSyscall /\ ~exiting /\ ~exiting' /\ current # Idle
      /\ sched \in SchedType /\ current \in Task /\ waitList \in [Task -> Seq(Task)]
      /\ bt \in Task /\ "blocked" \in QueueNames
  <2>1. bt \in Task
    BY FirstWithType DEF WaitThread
  <2>2. QED
    BY <2>1 DEF SleepInv, IInv, WaitThread, InSyscall, InUserMode, TypeOK, SchedType,
                current, QueueNames
<1>2. /\ waitList' = [waitList EXCEPT ![bt] = Append(@, current)]
      /\ sched' = SchedNext(Update(s, current, "blocked"))
      /\ UNCHANGED <<pending_unblocks, heads, pidGlobal, exiting>>
      /\ unguarded \subseteq unguarded'
      /\ IsFree(sched, bt) => "wait_on_free" \in unguarded'
  BY DEF WaitThread, Running, NoteIf, IsFree, In, FreeQueue
<1> HIDE DEF bt
<1>3. SameFree /\ Sleeps(sched', current) /\ ok \in BOOLEAN
  <2>1. ok \in BOOLEAN
    BY <1>1 DEF SchedType, AnchorLinked
  <2>2. sched' = SchedNext(Update([sched EXCEPT !.sound = ok], current, "blocked"))
    BY <1>2
  <2> HIDE DEF ok, s
  <2>3. QED BY <1>1, <1>2, <2>1, <2>2, SleepCore DEF Sleeps
<1>4. ~Sleeps(sched, current)
          /\ \A x \in Task : x # current => (Sleeps(sched', x) <=> Sleeps(sched, x))
  <2>1. SameTable(s, sched)
    BY <1>1, <1>3 DEF SameTable, SchedType
  <2> HIDE DEF s
  <2>2. QED BY <1>1, <1>2, <2>1, MoveSame, SyscallFacts DEF Sleeps
<1> HIDE DEF s, ok
<1>5. \A u \in Task : /\ waitList[u] \in Seq(Task) /\ waitList'[u] \in Seq(Task)
                      /\ DOMAIN waitList[u] = 1 .. Len(waitList[u])
                      /\ Len(waitList[u]) \in Nat
                      /\ u # bt => waitList'[u] = waitList[u]
                      /\ u = bt => waitList'[u] = Append(waitList[u], current)
  <2>1. \A u \in Task : waitList[u] \in Seq(Task)
    BY <1>1
  <2>2. QED BY <1>1, <1>2, <2>1, LenProperties
<1>6. /\ \A u \in Task : \A i \in DOMAIN waitList'[u] :
           \/ i \in DOMAIN waitList[u] /\ waitList'[u][i] = waitList[u][i]
           \/ u = bt /\ i = Len(waitList[bt]) + 1 /\ waitList'[u][i] = current
      /\ \A u \in Task : \A i \in DOMAIN waitList[u] :
           i \in DOMAIN waitList'[u] /\ waitList'[u][i] = waitList[u][i]
      /\ Len(waitList[bt]) + 1 \in DOMAIN waitList'[bt]
      /\ waitList'[bt][Len(waitList[bt]) + 1] = current
  <2> DEFINE l == waitList[bt]
  <2>1. /\ l \in Seq(Task) /\ Len(l) \in Nat /\ DOMAIN l = 1 .. Len(l)
        /\ waitList'[bt] = Append(l, current)
    BY <1>1, <1>5
  <2> HIDE DEF l
  <2>2. /\ DOMAIN Append(l, current) = 1 .. Len(l) + 1
        /\ Append(l, current)[Len(l) + 1] = current
        /\ \A i \in 1 .. Len(l) : Append(l, current)[i] = l[i]
    BY <1>1, <2>1, AppendProperties
  <2>3. /\ \A i \in DOMAIN waitList'[bt] :
             \/ i \in DOMAIN l /\ waitList'[bt][i] = l[i]
             \/ i = Len(l) + 1 /\ waitList'[bt][i] = current
        /\ \A i \in DOMAIN l : i \in DOMAIN waitList'[bt] /\ waitList'[bt][i] = l[i]
        /\ Len(l) + 1 \in DOMAIN waitList'[bt] /\ waitList'[bt][Len(l) + 1] = current
    BY <2>1, <2>2
  <2>4. QED BY <1>5, <2>3 DEF l
<1>7. WaitersAttended'
  <2> SUFFICES ASSUME "wait_on_free" \notin unguarded', NEW u \in Task, waitList'[u] # <<>>
               PROVE  ~IsFree(sched', u)
    BY DEF WaitersAttended, InUse
  <2>1. CASE u = bt
    BY <1>1, <1>2, <1>3, <2>1 DEF SameFree
  <2>2. CASE u # bt
    <3>1. waitList[u] # <<>> /\ "wait_on_free" \notin unguarded
      BY <1>2, <1>5, <2>2
    <3>2. QED BY <1>1, <1>3, <3>1 DEF Waiters, WaitersAttended, InUse, SameFree
  <2>3. QED BY <2>1, <2>2
<1>8. WaitersSleep'
  <2> SUFFICES ASSUME "unblock_waiter" \notin unguarded'
               PROVE  \A u \in Task : \A i \in DOMAIN waitList'[u] :
                        /\ Sleeps(sched', waitList'[u][i])
                        /\ \A v \in Task : \A j \in DOMAIN waitList'[v] :
                             waitList'[v][j] = waitList'[u][i] => u = v /\ i = j
    BY DEF WaitersSleep
  <2>1. \A u \in Task : \A i \in DOMAIN waitList[u] :
          /\ waitList[u][i] \in Task
          /\ Sleeps(sched, waitList[u][i])
          /\ \A v \in Task : \A j \in DOMAIN waitList[v] :
               waitList[v][j] = waitList[u][i] => u = v /\ i = j
    BY <1>1, <1>2 DEF Waiters, WaitersSleep
  <2>2. \A u \in Task : \A i \in DOMAIN waitList[u] :
          waitList[u][i] # current /\ Sleeps(sched', waitList[u][i])
    BY <1>4, <2>1
  <2>3. QED BY <1>3, <1>6, <2>1, <2>2
<1>9. NoneForgotten => NoneForgotten'
  <2> SUFFICES ASSUME NoneForgotten, "wait_on_free" \notin unguarded', NEW t \in Task,
                      Sleeps(sched', t), ~AnchorLinked(t)'
               PROVE  pending_unblocks'[t] = 0
    BY DEF NoneForgotten
  <2>1. \A u \in Task : \A i \in DOMAIN waitList'[u] : waitList'[u][i] # t
    <3>1. \A u \in Task : DOMAIN waitList'[u] = 1 .. Len(waitList'[u])
      BY <1>5, LenProperties
    <3>2. QED BY <3>1 DEF AnchorLinked, Contains
  <2>2. t # current /\ ~AnchorLinked(t)
    <3>1. t # current
      BY <1>1, <1>6, <2>1
    <3>2. \A u \in Task : \A i \in DOMAIN waitList[u] : waitList[u][i] # t
      BY <1>6, <2>1
    <3>3. QED BY <1>1, <3>1, <3>2, AnchoredIs
  <2>3. QED BY <1>2, <1>4, <2>2 DEF NoneForgotten
<1>10. QED BY <1>7, <1>8, <1>9 DEF WaitersStep, Waiters

\* The loop of sys_exit takes the first waiter out of the list and wakes it.
LEMMA ExitWakeWaiters ==
  ASSUME SleepInv, Core, Waiters, ExitWake, Running'
  PROVE  WaitersStep
<1> DEFINE l == waitList[current]
           w == Head(l)
<1>1. /\ TypeOK /\ NobodyWakesIdle /\ exiting /\ sched \in SchedType /\ current \in Task
      /\ waitList \in [Task -> Seq(Task)] /\ l \in Seq(Task) /\ l # <<>>
      /\ sched' = Update(sched, w, "readyqueue") /\ "readyqueue" \in QueueNames
      /\ waitList' = [waitList EXCEPT ![current] = Tail(l)]
      /\ UNCHANGED <<pending_unblocks, exiting, unguarded>>
  BY DEF SleepInv, IInv, ExitWake, TypeOK, SchedType, current, QueueNames
<1>2. /\ w \in Task /\ Tail(l) \in Seq(Task) /\ Len(l) \in Nat /\ Len(l) >= 1
      /\ Len(Tail(l)) = Len(l) - 1 /\ w = l[1]
      /\ \A i \in 1 .. Len(l) - 1 : Tail(l)[i] = l[i + 1]
  BY <1>1, HeadTailProperties, LenProperties, EmptySeq
<1> HIDE DEF w
<1>3. /\ current' = current /\ ~Sleeps(sched', w)
      /\ \A x \in Task : x # w => (Sleeps(sched', x) <=> Sleeps(sched, x))
  <2>1. current' = current
    BY <1>1, <1>2, UpdateKeeps DEF current
  <2>2. sched'.current_state[w] = StateOf[IF sched.PID[w] < 0 THEN "freequeue" ELSE "readyqueue"]
    BY <1>1, <1>2, UpdateStates
  <2>3. ~Sleeps(sched', w)
    BY <2>2 DEF Sleeps, StateOf
  <2>4. \A x \in Task : x # w => (Sleeps(sched', x) <=> Sleeps(sched, x))
    BY <1>1, <1>2, UpdateStates DEF Sleeps
  <2>5. QED BY <2>1, <2>3, <2>4
<1>4. \A u \in Task : /\ u # current => waitList'[u] = waitList[u]
                      /\ u = current => waitList'[u] = Tail(l)
                      /\ DOMAIN waitList[u] = 1 .. Len(waitList[u])
                      /\ DOMAIN waitList'[u] = 1 .. Len(waitList'[u])
  BY <1>1, <1>2, LenProperties
<1>5. \A u \in Task : \A i \in DOMAIN waitList'[u] :
        LET k == IF u = current THEN i + 1 ELSE i
        IN k \in DOMAIN waitList[u] /\ waitList'[u][i] = waitList[u][k]
  <2> SUFFICES ASSUME NEW u \in Task, NEW i \in DOMAIN waitList'[u]
               PROVE  LET k == IF u = current THEN i + 1 ELSE i
                      IN k \in DOMAIN waitList[u] /\ waitList'[u][i] = waitList[u][k]
    OBVIOUS
  <2>1. CASE u # current
    BY <1>4, <2>1
  <2>2. CASE u = current
    <3>1. i \in 1 .. Len(l) - 1
      BY <1>2, <1>4, <2>2
    <3>2. i + 1 \in 1 .. Len(l) /\ Tail(l)[i] = l[i + 1]
      BY <1>2, <3>1
    <3>3. QED BY <1>4, <2>2, <3>2
  <2>3. QED BY <2>1, <2>2
<1>6. WaitersAttended'
  <2> SUFFICES ASSUME "wait_on_free" \notin unguarded, NEW u \in Task, u # current,
                      waitList[u] # <<>>
               PROVE  ~IsFree(sched', u)
    BY <1>1, <1>3, <1>4 DEF WaitersAttended, InUse
  <2>1. ~IsFree(sched, u)
    BY DEF Waiters, WaitersAttended, InUse
  <2>2. QED BY <1>1, <2>1, ExitWakeCore DEF Running
<1>7. WaitersSleep'
  <2> SUFFICES ASSUME "unblock_waiter" \notin unguarded
               PROVE  \A u \in Task : \A i \in DOMAIN waitList'[u] :
                        /\ Sleeps(sched', waitList'[u][i])
                        /\ \A v \in Task : \A j \in DOMAIN waitList'[v] :
                             waitList'[v][j] = waitList'[u][i] => u = v /\ i = j
    BY <1>1 DEF WaitersSleep
  <2>1. \A u \in Task : \A i \in DOMAIN waitList[u] :
          /\ waitList[u][i] \in Task
          /\ Sleeps(sched, waitList[u][i])
          /\ \A v \in Task : \A j \in DOMAIN waitList[v] :
               waitList[v][j] = waitList[u][i] => u = v /\ i = j
    BY <1>1 DEF Waiters, WaitersSleep
  <2>2. 1 \in DOMAIN waitList[current] /\ waitList[current][1] = w
    BY <1>1, <1>2, <1>4
  <2>3. \A u \in Task : \A i \in DOMAIN waitList[u] :
          u # current \/ i # 1 => waitList[u][i] # w
    BY <1>1, <2>1, <2>2
  <2>4. \A u \in Task : \A i \in DOMAIN waitList'[u] : i \in Int /\ i >= 1
    <3>1. \A u \in Task : waitList'[u] \in Seq(Task)
      BY <1>1, <1>2
    <3>2. QED BY <1>4, <3>1, LenProperties
  <2>5. \A u \in Task : \A i \in DOMAIN waitList'[u] :
          waitList'[u][i] # w /\ Sleeps(sched', waitList'[u][i])
    BY <1>3, <1>5, <2>1, <2>3, <2>4
  <2>6. ASSUME NEW u \in Task, NEW i \in DOMAIN waitList'[u],
               NEW v \in Task, NEW j \in DOMAIN waitList'[v],
               waitList'[v][j] = waitList'[u][i]
        PROVE  u = v /\ i = j
    BY <1>5, <2>1, <2>4, <2>6
  <2>7. QED BY <2>5, <2>6
<1>8. NoneForgotten => NoneForgotten'
  <2> SUFFICES ASSUME NoneForgotten, "wait_on_free" \notin unguarded, NEW t \in Task,
                      Sleeps(sched', t), ~AnchorLinked(t)'
               PROVE  pending_unblocks[t] = 0
    BY <1>1 DEF NoneForgotten
  <2>1. t # w /\ Sleeps(sched, t)
    BY <1>3
  <2>2. ~AnchorLinked(t)
    <3> SUFFICES ASSUME NEW u \in Task, NEW i \in DOMAIN waitList[u], waitList[u][i] = t
                 PROVE  AnchorLinked(t)'
      BY <1>1, AnchoredIs
    <3>1. CASE u # current
      <4>1. Contains(waitList'[u], t)
        BY <1>4, <3>1 DEF Contains
      <4>2. QED BY <4>1 DEF AnchorLinked
    <3>2. CASE u = current
      <4>1. i \in 1 .. Len(l) /\ i # 1
        BY <1>2, <1>4, <2>1, <3>2
      <4>2. i - 1 \in 1 .. Len(l) - 1 /\ Tail(l)[i - 1] = l[(i - 1) + 1] /\ (i - 1) + 1 = i
        BY <1>2, <4>1
      <4>3. i - 1 \in 1 .. Len(Tail(l)) /\ Tail(l)[i - 1] = t
        BY <1>2, <3>2, <4>2
      <4>4. Contains(waitList'[u], t)
        BY <1>4, <3>2, <4>3 DEF Contains
      <4>5. QED BY <4>4 DEF AnchorLinked
    <3>3. QED BY <3>1, <3>2
  <2>3. QED BY <2>1, <2>2 DEF NoneForgotten
<1>9. QED BY <1>6, <1>7, <1>8 DEF WaitersStep, Waiters

\* After a fault or a broken list there are no more steps.
LEMMA StepsRun ==
  ASSUME [Next]_vars, Running'
  PROVE  Running
<1>1. SUFFICES ASSUME ~Running PROVE FALSE
  OBVIOUS
<1>2. ~InUserMode /\ ~InSyscall
  BY <1>1 DEF InUserMode, InSyscall
<1>3. Halted \/ UNCHANGED vars
  BY <1>1, <1>2 DEF Next, Fork, CreateThread, CreateThreadPageFault, ForkNoFrames,
                    ForkPageFault, Block, Unblock, UnblockNobody, WaitThread, Exit, ExitWake,
                    ExitDone, ClockInterrupt
<1>4. QED BY <1>1, <1>3 DEF Halted, vars, Running

LEMMA WaitersNext ==
  ASSUME SleepInv, Running => Waiters, [Next]_vars, Running'
  PROVE  WaitersStep
<1>1. /\ TypeOK /\ NobodyWakesIdle /\ SameTable(sched, sched)
      /\ (Running => Core /\ Waiters) /\ sched \in SchedType /\ current \in Task
      /\ sched.current = current /\ pending_unblocks \in [Task -> 0 .. MaxPending]
  BY ItIsTheTable DEF SleepInv, IInv, TypeOK, SchedType, current
<1>2. CASE UNCHANGED vars \/ Halted
  BY <1>1, <1>2 DEF Halted, vars, Running, WaitersStep, Waiters, WaitersAttended, WaitersSleep,
                    NoneForgotten, InUse, AnchorLinked, IsFree, In, Sleeps, current
<1>3. CASE Fork \/ CreateThread \/ ForkNoFrames
  BY <1>1, <1>3, ForkWaiters DEF Fork, CreateThread, ForkNoFrames, InSyscall, InUserMode
<1>4. CASE Block
  <2>1. /\ Core /\ Waiters /\ ~exiting /\ current # Idle /\ "blocked" \in QueueNames
        /\ UNCHANGED <<waitList, exiting, unguarded>> /\ UNCHANGED <<heads, pidGlobal>>
    BY <1>1, <1>4 DEF Block, InSyscall, InUserMode, lists, QueueNames
  <2>2. ~Sleeps(sched, current)
    BY <1>1, <2>1, SyscallFacts DEF Sleeps
  <2>3. CASE UNCHANGED sched
    <3>1. \A x \in Task : x # current => pending_unblocks'[x] = pending_unblocks[x]
      BY <1>1, <1>4 DEF Block
    <3>2. QED BY <1>1, <2>1, <2>2, <2>3, <3>1, WaitersKept DEF InUse, Sleeps, current
  <2>4. CASE /\ sched' = SchedNext(Update(sched, current, "blocked"))
             /\ UNCHANGED pending_unblocks /\ pending_unblocks[current] <= 0
    <3>1. SameFree
      <4>1. sched.sound \in BOOLEAN /\ sched = [sched EXCEPT !.sound = sched.sound]
        BY <1>1 DEF SchedType
      <4>2. QED BY <1>1, <2>1, <2>4, <4>1, SleepCore
    <3>2. \A x \in Task : x # current => (Sleeps(sched', x) <=> Sleeps(sched, x))
      BY <1>1, <2>1, <2>4, MoveSame
    <3>3. pending_unblocks[current] = 0
      BY <1>1, <2>4, BoundAssumption
    <3>4. QED BY <1>1, <2>1, <2>2, <2>4, <3>1, <3>2, <3>3, WaitersKept DEF InUse, SameFree
  <2>5. QED BY <1>4, <2>3, <2>4 DEF Block
<1>5. ASSUME NEW pid \in Pids, Unblock(pid) PROVE WaitersStep
  <2>1. /\ Core /\ Waiters /\ InSyscall /\ ~exiting /\ UNCHANGED <<waitList, exiting>>
        /\ UNCHANGED <<heads, pidGlobal>> /\ "readyqueue" \in QueueNames
    BY <1>1, <1>5 DEF Unblock, InSyscall, InUserMode, lists, QueueNames
  <2>2. PICK fill \in fills[current] :
          IF Sleeps(sched, fill)
          THEN /\ sched' = SchedNext(Update(sched, fill, "readyqueue"))
               /\ UNCHANGED pending_unblocks
               /\ NoteIf("unblock_waiter", AnchorLinked(fill))
          ELSE /\ sched' = SchedNext(sched)
               /\ pending_unblocks' = [pending_unblocks EXCEPT ![fill] = @ + 1]
               /\ UNCHANGED unguarded
    BY <1>5 DEF Unblock, Sleeps
  <2>3. fill \in Task
    BY <1>1 DEF TypeOK
  <2>4. CASE Sleeps(sched, fill)
    <3>1. SameFree
      BY <1>1, <2>1, <2>2, <2>3, <2>4, UnblockCore DEF Sleeps
    <3>2. \A x \in Task : x # fill => (Sleeps(sched', x) <=> Sleeps(sched, x))
      BY <1>1, <2>1, <2>2, <2>3, <2>4, MoveSame
    <3>3. /\ unguarded \subseteq unguarded' /\ UNCHANGED pending_unblocks
          /\ "unblock_waiter" \notin unguarded' => ~AnchorLinked(fill)
      BY <2>2, <2>4 DEF NoteIf
    <3>4. QED BY <1>1, <2>1, <2>3, <2>4, <3>1, <3>2, <3>3, WaitersKept DEF InUse, SameFree
  <2>5. CASE ~Sleeps(sched, fill)
    <3>1. SameFree
      BY <1>1, <2>1, <2>2, <2>5, StayCore
    <3>2. \A x \in Task : Sleeps(sched', x) <=> Sleeps(sched, x)
      BY <1>1, <2>1, <2>2, <2>5, NextSame
    <3>3. \A x \in Task : x # fill => pending_unblocks'[x] = pending_unblocks[x]
      BY <1>1, <2>2, <2>3, <2>5
    <3>4. QED BY <1>1, <2>1, <2>2, <2>3, <2>5, <3>1, <3>2, <3>3, WaitersKept
              DEF InUse, SameFree
  <2>6. QED BY <2>4, <2>5
<1>6. CASE UnblockNobody \/ ClockInterrupt
  <2>1. /\ Core /\ Waiters /\ ~exiting /\ UNCHANGED <<waitList, exiting, unguarded>>
        /\ UNCHANGED pending_unblocks
    BY <1>1, <1>6 DEF UnblockNobody, ClockInterrupt, InSyscall, InUserMode, lists
  <2>2. SameFree
    BY <1>1, <1>6, <2>1, SameFreeNext
  <2>3. \A x \in Task : Sleeps(sched', x) <=> Sleeps(sched, x)
    <3> DEFINE left == IF sched.tick_counter > 0 THEN sched.tick_counter - 1 ELSE 0
               ticked == [sched EXCEPT !.tick_counter = left]
    <3>1. left \in 0 .. DEFAULT_QUANTUM_TICKS
      BY <1>1, QuantumAssumption DEF SchedType
    <3>2. \/ sched' = SchedNext(sched) \/ sched' = SchedNext(ticked) \/ sched' = ticked
      BY <1>6 DEF UnblockNobody, ClockInterrupt, Clock
    <3> HIDE DEF left
    <3>3. SameTable(ticked, sched)
      BY <1>1, <3>1 DEF SameTable, SchedType
    <3> HIDE DEF ticked
    <3>4. CASE sched' = ticked
      BY <3>3, <3>4 DEF SameTable, Sleeps
    <3>5. CASE sched' = SchedNext(sched)
      BY <1>1, <2>1, <3>5, NextSame
    <3>6. CASE sched' = SchedNext(ticked)
      BY <1>1, <2>1, <3>3, <3>6, NextSame
    <3>7. QED BY <3>2, <3>4, <3>5, <3>6
  <2>4. QED BY <1>1, <2>1, <2>2, <2>3, WaitersKept DEF InUse, SameFree
<1>7. ASSUME NEW pid \in Pids, WaitThread(pid) PROVE WaitersStep
  BY <1>1, <1>7, WaitWaiters DEF WaitThread, InSyscall, InUserMode
<1>8. CASE Exit
  <2>1. /\ Core /\ Waiters /\ ~exiting /\ current # task1
        /\ UNCHANGED waitList /\ UNCHANGED pending_unblocks /\ UNCHANGED unguarded
    BY <1>1, <1>8 DEF Exit, InSyscall, InUserMode, Running
  <2>2. SameFree
    BY <1>1, <1>8, <2>1, ExitCore
  <2>3. sched'.current_state = sched.current_state
    BY <1>1, <1>8 DEF Exit, SchedType
  <2>4. QED BY <1>1, <2>1, <2>2, <2>3, WaitersKept DEF InUse, SameFree, Sleeps
<1>9. CASE ExitWake
  BY <1>1, <1>9, ExitWakeWaiters DEF ExitWake
<1>10. CASE ExitDone
  <2>1. /\ Core /\ Waiters /\ exiting /\ waitList[current] = <<>>
        /\ "freequeue" \in QueueNames
        /\ UNCHANGED waitList /\ UNCHANGED pending_unblocks /\ UNCHANGED unguarded
        /\ sched' = SchedNext(Update(sched, current, "freequeue"))
    BY <1>1, <1>10 DEF ExitDone, lists, QueueNames
  <2>2. \A t \in Task : IsFree(sched', t) <=> IsFree(sched, t) \/ t = current
    BY <1>1, <1>10, <2>1, ExitDoneCore, ExitDoneNeeds DEF Running
  <2>3. ~Sleeps(sched, current) /\ ~Sleeps(sched', current)
    BY <1>1, <2>1, MoveNoSleep DEF Sleeps, NobodyWakesIdle
  <2>4. \A x \in Task : x # current => (Sleeps(sched', x) <=> Sleeps(sched, x))
    BY <1>1, <2>1, MoveSame
  <2>5. QED BY <1>1, <2>1, <2>2, <2>3, <2>4, WaitersKept DEF InUse
<1>11. CASE CreateThreadPageFault \/ ForkPageFault
  BY <1>1, <1>11, PageFaultStep
<1>12. QED
  BY <1>2, <1>3, <1>4, <1>5, <1>6, <1>7, <1>8, <1>9, <1>10, <1>11 DEF Next

WaitInv == SleepInv /\ (Running => Waiters /\ NoneForgotten)

LEMMA WaitInductive == Spec => []WaitInv
<1>1. Init => WaitInv
  BY SleepInvInit, WaitersInit DEF WaitInv
<1>2. WaitInv /\ [Next]_vars => WaitInv'
  BY SleepInvNext, WaitersNext, StepsRun DEF WaitInv, WaitersStep
<1>3. QED BY <1>1, <1>2, PTL DEF Spec

\* Whoever is in a waitList sleeps, is in no other, and waits for a task that
\* has not left: sys_exit leaves nobody behind, whatever the programs do that
\* keep clear of a wait for a free PCB and of an unblock of a waiter
\* (Process.WaitersConsistent).
THEOREM WaitersConsistentHolds == Spec => []WaitersConsistent
<1>1. WaitInv => WaitersConsistent
  <2> SUFFICES ASSUME WaitInv, Running,
                      unguarded \cap {"wait_on_free", "unblock_waiter"} = {},
                      NEW u \in Task, NEW i \in DOMAIN waitList[u]
               PROVE  /\ sched.current_state[waitList[u][i]] = "ST_BLOCKED"
                      /\ Live(u) \/ u = Idle \/ (u = current /\ exiting)
                      /\ \A v \in Task : \A j \in DOMAIN waitList[v] :
                           waitList[v][j] = waitList[u][i] => u = v /\ i = j
    BY DEF WaitersConsistent
  <2>1. WaitersSleep /\ WaitersAttended /\ TypeOK
    BY DEF WaitInv, SleepInv, IInv, Waiters
  <2>2. waitList[u] # <<>>
    <3>1. DOMAIN <<>> = {}
      OBVIOUS
    <3>2. QED BY <3>1
  <2>3. Live(u) \/ u = Idle \/ (u = current /\ exiting)
    BY <2>1, <2>2, LiveIs DEF WaitersAttended, InUse
  <2>4. QED BY <2>1, <2>3 DEF WaitersSleep, Sleeps
<1>2. QED BY <1>1, WaitInductive, PTL

\* A task that sleeps in block has no unblock pending: none is lost between
\* the test of sys_block and the counter of sys_unblock, as long as no program
\* waits for a free PCB (Process.NoLostUnblock).
THEOREM NoLostUnblockHolds == Spec => []NoLostUnblock
<1>1. WaitInv => NoLostUnblock
  BY DEF WaitInv, NoneForgotten, NoLostUnblock, Sleeps
<1>2. QED BY <1>1, WaitInductive, PTL

----------------------------------------------------------------------------
(* Faults and broken lists.  As long as nothing unguarded has happened, a  *)
(* node is linked and unlinked where the kernel takes it to be: no waiter  *)
(* is forked over, the head of a used PCB is its own, and the task that    *)
(* exits is in no queue.                                                   *)

Faultless ==
  unguarded = {} =>
    /\ Running
    /\ \A t \in Task : heads[t] # "copied" /\ (heads[t] = "zero" => IsFree(sched, t))
    /\ exiting => ~Linked(sched, current)

LEMMA FaultlessInit == Init => Faultless
<1> SUFFICES ASSUME Init PROVE Faultless
  OBVIOUS
<1>1. /\ sched.sound = TRUE /\ page_fault = FALSE /\ exiting = FALSE
      /\ heads = [t \in Task |-> IF t \in {Idle, task1} THEN "own" ELSE "zero"]
  BY DEF Init, SchedInit
<1>2. \A t \in Task : t \notin {Idle, task1} => IsFree(sched, t)
  BY InitFree
<1>3. QED BY <1>1, <1>2 DEF Faultless, Running

LEMMA UnguardedGrows ==
  ASSUME [Next]_vars
  PROVE  unguarded \subseteq unguarded'
<1>1. CASE \/ Fork \/ CreateThread \/ ForkNoFrames
           \/ CreateThreadPageFault \/ ForkPageFault
  BY <1>1 DEF Fork, CreateThread, ForkNoFrames, CreateThreadPageFault, ForkPageFault,
               Spawn, PcbTaken, PcbFilled, NoteIf
<1>2. CASE Block \/ UnblockNobody \/ ClockInterrupt
  BY <1>2 DEF Block, UnblockNobody, ClockInterrupt
<1>3. ASSUME NEW pid \in Pids, Unblock(pid) PROVE unguarded \subseteq unguarded'
  BY <1>3 DEF Unblock, NoteIf
<1>4. ASSUME NEW pid \in Pids, WaitThread(pid) PROVE unguarded \subseteq unguarded'
  BY <1>4 DEF WaitThread, NoteIf
<1>5. CASE Exit \/ ExitWake \/ ExitDone
  BY <1>5 DEF Exit, ExitWake, ExitDone, NoteIf
<1>6. CASE Halted \/ UNCHANGED vars
  BY <1>6 DEF Halted, vars
<1>7. QED BY <1>1, <1>2, <1>3, <1>4, <1>5, <1>6 DEF Next

\* A sleeper that is not the running task is where update_process_state_rr
\* takes it to be.
LEMMA SleeperNeeded ==
  ASSUME TypeOK, Core, NEW x \in Task, Sleeps(sched, x), x # current
  PROVE  NodeAsNeeded(sched, x)
<1>1. CASE x = Idle
  BY <1>1 DEF NodeAsNeeded
<1>2. CASE x # Idle
  <2>1. PICK n \in QueueNames : In(sched, n, x)
    BY <1>2 DEF Core, Table, Linked, In
  <2>2. n # "freequeue" /\ Linked(sched, x)
    BY <2>1 DEF Core, Table, StatesAgree, StateOf, In, Linked, Sleeps
  <2>3. sched.PID[x] > 0
    BY <2>1, <2>2 DEF Core, Table, PidsAgree
  <2>4. QED BY <2>2, <2>3 DEF NodeAsNeeded, LeavesQueue, Sleeps
<1>3. QED BY <1>1, <1>2

LEMMA FaultlessNext ==
  ASSUME WaitInv, Faultless, [Next]_vars
  PROVE  Faultless'
<1> SUFFICES ASSUME unguarded' = {} PROVE Faultless'
  BY DEF Faultless
<1>1. unguarded = {}
  BY UnguardedGrows
<1>2. /\ TypeOK /\ Core /\ Waiters /\ NobodyWakesIdle /\ Running
      /\ sched.sound = TRUE /\ page_fault = FALSE
      /\ sched \in SchedType /\ current \in Task /\ sched.current = current
      /\ \A t \in Task : heads[t] # "copied" /\ (heads[t] = "zero" => IsFree(sched, t))
      /\ exiting => ~Linked(sched, current)
  BY <1>1 DEF WaitInv, SleepInv, IInv, Faultless, Running, TypeOK, SchedType, current
<1>3. \A t \in Task : AnchorLinked(t) => Sleeps(sched, t)
  BY <1>1, <1>2, AnchoredSleep DEF Waiters
<1>4. CASE UNCHANGED vars \/ Halted
  BY <1>2, <1>4 DEF Halted, vars, Faultless, Running, IsFree, In, Linked, current
<1>5. CASE Fork \/ CreateThread
  <2> DEFINE c == Head(FreeQueue)
  <2>1. /\ InSyscall /\ FreeQueue # <<>> /\ Spawn(c) /\ ~exiting
    BY <1>5 DEF Fork, CreateThread, InSyscall, InUserMode
  <2>2. /\ c \in Task /\ \A t \in Task : IsFree(sched', t) <=> IsFree(sched, t) /\ t # c
        /\ sched'.sound = (sched.sound /\ ~AnchorLinked(c))
    BY <1>2, <2>1, SpawnCore
  <2>3. ~AnchorLinked(c)
    BY <1>2, <1>3, <2>1, FreeSleepsNot DEF Sleeps
  <2>4. /\ heads' = [heads EXCEPT ![c] = "own"] /\ UNCHANGED <<exiting, page_fault>>
        /\ heads \in [Task -> HeadKinds]
    BY <1>2, <2>1 DEF Spawn, PcbTaken, PcbFilled, TypeOK
  <2> HIDE DEF c
  <2>5. \A t \in Task : heads'[t] # "copied" /\ (heads'[t] = "zero" => IsFree(sched', t))
    BY <1>2, <2>2, <2>4
  <2>6. QED BY <1>2, <2>1, <2>2, <2>3, <2>4, <2>5 DEF Faultless, Running
<1>6. CASE ForkNoFrames
  BY <1>6 DEF ForkNoFrames, NoteIf
<1>7. CASE Block
  <2>1. /\ ~exiting /\ current # Idle /\ UNCHANGED <<heads, exiting, page_fault>>
        /\ UNCHANGED <<heads, pidGlobal, exiting>>
        /\ sched = [sched EXCEPT !.sound = TRUE]
    BY <1>2, <1>7 DEF Block, InSyscall, InUserMode, lists, SchedType
  <2>2. SameFree /\ sched'.sound = TRUE
    <3>1. CASE sched' = SchedNext(Update(sched, current, "blocked"))
      BY <1>2, <2>1, <3>1, SleepCore
    <3>2. CASE UNCHANGED sched
      BY <1>2, <3>2 DEF SameFree, IsFree, In
    <3>3. QED BY <1>7, <3>1, <3>2 DEF Block
  <2>3. QED BY <1>2, <2>1, <2>2 DEF Faultless, Running, SameFree
<1>8. ASSUME NEW pid \in Pids, Unblock(pid) PROVE Faultless'
  <2>1. /\ ~exiting /\ InSyscall /\ UNCHANGED <<heads, exiting, page_fault>>
        /\ UNCHANGED <<heads, pidGlobal, exiting>>
    BY <1>8 DEF Unblock, InSyscall, InUserMode, lists
  <2>2. PICK fill \in fills[current] :
          IF sched.current_state[fill] = "ST_BLOCKED"
          THEN sched' = SchedNext(Update(sched, fill, "readyqueue"))
          ELSE sched' = SchedNext(sched)
    BY <1>8 DEF Unblock
  <2>3. SameFree /\ sched'.sound = TRUE
    <3>1. fill \in Task
      BY <1>2 DEF TypeOK
    <3>2. CASE sched.current_state[fill] = "ST_BLOCKED"
      BY <1>2, <2>1, <2>2, <3>1, <3>2, UnblockCore
    <3>3. CASE sched.current_state[fill] # "ST_BLOCKED"
      BY <1>2, <2>1, <2>2, <3>3, StayCore
    <3>4. QED BY <3>2, <3>3
  <2>4. QED BY <1>2, <2>1, <2>3 DEF Faultless, Running, SameFree
<1>9. CASE UnblockNobody
  <2>1. /\ ~exiting /\ UNCHANGED <<heads, exiting, page_fault>>
        /\ UNCHANGED <<heads, pidGlobal, exiting>> /\ sched' = SchedNext(sched)
    BY <1>9 DEF UnblockNobody, InSyscall, InUserMode, lists
  <2>2. SameFree /\ sched'.sound = TRUE
    BY <1>2, <2>1, StayCore
  <2>3. QED BY <1>2, <2>1, <2>2 DEF Faultless, Running, SameFree
<1>10. ASSUME NEW pid \in Pids, WaitThread(pid) PROVE Faultless'
  <2> DEFINE bt == FirstWith(pid)
             ok == sched.sound /\ ~AnchorLinked(current) /\ heads[bt] # "copied"
  <2>1. /\ ~exiting /\ current # Idle /\ UNCHANGED <<heads, exiting>>
        /\ UNCHANGED <<heads, pidGlobal, exiting>>
        /\ bt \in Task
    BY <1>10, FirstWithType DEF WaitThread, InSyscall, InUserMode
  <2>2. ~IsFree(sched, bt)
    BY <1>10 DEF WaitThread, NoteIf, IsFree, In, FreeQueue
  <2>3. heads[bt] # "zero" /\ heads[bt] # "copied"
    BY <1>2, <2>1, <2>2
  <2>4. /\ sched' = SchedNext(Update([sched EXCEPT !.sound = ok], current, "blocked"))
        /\ UNCHANGED page_fault
    BY <1>10, <2>3 DEF WaitThread
  <2>5. ~AnchorLinked(current)
    BY <1>2, <1>3, <2>1, SyscallFacts DEF Sleeps
  <2>6. ok = TRUE
    BY <1>2, <2>3, <2>5
  <2>7. SameFree /\ sched'.sound = TRUE
    <3>1. sched' = SchedNext(Update([sched EXCEPT !.sound = TRUE], current, "blocked"))
      BY <2>4, <2>6
    <3>2. QED BY <1>2, <2>1, <3>1, SleepCore
  <2>8. QED BY <1>2, <2>1, <2>4, <2>7 DEF Faultless, Running, SameFree
<1>11. CASE Exit
  <2>1. current # task1
    BY <1>11 DEF Exit, NoteIf
  <2>2. /\ ~exiting /\ current # Idle /\ UNCHANGED <<heads, page_fault>>
    BY <1>11, <2>1 DEF Exit, InSyscall, InUserMode
  <2>3. /\ sched'.sound = sched.sound /\ sched'.queue = sched.queue
        /\ sched'.current = sched.current
    BY <1>2, <1>11, <2>1 DEF Exit, SchedType
  <2>4. ~Linked(sched, current)
    BY <1>2, <2>2, SyscallFacts
  <2>5. QED BY <1>2, <2>2, <2>3, <2>4 DEF Faultless, Running, IsFree, In, Linked, current
<1>12. CASE ExitWake
  <2> DEFINE w == Head(waitList[current])
  <2>1. /\ exiting /\ waitList[current] \in Seq(Task) /\ waitList[current] # <<>>
        /\ sched' = Update(sched, w, "readyqueue") /\ "readyqueue" \in QueueNames
        /\ UNCHANGED <<heads, exiting, page_fault>>
    BY <1>2, <1>12 DEF ExitWake, TypeOK, QueueNames
  <2>2. w \in Task /\ Contains(waitList[current], w)
    BY <2>1, HeadTailProperties DEF Contains
  <2>3. Sleeps(sched, w)
    BY <1>2, <1>3, <2>2 DEF AnchorLinked
  <2>4. w # current
    BY <2>1, <2>3, <1>2 DEF NobodyWakesIdle, Sleeps
  <2>5. NodeAsNeeded(sched, w)
    BY <1>2, <2>2, <2>3, <2>4, SleeperNeeded
  <2>6. sched'.sound = TRUE /\ sched'.current = current
    BY <1>2, <2>1, <2>2, <2>5, UpdateFields
  <2>7. /\ Linked(sched', current) <=> Linked(sched, current)
        /\ \A t \in Task \ {current} : IsFree(sched', t) <=> IsFree(sched, t)
    BY <1>2, <1>12, <2>4, <2>6, ExitWakeCore
  <2>8. ~IsFree(sched, current)
    BY <1>2, <2>1 DEF IsFree, In, Linked, QueueNames
  <2>9. current' = current
    BY <2>6 DEF current
  <2>10. QED BY <1>2, <2>1, <2>6, <2>7, <2>8, <2>9 DEF Faultless, Running
<1>13. CASE ExitDone
  <2>1. /\ exiting /\ ~exiting' /\ UNCHANGED <<heads, page_fault>>
    BY <1>13 DEF ExitDone, lists
  <2>2. NodeAsNeeded(sched, current)
    BY <1>2, <2>1 DEF NodeAsNeeded, LeavesQueue, Core, CurrentFits
  <2>3. /\ sched'.sound = sched.sound
        /\ \A t \in Task : IsFree(sched', t) <=> IsFree(sched, t) \/ t = current
    BY <1>2, <1>13, <2>2, ExitDoneCore
  <2>4. QED BY <1>2, <2>1, <2>3 DEF Faultless, Running
<1>14. CASE ClockInterrupt
  <2>1. ~exiting /\ UNCHANGED <<heads, exiting, page_fault>>
    BY <1>14 DEF ClockInterrupt, InUserMode, lists
  <2>2. SameFree /\ sched'.sound = TRUE
    BY <1>2, <1>14, ClockCore
  <2>3. QED BY <1>2, <2>1, <2>2 DEF Faultless, Running, SameFree
<1>15. CASE CreateThreadPageFault \/ ForkPageFault
  BY <1>2, <1>15, PageFaultStep
<1>16. QED
  BY <1>4, <1>5, <1>6, <1>7, <1>8, <1>9, <1>10, <1>11, <1>12, <1>13, <1>14, <1>15 DEF Next

\* The kernel faults and breaks its lists only after one of the situations
\* that its calls do not guard against: an exit of task1, a wait for a free
\* PCB, an unblock of a waiter, a fork that runs out of frames
\* (Process.FaultsExplained).
THEOREM FaultsExplainedHolds == Spec => []FaultsExplained
<1>1. Init => Faultless
  BY FaultlessInit
<1>2. WaitInv /\ Faultless /\ [Next]_vars => Faultless'
  BY FaultlessNext
<1>3. Faultless => FaultsExplained
  BY DEF Faultless, FaultsExplained
<1>4. QED BY <1>1, <1>2, <1>3, WaitInductive, PTL DEF Spec

----------------------------------------------------------------------------
(* The round robin of sched.c.  Every step of the kernel is one of module  *)
(* RoundRobin's or leaves the CPU and the ready queue alone, as long as    *)
(* nobody is unblocked while a waitList still names it.                    *)

\* A task that exits is in no queue.
LeavesUnlinked ==
  Running /\ exiting /\ "unblock_waiter" \notin unguarded => ~Linked(sched, current)

LEMMA LeavesNext ==
  ASSUME SleepInv, Running => Waiters, LeavesUnlinked, [Next]_vars
  PROVE  LeavesUnlinked'
<1> SUFFICES ASSUME Running', exiting', "unblock_waiter" \notin unguarded'
             PROVE  ~Linked(sched', current')
  BY DEF LeavesUnlinked
<1>1. /\ TypeOK /\ NobodyWakesIdle /\ sched \in SchedType /\ current \in Task
      /\ (Running => Core /\ Waiters) /\ "unblock_waiter" \notin unguarded
  BY UnguardedGrows DEF SleepInv, IInv, TypeOK, SchedType, current
<1>2. CASE UNCHANGED vars \/ Halted
  BY <1>1, <1>2 DEF LeavesUnlinked, Halted, vars, Running, Linked, In, current
<1>3. CASE Exit
  <2>1. Running /\ ~exiting /\ current # Idle
    BY <1>3 DEF Exit, InSyscall, InUserMode
  <2>2. sched' = [sched EXCEPT !.PID[current] = -1]
    BY <1>3, <2>1 DEF Exit
  <2>3. sched'.queue = sched.queue /\ sched'.current = sched.current
    BY <1>1, <2>2 DEF SchedType
  <2>4. ~Linked(sched, current)
    BY <1>1, <2>1, SyscallFacts
  <2>5. QED BY <2>3, <2>4 DEF Linked, In, current
<1>4. CASE ExitWake
  <2> DEFINE w == Head(waitList[current])
  <2>1. /\ Running /\ exiting /\ sched' = Update(sched, w, "readyqueue")
        /\ waitList[current] \in Seq(Task) /\ waitList[current] # <<>>
        /\ "readyqueue" \in QueueNames
    BY <1>1, <1>4 DEF ExitWake, TypeOK, QueueNames
  <2>2. w \in Task /\ Contains(waitList[current], w)
    BY <2>1, HeadTailProperties DEF Contains
  <2>3. Sleeps(sched, w)
    BY <1>1, <2>1, <2>2, AnchoredSleep DEF Waiters, AnchorLinked
  <2>4. w # current
    BY <1>1, <2>1, <2>3 DEF NobodyWakesIdle, Sleeps
  <2>5. NodeAsNeeded(sched, w)
    BY <1>1, <2>1, <2>2, <2>3, <2>4, SleeperNeeded
  <2>6. sched'.current = current
    BY <1>1, <2>1, <2>2, <2>5, UpdateFields DEF current
  <2>7. Linked(sched', current) <=> Linked(sched, current)
    BY <1>1, <1>4, <2>1, <2>4, ExitWakeCore DEF Running
  <2>8. QED BY <1>1, <2>1, <2>6, <2>7 DEF LeavesUnlinked, current
<1>5. CASE Fork \/ CreateThread \/ ForkNoFrames \/ Block \/ UnblockNobody
  BY <1>5 DEF Fork, CreateThread, Spawn, ForkNoFrames, Block, UnblockNobody, InSyscall,
              InUserMode
<1>6. ASSUME NEW pid \in Pids, Unblock(pid) \/ WaitThread(pid) PROVE FALSE
  BY <1>6 DEF Unblock, WaitThread, InSyscall, InUserMode
<1>7. CASE ExitDone \/ ClockInterrupt
  BY <1>7 DEF ExitDone, ClockInterrupt, InUserMode
<1>8. CASE CreateThreadPageFault \/ ForkPageFault
  BY <1>1, <1>8, PageFaultStep
<1>9. QED BY <1>2, <1>3, <1>4, <1>5, <1>6, <1>7, <1>8 DEF Next

\* sched_next_rr over a table in which the running task stays ready or not.
LEMMA NextRound ==
  ASSUME TypeOK, NEW s, MayYield(s), s.current = current, sched' = SchedNext(s),
         NEW stays \in BOOLEAN,
         current # Idle => (stays <=> s.current_state[current] = "ST_RUN")
  PROVE  RR!Yield(s.queue[RQ], stays)
<1> DEFINE q    == s.queue[RQ]
           back == IF s.current_state[current] = "ST_RUN" /\ current # Idle
                   THEN <<current>> ELSE <<>>
<1>1. /\ current' = NextTask(s)
      /\ q = <<>> => ReadyQueue' = back
      /\ q # <<>> => ReadyQueue' = Tail(q) \o back
  BY SchedNextQueue DEF MayYield, current, ReadyQueue, RQ
<1>2. back = RR!Requeued(stays)
  BY DEF RR!Requeued
<1>3. NextTask(s) = IF q = <<>> THEN Idle ELSE Head(q)
  BY DEF NextTask, RQ
<1> HIDE DEF q, back
<1>4. QED BY <1>1, <1>2, <1>3 DEF RR!Yield, q

\* The running task goes on being ready.
LEMMA StayRound ==
  ASSUME TypeOK, Core, ~exiting, NEW s, SameTable(s, sched), sched' = SchedNext(s)
  PROVE  RR!Yield(ReadyQueue, TRUE)
<1>1. MayYield(s)
  BY StayTable
<1>2. /\ s.current = current /\ s.current_state[current] = "ST_RUN"
      /\ s.queue[RQ] = ReadyQueue
  BY DEF SameTable, Core, CurrentFits, current, ReadyQueue, RQ
<1>3. QED BY <1>1, <1>2, NextRound

\* It goes to sleep.
LEMMA SleepRound ==
  ASSUME TypeOK, Core, ~exiting, current # Idle, NEW s, SameTable(s, sched),
         sched' = SchedNext(Update(s, current, "blocked"))
  PROVE  RR!Yield(ReadyQueue, FALSE)
<1> DEFINE z == Update(s, current, "blocked")
<1>1. /\ MayYield(z) /\ z.current = current /\ z.current_state[current] = "ST_BLOCKED"
  BY SleepTable
<1>2. z.queue[RQ] = ReadyQueue
  <2>1. /\ s \in SchedType /\ s.queue = sched.queue /\ current \in Task
        /\ "blocked" \in QueueNames /\ "blocked" # RQ /\ RQ \in QueueNames \ {"freequeue"}
    BY RQIsQueue DEF SameTable, TypeOK, SchedType, current, QueueNames, RQ
  <2>2. ~In(s, RQ, current)
    BY <2>1, SyscallFacts DEF In, Linked
  <2>3. QED BY <2>1, <2>2, UpdateQueue DEF ReadyQueue, RQ
<1> HIDE DEF z
<1>3. QED BY <1>1, <1>2, NextRound DEF z

\* It gives its PCB back.
LEMMA LeaveRound ==
  ASSUME TypeOK, Core, exiting, ~Linked(sched, current),
         sched' = SchedNext(Update(sched, current, "freequeue"))
  PROVE  RR!Yield(ReadyQueue, FALSE)
<1> DEFINE z == Update(sched, current, "freequeue")
<1>1. /\ sched \in SchedType /\ current \in Task /\ sched.PID[current] = -1
      /\ RQ \in QueueNames \ {"freequeue"} /\ "freequeue" \in QueueNames /\ RQ # "freequeue"
  BY RQIsQueue DEF TypeOK, SchedType, current, QueueNames, Core, CurrentFits
<1>2. NodeAsNeeded(sched, current)
  BY <1>1 DEF NodeAsNeeded, LeavesQueue
<1>3. /\ MayYield(z) /\ z.current = current /\ z.current_state[current] = "ST_FREE"
  BY <1>2, LeaveTable
<1>4. z.queue[RQ] = ReadyQueue
  <2>1. ~In(sched, RQ, current)
    BY <1>1 DEF In, Linked
  <2>2. QED BY <1>1, <2>1, UpdateQueue DEF ReadyQueue, RQ
<1> HIDE DEF z
<1>5. QED BY <1>3, <1>4, NextRound DEF z

\* A sleeper is not in the ready queue, and enters it at the tail.
LEMMA SleeperEnters ==
  ASSUME TypeOK, Core, NEW w \in Task, Sleeps(sched, w)
  PROVE  /\ \A i \in DOMAIN ReadyQueue : ReadyQueue[i] # w
         /\ sched.PID[w] > 0 =>
              Update(sched, w, "readyqueue").queue[RQ] = Append(ReadyQueue, w)
<1>1. /\ sched \in SchedType /\ RQ \in QueueNames /\ RQ # "freequeue"
      /\ ReadyQueue = sched.queue[RQ] /\ ReadyQueue \in Seq(Task)
  BY RQIsQueue DEF TypeOK, ReadyQueue, RQ
<1>2. ~In(sched, RQ, w)
  BY <1>1 DEF Core, Table, StatesAgree, StateOf, Sleeps, RQ
<1>3. DOMAIN ReadyQueue = 1 .. Len(ReadyQueue)
  BY <1>1, LenProperties
<1>4. QED BY <1>1, <1>2, <1>3, ReadyAtTail DEF In, Contains, RQ

LEMMA WakeRound ==
  ASSUME TypeOK, Core, NobodyWakesIdle, ~exiting, current # Idle,
         NEW w \in Task, Sleeps(sched, w),
         sched' = SchedNext(Update(sched, w, "readyqueue"))
  PROVE  RR!AdmitAndYield(w)
<1> DEFINE z == Update(sched, w, "readyqueue")
<1>1. w \notin {Idle, current}
  BY SyscallFacts DEF NobodyWakesIdle, Sleeps
<1>2. /\ MayYield(z) /\ z.current = current /\ z.current_state[current] = "ST_RUN"
      /\ sched.PID[w] > 0
  BY <1>1, WakeTable DEF Sleeps
<1>3. /\ z.queue[RQ] = Append(ReadyQueue, w)
      /\ \A i \in DOMAIN ReadyQueue : ReadyQueue[i] # w
  BY <1>2, SleeperEnters
<1> HIDE DEF z
<1>4. RR!Yield(z.queue[RQ], TRUE)
  BY <1>2, NextRound DEF z
<1>5. QED BY <1>1, <1>3, <1>4 DEF RR!AdmitAndYield

\* sys_exit wakes the tasks that wait for it one by one, and goes on.
LEMMA ExitWakeRound ==
  ASSUME TypeOK, Core, Waiters, NobodyWakesIdle, ExitWake, "unblock_waiter" \notin unguarded
  PROVE  \E w \in Task : RR!Admit(w)
<1> DEFINE w == Head(waitList[current])
<1>1. /\ exiting /\ sched' = Update(sched, w, "readyqueue")
      /\ waitList[current] \in Seq(Task) /\ waitList[current] # <<>>
      /\ "readyqueue" \in QueueNames /\ sched \in SchedType /\ current \in Task
  BY DEF ExitWake, TypeOK, SchedType, QueueNames, current
<1>2. w \in Task /\ Contains(waitList[current], w)
  BY <1>1, HeadTailProperties DEF Contains
<1> HIDE DEF w
<1>3. Sleeps(sched, w)
  BY <1>1, <1>2, AnchoredSleep DEF Waiters, AnchorLinked
<1>4. w \notin {Idle, current}
  BY <1>1, <1>3 DEF NobodyWakesIdle, Sleeps
<1>5. sched.PID[w] > 0
  <2>1. NodeAsNeeded(sched, w) /\ Linked(sched, w)
    BY <1>2, <1>3, <1>4, SleeperNeeded DEF Core, Table
  <2>2. QED BY <1>4, <2>1 DEF NodeAsNeeded, LeavesQueue
<1>6. /\ ReadyQueue' = Append(ReadyQueue, w)
      /\ \A i \in DOMAIN ReadyQueue : ReadyQueue[i] # w
  BY <1>1, <1>2, <1>3, <1>5, SleeperEnters DEF ReadyQueue, RQ
<1>7. current' = current
  BY <1>1, <1>2, UpdateKeeps DEF current
<1>8. QED BY <1>2, <1>4, <1>6, <1>7 DEF RR!Admit

\* fork and create_thread.
LEMMA SpawnRound ==
  ASSUME TypeOK, Core, ~exiting, FreeQueue # <<>>, Spawn(Head(FreeQueue))
  PROVE  \E c \in Task : RR!Admit(c)
<1> DEFINE c == Head(FreeQueue)
           rest == Tail(sched.queue["freequeue"])
           intact == sched.sound /\ ~AnchorLinked(c)
           taken == WithPcb(sched, rest, c, pidGlobal, "ST_RUN", intact)
<1>1. /\ sched \in SchedType /\ current \in Task /\ sched.queue \in Queues
      /\ RQ \in QueueNames /\ "freequeue" \in QueueNames /\ RQ # "freequeue"
      /\ NodesDistinct(sched.queue) /\ sched.current_state[current] = "ST_RUN" /\ intact \in BOOLEAN
      /\ pidGlobal \in Int /\ pidGlobal > 0 /\ sched.PID \in [Task -> Int]
  <2>1. sched \in SchedType /\ sched.queue \in Queues /\ NodesDistinct(sched.queue)
    BY SchedTypeQueues DEF TypeOK, Core, Table
  <2>2. RQ \in QueueNames /\ "freequeue" \in QueueNames /\ RQ # "freequeue"
    BY RQIsQueue DEF QueueNames
  <2>3. current \in Task /\ sched.current_state[current] = "ST_RUN" /\ sched.PID \in [Task -> Int]
    BY <2>1 DEF SchedType, current, Core, CurrentFits
  <2>4. intact \in BOOLEAN
    BY <2>1 DEF SchedType, AnchorLinked
  <2>5. pidGlobal \in Int /\ pidGlobal > 0
    BY PidAssumption, BoundAssumption DEF TypeOK
  <2>6. QED BY <2>1, <2>2, <2>3, <2>4, <2>5
<1>2. c \in Task /\ In(sched, "freequeue", c) /\ rest \in Seq(Task)
  BY <1>1, TailProperties, HeadTailProperties DEF FreeQueue, In, SchedType
<1>3. c # Idle /\ ~In(sched, RQ, c)
  BY <1>1, <1>2, IdleInNoQueue, InOneQueue DEF Core
<1>4. sched' = Update(taken, c, "readyqueue")
  BY <1>1 DEF Spawn, PcbTaken, PcbFilled, WithPcb
<1> HIDE DEF c, rest, intact
<1>5. /\ taken \in SchedType /\ taken.current = sched.current
      /\ taken.queue = [sched.queue EXCEPT !["freequeue"] = rest]
      /\ taken.PID = [sched.PID EXCEPT ![c] = pidGlobal]
  <2>1. /\ sched \in SchedType /\ rest \in Seq(Task) /\ c \in Task
        /\ pidGlobal \in Int /\ "ST_RUN" \in States /\ intact \in BOOLEAN
    BY <1>1, <1>2 DEF States
  <2>2. taken = WithPcb(sched, rest, c, pidGlobal, "ST_RUN", intact)
    OBVIOUS
  <2> DEFINE u == WithPcb(sched, rest, c, pidGlobal, "ST_RUN", intact)
  <2>3. /\ u \in SchedType
        /\ u.queue = [sched.queue EXCEPT !["freequeue"] = rest]
        /\ u.PID = [sched.PID EXCEPT ![c] = pidGlobal]
        /\ u.current_state = [sched.current_state EXCEPT ![c] = "ST_RUN"]
        /\ u.current = sched.current
        /\ u.sound = intact
    BY <2>1, WithPcbType
  <2> HIDE DEF u, taken
  <2>4. QED BY <2>2, <2>3 DEF u
<1> HIDE DEF taken
<1>6. taken.queue[RQ] = ReadyQueue /\ taken.PID[c] > 0
  BY <1>1, <1>2, <1>5 DEF ReadyQueue, RQ, Queues
<1>7. ReadyQueue' = Append(ReadyQueue, c)
  <2>1. ~In(taken, RQ, c)
    BY <1>3, <1>6 DEF In, ReadyQueue, RQ
  <2>2. QED BY <1>2, <1>4, <1>5, <1>6, <2>1, ReadyAtTail DEF ReadyQueue, RQ
<1>8. current' = current
  BY <1>1, <1>2, <1>4, <1>5, UpdateKeeps DEF current, RQ
<1>9. \A i \in DOMAIN ReadyQueue : ReadyQueue[i] # c
  <2>1. ReadyQueue \in Seq(Task)
    BY <1>1 DEF ReadyQueue, SchedType, RQ
  <2>2. QED BY <1>3, <2>1, LenProperties DEF In, Contains, ReadyQueue, RQ
<1>10. QED BY <1>2, <1>3, <1>7, <1>8, <1>9 DEF RR!Admit

\* A step that leaves the CPU and the ready queue alone.
LEMMA NoRound ==
  ASSUME current' = current, ReadyQueue' = ReadyQueue
  PROVE  [RR!Next]_(RR!rrvars)
BY DEF RR!rrvars

LEMMA StepsRound ==
  ASSUME SleepInv, Running => Waiters, LeavesUnlinked, [Next]_vars,
         "unblock_waiter" \notin unguarded'
  PROVE  [RR!Next]_(RR!rrvars)
<1>1. /\ TypeOK /\ NobodyWakesIdle /\ SameTable(sched, sched)
      /\ (Running => Core /\ Waiters) /\ sched \in SchedType /\ current \in Task
      /\ "unblock_waiter" \notin unguarded
  BY ItIsTheTable, UnguardedGrows DEF SleepInv, IInv, TypeOK, SchedType, current
<1>2. /\ \A stays \in BOOLEAN : RR!Yield(ReadyQueue, stays) => RR!Next
      /\ \A t \in Task : RR!Admit(t) \/ RR!AdmitAndYield(t) => RR!Next
  BY DEF RR!Next
<1>3. CASE UNCHANGED vars \/ Halted
  BY <1>3, NoRound DEF Halted, vars, current, ReadyQueue
<1>4. CASE Fork \/ CreateThread
  <2>1. Core /\ ~exiting /\ FreeQueue # <<>> /\ Spawn(Head(FreeQueue))
    BY <1>1, <1>4 DEF Fork, CreateThread, InSyscall, InUserMode
  <2>2. QED BY <1>1, <1>2, <2>1, SpawnRound
<1>5. CASE ForkNoFrames
  <2>1. /\ sched'.queue[RQ] = sched.queue[RQ] /\ sched'.current = sched.current
    BY <1>1, <1>5, RQIsQueue DEF ForkNoFrames, SchedType, RQ
  <2>2. QED BY <2>1, NoRound DEF current, ReadyQueue, RQ
<1>6. CASE Block
  <2>1. Core /\ ~exiting /\ current # Idle
    BY <1>1, <1>6 DEF Block, InSyscall, InUserMode
  <2>2. CASE UNCHANGED sched
    BY <2>2, NoRound DEF current, ReadyQueue
  <2>3. CASE sched' = SchedNext(Update(sched, current, "blocked"))
    BY <1>1, <1>2, <2>1, <2>3, SleepRound
  <2>4. QED BY <1>6, <2>2, <2>3 DEF Block
<1>7. ASSUME NEW pid \in Pids, Unblock(pid) PROVE RR!Next
  <2>1. Core /\ ~exiting /\ current # Idle
    BY <1>1, <1>7 DEF Unblock, InSyscall, InUserMode
  <2>2. PICK fill \in fills[current] :
          IF Sleeps(sched, fill)
          THEN sched' = SchedNext(Update(sched, fill, "readyqueue"))
          ELSE sched' = SchedNext(sched)
    BY <1>7 DEF Unblock, Sleeps
  <2>3. fill \in Task
    BY <1>1 DEF TypeOK
  <2>4. CASE Sleeps(sched, fill)
    BY <1>1, <1>2, <2>1, <2>2, <2>3, <2>4, WakeRound
  <2>5. CASE ~Sleeps(sched, fill)
    BY <1>1, <1>2, <2>1, <2>2, <2>5, StayRound
  <2>6. QED BY <2>4, <2>5
<1>8. CASE UnblockNobody
  <2>1. Core /\ ~exiting /\ sched' = SchedNext(sched)
    BY <1>1, <1>8 DEF UnblockNobody, InSyscall, InUserMode
  <2>2. QED BY <1>1, <1>2, <2>1, StayRound
<1>9. ASSUME NEW pid \in Pids, WaitThread(pid) PROVE [RR!Next]_(RR!rrvars)
  <2>1. Core /\ ~exiting /\ current # Idle
    BY <1>1, <1>9 DEF WaitThread, InSyscall, InUserMode
  <2>2. CASE UNCHANGED sched
    BY <2>2, NoRound DEF current, ReadyQueue
  <2>3. CASE ~UNCHANGED sched
    <3> DEFINE ok == sched.sound /\ ~AnchorLinked(current) /\ heads[FirstWith(pid)] # "copied"
               s  == [sched EXCEPT !.sound = ok]
    <3>1. sched' = SchedNext(Update(s, current, "blocked"))
      BY <1>9, <2>3 DEF WaitThread
    <3>2. ok \in BOOLEAN
      BY <1>1 DEF SchedType, AnchorLinked
    <3> HIDE DEF ok
    <3>3. SameTable(s, sched)
      BY <1>1, <3>2 DEF SameTable, SchedType
    <3> HIDE DEF s
    <3>4. QED BY <1>1, <1>2, <2>1, <3>1, <3>3, SleepRound
  <2>4. QED BY <2>2, <2>3
<1>10. CASE Exit
  <2>1. sched'.queue = sched.queue /\ sched'.current = sched.current
    BY <1>1, <1>10 DEF Exit, SchedType
  <2>2. QED BY <2>1, NoRound DEF current, ReadyQueue
<1>11. CASE ExitWake
  <2>1. Core /\ Waiters
    BY <1>1, <1>11 DEF ExitWake
  <2>2. QED BY <1>1, <1>2, <1>11, <2>1, ExitWakeRound
<1>12. CASE ExitDone
  <2>1. /\ Core /\ exiting /\ ~Linked(sched, current)
        /\ sched' = SchedNext(Update(sched, current, "freequeue"))
    BY <1>1, <1>12 DEF ExitDone, LeavesUnlinked
  <2>2. QED BY <1>1, <1>2, <2>1, LeaveRound
<1>13. CASE ClockInterrupt
  <2> DEFINE left == IF sched.tick_counter > 0 THEN sched.tick_counter - 1 ELSE 0
             ticked == [sched EXCEPT !.tick_counter = left]
  <2>1. Core /\ ~exiting
    BY <1>1, <1>13 DEF ClockInterrupt, InUserMode
  <2>2. sched' = SchedNext(ticked) \/ sched' = ticked
    BY <1>13 DEF ClockInterrupt, Clock
  <2>3. left \in 0 .. DEFAULT_QUANTUM_TICKS
    BY <1>1, QuantumAssumption DEF SchedType
  <2> HIDE DEF left
  <2>4. SameTable(ticked, sched)
    BY <1>1, <2>3 DEF SameTable, SchedType
  <2> HIDE DEF ticked
  <2>5. CASE sched' = SchedNext(ticked)
    BY <1>1, <1>2, <2>1, <2>4, <2>5, StayRound
  <2>6. CASE sched' = ticked
    BY <2>4, <2>6, NoRound DEF SameTable, current, ReadyQueue
  <2>7. QED BY <2>2, <2>5, <2>6
<1>14. CASE CreateThreadPageFault \/ ForkPageFault
  <2>1. sched'.queue[RQ] = sched.queue[RQ] /\ sched'.current = sched.current
    BY <1>1, <1>14, PageFaultSched, RQIsQueue DEF SchedType, RQ
  <2>2. QED BY <2>1, NoRound DEF current, ReadyQueue, RQ
<1>15. QED
  BY <1>3, <1>4, <1>5, <1>6, <1>7, <1>8, <1>9, <1>10, <1>11, <1>12, <1>13, <1>14 DEF Next

=============================================================================
