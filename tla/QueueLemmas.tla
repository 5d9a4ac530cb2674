----------------------------- MODULE QueueLemmas -----------------------------
(* What adding to and taking from a list of distinct nodes does to its elements. *)
EXTENDS Queues, SequenceTheorems, TLAPS

\* ToSet() collects the elements at the positions of a sequence.
LEMMA ToSetMember ==
    ASSUME NEW S, NEW s \in Seq(S), NEW x
    PROVE  x \in ToSet(s) <=> \E i \in 1 .. Len(s) : s[i] = x
BY LenProperties DEF ToSet

\* NODE_ADDTAIL() and PutMsg(): one more element, at most once if it was not linked.
LEMMA AppendPlace ==
    ASSUME NEW S, NEW s \in Seq(S), NEW x \in S
    PROVE  /\ Append(s, x) \in Seq(S)
           /\ ToSet(Append(s, x)) = ToSet(s) \cup {x}
           /\ Distinct(s) /\ x \notin ToSet(s) => Distinct(Append(s, x))
<1> DEFINE t == Append(s, x)
<1>1. /\ t \in Seq(S) /\ Len(t) = Len(s) + 1 /\ Len(s) \in Nat
      /\ \A i \in 1 .. Len(s) : t[i] = s[i]
      /\ t[Len(s) + 1] = x
  BY AppendProperties, LenProperties
<1>2. ToSet(t) = ToSet(s) \cup {x}
  <2>1. \A y : y \in ToSet(t) <=> \E i \in 1 .. Len(t) : t[i] = y
    BY <1>1, ToSetMember
  <2>2. \A y : y \in ToSet(s) <=> \E i \in 1 .. Len(s) : s[i] = y
    BY ToSetMember
  <2> HIDE DEF t
  <2>3. \A y : y \in ToSet(t) <=> y \in ToSet(s) \/ y = x
    BY <1>1, <2>1, <2>2
  <2> QED BY <2>3
<1>3. ASSUME Distinct(s), x \notin ToSet(s) PROVE Distinct(t)
  <2>1. \A i \in 1 .. Len(s) : s[i] # x
    BY <1>3, ToSetMember
  <2> HIDE DEF t
  <2> QED BY <1>1, <1>3, <2>1 DEF Distinct
<1> QED BY <1>1, <1>2, <1>3

\* NODE_REMHEAD() and GetMsg(): the head leaves, and is then nowhere in the rest.
LEMMA TailPlace ==
    ASSUME NEW S, NEW s \in Seq(S), s # <<>>
    PROVE  /\ Head(s) \in S /\ Tail(s) \in Seq(S)
           /\ Head(s) \in ToSet(s)
           /\ ToSet(Tail(s)) \subseteq ToSet(s)
           /\ ToSet(s) = ToSet(Tail(s)) \cup {Head(s)}
           /\ Distinct(s) => Distinct(Tail(s)) /\ Head(s) \notin ToSet(Tail(s))
<1> DEFINE t == Tail(s)
<1>1. /\ Head(s) \in S /\ t \in Seq(S) /\ Len(t) = Len(s) - 1
      /\ \A i \in 1 .. Len(t) : t[i] = s[i + 1]
      /\ Len(s) \in Nat /\ Len(s) # 0 /\ Head(s) = s[1]
  BY HeadTailProperties, LenProperties, EmptySeq
<1>2. \A y : y \in ToSet(t) <=> \E i \in 1 .. Len(t) : t[i] = y
  BY <1>1, ToSetMember
<1>3. \A y : y \in ToSet(s) <=> \E i \in 1 .. Len(s) : s[i] = y
  BY ToSetMember
<1> HIDE DEF t
<1>4. \A y : y \in ToSet(s) => y = Head(s) \/ y \in ToSet(t)
  <2>1. TAKE y
  <2>2. SUFFICES ASSUME y \in ToSet(s), y # Head(s) PROVE y \in ToSet(t)
    OBVIOUS
  <2>3. PICK i \in 1 .. Len(s) : s[i] = y
    BY <2>2, <1>3
  <2>4. i - 1 \in 1 .. Len(t) /\ t[i - 1] = y
    BY <2>2, <2>3, <1>1
  <2> QED BY <2>4, <1>2
<1>5. \A y : y \in ToSet(t) => y \in ToSet(s)
  <2>1. SUFFICES ASSUME NEW y, NEW i \in 1 .. Len(t), t[i] = y PROVE y \in ToSet(s)
    BY <1>2
  <2>2. i + 1 \in 1 .. Len(s) /\ s[i + 1] = y
    BY <2>1, <1>1
  <2> QED BY <2>2, <1>3
<1>6. Head(s) \in ToSet(s)
  BY <1>1, <1>3
<1>7. ASSUME Distinct(s) PROVE Distinct(t) /\ Head(s) \notin ToSet(t)
  BY <1>1, <1>2, <1>7 DEF Distinct
<1>8. ToSet(s) = ToSet(t) \cup {Head(s)}
  BY <1>4, <1>5, <1>6
<1> QED BY <1>1, <1>5, <1>6, <1>7, <1>8 DEF t

\* What RemoveAt() leaves, place by place.
LEMMA RemoveAtElements ==
    ASSUME NEW S, NEW s \in Seq(S), NEW i \in 1 .. Len(s)
    PROVE  /\ RemoveAt(s, i) \in Seq(S) /\ Len(RemoveAt(s, i)) = Len(s) - 1
           /\ \A k \in 1 .. (Len(s) - 1) :
                 RemoveAt(s, i)[k] = IF k < i THEN s[k] ELSE s[k + 1]
<1> DEFINE n == Len(s)
           a == SubSeq(s, 1, i - 1)
           b == SubSeq(s, i + 1, n)
<1>1. n \in Nat /\ i \in Int /\ 1 <= i /\ i <= n
  BY LenProperties
<1>2. a \in Seq(S) /\ Len(a) = i - 1 /\ \A k \in 1 .. (i - 1) : a[k] = s[k]
  <2>1. \A k \in 1 .. (i - 1) : s[k] \in S
    BY <1>1, ElementOfSeq
  <2>2. /\ a \in Seq(S) /\ Len(a) = IF 1 <= i - 1 THEN (i - 1) - 1 + 1 ELSE 0
        /\ \A k \in 1 .. ((i - 1) - 1 + 1) : a[k] = s[1 + k - 1]
    BY <1>1, <2>1, SubSeqProperties
  <2> HIDE DEF a
  <2> QED BY <1>1, <2>2
<1>3. b \in Seq(S) /\ Len(b) = n - i /\ \A k \in 1 .. (n - i) : b[k] = s[i + k]
  <2>1. \A k \in (i + 1) .. n : s[k] \in S
    BY <1>1, ElementOfSeq
  <2>2. /\ b \in Seq(S) /\ Len(b) = IF i + 1 <= n THEN n - (i + 1) + 1 ELSE 0
        /\ \A k \in 1 .. (n - (i + 1) + 1) : b[k] = s[(i + 1) + k - 1]
    BY <1>1, <2>1, SubSeqProperties
  <2> HIDE DEF b
  <2> QED BY <1>1, <2>2
<1>4. RemoveAt(s, i) = a \o b
  BY DEF RemoveAt
<1> HIDE DEF a, b, n
<1>5. /\ a \o b \in Seq(S) /\ Len(a \o b) = (i - 1) + (n - i)
      /\ \A k \in 1 .. (i - 1) + (n - i) :
            (a \o b)[k] = IF k <= i - 1 THEN a[k] ELSE b[k - (i - 1)]
  <2>1. /\ a \o b \in Seq(S) /\ Len(a \o b) = Len(a) + Len(b)
        /\ \A k \in 1 .. Len(a) + Len(b) :
              (a \o b)[k] = IF k <= Len(a) THEN a[k] ELSE b[k - Len(a)]
    BY <1>2, <1>3, ConcatProperties
  <2> QED BY <1>2, <1>3, <2>1
<1>6. ASSUME NEW k \in 1 .. (n - 1) PROVE (a \o b)[k] = IF k < i THEN s[k] ELSE s[k + 1]
  <2>1. (a \o b)[k] = IF k <= i - 1 THEN a[k] ELSE b[k - (i - 1)]
    BY <1>1, <1>5
  <2>2. CASE k < i
    BY <1>1, <1>2, <2>1, <2>2
  <2>3. CASE ~ (k < i)
    <3>1. k - (i - 1) \in 1 .. (n - i) /\ i + (k - (i - 1)) = k + 1
      BY <1>1, <2>3
    <3>2. b[k - (i - 1)] = s[k + 1]
      BY <1>3, <3>1
    <3> QED BY <1>1, <2>1, <2>3, <3>2
  <2> QED BY <2>2, <2>3
<1> QED BY <1>1, <1>4, <1>5, <1>6 DEF n

\* NODE_REMNODE(): exactly the node at a position leaves.
LEMMA RemoveAtPlace ==
    ASSUME NEW S, NEW s \in Seq(S), NEW i \in 1 .. Len(s)
    PROVE  /\ RemoveAt(s, i) \in Seq(S)
           /\ ToSet(RemoveAt(s, i)) \subseteq ToSet(s)
           /\ s[i] \in ToSet(s)
           /\ ToSet(s) \subseteq ToSet(RemoveAt(s, i)) \cup {s[i]}
           /\ Distinct(s) => Distinct(RemoveAt(s, i)) /\ s[i] \notin ToSet(RemoveAt(s, i))
<1> DEFINE n == Len(s)
           t == RemoveAt(s, i)
<1>1. n \in Nat /\ i \in Int /\ 1 <= i /\ i <= n
  BY LenProperties
<1>2. /\ t \in Seq(S) /\ Len(t) = n - 1
      /\ \A k \in 1 .. (n - 1) : t[k] = IF k < i THEN s[k] ELSE s[k + 1]
  BY RemoveAtElements
<1>3. \A y : y \in ToSet(t) <=> \E k \in 1 .. Len(t) : t[k] = y
  BY <1>2, ToSetMember
<1>4. \A y : y \in ToSet(s) <=> \E k \in 1 .. n : s[k] = y
  BY ToSetMember
<1> HIDE DEF t, n
<1>5. ASSUME NEW y \in ToSet(t) PROVE y \in ToSet(s)
  <2>1. PICK k \in 1 .. Len(t) : t[k] = y
    BY <1>3
  <2>2. k \in 1 .. n /\ k + 1 \in 1 .. n
    BY <1>1, <1>2, <2>1
  <2> QED BY <1>2, <1>4, <2>1, <2>2
<1>6. ASSUME NEW y \in ToSet(s), y # s[i] PROVE y \in ToSet(t)
  <2>1. PICK k \in 1 .. n : s[k] = y
    BY <1>4
  <2>2. CASE k < i
    <3>1. k \in 1 .. (n - 1)
      BY <1>1, <2>2
    <3>2. k \in 1 .. Len(t) /\ t[k] = y
      BY <1>2, <2>1, <2>2, <3>1
    <3> QED BY <1>3, <3>2
  <2>3. CASE k > i
    <3>1. k - 1 \in 1 .. (n - 1) /\ ~ (k - 1 < i) /\ (k - 1) + 1 = k
      BY <1>1, <2>3
    <3>2. k - 1 \in 1 .. Len(t) /\ t[k - 1] = y
      BY <1>2, <2>1, <3>1
    <3> QED BY <1>3, <3>2
  <2> QED BY <1>1, <1>6, <2>1, <2>2, <2>3
<1>7. ASSUME Distinct(s) PROVE Distinct(t) /\ s[i] \notin ToSet(t)
  <2>1. \A j, k \in 1 .. n : s[j] = s[k] => j = k
    BY <1>7 DEF Distinct, n
  <2>2. ASSUME NEW j \in 1 .. Len(t), NEW k \in 1 .. Len(t), t[j] = t[k] PROVE j = k
    BY <1>1, <1>2, <2>1, <2>2
  <2>3. ASSUME NEW k \in 1 .. Len(t) PROVE t[k] # s[i]
    BY <1>1, <1>2, <2>1, <2>3
  <2> QED BY <1>3, <2>2, <2>3 DEF Distinct
<1> QED BY <1>1, <1>2, <1>4, <1>5, <1>6, <1>7 DEF t, n

\* One element before a queue.
LEMMA ConsPlace ==
    ASSUME NEW S, NEW s \in Seq(S), NEW x \in S
    PROVE  /\ <<x>> \o s \in Seq(S) /\ <<x>> \o s # <<>>
           /\ Len(<<x>> \o s) = Len(s) + 1
           /\ (<<x>> \o s)[1] = x /\ \A i \in 1 .. Len(s) : (<<x>> \o s)[i + 1] = s[i]
           /\ Head(<<x>> \o s) = x /\ Tail(<<x>> \o s) = s
           /\ ToSet(<<x>> \o s) = {x} \cup ToSet(s)
<1> DEFINE t == <<x>> \o s
           n == Len(s)
<1>1. n \in Nat /\ <<x>> \in Seq(S) /\ Len(<<x>>) = 1 /\ <<x>>[1] = x
  BY LenProperties
<1>2. /\ t \in Seq(S) /\ Len(t) = 1 + n
      /\ \A i \in 1 .. 1 + n : t[i] = IF i <= 1 THEN x ELSE s[i - 1]
  <2>1. /\ t \in Seq(S) /\ Len(t) = Len(<<x>>) + n
        /\ \A i \in 1 .. Len(<<x>>) + n :
              t[i] = IF i <= Len(<<x>>) THEN <<x>>[i] ELSE s[i - Len(<<x>>)]
    BY <1>1, ConcatProperties
  <2>2. ASSUME NEW i \in 1 .. 1 + n PROVE t[i] = IF i <= 1 THEN x ELSE s[i - 1]
    <3>1. t[i] = IF i <= 1 THEN <<x>>[i] ELSE s[i - 1]
      BY <1>1, <2>1
    <3>2. i <= 1 => i = 1
      BY <1>1
    <3> QED BY <1>1, <3>1, <3>2
  <2> QED BY <1>1, <2>1, <2>2
<1> HIDE DEF t, n
<1>3. t[1] = x /\ \A i \in 1 .. n : t[i + 1] = s[i]
  <2>1. ASSUME NEW i \in 1 .. n PROVE t[i + 1] = s[i]
    <3>1. i + 1 \in 1 .. 1 + n /\ ~ (i + 1 <= 1) /\ (i + 1) - 1 = i
      BY <1>1
    <3> QED BY <1>2, <3>1
  <2> QED BY <1>1, <1>2, <2>1
<1>4. t # <<>>
  BY <1>1, <1>2, EmptySeq
<1>5. Head(t) = x /\ Tail(t) = s
  <2>1. Head(t) = t[1] /\ Tail(t) \in Seq(S) /\ Len(Tail(t)) = n
        /\ \A i \in 1 .. Len(Tail(t)) : Tail(t)[i] = t[i + 1]
    BY <1>1, <1>2, <1>4, HeadTailProperties
  <2>2. Len(Tail(t)) = Len(s) /\ \A i \in 1 .. Len(Tail(t)) : Tail(t)[i] = s[i]
    BY <1>3, <2>1 DEF n
  <2>3. Tail(t) = s
    BY <2>1, <2>2, SeqEqual
  <2> QED BY <1>3, <2>1, <2>3
<1>6. ToSet(t) = {x} \cup ToSet(s)
  <2>1. \A y : y \in ToSet(t) <=> \E i \in 1 .. Len(t) : t[i] = y
    BY <1>2, ToSetMember
  <2>2. \A y : y \in ToSet(s) <=> \E i \in 1 .. n : s[i] = y
    BY ToSetMember DEF n
  <2>3. ASSUME NEW y \in ToSet(t) PROVE y \in {x} \cup ToSet(s)
    <3>1. PICK i \in 1 .. Len(t) : t[i] = y
      BY <2>1
    <3>2. i = 1 \/ i - 1 \in 1 .. n
      BY <1>1, <1>2, <3>1
    <3> QED BY <1>1, <1>2, <2>2, <3>1, <3>2
  <2>4. ASSUME NEW y \in {x} \cup ToSet(s) PROVE y \in ToSet(t)
    <3>1. CASE y = x
      <4>1. 1 \in 1 .. Len(t)
        BY <1>1, <1>2
      <4> QED BY <1>3, <2>1, <3>1, <4>1
    <3>2. CASE y \in ToSet(s)
      <4>1. PICK i \in 1 .. n : s[i] = y
        BY <2>2, <3>2
      <4>2. i + 1 \in 1 .. Len(t)
        BY <1>1, <1>2, <4>1
      <4> QED BY <1>3, <2>1, <4>1, <4>2
    <3> QED BY <2>4, <3>1, <3>2
  <2> QED BY <2>3, <2>4
<1> QED BY <1>1, <1>2, <1>3, <1>4, <1>5, <1>6 DEF t, n

\* A queue is its first element before the rest.
LEMMA HeadBeforeTail ==
    ASSUME NEW S, NEW s \in Seq(S), s # <<>>
    PROVE  s = <<Head(s)>> \o Tail(s)
<1>1. Head(s) \in S /\ Tail(s) \in Seq(S) /\ Len(Tail(s)) = Len(s) - 1
      /\ Head(s) = s[1] /\ Len(s) \in Nat \ {0}
      /\ \A i \in 1 .. Len(Tail(s)) : Tail(s)[i] = s[i + 1]
  BY HeadTailProperties, EmptySeq
<1> DEFINE t == <<Head(s)>> \o Tail(s)
<1>2. /\ t \in Seq(S) /\ Len(t) = Len(Tail(s)) + 1 /\ t[1] = Head(s)
      /\ \A i \in 1 .. Len(Tail(s)) : t[i + 1] = Tail(s)[i]
  BY <1>1, ConsPlace
<1> HIDE DEF t
<1>3. ASSUME NEW i \in 1 .. Len(s) PROVE s[i] = t[i]
  <2>1. CASE i = 1
    BY <1>1, <1>2, <2>1
  <2>2. CASE i # 1
    <3>1. i - 1 \in 1 .. Len(Tail(s)) /\ (i - 1) + 1 = i
      BY <1>1, <2>2
    <3> QED BY <1>1, <1>2, <3>1
  <2> QED BY <2>1, <2>2
<1>4. Len(s) = Len(t)
  BY <1>1, <1>2
<1>5. s = t
  BY <1>2, <1>3, <1>4, SeqEqual
<1> QED BY <1>5 DEF t

\* Appending and removing behind a first element are done to the rest.
LEMMA ConsAppend ==
    ASSUME NEW S, NEW s \in Seq(S), NEW x \in S, NEW y \in S
    PROVE  Append(<<x>> \o s, y) = <<x>> \o Append(s, y)
<1>1. <<x>> \in Seq(S) /\ <<y>> \in Seq(S) /\ <<x>> \o s \in Seq(S)
  BY ConsPlace
<1>2. Append(<<x>> \o s, y) = (<<x>> \o s) \o <<y>> /\ Append(s, y) = s \o <<y>>
  BY <1>1, AppendIsConcat
<1> QED BY <1>1, <1>2, ConcatAssociative

LEMMA ConsRemoveAt ==
    ASSUME NEW S, NEW s \in Seq(S), NEW x \in S
    PROVE  /\ RemoveAt(<<x>> \o s, 1) = s
           /\ \A i \in 1 .. Len(s) : RemoveAt(<<x>> \o s, i + 1) = <<x>> \o RemoveAt(s, i)
<1> DEFINE t == <<x>> \o s
           n == Len(s)
<1>1. /\ n \in Nat /\ t \in Seq(S) /\ Len(t) = n + 1 /\ t[1] = x
      /\ \A i \in 1 .. n : t[i + 1] = s[i]
  BY LenProperties, ConsPlace
<1> HIDE DEF t, n
<1>2. RemoveAt(t, 1) = s
  <2>1. 1 \in 1 .. Len(t) /\ Len(t) - 1 = n
    BY <1>1
  <2>2. /\ RemoveAt(t, 1) \in Seq(S) /\ Len(RemoveAt(t, 1)) = n
        /\ \A k \in 1 .. n : RemoveAt(t, 1)[k] = IF k < 1 THEN t[k] ELSE t[k + 1]
    BY <1>1, <2>1, RemoveAtElements
  <2>3. \A k \in 1 .. n : RemoveAt(t, 1)[k] = s[k]
    BY <1>1, <2>2
  <2> QED BY <2>2, <2>3, SeqEqual DEF n
<1>3. ASSUME NEW i \in 1 .. n PROVE RemoveAt(t, i + 1) = <<x>> \o RemoveAt(s, i)
  <2> DEFINE u == RemoveAt(s, i)
             v == RemoveAt(t, i + 1)
             w == <<x>> \o u
  <2>1. /\ u \in Seq(S) /\ Len(u) = n - 1
        /\ \A k \in 1 .. (n - 1) : u[k] = IF k < i THEN s[k] ELSE s[k + 1]
    BY RemoveAtElements DEF n
  <2>2. /\ v \in Seq(S) /\ Len(v) = n
        /\ \A k \in 1 .. n : v[k] = IF k < i + 1 THEN t[k] ELSE t[k + 1]
    <3>1. i + 1 \in 1 .. Len(t) /\ Len(t) - 1 = n
      BY <1>1
    <3> QED BY <1>1, <3>1, RemoveAtElements
  <2>3. /\ w \in Seq(S) /\ Len(w) = n /\ w[1] = x
        /\ \A k \in 1 .. (n - 1) : w[k + 1] = u[k]
    <3> HIDE DEF u
    <3> QED BY <1>1, <2>1, ConsPlace
  <2> HIDE DEF u, v, w
  <2>4. ASSUME NEW k \in 1 .. n PROVE v[k] = w[k]
    <3>1. CASE k = 1
      BY <1>1, <2>2, <2>3, <3>1
    <3>2. CASE k # 1
      <4>1. k - 1 \in 1 .. (n - 1) /\ (k - 1) + 1 = k /\ k \in 1 .. n
        BY <1>1, <3>2
      <4>2. w[k] = IF k - 1 < i THEN s[k - 1] ELSE s[k]
        BY <2>1, <2>3, <4>1
      <4>3. t[k] = s[k - 1] /\ t[k + 1] = s[k]
        BY <1>1, <4>1
      <4> QED BY <1>1, <2>2, <4>2, <4>3
    <3> QED BY <3>1, <3>2
  <2>5. v = w
    BY <2>2, <2>3, <2>4, SeqEqual
  <2> QED BY <2>5 DEF u, v, w
<1> QED BY <1>2, <1>3 DEF t, n
=============================================================================
