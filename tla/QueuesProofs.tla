----------------------------- MODULE QueuesProofs -----------------------------
(***************************************************************************)
(* What Kept returns.  Both lemmas are by induction on the length of a     *)
(* prefix, in the form "there is no least counterexample".                 *)
(***************************************************************************)
EXTENDS Queues, SequencesExt, FiniteSetTheorems, WellFoundedInduction, TLAPS

\* A set of naturals that is not empty has a least element.
LEMMA LeastNumber ==
    ASSUME NEW T \in SUBSET Nat, T # {} PROVE \E n \in T : \A m \in T : n <= m
<1>1. PICK n \in T : \A m \in T : <<m, n>> \notin OpToRel(<, Nat)
  BY NatLessThanWellFounded, WFMin
<1>2. \A m \in T : ~(m < n)
  BY <1>1 DEF OpToRel
<1> QED BY <1>2

\* The prefixes of Kept, as the recursive function of its definition.
Grows(f, queue, places) ==
    f = [n \in 0..Len(queue) |->
            IF n = 0 THEN <<>>
            ELSE IF n \in places THEN Append(f[n - 1], queue[n]) ELSE f[n - 1]]

\* "order" numbers the places of the first n messages that are kept.
Orders(order, kept, queue, places, n) ==
    /\ order \in [1..Len(kept) -> 1..n]
    /\ \A i \in 1..Len(kept) : order[i] \in places /\ kept[i] = queue[order[i]]
    /\ \A i, j \in 1..Len(kept) : i < j => order[i] < order[j]
    /\ \A m \in 1..n : m \in places => \E i \in 1..Len(kept) : order[i] = m

LEMMA PrefixesExist ==
    ASSUME NEW S, NEW queue \in Seq(S), NEW places PROVE \E f : Grows(f, queue, places)
<1> DEFINE Prefix(n, f) ==
             f = [k \in 0..n |-> IF k = 0 THEN <<>>
                                 ELSE IF k \in places THEN Append(f[k - 1], queue[k])
                                 ELSE f[k - 1]]
           T == {n \in Nat : ~\E f : Prefix(n, f)}
<1>1. 0 \notin T
  <2>1. Prefix(0, [k \in 0..0 |-> <<>>])
    OBVIOUS
  <2> QED BY <2>1
<1>2. ASSUME NEW n \in Nat, n \notin T PROVE n + 1 \notin T
  <2>1. PICK f : Prefix(n, f)
    BY <1>2
  <2> DEFINE g == [k \in 0..(n + 1) |->
                      IF k = 0 THEN <<>>
                      ELSE IF k \in places THEN Append(f[k - 1], queue[k]) ELSE f[k - 1]]
  <2>2. \A k \in 0..n : g[k] = f[k]
    <3>1. ASSUME NEW k \in 0..n
          PROVE  f[k] = IF k = 0 THEN <<>>
                        ELSE IF k \in places THEN Append(f[k - 1], queue[k]) ELSE f[k - 1]
      BY <2>1
    <3> QED BY <3>1
  <2>3. \A k \in 0..(n + 1) : k # 0 => k - 1 \in 0..n
    OBVIOUS
  <2>4. \A k \in 0..(n + 1) :
            g[k] = IF k = 0 THEN <<>>
                   ELSE IF k \in places THEN Append(g[k - 1], queue[k]) ELSE g[k - 1]
    BY <2>2, <2>3
  <2> HIDE DEF g
  <2>5. g = [k \in 0..(n + 1) |-> g[k]]
    BY DEF g
  <2>6. Prefix(n + 1, g)
    BY <2>4, <2>5
  <2> QED BY <2>6
<1> HIDE DEF T
<1>3. T = {}
  <2> SUFFICES ASSUME T # {} PROVE FALSE
    OBVIOUS
  <2>1. T \in SUBSET Nat
    BY DEF T
  <2>2. PICK n \in T : \A m \in T : n <= m
    BY <2>1, LeastNumber
  <2>3. n \in Nat /\ n # 0
    BY <1>1, <2>1, <2>2
  <2>4. n - 1 \in Nat /\ n - 1 \notin T /\ (n - 1) + 1 = n
    BY <2>1, <2>2, <2>3
  <2> QED BY <1>2, <2>2, <2>4
<1>4. PICK f : Prefix(Len(queue), f)
  BY <1>3 DEF T
<1> QED BY <1>4 DEF Grows

LEMMA PrefixesOrdered ==
    ASSUME NEW S, NEW queue \in Seq(S), NEW places, NEW f, Grows(f, queue, places)
    PROVE  \A n \in 0..Len(queue) :
               f[n] \in Seq(S) /\ \E order : Orders(order, f[n], queue, places, n)
<1> DEFINE Good(n) == f[n] \in Seq(S) /\ \E order : Orders(order, f[n], queue, places, n)
           T == {n \in 0..Len(queue) : ~Good(n)}
<1>0. \A n \in 0..Len(queue) :
          f[n] = IF n = 0 THEN <<>>
                 ELSE IF n \in places THEN Append(f[n - 1], queue[n]) ELSE f[n - 1]
  BY DEF Grows
<1>1. Good(0)
  <2>1. f[0] = <<>>
    BY <1>0
  <2>2. Orders(<<>>, <<>>, queue, places, 0)
    BY DEF Orders
  <2> QED BY <2>1, <2>2
<1>2. ASSUME NEW n \in 1..Len(queue), Good(n - 1) PROVE Good(n)
  <2>1. PICK order : Orders(order, f[n - 1], queue, places, n - 1)
    BY <1>2
  <2> DEFINE before == f[n - 1]
             len == Len(before)
  <2>2. before \in Seq(S) /\ len \in Nat /\ n \in Nat \ {0}
    BY <1>2
  <2>3. /\ order \in [1..len -> 1..(n - 1)]
        /\ \A i \in 1..len : order[i] \in places /\ before[i] = queue[order[i]]
        /\ \A i, j \in 1..len : i < j => order[i] < order[j]
        /\ \A m \in 1..(n - 1) : m \in places => \E i \in 1..len : order[i] = m
    BY <2>1 DEF Orders
  <2>4. CASE n \notin places
    <3>1. f[n] = before
      BY <1>0, <2>2, <2>4
    <3>2. \A m \in 1..n : m \in places => m \in 1..(n - 1)
      BY <2>2, <2>4
    <3>3. order \in [1..len -> 1..n]
      BY <2>2, <2>3
    <3>4. Orders(order, before, queue, places, n)
      BY <2>3, <3>2, <3>3 DEF Orders
    <3> QED BY <2>2, <3>1, <3>4
  <2>5. CASE n \in places
    <3> DEFINE longer == [i \in 1..(len + 1) |-> IF i <= len THEN order[i] ELSE n]
    <3>1. f[n] = Append(before, queue[n]) /\ queue[n] \in S
      <4>1. n \in 0..Len(queue) /\ n # 0
        OBVIOUS
      <4>2. queue[n] \in S
        OBVIOUS
      <4>3. f[n] = Append(before, queue[n])
        BY <1>0, <2>5, <4>1, Zenon
      <4> QED BY <4>2, <4>3
    <3>2. /\ f[n] \in Seq(S) /\ Len(f[n]) = len + 1
          /\ \A i \in 1..len : f[n][i] = before[i]
          /\ f[n][len + 1] = queue[n]
      BY <2>2, <3>1
    <3> HIDE DEF len, before
    <3>3. /\ \A i \in 1..len : i \in 1..(len + 1) /\ i <= len
          /\ len + 1 \in 1..(len + 1) /\ ~(len + 1 <= len)
          /\ \A i \in 1..(len + 1) : i \in 1..len \/ i = len + 1
          /\ \A i, j \in 1..(len + 1) : i < j => i \in 1..len
          /\ \A m \in 1..n : m \in 1..(n - 1) \/ m = n
          /\ \A m \in 1..(n - 1) : m \in 1..n /\ m < n
          /\ n \in 1..n
      BY <2>2
    <3>4. /\ \A i \in 1..len : longer[i] = order[i]
          /\ longer[len + 1] = n
      BY <3>3
    <3>5. longer \in [1..(len + 1) -> 1..n]
      <4> SUFFICES ASSUME NEW i \in 1..(len + 1)
                   PROVE  (IF i <= len THEN order[i] ELSE n) \in 1..n
        OBVIOUS
      <4>1. CASE i <= len
        <5>1. i \in 1..len
          BY <2>2, <4>1
        <5> QED BY <2>3, <3>3, <4>1, <5>1
      <4> QED BY <3>3, <4>1
    <3> HIDE DEF longer
    <3>6. \A i \in 1..(len + 1) : longer[i] \in places /\ f[n][i] = queue[longer[i]]
      BY <2>3, <2>5, <3>2, <3>3, <3>4
    <3>7. \A i, j \in 1..(len + 1) : i < j => longer[i] < longer[j]
      <4> SUFFICES ASSUME NEW i \in 1..(len + 1), NEW j \in 1..(len + 1), i < j
                   PROVE  longer[i] < longer[j]
        OBVIOUS
      <4>1. i \in 1..len
        BY <3>3
      <4>2. CASE j \in 1..len
        BY <2>3, <3>4, <4>1, <4>2
      <4>3. CASE j = len + 1
        BY <2>3, <3>3, <3>4, <4>1, <4>3
      <4> QED BY <3>3, <4>2, <4>3
    <3>8. ASSUME NEW m \in 1..n, m \in places PROVE \E i \in 1..(len + 1) : longer[i] = m
      <4>1. CASE m = n
        BY <3>3, <3>4, <4>1
      <4>2. CASE m # n
        <5>1. PICK i \in 1..len : order[i] = m
          BY <2>3, <3>3, <3>8, <4>2
        <5> QED BY <3>3, <3>4, <5>1
      <4> QED BY <4>1, <4>2
    <3>9. Orders(longer, f[n], queue, places, n)
      BY <3>2, <3>5, <3>6, <3>7, <3>8 DEF Orders
    <3> QED BY <3>2, <3>9
  <2> QED BY <2>4, <2>5
<1> HIDE DEF Good
<1>3. T = {}
  <2> SUFFICES ASSUME T # {} PROVE FALSE
    OBVIOUS
  <2>1. T \in SUBSET Nat
    OBVIOUS
  <2> HIDE DEF T
  <2>2. PICK n \in T : \A m \in T : n <= m
    BY <2>1, LeastNumber
  <2>3. n \in 1..Len(queue) /\ n # 0 /\ n \in Nat /\ ~Good(n)
    BY <1>1, <2>1, <2>2 DEF T
  <2>4. n - 1 \in 0..Len(queue) /\ n - 1 \notin T
    BY <2>1, <2>2, <2>3
  <2> QED BY <1>2, <2>3, <2>4 DEF T
<1> QED BY <1>3 DEF Good

\* What is kept is part of the queue, in the same order and with nothing missing.
LEMMA KeptIsOrdered ==
    ASSUME NEW S, NEW queue \in Seq(S), NEW places
    PROVE  /\ Kept(queue, places) \in Seq(S)
           /\ \E order : Orders(order, Kept(queue, places), queue, places, Len(queue))
<1> DEFINE f == CHOOSE g : Grows(g, queue, places)
<1>1. Grows(f, queue, places)
  BY PrefixesExist
<1>2. Kept(queue, places) = f[Len(queue)]
  BY DEF Kept, Grows
<1>3. Len(queue) \in 0..Len(queue)
  OBVIOUS
<1> HIDE DEF f
<1> QED BY <1>1, <1>2, <1>3, PrefixesOrdered

\* The messages that are kept, without their order.
LEMMA KeptMessages ==
    ASSUME NEW S, NEW queue \in Seq(S), NEW places
    PROVE  /\ Kept(queue, places) \in Seq(S)
           /\ \A i \in DOMAIN Kept(queue, places) :
                  \E k \in DOMAIN queue : k \in places /\ Kept(queue, places)[i] = queue[k]
           /\ \A k \in DOMAIN queue : k \in places =>
                  \E i \in DOMAIN Kept(queue, places) : Kept(queue, places)[i] = queue[k]
<1> DEFINE kept == Kept(queue, places)
<1>1. PICK order : Orders(order, kept, queue, places, Len(queue))
  BY KeptIsOrdered
<1>2. kept \in Seq(S)
  BY KeptIsOrdered
<1> HIDE DEF kept
<1>3. DOMAIN kept = 1..Len(kept) /\ DOMAIN queue = 1..Len(queue)
  BY <1>2
<1>4. ASSUME NEW i \in DOMAIN kept
      PROVE  \E k \in DOMAIN queue : k \in places /\ kept[i] = queue[k]
  <2>1. order[i] \in 1..Len(queue) /\ order[i] \in places /\ kept[i] = queue[order[i]]
    BY <1>1, <1>3 DEF Orders
  <2> QED BY <1>3, <2>1
<1>5. ASSUME NEW k \in DOMAIN queue, k \in places
      PROVE  \E i \in DOMAIN kept : kept[i] = queue[k]
  BY <1>1, <1>3, <1>5 DEF Orders
<1> QED BY <1>2, <1>4, <1>5 DEF kept

\* "kept" is what is left of the queue when messages are taken out.
Thinned(queue, kept) ==
    \E order \in [DOMAIN kept -> DOMAIN queue] :
        /\ \A i \in DOMAIN kept : kept[i] = queue[order[i]]
        /\ \A i, j \in DOMAIN kept : i < j => order[i] < order[j]

LEMMA KeptIsThinned ==
    ASSUME NEW S, NEW queue \in Seq(S), NEW places
    PROVE  Thinned(queue, Kept(queue, places))
<1> DEFINE kept == Kept(queue, places)
<1>1. PICK order : Orders(order, kept, queue, places, Len(queue))
  BY KeptIsOrdered
<1>2. kept \in Seq(S)
  BY KeptIsOrdered
<1> HIDE DEF kept
<1>3. DOMAIN kept = 1..Len(kept) /\ DOMAIN queue = 1..Len(queue)
  BY <1>2
<1>4. Thinned(queue, kept)
  BY <1>1, <1>3 DEF Orders, Thinned
<1> QED BY <1>4 DEF kept

LEMMA TailIsThinned ==
    ASSUME NEW S, NEW queue \in Seq(S), queue # <<>>
    PROVE  /\ Tail(queue) \in Seq(S) /\ Thinned(queue, Tail(queue))
           /\ Head(queue) = queue[1] /\ 1 \in DOMAIN queue
           /\ \A i \in DOMAIN Tail(queue) : i + 1 \in DOMAIN queue /\ Tail(queue)[i] = queue[i + 1]
           /\ \A i \in DOMAIN queue : i # 1 =>
                  i - 1 \in DOMAIN Tail(queue) /\ Tail(queue)[i - 1] = queue[i]
<1> DEFINE rest == Tail(queue)
           order == [i \in DOMAIN rest |-> i + 1]
<1>1. rest \in Seq(S) /\ Len(rest) = Len(queue) - 1 /\ Len(queue) \in Nat \ {0}
  OBVIOUS
<1>2. /\ DOMAIN rest = 1..(Len(queue) - 1) /\ DOMAIN queue = 1..Len(queue)
      /\ \A i \in 1..(Len(queue) - 1) : rest[i] = queue[i + 1]
  OBVIOUS
<1>3. /\ \A i \in DOMAIN rest : i \in Nat /\ i + 1 \in DOMAIN queue /\ rest[i] = queue[i + 1]
      /\ \A i \in DOMAIN queue : i # 1 =>
             i - 1 \in DOMAIN rest /\ (i - 1) + 1 = i
  BY <1>1, <1>2
<1>4. order \in [DOMAIN rest -> DOMAIN queue]
  BY <1>3
<1>5. \A i, j \in DOMAIN rest : i < j => order[i] < order[j]
  BY <1>3
<1>6. \A i \in DOMAIN rest : rest[i] = queue[order[i]]
  BY <1>3
<1>7. Thinned(queue, rest)
  <2> HIDE DEF rest, order
  <2> QED BY <1>4, <1>5, <1>6 DEF Thinned
<1>8. Head(queue) = queue[1] /\ 1 \in DOMAIN queue
  BY <1>1, <1>2
<1> HIDE DEF rest
<1>9. /\ rest \in Seq(S) /\ Thinned(queue, rest)
      /\ Head(queue) = queue[1] /\ 1 \in DOMAIN queue
      /\ \A i \in DOMAIN rest : i + 1 \in DOMAIN queue /\ rest[i] = queue[i + 1]
      /\ \A i \in DOMAIN queue : i # 1 =>
             i - 1 \in DOMAIN rest /\ rest[i - 1] = queue[i]
  BY <1>1, <1>3, <1>7, <1>8
<1> QED BY <1>9 DEF rest

LEMMA ThinnedTwice ==
    ASSUME NEW queue, NEW kept, NEW left, Thinned(queue, kept), Thinned(kept, left),
           DOMAIN left \subseteq Nat, DOMAIN kept \subseteq Nat
    PROVE  Thinned(queue, left)
<1>1. PICK f \in [DOMAIN kept -> DOMAIN queue] :
          /\ \A i \in DOMAIN kept : kept[i] = queue[f[i]]
          /\ \A i, j \in DOMAIN kept : i < j => f[i] < f[j]
  BY DEF Thinned
<1>2. PICK g \in [DOMAIN left -> DOMAIN kept] :
          /\ \A i \in DOMAIN left : left[i] = kept[g[i]]
          /\ \A i, j \in DOMAIN left : i < j => g[i] < g[j]
  BY DEF Thinned
<1> DEFINE h == [i \in DOMAIN left |-> f[g[i]]]
<1>3. h \in [DOMAIN left -> DOMAIN queue]
  BY <1>1, <1>2
<1>4. \A i \in DOMAIN left : g[i] \in DOMAIN kept /\ left[i] = queue[h[i]] /\ h[i] = f[g[i]]
  BY <1>1, <1>2
<1>5. \A i, j \in DOMAIN left : i < j => h[i] < h[j]
  BY <1>1, <1>2, <1>4
<1> HIDE DEF h
<1> QED BY <1>3, <1>4, <1>5 DEF Thinned

LEMMA Appended ==
    ASSUME NEW S, NEW s \in Seq(S), NEW x \in S
    PROVE  /\ Append(s, x) \in Seq(S) /\ DOMAIN s \subseteq Nat /\ Len(s) \in Nat
           /\ \A i \in DOMAIN s : /\ i \in DOMAIN Append(s, x) /\ Append(s, x)[i] = s[i]
                                  /\ i <= Len(s)
           /\ Len(s) + 1 \in DOMAIN Append(s, x) /\ Append(s, x)[Len(s) + 1] = x
           /\ \A i \in DOMAIN Append(s, x) : i \in DOMAIN s \/ i = Len(s) + 1
           /\ s # <<>> => Append(s, x) # <<>> /\ Head(Append(s, x)) = Head(s)
<1> DEFINE t == Append(s, x)
<1>1. /\ t \in Seq(S) /\ Len(t) = Len(s) + 1 /\ Len(s) \in Nat
      /\ DOMAIN s = 1..Len(s) /\ DOMAIN t = 1..(Len(s) + 1)
  OBVIOUS
<1>2. (\A i \in 1..Len(s) : t[i] = s[i]) /\ t[Len(s) + 1] = x
  OBVIOUS
<1>3. s # <<>> => t # <<>> /\ Head(t) = Head(s)
  BY <1>1, <1>2
<1>4. /\ 1..Len(s) \subseteq Nat /\ Len(s) + 1 \in 1..(Len(s) + 1)
      /\ \A i \in 1..Len(s) : i \in 1..(Len(s) + 1) /\ i <= Len(s)
      /\ \A i \in 1..(Len(s) + 1) : i \in 1..Len(s) \/ i = Len(s) + 1
  BY <1>1
<1> HIDE DEF t
<1>5. /\ t \in Seq(S) /\ DOMAIN s \subseteq Nat /\ Len(s) \in Nat
      /\ \A i \in DOMAIN s : i \in DOMAIN t /\ t[i] = s[i] /\ i <= Len(s)
      /\ Len(s) + 1 \in DOMAIN t /\ t[Len(s) + 1] = x
      /\ \A i \in DOMAIN t : i \in DOMAIN s \/ i = Len(s) + 1
  BY <1>1, <1>2, <1>4
<1> QED BY <1>3, <1>5 DEF t

\* The messages of two queues, one behind the other
LEMMA Joined ==
    ASSUME NEW S, NEW s \in Seq(S), NEW t \in Seq(S)
    PROVE  /\ s \o t \in Seq(S)
           /\ DOMAIN s \subseteq Nat /\ DOMAIN t \subseteq Nat \ {0} /\ Len(s) \in Nat
           /\ \A i \in DOMAIN s : /\ i \in DOMAIN (s \o t) /\ (s \o t)[i] = s[i]
                                  /\ i <= Len(s) /\ s[i] \in S
           /\ \A i \in DOMAIN t : /\ Len(s) + i \in DOMAIN (s \o t)
                                  /\ (s \o t)[Len(s) + i] = t[i] /\ t[i] \in S
           /\ \A i \in DOMAIN (s \o t) :
                  \/ i \in DOMAIN s
                  \/ \E k \in DOMAIN t : i = Len(s) + k
           /\ s # <<>> => s \o t # <<>> /\ Head(s \o t) = Head(s)
<1>1. /\ s \o t \in Seq(S) /\ Len(s \o t) = Len(s) + Len(t) /\ Len(s) \in Nat /\ Len(t) \in Nat
      /\ DOMAIN s = 1..Len(s) /\ DOMAIN t = 1..Len(t) /\ DOMAIN (s \o t) = 1..(Len(s) + Len(t))
  OBVIOUS
<1>2. \A i \in 1..Len(s) : (s \o t)[i] = s[i] /\ s[i] \in S
  OBVIOUS
<1>3. ASSUME NEW i \in 1..Len(t) PROVE (s \o t)[Len(s) + i] = t[i] /\ t[i] \in S
  <2>1. Len(s) + i \in 1..Len(s \o t) /\ Len(s) + i > Len(s)
    BY <1>1
  <2> QED BY <1>1, <2>1
<1>4. ASSUME NEW i \in DOMAIN (s \o t), i \notin DOMAIN s PROVE \E k \in DOMAIN t : i = Len(s) + k
  <2>1. i - Len(s) \in DOMAIN t /\ i = Len(s) + (i - Len(s))
    BY <1>1, <1>4
  <2> QED BY <2>1
<1>5. s # <<>> => s \o t # <<>> /\ Head(s \o t) = Head(s)
  BY <1>1, <1>2
<1>6. /\ \A i \in 1..Len(s) : i \in 1..(Len(s) + Len(t)) /\ i <= Len(s)
      /\ \A i \in 1..Len(t) : Len(s) + i \in 1..(Len(s) + Len(t))
      /\ 1..Len(s) \subseteq Nat /\ 1..Len(t) \subseteq Nat \ {0}
  BY <1>1
<1> QED BY <1>1, <1>2, <1>3, <1>4, <1>5, <1>6

\* SetToSeq numbers the elements of a finite set.
LEMMA SetToSeqNumbers ==
    ASSUME NEW S, IsFiniteSet(S)
    PROVE  /\ Cardinality(S) \in Nat
           /\ SetToSeq(S) \in [1..Cardinality(S) -> S]
           /\ \A x \in S : \E i \in 1..Cardinality(S) : SetToSeq(S)[i] = x
           /\ \A i, j \in 1..Cardinality(S) : SetToSeq(S)[i] = SetToSeq(S)[j] => i = j
<1> DEFINE D == 1..Cardinality(S)
           f == SetToSeq(S)
<1>1. Cardinality(S) \in Nat /\ ExistsBijection(D, S)
  BY FS_CardinalityType
<1>2. \E g \in [D -> S] : IsInjective(g)
  BY <1>1 DEF ExistsBijection, Bijection, Injection, IsInjective
<1>3. f \in [D -> S] /\ IsInjective(f)
  BY <1>2 DEF SetToSeq
<1>4. f \in Injection(D, S)
  BY <1>3 DEF Injection, IsInjective
<1>5. IsFiniteSet(D) /\ Cardinality(D) = Cardinality(S)
  BY <1>1, FS_Interval
<1>6. f \in Surjection(D, S)
  BY <1>4, <1>5, FS_Injection
<1>7. \A i, j \in D : f[i] = f[j] => i = j
  BY <1>3 DEF IsInjective
<1> QED BY <1>1, <1>3, <1>6, <1>7 DEF Surjection
=============================================================================
