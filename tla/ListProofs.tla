----------------------------- MODULE ListProofs -----------------------------
(***************************************************************************)
(* The list keeps the sequence its callers asked for, and its destruction  *)
(* frees each node once, for every number of nodes.                        *)
(*                                                                         *)
(* Represents is nearly inductive.  What it lacks is that order names      *)
(* every node once (Listed): an insertion redirects the pointer of one     *)
(* node, which must not stand at a second position.  Swept adds what       *)
(* list_destroy has done: the nodes of a prefix of order are freed, and    *)
(* the cursor is at the node after it.                                     *)
(***************************************************************************)
EXTENDS List, TLAPS

\* s names each of 1..n, and none twice.
Onto(s, n)  == \A m \in 1..n : \E k \in 1..n : s[k] = m
Once(s, n)  == \A j, k \in 1..n : s[j] = s[k] => j = k

\* order names every node, and none twice.
Listed ==
    /\ Len(order) = count
    /\ Onto(order, count)
    /\ Once(order, count)

\* The first m nodes are freed.
FreedUpTo(m) ==
    /\ freed = {order[k] : k \in 1..m}
    /\ pc = "destroy" => cursor = At(m + 1)
    /\ pc = "gone" => m = Len(order)

Swept ==
    /\ pc = "live" => freed = {} /\ cursor = Null
    /\ \E m \in 0..Len(order) : FreedUpTo(m)

IInv == TypeOK /\ Represents /\ Listed /\ Swept

-----------------------------------------------------------------------------

\* The elements of a sequence are those at its positions.
LEMMA SeqRange ==
    ASSUME NEW n \in Nat, NEW s \in Seq(1..n), Len(s) = n
    PROVE  \A j \in 1..n : s[j] \in 1..n
  OBVIOUS

\* Where with_item_at puts the elements.
LEMMA WithItemAt ==
    ASSUME NEW n \in Nat, NEW s \in Seq(1..n), Len(s) = n,
           NEW p \in 1..(n + 1)
    PROVE  LET t == with_item_at(s, p, n + 1) IN
           /\ t \in Seq(1..(n + 1))
           /\ Len(t) = n + 1
           /\ \A j \in 1..(p - 1) : t[j] = s[j]
           /\ t[p] = n + 1
           /\ \A j \in p..n : t[j + 1] = s[j]
           /\ \A j \in (p + 1)..(n + 1) : t[j] = s[j - 1]
<1> DEFINE t == with_item_at(s, p, n + 1)
<1>1. t = [j \in 1..(n + 1) |->
             IF j < p THEN s[j] ELSE IF j = p THEN n + 1 ELSE s[j - 1]]
  BY DEF with_item_at
<1>2. \A j \in 1..n : s[j] \in 1..n
  OBVIOUS
<1>3. ASSUME NEW j \in 1..(n + 1)
      PROVE  t[j] \in 1..(n + 1)
  <2>1. CASE j < p
    BY <1>1, <1>2, <2>1
  <2>2. CASE j = p
    BY <1>1, <2>2
  <2>3. CASE j > p
    <3>1. j - 1 \in 1..n
      BY <2>3
    <3> QED BY <1>1, <1>2, <2>3, <3>1, SMTT(40)
  <2> QED BY <2>1, <2>2, <2>3
<1>4. t \in Seq(1..(n + 1)) /\ Len(t) = n + 1
  <2>1. t \in [1..(n + 1) -> 1..(n + 1)]
    BY <1>1, <1>3
  <2> QED BY <2>1, SMTT(40)
<1> HIDE DEF t
<1>5. /\ \A j \in 1..(p - 1) : t[j] = s[j]
      /\ t[p] = n + 1
      /\ \A j \in p..n : t[j + 1] = s[j]
      /\ \A j \in (p + 1)..(n + 1) : t[j] = s[j - 1]
  BY <1>1
<1> QED BY <1>4, <1>5 DEF t

\* with_item_at on a sequence that names 1..n once each gives one that names
\* 1..n+1 once each.
LEMMA WithItemListed ==
    ASSUME NEW n \in Nat, NEW s \in Seq(1..n), Len(s) = n,
           Onto(s, n), Once(s, n),
           NEW p \in 1..(n + 1)
    PROVE  LET t == with_item_at(s, p, n + 1) IN
           Onto(t, n + 1) /\ Once(t, n + 1)
<1> DEFINE t == with_item_at(s, p, n + 1)
<1>1. /\ \A j \in 1..(p - 1) : t[j] = s[j]
      /\ t[p] = n + 1
      /\ \A j \in p..n : t[j + 1] = s[j]
      /\ \A j \in (p + 1)..(n + 1) : t[j] = s[j - 1]
  BY WithItemAt, ZenonT(60)
<1> HIDE DEF t
<1>2. \A j \in 1..n : s[j] \in 1..n
  BY SeqRange
<1>3. ASSUME NEW m \in 1..(n + 1)
      PROVE  \E k \in 1..(n + 1) : t[k] = m
  <2>1. CASE m = n + 1
    BY <1>1, <2>1
  <2>2. CASE m # n + 1
    <3>0. m \in 1..n
      BY <2>2
    <3>1. PICK k \in 1..n : s[k] = m
      BY <3>0, Zenon DEF Onto
    <3>2. CASE k < p
      BY <1>1, <3>1, <3>2
    <3>3. CASE k >= p
      <4>1. t[k + 1] = m /\ k + 1 \in 1..(n + 1)
        BY <1>1, <3>1, <3>3
      <4> QED BY <4>1
    <3> QED BY <3>2, <3>3
  <2> QED BY <2>1, <2>2
\* An element of t other than the new one, and its place in s.
<1>4. ASSUME NEW j \in 1..(n + 1), j # p
      PROVE  \E x \in 1..n : /\ x = (IF j < p THEN j ELSE j - 1)
                             /\ t[j] = s[x]
  <2>1. CASE j < p
    BY <1>1, <2>1
  <2>2. CASE j > p
    BY <1>1, <2>2
  <2> QED BY <1>4, <2>1, <2>2
<1>5. ASSUME NEW j \in 1..(n + 1), NEW k \in 1..(n + 1), t[j] = t[k]
      PROVE  j = k
  <2>1. ASSUME NEW x \in 1..(n + 1), x # p
        PROVE  t[x] # n + 1
    BY <1>2, <1>4, <2>1
  <2>2. CASE j = p \/ k = p
    BY <1>1, <1>5, <2>1, <2>2
  <2>3. CASE j # p /\ k # p
    <3>1. PICK x \in 1..n : /\ x = (IF j < p THEN j ELSE j - 1)
                           /\ t[j] = s[x]
      BY <1>4, <2>3
    <3>2. PICK y \in 1..n : /\ y = (IF k < p THEN k ELSE k - 1)
                           /\ t[k] = s[y]
      BY <1>4, <2>3
    <3>3. x = y
      BY <1>5, <3>1, <3>2 DEF Once
    <3> QED BY <2>3, <3>1, <3>2, <3>3
  <2> QED BY <2>2, <2>3
<1> QED BY <1>3, <1>5 DEF Onto, Once, t

-----------------------------------------------------------------------------

\* An empty list satisfies the invariant.
LEMMA InitIInv == list_init => IInv
<1> SUFFICES ASSUME list_init PROVE IInv
  OBVIOUS
<1>1. TypeOK
  BY DEF list_init, TypeOK, Nodes, Null
<1>2. Represents
  BY DEF list_init, Represents, At, Null
<1>3. Listed
  BY DEF list_init, Listed, Onto, Once
<1>4. Swept
  <2>1. FreedUpTo(0)
    BY DEF list_init, FreedUpTo
  <2> QED BY <2>1 DEF list_init, Swept
<1> QED BY <1>1, <1>2, <1>3, <1>4 DEF IInv

\* The invariant's typing, with Nodes and Null expanded.
LEMMA Facts ==
    ASSUME IInv
    PROVE  /\ count \in Nat /\ size = count /\ Len(order) = count
           /\ order \in Seq(1..count)
           /\ next \in [1..count -> 0..count] /\ data \in [1..count -> Items]
           /\ head \in 0..count /\ tail \in 0..count /\ cursor \in 0..count
           /\ freed \subseteq 1..count
           /\ \A j \in 1..count : order[j] \in 1..count
<1>1. count \in Nat /\ order \in Seq(1..count) /\ freed \subseteq 1..count
      /\ data \in [1..count -> Items]
  BY DEF IInv, TypeOK, Nodes
<1>2. Nodes \cup {Null} = 0..count
  BY <1>1 DEF Nodes, Null
<1>3. /\ next \in [1..count -> 0..count]
      /\ head \in 0..count /\ tail \in 0..count /\ cursor \in 0..count
  BY <1>2 DEF IInv, TypeOK, Nodes
<1>4. size = count /\ Len(order) = count
  BY DEF IInv, Represents, Listed
<1> QED BY <1>1, <1>3, <1>4, SeqRange

\* At is the node at a position, and Null outside of the order.
LEMMA AtFacts ==
    ASSUME IInv, NEW k \in 0..(count + 1)
    PROVE  /\ k \in 1..count => At(k) = order[k]
           /\ k \notin 1..count => At(k) = 0
  BY Facts DEF At, Null

\* An insertion keeps the types, the pointers being in range.
LEMMA Typed ==
    ASSUME count \in Nat, count' = count + 1, size' \in Nat,
           data' \in [1..(count + 1) -> Items],
           next' \in [1..(count + 1) -> 0..(count + 1)],
           head' \in 0..(count + 1), tail' \in 0..(count + 1),
           cursor' \in 0..(count + 1), freed' \subseteq 1..(count + 1),
           pc' = "live", order' \in Seq(Nodes')
    PROVE  TypeOK'
<1>1. Nodes' = 1..(count + 1) /\ (Nodes \cup {Null})' = 0..(count + 1)
  BY DEF Nodes, Null
<1>2. count' \in Nat
  OBVIOUS
<1> QED BY <1>1, <1>2 DEF TypeOK

\* The pointers of an insertion agree with order, given for each position of
\* the new order the pointer it had or gets.
LEMMA Linked ==
    ASSUME count \in Nat, Len(order') = count + 1, size' = count + 1,
           head' = order'[1], tail' = order'[count + 1],
           \A k \in 1..count : next'[order'[k]] = order'[k + 1],
           next'[order'[count + 1]] = 0
    PROVE  Represents'
<1>1. At(1)' = order'[1] /\ At(Len(order))' = order'[count + 1]
  BY DEF At
<1>2. ASSUME NEW k \in 1..(count + 1)
      PROVE  next'[order'[k]] = At(k + 1)'
  <2>1. CASE k \in 1..count
    BY <2>1 DEF At
  <2>2. CASE k = count + 1
    BY <2>2 DEF At, Null
  <2> QED BY <2>1, <2>2
<1> QED BY <1>1, <1>2 DEF Represents

\* What every insertion does but for the pointers: the new node is at position
\* p of order, and nothing has been freed.
LEMMA Inserted ==
    ASSUME IInv, pc = "live", pc' = pc, cursor' = cursor, freed' = freed,
           count' = count + 1,
           NEW p \in 1..(count + 1), order' = with_item_at(order, p, count + 1)
    PROVE  /\ order' \in Seq(Nodes')
           /\ Len(order') = count + 1
           /\ \A j \in 1..(p - 1) : order'[j] = order[j]
           /\ order'[p] = count + 1
           /\ \A j \in p..count : order'[j + 1] = order[j]
           /\ Listed' /\ Swept'
<1>1. count \in Nat /\ order \in Seq(1..count) /\ Len(order) = count
  BY DEF IInv, TypeOK, Listed, Nodes
<1>2. /\ order' \in Seq(1..(count + 1))
      /\ Len(order') = count + 1
      /\ \A j \in 1..(p - 1) : order'[j] = order[j]
      /\ order'[p] = count + 1
      /\ \A j \in p..count : order'[j + 1] = order[j]
  BY <1>1, WithItemAt
<1>3. Listed'
  <2>1. Onto(order, count) /\ Once(order, count)
    BY DEF IInv, Listed
  <2>2. Onto(order', count + 1) /\ Once(order', count + 1)
    BY <1>1, <2>1, WithItemListed
  <2> QED BY <1>2, <2>2 DEF Listed, Onto, Once
<1>4. Swept'
  <2>1. freed = {} /\ cursor = Null
    BY DEF IInv, Swept
  <2>2. FreedUpTo(0)'
    BY <2>1 DEF FreedUpTo
  <2> QED BY <1>1, <1>2, <2>1, <2>2 DEF Swept
<1> QED BY <1>2, <1>3, <1>4 DEF Nodes

\* An insertion behind the p-th node, at the front when p = 0, keeps the
\* invariant.  Each of the three operations is one.
LEMMA InsertBehind ==
    ASSUME IInv, NEW d \in Items, NEW p \in 0..count,
           count' = count + 1, size' = size + 1,
           pc = "live", pc' = pc, cursor' = cursor, freed' = freed,
           head' = (IF p = 0 THEN count + 1 ELSE head),
           tail' = (IF p = count THEN count + 1 ELSE tail),
           data' = [n \in 1..(count + 1) |->
                      IF n = count + 1 THEN d ELSE data[n]],
           next' = [n \in 1..(count + 1) |->
                      IF n = count + 1 THEN At(p + 1)
                      ELSE IF p > 0 /\ n = At(p) THEN count + 1 ELSE next[n]],
           order' = with_item_at(order, p + 1, count + 1)
    PROVE  IInv'
<1>1. /\ count \in Nat /\ size = count
      /\ next \in [1..count -> 0..count] /\ data \in [1..count -> Items]
      /\ head \in 0..count /\ tail \in 0..count /\ cursor \in 0..count
      /\ freed \subseteq 1..count
  BY Facts
<1>2. \A j \in 1..count : order[j] \in 1..count /\ At(j) = order[j]
  BY Facts, AtFacts
<1>3. At(0) = 0 /\ At(count + 1) = 0
  BY <1>1, AtFacts
<1>4. /\ order' \in Seq(Nodes')
      /\ Len(order') = count + 1
      /\ Listed' /\ Swept'
      /\ \A j \in 1..((p + 1) - 1) : order'[j] = order[j]
      /\ order'[p + 1] = count + 1
      /\ \A j \in (p + 1)..count : order'[j + 1] = order[j]
  <2>1. p + 1 \in 1..(count + 1)
    BY <1>1
  <2> QED BY <2>1, Inserted
<1>5. /\ \A j \in 1..p : order'[j] = order[j]
      /\ order'[p + 1] = count + 1
      /\ \A j \in (p + 1)..count : order'[j + 1] = order[j]
  <2>1. (p + 1) - 1 = p
    OBVIOUS
  <2> QED BY <1>4, <2>1
<1>6. At(p + 1) \in 0..count
  <2>1. CASE p + 1 \in 1..count
    <3>1. At(p + 1) \in 1..count
      BY <1>2, <2>1
    <3> QED BY <1>1, <3>1
  <2>2. CASE p + 1 = count + 1
    BY <1>1, <1>3, <2>2
  <2> QED BY <1>1, <2>1, <2>2
<1>7. TypeOK'
  <2>1. data' \in [1..(count + 1) -> Items]
    BY <1>1
  <2>2. next' \in [1..(count + 1) -> 0..(count + 1)]
    <3>1. \A n \in 1..count : next[n] \in 0..count
      BY <1>1
    <3>2. \A n \in 1..(count + 1) :
            (IF n = count + 1 THEN At(p + 1)
             ELSE IF p > 0 /\ n = At(p) THEN count + 1 ELSE next[n])
            \in 0..(count + 1)
      BY <1>1, <1>6, <3>1
    <3> QED BY <3>2
  <2>3. /\ head' \in 0..(count + 1) /\ tail' \in 0..(count + 1)
        /\ cursor' \in 0..(count + 1) /\ freed' \subseteq 1..(count + 1)
        /\ size' \in Nat
    BY <1>1
  <2> QED BY <1>1, <1>4, <2>1, <2>2, <2>3, Typed
\* The nodes before the new one and behind it keep their successors; the p-th
\* node alone gets another.
<1>8. ASSUME NEW j \in 1..count, j # p
      PROVE  next'[order[j]] = At(j + 1)
  <2>1. next[order[j]] = At(j + 1)
    BY Facts DEF IInv, Represents
  <2>2. p > 0 => order[j] # At(p)
    <3>1. Once(order, count)
      BY DEF IInv, Listed
    <3>2. p > 0 => p \in 1..count
      BY <1>1
    <3> QED BY <1>2, <1>8, <3>1, <3>2 DEF Once
  <2>3. order[j] \in 1..(count + 1) /\ order[j] # count + 1
    BY <1>1, <1>2
  <2> QED BY <2>1, <2>2, <2>3
<1>9. next'[count + 1] = At(p + 1)
  BY <1>1
<1>10. ASSUME NEW j \in p..count
       PROVE  next'[order'[j + 1]] = At(j + 1)
  <2>1. CASE j = p
    BY <1>5, <1>9, <2>1
  <2>2. CASE j # p
    <3>1. j \in 1..count /\ j \in (p + 1)..count
      BY <1>1, <2>2
    <3> QED BY <1>5, <1>8, <2>2, <3>1
  <2> QED BY <2>1, <2>2
<1>11. ASSUME NEW k \in 1..count
       PROVE  next'[order'[k]] = order'[k + 1]
  <2>1. CASE k < p
    <3>1. k \in 1..p /\ k + 1 \in 1..p /\ k + 1 \in 1..count
      BY <1>1, <2>1
    <3>2. order'[k] = order[k] /\ order'[k + 1] = order[k + 1]
      BY <1>5, <3>1
    <3> QED BY <1>2, <1>8, <2>1, <3>1, <3>2
  <2>2. CASE k = p
    <3>1. order'[k] = At(p) /\ order'[k + 1] = count + 1 /\ At(p) \in 1..count
      BY <1>2, <1>5, <2>2
    <3> QED BY <1>1, <2>2, <3>1
  <2>3. CASE k > p
    <3>1. PICK j \in p..count : j + 1 = k
      <4>1. k - 1 \in p..count /\ (k - 1) + 1 = k
        BY <1>1, <2>3
      <4> QED BY <4>1
    <3>2. k \in (p + 1)..count
      BY <1>1, <2>3
    <3>3. order'[k + 1] = At(k)
      BY <1>2, <1>5, <3>2
    <3> QED BY <1>10, <3>1, <3>3
  <2> QED BY <2>1, <2>2, <2>3
<1>12. next'[order'[count + 1]] = 0
  <2>1. count \in p..count
    BY <1>1
  <2> QED BY <1>3, <1>10, <2>1
<1>13. Represents'
  <2>1. head' = order'[1]
    <3>1. CASE p = 0
      BY <1>5, <3>1
    <3>2. CASE p # 0
      <4>1. 1 \in 1..p /\ 1 \in 1..count
        BY <1>1, <3>2
      <4>2. head = At(1)
        BY DEF IInv, Represents
      <4> QED BY <1>2, <1>5, <3>2, <4>1, <4>2
    <3> QED BY <3>1, <3>2
  <2>2. tail' = order'[count + 1]
    <3>1. CASE p = count
      BY <1>5, <3>1
    <3>2. CASE p # count
      <4>1. count \in (p + 1)..count /\ count \in 1..count
        BY <1>1, <3>2
      <4>2. tail = At(count)
        BY Facts DEF IInv, Represents
      <4> QED BY <1>2, <1>5, <3>2, <4>1, <4>2
    <3> QED BY <3>1, <3>2
  <2> QED BY <1>1, <1>4, <1>11, <1>12, <2>1, <2>2, Linked
<1> QED BY <1>4, <1>7, <1>13 DEF IInv

\* list_push_front is an insertion before the first position.
LEMMA FrontStep ==
    ASSUME IInv, NEW d \in Items, list_push_front(d)
    PROVE  IInv'
<1>1. count \in Nat /\ size = count /\ head = At(1) /\ At(0) = 0
  BY Facts, AtFacts DEF IInv, Represents
<1>2. /\ count' = count + 1 /\ size' = size + 1
      /\ pc = "live" /\ pc' = pc /\ cursor' = cursor /\ freed' = freed
      /\ head' = (IF 0 = 0 THEN count + 1 ELSE head)
      /\ tail' = (IF 0 = count THEN count + 1 ELSE tail)
      /\ data' = [n \in 1..(count + 1) |->
                    IF n = count + 1 THEN d ELSE data[n]]
      /\ next' = [n \in 1..(count + 1) |->
                    IF n = count + 1 THEN At(0 + 1)
                    ELSE IF 0 > 0 /\ n = At(0) THEN count + 1 ELSE next[n]]
      /\ order' = with_item_at(order, 0 + 1, count + 1)
  BY <1>1 DEF list_push_front, extended, tail_of_front
<1>3. 0 \in 0..count
  BY <1>1
<1> QED BY <1>2, <1>3, InsertBehind

\* list_push_back is an insertion behind the last position.
LEMMA BackStep ==
    ASSUME IInv, NEW d \in Items, list_push_back(d)
    PROVE  IInv'
<1>1. /\ count \in Nat /\ size = count /\ Len(order) = count
      /\ next \in [1..count -> 0..count] /\ tail = At(count)
      /\ count > 0 => tail \in 1..count
  <2>1. /\ count \in Nat /\ size = count /\ Len(order) = count
        /\ next \in [1..count -> 0..count] /\ tail = At(count)
    BY Facts DEF IInv, Represents
  <2>2. ASSUME count > 0 PROVE At(count) \in 1..count
    <3>1. count \in 1..count /\ count \in 0..(count + 1)
      BY <2>1, <2>2
    <3>2. order[count] \in 1..count
      BY <3>1, Facts
    <3>3. At(count) = order[count]
      BY <3>1, AtFacts
    <3> QED BY <3>2, <3>3
  <2> QED BY <2>1, <2>2
<1>2. At(count + 1) = 0
  BY <1>1, AtFacts
<1>3. /\ count' = count + 1 /\ size' = size + 1
      /\ pc = "live" /\ pc' = pc /\ cursor' = cursor /\ freed' = freed
      /\ tail' = (IF count = count THEN count + 1 ELSE tail)
      /\ data' = [n \in 1..(count + 1) |->
                    IF n = count + 1 THEN d ELSE data[n]]
      /\ order' = with_item_at(order, count + 1, count + 1)
  BY <1>1 DEF list_push_back, extended
<1>4. /\ head' = (IF count = 0 THEN count + 1 ELSE head)
      /\ next' = [n \in 1..(count + 1) |->
                    IF n = count + 1 THEN At(count + 1)
                    ELSE IF count > 0 /\ n = At(count) THEN count + 1
                    ELSE next[n]]
  <2>1. CASE size = 0
    BY <1>1, <1>2, <2>1 DEF list_push_back, extended, Null
  <2>2. CASE size # 0
    <3>1. head' = head
      BY <2>2 DEF list_push_back
    <3>2. next' = [[n \in 1..(count + 1) |->
                     IF n = count + 1 THEN 0 ELSE next[n]]
                   EXCEPT ![tail] = count + 1]
      BY <2>2 DEF list_push_back, extended, Null
    <3>3. count > 0 /\ tail # count + 1
      BY <1>1, <2>2
    <3>4. next' = [n \in 1..(count + 1) |->
                    IF n = tail THEN count + 1
                    ELSE IF n = count + 1 THEN 0 ELSE next[n]]
      BY <1>1, <3>2, <3>3
    <3>5. next' = [n \in 1..(count + 1) |->
                    IF n = count + 1 THEN At(count + 1)
                    ELSE IF count > 0 /\ n = At(count) THEN count + 1
                    ELSE next[n]]
      BY <1>1, <1>2, <3>3, <3>4
    <3>6. count # 0
      BY <3>3
    <3> QED BY <3>1, <3>5, <3>6
  <2> QED BY <2>1, <2>2
<1>5. count \in 0..count
  BY <1>1
<1> QED BY <1>3, <1>4, <1>5, InsertBehind

\* list_insert is an insertion behind the node it is given.
LEMMA InsertStep ==
    ASSUME IInv, NEW d \in Items, NEW p \in 1..Len(order), list_insert(p, d)
    PROVE  IInv'
<1>1. /\ count \in Nat /\ size = count /\ p \in 1..count
      /\ next \in [1..count -> 0..count]
  BY Facts
<1>2. At(p) = order[p] /\ At(p) \in 1..count /\ next[At(p)] = At(p + 1)
  BY <1>1, Facts, AtFacts DEF IInv, Represents
<1>3. tail = At(p) <=> p = count
  <2>1. tail = At(count) /\ Once(order, count) /\ count \in 1..count
    BY <1>1, Facts DEF IInv, Represents, Listed
  <2>2. At(count) = order[count]
    BY <1>1, <2>1, AtFacts
  <2> QED BY <1>1, <1>2, <2>1, <2>2 DEF Once
<1>4. /\ count' = count + 1 /\ size' = size + 1
      /\ pc = "live" /\ pc' = pc /\ cursor' = cursor /\ freed' = freed
      /\ head' = (IF p = 0 THEN count + 1 ELSE head)
      /\ data' = [n \in 1..(count + 1) |->
                    IF n = count + 1 THEN d ELSE data[n]]
      /\ order' = with_item_at(order, p + 1, count + 1)
  BY <1>1 DEF list_insert, extended
<1>5. tail' = (IF p = count THEN count + 1 ELSE tail)
  BY <1>2, <1>3 DEF list_insert, tail_after
<1>6. next' = [n \in 1..(count + 1) |->
                IF n = count + 1 THEN At(p + 1)
                ELSE IF p > 0 /\ n = At(p) THEN count + 1 ELSE next[n]]
  <2>1. next' = [[n \in 1..(count + 1) |->
                   IF n = count + 1 THEN At(p + 1) ELSE next[n]]
                 EXCEPT ![At(p)] = count + 1]
    BY <1>2 DEF list_insert, extended
  <2>2. At(p) # count + 1
    BY <1>1, <1>2
  <2>3. next' = [n \in 1..(count + 1) |->
                  IF n = At(p) THEN count + 1
                  ELSE IF n = count + 1 THEN At(p + 1) ELSE next[n]]
    BY <2>1
  <2>4. p > 0
    BY <1>1
  <2> QED BY <2>2, <2>3, <2>4
<1>7. p \in 0..count
  BY <1>1
<1> QED BY <1>4, <1>5, <1>6, <1>7, InsertBehind

\* Steps of the destruction leave the list itself alone.
LEMMA Kept ==
    ASSUME IInv, UNCHANGED <<count, data, next, head, tail, size, order>>,
           cursor' \in 0..count, freed' \subseteq 1..count,
           pc' \in {"live", "destroy", "gone"}
    PROVE  TypeOK' /\ Represents' /\ Listed'
<1>1. count \in Nat
  BY Facts
<1>2. Nodes = 1..count /\ (Nodes \cup {Null}) = 0..count
  BY <1>1 DEF Nodes, Null
<1>3. Nodes' = Nodes /\ (Nodes \cup {Null})' = Nodes \cup {Null}
  BY DEF Nodes, Null
<1>4. TypeOK'
  BY <1>2, <1>3 DEF IInv, TypeOK
<1>5. Represents'
  BY DEF IInv, Represents, At, Null
<1>6. Listed'
  BY DEF IInv, Listed, Onto, Once
<1> QED BY <1>4, <1>5, <1>6

\* The first step of list_destroy frees nothing.
LEMMA DestroyStep ==
    ASSUME IInv, list_destroy
    PROVE  IInv'
<1>1. TypeOK' /\ Represents' /\ Listed'
  BY Facts, Kept DEF list_destroy
<1>2. FreedUpTo(0)'
  <2>1. freed = {} /\ head = At(1)
    BY DEF IInv, Swept, list_destroy, Represents
  <2> QED BY <2>1 DEF FreedUpTo, list_destroy, At
<1>3. Swept'
  BY <1>2, Facts DEF Swept, list_destroy
<1> QED BY <1>1, <1>3 DEF IInv

\* list_destroy frees the first node that is left.
LEMMA FreeNodeStep ==
    ASSUME IInv, FreeNode
    PROVE  IInv'
<1>1. PICK m \in 0..Len(order) : FreedUpTo(m)
  BY DEF IInv, Swept
<1>2. Len(order) = count /\ count \in Nat
  BY Facts
<1>3. cursor = At(m + 1) /\ cursor # 0
  BY <1>1 DEF FreeNode, More, FreedUpTo, Null
<1>4. m + 1 \in 1..count
  BY <1>1, <1>2, <1>3 DEF At, Null
<1>5. cursor = order[m + 1] /\ cursor \in 1..count
  BY <1>2, <1>3, <1>4, Facts DEF At
<1>6. cursor' = At((m + 1) + 1)
  <2>1. next[order[m + 1]] = At((m + 1) + 1)
    BY <1>2, <1>4 DEF IInv, Represents
  <2> QED BY <1>5, <2>1 DEF FreeNode, successor
<1>7. TypeOK' /\ Represents' /\ Listed'
  <2>1. cursor' \in 0..count
    BY <1>5, Facts DEF FreeNode, successor
  <2>2. freed' \subseteq 1..count
    BY <1>5, Facts DEF FreeNode
  <2> QED BY <2>1, <2>2, Kept DEF FreeNode
<1>8. FreedUpTo(m + 1)'
  <2>1. freed' = {order[k] : k \in 1..m} \cup {order[m + 1]}
    BY <1>1, <1>5 DEF FreeNode, FreedUpTo
  <2>2. 1..(m + 1) = (1..m) \cup {m + 1}
    BY <1>2, <1>4
  <2>3. freed' = {order[k] : k \in 1..(m + 1)}
    BY <2>1, <2>2
  <2>4. order' = order /\ pc' = "destroy" /\ At((m + 1) + 1)' = At((m + 1) + 1)
    BY DEF FreeNode, At, Null
  <2> QED BY <1>6, <2>3, <2>4 DEF FreedUpTo
<1>9. Swept'
  <2>1. m + 1 \in 0..Len(order') /\ pc' = "destroy"
    BY <1>2, <1>4 DEF FreeNode
  <2> QED BY <1>8, <2>1 DEF Swept
<1> QED BY <1>7, <1>9 DEF IInv

\* list_destroy ends when every node is freed.
LEMMA FreeListStep ==
    ASSUME IInv, FreeList
    PROVE  IInv'
<1>1. PICK m \in 0..Len(order) : FreedUpTo(m)
  BY DEF IInv, Swept
<1>2. Len(order) = count /\ count \in Nat
  BY Facts
<1>3. At(m + 1) = 0
  BY <1>1 DEF FreeList, More, FreedUpTo, Null
<1>4. m = count
  <2>1. m + 1 \notin 1..count
    BY <1>2, <1>3, Facts DEF At
  <2> QED BY <1>1, <1>2, <2>1
<1>5. TypeOK' /\ Represents' /\ Listed'
  BY Facts, Kept DEF FreeList
<1>6. Swept'
  <2>1. FreedUpTo(m)'
    BY <1>1, <1>2, <1>4 DEF FreeList, FreedUpTo
  <2> QED BY <1>1, <2>1 DEF FreeList, Swept
<1> QED BY <1>5, <1>6 DEF IInv

\* Every step keeps the invariant: one case for each operation.
LEMMA NextIInv == IInv /\ [Next]_vars => IInv'
<1> SUFFICES ASSUME IInv, [Next]_vars PROVE IInv'
  OBVIOUS
<1>1. CASE PushFront
  BY <1>1, FrontStep DEF PushFront
<1>2. CASE PushBack
  BY <1>2, BackStep DEF PushBack
<1>3. CASE Insert
  BY <1>3, InsertStep DEF Insert
<1>4. CASE list_destroy
  BY <1>4, DestroyStep
<1>5. CASE FreeNode
  BY <1>5, FreeNodeStep
<1>6. CASE FreeList
  BY <1>6, FreeListStep
<1>7. CASE UNCHANGED vars
  <2>1. UNCHANGED <<count, data, next, head, tail, size, order>>
        /\ cursor' = cursor /\ freed' = freed /\ pc' = pc
    BY <1>7 DEF vars
  <2>2. pc \in {"live", "destroy", "gone"}
    BY DEF IInv, TypeOK
  <2>3. TypeOK' /\ Represents' /\ Listed'
    BY <2>1, <2>2, Facts, Kept
  <2>4. Swept'
    BY <2>1 DEF IInv, Swept, FreedUpTo, At, Null
  <2> QED BY <2>3, <2>4 DEF IInv
<1> QED BY <1>1, <1>2, <1>3, <1>4, <1>5, <1>6, <1>7 DEF Next

\* The strengthened invariant, for every number of nodes and items.
THEOREM Inductive == Spec => []IInv
BY InitIInv, NextIInv, PTL DEF Spec

\* Every variable keeps its type, for any number of nodes: the members of a
\* node are written before anything reads them, and no pointer leaves the list.
THEOREM TypeCorrect == Spec => []TypeOK
<1>1. IInv => TypeOK
  BY DEF IInv
<1> QED BY <1>1, Inductive, PTL

\* list.c keeps head, tail, size and every next in agreement with the sequence
\* asked for, after any number of insertions at any places.
THEOREM ListRepresents == Spec => []Represents
<1>1. IInv => Represents
  BY DEF IInv
<1> QED BY <1>1, Inductive, PTL

\* list_destroy reads no node it has freed, frees none twice, and leaves none.
THEOREM ListFreedOnce == Spec => []FreedOnce
<1>1. IInv => FreedOnce
  <2> SUFFICES ASSUME IInv PROVE FreedOnce
    OBVIOUS
  <2>1. PICK m \in 0..Len(order) : FreedUpTo(m)
    BY DEF IInv, Swept
  <2>2. /\ Len(order) = count /\ count \in Nat
        /\ \A j \in 1..count : order[j] \in 1..count
    BY Facts
  <2>3. Onto(order, count) /\ Once(order, count)
    BY DEF IInv, Listed
  <2>4. ASSUME pc = "destroy" PROVE cursor \notin freed
    <3>1. cursor = At(m + 1) /\ freed = {order[k] : k \in 1..m}
      BY <2>1, <2>4 DEF FreedUpTo
    <3>2. CASE m = count
      <4>1. cursor = 0
        BY <2>2, <3>1, <3>2 DEF At, Null
      <4>2. 0 \notin freed
        BY Facts
      <4> QED BY <4>1, <4>2
    <3>3. CASE m # count
      <4>1. m + 1 \in 1..count /\ cursor = order[m + 1]
        BY <2>1, <2>2, <3>1, <3>3 DEF At
      <4>2. ASSUME NEW k \in 1..m
            PROVE  order[k] # order[m + 1]
        <5>1. k \in 1..count /\ k # m + 1
          BY <2>1, <2>2
        <5> QED BY <2>3, <4>1, <5>1 DEF Once
      <4> QED BY <3>1, <4>1, <4>2
    <3> QED BY <3>2, <3>3
  <2>5. ASSUME pc = "gone" PROVE freed = Nodes
    <3>1. freed = {order[k] : k \in 1..count}
      BY <2>1, <2>2, <2>5 DEF FreedUpTo
    <3>2. \A n \in 1..count : n \in freed
      BY <2>3, <3>1 DEF Onto
    <3> QED BY <2>2, <3>1, <3>2 DEF Nodes
  <2> QED BY <2>4, <2>5 DEF FreedOnce
<1> QED BY <1>1, Inductive, PTL

=============================================================================
