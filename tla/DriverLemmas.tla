----------------------------- MODULE DriverLemmas -----------------------------
(***************************************************************************)
(* What the operators of DList and OsPool do, for lists and pools of any   *)
(* size: the lemmas of UartTxProofs and UartRxProofs.                      *)
(***************************************************************************)
EXTENDS DList, OsPool, FiniteSets, FiniteSetTheorems, TLAPS

\* Induction, for a set: the theorem of the library takes an operator.
LEMMA SetInduction ==
    ASSUME NEW P, 0 \in P, \A n \in Nat : n \in P => n + 1 \in P
    PROVE  \A n \in Nat : n \in P
<1> DEFINE T == {n \in Nat : n \notin P}
<1>1. SUFFICES ASSUME T # {} PROVE FALSE
  OBVIOUS
<1>2. PICK m \in T : \A k \in T : ~(<<k, m>> \in OpToRel(<, Nat))
  BY <1>1, WFMin, NatLessThanWellFounded
<1>3. m \in Nat /\ m # 0 /\ m - 1 \in Nat
  OBVIOUS
<1>4. m - 1 \notin T
  <2>1. m - 1 < m
    BY <1>3
  <2> QED
    BY <1>2, <1>3, <2>1 DEF OpToRel
<1> QED
  BY <1>3, <1>4

\* The least element of a set of numbers.
LEMMA Least ==
    ASSUME NEW T \in SUBSET Nat, T # {}
    PROVE  \E m \in T : \A k \in T : m <= k
<1>1. PICK m \in T : \A k \in T : ~(<<k, m>> \in OpToRel(<, Nat))
  BY WFMin, NatLessThanWellFounded
<1>2. \A k \in T : ~(k < m)
  BY <1>1 DEF OpToRel
<1> QED
  BY <1>2

--------------------------------------------------------------------------------
(* Chains.                                                                    *)

LEMMA ChainFacts ==
    ASSUME NEW n \in Nat, NEW s \in Chains(n)
    PROVE  /\ s \in Seq(1..n) /\ Len(s) \in 0..n /\ DOMAIN s = 1..Len(s)
           /\ \A k \in 1..Len(s) : s[k] \in 1..n
           /\ \A i, j \in 1..Len(s) : s[i] = s[j] => i = j
           /\ ElementsOf(s) \subseteq 1..n
           /\ IsFiniteSet(ElementsOf(s)) /\ Cardinality(ElementsOf(s)) = Len(s)
<1>1. PICK k \in 0..n : s \in [1..k -> 1..n]
  BY DEF Chains
<1>2. s \in Seq(1..n) /\ Len(s) = k /\ DOMAIN s = 1..k
  BY <1>1
<1>3. \A i, j \in 1..Len(s) : s[i] = s[j] => i = j
  BY <1>2 DEF Chains
<1>4. ElementsOf(s) \subseteq 1..n
  BY <1>1, <1>2 DEF ElementsOf
<1>5. s \in Bijection(1..Len(s), ElementsOf(s))
  <2>1. s \in [1..Len(s) -> ElementsOf(s)]
    BY <1>1, <1>2 DEF ElementsOf
  <2> QED
    BY <1>2, <1>3, <2>1 DEF Bijection, Injection, Surjection, IsInjective, ElementsOf
<1>6. IsFiniteSet(1..Len(s)) /\ Cardinality(1..Len(s)) = Len(s)
  BY <1>2, FS_Interval
<1>7. IsFiniteSet(ElementsOf(s)) /\ Cardinality(ElementsOf(s)) = Len(s)
  BY <1>5, <1>6, FS_Bijection DEF ExistsBijection
<1> QED
  BY <1>1, <1>2, <1>3, <1>4, <1>7

LEMMA EmptyChain ==
    ASSUME NEW n \in Nat
    PROVE  <<>> \in Chains(n) /\ ElementsOf(<<>>) = {}
<1>1. <<>> \in [1..0 -> 1..n] /\ 0 \in 0..n
  OBVIOUS
<1>2. DOMAIN <<>> = {}
  OBVIOUS
<1>3. ElementsOf(<<>>) = {}
  BY <1>2 DEF ElementsOf
<1> QED
  BY <1>1, <1>2, <1>3 DEF Chains

LEMMA ChainAppend ==
    ASSUME NEW n \in Nat, NEW s \in Chains(n), NEW e \in 1..n, e \notin ElementsOf(s)
    PROVE  /\ Append(s, e) \in Chains(n)
           /\ ElementsOf(Append(s, e)) = ElementsOf(s) \cup {e}
           /\ Len(Append(s, e)) = Len(s) + 1
           /\ Append(s, e)[Len(s) + 1] = e
           /\ \A k \in 1..Len(s) : Append(s, e)[k] = s[k]
<1> DEFINE t == Append(s, e)
<1>1. /\ s \in Seq(1..n) /\ Len(s) \in 0..n /\ DOMAIN s = 1..Len(s)
      /\ \A k \in 1..Len(s) : s[k] \in 1..n
      /\ \A i, j \in 1..Len(s) : s[i] = s[j] => i = j
      /\ ElementsOf(s) \subseteq 1..n /\ Cardinality(ElementsOf(s)) = Len(s)
  BY ChainFacts
<1>2. Len(s) # n
  <2>1. IsFiniteSet(1..n) /\ Cardinality(1..n) = n
    BY FS_Interval
  <2> QED
    BY <1>1, <2>1, FS_Subset
<1>3. /\ t \in Seq(1..n) /\ Len(t) = Len(s) + 1 /\ DOMAIN t = 1..(Len(s) + 1)
      /\ t[Len(s) + 1] = e /\ \A k \in 1..Len(s) : t[k] = s[k]
  BY <1>1
<1> HIDE DEF t
<1>4. t \in [1..(Len(s) + 1) -> 1..n] /\ Len(s) + 1 \in 0..n
  <2>1. Len(t) \in 0..n
    <3>1. Len(s) \in Nat /\ Len(s) <= n
      BY <1>1
    <3>2. Len(t) = Len(s) + 1
      BY <1>3
    <3> QED
      BY <1>2, <3>1, <3>2
  <2>2. t \in [1..Len(t) -> 1..n]
    BY <1>3
  <2> QED
    BY <1>3, <2>1, <2>2
<1>5. \A k \in 1..Len(s) : s[k] # e
  BY <1>1 DEF ElementsOf
<1>6. \A i, j \in 1..(Len(s) + 1) : t[i] = t[j] => i = j
  <2>1. \A i \in 1..(Len(s) + 1) : i = Len(s) + 1 \/ i \in 1..Len(s)
    BY <1>1
  <2> QED
    BY <1>1, <1>3, <1>5, <2>1
<1>7. t \in Chains(n)
  BY SMTT(30), <1>3, <1>4, <1>6 DEF Chains
<1>8. ElementsOf(t) = ElementsOf(s) \cup {e}
  <2>1. 1..(Len(s) + 1) = (1..Len(s)) \cup {Len(s) + 1}
    BY <1>1
  <2>2. ElementsOf(t) = {t[k] : k \in 1..Len(s)} \cup {t[Len(s) + 1]}
    BY <1>3, <2>1 DEF ElementsOf
  <2>3. {t[k] : k \in 1..Len(s)} = {s[k] : k \in 1..Len(s)}
    BY <1>3
  <2> QED
    BY <1>1, <1>3, <2>2, <2>3 DEF ElementsOf
<1> QED
  BY <1>3, <1>7, <1>8 DEF t

LEMMA ChainTail ==
    ASSUME NEW n \in Nat, NEW s \in Chains(n), s # <<>>
    PROVE  /\ Tail(s) \in Chains(n)
           /\ ElementsOf(Tail(s)) = ElementsOf(s) \ {s[1]}
           /\ 0 < Len(s) /\ Len(Tail(s)) = Len(s) - 1
           /\ \A k \in 1..(Len(s) - 1) : Tail(s)[k] = s[k + 1]
<1> DEFINE t == Tail(s)
<1>1. /\ s \in Seq(1..n) /\ Len(s) \in 0..n /\ DOMAIN s = 1..Len(s)
      /\ \A k \in 1..Len(s) : s[k] \in 1..n
      /\ \A i, j \in 1..Len(s) : s[i] = s[j] => i = j
  BY ChainFacts
<1>2. 0 < Len(s)
  BY <1>1
<1>3. /\ t \in Seq(1..n) /\ Len(t) = Len(s) - 1 /\ DOMAIN t = 1..(Len(s) - 1)
      /\ \A k \in 1..(Len(s) - 1) : t[k] = s[k + 1]
  BY <1>1, <1>2
<1> HIDE DEF t
<1>4. t \in [1..(Len(s) - 1) -> 1..n] /\ Len(s) - 1 \in 0..n
  BY <1>1, <1>2, <1>3
<1>5. \A i, j \in 1..(Len(s) - 1) : t[i] = t[j] => i = j
  BY <1>1, <1>3
<1>6. t \in Chains(n)
  BY <1>3, <1>4, <1>5 DEF Chains
<1>7. ElementsOf(t) = ElementsOf(s) \ {s[1]}
  <2>1. ASSUME NEW k \in 1..Len(s), k # 1 PROVE s[k] = t[k - 1] /\ k - 1 \in 1..(Len(s) - 1)
    <3>1. k - 1 \in 1..(Len(s) - 1) /\ (k - 1) + 1 = k
      BY <1>1, <2>1
    <3> QED
      BY <1>3, <3>1
  <2>2. \A k \in 1..(Len(s) - 1) : t[k] = s[k + 1] /\ t[k] # s[1] /\ k + 1 \in 1..Len(s)
    <3> SUFFICES ASSUME NEW k \in 1..(Len(s) - 1)
                 PROVE  t[k] = s[k + 1] /\ t[k] # s[1] /\ k + 1 \in 1..Len(s)
      OBVIOUS
    <3>1. k + 1 \in 1..Len(s) /\ 1 \in 1..Len(s) /\ k + 1 # 1
      BY <1>1
    <3> QED
      BY <1>1, <1>3, <3>1
  <2>3. ElementsOf(s) = {s[k] : k \in 1..Len(s)} /\ ElementsOf(t) = {t[k] : k \in 1..(Len(s) - 1)}
    BY <1>1, <1>3 DEF ElementsOf
  <2>4. ASSUME NEW x \in ElementsOf(t) PROVE x \in ElementsOf(s) \ {s[1]}
    BY <2>2, <2>3
  <2>5. ASSUME NEW x \in ElementsOf(s) \ {s[1]} PROVE x \in ElementsOf(t)
    <3>1. PICK k \in 1..Len(s) : x = s[k]
      BY <2>3
    <3> QED
      BY <2>1, <2>3, <3>1
  <2> QED
    BY <2>4, <2>5
<1> QED
  BY <1>2, <1>3, <1>6, <1>7 DEF t

--------------------------------------------------------------------------------
(* Lists.                                                                     *)

\* The walk goes through the chain and stops.
LEMMA WalkGoesThrough ==
    ASSUME NEW n \in Nat, NEW l, NEW s \in Chains(n), Linked(l, s)
    PROVE  \A k \in 1..n : Walk(l, n)[k] = IF k <= Len(s) THEN s[k] ELSE NullPtr
<1> DEFINE E(at) == at = [k \in 1..n |->
                        IF k = 1 THEN l.head
                        ELSE IF at[k - 1] = NullPtr THEN NullPtr ELSE l.next[at[k - 1]]]
           w == [k \in 1..n |-> IF k <= Len(s) THEN s[k] ELSE NullPtr]
<1>1. /\ Len(s) \in 0..n /\ DOMAIN s = 1..Len(s)
      /\ \A k \in 1..Len(s) : s[k] \in 1..n
      /\ s = <<>> <=> Len(s) = 0
  BY ChainFacts
<1>2. E(w)
  <2> DEFINE v == [k \in 1..n |->
                        IF k = 1 THEN l.head
                        ELSE IF w[k - 1] = NullPtr THEN NullPtr ELSE l.next[w[k - 1]]]
  <2>1. ASSUME NEW k \in 1..n PROVE w[k] = v[k]
    <3>1. CASE k = 1
      BY <1>1, <3>1 DEF Linked
    <3>2. CASE k # 1 /\ k - 1 <= Len(s)
      <4>1. k - 1 \in 1..n /\ k - 1 \in DOMAIN s
        BY <1>1, <3>2
      <4>2. w[k - 1] = s[k - 1] /\ s[k - 1] # NullPtr
        BY <1>1, <3>2, <4>1 DEF NullPtr
      <4>3. v[k] = l.next[s[k - 1]]
        BY <3>2, <4>2
      <4>4. l.next[s[k - 1]] = IF k - 1 = Len(s) THEN NullPtr ELSE s[k - 1 + 1]
        BY <4>1 DEF Linked
      <4>5. k - 1 + 1 = k /\ (k <= Len(s) <=> k - 1 # Len(s))
        BY <1>1, <3>2
      <4> QED
        BY <4>3, <4>4, <4>5
    <3>3. CASE k # 1 /\ ~(k - 1 <= Len(s))
      <4>1. k - 1 \in 1..n /\ ~(k <= Len(s))
        BY <1>1, <3>3
      <4> QED
        BY <3>3, <4>1
    <3> QED
      BY <3>1, <3>2, <3>3
  <2>2. w = v
    <3> HIDE DEF v
    <3>1. v = [k \in 1..n |-> v[k]]
      BY DEF v
    <3> QED
      BY <2>1, <3>1
  <2> QED
    BY <2>2
<1>3. E(Walk(l, n))
  <2> HIDE DEF E
  <2>1. Walk(l, n) = CHOOSE at : E(at)
    BY DEF Walk, E
  <2> QED
    BY <1>2, <2>1
<1>4. \A k \in 1..n : Walk(l, n)[k] = w[k]
  <2> DEFINE P == {k \in Nat : k + 1 \in 1..n => Walk(l, n)[k + 1] = w[k + 1]}
             W == Walk(l, n)
  <2> HIDE DEF W
  <2>1. /\ \A k \in 1..n : W[k] = IF k = 1 THEN l.head
                               ELSE IF W[k - 1] = NullPtr THEN NullPtr ELSE l.next[W[k - 1]]
        /\ \A k \in 1..n : w[k] = IF k = 1 THEN l.head
                               ELSE IF w[k - 1] = NullPtr THEN NullPtr ELSE l.next[w[k - 1]]
    <3>1. \A k \in 1..n : W[k] = IF k = 1 THEN l.head
                               ELSE IF W[k - 1] = NullPtr THEN NullPtr ELSE l.next[W[k - 1]]
      BY <1>3 DEF W
    <3>2. \A k \in 1..n : w[k] = IF k = 1 THEN l.head
                               ELSE IF w[k - 1] = NullPtr THEN NullPtr ELSE l.next[w[k - 1]]
      <4> HIDE DEF w
      <4> QED
        BY <1>2
    <3> QED
      BY <3>1, <3>2
  <2> HIDE DEF w
  <2>2. 0 \in P
    BY <2>1 DEF W
  <2>3. ASSUME NEW k \in Nat, k \in P PROVE k + 1 \in P
    <3> SUFFICES ASSUME k + 1 + 1 \in 1..n PROVE W[k + 1 + 1] = w[k + 1 + 1]
      BY DEF W
    <3>1. k + 1 \in 1..n /\ k + 1 + 1 # 1 /\ k + 1 + 1 - 1 = k + 1
      OBVIOUS
    <3>2. W[k + 1] = w[k + 1]
      BY <2>3, <3>1 DEF W
    <3> QED
      BY <2>1, <3>1, <3>2
  <2>4. \A k \in Nat : k \in P
    <3> HIDE DEF P
    <3> QED
      BY <2>2, <2>3, SetInduction
  <2>5. ASSUME NEW k \in 1..n PROVE Walk(l, n)[k] = w[k]
    <3>1. k - 1 \in Nat /\ k - 1 + 1 = k
      OBVIOUS
    <3> QED
      BY <2>4, <3>1
  <2> QED
    BY <2>5
<1> QED
  BY <1>4

LEMMA MembersAreElements ==
    ASSUME NEW n \in Nat, NEW l, NEW s \in Chains(n), Linked(l, s)
    PROVE  Members(l, n) = ElementsOf(s)
<1>1. /\ Len(s) \in 0..n /\ DOMAIN s = 1..Len(s)
      /\ \A k \in 1..Len(s) : s[k] \in 1..n
  BY ChainFacts
<1>2. \A k \in 1..n : Walk(l, n)[k] = IF k <= Len(s) THEN s[k] ELSE NullPtr
  BY WalkGoesThrough
<1>3. 0 \notin ElementsOf(s)
  BY <1>1 DEF ElementsOf
<1>4. ASSUME NEW x \in ElementsOf(s) PROVE x \in Members(l, n)
  <2>1. PICK k \in 1..Len(s) : x = s[k]
    BY <1>1 DEF ElementsOf
  <2>2. k \in 1..n /\ k <= Len(s)
    BY <1>1
  <2> QED
    BY <1>2, <1>3, <2>1, <2>2 DEF Members, NullPtr
<1>5. ASSUME NEW x \in Members(l, n) PROVE x \in ElementsOf(s)
  <2>1. PICK k \in 1..n : x = Walk(l, n)[k] /\ x # NullPtr
    BY DEF Members
  <2>2. k \in 1..Len(s) /\ x = s[k]
    BY <1>1, <1>2, <2>1
  <2> QED
    BY <1>1, <2>2 DEF ElementsOf
<1> QED
  BY <1>4, <1>5

\* What the list reads of elements that are not in the chain does not matter.
LEMMA LinkedElsewhere ==
    ASSUME NEW l, NEW m, NEW s, Linked(l, s), m.head = l.head,
           \A e \in ElementsOf(s) : m.next[e] = l.next[e]
    PROVE  Linked(m, s)
  BY DEF Linked, ElementsOf

LEMMA BackLinkedElsewhere ==
    ASSUME NEW l, NEW m, NEW s, BackLinked(l, s),
           \A e \in ElementsOf(s) : m.prev[e] = l.prev[e]
    PROVE  BackLinked(m, s)
  BY DEF BackLinked, ElementsOf

LEMMA EmptyListLinks ==
    ASSUME NEW n \in Nat
    PROVE  /\ EmptyList(n) \in Lists(n)
           /\ Linked(EmptyList(n), <<>>) /\ BackLinked(EmptyList(n), <<>>)
<1>1. DOMAIN <<>> = {}
  OBVIOUS
<1> QED
  BY <1>1 DEF EmptyList, Lists, Linked, BackLinked, NullPtr

\* The first element of a list, and its pointer to the last one.
LEMMA HeadAndLast ==
    ASSUME NEW n \in Nat, NEW l \in Lists(n), NEW s \in Chains(n), s # <<>>,
           Linked(l, s), BackLinked(l, s)
    PROVE  /\ 1 \in DOMAIN s /\ Len(s) \in DOMAIN s
           /\ l.head = s[1] /\ l.prev[l.head] = s[Len(s)]
           /\ s[1] \in 1..n /\ s[Len(s)] \in 1..n
<1>1. /\ Len(s) \in 0..n /\ DOMAIN s = 1..Len(s) /\ Len(s) # 0
      /\ \A k \in 1..Len(s) : s[k] \in 1..n
  BY ChainFacts
<1>2. 1 \in 1..Len(s) /\ Len(s) \in 1..Len(s)
  BY <1>1
<1> QED
  BY <1>1, <1>2 DEF Linked, BackLinked

LEMMA OnlyLinks ==
    ASSUME NEW n \in Nat, NEW l \in Lists(n), NEW e \in 1..n
    PROVE  /\ Only(l, e) \in Lists(n)
           /\ Linked(Only(l, e), Append(<<>>, e)) /\ BackLinked(Only(l, e), Append(<<>>, e))
<1> DEFINE s == Append(<<>>, e)
<1>1. s # <<>> /\ Len(s) = 1 /\ DOMAIN s = 1..1 /\ s[1] = e
  OBVIOUS
<1>2. /\ Only(l, e) \in Lists(n)
      /\ Only(l, e).head = e /\ Only(l, e).next[e] = NullPtr /\ Only(l, e).prev[e] = e
  <2> DEFINE a == WithHead(l, e)
             b == WithPrev(a, e, e)
  <2>1. a \in Lists(n) /\ a.head = e
    BY SMTT(30) DEF Lists, WithHead
  <2>2. Only(l, e) = WithNext(b, e, NullPtr)
    BY DEF Only
  <2> HIDE DEF a
  <2>3. b \in Lists(n) /\ b.head = e /\ b.prev[e] = e
    BY <2>1 DEF Lists, WithPrev
  <2> HIDE DEF b
  <2>4. NullPtr \in 0..n
    BY DEF NullPtr
  <2>5. /\ WithNext(b, e, NullPtr) \in Lists(n)
        /\ WithNext(b, e, NullPtr).head = e /\ WithNext(b, e, NullPtr).next[e] = NullPtr
        /\ WithNext(b, e, NullPtr).prev[e] = e
    BY <2>3, <2>4 DEF Lists, WithNext
  <2> QED
    BY <2>2, <2>5
<1> HIDE DEF s
<1>3. Linked(Only(l, e), s) /\ BackLinked(Only(l, e), s)
  BY <1>1, <1>2 DEF Linked, BackLinked
<1> QED
  BY <1>2, <1>3 DEF s

\* An element that was just allocated is not in the chain.
LEMMA DetachedKeeps ==
    ASSUME NEW n \in Nat, NEW l \in Lists(n), NEW s \in Chains(n),
           NEW e \in 1..n, e \notin ElementsOf(s)
    PROVE  /\ Detached(l, e) \in Lists(n)
           /\ Linked(l, s) => Linked(Detached(l, e), s)
           /\ BackLinked(l, s) => BackLinked(Detached(l, e), s)
           /\ Detached(l, e).head = l.head
           /\ Detached(l, e).next[e] = NullPtr
<1> DEFINE a == WithPrev(l, e, NullPtr)
           m == WithNext(a, e, NullPtr)
<1>1. NullPtr \in 0..n
  BY DEF NullPtr
<1>2. /\ a \in Lists(n) /\ a.head = l.head /\ a.next = l.next
      /\ \A f \in 1..n : f # e => a.prev[f] = l.prev[f]
  BY <1>1 DEF Lists, WithPrev
<1>3. Detached(l, e) = m
  BY DEF Detached
<1> HIDE DEF a
<1>4. /\ m \in Lists(n) /\ m.head = l.head /\ m.prev = a.prev /\ m.next[e] = NullPtr
      /\ \A f \in 1..n : f # e => m.next[f] = l.next[f]
  BY <1>1, <1>2 DEF Lists, WithNext
<1> HIDE DEF m
<1>5. \A f \in ElementsOf(s) : f \in 1..n /\ f # e
  BY ChainFacts
<1>6. Linked(l, s) => Linked(m, s)
  BY <1>4, <1>5, LinkedElsewhere
<1>7. BackLinked(l, s) => BackLinked(m, s)
  BY <1>2, <1>4, <1>5, BackLinkedElsewhere
<1> QED
  BY <1>3, <1>4, <1>6, <1>7

\* The first two statements of DL_APPEND, through any element that points to
\* the last one.
LEMMA LinkBackLinks ==
    ASSUME NEW n \in Nat, NEW l \in Lists(n), NEW s \in Chains(n), s # <<>>,
           Linked(l, s), BackLinked(l, s), NEW e \in 1..n, e \notin ElementsOf(s),
           NEW h \in 1..n, l.prev[h] = s[Len(s)]
    PROVE  /\ LinkBack(l, h, e) \in Lists(n)
           /\ Linked(LinkBack(l, h, e), s) /\ BackLinked(LinkBack(l, h, e), s)
           /\ LinkBack(l, h, e).prev[e] = s[Len(s)]
           /\ LinkBack(l, h, e).next = l.next
           /\ \A f \in 1..n : f # e => LinkBack(l, h, e).prev[f] = l.prev[f]
<1> DEFINE z == s[Len(s)]
           m == LinkBack(l, h, e)
<1>1. z \in 0..n
  BY HeadAndLast
<1>2. m = WithPrev(l, e, z)
  BY DEF LinkBack
<1> HIDE DEF z, m
<1>3. /\ m \in Lists(n) /\ m.head = l.head /\ m.next = l.next
      /\ \A f \in 1..n : m.prev[f] = IF f = e THEN z ELSE l.prev[f]
  BY <1>1, <1>2 DEF Lists, WithPrev
<1>4. \A f \in ElementsOf(s) : f \in 1..n /\ f # e
  BY ChainFacts
<1>5. Linked(m, s)
  BY <1>3, LinkedElsewhere
<1>6. BackLinked(m, s)
  BY <1>3, <1>4, BackLinkedElsewhere
<1> QED
  BY <1>3, <1>5, <1>6 DEF m, z

LEMMA LinkForwardLinks ==
    ASSUME NEW n \in Nat, NEW l \in Lists(n), NEW s \in Chains(n), s # <<>>,
           Linked(l, s), BackLinked(l, s), NEW e \in 1..n, e \notin ElementsOf(s),
           NEW h \in 1..n, l.prev[h] = s[Len(s)]
    PROVE  /\ LinkForward(l, h, e) \in Lists(n)
           /\ Linked(WithNext(LinkForward(l, h, e), e, NullPtr), Append(s, e))
           /\ BackLinked(LinkForward(l, h, e), s)
           /\ LinkForward(l, h, e).prev = l.prev /\ LinkForward(l, h, e).head = l.head
           /\ LinkForward(l, h, e).next[e] = l.next[e]
<1> DEFINE f == LinkForward(l, h, e)
           m == WithNext(f, e, NullPtr)
           t == Append(s, e)
           z == s[Len(s)]
<1>1. /\ l.prev[h] = z /\ z \in 1..n /\ l.head = s[1]
      /\ 1 \in DOMAIN s /\ Len(s) \in DOMAIN s
  BY HeadAndLast
<1>2. /\ Len(s) \in Nat /\ DOMAIN s = 1..Len(s) /\ \A k \in 1..Len(s) : s[k] \in 1..n
      /\ \A i, j \in 1..Len(s) : s[i] = s[j] => i = j
  BY ChainFacts
<1>3. /\ t \in Seq(1..n) /\ Len(t) = Len(s) + 1 /\ DOMAIN t = 1..(Len(s) + 1)
      /\ t[Len(s) + 1] = e /\ \A k \in 1..Len(s) : t[k] = s[k]
  <2>1. t \in Chains(n)
    BY ChainAppend
  <2> QED
    BY <2>1, ChainAppend, ChainFacts
<1>4. \A k \in 1..Len(s) : s[k] # e
  BY <1>2 DEF ElementsOf
<1>5. f = WithNext(l, z, e)
  BY <1>1 DEF LinkForward
<1> HIDE DEF z, t
<1>6. /\ f \in Lists(n) /\ f.prev = l.prev /\ f.head = l.head
      /\ \A x \in 1..n : f.next[x] = IF x = z THEN e ELSE l.next[x]
  <2>1. z \in 1..n /\ e \in 0..n
    BY <1>1
  <2> HIDE DEF f
  <2>2. /\ WithNext(l, z, e) \in Lists(n) /\ WithNext(l, z, e).prev = l.prev
        /\ WithNext(l, z, e).head = l.head
        /\ \A x \in 1..n : WithNext(l, z, e).next[x] = IF x = z THEN e ELSE l.next[x]
    BY <2>1 DEF Lists, WithNext
  <2> QED
    BY <1>5, <2>2
<1> HIDE DEF f
<1>7. /\ m.head = l.head
      /\ \A x \in 1..n : m.next[x] = IF x = e THEN NullPtr ELSE IF x = z THEN e ELSE l.next[x]
  <2>1. NullPtr \in 0..n
    BY DEF NullPtr
  <2>2. /\ m.head = f.head
        /\ \A x \in 1..n : m.next[x] = IF x = e THEN NullPtr ELSE f.next[x]
    BY <1>6, <2>1 DEF Lists, WithNext
  <2> HIDE DEF m
  <2> QED
    BY <1>6, <2>2
<1> HIDE DEF m
<1>8. Linked(m, t)
  <2>1. t # <<>> /\ m.head = t[1]
    BY <1>1, <1>2, <1>3, <1>7
  <2>2. ASSUME NEW k \in 1..(Len(s) + 1)
        PROVE  m.next[t[k]] = IF k = Len(s) + 1 THEN NullPtr ELSE t[k + 1]
    <3>1. CASE k = Len(s) + 1
      BY <1>3, <1>7, <3>1
    <3>2. CASE k = Len(s)
      <4>1. t[k] = z /\ z # e /\ k # Len(s) + 1 /\ t[k + 1] = e
        BY <1>1, <1>2, <1>3, <1>4, <3>2 DEF z
      <4>2. m.next[z] = e
        BY <1>1, <1>7, <4>1
      <4> QED
        BY <4>1, <4>2
    <3>3. CASE k # Len(s) + 1 /\ k # Len(s)
      <4>1. k \in 1..Len(s) /\ k + 1 \in 1..Len(s) /\ Len(s) \in 1..Len(s)
        <5>1. Len(s) \in Nat
          BY <1>2
        <5> QED
          BY <3>3, <5>1
      <4>2. t[k] = s[k] /\ s[k] \in 1..n /\ s[k] # e /\ s[k] # z /\ t[k + 1] = s[k + 1]
        BY <1>2, <1>3, <1>4, <3>3, <4>1 DEF z
      <4>3. m.next[s[k]] = l.next[s[k]]
        BY <1>7, <4>2
      <4>4. l.next[s[k]] = s[k + 1]
        BY <1>2, <3>3, <4>1 DEF Linked
      <4> QED
        BY <3>3, <4>2, <4>3, <4>4
    <3> QED
      BY <3>1, <3>2, <3>3
  <2> QED
    BY <1>3, <2>1, <2>2 DEF Linked
<1>9. BackLinked(f, s)
  BY <1>6 DEF BackLinked
<1>10. f.next[e] = l.next[e]
  BY <1>1, <1>4, <1>6 DEF z
<1> QED
  BY <1>6, <1>8, <1>9, <1>10 DEF m, f, t

\* Clearing a next field that is clear.
LEMMA NextIsNull ==
    ASSUME NEW n \in Nat, NEW l \in Lists(n), NEW e \in 1..n, l.next[e] = NullPtr
    PROVE  WithNext(l, e, NullPtr) = l
<1>1. [l.next EXCEPT ![e] = NullPtr] = l.next
  BY DEF Lists
<1>2. WithNext(l, e, NullPtr) = [head |-> l.head, next |-> [l.next EXCEPT ![e] = NullPtr], prev |-> l.prev]
  BY DEF Lists, WithNext
<1>3. l = [head |-> l.head, next |-> l.next, prev |-> l.prev]
  BY DEF Lists
<1> QED
  BY <1>1, <1>2, <1>3

LEMMA MoveTailLinks ==
    ASSUME NEW n \in Nat, NEW l \in Lists(n), NEW s \in Chains(n), s # <<>>,
           NEW e \in 1..n, e \notin ElementsOf(s),
           Linked(WithNext(l, e, NullPtr), Append(s, e)),
           BackLinked(l, s), l.prev[e] = s[Len(s)]
    PROVE  /\ MoveTail(l, e) \in Lists(n)
           /\ Linked(MoveTail(l, e), Append(s, e)) /\ BackLinked(MoveTail(l, e), Append(s, e))
<1> DEFINE t == Append(s, e)
           m == MoveTail(l, e)
<1>1. /\ Len(s) \in 0..n /\ DOMAIN s = 1..Len(s) /\ \A k \in 1..Len(s) : s[k] \in 1..n
      /\ \A i, j \in 1..Len(s) : s[i] = s[j] => i = j
      /\ Len(s) # 0
  BY ChainFacts
<1>2. /\ t \in Seq(1..n) /\ Len(t) = Len(s) + 1 /\ DOMAIN t = 1..(Len(s) + 1)
      /\ t[Len(s) + 1] = e /\ \A k \in 1..Len(s) : t[k] = s[k]
  <2>1. t \in Chains(n)
    BY ChainAppend
  <2> QED
    BY <2>1, ChainAppend, ChainFacts
<1>3. \A k \in 1..Len(s) : s[k] # e
  BY <1>1 DEF ElementsOf
<1> HIDE DEF t
<1>4. l.head = t[1]
  <2>1. WithNext(l, e, NullPtr).head = t[1]
    BY <1>1, <1>2 DEF Linked, t
  <2>2. WithNext(l, e, NullPtr).head = l.head
    BY DEF Lists, WithNext, NullPtr
  <2> QED
    BY <2>1, <2>2
<1>5. l.head = s[1] /\ s[1] \in 1..n /\ 1 \in 1..Len(s) /\ Len(s) \in 1..Len(s)
  <2>1. 1 \in 1..Len(s) /\ Len(s) \in 1..Len(s)
    BY <1>1
  <2> QED
    BY <1>1, <1>2, <1>4, <2>1
<1>6. /\ m \in Lists(n) /\ m.head = l.head
      /\ \A x \in 1..n : m.prev[x] = IF x = s[1] THEN e ELSE l.prev[x]
      /\ \A x \in 1..n : m.next[x] = WithNext(l, e, NullPtr).next[x]
      /\ WithNext(l, e, NullPtr).head = l.head
  <2> DEFINE a == WithPrev(l, s[1], e)
             w == WithNext(l, e, NullPtr)
  <2>1. /\ a \in Lists(n) /\ a.head = l.head /\ a.next = l.next
        /\ \A x \in 1..n : a.prev[x] = IF x = s[1] THEN e ELSE l.prev[x]
    <3> DEFINE h == s[1]
    <3>1. e \in 0..n /\ h \in 1..n
      BY <1>5
    <3> HIDE DEF h
    <3>2. /\ WithPrev(l, h, e) \in Lists(n) /\ WithPrev(l, h, e).head = l.head
          /\ WithPrev(l, h, e).next = l.next
          /\ \A x \in 1..n : WithPrev(l, h, e).prev[x] = IF x = h THEN e ELSE l.prev[x]
      BY <3>1 DEF Lists, WithPrev
    <3> QED
      BY <3>2 DEF h
  <2>2. m = WithNext(a, e, NullPtr)
    BY <1>5 DEF MoveTail
  <2> HIDE DEF a, m
  <2>3. /\ m \in Lists(n) /\ m.head = a.head /\ m.prev = a.prev
        /\ \A x \in 1..n : m.next[x] = IF x = e THEN NullPtr ELSE a.next[x]
    <3>1. NullPtr \in 0..n
      BY DEF NullPtr
    <3>2. /\ WithNext(a, e, NullPtr) \in Lists(n)
          /\ WithNext(a, e, NullPtr).head = a.head /\ WithNext(a, e, NullPtr).prev = a.prev
          /\ \A x \in 1..n : WithNext(a, e, NullPtr).next[x] = IF x = e THEN NullPtr ELSE a.next[x]
      BY <2>1, <3>1 DEF Lists, WithNext
    <3> QED
      BY <2>2, <3>2
  <2>4. /\ w.head = l.head
        /\ \A x \in 1..n : w.next[x] = IF x = e THEN NullPtr ELSE l.next[x]
    BY DEF Lists, WithNext, NullPtr
  <2> HIDE DEF w
  <2>5. \A x \in 1..n : m.next[x] = w.next[x]
    BY <2>1, <2>3, <2>4
  <2> QED
    BY <2>1, <2>3, <2>4, <2>5 DEF w
<1>7. Linked(m, t)
  <2> DEFINE w == WithNext(l, e, NullPtr)
  <2>1. m.head = w.head /\ \A x \in 1..n : m.next[x] = w.next[x]
    BY <1>6
  <2>2. Linked(w, t)
    BY DEF t
  <2>3. \A k \in DOMAIN t : t[k] \in 1..n
    BY <1>2
  <2> HIDE DEF m, w
  <2> QED
    BY <2>1, <2>2, <2>3 DEF Linked
<1> HIDE DEF m
<1>8. BackLinked(m, t)
  <2> SUFFICES ASSUME NEW k \in 1..(Len(s) + 1)
               PROVE  m.prev[t[k]] = IF k = 1 THEN t[Len(s) + 1] ELSE t[k - 1]
    BY <1>2 DEF BackLinked
  <2>1. CASE k = 1
    BY <1>2, <1>5, <1>6, <2>1
  <2>2. CASE k = Len(s) + 1
    <3>1. t[k] = e /\ e # s[1] /\ k # 1 /\ t[k - 1] = s[Len(s)]
      BY <1>1, <1>2, <1>3, <1>5, <2>2
    <3> QED
      BY <1>6, <3>1
  <2>3. CASE k # 1 /\ k # Len(s) + 1
    <3>1. k \in 1..Len(s) /\ k - 1 \in 1..Len(s)
      BY <1>1, <2>3
    <3>2. t[k] = s[k] /\ t[k - 1] = s[k - 1] /\ s[k] # s[1] /\ s[k] \in 1..n
      BY <1>1, <1>2, <1>5, <2>3, <3>1
    <3>3. l.prev[s[k]] = s[k - 1]
      BY <1>1, <2>3, <3>1 DEF BackLinked
    <3> QED
      BY <1>6, <2>3, <3>2, <3>3
  <2> QED
    BY <2>1, <2>2, <2>3
<1> QED
  BY <1>6, <1>7, <1>8 DEF m, t

\* DL_APPEND.
LEMMA AppendLinks ==
    ASSUME NEW n \in Nat, NEW l \in Lists(n), NEW s \in Chains(n),
           Linked(l, s), BackLinked(l, s), NEW e \in 1..n, e \notin ElementsOf(s)
    PROVE  /\ DLAppend(l, e) \in Lists(n)
           /\ Linked(DLAppend(l, e), Append(s, e)) /\ BackLinked(DLAppend(l, e), Append(s, e))
<1>1. CASE s = <<>>
  <2>1. DLAppend(l, e) = Only(l, e)
    BY <1>1 DEF DLAppend, Linked
  <2> QED
    BY <1>1, <2>1, OnlyLinks
<1>2. CASE s # <<>>
  <2> DEFINE h == l.head
             b == LinkBack(l, h, e)
             f == LinkForward(b, h, e)
  <2>0. h \in 1..n /\ l.prev[h] = s[Len(s)] /\ h # e
    <3>1. h = s[1] /\ 1 \in DOMAIN s
      BY <1>2, HeadAndLast
    <3>2. h \in ElementsOf(s)
      BY <3>1 DEF ElementsOf
    <3> QED
      BY <1>2, <3>2, HeadAndLast
  <2>1. /\ b \in Lists(n) /\ Linked(b, s) /\ BackLinked(b, s)
        /\ b.prev[e] = s[Len(s)] /\ b.prev[h] = s[Len(s)]
    <3> HIDE DEF h
    <3> QED
      BY <1>2, <2>0, LinkBackLinks
  <2>2. l.head # NullPtr
    BY <2>0 DEF NullPtr
  <2>3. DLAppend(l, e) = MoveTail(f, e)
    BY <2>2 DEF DLAppend
  <2> HIDE DEF b, h
  <2>4. /\ f \in Lists(n) /\ Linked(WithNext(f, e, NullPtr), Append(s, e))
        /\ BackLinked(f, s) /\ f.prev[e] = s[Len(s)]
    BY <1>2, <2>0, <2>1, LinkForwardLinks
  <2> HIDE DEF f
  <2> QED
    BY <1>2, <2>3, <2>4, MoveTailLinks
<1> QED
  BY <1>1, <1>2

\* A list without its first element: the head and the next fields.
LEMMA TailLinks ==
    ASSUME NEW n \in Nat, NEW l, NEW m, NEW s \in Chains(n), Len(s) > 1,
           Linked(l, s), m.head = s[2], m.next = l.next
    PROVE  Linked(m, Tail(s))
<1> DEFINE t == Tail(s)
<1>1. /\ Len(s) \in Nat /\ DOMAIN s = 1..Len(s) /\ s # <<>>
  BY ChainFacts
<1>2. /\ Len(t) = Len(s) - 1 /\ DOMAIN t = 1..(Len(s) - 1) /\ t # <<>> /\ t[1] = s[2]
      /\ \A k \in 1..(Len(s) - 1) : t[k] = s[k + 1]
  <2>1. /\ t \in Chains(n) /\ Len(t) = Len(s) - 1
        /\ \A k \in 1..(Len(s) - 1) : t[k] = s[k + 1]
    BY <1>1, ChainTail
  <2> HIDE DEF t
  <2>2. DOMAIN t = 1..(Len(s) - 1)
    BY <2>1, ChainFacts
  <2>3. 1 \in 1..(Len(s) - 1) /\ 1 + 1 = 2
    BY <1>1
  <2>4. t # <<>> /\ t[1] = s[2]
    BY <2>1, <2>2, <2>3
  <2> QED
    BY <2>1, <2>2, <2>4
<1> HIDE DEF t
<1> SUFFICES ASSUME NEW k \in 1..(Len(s) - 1)
             PROVE  m.next[t[k]] = IF k = Len(t) THEN NullPtr ELSE t[k + 1]
  BY <1>2 DEF Linked, t
<1>3. t[k] = s[k + 1] /\ k + 1 \in 1..Len(s)
  BY <1>1, <1>2
<1>4. l.next[s[k + 1]] = IF k + 1 = Len(s) THEN NullPtr ELSE s[k + 1 + 1]
  BY <1>1, <1>3 DEF Linked
<1>5. k = Len(t) <=> k + 1 = Len(s)
  BY <1>1, <1>2
<1>6. k # Len(t) => t[k + 1] = s[k + 1 + 1]
  <2>1. k # Len(t) => k + 1 \in 1..(Len(s) - 1)
    BY <1>1, <1>2
  <2> QED
    BY <1>2, <2>1
<1> QED
  BY <1>3, <1>4, <1>5, <1>6

\* And the prev fields: the new first element gets the pointer to the last.
LEMMA TailBackLinks ==
    ASSUME NEW n \in Nat, NEW l, NEW m, NEW s \in Chains(n), Len(s) > 1,
           BackLinked(l, s),
           \A x \in 1..n : m.prev[x] = IF x = s[2] THEN s[Len(s)] ELSE l.prev[x]
    PROVE  BackLinked(m, Tail(s))
<1> DEFINE t == Tail(s)
<1>1. /\ Len(s) \in Nat /\ DOMAIN s = 1..Len(s) /\ s # <<>>
      /\ \A k \in 1..Len(s) : s[k] \in 1..n
      /\ \A i, j \in 1..Len(s) : s[i] = s[j] => i = j
  BY ChainFacts
<1>2. /\ Len(t) = Len(s) - 1 /\ DOMAIN t = 1..(Len(s) - 1) /\ t # <<>> /\ t[1] = s[2]
      /\ \A k \in 1..(Len(s) - 1) : t[k] = s[k + 1]
  <2>1. /\ t \in Chains(n) /\ Len(t) = Len(s) - 1
        /\ \A k \in 1..(Len(s) - 1) : t[k] = s[k + 1]
    BY <1>1, ChainTail
  <2> HIDE DEF t
  <2>2. DOMAIN t = 1..(Len(s) - 1)
    BY <2>1, ChainFacts
  <2>3. 1 \in 1..(Len(s) - 1) /\ 1 + 1 = 2
    BY <1>1
  <2>4. t # <<>> /\ t[1] = s[2]
    BY <2>1, <2>2, <2>3
  <2> QED
    BY <2>1, <2>2, <2>4
<1> HIDE DEF t
<1>3. t[Len(t)] = s[Len(s)] /\ 2 \in 1..Len(s)
  BY <1>1, <1>2
<1> SUFFICES ASSUME NEW k \in 1..(Len(s) - 1)
             PROVE  m.prev[t[k]] = IF k = 1 THEN t[Len(t)] ELSE t[k - 1]
  BY <1>2 DEF BackLinked, t
<1>4. k + 1 \in 1..Len(s) /\ k + 1 # 1
  BY <1>1
<1>5. t[k] = s[k + 1] /\ s[k + 1] \in 1..n /\ l.prev[s[k + 1]] = s[k]
  <2>1. s[k + 1] \in 1..n
    BY <1>1, <1>4
  <2>2. ASSUME NEW j \in 1..Len(s), j # 1 PROVE l.prev[s[j]] = s[j - 1]
    BY <1>1, <2>2 DEF BackLinked
  <2>3. (k + 1) - 1 = k
    OBVIOUS
  <2>4. l.prev[s[k + 1]] = s[(k + 1) - 1]
    BY <1>4, <2>2
  <2> QED
    BY <1>2, <2>1, <2>3, <2>4
<1>6. CASE k = 1
  <2>1. s[k + 1] = s[2]
    BY <1>6
  <2>2. m.prev[s[k + 1]] = s[Len(s)]
    BY <1>5, <2>1
  <2> QED
    BY <1>3, <1>5, <1>6, <2>2
<1>7. CASE k # 1
  <2>1. t[k - 1] = s[k]
    <3>1. k - 1 \in 1..(Len(s) - 1) /\ (k - 1) + 1 = k
      BY <1>1, <1>7
    <3> QED
      BY <1>2, <3>1
  <2>2. s[k + 1] # s[2]
    BY <1>1, <1>3, <1>4, <1>7
  <2> QED
    BY <1>5, <1>7, <2>1, <2>2
<1> QED
  BY <1>6, <1>7

\* DL_DELETE of the first element: what it assigns when there are more, ...
LEMMA DeleteFirst ==
    ASSUME NEW n \in Nat, NEW l \in Lists(n), NEW h \in 1..n, NEW y \in 1..n, NEW z \in 1..n,
           l.head = h, l.next[h] = y, l.prev[h] = z, z # h
    PROVE  /\ DLDelete(l, l.head) \in Lists(n)
           /\ DLDelete(l, l.head).head = y /\ DLDelete(l, l.head).next = l.next
           /\ \A x \in 1..n : DLDelete(l, l.head).prev[x] = IF x = y THEN z ELSE l.prev[x]
<1> DEFINE m == DLDelete(l, l.head)
           a == WithHead(l, y)
<1>1. m = DLDeleteHead(l)
  <2>1. WithHead(l, l.head) = l
    BY DEF Lists, WithHead
  <2> QED
    BY <2>1 DEF DLDelete
<1>2. m = WithPrev(a, y, z)
  BY <1>1 DEF DLDeleteHead
<1>3. a \in Lists(n) /\ a.head = y /\ a.next = l.next /\ a.prev = l.prev
  BY DEF Lists, WithHead
<1> HIDE DEF a, m
<1>4. /\ m \in Lists(n) /\ m.head = a.head /\ m.next = a.next
      /\ \A x \in 1..n : m.prev[x] = IF x = y THEN z ELSE a.prev[x]
  BY <1>2, <1>3 DEF Lists, WithPrev
<1> QED
  BY <1>3, <1>4 DEF m

\* ... and when there are none.
LEMMA DeleteOnly ==
    ASSUME NEW n \in Nat, NEW l \in Lists(n), NEW h \in 1..n,
           l.head = h, l.prev[h] = h
    PROVE  /\ DLDelete(l, l.head) \in Lists(n)
           /\ DLDelete(l, l.head).head = NullPtr
           /\ DLDelete(l, l.head).next = l.next /\ DLDelete(l, l.head).prev = l.prev
<1>1. WithHead(l, l.head) = l
  BY DEF Lists, WithHead
<1>2. DLDelete(l, l.head) = WithHead(l, NullPtr)
  BY <1>1 DEF DLDelete, DLDeleteHead
<1> QED
  BY <1>2 DEF Lists, WithHead, NullPtr

LEMMA DeleteFirstLinks ==
    ASSUME NEW n \in Nat, NEW l \in Lists(n), NEW s \in Chains(n), s # <<>>,
           Linked(l, s), BackLinked(l, s)
    PROVE  /\ DLDelete(l, l.head) \in Lists(n)
           /\ Linked(DLDelete(l, l.head), Tail(s)) /\ BackLinked(DLDelete(l, l.head), Tail(s))
           /\ DLDelete(l, l.head).next = l.next
           /\ \A x \in 1..n : DLDelete(l, l.head).prev[x] \in {l.prev[x], s[Len(s)]}
<1> DEFINE m == DLDelete(l, l.head)
<1>1. /\ Len(s) \in Nat /\ Len(s) # 0 /\ DOMAIN s = 1..Len(s) /\ \A k \in 1..Len(s) : s[k] \in 1..n
      /\ \A i, j \in 1..Len(s) : s[i] = s[j] => i = j
  BY ChainFacts
<1>2. /\ l.head = s[1] /\ l.prev[s[1]] = s[Len(s)] /\ s[1] \in 1..n /\ s[Len(s)] \in 1..n
      /\ 1 \in 1..Len(s) /\ Len(s) \in 1..Len(s)
  BY <1>1, HeadAndLast
<1>3. CASE Len(s) = 1
  <2>1. m \in Lists(n) /\ m.head = NullPtr /\ m.next = l.next /\ m.prev = l.prev
    BY <1>2, <1>3, DeleteOnly
  <2>2. Tail(s) = <<>>
    <3>1. Tail(s) \in Chains(n) /\ Len(Tail(s)) = 0
      BY <1>3, ChainTail
    <3> DEFINE t == Tail(s)
    <3> HIDE DEF t
    <3>2. t \in Seq(1..n) /\ Len(t) = 0
      BY <3>1, ChainFacts DEF t
    <3>3. t = <<>>
      BY <3>2
    <3> QED
      BY <3>3 DEF t
  <2> HIDE DEF m
  <2>3. Linked(m, Tail(s)) /\ BackLinked(m, Tail(s))
    <3>1. DOMAIN <<>> = {}
      OBVIOUS
    <3> QED
      BY <2>1, <2>2, <3>1 DEF Linked, BackLinked
  <2> QED
    BY <2>1, <2>3 DEF m
<1>4. CASE Len(s) # 1
  <2>1. Len(s) > 1 /\ 2 \in 1..Len(s) /\ s[Len(s)] # s[1] /\ s[2] \in 1..n
    BY <1>1, <1>2, <1>4
  <2>2. l.next[s[1]] = s[2]
    BY <1>1, <1>2, <1>4 DEF Linked
  <2>3. /\ m \in Lists(n) /\ m.head = s[2] /\ m.next = l.next
        /\ \A x \in 1..n : m.prev[x] = IF x = s[2] THEN s[Len(s)] ELSE l.prev[x]
    BY <1>2, <2>1, <2>2, DeleteFirst
  <2> HIDE DEF m
  <2>4. Linked(m, Tail(s)) /\ BackLinked(m, Tail(s))
    BY <2>1, <2>3, TailLinks, TailBackLinks
  <2> QED
    BY <2>3, <2>4 DEF m
<1> QED
  BY <1>3, <1>4

\* The same between the third and the fourth statement of DL_APPEND, when the
\* new element hangs at a last one that was not the only one.
LEMMA DeleteBeforeTail ==
    ASSUME NEW n \in Nat, NEW l \in Lists(n), NEW s \in Chains(n), s # <<>>,
           NEW e \in 1..n, e \notin ElementsOf(s),
           Linked(l, Append(s, e)), BackLinked(l, s),
           DLDelete(l, l.head).head # NullPtr
    PROVE  /\ DLDelete(l, l.head) \in Lists(n)
           /\ Linked(DLDelete(l, l.head), Append(Tail(s), e))
           /\ BackLinked(DLDelete(l, l.head), Tail(s))
           /\ Len(s) > 1
           /\ \A x \in 1..n : DLDelete(l, l.head).prev[x] \in {l.prev[x], s[Len(s)]}
<1> DEFINE m == DLDelete(l, l.head)
           t == Append(s, e)
<1>1. /\ Len(s) \in Nat /\ Len(s) # 0 /\ DOMAIN s = 1..Len(s) /\ \A k \in 1..Len(s) : s[k] \in 1..n
      /\ \A i, j \in 1..Len(s) : s[i] = s[j] => i = j /\ s \in Seq(1..n)
  BY ChainFacts
<1>2. /\ t \in Chains(n) /\ Len(t) = Len(s) + 1 /\ DOMAIN t = 1..(Len(s) + 1)
      /\ \A k \in 1..Len(s) : t[k] = s[k]
  <2>1. t \in Chains(n)
    BY ChainAppend
  <2> QED
    BY <2>1, ChainAppend, ChainFacts
<1>3. Tail(t) = Append(Tail(s), e)
  <2>1. s \in Seq(1..n) /\ s # <<>>
    BY ChainFacts
  <2> QED
    BY <2>1
<1>4. 1 \in 1..Len(s) /\ Len(s) \in 1..Len(s) /\ s[1] \in 1..n /\ s[Len(s)] \in 1..n
  BY <1>1
<1> HIDE DEF t
<1>5. l.head = s[1] /\ l.prev[s[1]] = s[Len(s)]
  <2>1. t # <<>> /\ t[1] = s[1]
    BY <1>1, <1>2, <1>4
  <2> QED
    BY <1>1, <1>4, <2>1 DEF Linked, BackLinked, t
<1>6. Len(s) # 1
  <2>1. ASSUME Len(s) = 1 PROVE FALSE
    BY <1>4, <1>5, <2>1, DeleteOnly
  <2> QED
    BY <2>1
<1>7. Len(s) > 1 /\ 2 \in 1..Len(s) /\ s[Len(s)] # s[1] /\ s[2] \in 1..n
  BY <1>1, <1>4, <1>6
<1>8. l.next[s[1]] = s[2]
  <2>1. 1 \in DOMAIN t /\ t[1] = s[1] /\ t[2] = s[2] /\ 1 # Len(t)
    BY <1>1, <1>2, <1>4, <1>7
  <2>2. l.next[t[1]] = t[1 + 1]
    BY <2>1 DEF Linked, t
  <2> QED
    BY <2>1, <2>2
<1>9. /\ m \in Lists(n) /\ m.head = s[2] /\ m.next = l.next
      /\ \A x \in 1..n : m.prev[x] = IF x = s[2] THEN s[Len(s)] ELSE l.prev[x]
  BY <1>4, <1>5, <1>7, <1>8, DeleteFirst
<1> HIDE DEF m
<1>10. BackLinked(m, Tail(s))
  BY <1>7, <1>9, TailBackLinks
<1>11. Linked(m, Tail(t))
  <2>1. Len(t) > 1 /\ m.head = t[2] /\ Linked(l, t)
    BY <1>1, <1>2, <1>7, <1>9 DEF t
  <2> QED
    BY <1>2, <1>9, <2>1, TailLinks
<1> QED
  BY <1>3, <1>7, <1>9, <1>10, <1>11 DEF m

--------------------------------------------------------------------------------
(* Pools.                                                                     *)

\* The search finds a free item when there is one, from wherever it starts.
LEMMA FreeItemIsFree ==
    ASSUME NEW n \in Nat \ {0}, NEW pool \in Pools(n), HasFree(pool, n)
    PROVE  FreeItem(pool, n) \in (1..n) \ pool.used
<1> DEFINE item(i) == ((pool.index + i) % n) + 1
           T == {i \in 0..(n - 1) : item(i) \notin pool.used}
           Q(i) == item(i) \notin pool.used /\ \A j \in 0..(i - 1) : item(j) \in pool.used
<1>1. pool.used \subseteq 1..n /\ pool.index \in 0..(n - 1)
  BY DEF Pools
<1>2. \A i \in 0..(n - 1) : item(i) \in 1..n
  BY <1>1
<1>3. PICK x \in 1..n : x \notin pool.used
  BY <1>1 DEF HasFree
<1>4. \E i \in 0..(n - 1) : item(i) = x
  <2>1. CASE pool.index <= x - 1
    <3>1. x - 1 - pool.index \in 0..(n - 1) /\ pool.index + (x - 1 - pool.index) = x - 1
      BY <1>1, <2>1
    <3>2. (x - 1) % n = x - 1
      OBVIOUS
    <3> QED
      BY <3>1, <3>2
  <2>2. CASE x - 1 < pool.index
    <3>1. /\ x - 1 - pool.index + n \in 0..(n - 1)
          /\ pool.index + (x - 1 - pool.index + n) = x - 1 + n
      BY <1>1, <2>2
    <3>2. (x - 1 + n) % n = x - 1
      OBVIOUS
    <3> QED
      BY <3>1, <3>2
  <2> QED
    BY <1>1, <2>1, <2>2
<1>5. T # {} /\ T \in SUBSET Nat
  BY <1>3, <1>4
<1>6. \E i \in 0..(n - 1) : Q(i)
  <2> HIDE DEF item
  <2>1. PICK i \in T : \A j \in T : i <= j
    <3> HIDE DEF T
    <3> QED
      BY <1>5, Least
  <2>2. ASSUME NEW j \in 0..(i - 1) PROVE item(j) \in pool.used
    <3>1. j \in 0..(n - 1) /\ ~(i <= j)
      OBVIOUS
    <3> QED
      BY <2>1, <3>1
  <2> QED
    BY <2>2
<1>7. FreeItem(pool, n) = item(CHOOSE i \in 0..(n - 1) : Q(i))
  BY DEF FreeItem
<1> HIDE DEF Q
<1>8. (CHOOSE i \in 0..(n - 1) : Q(i)) \in 0..(n - 1) /\ Q(CHOOSE i \in 0..(n - 1) : Q(i))
  BY <1>6
<1> HIDE DEF item
<1> QED
  BY <1>2, <1>7, <1>8 DEF Q

LEMMA AllocTakes ==
    ASSUME NEW n \in Nat \ {0}, NEW pool \in Pools(n), HasFree(pool, n)
    PROVE  /\ Alloc(pool, n) \in Pools(n)
           /\ Alloc(pool, n).used = pool.used \cup {FreeItem(pool, n)}
           /\ FreeItem(pool, n) \in 1..n /\ FreeItem(pool, n) \notin pool.used
<1>1. FreeItem(pool, n) \in 1..n /\ FreeItem(pool, n) \notin pool.used
  BY FreeItemIsFree
<1> QED
  BY <1>1 DEF Alloc, Pools

LEMMA FreeGives ==
    ASSUME NEW n \in Nat, NEW pool \in Pools(n), NEW item
    PROVE  Free(pool, item) \in Pools(n) /\ Free(pool, item).used = pool.used \ {item}
  BY DEF Free, Pools
================================================================================
