-------------------------- MODULE XlinkRegistryProofs --------------------------
(***************************************************************************)
(* Proofs about XlinkRegistry, for any number of cells, handlers and       *)
(* messages: the list of handlers is whole and implements HandlerTable,    *)
(* and a walk calls every handler that stays registered once.              *)
(***************************************************************************)
EXTENDS XlinkRegistry, DriverLemmas, SequenceTheorems

LEMMA RegistryConstants ==
    /\ Cells \in Nat /\ Cells # 0 /\ Elements = 1..Cells /\ NullPtr = 0
    /\ NullPtr \notin Elements
    /\ MsgOf \in [Handlers -> Messages]
  BY RegistryAssumption DEF Elements, NullPtr

--------------------------------------------------------------------------------
(* Sequences and chains without one element.                                  *)

LEMMA RemoveAtGives ==
    ASSUME NEW S, NEW s \in Seq(S), NEW k \in 1..Len(s)
    PROVE  /\ RemoveAt(s, k) \in Seq(S) /\ Len(RemoveAt(s, k)) = Len(s) - 1
           /\ DOMAIN RemoveAt(s, k) = 1..(Len(s) - 1)
           /\ \A i \in 1..(Len(s) - 1) : RemoveAt(s, k)[i] = IF i < k THEN s[i] ELSE s[i + 1]
<1>1. PICK a, b, n \in Int : a = k - 1 /\ b = k + 1 /\ n = Len(s) /\ n \in Nat
  OBVIOUS
<1> DEFINE u == SubSeq(s, 1, a)
           v == SubSeq(s, b, n)
<1>2. /\ u \in Seq(S) /\ Len(u) = a /\ \A i \in 1..a : u[i] = s[i]
  BY <1>1, SubSeqProperties
<1>3. /\ v \in Seq(S) /\ Len(v) = n - k /\ \A i \in 1..(n - k) : v[i] = s[k + i]
  BY SMTT(30), <1>1, SubSeqProperties
<1>4. RemoveAt(s, k) = u \o v
  BY <1>1 DEF RemoveAt
<1> HIDE DEF u, v
<1>5. u \o v \in Seq(S) /\ Len(u \o v) = n - 1
  BY <1>1, <1>2, <1>3
<1>6. ASSUME NEW i \in 1..(n - 1) PROVE (u \o v)[i] = IF i < k THEN s[i] ELSE s[i + 1]
  <2>1. CASE i < k
    BY <1>1, <1>2, <1>3, <2>1
  <2>2. CASE ~(i < k)
    <3>1. PICK j \in Int : j = i - a
      BY <1>1
    <3>2. j \in 1..(n - k) /\ k + j = i + 1
      BY <1>1, <2>2, <3>1
    <3>3. (u \o v)[i] = v[j]
      BY <1>1, <1>2, <1>3, <2>2, <3>1
    <3> QED
      BY <1>3, <2>2, <3>2, <3>3
  <2> QED
    BY <2>1, <2>2
<1> QED
  BY <1>1, <1>4, <1>5, <1>6

LEMMA ChainRemove ==
    ASSUME NEW n \in Nat, NEW s \in Chains(n), NEW k \in 1..Len(s)
    PROVE  /\ RemoveAt(s, k) \in Chains(n)
           /\ ElementsOf(RemoveAt(s, k)) = ElementsOf(s) \ {s[k]}
<1> DEFINE t == RemoveAt(s, k)
<1>1. /\ s \in Seq(1..n) /\ Len(s) \in 0..n /\ DOMAIN s = 1..Len(s)
      /\ \A i \in 1..Len(s) : s[i] \in 1..n
      /\ \A i, j \in 1..Len(s) : s[i] = s[j] => i = j
  BY ChainFacts
<1>2. /\ t \in Seq(1..n) /\ DOMAIN t = 1..(Len(s) - 1)
      /\ \A i \in 1..(Len(s) - 1) : t[i] = IF i < k THEN s[i] ELSE s[i + 1]
  <2>1. s \in Seq(1..n) /\ k \in 1..Len(s)
    BY <1>1
  <2> QED
    BY ONLY <2>1, RemoveAtGives
<1> HIDE DEF t
<1>3. PICK m \in 0..n : m = Len(s) - 1
  <2>1. Len(s) - 1 \in 0..n
    BY <1>1
  <2> QED
    BY <2>1
<1>4. PICK from \in [1..m -> 1..Len(s)] : \A i \in 1..m : from[i] = IF i < k THEN i ELSE i + 1
  <2>1. [i \in 1..m |-> IF i < k THEN i ELSE i + 1] \in [1..m -> 1..Len(s)]
    BY SMTT(30), <1>1, <1>3
  <2> QED
    BY <2>1
<1>5. /\ \A i \in 1..m : from[i] # k
      /\ \A i, j \in 1..m : from[i] = from[j] => i = j
  <2>1. ASSUME NEW i \in 1..m PROVE from[i] # k
    BY SMTT(30), <1>1, <1>3, <1>4
  <2>2. ASSUME NEW i \in 1..m, NEW j \in 1..m, from[i] = from[j] PROVE i = j
    <3>1. /\ from[i] = IF i < k THEN i ELSE i + 1
          /\ from[j] = IF j < k THEN j ELSE j + 1
      BY <1>4
    <3>2. i \in Int /\ j \in Int /\ k \in Int
      BY <1>3
    <3>3. CASE i < k /\ j < k
      BY <2>2, <3>1, <3>3
    <3>4. CASE ~(i < k) /\ ~(j < k)
      <4>1. i + 1 = j + 1
        BY <2>2, <3>1, <3>4
      <4> QED
        BY <3>2, <4>1
    <3>5. CASE i < k /\ ~(j < k)
      <4>1. i = j + 1
        BY <2>2, <3>1, <3>5
      <4> QED
        BY <3>2, <3>5, <4>1
    <3>6. CASE ~(i < k) /\ j < k
      <4>1. i + 1 = j
        BY <2>2, <3>1, <3>6
      <4> QED
        BY <3>2, <3>6, <4>1
    <3> QED
      BY <3>3, <3>4, <3>5, <3>6
  <2> QED
    BY <2>1, <2>2
<1>6. ASSUME NEW j \in 1..Len(s), j # k PROVE \E i \in 1..m : from[i] = j
  <2>1. CASE j < k
    <3>1. j \in 1..m
      BY <1>1, <1>3, <2>1
    <3> QED
      BY <1>4, <2>1, <3>1
  <2>2. CASE ~(j < k)
    <3>1. PICK i \in Int : i = j - 1
      OBVIOUS
    <3>2. i \in 1..m /\ ~(i < k) /\ i + 1 = j
      BY <1>1, <1>3, <1>6, <2>2, <3>1
    <3> QED
      BY <1>4, <3>2
  <2> QED
    BY <2>1, <2>2
<1>7. \A i \in 1..m : t[i] = s[from[i]]
  BY <1>2, <1>3, <1>4
<1>8. t \in Chains(n)
  <2>1. t \in [1..m -> 1..n]
    BY <1>2, <1>3
  <2>2. ASSUME NEW i \in 1..m, NEW j \in 1..m, t[i] = t[j] PROVE i = j
    <3>1. s[from[i]] = s[from[j]]
      BY <1>7, <2>2
    <3>2. from[i] = from[j]
      BY <1>1, <1>4, <3>1
    <3> QED
      BY <1>5, <3>2
  <2> QED
    BY <2>1, <2>2 DEF Chains
<1>9. ElementsOf(t) = ElementsOf(s) \ {s[k]}
  <2>1. ASSUME NEW x \in ElementsOf(t) PROVE x \in ElementsOf(s) \ {s[k]}
    <3>1. PICK i \in 1..m : x = t[i]
      BY <1>2, <1>3 DEF ElementsOf
    <3>2. x = s[from[i]] /\ from[i] \in 1..Len(s) /\ from[i] # k
      BY <1>4, <1>5, <1>7, <3>1
    <3> QED
      BY <1>1, <3>2 DEF ElementsOf
  <2>2. ASSUME NEW x \in ElementsOf(s) \ {s[k]} PROVE x \in ElementsOf(t)
    <3>1. PICK j \in 1..Len(s) : x = s[j] /\ j # k
      BY <1>1 DEF ElementsOf
    <3>2. PICK i \in 1..m : from[i] = j
      BY <1>6, <3>1
    <3>3. x = t[i] /\ i \in DOMAIN t
      BY <1>2, <1>3, <1>7, <3>1, <3>2
    <3> QED
      BY <3>3 DEF ElementsOf
  <2> QED
    BY <2>1, <2>2
<1> QED
  BY <1>8, <1>9 DEF t

--------------------------------------------------------------------------------
(* What the list operators say of a list that is a chain.                     *)

Ordered ==
    \A s \in Chains(Cells) : Linked(Chain, s) =>
        /\ InOrder = s /\ ToSet(InOrder) = ElementsOf(s)
        /\ Registered = {holds[s[k]] : k \in DOMAIN s}

LEMMA ChainInOrder == Ordered
<1> SUFFICES ASSUME NEW s \in Chains(Cells), Linked(Chain, s)
             PROVE  /\ InOrder = s /\ ToSet(InOrder) = ElementsOf(s)
                    /\ Registered = {holds[s[k]] : k \in DOMAIN s}
  BY DEF Ordered
<1>1. /\ s \in Seq(Elements) /\ Len(s) \in 0..Cells /\ DOMAIN s = 1..Len(s)
      /\ Cardinality(ElementsOf(s)) = Len(s)
  BY ChainFacts, RegistryConstants
<1>2. Members(Chain, Cells) = ElementsOf(s)
  BY MembersAreElements, RegistryConstants
<1>3. \A k \in 1..Len(s) : Walk(Chain, Cells)[k] = s[k]
  <2>1. \A k \in 1..Cells : Walk(Chain, Cells)[k] = IF k <= Len(s) THEN s[k] ELSE NullPtr
    BY WalkGoesThrough, RegistryConstants
  <2>2. \A k \in 1..Len(s) : k \in 1..Cells /\ k <= Len(s)
    BY <1>1, RegistryConstants
  <2> QED
    BY <2>1, <2>2
<1>4. InOrder = [k \in 1..Len(s) |-> s[k]]
  BY <1>1, <1>2, <1>3 DEF InOrder
<1>5. InOrder = s
  BY <1>1, <1>4
<1>6. ToSet(InOrder) = ElementsOf(s)
  BY <1>5 DEF ToSet, ElementsOf
<1>7. Registered = {holds[s[k]] : k \in DOMAIN s}
  BY <1>5 DEF Registered, ToSet
<1> QED
  BY <1>5, <1>6, <1>7

LEMMA ChainInOrderAfter == Ordered'
  BY ChainInOrder, PTL

LEMMA ListFacts ==
    ASSUME NEW s \in Chains(Cells), ListIs(s), NEW n, n = Len(s)
    PROVE  /\ n \in Nat /\ n <= Cells
           /\ s \in Seq(Elements) /\ DOMAIN s = 1..n /\ (s = <<>> <=> n = 0)
           /\ \A k \in 1..n : s[k] \in Elements /\ s[k] \in ElementsOf(s)
           /\ \A j, k \in 1..n : s[j] = s[k] => j = k
           /\ InOrder = s /\ ToSet(InOrder) = ElementsOf(s)
           /\ Registered = {holds[s[k]] : k \in 1..n}
           /\ head = IF n = 0 THEN NullPtr ELSE s[1]
           /\ last = IF n = 0 THEN NullPtr ELSE s[n]
           /\ \A k \in 1..n : next[s[k]] = IF k = n THEN NullPtr ELSE s[k + 1]
<1>1. Linked(Chain, s)
  BY DEF ListIs
<1>2. /\ s \in Seq(Elements) /\ Len(s) \in 0..Cells /\ DOMAIN s = 1..Len(s)
      /\ \A k \in 1..Len(s) : s[k] \in Elements
      /\ \A j, k \in 1..Len(s) : s[j] = s[k] => j = k
  BY ChainFacts, RegistryConstants
<1>3. \A k \in 1..Len(s) : s[k] \in ElementsOf(s)
  BY <1>2 DEF ElementsOf
<1>4. s = <<>> <=> n = 0
  BY <1>2
<1>5. /\ head = IF n = 0 THEN NullPtr ELSE s[1]
      /\ last = IF n = 0 THEN NullPtr ELSE s[n]
      /\ \A k \in 1..Len(s) : next[s[k]] = IF k = Len(s) THEN NullPtr ELSE s[k + 1]
  BY <1>1, <1>2, <1>4 DEF Linked, Chain, ListIs
<1>6. InOrder = s /\ ToSet(InOrder) = ElementsOf(s) /\ Registered = {holds[s[k]] : k \in DOMAIN s}
  BY <1>1, ChainInOrder DEF Ordered
<1>7. Len(s) \in Nat /\ Len(s) <= Cells
  BY <1>2, RegistryConstants
<1> QED
  BY <1>2, <1>3, <1>4, <1>5, <1>6, <1>7

\* Pointers that link t and the rest of what the list keeps.
LEMMA ListIsAfter ==
    ASSUME NEW t \in Chains(Cells), NEW n \in Nat, Len(t) = n, DOMAIN t = 1..n, t = <<>> <=> n = 0,
           head' = IF n = 0 THEN NullPtr ELSE t[1],
           last' = IF n = 0 THEN NullPtr ELSE t[n],
           \A k \in 1..n : next'[t[k]] = IF k = n THEN NullPtr ELSE t[k + 1],
           current' \notin ElementsOf(t),
           allocated' = ElementsOf(t) \cup ({current'} \ {NullPtr})
    PROVE  ListIs(t)'
<1>1. Linked(Chain, t)'
  BY DEF Linked, Chain
<1> QED
  BY <1>1 DEF ListIs

--------------------------------------------------------------------------------
(* The owner links and unlinks.                                               *)

LEMMA LinkNewLists ==
    ASSUME TypeOK, NEW s \in Chains(Cells), ListIs(s), current = NullPtr,
           NEW h \in Handlers, NEW e \in Elements \ allocated,
           LinkNew(h, e), UNCHANGED current,
           NEW t, t = Append(s, e)
    PROVE  t \in Chains(Cells) /\ ListIs(t)'
<1>1. PICK n : n = Len(s)
  OBVIOUS
<1>2. n \in Nat
  BY <1>1, ListFacts
<1>3. /\ DOMAIN s = 1..n /\ (s = <<>> <=> n = 0)
      /\ \A k \in 1..n : s[k] \in Elements /\ s[k] \in ElementsOf(s)
      /\ \A j, k \in 1..n : s[j] = s[k] => j = k
      /\ head = IF n = 0 THEN NullPtr ELSE s[1]
      /\ last = IF n = 0 THEN NullPtr ELSE s[n]
      /\ \A k \in 1..n : next[s[k]] = IF k = n THEN NullPtr ELSE s[k + 1]
  BY <1>1, ListFacts
<1>4. e \in Elements /\ e \notin ElementsOf(s) /\ NullPtr \notin Elements /\ allocated = ElementsOf(s)
  BY RegistryConstants DEF ListIs
<1>5. /\ t \in Chains(Cells) /\ ElementsOf(t) = ElementsOf(s) \cup {e}
      /\ Len(t) = n + 1 /\ t[n + 1] = e
      /\ \A k \in 1..n : t[k] = s[k]
  BY <1>1, <1>4, ChainAppend, RegistryConstants
<1>6. PICK m \in Nat : m = n + 1
  BY <1>2
<1>7. DOMAIN t = 1..m /\ Len(t) = m /\ t # <<>> /\ m # 0 /\ t[m] = e
  <2>1. DOMAIN t = 1..Len(t) /\ Len(t) = m
    BY <1>5, <1>6, ChainFacts, RegistryConstants
  <2>2. m # 0
    BY <1>2, <1>6
  <2>3. Len(<<>>) = 0
    OBVIOUS
  <2> QED
    BY <1>5, <1>6, <2>1, <2>2, <2>3
<1>8. allocated' = allocated \cup {e} /\ last' = e /\ current' = NullPtr
  BY DEF LinkNew
<1>9. ElementsOf(t) \subseteq Elements
  BY <1>5, ChainFacts, RegistryConstants
<1>10. CASE n = 0
  <2>1. head' = e /\ next' = [next EXCEPT ![e] = NullPtr]
    BY <1>3, <1>10 DEF LinkNew, LinkAtLast
  <2>2. next'[e] = NullPtr
    BY <1>4, <2>1 DEF TypeOK
  <2>3. m = 1 /\ \A k \in 1..m : k = m
    BY <1>6, <1>10
  <2>4. \A k \in 1..m : next'[t[k]] = IF k = m THEN NullPtr ELSE t[k + 1]
    BY <1>7, <2>2, <2>3
  <2> QED
    BY <1>4, <1>5, <1>7, <1>8, <1>9, <2>1, <2>3, <2>4, ListIsAfter
<1>11. CASE n # 0
  <2>1. n \in 1..n /\ 1 \in 1..n
    BY <1>2, <1>11
  <2>2. last = s[n] /\ last \in Elements /\ last # NullPtr /\ last # e
    BY <1>3, <1>4, <1>11, <2>1
  <2>3. head' = head /\ next' = [next EXCEPT ![e] = NullPtr, ![last] = e]
    BY <2>2 DEF LinkNew, LinkAtLast
  <2>4. /\ next'[e] = NullPtr /\ next'[last] = e
        /\ \A x \in Elements : x # e /\ x # last => next'[x] = next[x]
    BY <1>4, <2>2, <2>3 DEF TypeOK
  <2>5. head' = t[1]
    BY <1>3, <1>5, <1>11, <2>1, <2>3
  <2>6. ASSUME NEW k \in 1..m
        PROVE  next'[t[k]] = IF k = m THEN NullPtr ELSE t[k + 1]
    <3>1. CASE k = m
      BY <1>7, <2>4, <3>1
    <3>2. CASE k = n
      <4>1. k # m /\ k + 1 = m
        BY <1>2, <1>6, <3>2
      <4>2. t[k] = last /\ t[k + 1] = e
        BY <1>5, <1>7, <2>1, <2>2, <3>2, <4>1
      <4> QED
        BY <2>4, <4>1, <4>2
    <3>3. CASE k # m /\ k # n
      <4>1. k \in 1..n /\ k + 1 \in 1..n
        BY <1>2, <1>6, <3>3
      <4>2. t[k] = s[k] /\ t[k + 1] = s[k + 1]
        BY <1>5, <4>1
      <4>3. s[k] # last /\ s[k] # e /\ s[k] \in Elements
        BY <1>3, <1>4, <2>1, <2>2, <3>3, <4>1
      <4>4. next[s[k]] = s[k + 1]
        BY <1>3, <3>3, <4>1
      <4> QED
        BY <2>4, <3>3, <4>2, <4>3, <4>4
    <3> QED
      BY <3>1, <3>2, <3>3
  <2> QED
    BY <1>4, <1>5, <1>7, <1>8, <1>9, <2>5, <2>6, ListIsAfter
<1> QED
  BY <1>10, <1>11

LEMMA UnlinkLists ==
    ASSUME TypeOK, NEW s \in Chains(Cells), ListIs(s), current = NullPtr,
           NEW k \in 1..Len(s), Unlink(IF k = 1 THEN NullPtr ELSE s[k - 1], s[k]),
           current' = s[k], allocated' = allocated,
           NEW t, t = RemoveAt(s, k)
    PROVE  /\ t \in Chains(Cells) /\ ListIs(t)'
           /\ next'[s[k]] = next[s[k]]
<1>1. PICK n : n = Len(s)
  OBVIOUS
<1>2. n \in Nat /\ k \in 1..n
  BY <1>1, ListFacts
<1>3. /\ s \in Seq(Elements)
      /\ \A i \in 1..n : s[i] \in Elements /\ s[i] \in ElementsOf(s)
      /\ \A i, j \in 1..n : s[i] = s[j] => i = j
      /\ head = IF n = 0 THEN NullPtr ELSE s[1]
      /\ last = IF n = 0 THEN NullPtr ELSE s[n]
      /\ \A i \in 1..n : next[s[i]] = IF i = n THEN NullPtr ELSE s[i + 1]
  BY <1>1, ListFacts
<1>4. n # 0 /\ n \in 1..n /\ 1 \in 1..n
  BY <1>2
<1>5. head = s[1] /\ last = s[n] /\ allocated = ElementsOf(s)
  BY <1>3, <1>4 DEF ListIs
<1>6. NullPtr \notin Elements /\ Elements = 1..Cells /\ Cells \in Nat
  BY RegistryConstants
<1>7. t \in Chains(Cells) /\ ElementsOf(t) = ElementsOf(s) \ {s[k]}
  BY <1>6, ChainRemove
<1>8. PICK m \in Nat : m = n - 1
  <2>1. n - 1 \in Nat
    BY <1>2
  <2> QED
    BY <2>1
<1>9. /\ t \in Seq(Elements) /\ Len(t) = m /\ DOMAIN t = 1..m
      /\ \A i \in 1..m : t[i] = IF i < k THEN s[i] ELSE s[i + 1]
  BY ZenonT(30), <1>1, <1>3, <1>8, RemoveAtGives
<1>10. t = <<>> <=> m = 0
  BY <1>9
<1>11. /\ current' \notin ElementsOf(t)
       /\ allocated' = ElementsOf(t) \cup ({current'} \ {NullPtr})
  BY <1>2, <1>3, <1>5, <1>6, <1>7
<1>12. CASE k = 1
  <2>1. head' = next[s[1]] /\ next' = next /\ last' = IF last = s[1] THEN NullPtr ELSE last
    BY <1>12 DEF Unlink, UnlinkAfter
  <2>2. \A i \in 1..m : i + 1 \in 1..n /\ ~(i < k)
    BY <1>2, <1>8, <1>12
  <2>3. \A i \in 1..m : t[i] = s[i + 1]
    BY <1>9, <2>2
  <2>4. (m = 0 <=> n = 1) /\ (m # 0 => 1 \in 1..m /\ m \in 1..m) /\ m + 1 = n
    BY <1>2, <1>8
  <2>5. next[s[1]] = IF n = 1 THEN NullPtr ELSE s[1 + 1]
    BY <1>3, <1>4
  <2>6. head' = IF m = 0 THEN NullPtr ELSE t[1]
    BY <2>1, <2>3, <2>4, <2>5
  <2>7. ASSUME NEW i \in 1..m PROVE next'[t[i]] = IF i = m THEN NullPtr ELSE t[i + 1]
    <3>1. next[s[i + 1]] = IF i + 1 = n THEN NullPtr ELSE s[i + 1 + 1]
      BY <1>3, <2>2
    <3>2. (i + 1 = n <=> i = m) /\ (i # m => i + 1 \in 1..m)
      BY <1>2, <1>8
    <3>3. i # m => t[i + 1] = s[i + 1 + 1]
      BY <2>3, <3>2
    <3> QED
      BY <2>1, <2>3, <3>1, <3>2, <3>3
  <2>8. last' = IF m = 0 THEN NullPtr ELSE t[m]
    <3>1. CASE m = 0
      BY <1>5, <2>1, <2>4, <3>1
    <3>2. CASE m # 0
      <4>1. last # s[1]
        BY <1>3, <1>4, <1>5, <2>4, <3>2
      <4>2. t[m] = s[n]
        BY <2>3, <2>4, <3>2
      <4> QED
        BY <1>5, <2>1, <3>2, <4>1, <4>2
    <3> QED
      BY <3>1, <3>2
  <2>9. ListIs(t)'
    BY <1>7, <1>9, <1>10, <1>11, <2>6, <2>7, <2>8, ListIsAfter
  <2> QED
    BY <1>7, <2>1, <2>9
<1>13. CASE k # 1
  <2>1. PICK b \in 1..n : b = k - 1
    <3>1. k - 1 \in 1..n
      BY <1>2, <1>13
    <3> QED
      BY <3>1
  <2>2. b \in 1..m /\ b < k /\ m # 0 /\ m \in 1..m /\ 1 \in 1..m /\ 1 < k /\ b # k
    BY <1>2, <1>8, <1>13, <2>1
  <2>3. s[b] \in Elements /\ s[b] # NullPtr /\ s[b] # s[k]
    BY <1>2, <1>3, <1>6, <2>2
  <2>4. /\ head' = head /\ next' = [next EXCEPT ![s[b]] = next[s[k]]]
        /\ last' = IF last = s[k] THEN s[b] ELSE last
    BY <1>13, <2>1, <2>3 DEF Unlink, UnlinkAfter
  <2>5. /\ next'[s[b]] = next[s[k]]
        /\ \A x \in Elements : x # s[b] => next'[x] = next[x]
    BY <2>3, <2>4 DEF TypeOK
  <2>6. head' = t[1]
    BY <1>5, <1>9, <2>2, <2>4
  <2>7. ASSUME NEW i \in 1..m PROVE next'[t[i]] = IF i = m THEN NullPtr ELSE t[i + 1]
    <3>1. CASE i = b
      <4>1. i + 1 = k /\ (k = n <=> i = m) /\ (i # m => i + 1 \in 1..m /\ ~(i + 1 < k))
        BY <1>2, <1>8, <2>1, <3>1
      <4>2. t[i] = s[b]
        BY <1>9, <2>2, <3>1
      <4>3. next[s[k]] = IF k = n THEN NullPtr ELSE s[k + 1]
        BY <1>2, <1>3
      <4>4. i # m => t[i + 1] = s[k + 1]
        BY <1>9, <4>1
      <4> QED
        BY <2>5, <4>1, <4>2, <4>3, <4>4
    <3>2. CASE i < b
      <4>1. i \in 1..n /\ i < k /\ i # n /\ i # m /\ i + 1 \in 1..m /\ i + 1 < k /\ i # b
        BY <1>2, <1>8, <2>1, <3>2
      <4>2. t[i] = s[i] /\ t[i + 1] = s[i + 1]
        BY <1>9, <4>1
      <4>3. s[i] # s[b] /\ s[i] \in Elements /\ next[s[i]] = s[i + 1]
        BY <1>3, <4>1
      <4> QED
        BY <2>5, <4>1, <4>2, <4>3
    <3>3. CASE ~(i < b) /\ i # b
      <4>1. PICK j \in 1..n : j = i + 1
        <5>1. i + 1 \in 1..n
          BY <1>2, <1>8
        <5> QED
          BY <5>1
      <4>2. /\ ~(i < k) /\ j # b /\ (j = n <=> i = m)
            /\ (i # m => i + 1 \in 1..m /\ ~(i + 1 < k) /\ i + 1 + 1 = j + 1)
        BY <1>2, <1>8, <2>1, <3>3, <4>1
      <4>3. t[i] = s[j] /\ (i # m => t[i + 1] = s[j + 1])
        BY <1>9, <4>1, <4>2
      <4>4. s[j] # s[b] /\ s[j] \in Elements /\ next[s[j]] = IF j = n THEN NullPtr ELSE s[j + 1]
        BY <1>3, <4>2
      <4> QED
        BY <2>5, <4>2, <4>3, <4>4
    <3>4. i = b \/ i < b \/ (~(i < b) /\ i # b)
      OBVIOUS
    <3> QED
      BY <3>1, <3>2, <3>3, <3>4
  <2>8. last' = t[m]
    <3>1. CASE k = n
      <4>1. m < k /\ m = b
        BY <1>2, <1>8, <2>1, <3>1
      <4>2. t[m] = s[b]
        BY <1>9, <2>2, <4>1
      <4> QED
        BY <1>5, <2>4, <3>1, <4>2
    <3>2. CASE k # n
      <4>1. ~(m < k) /\ m + 1 = n
        BY <1>2, <1>8, <3>2
      <4>2. last # s[k]
        BY <1>2, <1>3, <1>4, <1>5, <3>2
      <4>3. t[m] = s[n]
        BY <1>9, <2>2, <4>1
      <4> QED
        BY <1>5, <2>4, <4>2, <4>3
    <3> QED
      BY <3>1, <3>2
  <2>9. ListIs(t)'
    BY SMTT(30), <1>7, <1>9, <1>10, <1>11, <2>2, <2>6, <2>7, <2>8, ListIsAfter
  <2>10. next'[s[k]] = next[s[k]]
    BY <1>2, <1>3, <2>3, <2>5
  <2> QED
    BY <1>7, <2>9, <2>10
<1> QED
  BY <1>12, <1>13

--------------------------------------------------------------------------------
(* The walk goes on while the owner works.                                    *)

LEMMA NextAfter ==
    ASSUME NEW t \in Chains(Cells), ListIs(t)', NEW m, m = Len(t)
    PROVE  /\ m \in Nat /\ DOMAIN t = 1..m
           /\ \A k \in 1..m : t[k] \in Elements
           /\ \A k \in 1..m : next'[t[k]] = IF k = m THEN NullPtr ELSE t[k + 1]
<1>1. DOMAIN t = 1..m /\ m \in Nat /\ \A k \in 1..m : t[k] \in Elements
  BY ChainFacts, RegistryConstants
<1>2. Linked(Chain, t)'
  BY DEF ListIs
<1> QED
  BY <1>1, <1>2 DEF Linked, Chain

\* A walk of the n elements of s stands before the one at r.
Place(s, n, r) ==
    /\ pos = current \/ (r - 1 \in 1..n /\ pos = s[r - 1])
    /\ next[pos] = IF r > n THEN NullPtr ELSE s[r]
    /\ \A k \in 1..n : holds[s[k]] \in steady /\ MsgOf[holds[s[k]]] = frame =>
           calls[holds[s[k]]] = IF k < r /\ (s[k] # pos \/ rpc = "next") THEN 1 ELSE 0

LEMMA WalkFacts ==
    ASSUME NEW s \in Chains(Cells), ListIs(s), Walking(s), NEW n, n = Len(s)
    PROVE  /\ pos # NullPtr /\ pos \in allocated
           /\ steady \subseteq Registered
           /\ rpc \in {"load", "call"} => MsgOf[holds[pos]] = frame
           /\ rpc = "call" => calling = holds[pos]
           /\ \E r \in 1..(n + 1) : Place(s, n, r)
<1>1. /\ n \in Nat /\ DOMAIN s = 1..n
      /\ \A k \in 1..n : s[k] \in Elements /\ s[k] \in ElementsOf(s)
      /\ Registered = {holds[s[k]] : k \in 1..n}
  BY ListFacts
<1>2. steady \subseteq Registered
  BY <1>1 DEF Walking
<1>3. PICK r \in 1..(n + 1) : StandsBefore(s, r) /\ CallsSoFar(s, r)
  BY DEF Walking
<1>4. pos = current \/ (r - 1 \in 1..n /\ pos = s[r - 1])
  <2>1. r > 1 => r - 1 \in 1..n
    BY <1>1
  <2> QED
    BY <1>3, <2>1 DEF StandsBefore
<1>5. pos # NullPtr /\ next[pos] = IF r > n THEN NullPtr ELSE s[r]
  BY <1>3 DEF StandsBefore
<1>6. \A k \in 1..n : holds[s[k]] \in steady /\ MsgOf[holds[s[k]]] = frame =>
          calls[holds[s[k]]] = IF k < r /\ (s[k] # pos \/ rpc = "next") THEN 1 ELSE 0
  BY <1>1, <1>3 DEF CallsSoFar
<1>7. pos \in allocated
  BY <1>1, <1>4, <1>5 DEF ListIs
<1>8. /\ rpc \in {"load", "call"} => MsgOf[holds[pos]] = frame
      /\ rpc = "call" => calling = holds[pos]
  BY <1>3 DEF StandsBefore
<1>9. Place(s, n, r)
  BY <1>4, <1>5, <1>6 DEF Place
<1> QED
  BY <1>2, <1>5, <1>7, <1>8, <1>9

LEMMA LinkKeepsWalk ==
    ASSUME TypeOK, NEW s \in Chains(Cells), ListIs(s), current = NullPtr, Walking(s),
           NEW h \in Handlers, h \notin Registered, NEW e \in Elements \ allocated,
           LinkNew(h, e), UNCHANGED <<current, walk, ghosts>>,
           NEW t \in Chains(Cells), ListIs(t)', Len(t) = Len(s) + 1,
           t[Len(s) + 1] = e, \A k \in 1..Len(s) : t[k] = s[k]
    PROVE  Walking(t)'
<1>1. PICK n : n = Len(s)
  OBVIOUS
<1>2. n \in Nat
  BY <1>1, ListFacts
<1>3. /\ s \in Seq(Elements)
      /\ \A k \in 1..n : s[k] \in Elements /\ s[k] \in ElementsOf(s)
      /\ Registered = {holds[s[k]] : k \in 1..n}
  BY <1>1, ListFacts
<1>4. PICK m \in Nat : m = n + 1
  BY <1>2
<1>5. Len(t) = m /\ t[m] = e /\ \A k \in 1..n : t[k] = s[k]
  BY <1>1, <1>4
<1>6. /\ DOMAIN t = 1..m
      /\ \A k \in 1..m : next'[t[k]] = IF k = m THEN NullPtr ELSE t[k + 1]
  BY <1>5, NextAfter
<1>7. /\ holds' = [holds EXCEPT ![e] = h]
      /\ steady' = steady /\ frame' = frame /\ calls' = calls /\ rpc' = rpc /\ pos' = pos
      /\ calling' = calling /\ current' = current
  BY DEF LinkNew, walk, ghosts
<1>8. allocated = ElementsOf(s)
  BY DEF ListIs
<1>9. \A x \in allocated : holds'[x] = holds[x]
  BY <1>7 DEF TypeOK
<1>10. holds'[e] = h
  BY <1>7 DEF TypeOK
<1>11. /\ pos # NullPtr /\ pos \in allocated /\ steady \subseteq Registered
       /\ rpc \in {"load", "call"} => MsgOf[holds[pos]] = frame
       /\ rpc = "call" => calling = holds[pos]
  BY <1>1, WalkFacts
<1>12. PICK r \in 1..(n + 1) :
         /\ r - 1 \in 1..n /\ pos = s[r - 1]
         /\ \A k \in 1..n : holds[s[k]] \in steady /\ MsgOf[holds[s[k]]] = frame =>
                calls[holds[s[k]]] = IF k < r /\ (s[k] # pos \/ rpc = "next") THEN 1 ELSE 0
  <2>1. PICK r \in 1..(n + 1) : Place(s, n, r)
    BY <1>1, WalkFacts
  <2> QED
    BY <1>11, <2>1 DEF Place
<1>13. StandsBefore(t, r)'
  <2>1. PICK q \in 1..n : q = r - 1
    BY <1>12
  <2>2. q \in 1..m /\ q # m /\ q + 1 = r /\ ~(r > m) /\ r > 1
    BY <1>2, <1>4, <1>12, <2>1
  <2>3. t[q] = pos
    BY <1>5, <1>12, <2>1
  <2>4. next'[pos] = t[r]
    BY <1>6, <2>2, <2>3
  <2>5. pos = t[r - 1]
    BY <2>1, <2>3
  <2> QED
    BY <1>5, <1>7, <1>9, <1>11, <2>2, <2>4, <2>5 DEF StandsBefore
<1>14. ASSUME NEW k \in 1..m, holds'[t[k]] \in steady, MsgOf[holds'[t[k]]] = frame
       PROVE  calls[holds'[t[k]]] = IF k < r /\ (t[k] # pos \/ rpc = "next") THEN 1 ELSE 0
  <2>1. CASE k = m
    BY <1>5, <1>10, <1>11, <1>14, <2>1
  <2>2. CASE k # m
    <3>1. k \in 1..n
      BY <1>2, <1>4, <2>2
    <3>2. t[k] = s[k] /\ holds'[s[k]] = holds[s[k]]
      BY <1>3, <1>5, <1>8, <1>9, <3>1
    <3> QED
      BY <1>12, <1>14, <3>1, <3>2
  <2> QED
    BY <2>1, <2>2
<1>15. CallsSoFar(t, r)'
  BY SMTT(30), <1>6, <1>7, <1>14 DEF CallsSoFar
<1>16. steady' \subseteq {holds'[t[k]] : k \in 1..m}
  <2>1. ASSUME NEW x \in steady PROVE \E k \in 1..m : x = holds'[t[k]]
    <3>1. PICK k \in 1..n : x = holds[s[k]]
      BY <1>3, <1>11
    <3>2. k \in 1..m
      BY <1>2, <1>4
    <3>3. t[k] = s[k] /\ holds'[s[k]] = holds[s[k]]
      BY <1>3, <1>5, <1>8, <1>9
    <3> QED
      BY <3>1, <3>2, <3>3
  <2> QED
    BY <1>7, <2>1
<1>17. r \in 1..(Len(t) + 1)
  BY <1>2, <1>4, <1>5
<1> QED
  BY <1>6, <1>13, <1>15, <1>16, <1>17 DEF Walking

LEMMA UnlinkKeepsWalk ==
    ASSUME TypeOK, HandlersDiffer, NEW s \in Chains(Cells), ListIs(s), current = NullPtr, Walking(s),
           NEW k \in 1..Len(s), NEW h, holds[s[k]] = h, steady' = steady \ {h},
           current' = s[k], next'[s[k]] = next[s[k]], UNCHANGED <<holds, allocated, walk>>,
           NEW t \in Chains(Cells), t = RemoveAt(s, k), ListIs(t)'
    PROVE  Walking(t)'
<1>1. PICK n : n = Len(s)
  OBVIOUS
<1>2. n \in Nat /\ k \in 1..n
  BY <1>1, ListFacts
<1>3. /\ s \in Seq(Elements)
      /\ \A i \in 1..n : s[i] \in Elements /\ s[i] \in ElementsOf(s)
      /\ \A i, j \in 1..n : s[i] = s[j] => i = j
      /\ Registered = {holds[s[i]] : i \in 1..n}
  BY <1>1, ListFacts
<1>4. PICK m \in Nat : m = n - 1
  <2>1. n - 1 \in Nat
    BY <1>2
  <2> QED
    BY <2>1
<1>5. /\ Len(t) = m
      /\ \A i \in 1..m : t[i] = IF i < k THEN s[i] ELSE s[i + 1]
  <2>1. s \in Seq(Elements)
    BY <1>3
  <2>2. /\ Len(t) = Len(s) - 1
        /\ \A i \in 1..(Len(s) - 1) : t[i] = IF i < k THEN s[i] ELSE s[i + 1]
    BY <2>1, RemoveAtGives
  <2> QED
    BY <1>1, <1>4, <2>2
<1>6. /\ DOMAIN t = 1..m
      /\ \A i \in 1..m : next'[t[i]] = IF i = m THEN NullPtr ELSE t[i + 1]
  BY SMTT(30), <1>5, NextAfter
<1>7. /\ frame' = frame /\ calls' = calls /\ rpc' = rpc /\ pos' = pos
      /\ calling' = calling /\ holds' = holds
  BY DEF walk
<1>8. /\ pos # NullPtr /\ steady \subseteq Registered
      /\ rpc \in {"load", "call"} => MsgOf[holds[pos]] = frame
      /\ rpc = "call" => calling = holds[pos]
  BY <1>1, WalkFacts
<1>9. PICK r \in 1..(n + 1) :
         /\ r - 1 \in 1..n /\ pos = s[r - 1]
         /\ next[pos] = IF r > n THEN NullPtr ELSE s[r]
         /\ \A i \in 1..n : holds[s[i]] \in steady /\ MsgOf[holds[s[i]]] = frame =>
                calls[holds[s[i]]] = IF i < r /\ (s[i] # pos \/ rpc = "next") THEN 1 ELSE 0
  <2>1. PICK r \in 1..(n + 1) : Place(s, n, r)
    BY <1>1, WalkFacts
  <2> QED
    BY <1>8, <2>1 DEF Place
<1>10. PICK a \in 1..(m + 1) : a = IF k < r THEN r - 1 ELSE r
  <2>1. (IF k < r THEN r - 1 ELSE r) \in 1..(m + 1)
    BY <1>2, <1>4, <1>9
  <2> QED
    BY <2>1
<1>11. PICK q \in 1..n : q = r - 1 /\ pos = s[q]
  BY <1>9
<1>12. StandsBefore(t, a)'
  <2>1. CASE k = q
    <3>1. a = q /\ k < r /\ r = a + 1 /\ (r > n <=> a > m) /\ (~(a > m) => a \in 1..m /\ ~(a < k))
      BY <1>2, <1>4, <1>9, <1>10, <1>11, <2>1
    <3>2. ~(a > m) => t[a] = s[r]
      BY <1>5, <3>1
    <3>3. next'[pos] = IF a > m THEN NullPtr ELSE t[a]
      BY <1>9, <1>11, <2>1, <3>1, <3>2
    <3> QED
      BY <1>5, <1>7, <1>8, <1>11, <2>1, <3>3 DEF StandsBefore
  <2>2. CASE k # q
    <3>1. PICK b \in 1..m : b = a - 1 /\ a > 1
      <4>1. a - 1 \in 1..m /\ a > 1
        BY <1>2, <1>4, <1>9, <1>10, <1>11, <2>2
      <4> QED
        BY <4>1
    <3>2. /\ b < k => b = q
          /\ ~(b < k) => b + 1 = q
          /\ b + 1 = a /\ (b = m <=> a > m)
      BY <1>2, <1>4, <1>9, <1>10, <1>11, <2>2, <3>1
    <3>3. t[b] = pos
      BY <1>5, <1>11, <3>2
    <3>4. next'[pos] = IF a > m THEN NullPtr ELSE t[a]
      BY <1>6, <3>2, <3>3
    <3>5. t[a - 1] = pos
      BY <3>1, <3>3
    <3> QED
      BY <1>5, <1>7, <1>8, <3>1, <3>4, <3>5 DEF StandsBefore
  <2> QED
    BY <2>1, <2>2
<1>13. ASSUME NEW i \in 1..m, holds[t[i]] \in steady, MsgOf[holds[t[i]]] = frame
       PROVE  calls[holds[t[i]]] = IF i < a /\ (t[i] # pos \/ rpc = "next") THEN 1 ELSE 0
  <2>1. PICK j \in 1..n : j = IF i < k THEN i ELSE i + 1
    <3>1. (IF i < k THEN i ELSE i + 1) \in 1..n
      BY <1>2, <1>4
    <3> QED
      BY <3>1
  <2>2. t[i] = s[j]
    BY <1>5, <2>1
  <2>3. i < a <=> j < r
    BY <1>2, <1>4, <1>9, <1>10, <2>1
  <2> QED
    BY <1>9, <1>13, <2>2, <2>3
<1>14. CallsSoFar(t, a)'
  BY <1>6, <1>7, <1>13 DEF CallsSoFar
<1>15. steady' \subseteq {holds'[t[i]] : i \in 1..m}
  <2>1. ASSUME NEW x \in steady \ {h} PROVE \E i \in 1..m : x = holds[t[i]]
    <3>1. PICK j \in 1..n : x = holds[s[j]] /\ j # k
      BY <1>3, <1>8
    <3>2. PICK i \in 1..m : j = IF i < k THEN i ELSE i + 1
      <4>1. CASE j < k
        <5>1. j \in 1..m
          BY <1>2, <1>4, <4>1
        <5> QED
          BY <4>1, <5>1
      <4>2. CASE ~(j < k)
        <5>1. j - 1 \in 1..m /\ ~(j - 1 < k) /\ j - 1 + 1 = j
          BY <1>2, <1>4, <3>1, <4>2
        <5> QED
          BY <5>1
      <4> QED
        BY <4>1, <4>2
    <3>3. t[i] = s[j]
      BY <1>5, <3>2
    <3> QED
      BY <3>1, <3>3
  <2> QED
    BY <1>7, <2>1
<1> QED
  BY <1>5, <1>6, <1>12, <1>14, <1>15 DEF Walking

--------------------------------------------------------------------------------
(* The walk itself.                                                           *)

LEMMA WalkingAfter ==
    ASSUME NEW s \in Chains(Cells), NEW n \in Nat, n = Len(s), NEW r \in 1..(n + 1),
           Place(s, n, r)', pos' # NullPtr,
           steady' \subseteq {holds'[s[k]] : k \in 1..n},
           rpc' \in {"load", "call"} => MsgOf[holds'[pos']] = frame',
           rpc' = "call" => calling' = holds'[pos']
    PROVE  Walking(s)'
<1>1. DOMAIN s = 1..n
  BY ChainFacts, RegistryConstants
<1>2. pos' = current' \/ (r > 1 /\ pos' = s[r - 1])
  BY DEF Place
<1>3. StandsBefore(s, r)'
  BY <1>2 DEF Place, StandsBefore
<1>4. CallsSoFar(s, r)'
  BY <1>1 DEF Place, CallsSoFar
<1> QED
  BY <1>1, <1>3, <1>4 DEF Walking

LEMMA FreeKeepsWalk ==
    ASSUME NEW s \in Chains(Cells), ListIs(s), Walking(s), pos \in ElementsOf(s),
           UNCHANGED <<next, walk, steady>>,
           \A x \in ElementsOf(s) : holds'[x] = holds[x]
    PROVE  Walking(s)'
<1>1. PICK n : n = Len(s)
  OBVIOUS
<1>2. n \in Nat
  BY <1>1, ListFacts
<1>3. /\ \A k \in 1..n : s[k] \in ElementsOf(s)
      /\ Registered = {holds[s[k]] : k \in 1..n}
  BY <1>1, ListFacts
<1>4. /\ pos # NullPtr /\ steady \subseteq Registered
      /\ rpc \in {"load", "call"} => MsgOf[holds[pos]] = frame
      /\ rpc = "call" => calling = holds[pos]
  BY <1>1, WalkFacts
<1>5. PICK r \in 1..(n + 1) : Place(s, n, r)
  BY <1>1, WalkFacts
<1>6. /\ frame' = frame /\ calls' = calls /\ rpc' = rpc /\ pos' = pos
      /\ calling' = calling /\ steady' = steady /\ next' = next
  BY DEF walk
<1>7. pos # current
  BY DEF ListIs
<1>8. Place(s, n, r)'
  BY <1>3, <1>5, <1>6, <1>7 DEF Place
<1>9. {holds'[s[k]] : k \in 1..n} = {holds[s[k]] : k \in 1..n}
  BY <1>3
<1> QED
  BY <1>1, <1>2, <1>3, <1>4, <1>6, <1>8, <1>9, WalkingAfter

LEMMA FrameWalks ==
    ASSUME HandlersDiffer, NEW s \in Chains(Cells), ListIs(s), component = "live",
           NEW m \in Messages, Frame(m)
    PROVE  /\ rpc' # "idle" => Walking(s)'
           /\ rpc' = "idle" => steady' = {}
<1>1. PICK n : n = Len(s)
  OBVIOUS
<1>2. n \in Nat
  BY <1>1, ListFacts
<1>3. /\ \A k \in 1..n : s[k] \in Elements /\ s[k] \in ElementsOf(s)
      /\ \A j, k \in 1..n : s[j] = s[k] => j = k
      /\ Registered = {holds[s[k]] : k \in 1..n}
      /\ head = IF n = 0 THEN NullPtr ELSE s[1]
      /\ \A k \in 1..n : next[s[k]] = IF k = n THEN NullPtr ELSE s[k + 1]
  BY <1>1, ListFacts
<1>4. /\ rpc' = IF head = NullPtr THEN "idle" ELSE "test"
      /\ pos' = head
  BY DEF Frame, GoOn, Goto
<1>5. /\ calls' = [h \in Handlers |-> 0] /\ steady' = Registered
      /\ holds' = holds /\ next' = next /\ current' = current
  BY DEF Frame, BeginWalk, list
<1>6. CASE n = 0
  <2>1. head = NullPtr
    BY <1>3, <1>6
  <2>2. Registered = {}
    BY <1>3, <1>6
  <2> QED
    BY <1>4, <1>5, <2>1, <2>2
<1>7. CASE n # 0
  <2>1. 1 \in 1..n /\ 2 \in 1..(n + 1) /\ 2 - 1 = 1 /\ 1 + 1 = 2 /\ (1 = n <=> 2 > n)
    BY <1>2, <1>7
  <2>2. head = s[1] /\ head # NullPtr /\ head \in Elements
    BY <1>3, <1>7, <2>1, RegistryConstants
  <2>3. rpc' = "test" /\ pos' = s[1]
    BY <1>4, <2>2
  <2>4. next'[pos'] = IF 2 > n THEN NullPtr ELSE s[2]
    BY <1>3, <1>5, <2>1, <2>3
  <2>5. ASSUME NEW k \in 1..n, holds'[s[k]] \in steady'
        PROVE  calls'[holds'[s[k]]] = IF k < 2 /\ (s[k] # pos' \/ rpc' = "next") THEN 1 ELSE 0
    <3>1. holds[s[k]] \in Handlers
      BY <1>3 DEF HandlersDiffer, ListIs
    <3>2. calls'[holds'[s[k]]] = 0
      BY <1>5, <3>1
    <3>3. k < 2 => k = 1
      BY <1>2
    <3> QED
      BY <2>3, <3>2, <3>3
  <2>6. Place(s, n, 2)'
    BY <2>1, <2>3, <2>4, <2>5 DEF Place
  <2> QED
    BY <1>1, <1>2, <1>3, <1>5, <2>1, <2>2, <2>3, <2>6, WalkingAfter
<1> QED
  BY <1>6, <1>7

LEMMA StepWalks ==
    ASSUME HandlersDiffer, NEW s \in Chains(Cells), ListIs(s), Walking(s),
           rpc \in {"test", "load"}, Test \/ Load
    PROVE  Walking(s)'
<1>1. PICK n : n = Len(s)
  OBVIOUS
<1>2. n \in Nat
  BY <1>1, ListFacts
<1>3. Registered = {holds[s[k]] : k \in 1..n}
  BY <1>1, ListFacts
<1>4. /\ pos # NullPtr /\ pos \in allocated /\ steady \subseteq Registered
      /\ rpc \in {"load", "call"} => MsgOf[holds[pos]] = frame
  BY <1>1, WalkFacts
<1>5. PICK r \in 1..(n + 1) : Place(s, n, r)
  BY <1>1, WalkFacts
<1>6. /\ frame' = frame /\ calls' = calls /\ pos' = pos
      /\ steady' = steady /\ next' = next /\ holds' = holds /\ current' = current
  BY DEF Test, Load, list, ghosts
<1>7. CASE Test
  <2>1. rpc = "test" /\ rpc' = IF MsgOf[holds[pos]] = frame THEN "load" ELSE "next"
    BY <1>4, <1>7 DEF Test, Goto
  <2>2. ASSUME NEW k \in 1..n, holds[s[k]] \in steady, MsgOf[holds[s[k]]] = frame
        PROVE  calls[holds[s[k]]] = IF k < r /\ (s[k] # pos \/ rpc' = "next") THEN 1 ELSE 0
    <3>1. rpc' = "next" => s[k] # pos
      BY <2>1, <2>2
    <3> QED
      BY <1>5, <2>1, <2>2, <3>1 DEF Place
  <2>3. Place(s, n, r)'
    BY <1>5, <1>6, <2>2 DEF Place
  <2> QED
    BY <1>1, <1>2, <1>3, <1>4, <1>6, <2>1, <2>3, WalkingAfter
<1>8. CASE Load
  <2>1. rpc = "load" /\ rpc' = "call" /\ calling' = holds[pos]
    BY <1>4, <1>8 DEF Load, Goto
  <2>2. Place(s, n, r)'
    BY <1>5, <1>6, <2>1 DEF Place
  <2> QED
    BY <1>1, <1>2, <1>3, <1>4, <1>6, <2>1, <2>2, WalkingAfter
<1> QED
  BY <1>7, <1>8

LEMMA CallWalks ==
    ASSUME TypeOK, HandlersDiffer, NEW s \in Chains(Cells), ListIs(s), Walking(s), Call
    PROVE  Walking(s)'
<1>1. PICK n : n = Len(s)
  OBVIOUS
<1>2. n \in Nat
  BY <1>1, ListFacts
<1>3. /\ Registered = {holds[s[k]] : k \in 1..n}
      /\ \A k \in 1..n : s[k] \in ElementsOf(s)
      /\ \A j, k \in 1..n : s[j] = s[k] => j = k
  BY <1>1, ListFacts
<1>4. rpc = "call" /\ rpc' = "next"
  BY DEF Call, Goto
<1>5. /\ pos # NullPtr /\ pos \in allocated /\ steady \subseteq Registered
      /\ calling = holds[pos]
  BY <1>1, <1>4, WalkFacts
<1>6. PICK r \in 1..(n + 1) : Place(s, n, r)
  BY <1>1, WalkFacts
<1>7. /\ frame' = frame /\ pos' = pos
      /\ steady' = steady /\ next' = next /\ holds' = holds /\ current' = current
      /\ calls' = [calls EXCEPT ![calling] = IF @ = 2 THEN 2 ELSE @ + 1]
  BY DEF Call, list, ghosts
<1>8. \A k \in 1..n : s[k] \in allocated /\ s[k] # current
  BY <1>3 DEF ListIs
<1>9. calling \in Handlers /\ \A k \in 1..n : holds[s[k]] \in Handlers
  BY <1>5, <1>8 DEF HandlersDiffer
<1>10. /\ calls'[calling] = IF calls[calling] = 2 THEN 2 ELSE calls[calling] + 1
       /\ \A h \in Handlers : h # calling => calls'[h] = calls[h]
  BY <1>7, <1>9 DEF TypeOK
<1>11. ASSUME NEW k \in 1..n, holds[s[k]] \in steady, MsgOf[holds[s[k]]] = frame
       PROVE  calls'[holds[s[k]]] = IF k < r THEN 1 ELSE 0
  <2>1. calls[holds[s[k]]] = IF k < r /\ s[k] # pos THEN 1 ELSE 0
    BY <1>4, <1>6, <1>11 DEF Place
  <2>2. CASE s[k] = pos
    <3>1. k = r - 1
      BY <1>3, <1>6, <1>8, <2>2 DEF Place
    <3>2. k < r
      BY <1>2, <3>1
    <3>3. calls[calling] = 0
      BY <1>5, <2>1, <2>2
    <3>4. calls'[calling] = 1
      BY <1>10, <3>3
    <3> QED
      BY <1>5, <2>2, <3>2, <3>4
  <2>3. CASE s[k] # pos
    <3>1. holds[s[k]] # holds[pos]
      BY <1>5, <1>8, <2>3 DEF HandlersDiffer
    <3>2. calls'[holds[s[k]]] = calls[holds[s[k]]]
      BY <1>5, <1>9, <1>10, <3>1
    <3> QED
      BY <2>1, <2>3, <3>2
  <2> QED
    BY <2>2, <2>3
<1>12. Place(s, n, r)'
  BY <1>4, <1>6, <1>7, <1>11 DEF Place
<1> QED
  BY <1>1, <1>2, <1>3, <1>4, <1>5, <1>7, <1>12, WalkingAfter

LEMMA NextWalks ==
    ASSUME NEW s \in Chains(Cells), ListIs(s), Walking(s), NextElement
    PROVE  /\ rpc' # "idle" => Walking(s)'
           /\ rpc' = "idle" => \A h \in steady : MsgOf[h] = frame => calls[h] = 1
<1>1. PICK n : n = Len(s)
  OBVIOUS
<1>2. n \in Nat
  BY <1>1, ListFacts
<1>3. /\ Registered = {holds[s[k]] : k \in 1..n}
      /\ \A k \in 1..n : s[k] \in Elements
      /\ \A j, k \in 1..n : s[j] = s[k] => j = k
      /\ \A k \in 1..n : next[s[k]] = IF k = n THEN NullPtr ELSE s[k + 1]
  BY <1>1, ListFacts
<1>4. pos # NullPtr /\ pos \in allocated /\ steady \subseteq Registered
  BY <1>1, WalkFacts
<1>5. PICK r \in 1..(n + 1) : Place(s, n, r)
  BY <1>1, WalkFacts
<1>6. /\ rpc = "next" /\ pos' = next[pos]
      /\ rpc' = IF next[pos] = NullPtr THEN "idle" ELSE "test"
  BY <1>4 DEF NextElement, GoOn, Goto
<1>7. /\ frame' = frame /\ calls' = calls
      /\ steady' = steady /\ next' = next /\ holds' = holds /\ current' = current
  BY DEF NextElement, list, ghosts
<1>8. /\ next[pos] = IF r > n THEN NullPtr ELSE s[r]
      /\ \A k \in 1..n : holds[s[k]] \in steady /\ MsgOf[holds[s[k]]] = frame =>
             calls[holds[s[k]]] = IF k < r THEN 1 ELSE 0
  BY <1>5, <1>6 DEF Place
<1>9. CASE r > n
  <2>1. rpc' = "idle"
    BY <1>6, <1>8, <1>9
  <2>2. \A k \in 1..n : k < r
    BY <1>2, <1>9
  <2>3. \A h \in steady : MsgOf[h] = frame => calls[h] = 1
    BY <1>3, <1>4, <1>8, <2>2
  <2> QED
    BY <2>1, <2>3
<1>10. CASE ~(r > n)
  <2>1. r \in 1..n
    BY <1>2, <1>10
  <2>2. next[pos] = s[r] /\ s[r] # NullPtr
    BY <1>3, <1>8, <1>10, <2>1, RegistryConstants
  <2>3. rpc' = "test" /\ pos' = s[r]
    BY <1>6, <2>2
  <2>4. PICK a \in 1..(n + 1) : a = r + 1
    <3>1. r + 1 \in 1..(n + 1)
      BY <1>2, <2>1
    <3> QED
      BY <3>1
  <2>5. a - 1 = r /\ (r = n <=> a > n)
    BY <1>2, <2>1, <2>4
  <2>6. next[s[r]] = IF a > n THEN NullPtr ELSE s[a]
    BY <1>3, <2>1, <2>4, <2>5
  <2>7. ASSUME NEW k \in 1..n, holds[s[k]] \in steady, MsgOf[holds[s[k]]] = frame
        PROVE  calls[holds[s[k]]] = IF k < a /\ s[k] # s[r] THEN 1 ELSE 0
    <3>1. s[k] # s[r] <=> k # r
      BY <1>3, <2>1
    <3>2. k < a /\ k # r <=> k < r
      BY <1>2, <2>4
    <3> QED
      BY <1>8, <2>7, <3>1, <3>2
  <2>8. Place(s, n, a)'
    BY <1>7, <2>1, <2>3, <2>5, <2>6, <2>7 DEF Place
  <2> QED
    BY <1>1, <1>2, <1>3, <1>4, <1>7, <2>2, <2>3, <2>8, WalkingAfter
<1> QED
  BY <1>9, <1>10

--------------------------------------------------------------------------------
(* Each step keeps RegistryInv.                                               *)

\* What RegistryInv says of the list, once it is not freed.
ListHolds(s) ==
    /\ ListIs(s)
    /\ component = "live" /\ rpc # "idle" /\ ~tainted => Walking(s)

LEMMA InitInv == Init => RegistryInv
<1> SUFFICES ASSUME Init PROVE RegistryInv
  OBVIOUS
<1>1. <<>> \in Chains(Cells) /\ ElementsOf(<<>>) = {} /\ DOMAIN <<>> = {}
  BY EmptyChain, RegistryConstants
<1>2. Linked(Chain, <<>>)
  BY <1>1 DEF Linked, Chain, Init
<1>3. ListIs(<<>>)
  BY <1>1, <1>2, RegistryConstants DEF ListIs, Init
<1>4. TypeOK
  <2>1. /\ holds \in [Elements -> Handlers \cup {None}]
        /\ next \in [Elements -> Elements \cup {NullPtr}]
        /\ calls \in [Handlers -> 0..2]
    BY DEF Init
  <2> QED
    BY <2>1 DEF Init, TypeOK
<1>5. HandlersDiffer
  BY DEF Init, HandlersDiffer
<1>6. WalkCallsEach
  BY DEF Init, WalkCallsEach
<1> QED
  BY <1>1, <1>3, <1>4, <1>5, <1>6 DEF RegistryInv, Init

LEMMA TypeLink ==
    ASSUME TypeOK, NEW h \in Handlers, NEW e \in Elements, LinkNew(h, e)
    PROVE  /\ head' \in Elements \cup {NullPtr} /\ last' \in Elements \cup {NullPtr}
           /\ next' \in [Elements -> Elements \cup {NullPtr}]
           /\ holds' \in [Elements -> Handlers \cup {None}]
           /\ allocated' \subseteq Elements
  BY DEF TypeOK, LinkNew, LinkAtLast

LEMMA RegisterInv ==
    ASSUME RegistryInv, NEW h \in Handlers, RegisterMsgHandler(h)
    PROVE  RegistryInv'
<1>1. /\ component # "freed" /\ current = NullPtr /\ component' = "live"
      /\ UNCHANGED <<current, walk, ghosts>> /\ h \notin Registered
  BY DEF RegisterMsgHandler, Ready
<1>2. TypeOK /\ HandlersDiffer /\ WalkCallsEach /\ (component = "none" => rpc = "idle")
  BY <1>1 DEF RegistryInv
<1>3. PICK s \in Chains(Cells) : ListHolds(s)
  BY <1>1 DEF RegistryInv, ListHolds
<1>4. ListIs(s)
  BY <1>3 DEF ListHolds
<1>5. PICK e \in Elements \ allocated : LinkNew(h, e)
  BY DEF RegisterMsgHandler
<1>6. PICK t : t = Append(s, e)
  OBVIOUS
<1>7. t \in Chains(Cells) /\ ListIs(t)'
  BY <1>1, <1>2, <1>4, <1>5, <1>6, LinkNewLists
<1>8. /\ Len(t) = Len(s) + 1 /\ t[Len(s) + 1] = e /\ \A k \in 1..Len(s) : t[k] = s[k]
  <2>1. Cells \in Nat /\ e \in 1..Cells /\ e \notin ElementsOf(s)
    BY <1>4, <1>5, RegistryConstants DEF ListIs
  <2> QED
    BY <1>6, <2>1, ChainAppend
<1>9. TypeOK'
  <2>1. /\ head' \in Elements \cup {NullPtr} /\ last' \in Elements \cup {NullPtr}
        /\ next' \in [Elements -> Elements \cup {NullPtr}]
        /\ holds' \in [Elements -> Handlers \cup {None}]
        /\ allocated' \subseteq Elements
    BY <1>2, <1>5, TypeLink
  <2> QED
    BY <1>1, <1>2, <2>1 DEF TypeOK, walk, ghosts
<1>10. HandlersDiffer'
  <2>1. allocated' = allocated \cup {e} /\ holds'[e] = h
    BY <1>2, <1>5 DEF LinkNew, TypeOK
  <2>2. \A x \in allocated : holds'[x] = holds[x] /\ holds[x] # h
    <3>1. Registered = {holds[s[k]] : k \in 1..Len(s)} /\ DOMAIN s = 1..Len(s)
      BY <1>4, ListFacts
    <3>2. \A x \in allocated : \E k \in 1..Len(s) : x = s[k]
      BY <1>1, <1>4, <3>1 DEF ListIs, ElementsOf
    <3>3. \A x \in allocated : holds'[x] = holds[x]
      BY <1>2, <1>5 DEF LinkNew, TypeOK
    <3> QED
      BY <1>1, <3>1, <3>2, <3>3
  <2> QED
    BY <1>2, <2>1, <2>2 DEF HandlersDiffer
<1>11. component' = "live" /\ rpc' # "idle" /\ ~tainted' => Walking(t)'
  <2>1. SUFFICES ASSUME rpc' # "idle", ~tainted' PROVE Walking(t)'
    OBVIOUS
  <2>2. rpc # "idle" /\ ~tainted /\ component = "live"
    BY <1>1, <1>2, <2>1 DEF walk, ghosts, TypeOK
  <2>3. Walking(s)
    BY <1>3, <2>2 DEF ListHolds
  <2> QED
    BY <1>1, <1>2, <1>4, <1>5, <1>7, <1>8, <2>3, LinkKeepsWalk
<1>12. WalkCallsEach'
  BY <1>1, <1>2 DEF WalkCallsEach, walk, ghosts
<1> QED
  BY <1>1, <1>7, <1>9, <1>10, <1>11, <1>12 DEF RegistryInv

\* The list and the walk are not touched.
LEMMA StutterInv ==
    ASSUME RegistryInv, component' = component \/ (component' = "live" /\ component = "none"),
           UNCHANGED <<head, last, holds, next, allocated, current, walk, ghosts>>
    PROVE  RegistryInv'
<1>1. /\ head' = head /\ last' = last /\ holds' = holds /\ next' = next /\ allocated' = allocated
      /\ current' = current /\ rpc' = rpc /\ frame' = frame /\ pos' = pos /\ calling' = calling
      /\ calls' = calls /\ steady' = steady /\ tainted' = tainted
  BY DEF walk, ghosts
<1>2. TypeOK' /\ WalkCallsEach' /\ (component' = "none" => rpc' = "idle")
  BY <1>1 DEF RegistryInv, TypeOK, WalkCallsEach
<1>3. component' # "live" => component' = component
  OBVIOUS
<1>4. component' = "live" => component # "freed"
  OBVIOUS
<1>5. ASSUME component' # "freed"
      PROVE  /\ HandlersDiffer'
             /\ \E s \in Chains(Cells) :
                  /\ ListIs(s)'
                  /\ component' = "live" /\ rpc' # "idle" /\ ~tainted' => Walking(s)'
  <2>1. component # "freed"
    BY <1>5
  <2>2. PICK s \in Chains(Cells) : ListHolds(s)
    BY <2>1 DEF RegistryInv, ListHolds
  <2>3. HandlersDiffer'
    BY <1>1, <2>1 DEF RegistryInv, HandlersDiffer
  <2>4. ListIs(s)'
    BY <1>1, <2>2 DEF ListHolds, ListIs, Linked, Chain
  <2>5. ASSUME component' = "live", rpc' # "idle", ~tainted' PROVE Walking(s)'
    <3>1. component = "live"
      BY <1>1, <2>5 DEF RegistryInv
    <3>2. Walking(s)
      BY <1>1, <2>2, <2>5, <3>1 DEF ListHolds
    <3> QED
      BY <1>1, <3>2 DEF Walking, StandsBefore, CallsSoFar
  <2> QED
    BY <2>2, <2>3, <2>4, <2>5
<1>6. component' # "live" => steady' = {}
  BY <1>1, <1>3 DEF RegistryInv
<1>7. component' = "freed" => current' = NullPtr
  BY <1>1, <1>3 DEF RegistryInv
<1> QED
  BY <1>2, <1>5, <1>6, <1>7 DEF RegistryInv

LEMMA UnregisterInv ==
    ASSUME RegistryInv, NEW h \in Handlers, UnregisterMsgHandler(h)
    PROVE  RegistryInv'
<1>1. /\ component # "freed" /\ current = NullPtr /\ steady' = steady \ {h}
      /\ component' = component /\ holds' = holds /\ allocated' = allocated /\ tainted' = tainted
      /\ UNCHANGED walk
  BY DEF UnregisterMsgHandler, Ready
<1>2. /\ TypeOK /\ HandlersDiffer /\ WalkCallsEach /\ (component = "none" => rpc = "idle")
      /\ (component # "live" => steady = {})
  BY <1>1 DEF RegistryInv
<1>3. PICK s \in Chains(Cells) : ListHolds(s)
  BY <1>1 DEF RegistryInv, ListHolds
<1>4. ListIs(s)
  BY <1>3 DEF ListHolds
<1>5. InOrder = s /\ DOMAIN s = 1..Len(s) /\ \A k \in 1..Len(s) : s[k] \in Elements
  BY <1>4, ListFacts
<1>6. PICK k \in 1..Len(s) :
        /\ holds[s[k]] = h
        /\ Unlink(IF k = 1 THEN NullPtr ELSE s[k - 1], s[k])
        /\ current' = s[k]
  BY <1>5 DEF UnregisterMsgHandler
<1>7. PICK t : t = RemoveAt(s, k)
  OBVIOUS
<1>8. t \in Chains(Cells) /\ ListIs(t)' /\ next'[s[k]] = next[s[k]]
  BY <1>1, <1>2, <1>4, <1>6, <1>7, UnlinkLists
<1>9. TypeOK'
  <2>1. current' \in Elements
    BY <1>5, <1>6
  <2>2. k # 1 => s[k - 1] \in Elements
    <3>1. k # 1 => k - 1 \in 1..Len(s)
      BY <1>6
    <3> QED
      BY <1>5, <3>1
  <2>3. PICK b : b = IF k = 1 THEN NullPtr ELSE s[k - 1]
    OBVIOUS
  <2>4. b \in Elements \cup {NullPtr} /\ Unlink(b, s[k]) /\ s[k] \in Elements
    BY <1>5, <1>6, <2>2, <2>3
  <2>5. /\ head' \in Elements \cup {NullPtr} /\ last' \in Elements \cup {NullPtr}
        /\ next' \in [Elements -> Elements \cup {NullPtr}]
    BY <1>2, <2>4 DEF TypeOK, Unlink, UnlinkAfter
  <2> QED
    BY <1>1, <1>2, <2>1, <2>5 DEF TypeOK, walk
<1>10. HandlersDiffer'
  BY <1>1, <1>2 DEF HandlersDiffer
<1>11. ASSUME component' = "live", rpc' # "idle", ~tainted' PROVE Walking(t)'
  <2>1. rpc # "idle" /\ ~tainted /\ component = "live"
    BY <1>1, <1>11 DEF walk
  <2>2. Walking(s)
    BY <1>3, <2>1 DEF ListHolds
  <2> QED
    BY <1>1, <1>2, <1>4, <1>6, <1>7, <1>8, <2>2, UnlinkKeepsWalk
<1>12. WalkCallsEach'
  BY <1>1, <1>2 DEF WalkCallsEach, walk
<1>13. component' = "none" => rpc' = "idle"
  BY <1>1, <1>2 DEF walk
<1>14. component' # "live" => steady' = {}
  BY <1>1, <1>2
<1> QED
  BY <1>1, <1>8, <1>9, <1>10, <1>11, <1>12, <1>13, <1>14 DEF RegistryInv

LEMMA TypeRelease ==
    ASSUME TypeOK, NEW cells, Release(cells)
    PROVE  /\ allocated' \subseteq Elements /\ holds' \in [Elements -> Handlers \cup {None}]
           /\ tainted' \in BOOLEAN
           /\ \A x \in Elements : x \notin cells => holds'[x] = holds[x]
           /\ ~tainted' => ~tainted /\ (rpc # "idle" => pos \notin cells)
<1>1. /\ allocated' \subseteq Elements /\ holds' \in [Elements -> Handlers \cup {None}]
      /\ \A x \in Elements : x \notin cells => holds'[x] = holds[x]
  BY DEF TypeOK, Release
<1>2. tainted' = (tainted \/ (rpc # "idle" /\ pos \in cells))
  BY DEF Release
<1>3. tainted' \in BOOLEAN
  BY <1>2, Zenon
<1>4. ~tainted' => ~tainted /\ (rpc # "idle" => pos \notin cells)
  BY <1>2, Zenon
<1> QED
  BY <1>1, <1>3, <1>4

LEMMA FreeElementInv ==
    ASSUME RegistryInv, FreeElement
    PROVE  RegistryInv'
<1>1. /\ current # NullPtr /\ current' = NullPtr /\ Release({current})
      /\ component' = component /\ head' = head /\ last' = last /\ next' = next /\ steady' = steady
      /\ UNCHANGED walk
  BY DEF FreeElement
<1>2. /\ TypeOK /\ WalkCallsEach /\ (component = "none" => rpc = "idle")
      /\ (component # "live" => steady = {}) /\ component # "freed"
  BY <1>1 DEF RegistryInv
<1>3. HandlersDiffer
  BY <1>2 DEF RegistryInv
<1>4. PICK s \in Chains(Cells) : ListHolds(s)
  BY <1>2 DEF RegistryInv, ListHolds
<1>5. ListIs(s)
  BY <1>4 DEF ListHolds
<1>6. /\ allocated' \subseteq Elements /\ holds' \in [Elements -> Handlers \cup {None}]
      /\ tainted' \in BOOLEAN
      /\ \A x \in Elements : x # current => holds'[x] = holds[x]
      /\ ~tainted' => ~tainted /\ (rpc # "idle" => pos # current)
  BY <1>1, <1>2, TypeRelease
<1>7. ElementsOf(s) \subseteq Elements
  BY ChainFacts, RegistryConstants
<1>8. NullPtr \notin ElementsOf(s)
  BY <1>7, RegistryConstants
<1>9. allocated' = ElementsOf(s)
  BY <1>1, <1>5 DEF ListIs, Release
<1>10. ListIs(s)'
  BY <1>1, <1>5, <1>8, <1>9 DEF ListIs, Linked, Chain
<1>11. \A x \in ElementsOf(s) : holds'[x] = holds[x] /\ x \in allocated
  BY <1>5, <1>6, <1>7 DEF ListIs
<1>12. HandlersDiffer'
  BY <1>3, <1>9, <1>11 DEF HandlersDiffer
<1>13. TypeOK'
  BY <1>1, <1>2, <1>6 DEF TypeOK, walk
<1>14. ASSUME component' = "live", rpc' # "idle", ~tainted' PROVE Walking(s)'
  <2>1. rpc # "idle" /\ ~tainted /\ component = "live" /\ pos # current
    BY <1>1, <1>6, <1>14 DEF walk
  <2>2. Walking(s)
    BY <1>4, <2>1 DEF ListHolds
  <2>3. pos # NullPtr /\ pos \in allocated
    <3>1. PICK n : n = Len(s)
      OBVIOUS
    <3> QED
      BY <1>5, <2>2, <3>1, WalkFacts
  <2>4. pos \in ElementsOf(s)
    BY <1>5, <2>1, <2>3 DEF ListIs
  <2> QED
    BY <1>1, <1>5, <1>11, <2>2, <2>4, FreeKeepsWalk
<1>15. WalkCallsEach'
  <2>1. /\ rpc' = rpc /\ calls' = calls /\ frame' = frame
    BY <1>1 DEF walk
  <2> QED
    BY <1>1, <1>2, <1>6, <2>1 DEF WalkCallsEach
<1>16. component' = "none" => rpc' = "idle"
  BY <1>1, <1>2 DEF walk
<1>17. component' # "live" => steady' = {}
  BY <1>1, <1>2
<1> QED
  BY <1>1, <1>10, <1>12, <1>13, <1>14, <1>15, <1>16, <1>17 DEF RegistryInv

LEMMA DeleteInv ==
    ASSUME RegistryInv, ContextDelete
    PROVE  RegistryInv'
<1>1. /\ component' = "freed" /\ steady' = {} /\ current = NullPtr /\ current' = current
      /\ head' = head /\ last' = last /\ next' = next /\ UNCHANGED walk
      /\ Release(ToSet(InOrder))
  BY DEF ContextDelete, Ready
<1>2. TypeOK
  BY DEF RegistryInv
<1>3. /\ allocated' \subseteq Elements /\ holds' \in [Elements -> Handlers \cup {None}]
      /\ tainted' \in BOOLEAN
  BY <1>1, <1>2, TypeRelease
<1>4. TypeOK'
  BY <1>1, <1>2, <1>3 DEF TypeOK, walk
<1>5. WalkCallsEach'
  BY <1>1 DEF WalkCallsEach
<1> QED
  BY <1>1, <1>4, <1>5 DEF RegistryInv

LEMMA FrameInv ==
    ASSUME RegistryInv, NEW m \in Messages, Frame(m)
    PROVE  RegistryInv'
<1>1. /\ frame' = m /\ calls' = [h \in Handlers |-> 0] /\ tainted' = FALSE
      /\ steady' = IF component = "live" THEN Registered ELSE {}
      /\ calling' = calling /\ UNCHANGED list
  BY DEF Frame, BeginWalk
<1>2. /\ component' = component /\ head' = head /\ last' = last /\ holds' = holds
      /\ next' = next /\ allocated' = allocated /\ current' = current
  BY <1>1 DEF list
<1>3. /\ TypeOK /\ component \in {"none", "live", "freed"}
      /\ (component = "freed" => current = NullPtr)
  BY DEF RegistryInv, TypeOK
<1>4. /\ rpc' \in {"idle", "test", "wild"} /\ pos' \in Elements \cup {NullPtr}
      /\ rpc' = "test" => pos' # NullPtr
      /\ component = "none" => rpc' = "idle"
  <2>1. head \in Elements \cup {NullPtr} /\ pos \in Elements \cup {NullPtr}
    BY <1>3 DEF TypeOK
  <2>2. CASE component = "live"
    BY <2>1, <2>2 DEF Frame, GoOn, Goto
  <2>3. CASE component = "none"
    BY <2>1, <2>3 DEF Frame, GoOn, Goto
  <2>4. CASE component = "freed"
    BY <2>1, <2>4 DEF Frame, GoOn, Goto
  <2> QED
    BY <1>3, <2>2, <2>3, <2>4
<1>5. ASSUME steady' \subseteq Handlers PROVE TypeOK'
  <2>1. calls' \in [Handlers -> 0..2] /\ frame' \in Messages
    <3>1. calls' = [h \in Handlers |-> 0] /\ frame' = m
      BY <1>1
    <3> QED
      BY <3>1
  <2>2. /\ rpc' \in {"idle", "test", "load", "call", "next", "wild"}
        /\ rpc' \in {"test", "load", "call", "next"} => pos' # NullPtr
    BY <1>4
  <2>3. calling' \in Handlers \cup {None}
    BY <1>1, <1>3 DEF TypeOK
  <2>4. tainted' \in BOOLEAN
    BY <1>1, Zenon
  <2> QED
    BY <1>2, <1>3, <1>4, <1>5, <2>1, <2>2, <2>3, <2>4 DEF TypeOK
<1>6. CASE component = "live"
  <2>1. HandlersDiffer
    BY <1>6 DEF RegistryInv
  <2>2. PICK s \in Chains(Cells) : ListHolds(s)
    BY <1>6 DEF RegistryInv, ListHolds
  <2>3. ListIs(s)
    BY <2>2 DEF ListHolds
  <2>4. (rpc' # "idle" => Walking(s)') /\ (rpc' = "idle" => steady' = {})
    BY <1>6, <2>1, <2>3, FrameWalks
  <2>5. steady' \subseteq Handlers
    <3>1. PICK n : n = Len(s)
      OBVIOUS
    <3>2. Registered = {holds[s[k]] : k \in 1..n} /\ \A k \in 1..n : s[k] \in ElementsOf(s)
      BY <2>3, <3>1, ListFacts
    <3> QED
      BY <1>1, <1>6, <2>1, <2>3, <3>2 DEF HandlersDiffer, ListIs
  <2>6. ListIs(s)'
    BY <1>2, <2>3 DEF ListIs, Linked, Chain
  <2>7. HandlersDiffer'
    BY <1>2, <2>1 DEF HandlersDiffer
  <2>8. TypeOK'
    BY <1>5, <2>5
  <2>9. WalkCallsEach'
    BY <2>4 DEF WalkCallsEach
  <2> QED
    BY <1>2, <1>4, <1>6, <2>4, <2>6, <2>7, <2>8, <2>9 DEF RegistryInv
<1>7. CASE component # "live"
  <2>1. steady' = {}
    BY <1>1, <1>7
  <2>2. TypeOK'
    BY <1>5, <2>1
  <2>3. WalkCallsEach'
    BY <2>1 DEF WalkCallsEach
  <2>4. ASSUME component # "freed"
        PROVE  HandlersDiffer' /\ \E s \in Chains(Cells) : ListIs(s)'
    <3>1. PICK s \in Chains(Cells) : ListHolds(s)
      BY <2>4 DEF RegistryInv, ListHolds
    <3>2. ListIs(s)'
      BY <1>2, <3>1 DEF ListHolds, ListIs, Linked, Chain
    <3>3. HandlersDiffer'
      BY <1>2, <2>4 DEF RegistryInv, HandlersDiffer
    <3> QED
      BY <3>2, <3>3
  <2> QED
    BY <1>2, <1>3, <1>4, <1>7, <2>1, <2>2, <2>3, <2>4 DEF RegistryInv
<1> QED
  BY <1>6, <1>7

LEMMA WalkStepInv ==
    ASSUME RegistryInv, Test \/ Load \/ Call \/ NextElement
    PROVE  RegistryInv'
<1>1. UNCHANGED list /\ frame' = frame /\ steady' = steady /\ tainted' = tainted
  BY DEF Test, Load, Call, NextElement, ghosts
<1>2. /\ component' = component /\ head' = head /\ last' = last /\ holds' = holds
      /\ next' = next /\ allocated' = allocated /\ current' = current
  BY <1>1 DEF list
<1>3. /\ TypeOK /\ (component = "none" => rpc = "idle") /\ (component # "live" => steady = {})
      /\ (component = "freed" => current = NullPtr)
      /\ rpc # "idle"
  <2>1. rpc # "idle"
    BY DEF Test, Load, Call, NextElement, Goto
  <2> QED
    BY <2>1 DEF RegistryInv
<1>4. /\ rpc' \in {"idle", "test", "load", "call", "next", "wild"}
      /\ pos' \in Elements \cup {NullPtr}
      /\ rpc' \in {"test", "load", "call", "next"} => pos' # NullPtr
      /\ calling' \in Handlers \cup {None} /\ calls' \in [Handlers -> 0..2]
  <2>1. /\ pos \in Elements \cup {NullPtr} /\ calling \in Handlers \cup {None}
        /\ calls \in [Handlers -> 0..2]
        /\ rpc \in {"test", "load", "call", "next"} => pos # NullPtr
        /\ holds \in [Elements -> Handlers \cup {None}]
        /\ next \in [Elements -> Elements \cup {NullPtr}]
    BY <1>3 DEF TypeOK
  <2>2. CASE Test
    BY <2>1, <2>2 DEF Test, Goto
  <2>3. CASE Load
    BY <2>1, <2>3 DEF Load, Goto
  <2>4. CASE Call
    <3>1. rpc = "call" /\ rpc' = "next" /\ pos' = pos /\ calling' = None
      BY <2>4 DEF Call, Goto
    <3>2. calls' = [calls EXCEPT ![calling] = IF @ = 2 THEN 2 ELSE @ + 1]
      BY <2>4 DEF Call
    <3>3. calls' \in [Handlers -> 0..2]
      <4>1. PICK v : v = IF calls[calling] = 2 THEN 2 ELSE calls[calling] + 1
        OBVIOUS
      <4>2. calls' = [calls EXCEPT ![calling] = v]
        BY <3>2, <4>1
      <4>3. CASE calling \in Handlers
        <5>1. calls[calling] \in 0..2
          BY <2>1, <4>3
        <5>2. v \in 0..2
          BY <4>1, <5>1
        <5> QED
          BY <2>1, <4>2, <5>2
      <4>4. CASE calling \notin Handlers
        BY <2>1, <4>2, <4>4
      <4> QED
        BY <4>3, <4>4
    <3> QED
      BY <2>1, <3>1, <3>3
  <2>5. CASE NextElement
    BY <2>1, <2>5 DEF NextElement, GoOn, Goto
  <2> QED
    BY <2>2, <2>3, <2>4, <2>5
<1>5. TypeOK'
  BY <1>1, <1>2, <1>3, <1>4 DEF TypeOK
<1>6. CASE component = "live"
  <2>1. HandlersDiffer
    BY <1>6 DEF RegistryInv
  <2>2. PICK s \in Chains(Cells) : ListHolds(s)
    BY <1>6 DEF RegistryInv, ListHolds
  <2>3. ListIs(s)
    BY <2>2 DEF ListHolds
  <2>4. ASSUME ~tainted
        PROVE  /\ rpc' # "idle" => Walking(s)'
               /\ rpc' = "idle" => \A h \in steady : MsgOf[h] = frame => calls'[h] = 1
    <3>1. Walking(s)
      BY <1>3, <1>6, <2>2, <2>4 DEF ListHolds
    <3>2. CASE Test \/ Load
      <4>1. rpc \in {"test", "load"} /\ rpc' # "idle"
        BY <3>2 DEF Test, Load, Goto
      <4> QED
        BY <2>1, <2>3, <3>1, <3>2, <4>1, StepWalks
    <3>3. CASE Call
      <4>1. rpc' # "idle"
        BY <3>3 DEF Call, Goto
      <4> QED
        BY <1>3, <2>1, <2>3, <3>1, <3>3, <4>1, CallWalks
    <3>4. CASE NextElement
      <4>1. calls' = calls
        BY <3>4 DEF NextElement
      <4> QED
        BY <2>3, <3>1, <3>4, <4>1, NextWalks
    <3> QED
      BY <3>2, <3>3, <3>4
  <2>5. ListIs(s)'
    BY <1>2, <2>3 DEF ListIs, Linked, Chain
  <2>6. HandlersDiffer'
    BY <1>2, <2>1 DEF HandlersDiffer
  <2>7. WalkCallsEach'
    BY <1>1, <2>4 DEF WalkCallsEach
  <2> QED
    BY <1>1, <1>2, <1>5, <1>6, <2>4, <2>5, <2>6, <2>7 DEF RegistryInv
<1>7. CASE component = "freed"
  <2>1. WalkCallsEach'
    BY <1>1, <1>3, <1>7 DEF WalkCallsEach
  <2> QED
    BY <1>1, <1>2, <1>3, <1>5, <1>7, <2>1 DEF RegistryInv
<1> QED
  BY <1>3, <1>6, <1>7 DEF TypeOK

LEMMA NextInv == RegistryInv /\ [Next]_vars => RegistryInv'
<1> SUFFICES ASSUME RegistryInv, [Next]_vars PROVE RegistryInv'
  OBVIOUS
<1>1. ASSUME NEW h \in Handlers, RegisterMsgHandler(h) PROVE RegistryInv'
  BY <1>1, RegisterInv
<1>2. ASSUME NEW h \in Handlers, UnregisterMsgHandler(h) PROVE RegistryInv'
  BY <1>2, UnregisterInv
<1>3. CASE RegisterFails
  <2>1. component \in {"none", "live", "freed"}
    BY DEF RegistryInv, TypeOK
  <2>2. component' = component \/ (component' = "live" /\ component = "none")
    BY <1>3, <2>1 DEF RegisterFails, Ready
  <2>3. UNCHANGED <<head, last, holds, next, allocated, current, walk, ghosts>>
    BY <1>3 DEF RegisterFails
  <2> QED
    BY <2>2, <2>3, StutterInv
<1>4. CASE FreeElement
  BY <1>4, FreeElementInv
<1>5. CASE ContextDelete
  BY <1>5, DeleteInv
<1>6. ASSUME NEW m \in Messages, Frame(m) PROVE RegistryInv'
  BY <1>6, FrameInv
<1>7. CASE Test \/ Load \/ Call \/ NextElement
  BY <1>7, WalkStepInv
<1>8. CASE UNCHANGED vars
  BY <1>8, StutterInv DEF vars, list
<1> QED
  BY <1>1, <1>2, <1>3, <1>4, <1>5, <1>6, <1>7, <1>8 DEF Next, Owner, Receiver

--------------------------------------------------------------------------------
(* The theorems.                                                              *)

\* The inductive invariant: the pointers of the list are a chain that ends where
\* handlers_list_pos points, and xlink_process_rx is on its way through it.
THEOREM RegistryInvariant == Spec => []RegistryInv
  BY InitInv, NextInv, PTL DEF Spec

\* The registry keeps to its types; the receive thread never reads through NULL.
THEOREM RegistryTypeCorrect == Spec => []TypeOK
<1>1. RegistryInv => TypeOK
  BY DEF RegistryInv
<1> QED
  BY <1>1, RegistryInvariant, PTL

\* However handlers are registered and unregistered, each element that malloc gave
\* is in the list, once, or unlinked and about to be freed: none leaks and none
\* is freed twice, and handlers_list_pos never points into a freed element.
THEOREM AlwaysCellsAccounted == Spec => []CellsAccounted
<1>1. RegistryInv => CellsAccounted
  <2> SUFFICES ASSUME RegistryInv, component # "freed"
               PROVE  allocated = ToSet(InOrder) \cup ({current} \ {NullPtr})
    BY DEF CellsAccounted
  <2>1. PICK s \in Chains(Cells) : ListIs(s)
    BY DEF RegistryInv
  <2>2. ToSet(InOrder) = ElementsOf(s)
    <3>1. PICK n : n = Len(s)
      OBVIOUS
    <3> QED
      BY <2>1, <3>1, ListFacts
  <2> QED
    BY <2>1, <2>2 DEF ListIs
<1> QED
  BY <1>1, RegistryInvariant, PTL

\* xlink_process_rx calls each handler of the message that stays registered once,
\* although the owner links and unlinks other elements while it walks, unless
\* the very element it stands on is freed.
THEOREM AlwaysWalkCallsEach == Spec => []WalkCallsEach
<1>1. RegistryInv => WalkCallsEach
  BY DEF RegistryInv
<1> QED
  BY <1>1, RegistryInvariant, PTL

--------------------------------------------------------------------------------
(* The list implements the table of handlers.                                 *)

TableNow == IF component = "freed" THEN <<>> ELSE [k \in DOMAIN InOrder |-> holds[InOrder[k]]]

TableOf(s) == [k \in 1..Len(s) |-> holds[s[k]]]

TableIsChain ==
    \A s \in Chains(Cells) : component # "freed" /\ ListIs(s) => TableNow = TableOf(s)

LEMMA ChainInTable == TableIsChain
<1> SUFFICES ASSUME NEW s \in Chains(Cells), component # "freed", ListIs(s)
             PROVE  TableNow = TableOf(s)
  BY DEF TableIsChain
<1>1. PICK n : n = Len(s)
  OBVIOUS
<1>2. InOrder = s /\ DOMAIN s = 1..n
  BY <1>1, ListFacts
<1> QED
  BY <1>1, <1>2 DEF TableNow, TableOf

LEMMA ChainInTableAfter == TableIsChain'
  BY ChainInTable, PTL

\* The table of a list, as a sequence of handlers.
LEMMA TableFacts ==
    ASSUME HandlersDiffer, NEW s \in Chains(Cells), ListIs(s), NEW n, n = Len(s)
    PROVE  /\ n \in Nat /\ DOMAIN s = 1..n /\ s \in Seq(Elements)
           /\ TableOf(s) \in Seq(Handlers) /\ Len(TableOf(s)) = n /\ DOMAIN TableOf(s) = 1..n
           /\ \A k \in 1..n : TableOf(s)[k] = holds[s[k]]
           /\ ToSet(TableOf(s)) = Registered
<1>1. /\ n \in Nat /\ DOMAIN s = 1..n /\ s \in Seq(Elements)
      /\ \A k \in 1..n : s[k] \in ElementsOf(s)
      /\ Registered = {holds[s[k]] : k \in 1..n}
  BY ListFacts
<1>2. \A k \in 1..n : holds[s[k]] \in Handlers
  BY <1>1 DEF HandlersDiffer, ListIs
<1>3. TableOf(s) = [k \in 1..n |-> holds[s[k]]]
  BY DEF TableOf
<1>4. TableOf(s) \in [1..n -> Handlers]
  BY <1>2, <1>3
<1>5. TableOf(s) \in Seq(Handlers) /\ Len(TableOf(s)) = n /\ DOMAIN TableOf(s) = 1..n
  BY <1>1, <1>4
<1>6. \A k \in 1..n : TableOf(s)[k] = holds[s[k]]
  BY <1>3
<1>7. ToSet(TableOf(s)) = Registered
  BY <1>1, <1>5, <1>6 DEF ToSet
<1> QED
  BY <1>1, <1>5, <1>6, <1>7

\* Sequences with the same elements are equal.
LEMMA SameElements ==
    ASSUME NEW S, NEW p \in Seq(S), NEW q \in Seq(S), Len(p) = Len(q),
           \A k \in 1..Len(p) : p[k] = q[k]
    PROVE  p = q
  OBVIOUS

LEMMA InitTable == Init => Table!Init
<1> SUFFICES ASSUME Init PROVE TableNow = <<>>
  BY DEF Table!Init, TableNow
<1>1. RegistryInv /\ component # "freed"
  BY InitInv DEF Init
<1>2. PICK s \in Chains(Cells) : ListIs(s)
  BY <1>1 DEF RegistryInv
<1>3. Len(s) = 0
  <2>1. PICK n : n = Len(s)
    OBVIOUS
  <2>2. /\ n \in Nat /\ \A k \in 1..n : s[k] \in Elements
        /\ head = IF n = 0 THEN NullPtr ELSE s[1]
    BY <1>2, <2>1, ListFacts
  <2>3. n # 0 => 1 \in 1..n
    BY <2>2
  <2> QED
    BY <2>1, <2>2, <2>3, RegistryConstants DEF Init
<1>4. HandlersDiffer
  BY <1>1 DEF RegistryInv
<1>5. TableOf(s) \in Seq(Handlers) /\ Len(TableOf(s)) = 0
  BY <1>2, <1>3, <1>4, TableFacts
<1>6. TableOf(s) = <<>>
  BY <1>5
<1> QED
  BY <1>1, <1>2, <1>6, ChainInTable DEF TableIsChain

LEMMA RegisterInTable ==
    ASSUME RegistryInv, NEW h \in Handlers, RegisterMsgHandler(h)
    PROVE  Table!Register(h)
<1>1. /\ component # "freed" /\ current = NullPtr /\ component' = "live"
      /\ UNCHANGED current /\ h \notin Registered
  BY DEF RegisterMsgHandler, Ready
<1>2. TypeOK /\ HandlersDiffer /\ HandlersDiffer'
  BY <1>1, RegisterInv DEF RegistryInv
<1>3. PICK s \in Chains(Cells) : ListIs(s)
  BY <1>1 DEF RegistryInv
<1>4. PICK e \in Elements \ allocated : LinkNew(h, e)
  BY DEF RegisterMsgHandler
<1>5. PICK t : t = Append(s, e)
  OBVIOUS
<1>6. t \in Chains(Cells) /\ ListIs(t)'
  BY <1>1, <1>2, <1>3, <1>4, <1>5, LinkNewLists
<1>7. PICK n : n = Len(s)
  OBVIOUS
<1>8. /\ n \in Nat /\ DOMAIN s = 1..n
      /\ TableOf(s) \in Seq(Handlers) /\ Len(TableOf(s)) = n
      /\ \A k \in 1..n : TableOf(s)[k] = holds[s[k]]
      /\ ToSet(TableOf(s)) = Registered
  BY <1>2, <1>3, <1>7, TableFacts
<1>9. TableNow = TableOf(s) /\ TableNow' = TableOf(t)'
  BY <1>1, <1>3, <1>6, ChainInTable, ChainInTableAfter DEF TableIsChain
<1>10. /\ Len(t) = n + 1 /\ t[n + 1] = e /\ \A k \in 1..n : t[k] = s[k]
  <2>1. Cells \in Nat /\ e \in 1..Cells /\ e \notin ElementsOf(s)
    BY <1>3, <1>4, RegistryConstants DEF ListIs
  <2> QED
    BY <1>5, <1>7, <2>1, ChainAppend
<1>11. holds'[e] = h /\ \A k \in 1..n : holds'[s[k]] = holds[s[k]]
  <2>1. \A k \in 1..n : s[k] # e
    BY <1>3, <1>4, <1>8 DEF ListIs, ElementsOf
  <2>2. holds' = [holds EXCEPT ![e] = h] /\ e \in Elements
    BY <1>4 DEF LinkNew
  <2>3. \A k \in 1..n : s[k] \in Elements
    BY <1>3, <1>7, ListFacts
  <2> QED
    BY <1>2, <2>1, <2>2, <2>3 DEF TypeOK
<1>12. TableOf(t)' = [k \in 1..(n + 1) |-> holds'[t[k]]]
  BY <1>10 DEF TableOf
<1>13. PICK u, v : u = TableOf(s) /\ v = TableOf(t)'
  OBVIOUS
<1>14. PICK m \in Nat : m = n + 1
  BY <1>8
<1>15. /\ v = [k \in 1..m |-> holds'[t[k]]]
       /\ u \in Seq(Handlers) /\ Len(u) = n /\ \A k \in 1..n : u[k] = holds[s[k]]
  BY <1>8, <1>12, <1>13, <1>14
<1>16. \A k \in 1..n : k \in 1..m /\ v[k] = u[k]
  <2>1. \A k \in 1..n : k \in 1..m
    BY <1>8, <1>14
  <2> QED
    BY <1>10, <1>11, <1>15, <2>1
<1>17. m \in 1..m /\ v[m] = h
  BY <1>8, <1>10, <1>11, <1>14, <1>15
<1>18. v = Append(u, h)
  <2> DEFINE w == Append(u, h)
  <2>1. w \in Seq(Handlers) /\ Len(w) = n + 1 /\ w[n + 1] = h /\ \A k \in 1..n : w[k] = u[k]
    BY <1>15
  <2> HIDE DEF w
  <2>2. \A k \in 1..m : k = m \/ k \in 1..n
    BY <1>8, <1>14
  <2>3. \A k \in 1..m : v[k] = w[k]
    BY <1>14, <1>16, <1>17, <2>1, <2>2
  <2>4. \A k \in 1..m : w[k] \in Handlers
    BY <1>14, <2>1
  <2>5. v \in Seq(Handlers) /\ Len(v) = m
    BY <1>15, <2>3, <2>4
  <2>6. v = w
    BY <1>14, <2>1, <2>3, <2>5, SameElements
  <2> QED
    BY <2>6 DEF w
<1>19. h \notin Table!ToSet(TableNow) /\ TableNow' = Append(TableNow, h)
  BY <1>1, <1>8, <1>9, <1>13, <1>18 DEF Table!ToSet, ToSet
<1> QED
  BY <1>19 DEF Table!Register, TableNow

LEMMA UnregisterInTable ==
    ASSUME RegistryInv, NEW h \in Handlers, UnregisterMsgHandler(h)
    PROVE  Table!Unregister(h)
<1>1. /\ component # "freed" /\ current = NullPtr
      /\ component' = component /\ holds' = holds /\ allocated' = allocated
  BY DEF UnregisterMsgHandler, Ready
<1>2. TypeOK /\ HandlersDiffer /\ HandlersDiffer'
  BY <1>1, UnregisterInv DEF RegistryInv
<1>3. PICK s \in Chains(Cells) : ListIs(s)
  BY <1>1 DEF RegistryInv
<1>4. PICK n : n = Len(s)
  OBVIOUS
<1>5. InOrder = s /\ DOMAIN s = 1..n /\ n \in Nat /\ s \in Seq(Elements)
  BY <1>3, <1>4, ListFacts
<1>6. PICK k \in 1..n :
        /\ holds[s[k]] = h
        /\ Unlink(IF k = 1 THEN NullPtr ELSE s[k - 1], s[k])
        /\ current' = s[k]
  BY <1>5 DEF UnregisterMsgHandler
<1>7. PICK t : t = RemoveAt(s, k)
  OBVIOUS
<1>8. t \in Chains(Cells) /\ ListIs(t)'
  BY <1>1, <1>2, <1>3, <1>4, <1>6, <1>7, UnlinkLists
<1>9. TableNow = TableOf(s) /\ TableNow' = TableOf(t)'
  BY <1>1, <1>3, <1>8, ChainInTable, ChainInTableAfter DEF TableIsChain
<1>10. /\ TableOf(s) \in Seq(Handlers) /\ Len(TableOf(s)) = n /\ DOMAIN TableOf(s) = 1..n
       /\ \A i \in 1..n : TableOf(s)[i] = holds[s[i]]
  BY <1>2, <1>3, <1>4, TableFacts
<1>11. PICK m \in Nat : m = n - 1
  <2>1. n - 1 \in Nat
    BY <1>5, <1>6
  <2> QED
    BY <2>1
<1>12. Len(t) = m /\ \A i \in 1..m : t[i] = IF i < k THEN s[i] ELSE s[i + 1]
  <2>1. k \in 1..Len(s)
    BY <1>4, <1>6
  <2>2. /\ Len(t) = Len(s) - 1
        /\ \A i \in 1..(Len(s) - 1) : t[i] = IF i < k THEN s[i] ELSE s[i + 1]
    BY <1>5, <1>7, <2>1, RemoveAtGives
  <2> QED
    BY <1>4, <1>11, <2>2
<1>13. TableOf(t)' = [i \in 1..m |-> holds[t[i]]]
  BY <1>1, <1>12 DEF TableOf
<1>14. PICK u, v, w : u = TableOf(s) /\ v = TableOf(t)' /\ w = RemoveAt(u, k)
  OBVIOUS
<1>15. /\ u \in Seq(Handlers) /\ Len(u) = n /\ \A i \in 1..n : u[i] = holds[s[i]]
       /\ v = [i \in 1..m |-> holds[t[i]]]
  BY <1>10, <1>13, <1>14
<1>16. /\ w \in Seq(Handlers) /\ Len(w) = m
       /\ \A i \in 1..m : w[i] = IF i < k THEN u[i] ELSE u[i + 1]
  <2>1. k \in 1..Len(u)
    BY <1>6, <1>15
  <2>2. /\ w \in Seq(Handlers) /\ Len(w) = Len(u) - 1
        /\ \A i \in 1..(Len(u) - 1) : w[i] = IF i < k THEN u[i] ELSE u[i + 1]
    BY <1>14, <1>15, <2>1, RemoveAtGives
  <2> QED
    BY <1>11, <1>15, <2>2
<1>17. ASSUME NEW i \in 1..m PROVE v[i] = w[i]
  <2>1. i \in 1..n /\ i + 1 \in 1..n
    BY <1>5, <1>11
  <2>2. v[i] = holds[t[i]]
    BY <1>15
  <2> QED
    BY <1>12, <1>15, <1>16, <2>1, <2>2
<1>18. v = w
  <2>1. \A i \in 1..m : w[i] \in Handlers
    BY <1>16
  <2>2. v \in Seq(Handlers) /\ Len(v) = m
    BY <1>15, <1>17, <2>1
  <2> QED
    BY <1>16, <1>17, <2>2, SameElements
<1>19. TableNow' = Table!RemoveAt(TableNow, k)
  <2>1. Table!RemoveAt(u, k) = RemoveAt(u, k)
    BY DEF Table!RemoveAt, RemoveAt
  <2> QED
    BY <1>9, <1>14, <1>18, <2>1
<1>20. k \in DOMAIN TableNow /\ TableNow[k] = h
  BY <1>6, <1>9, <1>10
<1> QED
  BY <1>19, <1>20 DEF Table!Unregister, TableNow

\* A step that keeps the elements of the list keeps the table.
LEMMA SameTable ==
    ASSUME RegistryInv, RegistryInv', NEW s \in Chains(Cells), component # "freed",
           component' # "freed", ListIs(s), ListIs(s)',
           \A x \in ElementsOf(s) : holds'[x] = holds[x]
    PROVE  TableNow' = TableNow
<1>1. TableNow = TableOf(s) /\ TableNow' = TableOf(s)'
  BY ChainInTable, ChainInTableAfter DEF TableIsChain
<1>2. PICK n : n = Len(s)
  OBVIOUS
<1>3. \A k \in 1..n : s[k] \in ElementsOf(s)
  BY <1>2, ListFacts
<1> QED
  BY <1>1, <1>2, <1>3 DEF TableOf

LEMMA FreeElementInTable ==
    ASSUME RegistryInv, FreeElement
    PROVE  TableNow' = TableNow
<1>1. /\ current # NullPtr /\ current' = NullPtr /\ Release({current})
      /\ component' = component /\ head' = head /\ last' = last /\ next' = next
  BY DEF FreeElement
<1>2. RegistryInv' /\ component # "freed" /\ TypeOK
  BY <1>1, FreeElementInv DEF RegistryInv
<1>3. PICK s \in Chains(Cells) : ListIs(s)
  BY <1>2 DEF RegistryInv
<1>4. ElementsOf(s) \subseteq Elements /\ NullPtr \notin Elements
  BY ChainFacts, RegistryConstants
<1>5. allocated' = ElementsOf(s)
  BY <1>1, <1>3 DEF ListIs, Release
<1>6. ListIs(s)'
  BY <1>1, <1>3, <1>4, <1>5 DEF ListIs, Linked, Chain
<1>7. \A x \in ElementsOf(s) : holds'[x] = holds[x]
  <2>1. \A x \in Elements : x \notin {current} => holds'[x] = holds[x]
    BY <1>1, <1>2, TypeRelease
  <2> QED
    BY <1>3, <1>4, <2>1 DEF ListIs
<1> QED
  BY <1>1, <1>2, <1>3, <1>6, <1>7, SameTable

\* Every step of the two threads is a step of the table, or none.
LEMMA NextInTable == RegistryInv /\ [Next]_vars => [Table!Next]_(TableNow)
<1> SUFFICES ASSUME RegistryInv, [Next]_vars PROVE Table!Next \/ TableNow' = TableNow
  OBVIOUS
<1>1. ASSUME NEW h \in Handlers, RegisterMsgHandler(h) PROVE Table!Next
  BY <1>1, RegisterInTable DEF Table!Next
<1>2. ASSUME NEW h \in Handlers, UnregisterMsgHandler(h) PROVE Table!Next
  BY <1>2, UnregisterInTable DEF Table!Next
<1>3. CASE FreeElement
  BY <1>3, FreeElementInTable
<1>4. CASE ContextDelete
  <2>1. component' = "freed"
    BY <1>4 DEF ContextDelete
  <2> QED
    BY <2>1 DEF Table!Next, Table!Clear
<1>5. ASSUME UNCHANGED <<head, next, holds>>,
             component' = component \/ (component # "freed" /\ component' # "freed")
      PROVE  TableNow' = TableNow
  <2>1. component' = "freed" <=> component = "freed"
    BY <1>5
  <2>2. InOrder' = InOrder
    BY <1>5 DEF InOrder, Chain
  <2> QED
    BY <1>5, <2>1, <2>2 DEF TableNow
<1>6. CASE RegisterFails
  BY <1>5, <1>6 DEF RegisterFails, Ready
<1>7. CASE Receiver
  BY <1>5, <1>7 DEF Receiver, Frame, BeginWalk, Test, Load, Call, NextElement, list
<1>8. CASE UNCHANGED vars
  BY <1>5, <1>8 DEF vars, list
<1> QED
  BY <1>1, <1>2, <1>3, <1>4, <1>6, <1>7, <1>8 DEF Next, Owner

\* The list of elements, with its tail pointer and the cells that malloc hands out
\* again, is a table of handlers in the order of registration: what was registered
\* is found until it is unregistered, whatever the receive thread does meanwhile.
THEOREM RegistryImplementsTable == Spec => ImplementsTable
  BY InitTable, NextInTable, RegistryInvariant, PTL
     DEF Spec, ImplementsTable, Table!Spec, TableNow
================================================================================
