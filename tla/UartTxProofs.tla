----------------------------- MODULE UartTxProofs -----------------------------
(***************************************************************************)
(* The transmit side of the driver, for pools of any size and any number   *)
(* of frames, with the interrupt between any two statements: TxInv holds,  *)
(* and with it the frames leave in the order of the calls, until the       *)
(* interrupt empties the list under DL_APPEND.                             *)
(***************************************************************************)
EXTENDS UartTx, DriverLemmas, SequenceTheorems

LEMMA TxConstants ==
    /\ TxItems \in Nat /\ TxItems # 0 /\ TxItems \in Nat \ {0}
    /\ MaxFrames \in Nat /\ Items = 1..TxItems /\ Frames = 1..MaxFrames
    /\ Null = NullPtr /\ Null \notin Items
  BY TxAssumption DEF Items, Frames, Null, NullPtr

\* What TxInv says of the elements s that are linked.
Waits(s) == TxList(s) /\ TxPools(s) /\ TxDma(s) /\ TxContent(s)

--------------------------------------------------------------------------------
(* The types, and that the interrupt finds an element, torn or not.           *)

LEMMA InitTyped == Init => TypeOK /\ (dma # Null => list.head # Null)
<1> SUFFICES ASSUME Init PROVE TypeOK /\ dma = Null
  OBVIOUS
<1>1. list \in Lists(TxItems)
  BY EmptyListLinks, TxConstants DEF Init
<1>2. elements \in Pools(TxItems) /\ datas \in Pools(TxItems)
  BY TxConstants DEF Init, FreshPools, Pools
<1>3. buffer \in [Items -> Items \cup {Null}] /\ content \in [Items -> 0..MaxFrames]
  BY TxConstants DEF Init
<1>4. /\ state \in {0, 1} /\ dma = Null /\ pc = "ready" /\ {frame, first} \subseteq Items \cup {Null}
      /\ torn \in BOOLEAN /\ called \in 0..MaxFrames /\ refused \subseteq 0..MaxFrames
      /\ sent \in Seq(0..MaxFrames)
  <2>1. called \in 0..MaxFrames
    BY TxConstants DEF Init
  <2>2. sent \in Seq(0..MaxFrames) /\ refused \subseteq 0..MaxFrames
    BY DEF Init
  <2> QED
    BY <2>1, <2>2 DEF Init
<1> QED
  BY <1>1, <1>2, <1>3, <1>4 DEF TypeOK

\* The assignments of the driver keep a list a list.
LEMMA ListAssignments ==
    ASSUME NEW n \in Nat, NEW l \in Lists(n), NEW e, NEW f \in 0..n
    PROVE  /\ WithNext(l, e, f) \in Lists(n) /\ WithNext(l, e, f).head = l.head
           /\ WithPrev(l, e, f) \in Lists(n) /\ WithPrev(l, e, f).head = l.head
           /\ WithHead(l, f) \in Lists(n) /\ WithHead(l, f).head = f
  BY DEF Lists, WithNext, WithPrev, WithHead

LEMMA TaskTyped ==
    ASSUME TypeOK, Task
    PROVE  TypeOK' /\ (dma' = dma \/ list'.head # Null) /\ (list.head # Null => list'.head # Null)
<1>0. /\ list \in Lists(TxItems) /\ TxItems \in Nat /\ Null \in 0..TxItems
      /\ frame \in 0..TxItems /\ first \in 0..TxItems /\ list.head \in 0..TxItems
      /\ \A h \in Heads : h # Null => list.prev[h] \in 0..TxItems
  <2>1. list \in Lists(TxItems) /\ TxItems \in Nat /\ Null \in 0..TxItems
    BY TxConstants DEF TypeOK, Null
  <2>2. frame \in Items \cup {Null} /\ first \in Items \cup {Null}
    BY DEF TypeOK
  <2>3. frame \in 0..TxItems /\ first \in 0..TxItems
    BY <2>2, TxConstants DEF Null
  <2>4. /\ list.head \in 0..TxItems
        /\ \A h \in 0..TxItems : h # 0 => list.prev[h] \in 0..TxItems
    BY <2>1 DEF Lists
  <2> QED
    BY <2>1, <2>3, <2>4 DEF Heads, Null
<1>1. CASE AllocElement
  <2>1. called' \in 0..MaxFrames /\ called' \in Frames
    BY <1>1, TxConstants DEF AllocElement, TypeOK
  <2>2. /\ UNCHANGED <<list, datas, buffer, content, state, dma, first, sent, torn>>
    BY <1>1 DEF AllocElement, Refuse, pools
  <2>3. CASE HasFree(elements, TxItems)
    <3>1. FreeItem(elements, TxItems) \in Items /\ elements' \in Pools(TxItems)
      BY <1>1, <2>3, AllocTakes, TxConstants DEF AllocElement, TypeOK
    <3> QED
      BY <1>1, <2>1, <2>2, <2>3, <3>1 DEF AllocElement, TypeOK
  <2>4. CASE ~HasFree(elements, TxItems)
    BY <1>1, <2>1, <2>2, <2>4 DEF AllocElement, Refuse, TypeOK, pools
  <2> QED
    BY <2>3, <2>4
<1>2. CASE AllocData
  <2>1. CASE HasFree(datas, TxItems)
    <3>1. FreeItem(datas, TxItems) \in Items /\ datas' \in Pools(TxItems)
      BY <1>2, <2>1, AllocTakes, TxConstants DEF AllocData, TypeOK
    <3>2. list' \in Lists(TxItems) /\ list'.head = list.head
      <4>1. list' = WithNext(WithPrev(list, frame, NullPtr), frame, NullPtr)
        BY <1>2, <2>1 DEF AllocData, Detached
      <4>2. WithPrev(list, frame, NullPtr) \in Lists(TxItems) /\ WithPrev(list, frame, NullPtr).head = list.head
        BY <1>0, ListAssignments, TxConstants
      <4> QED
        BY <1>0, <4>1, <4>2, ListAssignments, TxConstants
    <3>3. buffer' \in [Items -> Items \cup {Null}]
      BY <1>2, <2>1, <3>1 DEF AllocData, TypeOK
    <3> QED
      BY <1>2, <2>1, <3>1, <3>2, <3>3 DEF AllocData, TypeOK
  <2>2. CASE ~HasFree(datas, TxItems)
    <3>1. elements' \in Pools(TxItems)
      BY <1>2, <2>2, FreeGives, TxConstants DEF AllocData, TypeOK
    <3> QED
      BY <1>2, <2>2, <3>1 DEF AllocData, Refuse, TypeOK
  <2> QED
    BY <2>1, <2>2
<1>3. CASE Fill
  BY <1>3 DEF Fill, Goto, TypeOK, pools
<1>4. CASE AppendFirst
  <2>1. list' \in Lists(TxItems)
    BY <1>0, <1>4, ListAssignments, TxConstants DEF AppendFirst, Only
  <2> QED
    BY <1>4, <2>1 DEF AppendFirst, Appended, Goto, TypeOK, pools
<1>5. CASE AppendNext
  BY <1>0, <1>5, TxConstants DEF AppendNext, Appended, Goto, TypeOK, pools
<1>6. CASE AppendBack
  <2>1. PICK h \in Heads : IF h = Null THEN Goto("back", "fault") /\ UNCHANGED list
                           ELSE Goto("back", "forward") /\ list' = LinkBack(list, h, frame)
    BY <1>6 DEF AppendBack
  <2>2. list' \in Lists(TxItems) /\ list'.head = list.head
    BY <1>0, <2>1, ListAssignments DEF LinkBack
  <2> QED
    BY <1>6, <2>1, <2>2 DEF AppendBack, Appended, Goto, TypeOK, pools
<1>7. CASE AppendForward
  <2>1. PICK h \in Heads : IF h = Null THEN Goto("forward", "fault") /\ UNCHANGED list
                           ELSE Goto("forward", "tail") /\ list' = LinkForward(list, h, frame)
    BY <1>7 DEF AppendForward
  <2>2. list' \in Lists(TxItems) /\ list'.head = list.head
    BY <1>0, <2>1, ListAssignments DEF LinkForward
  <2> QED
    BY <1>7, <2>1, <2>2 DEF AppendForward, Appended, Goto, TypeOK, pools
<1>8. CASE AppendTail
  <2>1. PICK h \in Heads : /\ IF h = Null THEN Goto("tail", "fault") /\ UNCHANGED list
                              ELSE Goto("tail", "end") /\ list' = WithPrev(list, h, frame)
                           /\ torn' = (torn \/ h # list.head)
    BY <1>8 DEF AppendTail
  <2>2. list' \in Lists(TxItems) /\ list'.head = list.head
    BY <1>0, <2>1, ListAssignments
  <2>3. torn' \in BOOLEAN
    BY <2>1
  <2> QED
    BY <1>8, <2>1, <2>2, <2>3, TxConstants DEF AppendTail, Appended, Goto, TypeOK, pools
<1>9. CASE AppendEnd
  <2>1. list' \in Lists(TxItems) /\ list'.head = list.head
    BY <1>0, <1>9, ListAssignments DEF AppendEnd
  <2> QED
    BY <1>9, <2>1 DEF AppendEnd, Appended, Goto, TypeOK, pools
<1>10. CASE Start
  <2>1. list.head # Null => buffer[list.head] \in Items \cup {Null}
    BY <1>0, TxConstants DEF TypeOK, Null
  <2> QED
    BY <1>10, <2>1 DEF Start, Started, Goto, TypeOK, pools
<1> QED
  BY <1>1, <1>2, <1>3, <1>4, <1>5, <1>6, <1>7, <1>8, <1>9, <1>10 DEF Task

LEMMA InterruptTyped ==
    ASSUME TypeOK, list.head # Null, Interrupt
    PROVE  TypeOK' /\ (dma' # Null => list'.head # Null)
<1> DEFINE h == list.head
           y == list.next[h]
           z == list.prev[h]
<1>1. /\ list \in Lists(TxItems) /\ h \in 1..TxItems /\ h \in Items /\ Null \in 0..TxItems
      /\ y \in 0..TxItems /\ z \in 0..TxItems
  BY TxConstants DEF TypeOK, Lists, Null
<1>2. list' = IF z = h THEN WithHead(list, Null) ELSE WithPrev(WithHead(list, y), y, z)
  <2>1. WithHead(list, h) = list
    BY <1>1 DEF WithHead, Lists
  <2> QED
    BY <2>1, TxConstants DEF Interrupt, FreeFirst, DLDelete, DLDeleteHead
<1> HIDE DEF h, y, z
<1>3. list' \in Lists(TxItems)
  <2>1. WithHead(list, Null) \in Lists(TxItems) /\ WithHead(list, y) \in Lists(TxItems)
    BY <1>1, ListAssignments, TxConstants
  <2>2. WithPrev(WithHead(list, y), y, z) \in Lists(TxItems)
    BY <1>1, <2>1, ListAssignments, TxConstants
  <2> QED
    BY <1>2, <2>1, <2>2
<1>4. elements' \in Pools(TxItems) /\ datas' \in Pools(TxItems)
  BY FreeGives, TxConstants DEF Interrupt, FreeFirst, TypeOK
<1>5. /\ sent' = Append(sent, content[dma]) /\ dma # Null
      /\ torn' \in BOOLEAN /\ UNCHANGED <<buffer, content, pc, frame, first, called, refused>>
  BY DEF Interrupt, FreeFirst, TypeOK
<1>6. sent' \in Seq(0..MaxFrames)
  BY <1>5 DEF TypeOK
<1>7. /\ state' \in {0, 1} /\ dma' \in Items \cup {Null} /\ (dma' # Null => list'.head # Null)
  <2>1. list'.head # Null => buffer[list'.head] \in Items \cup {Null}
    <3>1. list'.head \in 0..TxItems
      BY <1>3 DEF Lists
    <3>2. list'.head # Null => list'.head \in Items
      BY <3>1, TxConstants DEF Null
    <3> QED
      BY <3>2 DEF TypeOK
  <2> QED
    BY <2>1 DEF Interrupt, TypeOK
<1> QED
  BY <1>3, <1>4, <1>5, <1>6, <1>7 DEF TypeOK

LEMMA TypesKept ==
    ASSUME TypeOK, dma # Null => list.head # Null, [Next]_vars
    PROVE  TypeOK' /\ (dma' # Null => list'.head # Null)
<1>1. CASE Task
  BY <1>1, TaskTyped
<1>2. CASE Interrupt
  BY <1>2, InterruptTyped DEF Interrupt, FreeFirst
<1>3. CASE UNCHANGED vars
  BY <1>3 DEF TypeOK, vars, pools
<1> QED
  BY <1>1, <1>2, <1>3 DEF Next
--------------------------------------------------------------------------------
(* What is linked, until the list is torn.                                    *)

\* The chain of a state, its first element and the pointer to its last.
LEMMA TheChain ==
    ASSUME TypeOK, NEW s \in Chains(TxItems), Waits(s)
    PROVE  /\ BackLinked(list, s) /\ list \in Lists(TxItems)
           /\ pc # "tail" => Linked(list, s)
           /\ list.head # Null <=> s # <<>>
           /\ s # <<>> => /\ list.head = s[1] /\ s[1] \in ElementsOf(s) /\ s[1] \in Items
                          /\ list.prev[list.head] = s[Len(s)]
<1>1. BackLinked(list, s) /\ list \in Lists(TxItems) /\ (pc # "tail" => Linked(list, s))
  BY DEF Waits, TxList, TypeOK
<1>2. ASSUME s # <<>>
      PROVE  1 \in DOMAIN s /\ s[1] \in ElementsOf(s) /\ s[1] \in Items /\ list.prev[s[1]] = s[Len(s)]
  <2>1. Len(s) \in Nat /\ Len(s) # 0 /\ DOMAIN s = 1..Len(s) /\ ElementsOf(s) \subseteq 1..TxItems
    BY <1>2, ChainFacts, TxConstants
  <2>2. 1 \in DOMAIN s
    BY <2>1
  <2>3. s[1] \in ElementsOf(s)
    BY <2>2 DEF ElementsOf
  <2> QED
    BY <1>1, <2>1, <2>2, <2>3, TxConstants DEF BackLinked
<1>3. s # <<>> => list.head = s[1]
  <2>1. CASE pc = "tail"
    <3>1. Linked(list, Append(s, frame))
      BY <2>1 DEF Waits, TxList
    <3>2. s \in Seq(1..TxItems)
      BY ChainFacts, TxConstants
    <3>3. s # <<>> => Append(s, frame)[1] = s[1] /\ Append(s, frame) # <<>>
      BY <3>2
    <3> QED
      BY <3>1, <3>3 DEF Linked
  <2>2. CASE pc # "tail"
    BY <1>1, <2>2 DEF Linked
  <2> QED
    BY <2>1, <2>2
<1>4. s = <<>> => list.head = Null
  <2>1. s = <<>> => pc # "tail"
    BY DEF Waits, TxList
  <2> QED
    BY <1>1, <2>1, TxConstants DEF Linked
<1> QED
  BY <1>1, <1>2, <1>3, <1>4, TxConstants

\* Both heads that DL_APPEND may go through point to the last element.
LEMMA HeadsPointToLast ==
    ASSUME TypeOK, NEW s \in Chains(TxItems), Waits(s), pc \in {"back", "forward", "tail"}
    PROVE  /\ s # <<>> /\ frame \in Items /\ frame \notin ElementsOf(s)
           /\ \A h \in Heads : h \in Items /\ h # Null /\ h # frame /\ list.prev[h] = s[Len(s)]
<1>1. /\ s # <<>> /\ first # Null /\ first # frame /\ list.prev[first] = s[Len(s)]
      /\ frame # Null /\ frame \notin ElementsOf(s)
  BY DEF Waits, TxList, TxPools
<1>2. frame \in Items /\ first \in Items
  BY <1>1 DEF TypeOK
<1>3. list.head \in Items /\ list.head # frame /\ list.prev[list.head] = s[Len(s)]
  BY <1>1, TheChain
<1> QED
  BY <1>1, <1>2, <1>3, TxConstants DEF Heads

\* Every element outside the list has a buffer left for it.
LEMMA BufferLeft ==
    ASSUME TypeOK, NEW s \in Chains(TxItems), Waits(s), pc = "data"
    PROVE  HasFree(datas, TxItems)
<1> DEFINE E == ElementsOf(s)
           f == [e \in E |-> buffer[e]]
<1>1. E \subseteq 1..TxItems /\ IsFiniteSet(E) /\ frame \in 1..TxItems /\ frame \notin E
  BY ChainFacts, TxConstants DEF Waits, TxPools, TypeOK
<1>2. datas.used = {buffer[e] : e \in E}
  BY DEF Waits, TxPools, Buffered
<1>3. f \in Surjection(E, datas.used)
  BY <1>2 DEF Surjection
<1>4. IsFiniteSet(datas.used) /\ Cardinality(datas.used) <= Cardinality(E)
  BY <1>1, <1>3, FS_Surjection
<1>5. IsFiniteSet(1..TxItems) /\ Cardinality(1..TxItems) = TxItems
  BY FS_Interval, TxConstants
<1>6. Cardinality(E) \in Nat /\ Cardinality(E) <= TxItems /\ Cardinality(E) # TxItems
  BY <1>1, <1>5, FS_Subset, FS_CardinalityType
<1>7. ASSUME datas.used = 1..TxItems PROVE FALSE
  <2>1. TxItems <= Cardinality(E)
    BY <1>4, <1>5, <1>7
  <2> QED
    BY <1>6, <2>1, TxConstants
<1> QED
  BY <1>7 DEF HasFree

--------------------------------------------------------------------------------
(* TxInv holds at first, and every step keeps it or tears the list.            *)

LEMMA InitTx == Init => TxInv
<1> SUFFICES ASSUME Init PROVE TxInv
  OBVIOUS
<1>1. <<>> \in Chains(TxItems) /\ ElementsOf(<<>>) = {}
  BY EmptyChain, TxConstants
<1>2. Linked(list, <<>>) /\ BackLinked(list, <<>>)
  BY EmptyListLinks, TxConstants DEF Init
<1>3. elements.used = {} /\ datas.used = {}
  BY TxConstants DEF Init, FreshPools
<1>4. TxList(<<>>)
  BY <1>2 DEF Init, TxList
<1>5. TxPools(<<>>)
  BY <1>1, <1>3 DEF Init, TxPools, Buffered
<1>6. TxDma(<<>>)
  BY DEF Init, TxDma
<1>7. TxContent(<<>>)
  BY <1>1 DEF Init, TxContent
<1> QED
  BY <1>1, <1>4, <1>5, <1>6, <1>7, InitTyped DEF TxInv, Init

\* xlink_send takes an element, or is refused.
LEMMA AllocElementKeeps ==
    ASSUME TypeOK, NEW s \in Chains(TxItems), Waits(s), AllocElement
    PROVE  Waits(s)' /\ UNCHANGED torn /\ pc' # "fault"
<1> DEFINE f == FreeItem(elements, TxItems)
<1>1. /\ pc = "ready" /\ called' = called + 1 /\ called' \in Frames
      /\ UNCHANGED <<list, datas, buffer, content, state, dma, first, sent, torn>>
  BY TxConstants DEF AllocElement, TypeOK, Refuse, pools
<1>2. /\ Linked(list, s) /\ BackLinked(list, s)
      /\ ElementsOf(s) \subseteq Items /\ elements.used = ElementsOf(s)
      /\ datas.used = {buffer[e] : e \in ElementsOf(s)}
      /\ \A e \in ElementsOf(s) : buffer[e] # Null
      /\ \A e, g \in ElementsOf(s) : buffer[e] = buffer[g] => e = g
      /\ \A e \in ElementsOf(s) : content[buffer[e]] \in Frames
      /\ frame = Null /\ first = Null
  BY <1>1, TheChain, ChainFacts, TxConstants DEF Waits, TxList, TxPools, TxContent, Buffered
<1>3. CASE HasFree(elements, TxItems)
  <2>1. /\ pc' = "data" /\ frame' = f /\ elements' = Alloc(elements, TxItems)
    BY <1>3 DEF AllocElement
  <2>2. /\ f \in Items /\ f \notin ElementsOf(s) /\ f # Null
        /\ elements'.used = ElementsOf(s) \cup {f}
    <3>1. elements \in Pools(TxItems) /\ TxItems \in Nat \ {0}
      BY TxConstants DEF TypeOK
    <3>2. f \in 1..TxItems /\ f \notin elements.used /\ elements'.used = elements.used \cup {f}
      BY <1>3, <2>1, <3>1, AllocTakes
    <3> QED
      BY <1>2, <3>2, TxConstants
  <2> HIDE DEF f
  <2>3. TxList(s)'
    BY <1>1, <1>2, <2>1 DEF TxList
  <2>4. TxPools(s)'
    BY <1>1, <1>2, <2>1, <2>2 DEF TxPools, Buffered
  <2>5. TxDma(s)' /\ TxContent(s)'
    BY <1>1, <1>2, <2>1 DEF Waits, TxDma, TxContent
  <2> QED
    BY <1>1, <2>1, <2>3, <2>4, <2>5 DEF Waits
<1>4. CASE ~HasFree(elements, TxItems)
  <2>1. UNCHANGED <<pc, frame, elements>>
    BY <1>4 DEF AllocElement, Refuse, pools
  <2>2. TxList(s)' /\ TxPools(s)' /\ TxDma(s)'
    BY <1>1, <2>1 DEF Waits, TxList, TxPools, TxDma, Buffered
  <2>3. TxContent(s)'
    BY <1>1, <1>2, <2>1 DEF TxContent
  <2> QED
    BY <1>1, <2>1, <2>2, <2>3 DEF Waits
<1> QED
  BY <1>3, <1>4

\* It takes a buffer: there is one for every element.
LEMMA AllocDataKeeps ==
    ASSUME TypeOK, NEW s \in Chains(TxItems), Waits(s), AllocData
    PROVE  Waits(s)' /\ UNCHANGED torn /\ pc' # "fault"
<1> DEFINE d == FreeItem(datas, TxItems)
           E == ElementsOf(s)
<1>1. pc = "data" /\ HasFree(datas, TxItems)
  BY BufferLeft DEF AllocData
<1>2. /\ pc' = "fill" /\ buffer' = [buffer EXCEPT ![frame] = d] /\ datas' = Alloc(datas, TxItems)
      /\ list' = Detached(list, frame)
      /\ UNCHANGED <<elements, content, state, dma, frame, first, called, refused, sent, torn>>
  BY <1>1 DEF AllocData
<1>3. /\ E \subseteq Items /\ frame \in Items /\ frame # Null /\ frame \notin E
      /\ elements.used = E \cup {frame}
      /\ datas.used = {buffer[e] : e \in E}
      /\ \A e \in E : buffer[e] # Null
      /\ \A e, g \in E : buffer[e] = buffer[g] => e = g
      /\ \A e \in E : content[buffer[e]] \in Frames
      /\ called \in Frames
  BY <1>1, ChainFacts, TxConstants DEF Waits, TxPools, TxContent, Buffered, TypeOK
<1>4. /\ d \in Items /\ d \notin datas.used /\ d # Null
      /\ datas' \in Pools(TxItems) /\ datas'.used = datas.used \cup {d}
  BY <1>1, <1>2, AllocTakes, TxConstants DEF TypeOK
<1>6. Linked(list', s) /\ BackLinked(list', s) /\ list'.next[frame] = Null
  BY <1>1, <1>2, <1>3, DetachedKeeps, TheChain, TxConstants DEF E
<1> HIDE DEF d, E
<1>5. /\ buffer' \in [Items -> Items \cup {Null}]
      /\ buffer'[frame] = d /\ \A e \in E : buffer'[e] = buffer[e]
  BY <1>2, <1>3, <1>4 DEF TypeOK
<1>7. TxList(s)'
  BY <1>1, <1>2, <1>6 DEF Waits, TxList
<1>8. TxPools(s)'
  <2>1. Buffered(s)' = E \cup {frame}
    BY <1>2 DEF Buffered, E
  <2>2. datas'.used = {buffer'[e] : e \in E \cup {frame}}
    BY <1>3, <1>4, <1>5
  <2>3. \A e \in E \cup {frame} : buffer'[e] # Null
    BY <1>3, <1>4, <1>5
  <2>4. \A e, g \in E \cup {frame} : buffer'[e] = buffer'[g] => e = g
    BY <1>3, <1>4, <1>5
  <2>5. frame' # Null /\ frame' \notin E /\ elements'.used = E \cup ({frame'} \ {Null})
    BY <1>2, <1>3
  <2> QED
    BY <1>2, <2>1, <2>2, <2>3, <2>4, <2>5 DEF TxPools, E
<1>9. TxDma(s)'
  <2>1. s # <<>> => s[1] \in E
    BY <1>1, TheChain DEF E
  <2>2. dma = IF state = 0 THEN Null ELSE buffer[s[1]]
    BY DEF Waits, TxDma
  <2>3. (state = 1 => s # <<>>) /\ (state = 0 => s = <<>>) /\ state \in {0, 1}
    BY <1>1 DEF Waits, TxDma, TypeOK
  <2> QED
    BY <1>2, <1>5, <2>1, <2>2, <2>3 DEF TxDma
<1>10. TxContent(s)'
  BY <1>2, <1>3, <1>5 DEF TxContent, E
<1> QED
  BY <1>2, <1>7, <1>8, <1>9, <1>10 DEF Waits

\* The frame is written into a buffer that no other element has.
LEMMA FillKeeps ==
    ASSUME TypeOK, NEW s \in Chains(TxItems), Waits(s), Fill
    PROVE  Waits(s)' /\ UNCHANGED torn /\ pc' # "fault"
<1> DEFINE E == ElementsOf(s)
<1>1. /\ pc = "fill" /\ pc' = "append" /\ content' = [content EXCEPT ![buffer[frame]] = called]
      /\ UNCHANGED <<list, pools, state, dma, frame, first, called, refused, sent, torn>>
  BY DEF Fill, Goto
<1>2. /\ frame \in Items /\ frame \notin E
      /\ \A e \in E \cup {frame} : buffer[e] # Null
      /\ \A e, g \in E \cup {frame} : buffer[e] = buffer[g] => e = g
      /\ \A e \in E : content[buffer[e]] \in Frames /\ e \in Items
      /\ called \in Frames /\ called \in 0..MaxFrames
  BY <1>1, ChainFacts, TxConstants DEF Waits, TxPools, TxContent, Buffered, TypeOK
<1>3. \A e \in E \cup {frame} : buffer[e] \in Items
  BY <1>2 DEF TypeOK
<1>4. \A e \in E : buffer[e] # buffer[frame]
  BY <1>2
<1>5. /\ content' \in [Items -> 0..MaxFrames]
      /\ content'[buffer[frame]] = called
      /\ \A e \in E : content'[buffer[e]] = content[buffer[e]]
  BY <1>1, <1>2, <1>3, <1>4 DEF TypeOK
<1>7. TxList(s)' /\ TxPools(s)' /\ TxDma(s)'
  BY <1>1 DEF Waits, TxList, TxPools, TxDma, Buffered, pools
<1>8. TxContent(s)'
  BY <1>1, <1>2, <1>5 DEF TxContent, pools
<1> QED
  BY <1>1, <1>7, <1>8 DEF Waits

\* DL_APPEND to an empty list.
LEMMA AppendFirstKeeps ==
    ASSUME TypeOK, NEW s \in Chains(TxItems), Waits(s), AppendFirst
    PROVE  /\ UNCHANGED torn /\ pc' # "fault"
           /\ \E e \in Items : e = frame /\ Append(s, e) \in Chains(TxItems) /\ Waits(Append(s, e))'
<1>1. /\ pc = "append" /\ pc' = "start" /\ list' = Only(list, frame)
      /\ UNCHANGED <<pools, content, state, dma, frame, first, called, refused, sent, torn>>
      /\ s = <<>> /\ list.head = Null
  BY TheChain DEF AppendFirst, Appended, Goto
<1>0. PICK e \in Items : e = frame
  BY <1>1 DEF Waits, TxPools, TypeOK
<1> DEFINE t == Append(<<>>, e)
<1>2. ElementsOf(s) = {} /\ <<>> \in Chains(TxItems) /\ ElementsOf(<<>>) = {}
  BY <1>1, EmptyChain, TxConstants
<1>3. /\ frame \in Items /\ frame # Null /\ elements.used = {frame}
      /\ datas.used = {buffer[c] : c \in {frame}} /\ buffer[frame] # Null
      /\ dma = Null /\ state = 0
      /\ content[buffer[frame]] = called /\ called \in Frames
  BY <1>1, <1>2, TxConstants
     DEF Waits, TxPools, TxDma, TxContent, Buffered, TypeOK
<1>4. /\ t \in Chains(TxItems) /\ ElementsOf(t) = {e} /\ Len(t) = 1 /\ t[1] = e /\ t # <<>>
  <2>1. t \in Chains(TxItems) /\ ElementsOf(t) = ElementsOf(<<>>) \cup {e}
    <3>1. e \in 1..TxItems /\ e \notin ElementsOf(s) /\ TxItems \in Nat
      BY <1>2, TxConstants
    <3>2. Append(s, e) \in Chains(TxItems) /\ ElementsOf(Append(s, e)) = ElementsOf(s) \cup {e}
      BY <3>1, ChainAppend
    <3> QED
      BY <1>1, <3>2
  <2>2. Len(t) = 1 /\ t[1] = e /\ t # <<>>
    OBVIOUS
  <2> QED
    BY <1>2, <2>1, <2>2
<1>5. list' \in Lists(TxItems) /\ Linked(list', t) /\ BackLinked(list', t)
  <2>1. list \in Lists(TxItems) /\ e \in 1..TxItems
    BY TxConstants DEF TypeOK
  <2> QED
    BY <1>0, <1>1, <2>1, OnlyLinks, TxConstants
<1> HIDE DEF t
<1>12. first = Null
  BY <1>1 DEF Waits, TxList
<1>7. TxList(t)'
  BY <1>1, <1>4, <1>5, <1>12 DEF TxList
<1>8. TxPools(t)'
  BY <1>0, <1>1, <1>3, <1>4 DEF TxPools, Buffered, pools
<1>9. TxDma(t)' /\ TxContent(t)'
  BY <1>0, <1>1, <1>3, <1>4 DEF TxDma, TxContent, pools
<1>11. Waits(t)'
  BY <1>7, <1>8, <1>9 DEF Waits
<1> QED
  BY <1>0, <1>1, <1>4, <1>11 DEF t

\* The statements of DL_APPEND to a list with elements.
LEMMA AppendingKeeps ==
    ASSUME TypeOK, NEW s \in Chains(TxItems), Waits(s),
           AppendNext \/ AppendBack \/ AppendForward \/ AppendEnd
    PROVE  Waits(s)' /\ UNCHANGED torn /\ pc' # "fault"
<1>1. UNCHANGED <<pools, content, state, dma, frame, called, refused, sent, torn>>
  BY DEF AppendNext, AppendBack, AppendForward, AppendEnd, Appended
<1>2. list \in Lists(TxItems) /\ BackLinked(list, s) /\ (pc # "tail" => Linked(list, s))
  BY TheChain
<1>3. /\ TxList(s)' /\ pc \notin {"ready", "data", "fill", "start"} /\ pc' # "fault"
      /\ \/ pc \in {"append", "back", "forward"} /\ pc' \in {"back", "forward", "tail"}
         \/ pc = "end" /\ pc' = "start"
  <2>1. CASE AppendNext
    <3>1. pc = "append" /\ pc' = "back" /\ list' = list /\ first' = list.head /\ list.head # Null
      BY <2>1 DEF AppendNext, Goto
    <3>2. s # <<>> /\ list.prev[list.head] = s[Len(s)] /\ list.head \in ElementsOf(s)
      BY <3>1, TheChain
    <3>3. list.head # frame /\ list.next[frame] = Null
      BY <3>1, <3>2 DEF Waits, TxPools, TxList
    <3> QED
      BY <1>1, <1>2, <3>1, <3>2, <3>3 DEF TxList
  <2>2. CASE AppendBack
    <3>1. pc = "back" /\ UNCHANGED first
      BY <2>2 DEF AppendBack, Goto
    <3>2. PICK h \in Heads : IF h = Null THEN Goto("back", "fault") /\ UNCHANGED list
                             ELSE Goto("back", "forward") /\ list' = LinkBack(list, h, frame)
      BY <2>2 DEF AppendBack
    <3>3. /\ s # <<>> /\ frame \in Items /\ frame \notin ElementsOf(s)
          /\ h \in Items /\ h # Null /\ list.prev[h] = s[Len(s)]
      BY <3>1, HeadsPointToLast
    <3>4. pc' = "forward" /\ list' = LinkBack(list, h, frame)
      BY <3>2, <3>3 DEF Goto
    <3>5. /\ Linked(list', s) /\ BackLinked(list', s) /\ list'.prev[frame] = s[Len(s)]
          /\ list'.next = list.next
          /\ \A f \in Items : f # frame => list'.prev[f] = list.prev[f]
      BY <1>2, <3>1, <3>3, <3>4, LinkBackLinks, TxConstants
    <3>6. /\ first \in Items /\ first \notin {Null, frame} /\ list.prev[first] = s[Len(s)]
          /\ list.next[frame] = Null
      BY <3>1, HeadsPointToLast DEF Waits, TxList, Heads
    <3> QED
      BY <1>1, <3>1, <3>3, <3>4, <3>5, <3>6 DEF TxList
  <2>3. CASE AppendForward
    <3>1. pc = "forward" /\ UNCHANGED first
      BY <2>3 DEF AppendForward, Goto
    <3>2. PICK h \in Heads : IF h = Null THEN Goto("forward", "fault") /\ UNCHANGED list
                             ELSE Goto("forward", "tail") /\ list' = LinkForward(list, h, frame)
      BY <2>3 DEF AppendForward
    <3>3. /\ s # <<>> /\ frame \in Items /\ frame \notin ElementsOf(s)
          /\ h \in Items /\ h # Null /\ list.prev[h] = s[Len(s)]
      BY <3>1, HeadsPointToLast
    <3>4. pc' = "tail" /\ list' = LinkForward(list, h, frame)
      BY <3>2, <3>3 DEF Goto
    <3>5. /\ list' \in Lists(TxItems) /\ Linked(WithNext(list', frame, NullPtr), Append(s, frame))
          /\ BackLinked(list', s) /\ list'.prev = list.prev /\ list'.next[frame] = list.next[frame]
      BY <1>2, <3>1, <3>3, <3>4, LinkForwardLinks, TxConstants
    <3>6. /\ first \notin {Null, frame} /\ list.prev[first] = s[Len(s)]
          /\ list.next[frame] = NullPtr /\ list.prev[frame] = s[Len(s)]
      BY <3>1, TxConstants DEF Waits, TxList
    <3>7. WithNext(list', frame, NullPtr) = list'
      BY <3>3, <3>5, <3>6, NextIsNull, TxConstants
    <3> QED
      BY <1>1, <3>1, <3>3, <3>4, <3>5, <3>6, <3>7 DEF TxList
  <2>4. CASE AppendEnd
    <3>1. pc = "end" /\ pc' = "start" /\ list' = WithNext(list, frame, Null) /\ UNCHANGED first
      BY <2>4 DEF AppendEnd, Goto
    <3>2. frame = s[Len(s)] /\ s # <<>> /\ first = Null
      BY <3>1 DEF Waits, TxPools, TxList
    <3>3. Len(s) \in DOMAIN s /\ frame \in 1..TxItems
      BY <1>2, <3>1, <3>2, HeadAndLast, TxConstants
    <3>4. list.next[frame] = NullPtr
      BY <1>2, <3>1, <3>2, <3>3 DEF Linked
    <3>5. list' = list
      BY <1>2, <3>1, <3>3, <3>4, NextIsNull, TxConstants
    <3> QED
      BY <1>1, <1>2, <3>1, <3>2, <3>5 DEF TxList
  <2> QED
    BY <2>1, <2>2, <2>3, <2>4
<1>4. TxPools(s)'
  BY <1>1, <1>3 DEF Waits, TxPools, Buffered, pools
<1>5. TxDma(s)' /\ TxContent(s)'
  BY <1>1, <1>3 DEF Waits, TxDma, TxContent, pools
<1> QED
  BY <1>1, <1>3, <1>4, <1>5 DEF Waits

\* The last pointer: the element is linked, or the pointer was written to an
\* element that had left the list.
LEMMA AppendTailKeeps ==
    ASSUME TypeOK, NEW s \in Chains(TxItems), Waits(s), AppendTail, ~torn'
    PROVE  /\ pc' # "fault"
           /\ \E e \in Items : e = frame /\ Append(s, e) \in Chains(TxItems) /\ Waits(Append(s, e))'
<1>1. /\ pc = "tail" /\ first' = Null
      /\ UNCHANGED <<pools, content, state, dma, frame, called, refused, sent>>
  BY DEF AppendTail, Appended, Goto
<1>2. /\ s # <<>> /\ frame \in Items /\ frame \notin ElementsOf(s)
      /\ \A h \in Heads : h # Null
  BY <1>1, HeadsPointToLast
<1>0. PICK e \in Items : e = frame
  BY <1>2
<1> DEFINE t == Append(s, e)
<1>3. /\ elements.used = ElementsOf(s) \cup {frame} /\ frame # Null
      /\ datas.used = {buffer[c] : c \in ElementsOf(s) \cup {frame}}
      /\ \A c \in ElementsOf(s) \cup {frame} : buffer[c] # Null
      /\ \A c, g \in ElementsOf(s) \cup {frame} : buffer[c] = buffer[g] => c = g
      /\ content[buffer[frame]] = called /\ called \in Frames
      /\ \A c \in ElementsOf(s) : content[buffer[c]] \in Frames
      /\ dma = IF state = 0 THEN Null ELSE buffer[s[1]]
      /\ state # 0
  BY <1>1, <1>2 DEF Waits, TxPools, TxDma, TxContent, Buffered
<1>4. pc' = "end" /\ list' = WithPrev(list, list.head, frame)
  <2>1. PICK h \in Heads : /\ IF h = Null THEN Goto("tail", "fault") /\ UNCHANGED list
                              ELSE Goto("tail", "end") /\ list' = WithPrev(list, h, frame)
                           /\ torn' = (torn \/ h # list.head)
    BY DEF AppendTail
  <2>2. h = list.head /\ h # Null
    BY <1>2, <2>1
  <2> QED
    BY <2>1, <2>2 DEF Goto
<1>5. /\ list \in Lists(TxItems) /\ Linked(list, t) /\ BackLinked(list, s)
      /\ list.prev[frame] = s[Len(s)]
  BY <1>0, <1>1 DEF Waits, TxList, TypeOK
<1>6. /\ t \in Chains(TxItems) /\ ElementsOf(t) = ElementsOf(s) \cup {e} /\ t # <<>>
      /\ Len(t) = Len(s) + 1 /\ t[Len(t)] = e /\ t[1] = s[1]
  <2>1. /\ t \in Chains(TxItems) /\ ElementsOf(t) = ElementsOf(s) \cup {e}
        /\ Len(t) = Len(s) + 1 /\ t[Len(s) + 1] = e /\ \A k \in 1..Len(s) : t[k] = s[k]
    BY <1>0, <1>2, ChainAppend, TxConstants
  <2>2. Len(s) \in Nat /\ 0 < Len(s)
    BY <1>2, ChainTail, ChainFacts, TxConstants
  <2>3. 1 \in 1..Len(s) /\ t # <<>>
    BY <2>1, <2>2
  <2> HIDE DEF t
  <2> QED
    BY <2>1, <2>2, <2>3
<1>7. Linked(list', t) /\ BackLinked(list', t)
  <2> DEFINE m == WithPrev(list, list.head, frame)
  <2>1. list.next[frame] = NullPtr
    <3>1. Len(t) \in DOMAIN t
      BY <1>6, ChainFacts, TxConstants
    <3> QED
      BY <1>0, <1>5, <1>6, <3>1 DEF Linked
  <2>2. WithNext(list, frame, NullPtr) = list
    BY <1>2, <1>5, <2>1, NextIsNull, TxConstants
  <2>3. m \in Lists(TxItems) /\ m.next = list.next
    <3>1. frame \in 0..TxItems /\ list \in Lists(TxItems) /\ TxItems \in Nat
      BY <1>2, <1>5, TxConstants
    <3>2. m \in Lists(TxItems)
      BY <3>1, ListAssignments
    <3>3. m.next = list.next
      BY <3>1 DEF WithPrev, Lists
    <3> QED
      BY <3>2, <3>3
  <2>4. MoveTail(list, frame) = m
    <3>1. MoveTail(list, frame) = WithNext(m, frame, NullPtr)
      BY DEF MoveTail
    <3> HIDE DEF m
    <3> QED
      BY <1>2, <2>1, <2>3, <3>1, NextIsNull, TxConstants
  <2> QED
    BY <1>0, <1>2, <1>4, <1>5, <2>2, <2>4, MoveTailLinks, TxConstants
<1> HIDE DEF t
<1>8. TxList(t)'
  BY <1>1, <1>4, <1>7 DEF TxList
<1>9. TxPools(t)'
  BY <1>0, <1>1, <1>3, <1>4, <1>6 DEF TxPools, Buffered, pools
<1>10. TxDma(t)' /\ TxContent(t)'
  BY <1>0, <1>1, <1>3, <1>4, <1>6 DEF TxDma, TxContent, pools
<1> QED
  BY <1>0, <1>4, <1>6, <1>8, <1>9, <1>10 DEF Waits, t

\* The DMA is started with the first element, unless it runs.
LEMMA StartKeeps ==
    ASSUME TypeOK, NEW s \in Chains(TxItems), Waits(s), Start
    PROVE  Waits(s)' /\ UNCHANGED torn /\ pc' # "fault"
<1>1. /\ pc = "start" /\ pc' \in {"ready", "fault"} /\ frame' = Null /\ first = Null
      /\ UNCHANGED <<list, pools, content, first, called, refused, sent, torn>>
  BY DEF Start, Started, Goto, Waits, TxList
<1>2. /\ s # <<>> /\ list.head = s[1] /\ s[1] \in ElementsOf(s) /\ s[1] \in Items
      /\ Linked(list, s) /\ BackLinked(list, s)
  <2>1. s # <<>>
    BY <1>1 DEF Waits, TxPools
  <2> QED
    BY <1>1, <2>1, TheChain
<1>3. frame \in ElementsOf(s)
  <2>1. Len(s) \in DOMAIN s
    BY <1>2, TheChain, HeadAndLast, TxConstants DEF TypeOK
  <2> QED
    BY <1>1, <2>1 DEF Waits, TxPools, ElementsOf
<1>4. /\ elements.used = ElementsOf(s)
      /\ datas.used = {buffer[e] : e \in ElementsOf(s)}
      /\ \A e \in ElementsOf(s) : buffer[e] # Null
      /\ \A e, g \in ElementsOf(s) : buffer[e] = buffer[g] => e = g
      /\ \A e \in ElementsOf(s) : content[buffer[e]] \in Frames
  <2>1. ElementsOf(s) \cup {frame} = ElementsOf(s) /\ ElementsOf(s) \cup ({frame} \ {Null}) = ElementsOf(s)
    BY <1>3
  <2> QED
    BY <1>1, <2>1 DEF Waits, TxPools, TxContent, Buffered
<1>5. pc' = "ready" /\ state' = 1 /\ dma' = buffer[s[1]]
  <2>2. CASE state = 0
    BY <1>2, <2>2, TxConstants DEF Start, Goto
  <2>3. CASE state # 0
    <3>1. state = 1 /\ state' = state /\ dma' = dma /\ pc' = "ready"
      BY <2>3 DEF Start, Goto, TypeOK
    <3>2. dma = buffer[s[1]]
      BY <1>1, <1>2, <3>1 DEF Waits, TxDma
    <3> QED
      BY <3>1, <3>2
  <2> QED
    BY <2>2, <2>3
<1>7. TxList(s)'
  BY <1>1, <1>2, <1>5 DEF TxList
<1>8. TxPools(s)' /\ TxContent(s)'
  BY <1>1, <1>4, <1>5 DEF TxPools, TxContent, Buffered, pools
<1>9. TxDma(s)'
  BY <1>1, <1>2, <1>5 DEF TxDma, pools
<1> QED
  BY <1>1, <1>5, <1>7, <1>8, <1>9 DEF Waits

\* The interrupt finds the element that was sent at the head, wherever it
\* comes, and does not tear the list if it leaves an element in it.
LEMMA InterruptFindsFirst ==
    ASSUME TypeOK, NEW s \in Chains(TxItems), Waits(s), Interrupt
    PROVE  /\ s # <<>> /\ dma = buffer[s[1]] /\ state = 1
           /\ list.head = s[1] /\ s[1] \in ElementsOf(s) /\ s[1] \in Items
           /\ 0 < Len(s) /\ Len(s) \in Nat
<1>1. dma # Null
  BY DEF Interrupt, FreeFirst
<1>2. s # <<>> /\ dma = buffer[s[1]] /\ state = 1
  BY <1>1 DEF Waits, TxDma, TypeOK
<1> QED
  BY <1>2, TheChain, ChainTail, ChainFacts, TxConstants

LEMMA InterruptKeepsList ==
    ASSUME TypeOK, NEW s \in Chains(TxItems), Waits(s), Interrupt, ~torn'
    PROVE  /\ TxList(Tail(s))'
           /\ list'.head # Null <=> Tail(s) # <<>>
           /\ Appending => Tail(s) # <<>>
           /\ Tail(s) # <<>> => list'.head = Tail(s)[1] /\ Tail(s)[Len(Tail(s))] = s[Len(s)]
<1> DEFINE t == Tail(s)
<1>1. /\ s # <<>> /\ list.head = s[1] /\ Len(s) \in Nat /\ 0 < Len(s)
  BY InterruptFindsFirst
<1>2. /\ list' = DLDelete(list, list.head) /\ UNCHANGED <<pc, frame, first>>
      /\ Appending => list'.head # Null
  BY DEF Interrupt, FreeFirst
<1>3. /\ list \in Lists(TxItems) /\ BackLinked(list, s) /\ (pc # "tail" => Linked(list, s))
  BY TheChain
<1>4. /\ t \in Chains(TxItems) /\ Len(t) = Len(s) - 1
      /\ \A k \in 1..(Len(s) - 1) : t[k] = s[k + 1]
  BY <1>1, ChainTail, TxConstants
<1>5. t # <<>> => t[Len(t)] = s[Len(s)]
  <2> HIDE DEF t
  <2>1. t # <<>> => Len(t) # 0 /\ Len(t) \in Nat
    BY <1>4, ChainFacts, TxConstants
  <2>2. t # <<>> => Len(t) \in 1..(Len(s) - 1) /\ Len(t) + 1 = Len(s)
    BY <1>1, <1>4, <2>1
  <2> QED
    BY <1>4, <2>2
<1>6. CASE pc = "tail"
  <2>1. /\ frame \in 1..TxItems /\ frame \notin ElementsOf(s) /\ Linked(list, Append(s, frame))
        /\ list'.head # NullPtr
    BY <1>2, <1>6, HeadsPointToLast, TxConstants DEF Waits, TxList, Appending
  <2>2. /\ Linked(list', Append(t, frame)) /\ BackLinked(list', t) /\ Len(s) > 1
        /\ \A x \in 1..TxItems : list'.prev[x] \in {list.prev[x], s[Len(s)]}
    BY <1>1, <1>2, <1>3, <2>1, DeleteBeforeTail, TxConstants
  <2> HIDE DEF t
  <2>3. t # <<>>
    BY <1>1, <1>4, <2>2
  <2>4. list'.head = t[1]
    <3>1. t \in Seq(1..TxItems)
      BY <1>4, ChainFacts, TxConstants
    <3>2. Append(t, frame)[1] = t[1] /\ Append(t, frame) # <<>>
      BY <2>3, <3>1
    <3> QED
      BY <2>2, <3>2 DEF Linked
  <2>5. /\ first \in Items /\ first \notin {Null, frame} /\ list.prev[first] = s[Len(s)]
        /\ list.prev[frame] = s[Len(s)]
    BY <1>6, HeadsPointToLast DEF Waits, TxList, Heads
  <2>6. list'.prev[first] = t[Len(t)] /\ list'.prev[frame] = t[Len(t)]
    BY <1>5, <2>1, <2>2, <2>3, <2>5, TxConstants
  <2>7. TxList(t)'
    BY <1>2, <1>6, <2>2, <2>3, <2>5, <2>6 DEF TxList
  <2> QED
    BY <1>5, <2>1, <2>3, <2>4, <2>7, TxConstants DEF t
<1>7. CASE pc # "tail"
  <2>1. /\ Linked(list', t) /\ BackLinked(list', t) /\ list'.next = list.next
        /\ \A x \in 1..TxItems : list'.prev[x] \in {list.prev[x], s[Len(s)]}
    BY <1>1, <1>2, <1>3, <1>7, DeleteFirstLinks, TxConstants
  <2> HIDE DEF t
  <2>2. t # <<>> => list'.head = t[1] /\ t[1] \in Items
    <3>1. t # <<>> => 1 \in 1..Len(t)
      BY <1>4, ChainFacts, TxConstants
    <3> QED
      BY <1>4, <2>1, <3>1, ChainFacts, TxConstants DEF Linked
  <2>3. list'.head # Null <=> t # <<>>
    BY <2>1, <2>2, TxConstants DEF Linked
  <2>4. CASE pc \in {"back", "forward"}
    <3>1. /\ first \in Items /\ first \notin {Null, frame} /\ list.prev[first] = s[Len(s)]
          /\ frame \in Items /\ list.next[frame] = Null
          /\ pc = "forward" => list.prev[frame] = s[Len(s)]
      BY <2>4, HeadsPointToLast DEF Waits, TxList, Heads
    <3>2. t # <<>>
      BY <1>2, <2>3, <2>4 DEF Appending
    <3>3. list'.prev[first] = t[Len(t)] /\ (pc = "forward" => list'.prev[frame] = t[Len(t)])
      BY <1>5, <2>1, <3>1, <3>2, TxConstants
    <3>4. TxList(t)'
      BY <1>2, <1>7, <2>1, <2>4, <3>1, <3>2, <3>3 DEF TxList
    <3> QED
      BY <1>5, <2>2, <2>3, <3>2, <3>4 DEF t
  <2>5. CASE pc \notin {"back", "forward"}
    <3>1. first = Null /\ (pc \in {"fill", "append"} => list.next[frame] = Null)
      BY <1>7, <2>5 DEF Waits, TxList
    <3>2. TxList(t)'
      BY <1>2, <1>7, <2>1, <2>5, <3>1 DEF TxList
    <3> QED
      BY <1>2, <1>5, <2>2, <2>3, <3>2 DEF t
  <2> QED
    BY <2>4, <2>5
<1> QED
  BY <1>6, <1>7

LEMMA InterruptKeeps ==
    ASSUME TypeOK, NEW s \in Chains(TxItems), Waits(s), Interrupt, ~torn'
    PROVE  Waits(Tail(s))' /\ Tail(s) \in Chains(TxItems)
<1> DEFINE t == Tail(s)
           E == ElementsOf(s)
           h == s[1]
           B == Buffered(s)
<1>1. /\ s # <<>> /\ state = 1 /\ list.head = h /\ h \in E /\ h \in Items
      /\ E \subseteq Items /\ Len(s) \in Nat
  BY InterruptFindsFirst, ChainFacts, TxConstants
<1>2. /\ elements' = Free(elements, h)
      /\ datas' = Free(datas, buffer[h])
      /\ IF list'.head # Null THEN dma' = buffer[list'.head] /\ state' = state
                              ELSE dma' = Null /\ state' = 0
      /\ UNCHANGED <<buffer, content, pc, frame, called>>
  BY <1>1 DEF Interrupt, FreeFirst
<1>3. t \in Chains(TxItems) /\ ElementsOf(t) = E \ {h} /\ Len(t) = Len(s) - 1
  BY <1>1, ChainTail, TxConstants
<1>4. /\ TxList(t)'
      /\ list'.head # Null <=> t # <<>>
      /\ Appending => t # <<>>
      /\ t # <<>> => list'.head = t[1] /\ t[Len(t)] = s[Len(s)]
  BY InterruptKeepsList
<1>5. /\ pc = "ready" <=> frame = Null
      /\ pc \notin {"ready", "end", "start"} => frame \notin E
      /\ pc \in {"end", "start"} => frame = s[Len(s)]
      /\ elements.used = E \cup ({frame} \ {Null})
      /\ datas.used = {buffer[e] : e \in B}
      /\ \A e \in B : buffer[e] # Null
      /\ \A e, f \in B : buffer[e] = buffer[f] => e = f
      /\ B = E \cup (IF pc \in {"ready", "data"} THEN {} ELSE {frame})
  BY DEF Waits, TxPools, Buffered
<1>6. /\ elements'.used = elements.used \ {h} /\ datas'.used = datas.used \ {buffer[h]}
  BY <1>2, FreeGives, TxConstants DEF TypeOK
<1>7. h # frame
  <2>1. CASE pc = "ready"
    BY <1>1, <1>5, <2>1, TxConstants
  <2>2. CASE pc \in {"end", "start"}
    <3>1. t # <<>> /\ Len(t) \in Nat
      BY <1>3, <1>4, <2>2, ChainFacts, TxConstants DEF Appending
    <3>2. Len(t) # 0
      <4> HIDE DEF t
      <4> QED
        BY <1>3, <3>1, ChainFacts, TxConstants
    <3>3. Len(s) # 1 /\ 1 \in 1..Len(s) /\ Len(s) \in 1..Len(s)
      BY <1>1, <1>3, <3>1, <3>2
    <3> QED
      BY <1>5, <2>2, <3>3, ChainFacts, TxConstants
  <2>3. CASE pc \notin {"ready", "end", "start"}
    BY <1>1, <1>5, <2>3
  <2> QED
    BY <2>1, <2>2, <2>3
<1> HIDE DEF t, E, h, B
<1>8. TxPools(t)'
  <2>1. Buffered(t)' = B \ {h}
    BY <1>2, <1>3, <1>5, <1>7 DEF Buffered
  <2>2. datas'.used = {buffer[e] : e \in B \ {h}}
    <3>1. h \in B
      BY <1>1, <1>5
    <3> QED
      BY <1>5, <1>6, <3>1
  <2>3. elements'.used = ElementsOf(t) \cup ({frame} \ {Null})
    BY <1>3, <1>5, <1>6, <1>7
  <2>4. /\ \A e \in B \ {h} : buffer[e] # Null
        /\ \A e, f \in B \ {h} : buffer[e] = buffer[f] => e = f
    BY <1>5
  <2>5. pc \notin {"ready", "end", "start"} => frame \notin ElementsOf(t)
    BY <1>3, <1>5
  <2>6. pc \in {"end", "start"} => t # <<>> /\ frame = t[Len(t)]
    BY <1>4, <1>5 DEF Appending
  <2> QED
    BY <1>2, <1>5, <2>1, <2>2, <2>3, <2>4, <2>5, <2>6 DEF TxPools
<1>9. TxDma(t)'
  BY <1>1, <1>2, <1>4 DEF TxDma
<1>10. TxContent(t)'
  BY <1>2, <1>3 DEF Waits, TxContent, E
<1> QED
  BY <1>3, <1>4, <1>8, <1>9, <1>10 DEF Waits, t

LEMMA TxKeeps ==
    ASSUME TxInv, [Next]_vars
    PROVE  TxInv'
<1>1. TypeOK' /\ (dma' # Null => list'.head # Null)
  BY TypesKept DEF TxInv
<1> SUFFICES ASSUME ~torn'
             PROVE  /\ pc' # "fault"
                    /\ \E s \in Chains(TxItems) : Waits(s)'
  BY <1>1 DEF TxInv, Waits
<1>2. ~torn
  BY DEF TxInv, TypeOK, Next, Task, AllocElement, AllocData, Refuse, Fill, AppendFirst, AppendNext,
         AppendBack, AppendForward, AppendTail, AppendEnd, Start, Started, Interrupt, FreeFirst, vars
<1>3. PICK s \in Chains(TxItems) : Waits(s)
  BY <1>2 DEF TxInv, Waits
<1>4. TypeOK /\ pc # "fault"
  BY <1>2 DEF TxInv
<1>5. CASE AllocElement
  BY <1>3, <1>4, <1>5, AllocElementKeeps
<1>6. CASE AllocData
  BY <1>3, <1>4, <1>6, AllocDataKeeps
<1>7. CASE Fill
  BY <1>3, <1>4, <1>7, FillKeeps
<1>8. CASE AppendFirst
  BY <1>3, <1>4, <1>8, AppendFirstKeeps
<1>9. CASE AppendNext \/ AppendBack \/ AppendForward \/ AppendEnd
  BY <1>3, <1>4, <1>9, AppendingKeeps
<1>10. CASE AppendTail
  BY <1>3, <1>4, <1>10, AppendTailKeeps
<1>11. CASE Start
  BY <1>3, <1>4, <1>11, StartKeeps
<1>12. CASE Interrupt
  <2>1. pc' = pc
    BY <1>12 DEF Interrupt, FreeFirst
  <2> QED
    BY <1>3, <1>4, <1>12, <2>1, InterruptKeeps
<1>13. CASE UNCHANGED vars
  <2>1. Waits(s)'
    BY <1>3, <1>13 DEF Waits, TxList, TxPools, TxDma, TxContent, Buffered, vars, pools
  <2> QED
    BY <1>4, <1>13, <2>1 DEF vars
<1> QED
  BY <1>5, <1>6, <1>7, <1>8, <1>9, <1>10, <1>11, <1>12, <1>13 DEF Next, Task

\* Whatever statements the interrupt comes between, it finds an element at the
\* head; and until it tears the list, the pointers, the pools, the DMA and the
\* buffers agree and DL_APPEND does not go through a NULL head.
THEOREM TxCorrect == Spec => []TxInv
<1>1. TxInv /\ [Next]_vars => TxInv'
  BY TxKeeps
<1> QED
  BY <1>1, InitTx, PTL DEF Spec

\* The types hold in torn lists too.
THEOREM TypeCorrect == Spec => []TypeOK
<1>1. TxInv => TypeOK
  BY DEF TxInv
<1> QED
  BY <1>1, TxCorrect, PTL

\* tx_dma_state tells whether the DMA runs, and when it runs it reads the
\* buffer of the first element, also between the statements of DL_APPEND.
THEOREM AlwaysStateIsHonest == Spec => []StateIsHonest
<1>1. ASSUME TxInv, ~torn, pc # "start"
      PROVE  (state = 1 <=> dma # Null) /\ dma = IF list.head = Null THEN Null ELSE buffer[list.head]
  <2>1. TypeOK /\ pc # "fault"
    BY <1>1 DEF TxInv
  <2>2. PICK s \in Chains(TxItems) : Waits(s)
    BY <1>1 DEF TxInv, Waits
  <2>3. /\ list.head # Null <=> s # <<>>
        /\ s # <<>> => list.head = s[1] /\ s[1] \in ElementsOf(s)
    BY <2>1, <2>2, TheChain
  <2>4. /\ dma = IF state = 0 THEN Null ELSE buffer[s[1]]
        /\ state = 1 => s # <<>>
        /\ state = 0 => s = <<>>
        /\ state \in {0, 1}
    BY <1>1, <2>1, <2>2 DEF Waits, TxDma, TypeOK
  <2>5. \A e \in ElementsOf(s) : buffer[e] # Null
    BY <2>2 DEF Waits, TxPools, Buffered
  <2> QED
    BY <2>3, <2>4, <2>5
<1>2. TxInv => StateIsHonest
  BY <1>1 DEF StateIsHonest
<1> QED
  BY <1>2, TxCorrect, PTL

\* No element or buffer of the transmit pools leaks, none is in two places,
\* between any two statements of the task and the interrupt.
THEOREM AlwaysItemsAccounted == Spec => []ItemsAccounted
<1>1. ASSUME TxInv, ~torn
      PROVE  /\ elements.used = InList \cup ({frame} \ {Null})
             /\ datas.used = {buffer[e] : e \in InList \cup (IF pc \in {"ready", "data"} THEN {} ELSE {frame})}
             /\ pc \in {"data", "fill", "append"} => frame \notin InList
  <2>1. TypeOK
    BY <1>1 DEF TxInv
  <2>2. PICK s \in Chains(TxItems) : Waits(s)
    BY <1>1 DEF TxInv, Waits
  <2>3. /\ elements.used = ElementsOf(s) \cup ({frame} \ {Null})
        /\ datas.used = {buffer[e] : e \in ElementsOf(s) \cup (IF pc \in {"ready", "data"} THEN {} ELSE {frame})}
        /\ pc \notin {"ready", "end", "start"} => frame \notin ElementsOf(s)
    BY <2>2 DEF Waits, TxPools, Buffered
  <2>4. CASE pc = "tail"
    <3>1. Linked(list, Append(s, frame)) /\ frame \in Items /\ frame \notin ElementsOf(s)
      BY <2>1, <2>2, <2>4, HeadsPointToLast DEF Waits, TxList
    <3>2. /\ Append(s, frame) \in Chains(TxItems)
          /\ ElementsOf(Append(s, frame)) = ElementsOf(s) \cup {frame}
      BY <3>1, ChainAppend, TxConstants
    <3>3. InList = ElementsOf(s) \cup {frame}
      BY <2>1, <3>1, <3>2, MembersAreElements, TxConstants DEF InList, TypeOK
    <3>4. frame # Null
      BY <3>1, TxConstants
    <3> QED
      BY <2>3, <2>4, <3>3, <3>4
  <2>5. CASE pc # "tail"
    <3>1. InList = ElementsOf(s)
      BY <2>1, <2>2, <2>5, TheChain, MembersAreElements, TxConstants DEF InList
    <3> QED
      BY <2>3, <3>1
  <2> QED
    BY <2>4, <2>5
<1>2. TxInv => ItemsAccounted
  BY <1>1 DEF ItemsAccounted
<1> QED
  BY <1>2, TxCorrect, PTL

\* When there was an element for a frame there is a buffer for it.
THEOREM AlwaysBufferForElement == Spec => []BufferForElement
<1>1. TxInv => BufferForElement
  BY BufferLeft DEF TxInv, Waits, BufferForElement
<1> QED
  BY <1>1, TxCorrect, PTL

--------------------------------------------------------------------------------
(* What the driver promises: a queue that loses only the frames that          *)
(* xlink_send refuses.                                                        *)

\* The frames of the elements s, and with them the one that is being appended.
FramesOf(s) == [k \in 1..Len(s) |-> content[buffer[s[k]]]]
Behind == Unlinked \/ pc = "tail"
Waiting(s) == FramesOf(s) \o (IF Behind THEN <<called>> ELSE <<>>)

LEMMA KeptItself ==
    ASSUME NEW q, NEW n \in Nat, DOMAIN q = 1..n
    PROVE  Fifo!Kept(q, q)
BY DEF Fifo!Kept

LEMMA KeptBefore ==
    ASSUME NEW S, NEW q \in Seq(S), NEW x
    PROVE  Fifo!Kept(q, Append(q, x))
<1>1. DOMAIN q = 1..Len(q) /\ Len(q) \in Nat
  OBVIOUS
<1>2. DOMAIN Append(q, x) = 1..(Len(q) + 1) /\ \A k \in 1..Len(q) : Append(q, x)[k] = q[k]
  OBVIOUS
<1>3. \A k \in 1..Len(q) : k \in 1..(Len(q) + 1)
  BY <1>1
<1> QED
  BY <1>1, <1>2, <1>3 DEF Fifo!Kept

LEMMA FramesAreFrames ==
    ASSUME TypeOK, NEW s \in Chains(TxItems), Waits(s)
    PROVE  /\ FramesOf(s) \in Seq(Frames) /\ Len(FramesOf(s)) = Len(s)
           /\ \A k \in 1..Len(s) : FramesOf(s)[k] = content[buffer[s[k]]]
           /\ pc # "ready" => called \in Frames
<1>1. Len(s) \in Nat /\ \A k \in 1..Len(s) : s[k] \in ElementsOf(s)
  BY ChainFacts, TxConstants DEF ElementsOf
<1>2. \A k \in 1..Len(s) : content[buffer[s[k]]] \in Frames
  BY <1>1 DEF Waits, TxContent
<1> QED
  BY <1>1, <1>2 DEF FramesOf, Waits, TxContent

\* The frame that is being appended is in its buffer by then.
LEMMA AppendedFrames ==
    ASSUME TypeOK, NEW s \in Chains(TxItems), Waits(s),
           NEW e \in Items, e \notin ElementsOf(s), called \in Frames, content[buffer[e]] = called
    PROVE  FramesOf(Append(s, e)) = Append(FramesOf(s), called)
<1> DEFINE t == Append(s, e)
           g == Append(FramesOf(s), called)
<1>1. Len(s) \in Nat /\ Len(t) = Len(s) + 1 /\ t[Len(s) + 1] = e /\ \A k \in 1..Len(s) : t[k] = s[k]
  BY ChainAppend, ChainFacts, TxConstants
<1>2. /\ FramesOf(s) \in Seq(Frames) /\ Len(FramesOf(s)) = Len(s)
      /\ \A k \in 1..Len(s) : FramesOf(s)[k] = content[buffer[s[k]]]
  BY FramesAreFrames
<1> HIDE DEF t
<1>3. /\ g \in Seq(Frames) /\ DOMAIN g = 1..(Len(s) + 1) /\ g[Len(s) + 1] = called
      /\ \A k \in 1..Len(s) : g[k] = FramesOf(s)[k]
  BY <1>1, <1>2
<1> HIDE DEF g
<1>4. g = [k \in 1..(Len(s) + 1) |-> g[k]]
  BY <1>3
<1>5. ASSUME NEW k \in 1..(Len(s) + 1) PROVE content[buffer[t[k]]] = g[k]
  <2>1. CASE k = Len(s) + 1
    BY <1>1, <1>3, <2>1
  <2>2. CASE k # Len(s) + 1
    <3>1. k \in 1..Len(s)
      BY <1>1, <2>2
    <3> QED
      BY <1>1, <1>2, <1>3, <3>1
  <2> QED
    BY <2>1, <2>2
<1>6. FramesOf(t) = [k \in 1..(Len(s) + 1) |-> content[buffer[t[k]]]]
  BY <1>1 DEF FramesOf
<1> QED
  BY <1>4, <1>5, <1>6 DEF t, g

\* Linking an element and sending one, in terms of the frames.
LEMMA WaitingSeq ==
    ASSUME TypeOK, NEW s \in Chains(TxItems), Waits(s)
    PROVE  /\ Waiting(s) \in Seq(Frames)
           /\ Behind => Waiting(s) = Append(FramesOf(s), called)
           /\ ~Behind => Waiting(s) = FramesOf(s)
<1>1. FramesOf(s) \in Seq(Frames)
  BY FramesAreFrames
<1>2. CASE Behind
  <2>1. called \in Frames
    BY <1>2, FramesAreFrames DEF Behind, Unlinked
  <2>2. FramesOf(s) \o <<called>> = Append(FramesOf(s), called)
    BY <1>1, <2>1
  <2> QED
    BY <1>1, <1>2, <2>1, <2>2 DEF Waiting
<1>3. CASE ~Behind
  <2>1. FramesOf(s) \o <<>> = FramesOf(s)
    BY <1>1
  <2> QED
    BY <1>1, <1>3, <2>1 DEF Waiting
<1> QED
  BY <1>2, <1>3

\* What the list holds is what waits, also while the frame that is appended
\* can be reached from its head already.
HeldWaits == \A s \in Chains(TxItems) : TypeOK /\ Waits(s) => Held = Waiting(s)

LEMMA HeldIsWaiting == HeldWaits
<1> SUFFICES ASSUME NEW s \in Chains(TxItems), TypeOK, Waits(s)
             PROVE  Held = Waiting(s)
  BY DEF HeldWaits
<1>1. ASSUME NEW c \in Chains(TxItems), Linked(list, c)
      PROVE  /\ Listed = [k \in 1..Len(c) |-> c[k]]
             /\ [k \in DOMAIN Listed |-> content[buffer[Listed[k]]]] = FramesOf(c)
  <2>1. /\ Len(c) \in 0..TxItems /\ Cardinality(ElementsOf(c)) = Len(c)
    BY ChainFacts, TxConstants
  <2>2. Cardinality(InList) = Len(c)
    BY <1>1, <2>1, MembersAreElements, TxConstants DEF InList
  <2>3. \A k \in 1..Len(c) : Walk(list, TxItems)[k] = c[k]
    <3>1. \A k \in 1..TxItems : Walk(list, TxItems)[k] = IF k <= Len(c) THEN c[k] ELSE NullPtr
      BY <1>1, WalkGoesThrough, TxConstants
    <3>2. \A k \in 1..Len(c) : k \in 1..TxItems /\ k <= Len(c)
      BY <2>1, TxConstants
    <3> QED
      BY <3>1, <3>2
  <2>4. Listed = [k \in 1..Len(c) |-> c[k]]
    BY <2>2, <2>3 DEF Listed
  <2> QED
    BY <2>4 DEF FramesOf
<1>2. CASE pc = "tail"
  <2>1. /\ Linked(list, Append(s, frame)) /\ frame \in Items /\ frame \notin ElementsOf(s)
        /\ called \in Frames /\ content[buffer[frame]] = called
    BY <1>2, HeadsPointToLast DEF Waits, TxList, TxContent
  <2>2. Append(s, frame) \in Chains(TxItems)
    BY <2>1, ChainAppend, TxConstants
  <2>3. FramesOf(Append(s, frame)) = Append(FramesOf(s), called)
    BY <2>1, AppendedFrames
  <2>4. Held = Append(FramesOf(s), called) \o <<>>
    BY <1>1, <1>2, <2>1, <2>2, <2>3 DEF Held, Unlinked
  <2>5. Waiting(s) = Append(FramesOf(s), called) /\ FramesOf(s) \in Seq(Frames)
    BY <1>2, WaitingSeq, FramesAreFrames DEF Behind
  <2> QED
    BY <2>1, <2>4, <2>5
<1>3. CASE pc # "tail"
  <2>1. Linked(list, s)
    BY <1>3, TheChain
  <2> QED
    BY <1>1, <1>3, <2>1 DEF Held, Waiting, Behind
<1> QED
  BY <1>2, <1>3

LEMMA HeldIsWaitingAfter == HeldWaits'
BY HeldIsWaiting, PTL

LEMMA HeldIsWaitingNext ==
    ASSUME NEW s \in Chains(TxItems), TypeOK', Waits(s)'
    PROVE  Held' = Waiting(s)'
BY HeldIsWaitingAfter DEF HeldWaits

LEMMA NothingHeld == Init => Fifo!Init
<1> SUFFICES ASSUME Init PROVE Fifo!Init
  OBVIOUS
<1>1. TxInv /\ ~torn /\ pc = "ready" /\ called = 0 /\ sent = <<>> /\ list.head = Null
  BY InitTx, TxConstants DEF Init, EmptyList
<1>2. PICK s \in Chains(TxItems) : Waits(s)
  BY <1>1 DEF TxInv, Waits
<1>3. s = <<>> /\ TypeOK
  BY <1>1, <1>2, TheChain DEF TxInv
<1>4. Held = Waiting(s) /\ Waiting(s) = FramesOf(s)
  BY <1>1, <1>2, <1>3, HeldIsWaiting, WaitingSeq DEF HeldWaits, Behind, Unlinked
<1>5. FramesOf(s) = <<>>
  BY <1>3 DEF FramesOf
<1> QED
  BY <1>1, <1>4, <1>5 DEF Fifo!Init

\* A call of xlink_send puts its frame into the queue or is refused.
LEMMA CallPuts ==
    ASSUME TypeOK, NEW s \in Chains(TxItems), Waits(s), ~torn, AllocElement, TypeOK'
    PROVE  Fifo!Put
<1>1. Waits(s)' /\ ~torn'
  BY AllocElementKeeps
<1>2. /\ pc = "ready" /\ called' = called + 1 /\ called' \in Frames
      /\ UNCHANGED <<buffer, content, sent>>
  BY TxConstants DEF AllocElement, Refuse, TypeOK, pools
<1>3. /\ Held = FramesOf(s) /\ FramesOf(s) \in Seq(Frames)
  BY <1>1, <1>2, HeldIsWaiting, WaitingSeq, FramesAreFrames DEF HeldWaits, Behind, Unlinked
<1>4. FramesOf(s)' = FramesOf(s)
  BY <1>2 DEF FramesOf
<1>5. Held' = Append(FramesOf(s), called') \/ Held' = FramesOf(s)
  <2>1. Held' = Waiting(s)'
    BY <1>1, HeldIsWaitingNext
  <2>2. Waiting(s)' = FramesOf(s) \o (IF Behind THEN <<called>> ELSE <<>>)'
    BY <1>4 DEF Waiting
  <2>3. Append(FramesOf(s), called') = FramesOf(s) \o <<called'>> /\ FramesOf(s) \o <<>> = FramesOf(s)
    BY <1>2, <1>3
  <2> QED
    BY <2>1, <2>2, <2>3
<1>6. Fifo!Kept(FramesOf(s), Append(FramesOf(s), called'))
  BY <1>3, KeptBefore
<1>7. Fifo!Kept(Append(FramesOf(s), called'), Append(FramesOf(s), called'))
  <2>1. Append(FramesOf(s), called') \in Seq(Frames)
    BY <1>2, <1>3
  <2>2. DOMAIN Append(FramesOf(s), called') = 1..Len(Append(FramesOf(s), called'))
        /\ Len(Append(FramesOf(s), called')) \in Nat
    BY <2>1
  <2> QED
    BY <2>2, KeptItself
<1> QED
  BY <1>1, <1>2, <1>3, <1>5, <1>6, <1>7 DEF Fifo!Put

\* Until it is sent, a frame is held: in the element's buffer or to be written
\* into it.
LEMMA HoldsOn ==
    ASSUME TypeOK, NEW s \in Chains(TxItems), Waits(s), ~torn, TypeOK',
           AllocData \/ Fill \/ AppendNext \/ AppendBack \/ AppendForward \/ AppendEnd \/ Start
    PROVE  ~torn' /\ UNCHANGED <<called, Held, sent>>
<1>1. Waits(s)' /\ ~torn' /\ pc' # "fault"
  BY AllocDataKeeps, FillKeeps, AppendingKeeps, StartKeeps
<1>2. UNCHANGED <<called, sent>> /\ Behind' = Behind
  <2>1. CASE AllocData
    <3>1. HasFree(datas, TxItems)
      BY <2>1, BufferLeft DEF AllocData
    <3> QED
      BY <2>1, <3>1 DEF AllocData, Behind, Unlinked
  <2>2. CASE Fill
    BY <2>2 DEF Fill, Goto, Behind, Unlinked
  <2>3. CASE AppendNext \/ AppendBack \/ AppendForward
    <3>1. pc' \in {"back", "forward", "tail"} /\ pc \in {"append", "back", "forward"}
      BY <1>1, <2>3 DEF AppendNext, AppendBack, AppendForward, Goto
    <3> QED
      BY <2>3, <3>1 DEF AppendNext, AppendBack, AppendForward, Appended, Behind, Unlinked
  <2>4. CASE AppendEnd
    BY <2>4 DEF AppendEnd, Appended, Goto, Behind, Unlinked
  <2>5. CASE Start
    BY <2>5 DEF Start, Started, Goto, Behind, Unlinked
  <2> QED
    BY <2>1, <2>2, <2>3, <2>4, <2>5
<1>3. \A e \in ElementsOf(s) : content'[buffer'[e]] = content[buffer[e]]
  <2>1. CASE AllocData
    <3>1. HasFree(datas, TxItems) /\ frame \notin ElementsOf(s) /\ pc = "data"
      BY <2>1, BufferLeft DEF AllocData, Waits, TxPools
    <3>2. \A e \in ElementsOf(s) : buffer'[e] = buffer[e] /\ e # frame
      <4>1. \A e \in ElementsOf(s) : e \in Items /\ e # frame
        BY <3>1, ChainFacts, TxConstants
      <4>2. buffer' = [buffer EXCEPT ![frame] = FreeItem(datas, TxItems)]
        BY <2>1, <3>1 DEF AllocData
      <4> QED
        BY <4>1, <4>2 DEF TypeOK
    <3> QED
      BY <2>1, <3>1, <3>2 DEF AllocData
  <2>2. CASE Fill
    <3>1. /\ \A e \in ElementsOf(s) : buffer[e] \in Items /\ buffer[e] # buffer[frame]
          /\ content' = [content EXCEPT ![buffer[frame]] = called]
          /\ buffer' = buffer
      <4>1. pc = "fill" /\ frame \notin ElementsOf(s)
        BY <2>2 DEF Fill, Goto, Waits, TxPools
      <4>2. \A e \in ElementsOf(s) : e \in Items
        BY ChainFacts, TxConstants
      <4> QED
        BY <2>2, <4>1, <4>2 DEF Fill, Waits, TxPools, Buffered, TypeOK, pools
    <3> QED
      BY <3>1 DEF TypeOK
  <2>3. CASE AppendNext \/ AppendBack \/ AppendForward \/ AppendEnd \/ Start
    BY <2>3 DEF AppendNext, AppendBack, AppendForward, AppendEnd, Appended, Start, Started, pools
  <2> QED
    BY <2>1, <2>2, <2>3
<1>4. FramesOf(s)' = FramesOf(s)
  <2>1. \A k \in 1..Len(s) : s[k] \in ElementsOf(s)
    BY ChainFacts, TxConstants DEF ElementsOf
  <2> QED
    BY <1>3, <2>1 DEF FramesOf
<1>5. Waiting(s)' = Waiting(s)
  BY <1>2, <1>4 DEF Waiting
<1>6. Held = Waiting(s) /\ Held' = Waiting(s)'
  BY <1>1, HeldIsWaiting, HeldIsWaitingNext DEF HeldWaits
<1> QED
  BY <1>1, <1>2, <1>5, <1>6

\* When it is linked it holds the place that it had.
LEMMA LinkedInItsPlace ==
    ASSUME TypeOK, NEW s \in Chains(TxItems), Waits(s), TypeOK', ~torn', AppendFirst \/ AppendTail
    PROVE  UNCHANGED <<called, Held, sent>>
<1>1. PICK e \in Items : e = frame /\ Append(s, e) \in Chains(TxItems) /\ Waits(Append(s, e))'
  BY AppendFirstKeeps, AppendTailKeeps
<1> DEFINE t == Append(s, e)
<1>2. /\ pc \in {"append", "tail"} /\ pc' \in {"start", "end"}
      /\ UNCHANGED <<buffer, content, called, sent>>
  <2>1. AppendTail => pc' # "fault"
    BY AppendTailKeeps
  <2> QED
    BY <2>1 DEF AppendFirst, AppendTail, Appended, Goto, pools
<1>3. Held = Append(FramesOf(s), called) /\ FramesOf(s) \in Seq(Frames) /\ called \in Frames
  BY <1>2, HeldIsWaiting, WaitingSeq, FramesAreFrames DEF HeldWaits, Behind, Unlinked
<1>4. content[buffer[e]] = called /\ e \notin ElementsOf(s)
  BY <1>1, <1>2 DEF Waits, TxContent, TxPools
<1>5. FramesOf(t) = Append(FramesOf(s), called)
  BY <1>3, <1>4, AppendedFrames
<1>6. FramesOf(t)' = FramesOf(t)
  BY <1>2 DEF FramesOf
<1>7. Held' = Waiting(t)' /\ Waiting(t)' = FramesOf(t)' \o <<>>
  <2>1. t \in Chains(TxItems) /\ Waits(t)' /\ (~Behind)'
    BY <1>1, <1>2 DEF Behind, Unlinked
  <2> HIDE DEF t
  <2> QED
    BY <2>1, HeldIsWaitingNext DEF Waiting
<1>8. Append(FramesOf(s), called) \o <<>> = Append(FramesOf(s), called)
  BY <1>3
<1> QED
  BY <1>2, <1>3, <1>5, <1>6, <1>7, <1>8

\* The interrupt takes the first frame out.
LEMMA ShorterQueue ==
    ASSUME NEW S, NEW q \in Seq(S), NEW r \in Seq(S), Len(q) = Len(r) + 1,
           \A k \in 1..Len(r) : r[k] = q[k + 1]
    PROVE  /\ SubSeq(q, 1, 1) = <<q[1]>> /\ r = SubSeq(q, 2, Len(q))
<1>1. Len(r) \in Nat /\ \A k \in 1..Len(q) : q[k] \in S
  OBVIOUS
<1>2. q[1] \in S /\ \A k \in 2..Len(q) : q[k] \in S
  BY <1>1
<1>3. /\ SubSeq(q, 2, Len(q)) \in Seq(S) /\ Len(SubSeq(q, 2, Len(q))) = Len(r)
      /\ \A k \in 1..Len(r) : SubSeq(q, 2, Len(q))[k] = q[k + 1]
  <2>1. 2 \in Int /\ Len(q) \in Int
    BY <1>1
  <2>2. /\ SubSeq(q, 2, Len(q)) \in Seq(S)
        /\ Len(SubSeq(q, 2, Len(q))) = IF 2 <= Len(q) THEN Len(q) - 2 + 1 ELSE 0
        /\ \A k \in 1..(Len(q) - 2 + 1) : SubSeq(q, 2, Len(q))[k] = q[2 + k - 1]
    BY <1>2, <2>1, SubSeqProperties
  <2>3. Len(q) - 2 + 1 = Len(r) /\ (2 <= Len(q) \/ Len(r) = 0)
    BY <1>1
  <2>4. \A k \in 1..Len(r) : 2 + k - 1 = k + 1
    BY <1>1
  <2> QED
    BY <2>2, <2>3, <2>4
<1>4. r = SubSeq(q, 2, Len(q))
  BY <1>1, <1>3, SeqEqual
<1>5. SubSeq(q, 1, 1) = <<q[1]>>
  <2>1. /\ SubSeq(q, 1, 1) \in Seq(S) /\ Len(SubSeq(q, 1, 1)) = 1
        /\ SubSeq(q, 1, 1)[1] = q[1]
    <3>1. \A k \in 1..1 : q[k] \in S
      BY <1>2
    <3>2. /\ SubSeq(q, 1, 1) \in Seq(S)
          /\ Len(SubSeq(q, 1, 1)) = IF 1 <= 1 THEN 1 - 1 + 1 ELSE 0
          /\ \A k \in 1..(1 - 1 + 1) : SubSeq(q, 1, 1)[k] = q[1 + k - 1]
      BY <3>1, SubSeqProperties
    <3> QED
      BY <3>2
  <2>2. <<q[1]>> \in Seq(S) /\ Len(<<q[1]>>) = 1 /\ <<q[1]>>[1] = q[1]
    BY <1>2
  <2> DEFINE a == SubSeq(q, 1, 1)
             b == <<q[1]>>
  <2>3. a \in Seq(S) /\ b \in Seq(S) /\ Len(a) = 1 /\ Len(b) = 1 /\ a[1] = b[1]
    BY <2>1, <2>2
  <2> HIDE DEF a, b
  <2>4. a = b
    BY <2>3, SeqEqual
  <2> QED
    BY <2>4 DEF a, b
<1> QED
  BY <1>4, <1>5

LEMMA InterruptGets ==
    ASSUME TypeOK, NEW s \in Chains(TxItems), Waits(s), ~torn, TypeOK', ~torn', Interrupt
    PROVE  Fifo!Get
<1> DEFINE t == Tail(s)
           q == Waiting(s)
           r == Waiting(t)'
<1>1. Waits(t)' /\ t \in Chains(TxItems)
  BY InterruptKeeps
<1>2. s # <<>> /\ dma = buffer[s[1]]
  BY InterruptFindsFirst
<1>3. UNCHANGED <<buffer, content, called, pc>> /\ sent' = Append(sent, content[dma])
  BY DEF Interrupt, FreeFirst
<1>4. /\ Len(s) \in Nat /\ 0 < Len(s) /\ Len(t) = Len(s) - 1
      /\ \A k \in 1..(Len(s) - 1) : t[k] = s[k + 1]
  BY <1>2, ChainTail, ChainFacts, TxConstants
<1>5. Held = q /\ Held' = r
  BY <1>1, HeldIsWaiting, HeldIsWaitingNext DEF HeldWaits
<1>6. /\ FramesOf(s) \in Seq(Frames) /\ Len(FramesOf(s)) = Len(s)
      /\ \A k \in 1..Len(s) : FramesOf(s)[k] = content[buffer[s[k]]]
      /\ Behind => called \in Frames
  BY FramesAreFrames DEF Behind, Unlinked
<1> HIDE DEF t
<1>7. FramesOf(t)' = [k \in 1..Len(t) |-> content[buffer[t[k]]]]
  BY <1>3 DEF FramesOf
<1>8. /\ FramesOf(t)' \in Seq(Frames) /\ Len(FramesOf(t)') = Len(s) - 1
      /\ \A k \in 1..(Len(s) - 1) : FramesOf(t)'[k] = FramesOf(s)[k + 1]
  <2>1. ASSUME NEW k \in 1..(Len(s) - 1)
        PROVE  content[buffer[t[k]]] = FramesOf(s)[k + 1] /\ FramesOf(s)[k + 1] \in Frames
    <3>1. k + 1 \in 1..Len(s)
      BY <1>4
    <3> QED
      BY <1>4, <1>6, <3>1
  <2>2. \A k \in 1..Len(t) : content[buffer[t[k]]] \in Frames
    BY <1>4, <2>1
  <2>3. Len(t) \in Nat
    BY <1>4
  <2>4. FramesOf(t)' \in Seq(Frames) /\ Len(FramesOf(t)') = Len(t)
    BY <1>7, <2>2, <2>3
  <2>5. \A k \in 1..(Len(s) - 1) : FramesOf(t)'[k] = content[buffer[t[k]]]
    BY <1>4, <1>7
  <2> QED
    BY <1>4, <2>1, <2>4, <2>5
<1>9. /\ ~Behind => q = FramesOf(s) /\ r = FramesOf(t)'
      /\ Behind => q = Append(FramesOf(s), called) /\ r = Append(FramesOf(t)', called)
  <2>1. Behind' = Behind
    BY <1>3 DEF Behind, Unlinked
  <2>2. q = FramesOf(s) \o (IF Behind THEN <<called>> ELSE <<>>)
    BY DEF Waiting
  <2>3. r = FramesOf(t)' \o (IF Behind THEN <<called>> ELSE <<>>)
    BY <1>3, <2>1 DEF Waiting
  <2> HIDE DEF q, r
  <2>4. ~Behind => q = FramesOf(s) /\ r = FramesOf(t)'
    BY <1>6, <1>8, <2>2, <2>3
  <2>5. Behind => q = Append(FramesOf(s), called) /\ r = Append(FramesOf(t)', called)
    BY <1>6, <1>8, <2>2, <2>3
  <2> QED
    BY <2>4, <2>5
<1> HIDE DEF q, r
<1>10. /\ q \in Seq(Frames) /\ r \in Seq(Frames) /\ Len(q) = Len(r) + 1
       /\ q[1] = content[dma]
       /\ \A k \in 1..Len(r) : r[k] = q[k + 1]
  <2> DEFINE f == FramesOf(s)
             g == FramesOf(t)'
             n == Len(s)
  <2>1. /\ f \in Seq(Frames) /\ g \in Seq(Frames) /\ n \in Nat /\ 0 < n
        /\ Len(f) = n /\ Len(g) = n - 1 /\ f[1] = content[dma]
        /\ \A k \in 1..(n - 1) : g[k] = f[k + 1]
    <3>1. 1 \in 1..Len(s)
      BY <1>4
    <3> QED
      BY <1>2, <1>4, <1>6, <1>8, <3>1
  <2> HIDE DEF f, g, n
  <2>2. CASE ~Behind
    <3>1. q = f /\ r = g
      BY <1>9, <2>2 DEF f, g
    <3> QED
      BY <2>1, <3>1
  <2>3. CASE Behind
    <3>1. q = Append(f, called) /\ r = Append(g, called) /\ called \in Frames
      BY <1>6, <1>9, <2>3 DEF f, g
    <3>2. Len(q) = n + 1 /\ Len(r) = n /\ q \in Seq(Frames) /\ r \in Seq(Frames)
      BY <2>1, <3>1
    <3>3. q[1] = f[1]
      BY <2>1, <3>1
    <3>4. ASSUME NEW k \in 1..n PROVE r[k] = q[k + 1]
      <4>1. CASE k = n
        BY <2>1, <3>1, <4>1
      <4>2. CASE k # n
        <5>1. k \in 1..(n - 1) /\ k + 1 \in 1..n
          BY <2>1, <4>2
        <5>2. r[k] = g[k] /\ q[k + 1] = f[k + 1]
          BY <2>1, <3>1, <5>1
        <5> QED
          BY <2>1, <5>1, <5>2
      <4> QED
        BY <4>1, <4>2
    <3> QED
      BY <2>1, <3>2, <3>3, <3>4
  <2> QED
    BY <2>2, <2>3
<1>11. SubSeq(q, 1, 1) = <<q[1]>> /\ r = SubSeq(q, 2, Len(q))
  BY <1>10, ShorterQueue
<1>12. sent' = sent \o SubSeq(Held, 1, 1) /\ Held' = SubSeq(Held, 1 + 1, Len(Held))
  <2>1. sent \in Seq(0..MaxFrames) /\ content[dma] \in 0..MaxFrames
    <3>1. sent \in Seq(0..MaxFrames)
      BY DEF TypeOK
    <3>2. q[1] \in Frames
      <4>1. 1 \in 1..Len(q)
        BY <1>10
      <4> QED
        BY <1>10, <4>1
    <3> QED
      BY <1>10, <3>1, <3>2, TxConstants
  <2>2. Append(sent, content[dma]) = sent \o <<content[dma]>>
    BY <2>1
  <2> QED
    BY <1>3, <1>5, <1>10, <1>11, <2>2
<1>13. 1 \in 1..Len(Held)
  BY <1>5, <1>10
<1> QED
  BY <1>3, <1>12, <1>13 DEF Fifo!Get

\* The transmit side implements the queue: frames leave whole, in the order of
\* the calls, none twice, and only those that xlink_send refuses are lost, with
\* the interrupt between any two statements, until it tears the list.
THEOREM TxImplementsFifo == Spec => ImplementsFifo
<1>1. ASSUME TxInv, [Next]_vars, TxInv', ~torn'
      PROVE  ~torn /\ (Fifo!Next \/ UNCHANGED <<called, Held, sent>>)
  <2>1. ~torn
    BY <1>1 DEF TxInv, TypeOK, Next, Task, AllocElement, AllocData, Refuse, Fill, AppendFirst, AppendNext,
           AppendBack, AppendForward, AppendTail, AppendEnd, Start, Started, Interrupt, FreeFirst, vars
  <2>2. PICK s \in Chains(TxItems) : Waits(s)
    BY <1>1, <2>1 DEF TxInv, Waits
  <2>3. TypeOK /\ TypeOK'
    BY <1>1 DEF TxInv
  <2>4. CASE AllocElement
    BY <1>1, <2>1, <2>2, <2>3, <2>4, CallPuts DEF Fifo!Next
  <2>5. CASE AllocData \/ Fill \/ AppendNext \/ AppendBack \/ AppendForward \/ AppendEnd \/ Start
    BY <2>1, <2>2, <2>3, <2>5, HoldsOn
  <2>6. CASE AppendFirst \/ AppendTail
    BY <1>1, <2>1, <2>2, <2>3, <2>6, LinkedInItsPlace
  <2>7. CASE Interrupt
    BY <1>1, <2>1, <2>2, <2>3, <2>7, InterruptGets DEF Fifo!Next
  <2>8. CASE UNCHANGED vars
    BY <2>1, <2>8 DEF vars, pools, Held, Listed, InList, Unlinked
  <2> QED
    BY <1>1, <2>1, <2>4, <2>5, <2>6, <2>7, <2>8 DEF Next, Task
<1>2. TxInv /\ [Next]_vars /\ TxInv' => [torn' \/ Fifo!Next]_(Fifo!vars)
  BY <1>1 DEF Fifo!vars
<1> QED
  BY <1>2, NothingHeld, TxCorrect, PTL DEF Spec, ImplementsFifo
================================================================================
