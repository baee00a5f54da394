----------------------------- MODULE UartRxProofs -----------------------------
(***************************************************************************)
(* The receive side of the driver, for pools and buffers of any size and   *)
(* any number of units, with the interrupt between any two statements of   *)
(* the task: RxInv holds, so that no block, buffer or unit is lost or      *)
(* shared until the interrupt tears the list under get_rx_block.  If the   *)
(* transfer count survives, the driver is a queue that only loses units.   *)
(***************************************************************************)
EXTENDS UartRx, DriverLemmas, SequenceTheorems

LEMMA RxConstants ==
    /\ RxBlocks \in Nat /\ RxBlocks \in Nat \ {0} /\ RxBlocks # 1
    /\ BufUnits \in Nat /\ BufUnits # 0 /\ MaxUnits \in Nat
    /\ Items = 1..RxBlocks /\ Units = 1..MaxUnits /\ Null \notin Items
  BY RxAssumption DEF Items, Units, Null

LEMMA MoreThanOne ==
    \A m, n \in Nat :
        (m > 1 => m # 0 /\ m # 1) /\ (m # 0 /\ m # 1 => m > 1) /\ (m > 1 /\ m <= n => n > 1)
  OBVIOUS

\* What RxInv says of the blocks s in the list.
Holds(s) == RxList(s) /\ RxPools(s) /\ RxUnits(s)

Blocks(s) == ElementsOf(s) \cup {current} \cup Taken

\* The block of the task, while it has its buffer.
Lent == IF pc = "freeblock" THEN {} ELSE Taken

LEMMA BlockFacts ==
    ASSUME TypeOK, NEW s \in Chains(RxBlocks), Holds(s)
    PROVE  /\ ElementsOf(s) \subseteq Items /\ current \in Items
           /\ Taken \subseteq Items /\ Blocks(s) \subseteq Items /\ Buffered(s) \subseteq Blocks(s)
           /\ pc \notin {"start", "take", "head"} => node \in Items
           /\ \A b \in Buffered(s) : buffer[b] \in Items
<1>1. ElementsOf(s) \subseteq Items /\ current \in Items
  BY ChainFacts, RxConstants DEF Holds, RxPools, TypeOK
<1>2. pc \notin {"start", "take", "head"} => node \in Items
  BY DEF Holds, RxPools, TypeOK
<1>3. Taken \subseteq Items
  BY <1>2 DEF Taken
<1>4. Blocks(s) \subseteq Items /\ Buffered(s) \subseteq Blocks(s)
  BY <1>1, <1>3 DEF Blocks, Buffered
<1>5. \A b \in Buffered(s) : buffer[b] \in Items
  BY <1>4 DEF Holds, RxPools, TypeOK
<1> QED
  BY <1>1, <1>2, <1>3, <1>4, <1>5

\* A block that is free has a buffer left for it.
LEMMA BufferLeft ==
    ASSUME TypeOK, NEW s \in Chains(RxBlocks), Holds(s), HasFree(blocks, RxBlocks)
    PROVE  HasFree(datas, RxBlocks)
<1> DEFINE B == Buffered(s)
           f == [b \in B |-> buffer[b]]
<1>1. B \subseteq blocks.used /\ blocks.used \subseteq 1..RxBlocks /\ datas.used = {buffer[b] : b \in B}
  BY BlockFacts, RxConstants DEF Holds, RxPools, Blocks
<1>2. IsFiniteSet(1..RxBlocks) /\ Cardinality(1..RxBlocks) = RxBlocks
  BY FS_Interval, RxConstants
<1>3. IsFiniteSet(B) /\ B \subseteq 1..RxBlocks /\ B # 1..RxBlocks
  BY <1>1, <1>2, FS_Subset DEF HasFree
<1> HIDE DEF B
<1>4. f \in Surjection(B, datas.used)
  BY <1>1 DEF Surjection
<1>5. IsFiniteSet(datas.used) /\ Cardinality(datas.used) <= Cardinality(B)
  BY <1>3, <1>4, FS_Surjection
<1>6. Cardinality(B) \in Nat /\ Cardinality(B) <= RxBlocks /\ Cardinality(B) # RxBlocks
  BY <1>2, <1>3, FS_Subset, FS_CardinalityType
<1>7. ASSUME datas.used = 1..RxBlocks PROVE FALSE
  <2>1. RxBlocks <= Cardinality(B)
    BY <1>2, <1>5, <1>7
  <2> QED
    BY <1>6, <2>1, RxConstants
<1> QED
  BY <1>7 DEF HasFree

\* The interrupt takes a block and a buffer that are free.
LEMMA ArmTakes ==
    ASSUME NEW bpool \in Pools(RxBlocks), HasFree(bpool, RxBlocks),
           NEW dpool \in Pools(RxBlocks), HasFree(dpool, RxBlocks),
           NEW rest, Arm(rest, bpool, dpool)
    PROVE  \E b \in Items : \E d \in Items :
              /\ list' = Detached(rest, b)
              /\ current' = b /\ b \notin bpool.used /\ d \notin dpool.used
              /\ blocks' \in Pools(RxBlocks) /\ blocks'.used = bpool.used \cup {b}
              /\ datas' \in Pools(RxBlocks) /\ datas'.used = dpool.used \cup {d}
              /\ buffer' = [buffer EXCEPT ![b] = d]
<1> DEFINE b == FreeItem(bpool, RxBlocks)
           d == FreeItem(dpool, RxBlocks)
<1>1. /\ b \in Items /\ b \notin bpool.used
      /\ Alloc(bpool, RxBlocks) \in Pools(RxBlocks)
      /\ Alloc(bpool, RxBlocks).used = bpool.used \cup {b}
  BY AllocTakes, RxConstants
<1>2. /\ d \in Items /\ d \notin dpool.used
      /\ Alloc(dpool, RxBlocks) \in Pools(RxBlocks)
      /\ Alloc(dpool, RxBlocks).used = dpool.used \cup {d}
  BY AllocTakes, RxConstants
<1>3. /\ list' = Detached(rest, b)
      /\ current' = b /\ blocks' = Alloc(bpool, RxBlocks) /\ datas' = Alloc(dpool, RxBlocks)
      /\ buffer' = [buffer EXCEPT ![b] = d]
  BY DEF Arm
<1> QED
  BY <1>1, <1>2, <1>3

--------------------------------------------------------------------------------
(* RxInv holds at first, and every step keeps it.                             *)

LEMMA InitRx == Init => RxIntact
<1> SUFFICES ASSUME Init PROVE RxIntact
  OBVIOUS
<1>1. <<>> \in Chains(RxBlocks) /\ ElementsOf(<<>>) = {}
  BY EmptyChain, RxConstants
<1>2. /\ list \in Lists(RxBlocks) /\ Linked(list, <<>>) /\ BackLinked(list, <<>>)
  BY EmptyListLinks, RxConstants DEF Init
<1>3. PICK p \in FreshPools(RxBlocks), q \in FreshPools(RxBlocks) :
        /\ current = FreeItem(p, RxBlocks)
        /\ blocks = Alloc(p, RxBlocks)
        /\ datas = Alloc(q, RxBlocks)
        /\ buffer = [b \in Items |-> IF b = FreeItem(p, RxBlocks) THEN FreeItem(q, RxBlocks) ELSE Null]
  BY DEF Init
<1> DEFINE b == FreeItem(p, RxBlocks)
           d == FreeItem(q, RxBlocks)
<1>4. /\ p \in Pools(RxBlocks) /\ p.used = {} /\ q \in Pools(RxBlocks) /\ q.used = {}
      /\ HasFree(p, RxBlocks) /\ HasFree(q, RxBlocks)
  <2>1. ASSUME NEW r \in FreshPools(RxBlocks) PROVE r \in Pools(RxBlocks) /\ r.used = {}
    BY <2>1 DEF FreshPools, Pools
  <2>2. 1 \in 1..RxBlocks
    BY RxConstants
  <2> QED
    BY <2>1, <2>2 DEF HasFree
<1>5. b \in Items /\ blocks \in Pools(RxBlocks) /\ blocks.used = {b}
  BY <1>3, <1>4, AllocTakes, RxConstants
<1>6. d \in Items /\ datas \in Pools(RxBlocks) /\ datas.used = {d}
  BY <1>3, <1>4, AllocTakes, RxConstants
<1>7. /\ current = b /\ buffer = [c \in Items |-> IF c = b THEN d ELSE Null]
  BY <1>3
<1> HIDE DEF b, d
<1>8. /\ size = [c \in Items |-> 0] /\ fill = 0
      /\ content = [c \in Items |-> [i \in 1..BufUnits |-> 0]]
      /\ fresh = FALSE /\ arrived = 0 /\ dropped = {} /\ parsed = <<>>
      /\ sem = 0 /\ indicate = FALSE /\ pc = "start" /\ node = Null /\ last = Null
      /\ survives \in BOOLEAN /\ torn = FALSE
  BY DEF Init
<1>9. TypeOK
  <2>1. buffer \in [Items -> Items \cup {Null}]
    BY <1>6, <1>7
  <2>2. size \in [Items -> 0..BufUnits] /\ fill \in 0..(BufUnits - 1)
    BY <1>8, RxConstants
  <2>3. content \in [Items -> [1..BufUnits -> 0..MaxUnits]]
    BY <1>8, RxConstants
  <2>4. arrived \in 0..MaxUnits /\ dropped \subseteq Units /\ parsed \in Seq(0..MaxUnits)
    BY <1>8, RxConstants
  <2> QED
    BY <1>2, <1>5, <1>6, <1>7, <1>8, <2>1, <2>2, <2>3, <2>4 DEF TypeOK
<1>10. RxList(<<>>)
  BY <1>2, <1>8 DEF RxList
<1>11. RxPools(<<>>)
  <2>1. Taken = {} /\ Buffered(<<>>) = {b}
    BY <1>1, <1>7, <1>8 DEF Taken, Buffered
  <2>2. buffer[b] = d /\ d # Null /\ b # Null
    BY <1>5, <1>6, <1>7, RxConstants
  <2> QED
    BY <1>1, <1>5, <1>6, <1>7, <1>8, <2>1, <2>2 DEF RxPools
<1>12. RxUnits(<<>>)
  <2>1. UnitsOf(current) = {}
    BY <1>8 DEF UnitsOf, UnitsIn
  <2>2. ToSet(parsed) = {} /\ 1..arrived = {}
    BY <1>8 DEF ToSet
  <2>3. \A c \in Items : \A i \in 1..BufUnits : content[c][i] <= arrived
    BY <1>8
  <2> QED
    BY <1>1, <1>8, <2>1, <2>2, <2>3 DEF RxUnits
<1> QED
  BY <1>1, <1>8, <1>9, <1>10, <1>11, <1>12 DEF RxIntact

\* The blocks whose units are not parsed yet, and their units.
Unparsed(s) == ElementsOf(s) \cup {current} \cup (IF pc = "parse" THEN {node} ELSE {})
UnparsedUnits(s) == UNION {UnitsOf(b) : b \in Unparsed(s)}

LEMMA UnparsedFacts ==
    ASSUME TypeOK, NEW s \in Chains(RxBlocks), Holds(s)
    PROVE  /\ Unparsed(s) \subseteq Buffered(s) /\ Unparsed(s) \subseteq Items /\ current \in Unparsed(s)
           /\ 1..arrived = (ToSet(parsed) \ {0}) \cup dropped \cup UnparsedUnits(s)
<1>1. Unparsed(s) \subseteq Buffered(s)
  BY DEF Unparsed, Buffered, Taken
<1>2. Unparsed(s) \subseteq Items
  BY <1>1, BlockFacts
<1>3. 1..arrived = (ToSet(parsed) \ {0}) \cup dropped \cup UnparsedUnits(s)
  BY DEF Holds, RxUnits, UnparsedUnits, Unparsed
<1> QED
  BY <1>1, <1>2, <1>3 DEF Unparsed

LEMMA ArriveKeeps ==
    ASSUME TypeOK, NEW s \in Chains(RxBlocks), Holds(s), Arrive
    PROVE  TypeOK' /\ Holds(s)'
<1> DEFINE d == buffer[current]
           a == arrived + 1
           F == Unparsed(s)
<1>1. /\ arrived < MaxUnits /\ arrived' = a /\ fresh' = TRUE
      /\ content' = [content EXCEPT ![d][fill + 1] = a]
      /\ IF fill + 1 < BufUnits
         THEN fill' = fill + 1 /\ dropped' = dropped
         ELSE fill' = 0 /\ dropped' = dropped \cup UnitsIn(d, fill) \cup {a}
      /\ UNCHANGED <<survives, list, blocks, datas, buffer, size, current, parsed, sem, indicate, pc, node, last, torn>>
  BY DEF Arrive
<1>2. /\ d \in Items /\ current \in Buffered(s) /\ current \in F
      /\ F \subseteq Buffered(s) /\ F \subseteq Items
      /\ \A b \in F : buffer[b] \in Items /\ (b # current => buffer[b] # d)
  BY BlockFacts, UnparsedFacts DEF Holds, RxPools, Buffered
<1>3. /\ arrived \in Nat /\ a \in 1..MaxUnits /\ a \in Units /\ arrived <= a
      /\ fill \in Nat /\ fill + 1 \in 1..BufUnits /\ fill < BufUnits
  BY <1>1, RxConstants DEF TypeOK
<1> HIDE DEF d, a, F
<1>4. /\ content' \in [Items -> [1..BufUnits -> 0..MaxUnits]]
      /\ \A c \in Items : \A i \in 1..BufUnits :
            content'[c][i] = IF c = d /\ i = fill + 1 THEN a ELSE content[c][i]
  <2>1. content \in [Items -> [1..BufUnits -> 0..MaxUnits]] /\ a \in 0..MaxUnits
    BY <1>3 DEF TypeOK
  <2> QED
    BY <1>1, <1>2, <1>3, <2>1
<1>5. UnitsIn(d, fill) \subseteq 1..arrived /\ UnitsIn(d, fill) = UnitsOf(current)
  <2>1. UnitsIn(d, fill) = UnitsOf(current)
    BY DEF UnitsOf, d
  <2>2. UnitsOf(current) \subseteq UnparsedUnits(s)
    BY <1>2 DEF UnparsedUnits, F
  <2> QED
    BY <2>1, <2>2, UnparsedFacts
<1>6. TypeOK'
  <2>1. dropped' \subseteq Units /\ fill' \in 0..(BufUnits - 1)
    <3>1. 1..arrived \subseteq Units
      BY <1>1, <1>3, RxConstants
    <3>2. dropped' \subseteq Units
      <4>1. dropped \subseteq Units
        BY DEF TypeOK
      <4> QED
        BY <1>1, <1>3, <1>5, <3>1, <4>1
    <3>3. fill' \in 0..(BufUnits - 1)
      <4>1. 0 \in 0..(BufUnits - 1) /\ (fill + 1 < BufUnits => fill + 1 \in 0..(BufUnits - 1))
        BY <1>3, RxConstants
      <4> QED
        BY <1>1, <4>1
    <3> QED
      BY <3>2, <3>3
  <2>2. arrived' \in 0..MaxUnits /\ fresh' \in BOOLEAN
    BY <1>1, <1>3
  <2> QED
    BY <1>1, <1>4, <2>1, <2>2 DEF TypeOK
<1>7. RxList(s)' /\ RxPools(s)'
  BY <1>1 DEF Holds, RxList, RxPools, Buffered, Taken
<1>8. \A c \in Items : \A i \in 1..BufUnits : content'[c][i] <= arrived'
  <2>1. SUFFICES ASSUME NEW c \in Items, NEW i \in 1..BufUnits PROVE content'[c][i] <= a
    BY <1>1
  <2>2. content[c][i] <= arrived /\ content[c][i] \in 0..MaxUnits
    BY DEF Holds, RxUnits, TypeOK
  <2>3. content[c][i] <= a
    BY <1>3, <2>2 DEF a
  <2> QED
    BY <1>3, <1>4, <2>3
<1>9. \A b \in F : b # current => UnitsOf(b)' = UnitsOf(b)
  <2>1. SUFFICES ASSUME NEW b \in F, b # current PROVE UnitsOf(b)' = UnitsOf(b)
    OBVIOUS
  <2>2. UnitsOf(b) = UnitsIn(buffer[b], size[b]) /\ UnitsOf(b)' = UnitsIn(buffer[b], size[b])'
    BY <1>1, <2>1 DEF UnitsOf
  <2>3. \A i \in 1..size[b] : i \in 1..BufUnits
    BY <1>2, RxConstants DEF TypeOK
  <2>4. \A i \in 1..size[b] : content'[buffer[b]][i] = content[buffer[b]][i]
    BY <1>2, <1>4, <2>1, <2>3
  <2>5. UnitsIn(buffer[b], size[b])' = UnitsIn(buffer[b], size[b])
    BY <1>1, <2>4 DEF UnitsIn
  <2> QED
    BY <2>2, <2>5
<1>10. F = Unparsed(s)' /\ F = Unparsed(s)
  BY <1>1 DEF Unparsed, F
<1>11. CASE fill + 1 < BufUnits
  <2>1. UnitsOf(current)' = UnitsOf(current) \cup {a}
    <3>1. UnitsOf(current)' = {content'[d][i] : i \in 1..(fill + 1)} \ {0}
      BY <1>1, <1>11 DEF UnitsOf, UnitsIn, d
    <3>2. UnitsOf(current) = {content[d][i] : i \in 1..fill} \ {0}
      BY DEF UnitsOf, UnitsIn, d
    <3>3. \A i \in 1..fill : content'[d][i] = content[d][i]
      <4>1. \A i \in 1..fill : i \in 1..BufUnits /\ i # fill + 1
        BY <1>3, RxConstants
      <4> QED
        BY <1>2, <1>4, <4>1
    <3>4. content'[d][fill + 1] = a /\ a # 0
      BY <1>2, <1>3, <1>4
    <3>5. 1..(fill + 1) = 1..fill \cup {fill + 1}
      BY <1>3
    <3>6. {content'[d][i] : i \in 1..(fill + 1)} = {content'[d][i] : i \in 1..fill} \cup {a}
      BY <3>4, <3>5
    <3>7. {content'[d][i] : i \in 1..fill} = {content[d][i] : i \in 1..fill}
      BY <3>3
    <3> QED
      BY <3>1, <3>2, <3>4, <3>6, <3>7
  <2>2. UnparsedUnits(s)' = UnparsedUnits(s) \cup {a}
    <3>1. UnparsedUnits(s)' = UNION {UnitsOf(b)' : b \in F} /\ UnparsedUnits(s) = UNION {UnitsOf(b) : b \in F}
      BY <1>10 DEF UnparsedUnits
    <3>2. \A b \in F : UnitsOf(b)' = IF b = current THEN UnitsOf(b) \cup {a} ELSE UnitsOf(b)
      BY <1>1, <1>9, <2>1
    <3> QED
      BY <1>2, <3>1, <3>2
  <2>3. 1..a = 1..arrived \cup {a}
    BY <1>3 DEF a
  <2>4. 1..arrived' = (ToSet(parsed') \ {0}) \cup dropped' \cup UnparsedUnits(s)'
    BY <1>1, <1>11, <2>2, <2>3, UnparsedFacts
  <2>5. RxUnits(s)'
    BY <1>8, <2>4 DEF RxUnits, UnparsedUnits, Unparsed
  <2> QED
    BY <1>6, <1>7, <2>5 DEF Holds
<1>12. CASE ~(fill + 1 < BufUnits)
  <2>1. UnitsOf(current)' = {}
    BY <1>1, <1>12 DEF UnitsOf, UnitsIn
  <2>2. UnparsedUnits(s)' \cup UnitsOf(current) = UnparsedUnits(s)
    <3>1. UnparsedUnits(s)' = UNION {UnitsOf(b)' : b \in F} /\ UnparsedUnits(s) = UNION {UnitsOf(b) : b \in F}
      BY <1>10 DEF UnparsedUnits
    <3>2. \A b \in F : UnitsOf(b)' = IF b = current THEN {} ELSE UnitsOf(b)
      BY <1>1, <1>9, <2>1
    <3> QED
      BY <1>2, <3>1, <3>2
  <2>3. 1..a = 1..arrived \cup {a}
    BY <1>3 DEF a
  <2>4. 1..arrived' = (ToSet(parsed') \ {0}) \cup dropped' \cup UnparsedUnits(s)'
    BY <1>1, <1>5, <1>12, <2>2, <2>3, UnparsedFacts
  <2>5. RxUnits(s)'
    BY <1>8, <2>4 DEF RxUnits, UnparsedUnits, Unparsed
  <2> QED
    BY <1>6, <1>7, <2>5 DEF Holds
<1> QED
  BY <1>11, <1>12

\* The blocks of the list after the interrupt: the current one is the last, and
\* when no block was free the oldest one is given up.
Appended(s, w) ==
    LET t == Append(s, current)
    IN  \/ w = t /\ UNCHANGED dropped
        \/ /\ w = Tail(t) /\ ElementsOf(w) = ElementsOf(t) \ {t[1]} /\ t[1] \in ElementsOf(t)
           /\ dropped' = dropped \cup UnitsIn(buffer[t[1]], size'[t[1]])

LEMMA InterruptArms ==
    ASSUME TypeOK, NEW s \in Chains(RxBlocks), Holds(s), IdleInterrupt, ~torn'
    PROVE  \E w \in Chains(RxBlocks) : \E b \in Items : \E d \in Items :
              /\ list' \in Lists(RxBlocks) /\ Linked(list', w) /\ BackLinked(list', w)
              /\ ElementsOf(w) \subseteq ElementsOf(s) \cup {current}
              /\ current' = b /\ b \notin ElementsOf(w) \cup Taken
              /\ d \notin {buffer[c] : c \in ElementsOf(w) \cup Lent}
              /\ blocks' \in Pools(RxBlocks) /\ blocks'.used = ElementsOf(w) \cup Taken \cup {b}
              /\ datas' \in Pools(RxBlocks)
              /\ datas'.used = {buffer[c] : c \in ElementsOf(w) \cup Lent} \cup {d}
              /\ buffer' = [buffer EXCEPT ![b] = d]
              /\ Appended(s, w)
<1> DEFINE a == DLAppend(list, current)
           t == Append(s, current)
<1>1. /\ pc # "sethead" /\ Receive
      /\ UNCHANGED <<pc, node>>
  BY DEF IdleInterrupt, Tears
<1>2. /\ current \in Items /\ current \notin ElementsOf(s) \cup Taken /\ ElementsOf(s) \subseteq Items
      /\ Taken \subseteq Items /\ ElementsOf(s) \cap Taken = {} /\ Lent \subseteq Taken
      /\ blocks.used = ElementsOf(s) \cup {current} \cup Taken
      /\ datas.used = {buffer[c] : c \in ElementsOf(s) \cup {current} \cup Lent}
      /\ \A c \in ElementsOf(s) \cup {current} \cup Lent : buffer[c] # Null
      /\ \A c, f \in ElementsOf(s) \cup {current} \cup Lent : buffer[c] = buffer[f] => c = f
      /\ list \in Lists(RxBlocks) /\ Linked(list, s) /\ BackLinked(list, s)
      /\ blocks \in Pools(RxBlocks) /\ datas \in Pools(RxBlocks)
  BY <1>1, BlockFacts DEF Holds, RxPools, RxList, Buffered, Lent, TypeOK
<1>3. /\ t \in Chains(RxBlocks) /\ ElementsOf(t) = ElementsOf(s) \cup {current} /\ t # <<>>
      /\ a \in Lists(RxBlocks) /\ Linked(a, t) /\ BackLinked(a, t)
  <2>1. /\ t \in Chains(RxBlocks) /\ ElementsOf(t) = ElementsOf(s) \cup {current}
        /\ Len(t) = Len(s) + 1
    BY <1>2, ChainAppend, RxConstants
  <2>2. Len(s) \in Nat
    BY ChainFacts, RxConstants
  <2>3. t # <<>>
    <3>1. Len(t) # 0
      BY <2>1, <2>2
    <3> HIDE DEF t
    <3> QED
      BY <3>1
  <2>4. a \in Lists(RxBlocks) /\ Linked(a, t) /\ BackLinked(a, t)
    BY <1>2, AppendLinks, RxConstants
  <2> QED
    BY <2>1, <2>3, <2>4
<1> HIDE DEF a, t
<1>4. a.head = t[1] /\ t[1] \in ElementsOf(t)
  <2>1. a.head = t[1] /\ 1 \in DOMAIN t
    BY <1>3, HeadAndLast, RxConstants
  <2> QED
    BY <2>1 DEF ElementsOf
<1>5. CASE HasFree(blocks, RxBlocks)
  <2>1. Arm(a, blocks, datas) /\ UNCHANGED dropped
    BY <1>1, <1>5 DEF Receive, a
  <2>2. HasFree(datas, RxBlocks)
    BY <1>5, BufferLeft
  <2>3. PICK b \in Items, d \in Items :
              /\ list' = Detached(a, b)
              /\ current' = b /\ b \notin blocks.used /\ d \notin datas.used
              /\ blocks' \in Pools(RxBlocks) /\ blocks'.used = blocks.used \cup {b}
              /\ datas' \in Pools(RxBlocks) /\ datas'.used = datas.used \cup {d}
              /\ buffer' = [buffer EXCEPT ![b] = d]
    BY <1>2, <1>5, <2>1, <2>2, ArmTakes
  <2>4. Appended(s, t)
    BY <2>1 DEF Appended, t
  <2>5. b \notin ElementsOf(t)
    BY <1>2, <1>3, <2>3
  <2>6. list' \in Lists(RxBlocks) /\ Linked(list', t) /\ BackLinked(list', t)
    BY <1>3, <2>3, <2>5, DetachedKeeps, RxConstants
  <2> t \in Chains(RxBlocks)
    BY <1>3
  <2> WITNESS t \in Chains(RxBlocks)
  <2> WITNESS b \in Items
  <2> WITNESS d \in Items
  <2>7. /\ ElementsOf(t) \cup Taken = ElementsOf(s) \cup {current} \cup Taken
        /\ ElementsOf(t) \cup Lent = ElementsOf(s) \cup {current} \cup Lent
    BY <1>3
  <2> QED
    BY <1>2, <1>3, <2>3, <2>4, <2>6, <2>7
<1>6. CASE ~HasFree(blocks, RxBlocks)
  <2> DEFINE o == t[1]
             u == Tail(t)
             l == DLDelete(a, a.head)
             bp == Free(blocks, o)
             dp == Free(datas, buffer[o])
  <2>1. /\ Arm(l, bp, dp)
        /\ dropped' = dropped \cup UnitsIn(buffer[o], size'[o])
    BY <1>1, <1>4, <1>6 DEF Receive, a
  <2>2. /\ u \in Chains(RxBlocks) /\ ElementsOf(u) = ElementsOf(t) \ {o}
        /\ l \in Lists(RxBlocks) /\ Linked(l, u) /\ BackLinked(l, u)
    BY <1>3, ChainTail, DeleteFirstLinks, RxConstants
  <2>3. /\ bp \in Pools(RxBlocks) /\ bp.used = blocks.used \ {o}
        /\ dp \in Pools(RxBlocks) /\ dp.used = datas.used \ {buffer[o]}
    BY <1>2, FreeGives, RxConstants
  <2>4. Appended(s, u)
    BY <1>4, <2>1, <2>2 DEF Appended, t
  <2>5. o \in ElementsOf(s) \cup {current} /\ buffer[o] \in Items
    BY <1>2, <1>3, <1>4 DEF TypeOK
  <2> HIDE DEF o, u, l, bp, dp
  <2>6. HasFree(bp, RxBlocks) /\ HasFree(dp, RxBlocks)
    BY <1>2, <2>3, <2>5, RxConstants DEF HasFree
  <2>7. PICK b \in Items, d \in Items :
              /\ list' = Detached(l, b)
              /\ current' = b /\ b \notin bp.used /\ d \notin dp.used
              /\ blocks' \in Pools(RxBlocks) /\ blocks'.used = bp.used \cup {b}
              /\ datas' \in Pools(RxBlocks) /\ datas'.used = dp.used \cup {d}
              /\ buffer' = [buffer EXCEPT ![b] = d]
    BY <2>1, <2>3, <2>6, ArmTakes
  <2>8. /\ ElementsOf(u) \cup Taken = (ElementsOf(s) \cup {current} \cup Taken) \ {o}
        /\ ElementsOf(u) \cup Lent = (ElementsOf(s) \cup {current} \cup Lent) \ {o}
        /\ ElementsOf(u) \subseteq ElementsOf(s) \cup {current}
    BY <1>2, <1>3, <2>2, <2>5
  <2>9. bp.used = ElementsOf(u) \cup Taken
    BY <1>2, <2>3, <2>8
  <2>10. dp.used = {buffer[c] : c \in ElementsOf(u) \cup Lent}
    <3> DEFINE B == ElementsOf(s) \cup {current} \cup Lent
    <3>1. o \in B /\ datas.used = {buffer[c] : c \in B} /\ \A c, f \in B : buffer[c] = buffer[f] => c = f
      BY <1>2, <2>5
    <3> HIDE DEF B
    <3>2. {buffer[c] : c \in B} \ {buffer[o]} = {buffer[c] : c \in B \ {o}}
      BY <3>1
    <3> QED
      BY <2>3, <2>8, <3>1, <3>2 DEF B
  <2>11. list' \in Lists(RxBlocks) /\ Linked(list', u) /\ BackLinked(list', u)
    <3>1. b \notin ElementsOf(u)
      BY <2>7, <2>9
    <3> QED
      BY <2>2, <2>7, <3>1, DetachedKeeps, RxConstants
  <2> u \in Chains(RxBlocks)
    BY <2>2
  <2> WITNESS u \in Chains(RxBlocks)
  <2> WITNESS b \in Items
  <2> WITNESS d \in Items
  <2> QED
    BY <2>2, <2>4, <2>7, <2>8, <2>9, <2>10, <2>11
<1> QED
  BY <1>5, <1>6

\* The places of a buffer hold units that arrived.
LEMMA UnitsArrived ==
    ASSUME TypeOK, NEW s, RxUnits(s), NEW d \in Items, NEW n \in 0..BufUnits
    PROVE  UnitsIn(d, n) \subseteq 1..arrived
<1>1. SUFFICES ASSUME NEW i \in 1..n, content[d][i] # 0 PROVE content[d][i] \in 1..arrived
  BY DEF UnitsIn
<1>2. i \in 1..BufUnits
  BY RxConstants
<1>3. content[d][i] \in 0..MaxUnits /\ content[d][i] <= arrived /\ arrived \in Nat
  <2>1. content \in [Items -> [1..BufUnits -> 0..MaxUnits]] /\ arrived \in Nat
    BY RxConstants DEF TypeOK
  <2>2. content[d][i] <= arrived
    BY <1>2 DEF RxUnits
  <2> QED
    BY <1>2, <2>1, <2>2
<1> QED
  BY <1>1, <1>3, RxConstants

LEMMA InterruptKeeps ==
    ASSUME TypeOK, NEW s \in Chains(RxBlocks), Holds(s), IdleInterrupt, ~torn'
    PROVE  TypeOK' /\ \E w \in Chains(RxBlocks) :
              Appended(s, w) /\ Holds(w)' /\ \A c \in ElementsOf(w) \cup Taken : buffer'[c] = buffer[c]
<1>1. /\ pc # "sethead" /\ (pc \in {"unlink", "relink"} => list'.head = node) /\ fresh' = FALSE
      /\ size' = [size EXCEPT ![current] = Counted] /\ fill' = 0
      /\ sem' \in {0, sem, 1} /\ torn' \in BOOLEAN
      /\ UNCHANGED <<survives, content, arrived, parsed, indicate, pc, node, last>>
  BY DEF IdleInterrupt, Tears, Receive, Indicate
<1>2. PICK w \in Chains(RxBlocks), b \in Items, d \in Items :
              /\ list' \in Lists(RxBlocks) /\ Linked(list', w) /\ BackLinked(list', w)
              /\ ElementsOf(w) \subseteq ElementsOf(s) \cup {current}
              /\ current' = b /\ b \notin ElementsOf(w) \cup Taken
              /\ d \notin {buffer[c] : c \in ElementsOf(w) \cup Lent}
              /\ blocks' \in Pools(RxBlocks) /\ blocks'.used = ElementsOf(w) \cup Taken \cup {b}
              /\ datas' \in Pools(RxBlocks)
              /\ datas'.used = {buffer[c] : c \in ElementsOf(w) \cup Lent} \cup {d}
              /\ buffer' = [buffer EXCEPT ![b] = d]
              /\ Appended(s, w)
  BY InterruptArms
<1> DEFINE V == Unparsed(s)
           P == IF pc = "parse" THEN {node} ELSE {}
           E == ElementsOf(w)
           N(c) == UnitsIn(buffer[c], size'[c])
<1>3. /\ V = ElementsOf(s) \cup {current} \cup P /\ V \subseteq Items /\ current \in Items
      /\ Taken \subseteq Items /\ P \subseteq Taken /\ E \cup Taken \subseteq Blocks(s)
      /\ Taken' = Taken /\ Lent \subseteq Taken /\ V \subseteq Buffered(s)
  BY <1>1, <1>2, BlockFacts, UnparsedFacts DEF Unparsed, Blocks, Taken, Lent
<1>4. Counted \in 0..BufUnits /\ fill <= Counted /\ fill \in Nat
  BY RxConstants DEF Counted, TypeOK
<1>5. /\ size' \in [Items -> 0..BufUnits]
      /\ \A c \in Items : size'[c] = IF c = current THEN Counted ELSE size[c]
  BY <1>1, <1>3, <1>4 DEF TypeOK
<1>6. /\ buffer' \in [Items -> Items \cup {Null}] /\ buffer'[b] = d /\ d # Null
      /\ \A c \in E \cup Taken : buffer'[c] = buffer[c] /\ c # b
  <2>1. E \cup Taken \subseteq Items
    BY <1>3, BlockFacts
  <2> QED
    BY <1>2, <2>1, RxConstants DEF TypeOK
<1>7. \A c \in V : UnitsOf(c) \subseteq N(c) /\ N(c) \subseteq 1..arrived
  <2>1. SUFFICES ASSUME NEW c \in V PROVE UnitsOf(c) \subseteq N(c) /\ N(c) \subseteq 1..arrived
    OBVIOUS
  <2>2. c \in Items /\ buffer[c] \in Items /\ size'[c] \in 0..BufUnits
    BY <1>3, <1>5, BlockFacts
  <2>3. N(c) \subseteq 1..arrived
    BY <2>2, UnitsArrived DEF Holds
  <2>4. UnitsOf(c) \subseteq N(c)
    <3>1. CASE c = current
      <4>1. \A i \in 1..fill : i \in 1..Counted
        BY <1>4, RxConstants
      <4>2. UnitsOf(c) = UnitsIn(buffer[c], fill) /\ N(c) = UnitsIn(buffer[c], Counted)
        BY <1>5, <2>2, <3>1 DEF UnitsOf
      <4> QED
        BY <4>1, <4>2 DEF UnitsIn
    <3>2. CASE c # current
      BY <1>5, <2>2, <3>2 DEF UnitsOf
    <3> QED
      BY <3>1, <3>2
  <2> QED
    BY <2>3, <2>4
<1>8. dropped' \subseteq Units /\ (dropped' = dropped \/ \E o \in V : dropped' = dropped \cup N(o))
  <2>1. dropped' = dropped \/ \E o \in ElementsOf(Append(s, current)) : dropped' = dropped \cup N(o)
    BY <1>2 DEF Appended
  <2>2. ElementsOf(Append(s, current)) = ElementsOf(s) \cup {current}
    BY <1>3, ChainAppend, RxConstants DEF Holds, RxPools
  <2>3. dropped' = dropped \/ \E o \in V : dropped' = dropped \cup N(o)
    BY <1>3, <2>1, <2>2
  <2>4. dropped \subseteq Units /\ 1..arrived \subseteq Units
    BY RxConstants DEF TypeOK
  <2> HIDE DEF N
  <2> QED
    BY <1>7, <2>3, <2>4
<1>9. TypeOK'
  <2>1. fill' \in 0..(BufUnits - 1) /\ sem' \in {0, 1}
    BY <1>1, RxConstants DEF TypeOK
  <2> QED
    BY <1>1, <1>2, <1>5, <1>6, <1>8, <2>1 DEF TypeOK
<1>10. RxList(w)'
  <2>1. pc \in {"unlink", "relink"} => w # <<>> /\ node = w[1]
    <3>1. pc \in {"unlink", "relink"} => node \in Items /\ list'.head = node
      BY <1>1, BlockFacts
    <3>2. list'.head = IF w = <<>> THEN NullPtr ELSE w[1]
      BY <1>2 DEF Linked
    <3>3. NullPtr \notin Items
      BY RxConstants DEF NullPtr
    <3> QED
      BY <3>1, <3>2, <3>3
  <2>2. pc = "relink" => last # node /\ Len(s) > 1
    <3>1. pc = "relink" => Len(s) > 1 /\ (last = node <=> Len(s) = 1)
      BY DEF Holds, RxList
    <3>2. Len(s) > 1 => Len(s) # 1
      <4>1. Len(s) \in Nat
        BY ChainFacts, RxConstants
      <4> QED
        BY <4>1, MoreThanOne
    <3> QED
      BY <3>1, <3>2
  <2>3. Len(w) \in Nat /\ Len(s) \in Nat /\ Len(s) <= Len(w)
    <3>1. s \in Seq(Items) /\ current \in Items /\ Len(s) \in Nat /\ Len(w) \in Nat
      BY <1>3, ChainFacts, RxConstants
    <3>2. w = Append(s, current) \/ w = Tail(Append(s, current))
      BY <1>2 DEF Appended
    <3> DEFINE t == Append(s, current)
    <3>3. t \in Seq(Items) /\ Len(t) = Len(s) + 1
      BY <3>1
    <3> HIDE DEF t
    <3>4. Len(Tail(t)) = Len(t) - 1
      BY <3>1, <3>3
    <3> QED
      BY <3>1, <3>2, <3>3, <3>4 DEF t
  <2>4. Len(s) > 1 => Len(w) > 1 /\ Len(w) # 1
    BY <2>3, MoreThanOne
  <2>5. pc' # "sethead" /\ pc' = pc /\ node' = node /\ last' = last
    BY <1>1
  <2> QED
    BY <1>2, <2>1, <2>2, <2>4, <2>5 DEF RxList
<1>11. RxPools(w)'
  <2>1. Buffered(w)' = E \cup Lent \cup {b}
    BY <1>1, <1>2, <1>3 DEF Buffered, Lent
  <2>2. current' # Null /\ (node' = Null <=> pc' \in {"start", "take", "head"})
    BY <1>1, <1>2, RxConstants DEF Holds, RxPools
  <2>3. E \cap Taken = {}
    BY <1>2 DEF Holds, RxPools
  <2>4. datas'.used = {buffer'[c] : c \in E \cup Lent \cup {b}}
    BY <1>2, <1>3, <1>6
  <2>5. \A c \in E \cup Lent : buffer[c] # Null /\ c \in Buffered(s)
    BY <1>1, <1>2 DEF Holds, RxPools, Buffered, Lent
  <2>6. \A c \in E \cup Lent \cup {b} : buffer'[c] # Null
    BY <1>3, <1>6, <2>5
  <2>7. \A c, f \in E \cup Lent \cup {b} : buffer'[c] = buffer'[f] => c = f
    <3>1. \A c, f \in E \cup Lent : buffer[c] = buffer[f] => c = f
      BY <2>5 DEF Holds, RxPools
    <3>2. \A c \in E \cup Lent : buffer[c] # d
      BY <1>2
    <3> QED
      BY <1>3, <1>6, <3>1, <3>2
  <2> QED
    BY <1>2, <1>3, <2>1, <2>2, <2>3, <2>4, <2>6, <2>7 DEF RxPools
<1>12. RxUnits(w)'
  <2>1. Unparsed(w)' = E \cup P \cup {b}
    BY <1>1, <1>2 DEF Unparsed
  <2>2. \A c \in E \cup P : UnitsOf(c)' = N(c)
    <3>1. SUFFICES ASSUME NEW c \in E \cup P PROVE UnitsOf(c)' = N(c)
      OBVIOUS
    <3>2. c \in E \cup Taken /\ c # current' /\ buffer'[c] = buffer[c]
      BY <1>2, <1>3, <1>6
    <3>3. UnitsOf(c)' = UnitsIn(buffer[c], size[c])'
      BY <3>2 DEF UnitsOf
    <3> QED
      BY <1>1, <3>2, <3>3 DEF UnitsIn
  <2>3. UnitsOf(b)' = {}
    <3>1. UnitsOf(b)' = UnitsIn(buffer[b], fill)'
      BY <1>2 DEF UnitsOf
    <3> QED
      BY <1>1, <3>1 DEF UnitsIn
  <2>4. UnparsedUnits(w)' = UNION {N(c) : c \in E \cup P}
    <3>1. UnparsedUnits(w)' = UNION {UnitsOf(c)' : c \in E \cup P \cup {b}}
      BY <2>1 DEF UnparsedUnits
    <3> HIDE DEF N, P, E
    <3>2. UNION {UnitsOf(c)' : c \in E \cup P \cup {b}} = UNION {UnitsOf(c)' : c \in E \cup P}
      BY <2>3
    <3>3. {UnitsOf(c)' : c \in E \cup P} = {N(c) : c \in E \cup P}
      BY <2>2
    <3> QED
      BY <3>1, <3>2, <3>3
  <2>5. 1..arrived = (ToSet(parsed) \ {0}) \cup dropped' \cup UNION {N(c) : c \in E \cup P}
    <3>1. UnparsedUnits(s) = UNION {UnitsOf(c) : c \in V}
      BY DEF UnparsedUnits
    <3>2. 1..arrived = (ToSet(parsed) \ {0}) \cup dropped \cup UnparsedUnits(s)
      BY UnparsedFacts
    <3>3. 1..arrived = (ToSet(parsed) \ {0}) \cup dropped \cup UNION {N(c) : c \in V}
      <4> HIDE DEF N, V
      <4> QED
        BY <1>7, <3>1, <3>2
    <3>4. ElementsOf(Append(s, current)) = ElementsOf(s) \cup {current}
      BY <1>3, ChainAppend, RxConstants DEF Holds, RxPools
    <3>5. CASE w = Append(s, current) /\ dropped' = dropped
      <4>1. E \cup P = V
        BY <1>3, <3>4, <3>5
      <4> QED
        BY <3>3, <3>5, <4>1
    <3>6. CASE w # Append(s, current) \/ dropped' # dropped
      <4>1. PICK o \in ElementsOf(s) \cup {current} :
                    E = (ElementsOf(s) \cup {current}) \ {o} /\ dropped' = dropped \cup N(o)
        BY <1>2, <3>4, <3>6 DEF Appended
      <4>2. (E \cup P) \cup {o} = V
        BY <1>3, <4>1
      <4> HIDE DEF N, V, E, P
      <4>3. UNION {N(c) : c \in V} = N(o) \cup UNION {N(c) : c \in E \cup P}
        BY <4>2
      <4> QED
        BY <3>3, <4>1, <4>3
    <3> QED
      BY <3>5, <3>6
  <2>6. \A c \in Items : \A i \in 1..BufUnits : content'[c][i] <= arrived'
    BY <1>1 DEF Holds, RxUnits
  <2> QED
    BY <1>1, <2>4, <2>5, <2>6 DEF RxUnits, UnparsedUnits, Unparsed
<1> QED
  BY <1>2, <1>6, <1>9, <1>10, <1>11, <1>12 DEF Holds

\* xlinkTask: until it has a block it only looks.
LEMMA LookKeeps ==
    ASSUME TypeOK, NEW s \in Chains(RxBlocks), Holds(s), Register \/ Take \/ ReadHead
    PROVE  TypeOK' /\ Holds(s)'
<1>1. /\ pc \in {"start", "take", "head"} /\ pc' \in {"take", "head", "unlink"}
      /\ sem' \in {0, 1} /\ indicate' \in BOOLEAN
      /\ UNCHANGED <<driver, fresh, ghosts, parsed, last, torn>>
  BY DEF Register, Take, ReadHead, Goto, TypeOK
<1>2. Linked(list, s) /\ BackLinked(list, s) /\ node = Null
  BY <1>1 DEF Holds, RxList, RxPools
<1>3. \/ pc' # "unlink" /\ node' = Null
      \/ pc' = "unlink" /\ s # <<>> /\ node' = s[1] /\ node' \in Items
  <2>1. CASE Register \/ Take
    BY <1>2, <2>1 DEF Register, Take, Goto
  <2>2. CASE ReadHead
    <3>1. node' = list.head /\ (list.head = Null => pc' = "take") /\ (list.head # Null => pc' = "unlink")
      BY <2>2 DEF ReadHead, Goto
    <3>2. list.head # Null => s # <<>> /\ list.head = s[1]
      BY <1>2 DEF Linked, NullPtr, Null
    <3>3. list.head \in Items \cup {Null}
      BY RxConstants DEF TypeOK, Lists, Null
    <3> QED
      BY <3>1, <3>2, <3>3
  <2> QED
    BY <2>1, <2>2
<1>4. TypeOK'
  BY <1>1, <1>3 DEF TypeOK, driver, ghosts
<1>5. Taken' = Taken /\ Taken = {}
  BY <1>1 DEF Taken
<1>6. RxList(s)'
  BY <1>1, <1>2, <1>3 DEF RxList, driver
<1>7. RxPools(s)'
  <2>1. node' = Null <=> pc' \in {"start", "take", "head"}
    BY <1>1, <1>3, RxConstants
  <2> QED
    BY <1>1, <1>5, <2>1 DEF Holds, RxPools, Buffered, driver
<1>8. RxUnits(s)'
  BY <1>1 DEF Holds, RxUnits, UnitsOf, UnitsIn, driver, ghosts
<1> QED
  BY <1>4, <1>6, <1>7, <1>8 DEF Holds

\* DL_DELETE of the head, statement by statement: the pools are not touched, ...
LEMMA UnlinkingKeeps ==
    ASSUME TypeOK, NEW s \in Chains(RxBlocks), Holds(s), Unlinking,
           pc \in {"unlink", "relink"}, pc' \in {"relink", "sethead"}
    PROVE  RxPools(s)' /\ RxUnits(s)'
<1>1. UNCHANGED <<blocks, datas, buffer, size, content, fill, current, arrived, dropped, parsed, node>>
  BY DEF Unlinking, ghosts
<1>2. Taken = {} /\ Taken' = {}
  BY DEF Taken
<1>3. RxPools(s)'
  BY <1>1, <1>2 DEF Holds, RxPools, Buffered
<1>4. RxUnits(s)'
  BY <1>1 DEF Holds, RxUnits, UnitsOf, UnitsIn
<1> QED
  BY <1>3, <1>4

\* ... the test tells whether the block is the only one, ...
LEMMA TestOnlyKeeps ==
    ASSUME TypeOK, NEW s \in Chains(RxBlocks), Holds(s), TestOnly
    PROVE  TypeOK' /\ Holds(s)'
<1>1. /\ pc = "unlink" /\ pc' = (IF list.prev[node] = node THEN "sethead" ELSE "relink")
      /\ last' = list.prev[node] /\ Unlinking /\ UNCHANGED <<list, torn>>
  BY DEF TestOnly, Goto
<1>2. /\ s # <<>> /\ node = s[1] /\ Linked(list, s) /\ BackLinked(list, s) /\ list \in Lists(RxBlocks)
  BY <1>1 DEF Holds, RxList, TypeOK
<1>3. /\ list.prev[node] = s[Len(s)] /\ s[Len(s)] \in Items /\ Len(s) \in Nat /\ Len(s) # 0
      /\ \A i, j \in 1..Len(s) : s[i] = s[j] => i = j
  BY <1>2, HeadAndLast, ChainFacts, RxConstants
<1>4. last' = node <=> Len(s) = 1
  <2>1. 1 \in 1..Len(s) /\ Len(s) \in 1..Len(s)
    BY <1>3
  <2> QED
    BY <1>1, <1>2, <1>3, <2>1
<1>5. TypeOK'
  BY <1>1, <1>3 DEF TypeOK, Unlinking, ghosts
<1>6. RxList(s)'
  <2>1. pc' = "sethead" => BackLinked(list, Tail(s))
    <3>1. ASSUME Len(s) = 1 PROVE BackLinked(list, Tail(s))
      <4>1. Tail(s) \in Chains(RxBlocks) /\ Len(Tail(s)) = 0
        BY <1>2, <3>1, ChainTail, RxConstants
      <4>2. ASSUME NEW t \in Chains(RxBlocks), Len(t) = 0 PROVE BackLinked(list, t)
        <5>1. DOMAIN t = 1..Len(t)
          BY ChainFacts, RxConstants
        <5>2. 1..0 = {}
          OBVIOUS
        <5> QED
          BY <4>2, <5>1, <5>2 DEF BackLinked
      <4> QED
        BY <4>1, <4>2
    <3> QED
      BY <1>1, <1>4, <3>1
  <2>2. pc' = "relink" => Len(s) > 1
    <3>1. pc' = "relink" => last' # node
      BY <1>1
    <3>2. Len(s) \in Nat /\ Len(s) # 0
      BY <1>3
    <3>3. pc' = "relink" => Len(s) # 1
      BY <1>4, <3>1
    <3> QED
      BY <3>2, <3>3, MoreThanOne
  <2>3. node' = node
    BY <1>1 DEF Unlinking
  <2> QED
    BY <1>1, <1>2, <1>4, <2>1, <2>2, <2>3 DEF RxList
<1>7. RxPools(s)' /\ RxUnits(s)'
  BY <1>1, UnlinkingKeeps
<1> QED
  BY <1>5, <1>6, <1>7 DEF Holds

\* ... the second block gets the pointer to the last one, which no block that
\* was appended since has changed, ...
LEMMA RelinkKeeps ==
    ASSUME TypeOK, NEW s \in Chains(RxBlocks), Holds(s), Relink, ~torn'
    PROVE  TypeOK' /\ Holds(s)' /\ pc' = "sethead"
<1>1. /\ pc = "relink" /\ Unlinking /\ UNCHANGED last
      /\ \E p \in {last, list.prev[node]} :
            /\ IF list.next[node] = Null THEN pc' = "fault" /\ UNCHANGED list
               ELSE pc' = "sethead" /\ list' = WithPrev(list, list.next[node], p)
            /\ torn' = (torn \/ p # list.prev[node])
  BY DEF Relink
<1>2. /\ s # <<>> /\ node = s[1] /\ Linked(list, s) /\ BackLinked(list, s) /\ list \in Lists(RxBlocks)
      /\ Len(s) > 1 /\ last # node
  <2>1. /\ s # <<>> /\ node = s[1] /\ Linked(list, s) /\ BackLinked(list, s) /\ list \in Lists(RxBlocks)
        /\ Len(s) > 1 /\ (last = node <=> Len(s) = 1)
    BY <1>1 DEF Holds, RxList, TypeOK
  <2>2. Len(s) > 1 => Len(s) # 1
    <3>1. Len(s) \in Nat
      BY ChainFacts, RxConstants
    <3> QED
      BY <3>1, MoreThanOne
  <2> QED
    BY <2>1, <2>2
<1>3. /\ Len(s) \in Nat /\ DOMAIN s = 1..Len(s) /\ \A k \in 1..Len(s) : s[k] \in Items
      /\ list.prev[node] = s[Len(s)] /\ s[Len(s)] \in Items
  BY <1>2, HeadAndLast, ChainFacts, RxConstants
<1>4. list.next[node] = s[2] /\ s[2] \in Items
  <2>1. 1 \in 1..Len(s) /\ 2 \in 1..Len(s) /\ Len(s) # 1
    BY <1>2, <1>3
  <2> QED
    BY <1>2, <1>3, <2>1 DEF Linked
<1>5. pc' = "sethead" /\ list' = WithPrev(list, s[2], s[Len(s)]) /\ torn' \in BOOLEAN
  <2>1. PICK p \in {last, list.prev[node]} :
            /\ IF list.next[node] = Null THEN pc' = "fault" /\ UNCHANGED list
               ELSE pc' = "sethead" /\ list' = WithPrev(list, list.next[node], p)
            /\ torn' = (torn \/ p # list.prev[node])
    BY <1>1
  <2>2. p = list.prev[node] /\ torn' \in BOOLEAN
    BY <2>1
  <2>3. list.next[node] # Null
    BY <1>4, RxConstants
  <2> QED
    BY <1>3, <1>4, <2>1, <2>2, <2>3
<1>6. /\ list' \in Lists(RxBlocks) /\ list'.head = list.head /\ list'.next = list.next
      /\ \A x \in 1..RxBlocks : list'.prev[x] = IF x = s[2] THEN s[Len(s)] ELSE list.prev[x]
  <2>1. /\ s[2] \in 1..RxBlocks /\ s[Len(s)] \in 0..RxBlocks
        /\ list \in Lists(RxBlocks) /\ RxBlocks \in Nat
    BY <1>2, <1>3, <1>4, RxConstants
  <2>2. ASSUME NEW y \in 1..RxBlocks, NEW z \in 0..RxBlocks, list' = WithPrev(list, y, z)
        PROVE  /\ list' \in Lists(RxBlocks) /\ list'.head = list.head /\ list'.next = list.next
               /\ \A x \in 1..RxBlocks : list'.prev[x] = IF x = y THEN z ELSE list.prev[x]
    BY <2>1, <2>2 DEF Lists, WithPrev
  <2> QED
    BY <1>5, <2>1, <2>2
<1>7. TypeOK'
  BY <1>1, <1>5, <1>6 DEF TypeOK, Unlinking, ghosts
<1>8. RxList(s)'
  <2>1. Linked(list', s)
    BY <1>2, <1>6, LinkedElsewhere
  <2>2. BackLinked(list', Tail(s))
    BY <1>2, <1>6, TailBackLinks, RxConstants
  <2>3. node' = node /\ last' = last /\ Len(s) # 1
    BY <1>1, <1>2, <1>3 DEF Unlinking
  <2> QED
    BY <1>2, <1>5, <2>1, <2>2, <2>3 DEF RxList
<1>9. RxPools(s)' /\ RxUnits(s)'
  BY <1>1, <1>5, UnlinkingKeeps
<1> QED
  BY <1>5, <1>7, <1>8, <1>9 DEF Holds

\* ... the head is still the block, so that it is not unlinked from between
\* two others, ...
LEMMA RelinkBetweenTears ==
    ASSUME TypeOK, NEW s \in Chains(RxBlocks), Holds(s)
    PROVE  ~RelinkBetween
<1>1. SUFFICES ASSUME pc = "relink" PROVE node = list.head
  BY DEF RelinkBetween
<1> QED
  BY <1>1 DEF Holds, RxList, Linked

\* ... and with the head the block leaves the list.
LEMMA SetHeadKeeps ==
    ASSUME TypeOK, NEW s \in Chains(RxBlocks), Holds(s), SetHead
    PROVE  TypeOK' /\ Holds(Tail(s))' /\ Tail(s) \in Chains(RxBlocks) /\ s # <<>> /\ node = s[1]
<1> DEFINE t == Tail(s)
           E == ElementsOf(s)
           h == IF last = node THEN Null ELSE list.next[node]
<1>1. /\ pc = "sethead" /\ pc' = "parse" /\ list' = WithHead(list, h) /\ last' = Null /\ torn' = torn
      /\ UNCHANGED <<survives, blocks, datas, buffer, size, content, fill, current, fresh, ghosts, parsed, sem, indicate, node>>
  BY DEF SetHead, Goto, Unlinking
<1>2. /\ s # <<>> /\ node = s[1] /\ Linked(list, s) /\ BackLinked(list, t) /\ list \in Lists(RxBlocks)
      /\ (last = node <=> Len(s) = 1)
  BY <1>1 DEF Holds, RxList, TypeOK
<1>3. /\ Len(s) \in Nat /\ Len(s) # 0 /\ DOMAIN s = 1..Len(s) /\ (\A k \in 1..Len(s) : s[k] \in Items)
      /\ 1 \in 1..Len(s) /\ node \in E
  <2>1. /\ Len(s) \in Nat /\ Len(s) # 0 /\ DOMAIN s = 1..Len(s) /\ \A k \in 1..Len(s) : s[k] \in Items
    BY <1>2, ChainFacts, RxConstants
  <2>2. 1 \in 1..Len(s)
    BY <2>1
  <2> QED
    BY <1>2, <2>1, <2>2 DEF ElementsOf
<1>4. t \in Chains(RxBlocks) /\ ElementsOf(t) = E \ {node} /\ Len(t) = Len(s) - 1
  BY <1>2, ChainTail, RxConstants
<1>5. h \in 0..RxBlocks
  BY <1>2, <1>3, RxConstants DEF Lists, Null
<1>6. list' \in Lists(RxBlocks) /\ list'.head = h /\ list'.next = list.next /\ list'.prev = list.prev
  BY <1>1, <1>2, <1>5 DEF Lists, WithHead
<1>7. BackLinked(list', t)
  BY <1>2, <1>6, BackLinkedElsewhere
<1>8. Linked(list', t)
  <2>1. CASE Len(s) = 1
    <3>1. h = Null
      BY <1>2, <2>1
    <3> HIDE DEF t, h
    <3>2. Len(t) = 0 /\ DOMAIN t = {} /\ t = <<>>
      <4>1. t \in Seq(1..RxBlocks) /\ DOMAIN t = 1..Len(t) /\ Len(t) = 0
        BY <1>4, <2>1, ChainFacts, RxConstants
      <4> QED
        BY <4>1
    <3> QED
      BY <1>6, <3>1, <3>2 DEF Linked, Null, NullPtr
  <2>2. CASE Len(s) # 1
    <3>1. Len(s) > 1 /\ 2 \in 1..Len(s)
      BY <1>3, <2>2
    <3>2. list.next[node] = s[2]
      BY <1>2, <1>3, <2>2 DEF Linked
    <3>3. list'.head = s[2]
      BY <1>2, <1>6, <2>2, <3>2
    <3> QED
      BY <1>2, <1>6, <3>1, <3>3, TailLinks, RxConstants
  <2> QED
    BY <2>1, <2>2
<1>9. Taken = {} /\ Taken' = {node}
  BY <1>1 DEF Taken
<1> HIDE DEF t, E, h
<1>10. TypeOK'
  BY <1>1, <1>6 DEF TypeOK, ghosts
<1>11. RxList(t)'
  BY <1>1, <1>7, <1>8 DEF RxList
<1>12. RxPools(t)'
  <2>1. ElementsOf(t) \cup {node} = E /\ node # current
    BY <1>3, <1>4 DEF Holds, RxPools, E
  <2>2. Buffered(t)' = Buffered(s)
    BY <1>1, <1>9, <2>1 DEF Buffered, E
  <2>3. node # Null
    BY <1>1 DEF Holds, RxPools
  <2>4. /\ current \notin E /\ blocks.used = E \cup {current}
        /\ datas.used = {buffer[b] : b \in Buffered(s)} /\ current # Null
        /\ \A b \in Buffered(s) : buffer[b] # Null
        /\ \A b, c \in Buffered(s) : buffer[b] = buffer[c] => b = c
    BY <1>9 DEF Holds, RxPools, E
  <2> QED
    BY <1>1, <1>4, <1>9, <2>1, <2>2, <2>3, <2>4 DEF RxPools
<1>13. RxUnits(t)'
  <2>1. Unparsed(t)' = Unparsed(s)
    BY <1>1, <1>3, <1>4 DEF Unparsed, E
  <2>2. UnparsedUnits(t)' = UnparsedUnits(s)
    BY <1>1, <2>1 DEF UnparsedUnits, UnitsOf, UnitsIn
  <2>3. 1..arrived = (ToSet(parsed) \ {0}) \cup dropped \cup UnparsedUnits(s)
    BY UnparsedFacts
  <2>4. \A c \in Items : \A i \in 1..BufUnits : content[c][i] <= arrived
    BY DEF Holds, RxUnits
  <2> QED
    BY <1>1, <2>2, <2>3, <2>4 DEF RxUnits, UnparsedUnits, Unparsed, ghosts
<1> QED
  BY <1>2, <1>4, <1>10, <1>11, <1>12, <1>13 DEF Holds, t

\* What the block holds is handed to the parser.
LEMMA ParseKeeps ==
    ASSUME TypeOK, NEW s \in Chains(RxBlocks), Holds(s), Parse
    PROVE  TypeOK' /\ Holds(s)'
<1> DEFINE q == Received(node, size[node])
           n == size[node]
<1>1. /\ pc = "parse" /\ pc' = "freedata" /\ parsed' = parsed \o q
      /\ UNCHANGED <<driver, fresh, ghosts, sem, indicate, node, last, torn>>
  BY DEF Parse, Goto
<1>2. /\ node \in Items /\ node \in Unparsed(s) /\ node # current /\ buffer[node] \in Items
      /\ n \in 0..BufUnits
  <2>1. node \in Items /\ node \in Unparsed(s) /\ node # current
    BY <1>1, BlockFacts DEF Unparsed, Holds, RxPools, Taken
  <2> QED
    BY <2>1, BlockFacts, UnparsedFacts DEF TypeOK
<1>3. /\ q \in Seq(0..MaxUnits) /\ Len(q) = n
      /\ \A i \in 1..n : q[i] = content[buffer[node]][i]
  <2>1. \A i \in 1..n : content[buffer[node]][i] \in 0..MaxUnits
    <3>1. \A i \in 1..n : i \in 1..BufUnits
      BY <1>2, RxConstants
    <3> QED
      BY <1>2, <3>1 DEF TypeOK
  <2>2. n \in Nat
    BY <1>2, RxConstants
  <2> HIDE DEF n
  <2> DEFINE m == SubSeq(content[buffer[node]], 1, n)
  <2>3. /\ m \in Seq(0..MaxUnits)
        /\ Len(m) = IF 1 <= n THEN n - 1 + 1 ELSE 0
        /\ \A i \in 1..(n - 1 + 1) : m[i] = content[buffer[node]][1 + i - 1]
    BY <2>1, <2>2, SubSeqProperties
  <2>4. n - 1 + 1 = n /\ (1 <= n \/ n = 0) /\ \A i \in 1..n : 1 + i - 1 = i
    BY <2>2
  <2>5. q = m
    BY DEF Received, n
  <2> HIDE DEF m, q
  <2> QED
    BY <2>3, <2>4, <2>5
<1> HIDE DEF q, n
<1>4. parsed' \in Seq(0..MaxUnits) /\ ToSet(parsed') = ToSet(parsed) \cup ToSet(q)
  <2>1. parsed \in Seq(0..MaxUnits)
    BY DEF TypeOK
  <2>2. /\ parsed \o q \in Seq(0..MaxUnits)
        /\ Len(parsed \o q) = Len(parsed) + Len(q)
        /\ \A i \in 1..(Len(parsed) + Len(q)) :
              (parsed \o q)[i] = IF i <= Len(parsed) THEN parsed[i] ELSE q[i - Len(parsed)]
    BY <1>3, <2>1, ConcatProperties
  <2> DEFINE r == parsed \o q
             k == Len(parsed)
             m == Len(q)
  <2>3. /\ k \in Nat /\ m \in Nat /\ Len(r) = k + m
        /\ \A i \in 1..(k + m) : r[i] = IF i <= k THEN parsed[i] ELSE q[i - k]
        /\ ToSet(r) = {r[i] : i \in 1..(k + m)}
        /\ ToSet(parsed) = {parsed[i] : i \in 1..k} /\ ToSet(q) = {q[i] : i \in 1..m}
    <3>1. /\ DOMAIN r = 1..Len(r) /\ DOMAIN parsed = 1..k /\ DOMAIN q = 1..m
          /\ k \in Nat /\ m \in Nat
      BY <1>3, <2>1, <2>2
    <3> QED
      BY <2>2, <3>1 DEF ToSet
  <2> HIDE DEF r, k, m
  <2>4. \A x \in ToSet(r) : x \in ToSet(parsed) \cup ToSet(q)
    <3>1. SUFFICES ASSUME NEW i \in 1..(k + m) PROVE r[i] \in ToSet(parsed) \cup ToSet(q)
      BY <2>3
    <3>2. CASE i <= k
      BY <2>3, <3>2
    <3>3. CASE ~(i <= k)
      <4>1. i - k \in 1..m
        BY <2>3, <3>3
      <4> QED
        BY <2>3, <3>3, <4>1
    <3> QED
      BY <3>2, <3>3
  <2>5. ToSet(parsed) \subseteq ToSet(r)
    <3>1. SUFFICES ASSUME NEW i \in 1..k PROVE parsed[i] \in ToSet(r)
      BY <2>3
    <3>2. i \in 1..(k + m) /\ i <= k
      BY <2>3
    <3> QED
      BY <2>3, <3>2
  <2>6. ToSet(q) \subseteq ToSet(r)
    <3>1. SUFFICES ASSUME NEW i \in 1..m PROVE q[i] \in ToSet(r)
      BY <2>3
    <3>2. i + k \in 1..(k + m) /\ ~(i + k <= k) /\ i + k - k = i
      BY <2>3
    <3> QED
      BY <2>3, <3>2
  <2> QED
    BY <1>1, <2>2, <2>4, <2>5, <2>6 DEF r
<1>5. ToSet(q) \ {0} = UnitsOf(node)
  <2>1. ToSet(q) = {content[buffer[node]][i] : i \in 1..n}
    <3>1. DOMAIN q = 1..n
      BY <1>3
    <3> QED
      BY <1>3, <3>1 DEF ToSet
  <2> QED
    BY <1>2, <2>1 DEF UnitsOf, UnitsIn, n
<1>6. TypeOK'
  BY <1>1, <1>4 DEF TypeOK, driver, ghosts
<1>7. RxList(s)' /\ RxPools(s)'
  BY <1>1 DEF Holds, RxList, RxPools, Buffered, Taken, driver
<1>8. RxUnits(s)'
  <2>1. Unparsed(s)' \cup {node} = Unparsed(s)
    BY <1>1, <1>2 DEF Unparsed, driver
  <2>2. UnparsedUnits(s)' = UNION {UnitsOf(b) : b \in Unparsed(s)'}
    BY <1>1 DEF UnparsedUnits, UnitsOf, UnitsIn, driver
  <2>3. UnparsedUnits(s) = UnparsedUnits(s)' \cup UnitsOf(node)
    BY <2>1, <2>2 DEF UnparsedUnits
  <2>4. 1..arrived = (ToSet(parsed) \ {0}) \cup dropped \cup UnparsedUnits(s)
    BY UnparsedFacts
  <2>5. 1..arrived' = (ToSet(parsed') \ {0}) \cup dropped' \cup UnparsedUnits(s)'
    BY <1>1, <1>4, <1>5, <2>3, <2>4 DEF ghosts
  <2>6. \A c \in Items : \A i \in 1..BufUnits : content'[c][i] <= arrived'
    BY <1>1 DEF Holds, RxUnits, driver, ghosts
  <2> QED
    BY <2>5, <2>6 DEF RxUnits, UnparsedUnits, Unparsed
<1> QED
  BY <1>6, <1>7, <1>8 DEF Holds

\* free_rx_block: the buffer, which no other block has.
LEMMA FreeDataKeeps ==
    ASSUME TypeOK, NEW s \in Chains(RxBlocks), Holds(s), FreeData
    PROVE  TypeOK' /\ Holds(s)'
<1> DEFINE B == Buffered(s)
<1>1. /\ pc = "freedata" /\ pc' = "freeblock" /\ datas' = Free(datas, buffer[node])
      /\ UNCHANGED <<survives, list, blocks, buffer, size, content, fill, current, fresh, ghosts, parsed, sem, indicate, node, last, torn>>
  BY DEF FreeData, Goto
<1>2. /\ Taken = {node} /\ Taken' = {node}
      /\ B = ElementsOf(s) \cup {current} \cup {node}
      /\ Buffered(s)' = ElementsOf(s) \cup {current}
      /\ node \notin ElementsOf(s) \cup {current}
      /\ datas.used = {buffer[b] : b \in B}
      /\ \A b \in B : buffer[b] # Null
      /\ \A b, c \in B : buffer[b] = buffer[c] => b = c
  BY <1>1 DEF Holds, RxPools, Buffered, Taken
<1>3. datas' \in Pools(RxBlocks) /\ datas'.used = datas.used \ {buffer[node]}
  BY SMTT(30), <1>1, FreeGives, RxConstants DEF TypeOK
<1> HIDE DEF B
<1>4. Buffered(s)' = B \ {node} /\ node \in B
  BY <1>2
<1>5. datas'.used = {buffer[b] : b \in B \ {node}}
  BY <1>2, <1>3, <1>4
<1>6. TypeOK'
  BY <1>1, <1>3 DEF TypeOK, ghosts
<1>7. RxList(s)'
  BY <1>1 DEF Holds, RxList
<1>8. RxPools(s)'
  <2>1. /\ \A b \in Buffered(s)' : buffer[b] # Null
        /\ \A b, c \in Buffered(s)' : buffer[b] = buffer[c] => b = c
    BY <1>2, <1>4
  <2>2. datas'.used = {buffer[b] : b \in Buffered(s)'}
    BY <1>4, <1>5
  <2>3. /\ current # Null /\ (node = Null <=> pc' \in {"start", "take", "head"})
        /\ current \notin ElementsOf(s) \cup Taken /\ ElementsOf(s) \cap Taken = {}
        /\ blocks.used = ElementsOf(s) \cup {current} \cup Taken
    BY <1>1 DEF Holds, RxPools
  <2> QED
    BY <1>1, <1>2, <2>1, <2>2, <2>3 DEF RxPools
<1>9. RxUnits(s)'
  BY <1>1 DEF Holds, RxUnits, UnitsOf, UnitsIn, ghosts
<1> QED
  BY <1>6, <1>7, <1>8, <1>9 DEF Holds

\* Then the block.
LEMMA FreeBlockKeeps ==
    ASSUME TypeOK, NEW s \in Chains(RxBlocks), Holds(s), FreeBlock
    PROVE  TypeOK' /\ Holds(s)'
<1>1. /\ pc = "freeblock" /\ pc' = "head" /\ blocks' = Free(blocks, node) /\ node' = Null
      /\ UNCHANGED <<survives, list, datas, buffer, size, content, fill, current, fresh, ghosts, parsed, sem, indicate, last, torn>>
  BY DEF FreeBlock, Goto
<1>2. /\ Taken = {node} /\ Taken' = {}
      /\ Buffered(s) = ElementsOf(s) \cup {current} /\ Buffered(s)' = ElementsOf(s) \cup {current}
  BY <1>1 DEF Buffered, Taken
<1>3. blocks' \in Pools(RxBlocks) /\ blocks'.used = blocks.used \ {node}
  BY <1>1, FreeGives, RxConstants DEF TypeOK
<1>4. blocks'.used = ElementsOf(s) \cup {current}
  BY <1>2, <1>3 DEF Holds, RxPools
<1>5. TypeOK'
  BY <1>1, <1>3 DEF TypeOK, ghosts
<1>6. RxList(s)'
  BY <1>1 DEF Holds, RxList
<1>7. RxPools(s)'
  BY <1>1, <1>2, <1>4 DEF Holds, RxPools
<1>8. RxUnits(s)'
  BY <1>1 DEF Holds, RxUnits, UnitsOf, UnitsIn, ghosts
<1> QED
  BY <1>5, <1>6, <1>7, <1>8 DEF Holds

\* The interrupt never repairs a torn list.
LEMMA TornStays == [Next]_vars /\ ~torn' => ~torn
  BY DEF Next, Task, GetBlock, Arrive, IdleInterrupt, Register, Take, ReadHead, TestOnly, Relink, RelinkBetween,
         SetHead, Parse, FreeData, FreeBlock, vars

LEMMA RxKeeps ==
    ASSUME RxInv, [Next]_vars
    PROVE  RxInv'
<1> SUFFICES ASSUME ~torn' PROVE RxIntact'
  BY DEF RxInv
<1>0. RxIntact
  BY TornStays DEF RxInv
<1>1. PICK s \in Chains(RxBlocks) : Holds(s)
  BY <1>0 DEF RxIntact, Holds
<1>2. TypeOK /\ pc # "fault"
  BY <1>0 DEF RxIntact
<1>3. CASE Arrive
  <2>1. pc' = pc
    BY <1>3 DEF Arrive
  <2> QED
    BY <1>1, <1>2, <1>3, <2>1, ArriveKeeps DEF RxIntact, Holds
<1>4. CASE IdleInterrupt
  <2>1. pc' = pc
    BY <1>4 DEF IdleInterrupt
  <2> QED
    BY <1>1, <1>2, <1>4, <2>1, InterruptKeeps DEF RxIntact, Holds
<1>5. CASE Register \/ Take \/ ReadHead
  <2>1. pc' # "fault"
    BY <1>5 DEF Register, Take, ReadHead, Goto
  <2> QED
    BY <1>1, <1>2, <1>5, <2>1, LookKeeps DEF RxIntact, Holds
<1>6. CASE TestOnly
  <2>1. pc' # "fault"
    BY <1>6 DEF TestOnly, Goto
  <2> QED
    BY <1>1, <1>2, <1>6, <2>1, TestOnlyKeeps DEF RxIntact, Holds
<1>7. CASE Relink
  <2>1. TypeOK' /\ Holds(s)' /\ pc' # "fault"
    BY <1>1, <1>2, <1>7, RelinkKeeps
  <2> QED
    BY <1>1, <2>1 DEF RxIntact, Holds
<1>8. CASE RelinkBetween
  BY <1>1, <1>2, <1>8, RelinkBetweenTears
<1>9. CASE SetHead
  <2>1. TypeOK' /\ Holds(Tail(s))' /\ Tail(s) \in Chains(RxBlocks)
    BY <1>1, <1>2, <1>9, SetHeadKeeps
  <2>2. pc' # "fault"
    BY <1>9 DEF SetHead, Goto
  <2> QED
    BY <2>1, <2>2 DEF RxIntact, Holds
<1>10. CASE Parse \/ FreeData \/ FreeBlock
  <2>1. pc' # "fault"
    BY <1>10 DEF Parse, FreeData, FreeBlock, Goto
  <2> QED
    BY <1>1, <1>2, <1>10, <2>1, ParseKeeps, FreeDataKeeps, FreeBlockKeeps DEF RxIntact, Holds
<1>11. CASE UNCHANGED vars
  <2>1. TypeOK'
    BY <1>2, <1>11 DEF TypeOK, vars, driver, ghosts
  <2>2. RxList(s)' /\ RxPools(s)'
    BY <1>1, <1>11 DEF Holds, RxList, RxPools, Buffered, Taken, vars, driver
  <2>3. RxUnits(s)'
    BY <1>1, <1>11 DEF Holds, RxUnits, UnitsOf, UnitsIn, vars, driver, ghosts
  <2> QED
    BY <1>2, <1>11, <2>1, <2>2, <2>3 DEF RxIntact, vars
<1> QED
  BY <1>3, <1>4, <1>5, <1>6, <1>7, <1>8, <1>9, <1>10, <1>11 DEF Next, Task, GetBlock

\* Between any two statements of the task, those of get_rx_block and
\* free_rx_block too, and wherever the interrupt comes, the list, the pools and
\* the buffers agree on what was received, until the interrupt gives up the
\* block that DL_DELETE has read or appends one before the head is written.
THEOREM RxCorrect == Spec => []RxInv
<1>1. RxInv /\ [Next]_vars => RxInv'
  BY RxKeeps
<1>2. Init => RxInv
  BY InitRx DEF RxInv
<1> QED
  BY <1>1, <1>2, PTL DEF Spec

\* Until then every variable has its type: what the task and the interrupt
\* leave in the list, the pools and the blocks names items of the pools.
THEOREM TypeCorrect == Spec => [](torn \/ TypeOK)
<1>1. RxInv => torn \/ TypeOK
  BY DEF RxInv, RxIntact
<1> QED
  BY <1>1, RxCorrect, PTL

\* The interrupt always finds a block to append: dma_recv_isr never goes
\* through a NULL current_rx_block, also when it comes between the two frees of
\* free_rx_block.
THEOREM AlwaysHasReceiveBlock == Spec => []HasReceiveBlock
<1>1. RxInv => HasReceiveBlock
  BY DEF RxInv, RxIntact, RxPools, HasReceiveBlock
<1> QED
  BY <1>1, RxCorrect, PTL

LEMMA ListIsChain ==
    ASSUME TypeOK, NEW s \in Chains(RxBlocks), Holds(s)
    PROVE  InList = ElementsOf(s)
<1>1. list \in Lists(RxBlocks) /\ Linked(list, s)
  BY DEF Holds, RxList, TypeOK
<1> QED
  BY <1>1, MembersAreElements, RxConstants DEF InList

\* No block or buffer of the receive pools leaks, none is in two places,
\* wherever the interrupt comes, until the list is torn.
THEOREM AlwaysBlocksAccounted == Spec => []BlocksAccounted
<1>1. ASSUME RxInv PROVE BlocksAccounted
  <2>1. SUFFICES ASSUME RxIntact PROVE BlocksAccounted
    BY <1>1 DEF RxInv, BlocksAccounted
  <2>2. PICK s \in Chains(RxBlocks) : Holds(s)
    BY <2>1 DEF RxIntact, Holds
  <2>3. InList = ElementsOf(s)
    BY <2>1, <2>2, ListIsChain DEF RxIntact
  <2> QED
    BY <2>2, <2>3 DEF Holds, RxPools, Buffered, BlocksAccounted
<1> QED
  BY <1>1, RxCorrect, PTL

\* No unit vanishes before: it is parsed, waiting or dropped for want of memory.
THEOREM AlwaysUnitsAccounted == Spec => []UnitsAccounted
<1>1. ASSUME RxInv PROVE UnitsAccounted
  <2>1. SUFFICES ASSUME RxIntact PROVE UnitsAccounted
    BY <1>1 DEF RxInv, UnitsAccounted
  <2>2. PICK s \in Chains(RxBlocks) : Holds(s)
    BY <2>1 DEF RxIntact, Holds
  <2>3. InList = ElementsOf(s)
    BY <2>1, <2>2, ListIsChain DEF RxIntact
  <2> QED
    BY <2>2, <2>3 DEF Holds, RxUnits, UnitsAccounted
<1> QED
  BY <1>1, RxCorrect, PTL

--------------------------------------------------------------------------------
(* FlattenSeq, by its first and by its last item.                             *)

\* The function in the definition of FlattenSeq.
Flattening(q, f) ==
    f = [i \in 1..Len(q) |-> IF i = 1 THEN q[i] ELSE f[i - 1] \o q[i]]

LEMMA FlattenFunction ==
    ASSUME NEW S, NEW q \in Seq(Seq(S)), q # <<>>
    PROVE  \E f \in [1..Len(q) -> Seq(S)] : Flattening(q, f) /\ FlattenSeq(q) = f[Len(q)]
<1> DEFINE n == Len(q)
           Good(f, k) == \A i \in 1..k : f[i] = IF i = 1 THEN q[i] ELSE f[i - 1] \o q[i]
           Has(k) == \E f \in [1..k -> Seq(S)] : Good(f, k)
           P == {k \in Nat : k <= n => Has(k)}
<1>1. n \in Nat /\ 0 < n /\ \A i \in 1..n : q[i] \in Seq(S)
  OBVIOUS
<1> HIDE DEF n
<1>2. 0 \in P
  <2>1. [i \in 1..0 |-> <<>>] \in [1..0 -> Seq(S)] /\ Good([i \in 1..0 |-> <<>>], 0)
    OBVIOUS
  <2> QED
    BY <2>1
<1>3. ASSUME NEW k \in Nat, k \in P PROVE k + 1 \in P
  <2>1. SUFFICES ASSUME k + 1 <= n PROVE Has(k + 1)
    <3> HIDE DEF Has
    <3> QED
      OBVIOUS
  <2>2. PICK f \in [1..k -> Seq(S)] : Good(f, k)
    <3>1. k <= n
      BY <1>1, <2>1
    <3>2. Has(k)
      <4> HIDE DEF Has
      <4> QED
        BY <1>3, <3>1
    <3> QED
      BY <3>2
  <2> DEFINE x == IF k = 0 THEN q[1] ELSE f[k] \o q[k + 1]
             g == [i \in 1..(k + 1) |-> IF i = k + 1 THEN x ELSE f[i]]
  <2>3. x \in Seq(S)
    <3>1. k # 0 => f[k] \in Seq(S)
      OBVIOUS
    <3>2. q[1] \in Seq(S) /\ q[k + 1] \in Seq(S)
      BY <1>1, <2>1
    <3> QED
      BY <3>1, <3>2, ConcatProperties
  <2>4. g \in [1..(k + 1) -> Seq(S)]
    <3> HIDE DEF x
    <3>1. \A i \in 1..(k + 1) : i # k + 1 => i \in 1..k
      OBVIOUS
    <3> QED
      BY <2>3, <3>1
  <2>5. Good(g, k + 1)
    <3>1. SUFFICES ASSUME NEW i \in 1..(k + 1)
                   PROVE  g[i] = IF i = 1 THEN q[i] ELSE g[i - 1] \o q[i]
      OBVIOUS
    <3>2. i # 1 => i - 1 \in 1..k /\ i - 1 # k + 1
      OBVIOUS
    <3>3. i # 1 => g[i - 1] = f[i - 1]
      <4> HIDE DEF x
      <4>1. \A j \in 1..k : j \in 1..(k + 1) /\ j # k + 1
        OBVIOUS
      <4>2. \A j \in 1..k : g[j] = f[j]
        BY <4>1
      <4> QED
        BY <3>2, <4>2
    <3>4. CASE i = k + 1
      <4>1. g[i] = x
        BY <3>4
      <4>2. i = 1 <=> k = 0
        BY <3>4
      <4>3. i # 1 => i - 1 = k
        BY <3>4
      <4> HIDE DEF g
      <4> QED
        BY <3>3, <3>4, <4>1, <4>2, <4>3
    <3>5. CASE i # k + 1
      <4>1. i \in 1..k
        BY <3>5
      <4>2. g[i] = f[i]
        BY <3>5
      <4>3. f[i] = IF i = 1 THEN q[i] ELSE f[i - 1] \o q[i]
        BY <2>2, <4>1
      <4> HIDE DEF g
      <4> QED
        BY <3>3, <4>2, <4>3
    <3> QED
      BY <3>4, <3>5
  <2> HIDE DEF g
  <2> QED
    BY <2>4, <2>5
<1> HIDE DEF P
<1>4. \A k \in Nat : k \in P
  BY <1>2, <1>3, SetInduction
<1>5. PICK f \in [1..n -> Seq(S)] : Good(f, n)
  <2>1. Has(n)
    <3> HIDE DEF Has
    <3> QED
      BY <1>1, <1>4 DEF P
  <2> QED
    BY <2>1
<1>6. Flattening(q, f)
  BY <1>5 DEF Flattening, n
<1> DEFINE g == CHOOSE h : Flattening(q, h)
<1>7. Flattening(q, g)
  BY <1>6
<1>8. FlattenSeq(q) = g[n]
  BY <1>1 DEF FlattenSeq, Flattening, n
<1> HIDE DEF g
<1>9. /\ DOMAIN g = 1..n
      /\ \A i \in 1..n : g[i] = IF i = 1 THEN q[i] ELSE g[i - 1] \o q[i]
      /\ g = [i \in 1..n |-> g[i]]
  BY <1>7 DEF Flattening, n
<1> DEFINE R == {k \in Nat : k \in 1..n => g[k] \in Seq(S)}
<1>10. 0 \in R
  OBVIOUS
<1>11. ASSUME NEW k \in Nat, k \in R PROVE k + 1 \in R
  <2>1. SUFFICES ASSUME k + 1 \in 1..n PROVE g[k + 1] \in Seq(S)
    OBVIOUS
  <2>2. CASE k = 0
    <3>1. k + 1 = 1
      BY <2>2
    <3>2. g[k + 1] = q[k + 1]
      BY <1>9, <2>1, <3>1
    <3> QED
      BY <1>1, <2>1, <3>2
  <2>3. CASE k # 0
    <3>1. k \in 1..n /\ k + 1 # 1 /\ k + 1 - 1 = k
      BY <1>1, <2>1, <2>3
    <3>2. g[k + 1] = g[k] \o q[k + 1] /\ g[k] \in Seq(S) /\ q[k + 1] \in Seq(S)
      <4>1. g[k] \in Seq(S)
        BY <1>11, <3>1
      <4>2. q[k + 1] \in Seq(S)
        BY <1>1, <2>1
      <4>3. g[k + 1] = g[k] \o q[k + 1]
        <5> DEFINE j == k + 1
        <5>1. j \in 1..n /\ j # 1 /\ j - 1 = k
          BY <2>1, <3>1
        <5> HIDE DEF j
        <5>2. g[j] = g[k] \o q[j]
          BY <1>9, <5>1
        <5> QED
          BY <5>2 DEF j
      <4> QED
        BY <4>1, <4>2, <4>3
    <3> QED
      BY <3>2, ConcatProperties
  <2> QED
    BY <2>2, <2>3
<1> HIDE DEF R
<1>12. \A k \in Nat : k \in R
  BY <1>10, <1>11, SetInduction
<1>13. g \in [1..n -> Seq(S)]
  <2>1. \A k \in 1..n : k \in Nat
    OBVIOUS
  <2>2. \A k \in 1..n : g[k] \in Seq(S)
    BY <1>12, <2>1 DEF R
  <2> QED
    BY <1>9, <2>2
<1> QED
  BY <1>7, <1>8, <1>13 DEF n

LEMMA FlattenIsSeq ==
    ASSUME NEW S, NEW q \in Seq(Seq(S))
    PROVE  FlattenSeq(q) \in Seq(S)
<1>1. CASE q = <<>>
  BY <1>1 DEF FlattenSeq
<1>2. CASE q # <<>>
  <2>1. PICK f \in [1..Len(q) -> Seq(S)] : FlattenSeq(q) = f[Len(q)]
    BY <1>2, FlattenFunction
  <2>2. Len(q) \in 1..Len(q)
    BY <1>2
  <2> QED
    BY <2>1, <2>2
<1> QED
  BY <1>1, <1>2

LEMMA FlattenOfAppend ==
    ASSUME NEW S, NEW q \in Seq(Seq(S)), NEW x \in Seq(S)
    PROVE  FlattenSeq(Append(q, x)) = FlattenSeq(q) \o x
<1> DEFINE r == Append(q, x)
           n == Len(q)
<1>1. /\ n \in Nat /\ r \in Seq(Seq(S)) /\ r # <<>> /\ Len(r) = n + 1 /\ r[n + 1] = x
      /\ \A i \in 1..n : r[i] = q[i]
  <2>1. n \in Nat /\ r \in Seq(Seq(S)) /\ Len(r) = n + 1
    OBVIOUS
  <2>2. r # <<>>
    <3> HIDE DEF r
    <3> QED
      BY <2>1
  <2>3. r[n + 1] = x /\ \A i \in 1..n : r[i] = q[i]
    OBVIOUS
  <2> QED
    BY <2>1, <2>2, <2>3
<1> HIDE DEF r
<1>2. PICK g \in [1..Len(r) -> Seq(S)] : Flattening(r, g) /\ FlattenSeq(r) = g[Len(r)]
  BY <1>1, FlattenFunction
<1>3. \A i \in 1..(n + 1) : g[i] = IF i = 1 THEN r[i] ELSE g[i - 1] \o r[i]
  BY <1>1, <1>2 DEF Flattening
<1>4. CASE n = 0
  <2>1. g[1] = x
    BY <1>1, <1>3, <1>4
  <2>2. q = <<>>
    BY <1>4
  <2>3. FlattenSeq(q) = <<>>
    BY <2>2 DEF FlattenSeq
  <2>4. <<>> \o x = x
    OBVIOUS
  <2> QED
    BY <1>1, <1>2, <1>4, <2>1, <2>3, <2>4 DEF r
<1>5. CASE n # 0
  <2>1. PICK f \in [1..n -> Seq(S)] : Flattening(q, f) /\ FlattenSeq(q) = f[n]
    BY <1>5, FlattenFunction
  <2>2. \A i \in 1..n : f[i] = IF i = 1 THEN q[i] ELSE f[i - 1] \o q[i]
    BY <2>1 DEF Flattening
  <2> DEFINE P == {k \in Nat : k \in 1..n => g[k] = f[k]}
  <2> HIDE DEF n
  <2>3. 0 \in P
    OBVIOUS
  <2>4. ASSUME NEW k \in Nat, k \in P PROVE k + 1 \in P
    <3> DEFINE j == k + 1
    <3>1. SUFFICES ASSUME j \in 1..n PROVE g[j] = f[j]
      OBVIOUS
    <3>2. j \in 1..(n + 1) /\ (j # 1 => k \in 1..n /\ j - 1 = k)
      BY <1>1, <3>1
    <3>3. j # 1 => g[k] = f[k]
      BY <2>4, <3>2
    <3> HIDE DEF j
    <3>4. g[j] = IF j = 1 THEN q[j] ELSE g[j - 1] \o q[j]
      BY <1>1, <1>3, <3>1, <3>2
    <3>5. f[j] = IF j = 1 THEN q[j] ELSE f[j - 1] \o q[j]
      BY <2>2, <3>1
    <3> QED
      BY <3>2, <3>3, <3>4, <3>5
  <2> HIDE DEF P
  <2>5. \A k \in Nat : k \in P
    BY <2>3, <2>4, SetInduction
  <2>6. n \in 1..n
    BY <1>1, <1>5
  <2>7. g[n] = f[n]
    BY <1>1, <2>5, <2>6 DEF P
  <2>8. g[n + 1] = g[n] \o x
    <3> DEFINE j == n + 1
    <3>1. j \in 1..(n + 1) /\ j # 1 /\ j - 1 = n /\ r[j] = x
      BY <1>1, <1>5
    <3> HIDE DEF j
    <3>2. g[j] = g[n] \o x
      BY <1>3, <3>1
    <3> QED
      BY <3>2 DEF j
  <2> QED
    BY <1>1, <1>2, <2>1, <2>7, <2>8 DEF r, n
<1> QED
  BY <1>4, <1>5

LEMMA FlattenOfTail ==
    ASSUME NEW S, NEW q \in Seq(Seq(S)), q # <<>>
    PROVE  FlattenSeq(q) = q[1] \o FlattenSeq(Tail(q))
<1> DEFINE r == Tail(q)
           n == Len(r)
<1>1. /\ n \in Nat /\ r \in Seq(Seq(S)) /\ Len(q) = n + 1
      /\ q[1] \in Seq(S)
      /\ \A i \in 1..n : r[i] = q[i + 1] /\ r[i] \in Seq(S)
      /\ (r = <<>> <=> n = 0) /\ n = Len(r)
  <2>1. r \in Seq(Seq(S)) /\ Len(q) = n + 1 /\ n \in Nat
    OBVIOUS
  <2>2. q[1] \in Seq(S)
    OBVIOUS
  <2>3. \A i \in 1..n : r[i] = q[i + 1]
    OBVIOUS
  <2> HIDE DEF r
  <2> QED
    BY <2>1, <2>2, <2>3
<1> HIDE DEF r, n
<1>2. PICK f \in [1..(n + 1) -> Seq(S)] : Flattening(q, f) /\ FlattenSeq(q) = f[n + 1]
  <2>1. \E f \in [1..Len(q) -> Seq(S)] : Flattening(q, f) /\ FlattenSeq(q) = f[Len(q)]
    BY FlattenFunction
  <2>2. Len(q) = n + 1
    BY <1>1
  <2> QED
    BY <2>1, <2>2
<1>3. \A i \in 1..(n + 1) : f[i] = IF i = 1 THEN q[i] ELSE f[i - 1] \o q[i]
  BY <1>1, <1>2 DEF Flattening
<1>4. f[1] = q[1]
  <2>1. 1 \in 1..(n + 1)
    BY <1>1
  <2> QED
    BY <1>3, <2>1
<1>5. CASE n = 0
  <2>1. FlattenSeq(r) = <<>>
    BY <1>1, <1>5 DEF FlattenSeq
  <2>2. q[1] \o <<>> = q[1]
    BY <1>1
  <2>3. n + 1 = 1
    BY <1>5
  <2> QED
    BY <1>2, <1>4, <2>1, <2>2, <2>3 DEF r
<1>6. CASE n # 0
  <2>1. PICK g \in [1..n -> Seq(S)] : Flattening(r, g) /\ FlattenSeq(r) = g[n]
    BY <1>1, <1>6, FlattenFunction DEF n
  <2>2. \A i \in 1..n : g[i] = IF i = 1 THEN r[i] ELSE g[i - 1] \o r[i]
    BY <2>1 DEF Flattening, n
  <2> DEFINE P == {k \in Nat : k \in 1..n => f[k + 1] = q[1] \o g[k]}
  <2>3. 0 \in P
    OBVIOUS
  <2>4. ASSUME NEW k \in Nat, k \in P PROVE k + 1 \in P
    <3>0. PICK j \in Nat : j = k + 1
      OBVIOUS
    <3> DEFINE m == j + 1
    <3>1. SUFFICES ASSUME j \in 1..n PROVE f[m] = q[1] \o g[j]
      <4>1. j \in P
        OBVIOUS
      <4> QED
        BY <3>0, <4>1
    <3>2. m \in 1..(n + 1) /\ m # 1 /\ m - 1 = j /\ r[j] = q[m] /\ r[j] \in Seq(S)
      BY <1>1, <3>1
    <3>3. j = 1 \/ (j # 1 /\ j - 1 = k /\ k \in 1..n)
      BY <1>1, <3>0, <3>1
    <3>4. k \in 1..n => f[j] = q[1] \o g[k]
      BY <2>4, <3>0
    <3> HIDE DEF m
    <3>5. f[m] = f[j] \o r[j]
      <4>1. f[m] = f[m - 1] \o q[m]
        BY <1>3, <3>2
      <4> QED
        BY <3>2, <4>1
    <3>6. CASE j = 1
      <4>1. g[j] = r[j]
        BY <2>2, <3>1, <3>6
      <4> QED
        BY <1>4, <3>5, <3>6, <4>1
    <3>7. CASE j # 1
      <4>1. g[j] = g[k] \o r[j] /\ f[j] = q[1] \o g[k]
        BY <2>2, <3>1, <3>3, <3>4, <3>7
      <4>2. g[k] \in Seq(S)
        BY <3>3, <3>7
      <4>3. (q[1] \o g[k]) \o r[j] = q[1] \o (g[k] \o r[j])
        <5> DEFINE a == q[1]
                   b == g[k]
                   c == r[j]
        <5>1. a \in Seq(S) /\ b \in Seq(S) /\ c \in Seq(S)
          BY <1>1, <3>2, <4>2
        <5> HIDE DEF a, b, c
        <5>2. (a \o b) \o c = a \o (b \o c)
          BY SMTT(30), <5>1
        <5> QED
          BY <5>2 DEF a, b, c
      <4> QED
        BY <3>5, <4>1, <4>3
    <3> QED
      BY <3>6, <3>7
  <2> HIDE DEF P
  <2>5. \A k \in Nat : k \in P
    BY <2>3, <2>4, SetInduction
  <2>6. n \in 1..n
    BY <1>1, <1>6
  <2>7. f[n + 1] = q[1] \o g[n]
    BY <1>1, <2>5, <2>6 DEF P
  <2> QED
    BY <1>2, <2>1, <2>7 DEF r
<1> QED
  BY <1>5, <1>6

--------------------------------------------------------------------------------
(* What the driver promises: a queue that loses old units when memory is      *)
(* short, but keeps their order.                                              *)

Places == 0..MaxUnits

LEMMA FirstPlaces ==
    ASSUME NEW S, NEW m \in Nat, NEW c \in [1..m -> S], NEW n \in 0..m
    PROVE  /\ SubSeq(c, 1, n) \in Seq(S) /\ Len(SubSeq(c, 1, n)) = n
           /\ \A i \in 1..n : SubSeq(c, 1, n)[i] = c[i]
<1>1. \A i \in 1..n : c[i] \in S
  OBVIOUS
<1>2. n \in Nat
  OBVIOUS
<1> DEFINE q == SubSeq(c, 1, n)
<1>3. /\ q \in Seq(S)
      /\ Len(q) = IF 1 <= n THEN n - 1 + 1 ELSE 0
      /\ \A i \in 1..(n - 1 + 1) : q[i] = c[1 + i - 1]
  BY <1>1, <1>2, SubSeqProperties
<1>4. n - 1 + 1 = n /\ (1 <= n \/ n = 0) /\ \A i \in 1..n : 1 + i - 1 = i
  BY <1>2
<1> HIDE DEF q
<1>5. q \in Seq(S) /\ Len(q) = n /\ \A i \in 1..n : q[i] = c[i]
  BY <1>3, <1>4
<1> QED
  BY <1>5 DEF q

LEMMA ReceivedFacts ==
    ASSUME TypeOK, NEW b \in Items, buffer[b] \in Items, NEW n \in 0..BufUnits
    PROVE  /\ Received(b, n) \in Seq(Places) /\ Len(Received(b, n)) = n
           /\ \A i \in 1..n : Received(b, n)[i] = content[buffer[b]][i]
<1>1. content[buffer[b]] \in [1..BufUnits -> Places]
  BY DEF TypeOK, Places
<1> QED
  BY <1>1, FirstPlaces, RxConstants DEF Received

\* The contents of the blocks s, and all that is held.
ReceivedIn(s) == [k \in 1..Len(s) |-> Received(s[k], size[s[k]])]
Parsing == IF pc = "parse" THEN Received(node, size[node]) ELSE <<>>
Waits(s) == Parsing \o FlattenSeq(ReceivedIn(s)) \o Received(current, fill)

LEMMA WaitsFacts ==
    ASSUME TypeOK, NEW s \in Chains(RxBlocks), Holds(s)
    PROVE  /\ Parsing \in Seq(Places) /\ Received(current, fill) \in Seq(Places)
           /\ ReceivedIn(s) \in Seq(Seq(Places)) /\ FlattenSeq(ReceivedIn(s)) \in Seq(Places)
           /\ \A k \in 1..Len(s) : Received(s[k], size[s[k]]) \in Seq(Places)
           /\ Len(s) \in Nat
<1>1. Len(s) \in Nat /\ \A k \in 1..Len(s) : s[k] \in ElementsOf(s)
  BY ChainFacts, RxConstants DEF ElementsOf
<1>2. \A k \in 1..Len(s) : Received(s[k], size[s[k]]) \in Seq(Places)
  <2>1. SUFFICES ASSUME NEW k \in 1..Len(s) PROVE Received(s[k], size[s[k]]) \in Seq(Places)
    OBVIOUS
  <2>2. s[k] \in Items /\ buffer[s[k]] \in Items /\ size[s[k]] \in 0..BufUnits
    BY <1>1, BlockFacts DEF Buffered, TypeOK
  <2> QED
    BY <2>2, ReceivedFacts
<1>3. Parsing \in Seq(Places)
  <2>1. CASE pc = "parse"
    <3>1. node \in Items /\ buffer[node] \in Items /\ size[node] \in 0..BufUnits
      BY <2>1, BlockFacts DEF Buffered, Taken, TypeOK
    <3> QED
      BY <2>1, <3>1, ReceivedFacts DEF Parsing
  <2>2. CASE pc # "parse"
    BY <2>2 DEF Parsing
  <2> QED
    BY <2>1, <2>2
<1>4. Received(current, fill) \in Seq(Places)
  <2>1. current \in Items /\ buffer[current] \in Items
    BY BlockFacts DEF Buffered
  <2>2. fill \in 0..BufUnits
    BY RxConstants DEF TypeOK
  <2> QED
    BY <2>1, <2>2, ReceivedFacts
<1>5. ReceivedIn(s) \in Seq(Seq(Places))
  BY <1>1, <1>2 DEF ReceivedIn
<1>6. FlattenSeq(ReceivedIn(s)) \in Seq(Places)
  BY <1>5, FlattenIsSeq
<1> QED
  BY <1>1, <1>2, <1>3, <1>4, <1>5, <1>6

HeldWaits == \A s \in Chains(RxBlocks) : TypeOK /\ Holds(s) => Held = Waits(s)

LEMMA HeldIsWaiting == HeldWaits
<1> SUFFICES ASSUME NEW s \in Chains(RxBlocks), TypeOK, Holds(s) PROVE Held = Waits(s)
  BY DEF HeldWaits
<1>1. /\ Len(s) \in 0..RxBlocks /\ DOMAIN s = 1..Len(s) /\ Cardinality(ElementsOf(s)) = Len(s)
  BY ChainFacts, RxConstants
<1>2. list \in Lists(RxBlocks) /\ Linked(list, s)
  BY DEF Holds, RxList, TypeOK
<1>3. InList = ElementsOf(s)
  BY ListIsChain
<1>4. \A k \in 1..Len(s) : Walk(list, RxBlocks)[k] = s[k]
  <2>1. \A k \in 1..RxBlocks :
          Walk(list, RxBlocks)[k] = IF k <= Len(s) THEN s[k] ELSE NullPtr
    BY <1>2, WalkGoesThrough, RxConstants
  <2>2. \A k \in 1..Len(s) : k \in 1..RxBlocks /\ k <= Len(s)
    BY <1>1, RxConstants
  <2> QED
    BY <2>1, <2>2
<1>5. Listed = [k \in 1..Len(s) |-> s[k]]
  BY <1>1, <1>3, <1>4 DEF Listed
<1>6. [k \in DOMAIN Listed |-> Received(Listed[k], size[Listed[k]])] = ReceivedIn(s)
  BY <1>5 DEF ReceivedIn
<1> QED
  BY <1>6 DEF Held, Waits, Parsing

LEMMA HeldIsWaitingAfter == HeldWaits'
BY HeldIsWaiting, PTL

LEMMA NothingReceived ==
    ASSUME NEW c
    PROVE  SubSeq(c, 1, 0) = <<>>
BY SubSeqEmpty

LEMMA KeptItself ==
    ASSUME NEW S, NEW q \in Seq(S)
    PROVE  Fifo!Kept(q, q)
<1>1. DOMAIN q = 1..Len(q) /\ Len(q) \in Nat
  OBVIOUS
<1> QED
  BY <1>1 DEF Fifo!Kept

LEMMA KeptBefore ==
    ASSUME NEW S, NEW x \in Seq(S), NEW y \in Seq(S), NEW a
    PROVE  Fifo!Kept(x, Append(x \o y, a))
<1> DEFINE z == x \o y
           t == Append(z, a)
<1>1. /\ z \in Seq(S) /\ Len(z) = Len(x) + Len(y) /\ Len(x) \in Nat /\ Len(y) \in Nat
      /\ \A i \in 1..Len(x) : z[i] = x[i] /\ i \in 1..Len(z)
  <2>1. Len(x) \in Nat /\ Len(y) \in Nat
    OBVIOUS
  <2>2. /\ z \in Seq(S) /\ Len(z) = Len(x) + Len(y)
        /\ \A i \in 1..(Len(x) + Len(y)) : z[i] = IF i <= Len(x) THEN x[i] ELSE y[i - Len(x)]
    BY ConcatProperties
  <2> HIDE DEF z
  <2> QED
    BY <2>1, <2>2
<1> HIDE DEF z
<1>2. DOMAIN t = 1..(Len(z) + 1) /\ \A i \in 1..Len(z) : t[i] = z[i]
  BY <1>1
<1>3. \A i \in 1..Len(x) : i \in DOMAIN t /\ t[i] = x[i]
  BY <1>1, <1>2
<1>4. DOMAIN x = 1..Len(x)
  OBVIOUS
<1> HIDE DEF t
<1>5. Fifo!Kept(x, t)
  BY <1>1, <1>3, <1>4 DEF Fifo!Kept
<1> QED
  BY <1>5 DEF t, z

LEMMA KeptWithout ==
    ASSUME NEW S, NEW x \in Seq(S), NEW y \in Seq(S), NEW z \in Seq(S)
    PROVE  Fifo!Kept(x \o z, x \o (y \o z))
<1> DEFINE a == x \o z
           b == x \o (y \o z)
           f == [i \in 1..(Len(x) + Len(z)) |-> IF i <= Len(x) THEN i ELSE i + Len(y)]
<1>1. Len(x) \in Nat /\ Len(y) \in Nat /\ Len(z) \in Nat
  OBVIOUS
<1>2. /\ a \in Seq(S) /\ Len(a) = Len(x) + Len(z)
      /\ \A i \in 1..(Len(x) + Len(z)) : a[i] = IF i <= Len(x) THEN x[i] ELSE z[i - Len(x)]
  BY ConcatProperties
<1>3. /\ y \o z \in Seq(S) /\ Len(y \o z) = Len(y) + Len(z)
      /\ \A i \in 1..(Len(y) + Len(z)) : (y \o z)[i] = IF i <= Len(y) THEN y[i] ELSE z[i - Len(y)]
  BY ConcatProperties
<1> DEFINE c == y \o z
<1> HIDE DEF c
<1>4. /\ x \o c \in Seq(S) /\ Len(x \o c) = Len(x) + Len(c)
      /\ \A i \in 1..(Len(x) + Len(c)) : (x \o c)[i] = IF i <= Len(x) THEN x[i] ELSE c[i - Len(x)]
  BY <1>3, ConcatProperties DEF c
<1>5. /\ b \in Seq(S) /\ Len(b) = Len(x) + Len(y) + Len(z)
      /\ \A i \in 1..(Len(x) + Len(y) + Len(z)) :
            b[i] = IF i <= Len(x) THEN x[i] ELSE c[i - Len(x)]
  BY <1>1, <1>3, <1>4 DEF c
<1>6. \A i \in 1..(Len(y) + Len(z)) : c[i] = IF i <= Len(y) THEN y[i] ELSE z[i - Len(y)]
  BY <1>3 DEF c
<1> HIDE DEF a, b
<1>7. DOMAIN a = 1..(Len(x) + Len(z)) /\ DOMAIN b = 1..(Len(x) + Len(y) + Len(z))
  BY <1>2, <1>5
<1>8. \A i \in DOMAIN a : f[i] \in DOMAIN b /\ b[f[i]] = a[i]
  <2>1. SUFFICES ASSUME NEW i \in 1..(Len(x) + Len(z)) PROVE f[i] \in DOMAIN b /\ b[f[i]] = a[i]
    BY <1>7
  <2>2. CASE i <= Len(x)
    <3>1. f[i] = i /\ i \in 1..(Len(x) + Len(y) + Len(z))
      BY <1>1, <2>2
    <3> QED
      BY <1>2, <1>5, <1>7, <2>2, <3>1
  <2>3. CASE ~(i <= Len(x))
    <3>0. PICK j \in Nat : j = i + Len(y)
      BY <1>1
    <3>1. /\ f[i] = j /\ j \in 1..(Len(x) + Len(y) + Len(z)) /\ ~(j <= Len(x))
          /\ j - Len(x) \in 1..(Len(y) + Len(z)) /\ ~(j - Len(x) <= Len(y))
          /\ j - Len(x) - Len(y) = i - Len(x)
      BY <1>1, <2>3, <3>0
    <3>2. b[j] = c[j - Len(x)] /\ c[j - Len(x)] = z[j - Len(x) - Len(y)]
      BY <1>5, <1>6, <3>1
    <3>3. a[i] = z[i - Len(x)]
      BY <1>2, <2>3
    <3> QED
      BY <1>7, <3>1, <3>2, <3>3
  <2> QED
    BY <2>2, <2>3
<1>9. \A i, j \in DOMAIN a : i < j => f[i] < f[j]
  BY <1>1, <1>7
<1> HIDE DEF f
<1>10. Fifo!Kept(a, b)
  <2>1. SUFFICES ASSUME NEW i \in DOMAIN a, NEW j \in DOMAIN a, i <= j
                 PROVE  \E k, m \in DOMAIN b : a[i] = b[k] /\ a[j] = b[m] /\ (i < j => k < m)
    BY DEF Fifo!Kept
  <2> QED
    BY <1>8, <1>9
<1> QED
  BY <1>10 DEF a, b

\* The steps of the task that neither parse nor unlink change nothing of it.
LEMMA HoldsOn ==
    ASSUME TypeOK, NEW s \in Chains(RxBlocks), Holds(s),
           Register \/ Take \/ ReadHead \/ TestOnly \/ Relink \/ FreeData \/ FreeBlock, ~torn'
    PROVE  UNCHANGED <<arrived, Held, parsed>>
<1>1. TypeOK' /\ Holds(s)'
  BY LookKeeps, TestOnlyKeeps, RelinkKeeps, FreeDataKeeps, FreeBlockKeeps
<1>2. /\ pc # "parse" /\ pc' # "parse"
      /\ UNCHANGED <<buffer, size, content, fill, current, arrived, parsed>>
  <2>1. CASE Register \/ Take \/ ReadHead
    BY <2>1 DEF Register, Take, ReadHead, Goto, driver, ghosts
  <2>2. CASE TestOnly
    BY <2>2 DEF TestOnly, Goto, Unlinking, ghosts
  <2>3. CASE Relink
    BY <2>3 DEF Relink, Unlinking, ghosts
  <2>4. CASE FreeData \/ FreeBlock
    BY <2>4 DEF FreeData, FreeBlock, Goto, ghosts
  <2> QED
    BY <2>1, <2>2, <2>3, <2>4
<1>3. Waits(s)' = Waits(s)
  BY <1>2 DEF Waits, Parsing, ReceivedIn, Received
<1>4. Held = Waits(s) /\ Held' = Waits(s)'
  BY <1>1, HeldIsWaiting, HeldIsWaitingAfter DEF HeldWaits
<1> QED
  BY <1>2, <1>3, <1>4

\* A unit that arrives is the last, or what the block held is given up.
LEMMA ArriveReceives ==
    ASSUME TypeOK, NEW s \in Chains(RxBlocks), Holds(s), Arrive
    PROVE  /\ Parsing' = Parsing /\ ReceivedIn(s)' = ReceivedIn(s)
           /\ \/ Received(current, fill)' = Append(Received(current, fill), arrived')
              \/ Received(current, fill)' = <<>>
<1> DEFINE d == buffer[current]
<1>1. /\ content' = [content EXCEPT ![d][fill + 1] = arrived']
      /\ UNCHANGED <<buffer, size, current, pc, node>>
      /\ fill' = IF fill + 1 < BufUnits THEN fill + 1 ELSE 0
      /\ arrived' = arrived + 1 /\ arrived < MaxUnits
  BY DEF Arrive
<1>2. /\ d \in Items /\ current \in Buffered(s) /\ current \notin ElementsOf(s) \cup Taken
  BY BlockFacts DEF Holds, RxPools, Buffered
<1>3. \A b \in Buffered(s) : b # current => buffer[b] \in Items /\ buffer[b] # d
  BY <1>2, BlockFacts DEF Holds, RxPools
<1> HIDE DEF d
<1>4. \A c \in Items : c # d => content'[c] = content[c]
  BY <1>1 DEF TypeOK
<1>5. \A b \in Buffered(s) : b # current => content'[buffer'[b]] = content[buffer[b]]
  BY <1>1, <1>3, <1>4
<1>6. Parsing' = Parsing
  <2>1. CASE pc = "parse"
    <3>1. node \in Buffered(s) /\ node # current
      BY <1>2, <2>1 DEF Buffered, Taken
    <3>2. Received(node, size[node])' = Received(node, size[node])
      BY <1>1, <1>5, <3>1 DEF Received
    <3> QED
      BY <1>1, <2>1, <3>2 DEF Parsing
  <2>2. CASE pc # "parse"
    BY <1>1, <2>2 DEF Parsing
  <2> QED
    BY <2>1, <2>2
<1>7. ReceivedIn(s)' = ReceivedIn(s)
  <2>1. \A k \in 1..Len(s) : s[k] \in Buffered(s) /\ s[k] # current
    <3>1. \A k \in 1..Len(s) : s[k] \in ElementsOf(s)
      BY ChainFacts, RxConstants DEF ElementsOf
    <3> QED
      BY <1>2, <3>1 DEF Buffered
  <2>2. \A k \in 1..Len(s) : Received(s[k], size[s[k]])' = Received(s[k], size[s[k]])
    BY <1>1, <1>5, <2>1 DEF Received
  <2> QED
    BY <2>2 DEF ReceivedIn
<1>8. CASE ~(fill + 1 < BufUnits)
  <2>1. Received(current, fill)' = <<>>
    BY <1>1, <1>8, NothingReceived DEF Received
  <2> QED
    BY <1>6, <1>7, <2>1
<1>9. CASE fill + 1 < BufUnits
  <2> DEFINE c == content[d]
             e == content'[d]
             n == fill
             a == arrived'
             q == SubSeq(c, 1, n)
             r == SubSeq(e, 1, n + 1)
  <2>1. /\ c \in [1..BufUnits -> Places] /\ a \in Places /\ n \in 0..BufUnits /\ n + 1 \in 0..BufUnits
        /\ n \in Nat /\ n + 1 \in 1..BufUnits
    <3>1. n \in Nat /\ n + 1 \in 1..BufUnits /\ n \in 0..BufUnits /\ n + 1 \in 0..BufUnits
      BY <1>9, RxConstants DEF TypeOK
    <3>2. a \in Places
      BY <1>1, RxConstants DEF TypeOK, Places
    <3>3. c \in [1..BufUnits -> Places]
      BY <1>2 DEF TypeOK, Places
    <3> QED
      BY <3>1, <3>2, <3>3
  <2>2. e = [c EXCEPT ![n + 1] = a]
    BY <1>1, <1>2 DEF TypeOK
  <2> HIDE DEF c, n, a
  <2>3. e \in [1..BufUnits -> Places] /\ e[n + 1] = a /\ \A i \in 1..n : e[i] = c[i]
    <3>1. \A i \in 1..n : i \in 1..BufUnits /\ i # n + 1
      BY <2>1, RxConstants
    <3> HIDE DEF e
    <3> QED
      BY <2>1, <2>2, <3>1
  <2> HIDE DEF e
  <2>4. q \in Seq(Places) /\ Len(q) = n /\ \A i \in 1..n : q[i] = c[i]
    BY <2>1, FirstPlaces, RxConstants
  <2>5. r \in Seq(Places) /\ Len(r) = n + 1 /\ \A i \in 1..(n + 1) : r[i] = e[i]
    BY <2>1, <2>3, FirstPlaces, RxConstants
  <2> HIDE DEF q, r
  <2>6. r = Append(q, a)
    <3> DEFINE t == Append(q, a)
    <3>1. t \in Seq(Places) /\ Len(t) = n + 1 /\ t[n + 1] = a /\ \A i \in 1..n : t[i] = q[i]
      BY <2>1, <2>4
    <3> HIDE DEF t
    <3>2. \A i \in 1..(n + 1) : r[i] = t[i]
      <4>1. SUFFICES ASSUME NEW i \in 1..(n + 1) PROVE r[i] = t[i]
        OBVIOUS
      <4>2. CASE i = n + 1
        BY <2>3, <2>5, <3>1, <4>2
      <4>3. CASE i # n + 1
        <5>1. i \in 1..n
          BY <2>1, <4>3
        <5> QED
          BY <2>3, <2>4, <2>5, <3>1, <5>1
      <4> QED
        BY <4>2, <4>3
    <3>3. r = t
      BY <2>5, <3>1, <3>2, SeqEqual
    <3> QED
      BY <3>3 DEF t
  <2>7. q = Received(current, fill)
    BY DEF q, c, n, d, Received
  <2>8. r = Received(current, fill)'
    BY <1>1, <1>9 DEF r, e, n, d, Received
  <2> QED
    BY <1>6, <1>7, <2>6, <2>7, <2>8 DEF a
<1> QED
  BY <1>8, <1>9

LEMMA ArrivePuts ==
    ASSUME TypeOK, NEW s \in Chains(RxBlocks), Holds(s), Arrive, survives, ~torn
    PROVE  Fifo!Put
<1> DEFINE x == Parsing \o FlattenSeq(ReceivedIn(s))
           y == Received(current, fill)
           a == arrived'
<1>1. /\ TypeOK' /\ Holds(s)' /\ survives' = survives /\ parsed' = parsed /\ arrived' = arrived + 1
      /\ torn' = torn
  BY ArriveKeeps DEF Arrive
<1>2. x \in Seq(Places) /\ y \in Seq(Places) /\ a \in Places
  <2>1. Parsing \in Seq(Places) /\ FlattenSeq(ReceivedIn(s)) \in Seq(Places) /\ y \in Seq(Places)
    BY WaitsFacts
  <2>2. a \in Places
    BY <1>1 DEF TypeOK, Places
  <2> QED
    BY <2>1, <2>2, ConcatProperties
<1>3. Held = x \o y /\ Held' = Waits(s)'
  BY <1>1, HeldIsWaiting, HeldIsWaitingAfter DEF HeldWaits, Waits
<1>4. Held' = x \o Append(y, a) \/ Held' = x \o <<>>
  <2>1. Waits(s)' = x \o Received(current, fill)'
    BY ArriveReceives DEF Waits
  <2> QED
    BY <1>3, <2>1, ArriveReceives
<1> HIDE DEF x, y, a
<1>5. x \o Append(y, a) = Append(x \o y, a) /\ x \o <<>> = x /\ x \o y \in Seq(Places)
  BY <1>2
<1>6. Fifo!Kept(Held', Append(Held, a))
  <2>1. CASE Held' = x \o Append(y, a)
    <3>1. Append(x \o y, a) \in Seq(Places)
      BY <1>2, <1>5
    <3> QED
      BY <1>3, <1>5, <2>1, <3>1, KeptItself
  <2>2. CASE Held' = x \o <<>>
    BY <1>2, <1>3, <1>5, <2>2, KeptBefore
  <2> QED
    BY <1>4, <2>1, <2>2
<1>7. Whole /\ Whole'
  BY <1>1 DEF Whole
<1> QED
  BY <1>1, <1>6, <1>7 DEF Fifo!Put, a

\* What the current block holds joins what is in the list, and what the oldest
\* block holds may be given up.
LEMMA InterruptReceives ==
    ASSUME TypeOK, NEW s \in Chains(RxBlocks), Holds(s), IdleInterrupt, survives, ~torn'
    PROVE  /\ TypeOK' /\ Parsing' = Parsing /\ Received(current, fill)' = <<>>
           /\ \E w \in Chains(RxBlocks) :
                /\ Holds(w)'
                /\ LET q == Append(ReceivedIn(s), Received(current, fill))
                   IN  ReceivedIn(w)' = q \/ ReceivedIn(w)' = Tail(q)
<1> DEFINE t == Append(s, current)
           Y == Received(current, fill)
           q == Append(ReceivedIn(s), Y)
           n == Len(s)
<1>1. /\ size' = [size EXCEPT ![current] = fill] /\ fill' = 0
      /\ UNCHANGED <<content, pc, node>>
  BY DEF IdleInterrupt, Receive, Counted
<1>2. PICK w \in Chains(RxBlocks) :
        Appended(s, w) /\ Holds(w)' /\ \A c \in ElementsOf(w) \cup Taken : buffer'[c] = buffer[c]
  BY InterruptKeeps
<1>3. current \in Items /\ current \notin ElementsOf(s) \cup Taken
  BY BlockFacts DEF Holds, RxPools
<1>4. /\ n \in Nat /\ \A k \in 1..n : s[k] \in ElementsOf(s) /\ s[k] # current
      /\ ElementsOf(s) \subseteq Items
  <2>1. n \in Nat /\ ElementsOf(s) \subseteq Items /\ \A k \in 1..n : s[k] \in ElementsOf(s)
    BY ChainFacts, BlockFacts, RxConstants DEF ElementsOf
  <2> QED
    BY <1>3, <2>1
<1>5. \A c \in Items : size'[c] = IF c = current THEN fill ELSE size[c]
  BY <1>1 DEF TypeOK
<1>6. Parsing' = Parsing
  <2>1. CASE pc = "parse"
    <3>1. node \in Taken /\ node \in Items /\ node # current
      BY <1>3, <2>1, BlockFacts DEF Taken
    <3>2. buffer'[node] = buffer[node] /\ size'[node] = size[node] /\ node' = node /\ content' = content
      BY <1>1, <1>2, <1>5, <3>1
    <3>3. Received(node, size[node])' = Received(node, size[node])
      BY <3>2 DEF Received
    <3> QED
      BY <1>1, <2>1, <3>3 DEF Parsing
  <2>2. CASE pc # "parse"
    BY <1>1, <2>2 DEF Parsing
  <2> QED
    BY <2>1, <2>2
<1>7. Received(current, fill)' = <<>>
  BY <1>1, NothingReceived DEF Received
<1>8. /\ Len(t) = n + 1 /\ t[n + 1] = current /\ \A k \in 1..n : t[k] = s[k]
      /\ Len(q) = n + 1 /\ q[n + 1] = Y /\ \A k \in 1..n : q[k] = Received(s[k], size[s[k]])
      /\ t \in Seq(Items) /\ q \in Seq(Seq(Places))
  <2>1. s \in Seq(Items)
    BY <1>4, ChainFacts, RxConstants
  <2>2. /\ ReceivedIn(s) \in Seq(Seq(Places)) /\ Y \in Seq(Places) /\ Len(ReceivedIn(s)) = n
        /\ \A k \in 1..n : ReceivedIn(s)[k] = Received(s[k], size[s[k]])
    <3>1. ReceivedIn(s) \in Seq(Seq(Places)) /\ Y \in Seq(Places)
      BY WaitsFacts
    <3>2. ReceivedIn(s) = [k \in 1..n |-> Received(s[k], size[s[k]])]
      BY DEF ReceivedIn
    <3> QED
      BY <1>4, <3>1, <3>2
  <2> HIDE DEF Y, n
  <2>3. Len(t) = n + 1 /\ t[n + 1] = current /\ (\A k \in 1..n : t[k] = s[k]) /\ t \in Seq(Items)
    BY <1>3, <2>1 DEF n
  <2> DEFINE z == ReceivedIn(s)
  <2> HIDE DEF z
  <2>4. Len(Append(z, Y)) = n + 1 /\ Append(z, Y)[n + 1] = Y /\ Append(z, Y) \in Seq(Seq(Places))
        /\ \A k \in 1..n : Append(z, Y)[k] = z[k]
    BY <2>2 DEF z
  <2> QED
    BY <2>2, <2>3, <2>4 DEF z
<1> HIDE DEF t, q, Y, n
<1>9. \A k \in 1..(n + 1) : t[k] \in Items /\ q[k] = SubSeq(content[buffer[t[k]]], 1, size'[t[k]])
  <2>1. SUFFICES ASSUME NEW k \in 1..(n + 1)
                 PROVE  t[k] \in Items /\ q[k] = SubSeq(content[buffer[t[k]]], 1, size'[t[k]])
    OBVIOUS
  <2>2. CASE k = n + 1
    BY <1>3, <1>5, <1>8, <2>2 DEF Y, Received
  <2>3. CASE k # n + 1
    <3>1. k \in 1..n
      BY <1>4, <2>3
    <3>2. t[k] = s[k] /\ s[k] \in Items /\ size'[s[k]] = size[s[k]]
      BY <1>4, <1>5, <1>8, <3>1
    <3> QED
      BY <1>8, <3>1, <3>2 DEF Received
  <2> QED
    BY <2>2, <2>3
<1>10. \A k \in 1..Len(w) : buffer'[w[k]] = buffer[w[k]]
  BY <1>2, ChainFacts, RxConstants DEF ElementsOf
<1>11. ReceivedIn(w)' = q \/ ReceivedIn(w)' = Tail(q)
  <2>1. ReceivedIn(w)' = [k \in 1..Len(w) |-> SubSeq(content[buffer[w[k]]], 1, size'[w[k]])]
    <3>1. ReceivedIn(w)' = [k \in 1..Len(w) |-> SubSeq(content'[buffer'[w[k]]], 1, size'[w[k]])]
      BY DEF ReceivedIn, Received
    <3>2. \A k \in 1..Len(w) : SubSeq(content'[buffer'[w[k]]], 1, size'[w[k]])
                                  = SubSeq(content[buffer[w[k]]], 1, size'[w[k]])
      BY <1>1, <1>10
    <3> QED
      BY <3>1, <3>2
  <2>2. CASE w = t
    <3>1. \A k \in 1..(n + 1) : ReceivedIn(w)'[k] = q[k]
      BY <1>8, <1>9, <2>1, <2>2
    <3>2. q = [k \in 1..(n + 1) |-> q[k]]
      BY <1>8
    <3> QED
      BY <1>8, <1>9, <2>1, <2>2, <3>2
  <2>3. CASE w = Tail(t)
    <3>1. Len(w) = n /\ \A k \in 1..n : w[k] = t[k + 1]
      BY <1>4, <1>8, <2>3
    <3>2. Tail(q) \in Seq(Seq(Places)) /\ Len(Tail(q)) = n /\ \A k \in 1..n : Tail(q)[k] = q[k + 1]
      BY <1>4, <1>8
    <3>3. \A k \in 1..n : k + 1 \in 1..(n + 1)
      BY <1>4
    <3>4. \A k \in 1..n : q[k + 1] = SubSeq(content[buffer[w[k]]], 1, size'[w[k]])
      BY <1>9, <3>1, <3>3
    <3> DEFINE r == ReceivedIn(w)'
    <3>5. r = [k \in 1..n |-> q[k + 1]] /\ \A k \in 1..n : q[k + 1] \in Seq(Places)
      BY <1>4, <1>8, <2>1, <3>1, <3>4
    <3> HIDE DEF r
    <3>6. r \in Seq(Seq(Places)) /\ Len(r) = n /\ \A k \in 1..n : r[k] = q[k + 1]
      BY <1>4, <3>5
    <3>7. r = Tail(q)
      BY <3>2, <3>6, SeqEqual
    <3> QED
      BY <3>7 DEF r
  <2> QED
    BY <1>2, <2>2, <2>3 DEF Appended, t
<1> QED
  BY <1>2, <1>6, <1>7, <1>11, InterruptKeeps DEF q, Y

LEMMA InterruptLoses ==
    ASSUME TypeOK, NEW s \in Chains(RxBlocks), Holds(s), IdleInterrupt, survives, ~torn'
    PROVE  UNCHANGED <<survives, arrived, parsed>> /\ Fifo!Kept(Held', Held)
<1> DEFINE N == Parsing
           X == FlattenSeq(ReceivedIn(s))
           Y == Received(current, fill)
           q == Append(ReceivedIn(s), Y)
<1>1. UNCHANGED <<survives, arrived, parsed>>
  BY DEF IdleInterrupt
<1>2. /\ TypeOK' /\ Parsing' = N /\ Received(current, fill)' = <<>>
      /\ \E w \in Chains(RxBlocks) : Holds(w)' /\ (ReceivedIn(w)' = q \/ ReceivedIn(w)' = Tail(q))
  BY InterruptReceives
<1>3. PICK w \in Chains(RxBlocks) : Holds(w)' /\ (ReceivedIn(w)' = q \/ ReceivedIn(w)' = Tail(q))
  BY <1>2
<1>4. /\ N \in Seq(Places) /\ X \in Seq(Places) /\ Y \in Seq(Places)
      /\ ReceivedIn(s) \in Seq(Seq(Places))
  BY WaitsFacts
<1>5. q \in Seq(Seq(Places)) /\ q # <<>> /\ FlattenSeq(q) = X \o Y
  <2>1. FlattenSeq(q) = X \o Y
    BY <1>4, FlattenOfAppend
  <2> DEFINE z == ReceivedIn(s)
  <2> HIDE DEF z, Y
  <2>2. Append(z, Y) \in Seq(Seq(Places)) /\ Len(Append(z, Y)) # 0
    BY <1>4 DEF z
  <2> HIDE DEF q
  <2>3. q \in Seq(Seq(Places)) /\ Len(q) # 0
    BY <2>2 DEF q, z
  <2>4. q # <<>>
    BY <2>3
  <2> QED
    BY <2>1, <2>3, <2>4
<1>6. Held = N \o X \o Y /\ Held' = N \o FlattenSeq(ReceivedIn(w)') \o <<>>
  <2>1. Held = Waits(s) /\ Held' = Waits(w)'
    BY <1>2, <1>3, HeldIsWaiting, HeldIsWaitingAfter DEF HeldWaits
  <2>2. FlattenSeq(ReceivedIn(w))' = FlattenSeq(ReceivedIn(w)')
    BY DEF FlattenSeq
  <2> QED
    BY <1>2, <2>1, <2>2 DEF Waits
<1> HIDE DEF N, X, Y, q
<1>7. N \o X \o Y = N \o FlattenSeq(q) /\ N \o FlattenSeq(q) \in Seq(Places)
  <2>1. N \in Seq(Places) /\ X \in Seq(Places) /\ Y \in Seq(Places)
    BY <1>4
  <2>2. N \o X \o Y = N \o (X \o Y) /\ X \o Y \in Seq(Places)
    BY <2>1
  <2>3. N \o (X \o Y) \in Seq(Places)
    BY <2>1, <2>2
  <2> QED
    BY <1>5, <2>2, <2>3
<1>8. CASE ReceivedIn(w)' = q
  <2> DEFINE m == N \o FlattenSeq(q)
  <2>1. Held' = m \o <<>> /\ Held = m /\ m \in Seq(Places)
    BY <1>6, <1>7, <1>8
  <2> HIDE DEF m
  <2>2. Held' = Held
    BY <2>1
  <2> QED
    BY <1>1, <2>1, <2>2, KeptItself
<1>9. CASE ReceivedIn(w)' = Tail(q)
  <2> DEFINE Z == FlattenSeq(Tail(q))
             h == q[1]
  <2>1. FlattenSeq(q) = h \o Z
    BY <1>5, FlattenOfTail
  <2>2. h \in Seq(Places) /\ Tail(q) \in Seq(Seq(Places))
    BY <1>5
  <2>3. Z \in Seq(Places)
    BY <2>2, FlattenIsSeq
  <2>4. Held' = N \o Z \o <<>>
    BY <1>6, <1>9
  <2> HIDE DEF Z, h
  <2>5. Held' = N \o Z
    BY <1>4, <2>3, <2>4
  <2>6. Held = N \o (h \o Z)
    BY <1>6, <1>7, <2>1
  <2> QED
    BY <1>1, <1>4, <2>2, <2>3, <2>5, <2>6, KeptWithout
<1> QED
  BY <1>3, <1>8, <1>9

\* The task takes the oldest block, and its units stay the oldest.
LEMMA UnlinkHolds ==
    ASSUME TypeOK, NEW s \in Chains(RxBlocks), Holds(s), SetHead
    PROVE  UNCHANGED <<survives, arrived, Held, parsed>>
<1> DEFINE t == Tail(s)
           q == ReceivedIn(s)
           h == Received(node, size[node])
           Y == Received(current, fill)
           Z == FlattenSeq(Tail(q))
<1>1. /\ pc = "sethead" /\ pc' = "parse"
      /\ UNCHANGED <<survives, buffer, size, content, fill, current, arrived, parsed, node>>
  BY DEF SetHead, Goto, Unlinking, ghosts
<1>2. TypeOK' /\ Holds(t)' /\ t \in Chains(RxBlocks) /\ s # <<>> /\ node = s[1]
  BY SetHeadKeeps
<1>3. Held = Waits(s) /\ Held' = Waits(t)'
  BY <1>2, HeldIsWaiting, HeldIsWaitingAfter DEF HeldWaits
<1>4. q \in Seq(Seq(Places)) /\ Y \in Seq(Places) /\ Len(s) \in Nat
  BY WaitsFacts
<1>5. /\ Len(q) = Len(s) /\ \A k \in 1..Len(s) : q[k] = Received(s[k], size[s[k]])
      /\ Len(s) # 0 /\ s \in Seq(Items)
  <2>1. q = [k \in 1..Len(s) |-> Received(s[k], size[s[k]])]
    BY DEF ReceivedIn
  <2>2. s \in Seq(Items) /\ Len(s) # 0
    <3>1. s \in Seq(Items)
      BY ChainFacts, BlockFacts, RxConstants
    <3> QED
      BY <1>2, <3>1
  <2> QED
    BY <1>4, <2>1, <2>2
<1>6. q[1] = h /\ h \in Seq(Places) /\ q # <<>>
  <2>1. 1 \in 1..Len(s)
    BY <1>4, <1>5
  <2>2. q[1] = h
    BY <1>2, <1>5, <2>1
  <2>3. q[1] \in Seq(Places)
    BY <1>4, <1>5, <2>1
  <2> HIDE DEF q
  <2>4. q # <<>>
    BY <1>5
  <2> QED
    BY <2>2, <2>3, <2>4
<1>7. ReceivedIn(t)' = Tail(q)
  <2> DEFINE r == ReceivedIn(t)
             n == Len(t)
  <2>1. r' = [k \in 1..n |-> Received(t[k], size[t[k]])]
    BY <1>1 DEF ReceivedIn, Received
  <2>2. n \in Nat /\ Len(s) = n + 1 /\ \A k \in 1..n : t[k] = s[k + 1] /\ k + 1 \in 1..Len(s)
    BY <1>5
  <2> DEFINE u == r'
  <2> HIDE DEF t, n, q, h, Y
  <2>3. \A k \in 1..n : Received(t[k], size[t[k]]) = q[k + 1] /\ q[k + 1] \in Seq(Places)
    BY <1>4, <1>5, <2>2
  <2>4. u = [k \in 1..n |-> q[k + 1]]
    BY <2>1, <2>3
  <2> HIDE DEF r, u
  <2>5. u \in Seq(Seq(Places)) /\ Len(u) = n /\ \A k \in 1..n : u[k] = q[k + 1]
    <3>1. n \in Nat /\ \A k \in 1..n : q[k + 1] \in Seq(Places)
      BY <2>2, <2>3
    <3> QED
      BY <2>4, <3>1
  <2>6. Tail(q) \in Seq(Seq(Places)) /\ Len(Tail(q)) = n /\ \A k \in 1..n : Tail(q)[k] = q[k + 1]
    <3>1. n \in Nat /\ q \in Seq(Seq(Places)) /\ Len(q) = n + 1
      BY <1>4, <1>5, <2>2
    <3> QED
      BY <3>1
  <2>7. u = Tail(q)
    BY <2>5, <2>6, SeqEqual
  <2> QED
    BY <2>7 DEF u, r
<1>8. Z \in Seq(Places) /\ FlattenSeq(q) = h \o Z
  <2>1. Tail(q) \in Seq(Seq(Places))
    BY <1>4, <1>6
  <2> QED
    BY <1>4, <1>6, <2>1, FlattenIsSeq, FlattenOfTail
<1>9. Waits(s) = <<>> \o FlattenSeq(q) \o Y
  BY <1>1 DEF Waits, Parsing
<1>10. Waits(t)' = h \o Z \o Y
  <2>1. Parsing' = h /\ Received(current, fill)' = Y
    BY <1>1 DEF Parsing, Received
  <2>2. FlattenSeq(ReceivedIn(t))' = FlattenSeq(ReceivedIn(t)')
    BY DEF FlattenSeq
  <2> QED
    BY <1>7, <2>1, <2>2 DEF Waits
<1> HIDE DEF h, Z, Y, q
<1>11. h \o Z \in Seq(Places) /\ <<>> \o (h \o Z) = h \o Z
  BY <1>6, <1>8
<1> QED
  BY <1>1, <1>3, <1>8, <1>9, <1>10, <1>11

LEMMA SplitAt ==
    ASSUME NEW S, NEW x \in Seq(S), NEW z \in Seq(S)
    PROVE  /\ x = SubSeq(x \o z, 1, Len(x))
           /\ z = SubSeq(x \o z, Len(x) + 1, Len(x \o z))
<1> DEFINE a == x \o z
           m == Len(x)
           n == Len(z)
<1>1. /\ m \in Nat /\ n \in Nat /\ a \in Seq(S) /\ Len(a) = m + n
      /\ \A i \in 1..(m + n) : a[i] = IF i <= m THEN x[i] ELSE z[i - m]
  <2>1. m \in Nat /\ n \in Nat
    OBVIOUS
  <2> QED
    BY <2>1, ConcatProperties
<1>2. (\A i \in 1..m : x[i] \in S) /\ (\A i \in 1..n : z[i] \in S)
  OBVIOUS
<1> HIDE DEF a, m, n
<1>3. \A i \in 1..(m + n) : a[i] \in S
  <2>1. Len(a) = m + n /\ a \in Seq(S)
    BY <1>1
  <2> QED
    BY <2>1
<1>4. \A i \in 1..m : a[i] = x[i] /\ a[i] \in S
  BY <1>1, <1>2
<1>5. \A i \in 1..n : a[m + i] = z[i]
  <2>1. SUFFICES ASSUME NEW i \in 1..n PROVE a[m + i] = z[i]
    OBVIOUS
  <2>2. PICK j \in 1..(m + n) : j = m + i
    BY <1>1
  <2>3. ~(j <= m) /\ j - m = i
    BY <1>1, <2>2
  <2> QED
    BY <1>1, <2>2, <2>3
<1>6. x = SubSeq(a, 1, m)
  <2> DEFINE b == SubSeq(a, 1, m)
  <2>1. /\ b \in Seq(S) /\ Len(b) = IF 1 <= m THEN m - 1 + 1 ELSE 0
        /\ \A i \in 1..(m - 1 + 1) : b[i] = a[1 + i - 1]
    BY <1>1, <1>4, SubSeqProperties
  <2>2. m - 1 + 1 = m /\ (1 <= m \/ m = 0) /\ \A i \in 1..m : 1 + i - 1 = i
    BY <1>1
  <2> HIDE DEF b
  <2>3. Len(b) = m /\ \A i \in 1..m : b[i] = x[i]
    BY <1>4, <2>1, <2>2
  <2>4. b = x
    BY <2>1, <2>3, SeqEqual DEF m
  <2> QED
    BY <2>4 DEF b
<1>7. z = SubSeq(a, m + 1, m + n)
  <2>0. PICK k \in Int, l \in Int : k = m + 1 /\ l = m + n
    BY <1>1
  <2> DEFINE b == SubSeq(a, k, l)
  <2>1. \A i \in k..l : a[i] \in S
    BY <1>1, <1>3, <2>0
  <2>3. /\ b \in Seq(S) /\ Len(b) = IF k <= l THEN l - k + 1 ELSE 0
        /\ \A i \in 1..(l - k + 1) : b[i] = a[k + i - 1]
    BY <2>1, SubSeqProperties
  <2>4. l - k + 1 = n /\ (k <= l \/ n = 0) /\ \A i \in 1..n : k + i - 1 = m + i
    BY <1>1, <2>0
  <2> HIDE DEF b
  <2>5. Len(b) = n /\ \A i \in 1..n : b[i] = a[m + i]
    BY <2>3, <2>4
  <2>6. b = z
    BY <1>5, <2>3, <2>5, SeqEqual DEF n
  <2> QED
    BY <2>0, <2>6 DEF b
<1> QED
  BY <1>1, <1>6, <1>7 DEF a, m

\* The parser is given what is oldest.
LEMMA ParseGets ==
    ASSUME TypeOK, NEW s \in Chains(RxBlocks), Holds(s), Parse, survives, ~torn
    PROVE  Fifo!Get \/ UNCHANGED <<arrived, Held, parsed>>
<1> DEFINE x == Received(node, size[node])
           X == FlattenSeq(ReceivedIn(s))
           Y == Received(current, fill)
           z == X \o Y
<1>1. /\ pc = "parse" /\ pc' = "freedata" /\ parsed' = parsed \o x
      /\ UNCHANGED <<survives, buffer, size, content, fill, current, arrived, node, torn>>
  BY DEF Parse, Goto, driver, ghosts
<1>2. TypeOK' /\ Holds(s)'
  BY ParseKeeps
<1>3. Held = Waits(s) /\ Held' = Waits(s)'
  BY <1>2, HeldIsWaiting, HeldIsWaitingAfter DEF HeldWaits
<1>4. x \in Seq(Places) /\ X \in Seq(Places) /\ Y \in Seq(Places) /\ parsed \in Seq(Places)
  BY <1>1, WaitsFacts DEF Parsing, TypeOK, Places
<1>5. Waits(s) = x \o X \o Y
  BY <1>1 DEF Waits, Parsing
<1>6. Waits(s)' = <<>> \o X \o Y
  <2>1. Parsing' = <<>> /\ ReceivedIn(s)' = ReceivedIn(s) /\ Received(current, fill)' = Y
    BY <1>1 DEF Parsing, ReceivedIn, Received
  <2> QED
    BY <2>1 DEF Waits
<1> HIDE DEF x, X, Y
<1>7. Held = x \o z /\ Held' = z /\ z \in Seq(Places)
  <2>1. x \o X \o Y = x \o z /\ <<>> \o X = X /\ z \in Seq(Places)
    BY <1>4
  <2> QED
    BY <1>3, <1>5, <1>6, <2>1
<1> HIDE DEF z
<1>8. CASE Len(x) = 0
  <2>1. x = <<>> /\ parsed \o x = parsed /\ x \o z = z
    BY <1>4, <1>7, <1>8
  <2> QED
    BY <1>1, <1>7, <2>1
<1>9. CASE Len(x) # 0
  <2>1. x = SubSeq(Held, 1, Len(x)) /\ Held' = SubSeq(Held, Len(x) + 1, Len(Held))
    BY <1>4, <1>7, SplitAt
  <2>2. Len(x) \in 1..Len(Held)
    <3>1. Len(x) \in Nat /\ Len(z) \in Nat /\ Len(x \o z) = Len(x) + Len(z)
      BY <1>4, <1>7
    <3> QED
      BY <1>7, <1>9, <3>1
  <2>3. parsed' = parsed \o SubSeq(Held, 1, Len(x))
    BY <1>1, <2>1
  <2>4. Whole /\ Whole'
    BY <1>1 DEF Whole
  <2> QED
    BY <1>1, <2>1, <2>2, <2>3, <2>4 DEF Fifo!Get
<1> QED
  BY <1>8, <1>9

LEMMA NothingHeld == Init => Held = <<>>
<1> SUFFICES ASSUME Init PROVE Held = <<>>
  OBVIOUS
<1>1. PICK s \in Chains(RxBlocks) : TypeOK /\ Holds(s)
  BY InitRx DEF RxIntact, Holds
<1>2. list.head = Null /\ fill = 0 /\ pc = "start"
  BY DEF Init, EmptyList, Null, NullPtr
<1>3. s = <<>>
  <2>1. SUFFICES ASSUME s # <<>> PROVE FALSE
    OBVIOUS
  <2>2. list.head = s[1] /\ 1 \in DOMAIN s
    BY <1>1, <1>2, <2>1, HeadAndLast, RxConstants DEF Holds, RxList, TypeOK
  <2>3. s[1] \in Items
    BY <1>1, <2>2, BlockFacts DEF ElementsOf
  <2> QED
    BY <1>2, <2>2, <2>3, RxConstants
<1>4. Parsing = <<>> /\ Received(current, fill) = <<>>
  BY <1>2, NothingReceived DEF Parsing, Received
<1>5. FlattenSeq(ReceivedIn(s)) = <<>>
  <2>1. ReceivedIn(s) = <<>>
    BY <1>3 DEF ReceivedIn
  <2> QED
    BY <2>1 DEF FlattenSeq
<1>6. Held = Waits(s)
  BY <1>1, HeldIsWaiting DEF HeldWaits
<1> QED
  BY <1>4, <1>5, <1>6 DEF Waits

\* The receive side implements the queue when the transfer count survives: what
\* the parser is given is in the order of arrival and nothing of it is repeated
\* or made up, whatever the interrupt drops for want of memory and wherever it
\* comes, until it tears the list.
THEOREM RxImplementsFifo == Spec => ImplementsFifo
<1>1. Init => Fifo!Init
  BY NothingHeld DEF Init, Whole, Fifo!Init
<1>2. [Next]_vars => survives' = survives
  BY DEF Next, Arrive, IdleInterrupt, Task, GetBlock, Register, Take, ReadHead, TestOnly, Relink,
         RelinkBetween, SetHead, Unlinking, Parse, FreeData, FreeBlock, driver, vars
<1>3. ASSUME RxInv, [Next]_vars, survives, ~torn'
      PROVE  Fifo!Next \/ UNCHANGED <<arrived, Held, parsed>>
  <2>1. ~torn /\ survives' = survives
    BY <1>2, <1>3, TornStays
  <2>2. Whole /\ Whole'
    BY <1>3, <2>1 DEF Whole
  <2>3. RxIntact
    BY <1>3, <2>1 DEF RxInv
  <2>4. PICK s \in Chains(RxBlocks) : TypeOK /\ Holds(s)
    BY <2>3 DEF RxIntact, Holds
  <2>5. CASE Arrive
    BY <1>3, <2>1, <2>4, <2>5, ArrivePuts DEF Fifo!Next
  <2>6. CASE IdleInterrupt
    BY <1>3, <2>2, <2>4, <2>6, InterruptLoses DEF Fifo!Next, Fifo!Lose
  <2>7. CASE RelinkBetween
    BY <2>4, <2>7, RelinkBetweenTears
  <2>8. CASE SetHead
    BY <2>4, <2>8, UnlinkHolds
  <2>9. CASE Parse
    BY <1>3, <2>1, <2>4, <2>9, ParseGets DEF Fifo!Next
  <2>10. CASE Register \/ Take \/ ReadHead \/ TestOnly \/ Relink \/ FreeData \/ FreeBlock
    BY <1>3, <2>4, <2>10, HoldsOn
  <2>11. CASE UNCHANGED vars
    BY <2>11 DEF vars, driver, ghosts, Held, Listed, InList, Received
  <2> QED
    BY <1>3, <2>5, <2>6, <2>7, <2>8, <2>9, <2>10, <2>11 DEF Next, Task, GetBlock
<1>4. ASSUME RxInv, [Next]_vars
      PROVE  [torn' \/ Fifo!Next]_(Fifo!vars)
  <2>1. SUFFICES ASSUME ~torn' PROVE Fifo!Next \/ UNCHANGED Fifo!vars
    OBVIOUS
  <2>2. ~torn /\ survives' = survives
    BY <1>2, <1>4, <2>1, TornStays
  <2>3. CASE survives
    <3>1. Fifo!Next \/ UNCHANGED <<arrived, Held, parsed>>
      BY <1>3, <1>4, <2>1, <2>3
    <3>2. Whole /\ Whole'
      BY <2>1, <2>2, <2>3 DEF Whole
    <3>3. UNCHANGED <<arrived, Held, parsed>> => UNCHANGED Fifo!vars
      BY <3>2 DEF Fifo!vars
    <3> QED
      BY <3>1, <3>3
  <2>4. CASE ~survives
    <3>1. ~Whole /\ ~Whole'
      BY <2>2, <2>4 DEF Whole
    <3> QED
      BY <3>1 DEF Fifo!vars
  <2> QED
    BY <2>3, <2>4
<1>5. RxInv /\ [Next]_vars => [torn' \/ Fifo!Next]_(Fifo!vars)
  BY <1>4
<1> QED
  BY <1>1, <1>5, RxCorrect, PTL DEF Spec, ImplementsFifo
================================================================================
