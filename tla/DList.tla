--------------------------------- MODULE DList ---------------------------------
(***************************************************************************)
(* The doubly linked lists of inc/utlist.h that the UART driver uses: a    *)
(* head pointer and the next and prev fields of the elements 1..n.  The    *)
(* prev field of the first element points to the last one.  What follows   *)
(* from head and next alone is used for the list of xlink handlers too.    *)
(***************************************************************************)
EXTENDS Integers, Sequences

NullPtr == 0

EmptyList(n) ==
    [head |-> NullPtr, next |-> [e \in 1..n |-> NullPtr], prev |-> [e \in 1..n |-> NullPtr]]

Lists(n) == [head : 0..n, next : [1..n -> 0..n], prev : [1..n -> 0..n]]

\* Assignments to the head and to the fields of an element.  One through a NULL
\* pointer, which a torn list can lead to, changes no element.
WithHead(l, e) == [l EXCEPT !.head = e]
WithNext(l, e, f) == [l EXCEPT !.next[e] = f]
WithPrev(l, e, f) == [l EXCEPT !.prev[e] = f]

\* An element that was just allocated.
Detached(l, e) == WithNext(WithPrev(l, e, NullPtr), e, NullPtr)

\* The statements of DL_APPEND on a list that is not empty and whose head was
\* read as h (the last two together), and those on an empty one.
LinkBack(l, h, e) == WithPrev(l, e, l.prev[h])
LinkForward(l, h, e) == WithNext(l, l.prev[h], e)
MoveTail(l, e) == WithNext(WithPrev(l, l.head, e), e, NullPtr)
Only(l, e) == WithNext(WithPrev(WithHead(l, e), e, e), e, NullPtr)

\* As if DL_PREPEND were used.
DLPrepend(l, e) ==
    IF l.head = NullPtr THEN Only(l, e)
    ELSE WithHead(WithPrev(LinkBack(WithNext(l, e, l.head), l.head, e), l.head, e), e)

DLAppend(l, e) ==
    IF l.head = NullPtr THEN Only(l, e)
    ELSE MoveTail(LinkForward(LinkBack(l, l.head, e), l.head, e), e)

\* As if the new first element did not get the pointer to the last one.
DLDeleteHeadNoTail(l) ==
    IF l.prev[l.head] = l.head THEN WithHead(l, NullPtr) ELSE WithHead(l, l.next[l.head])

\* DL_DELETE of the first element.
DLDeleteHead(l) ==
    LET e == l.head
    IN  IF l.prev[e] = e
        THEN WithHead(l, NullPtr)
        ELSE WithPrev(WithHead(l, l.next[e]), l.next[e], l.prev[e])

\* DL_DELETE of any element.
DLDelete(l, e) ==
    IF l.prev[e] = e \/ e = l.head THEN DLDeleteHead(WithHead(l, e))
    ELSE LET back == WithNext(l, l.prev[e], l.next[e])
         IN  IF l.next[e] # NullPtr
             THEN WithPrev(back, l.next[e], l.prev[e])
             ELSE WithPrev(back, l.head, l.prev[e])

\* The elements that can be reached from the head, in order.
Walk(l, n) ==
    LET at[k \in 1..n] ==
            IF k = 1 THEN l.head
            ELSE IF at[k - 1] = NullPtr THEN NullPtr ELSE l.next[at[k - 1]]
    IN  at

Members(l, n) == {Walk(l, n)[k] : k \in 1..n} \ {NullPtr}

--------------------------------------------------------------------------------
(* What the pointers stand for: some elements, each once, in some order.      *)

Chains(n) ==
    {s \in UNION {[1..k -> 1..n] : k \in 0..n} : \A i, j \in DOMAIN s : s[i] = s[j] => i = j}

ElementsOf(s) == {s[k] : k \in DOMAIN s}

\* The head and the next fields link s.
Linked(l, s) ==
    /\ l.head = IF s = <<>> THEN NullPtr ELSE s[1]
    /\ \A k \in DOMAIN s : l.next[s[k]] = IF k = Len(s) THEN NullPtr ELSE s[k + 1]

\* The prev fields link s, and its first element to its last one.
BackLinked(l, s) ==
    \A k \in DOMAIN s : l.prev[s[k]] = IF k = 1 THEN s[Len(s)] ELSE s[k - 1]
================================================================================
