---------------------------- MODULE XlinkRegistry ----------------------------
(***************************************************************************)
(* The message handlers of an xlink context: a singly linked list that one *)
(* thread changes (register, unregister, delete, under global_mutex) while *)
(* the receive thread walks it in xlink_process_rx, without the mutex.     *)
(*                                                                         *)
(* Elements are cells of memory that malloc and free hand out again.  What *)
(* the receive thread reads from a freed cell is undefined: it finds       *)
(* nothing, or what the cell held, or is lost ("wild").  All handlers are  *)
(* of one component, as in the tool and in the application.                *)
(***************************************************************************)
EXTENDS DList, FiniteSets, SequencesExt

CONSTANTS
    Handlers,    \* what is registered: a function with its user_data
    Messages,    \* message IDs
    MsgOf,       \* the message a handler is registered for
    Cells        \* number of cells malloc has for elements

ASSUME RegistryAssumption ==
    /\ MsgOf \in [Handlers -> Messages]
    /\ Cells \in Nat \ {0}

Elements == 1..Cells

VARIABLES
    component,   \* the element of the component: "none", "live" or "freed"
    head,        \* its handlers_list
    last,        \* its handlers_list_pos; NullPtr is &handlers_list, e is &e->next
    holds,       \* the handler in each cell
    next,        \* the next field of each cell
    allocated,   \* the cells that malloc has given and free has not taken back
    current,     \* the cell xlink_unregister_msg_handler has unlinked
    rpc,         \* where the receive thread is
    frame,       \* the message ID of the frame it handles
    pos,         \* its handler_element
    calling,     \* the handler it is about to enter
    calls,       \* how often the walk called each handler, at most 2
    steady,      \* handlers registered since before the walk
    tainted      \* the element the walk stood on was freed

list == <<component, head, last, holds, next, allocated, current>>
walk == <<rpc, frame, pos, calling, calls>>
ghosts == <<steady, tainted>>
vars == <<list, walk, ghosts>>

None == <<>>

TypeOK ==
    /\ component \in {"none", "live", "freed"}
    /\ head \in Elements \cup {NullPtr} /\ last \in Elements \cup {NullPtr}
    /\ holds \in [Elements -> Handlers \cup {None}]
    /\ next \in [Elements -> Elements \cup {NullPtr}]
    /\ allocated \subseteq Elements /\ current \in Elements \cup {NullPtr}
    /\ rpc \in {"idle", "test", "load", "call", "next", "wild"}
    /\ frame \in Messages /\ pos \in Elements \cup {NullPtr}
    /\ rpc \in {"test", "load", "call", "next"} => pos # NullPtr
    /\ calling \in Handlers \cup {None}
    /\ calls \in [Handlers -> 0..2]
    /\ steady \subseteq Handlers /\ tainted \in BOOLEAN

\* xlink_context_create
Init ==
    /\ component = "none" /\ head = NullPtr /\ last = NullPtr
    /\ holds = [e \in Elements |-> None] /\ next = [e \in Elements |-> NullPtr]
    /\ allocated = {} /\ current = NullPtr
    /\ rpc = "idle" /\ frame \in Messages /\ pos = NullPtr
    /\ calling = None /\ calls = [h \in Handlers |-> 0]
    /\ steady = {} /\ tainted = FALSE

\* The elements of the list, in order.
Chain == [head |-> head, next |-> next]
InOrder == [k \in 1..Cardinality(Members(Chain, Cells)) |-> Walk(Chain, Cells)[k]]
Registered == {holds[e] : e \in ToSet(InOrder)}

--------------------------------------------------------------------------------
\* The thread that owns the context, one call at a time.
Ready == component # "freed" /\ current = NullPtr

\* *handlers_list_pos = e
LinkAtLast(e) ==
    IF last = NullPtr
    THEN head' = e /\ next' = [next EXCEPT ![e] = NullPtr]
    ELSE next' = [next EXCEPT ![e] = NullPtr, ![last] = e] /\ UNCHANGED head

\* As if handlers_list_pos were not moved.
LinkNewKeepsLast(h, e) ==
    /\ allocated' = allocated \cup {e}
    /\ holds' = [holds EXCEPT ![e] = h]
    /\ LinkAtLast(e)
    /\ UNCHANGED last

\* A new element is linked behind the last one.
LinkNew(h, e) ==
    /\ allocated' = allocated \cup {e}
    /\ holds' = [holds EXCEPT ![e] = h]
    /\ LinkAtLast(e)
    /\ last' = e

\* xlink_register_msg_handler.  A handler that is registered is refused.
RegisterMsgHandler(h) ==
    /\ Ready
    /\ h \notin Registered
    /\ \E e \in Elements \ allocated : LinkNew(h, e)
    /\ component' = "live"
    /\ UNCHANGED <<current, walk, ghosts>>

\* The same when malloc fails, for the component or for the element.
RegisterFails ==
    /\ Ready
    /\ component' \in {component, "live"}
    /\ UNCHANGED <<head, last, holds, next, allocated, current, walk, ghosts>>

\* The element behind before, or the first one, is taken out.
UnlinkAfter(before, e) ==
    IF before = NullPtr
    THEN head' = next[e] /\ UNCHANGED next
    ELSE next' = [next EXCEPT ![before] = next[e]] /\ UNCHANGED head

\* As if handlers_list_pos kept the address of the element.
UnlinkKeepsLast(before, e) ==
    /\ UnlinkAfter(before, e)
    /\ UNCHANGED last

Unlink(before, e) ==
    /\ UnlinkAfter(before, e)
    /\ last' = IF last = e THEN before ELSE last

\* xlink_unregister_msg_handler up to the free; FreeElement is the free.
UnregisterMsgHandler(h) ==
    /\ Ready
    /\ \E k \in DOMAIN InOrder :
        /\ holds[InOrder[k]] = h
        /\ Unlink(IF k = 1 THEN NullPtr ELSE InOrder[k - 1], InOrder[k])
        /\ current' = InOrder[k]
    /\ steady' = steady \ {h}
    /\ UNCHANGED <<component, holds, allocated, walk, tainted>>

\* The fields of a freed cell are lost, but next, which the receive thread may
\* find as it was.
Release(cells) ==
    /\ allocated' = allocated \ cells
    /\ holds' = [e \in Elements |-> IF e \in cells THEN None ELSE holds[e]]
    /\ tainted' = (tainted \/ (rpc # "idle" /\ pos \in cells))

\* As if the element were not freed.
FreeElementForgotten ==
    /\ current # NullPtr
    /\ current' = NullPtr
    /\ UNCHANGED <<component, head, last, holds, next, allocated, walk, ghosts>>

FreeElement ==
    /\ current # NullPtr
    /\ Release({current})
    /\ current' = NullPtr
    /\ UNCHANGED <<component, head, last, next, walk, steady>>

\* xlink_context_delete
ContextDelete ==
    /\ Ready
    /\ Release(ToSet(InOrder))
    /\ component' = "freed" /\ steady' = {}
    /\ UNCHANGED <<head, last, next, current, walk>>

--------------------------------------------------------------------------------
\* The receive thread, in xlink_process_rx.
Goto(from, to) == rpc = from /\ rpc' = to

\* The walk goes to an element, or ends at the NULL pointer.
GoOn(from, e) ==
    /\ Goto(from, IF e = NullPtr THEN "idle" ELSE "test")
    /\ pos' = e

BeginWalk(m) ==
    /\ frame' = m
    /\ calls' = [h \in Handlers |-> 0]
    /\ tainted' = FALSE
    /\ steady' = IF component = "live" THEN Registered ELSE {}
    /\ UNCHANGED <<list, calling>>

\* A frame with the right CRC: the component is looked up, the head is read.
Frame(m) ==
    /\ CASE component = "live"  -> GoOn("idle", head)
         [] component = "none"  -> GoOn("idle", NullPtr)
         [] component = "freed" -> GoOn("idle", NullPtr) \/ (Goto("idle", "wild") /\ UNCHANGED pos)
    /\ BeginWalk(m)

\* Does the element at pos carry the message ID of the frame?
Test ==
    /\ rpc = "test"
    /\ IF pos \in allocated
       THEN Goto("test", IF MsgOf[holds[pos]] = frame THEN "load" ELSE "next")
       ELSE Goto("test", "load") \/ Goto("test", "next")
    /\ UNCHANGED <<list, frame, pos, calling, calls, ghosts>>

\* Its handler and user_data are read.
Load ==
    /\ rpc = "load"
    /\ IF pos \in allocated
       THEN Goto("load", "call") /\ calling' = holds[pos]
       ELSE Goto("load", "wild") /\ UNCHANGED calling
    /\ UNCHANGED <<list, frame, pos, calls, ghosts>>

\* As if the first handler of the message ended the walk.
CallFirstOnly ==
    /\ Goto("call", "idle")
    /\ calls' = [calls EXCEPT ![calling] = IF @ = 2 THEN 2 ELSE @ + 1]
    /\ calling' = None
    /\ UNCHANGED <<list, frame, pos, ghosts>>

Call ==
    /\ Goto("call", "next")
    /\ calls' = [calls EXCEPT ![calling] = IF @ = 2 THEN 2 ELSE @ + 1]
    /\ calling' = None
    /\ UNCHANGED <<list, frame, pos, ghosts>>

NextElement ==
    /\ rpc = "next"
    /\ \/ GoOn("next", next[pos])
       \/ /\ pos \notin allocated
          /\ GoOn("next", NullPtr) \/ (Goto("next", "wild") /\ UNCHANGED pos)
    /\ UNCHANGED <<list, frame, calling, calls, ghosts>>

Owner ==
    \/ \E h \in Handlers : RegisterMsgHandler(h) \/ UnregisterMsgHandler(h)
    \/ RegisterFails \/ FreeElement \/ ContextDelete

Receiver == (\E m \in Messages : Frame(m)) \/ Test \/ Load \/ Call \/ NextElement

Next == Owner \/ Receiver

Spec == Init /\ [][Next]_vars

--------------------------------------------------------------------------------
\* The list implements the table: what is registered and not unregistered is
\* found, in the order of registration, whichever elements were unlinked
\* before.  (That a registration is not lost is CellsAccounted.)
Table == INSTANCE HandlerTable WITH
    table <- IF component = "freed" THEN <<>> ELSE [k \in DOMAIN InOrder |-> holds[InOrder[k]]]
ImplementsTable == Table!Spec

\* Every cell that malloc gave is in the list, or unlinked and about to be
\* freed: none leaks, none is freed twice, the list has no freed cell, and a new
\* element is linked where the list ends, whatever was unlinked before.
CellsAccounted ==
    component # "freed" => allocated = ToSet(InOrder) \cup ({current} \ {NullPtr})

\* A walk whose element was not freed under it has called every handler of the
\* message that stayed registered, and each once, although the owner links and
\* unlinks others meanwhile.
WalkCallsEach ==
    rpc = "idle" /\ ~tainted =>
        \A h \in steady : MsgOf[h] = frame => calls[h] = 1

\* A handler that was "Successfully unregistered" (xlink.h:324) is gone: the
\* receive thread neither stands on its element nor is about to enter it.
UnregisteredIsGone ==
    component = "live" /\ current = NullPtr =>
        /\ rpc \in {"test", "load", "next"} => pos \in allocated
        /\ rpc = "call" => calling \in Registered

--------------------------------------------------------------------------------
(* Why: the elements of the list are a chain s, and the walk divides it into  *)
(* those it has passed and those it will come to.                             *)

\* The pointers link s, and s has every cell in use but the unlinked one.
ListIs(s) ==
    /\ Linked(Chain, s)
    /\ last = IF s = <<>> THEN NullPtr ELSE s[Len(s)]
    /\ current \notin ElementsOf(s)
    /\ allocated = ElementsOf(s) \cup ({current} \ {NullPtr})

\* No handler has two elements.
HandlersDiffer ==
    \A e, f \in allocated : holds[e] \in Handlers /\ (holds[e] = holds[f] => e = f)

\* The walk stands on an element of s or on the unlinked one, and s[r] is next.
StandsBefore(s, r) ==
    /\ pos # NullPtr /\ (pos = current \/ (r > 1 /\ pos = s[r - 1]))
    /\ next[pos] = IF r > Len(s) THEN NullPtr ELSE s[r]
    /\ rpc \in {"load", "call"} => MsgOf[holds[pos]] = frame
    /\ rpc = "call" => calling = holds[pos]

\* The handlers that the walk owes a call had theirs if their element is behind.
CallsSoFar(s, r) ==
    \A k \in DOMAIN s :
        LET h == holds[s[k]]
        IN  h \in steady /\ MsgOf[h] = frame =>
                calls[h] = IF k < r /\ (s[k] # pos \/ rpc = "next") THEN 1 ELSE 0

Walking(s) ==
    /\ steady \subseteq {holds[s[k]] : k \in DOMAIN s}
    /\ \E r \in 1..(Len(s) + 1) : StandsBefore(s, r) /\ CallsSoFar(s, r)

\* The list is whole and the walk is on its way through it, whatever was linked,
\* unlinked and freed since the walk began: the owner and the receive thread
\* share the next fields without a lock.
RegistryInv ==
    /\ TypeOK /\ WalkCallsEach
    /\ component = "none" => rpc = "idle"
    /\ component # "live" => steady = {}
    /\ component = "freed" => current = NullPtr
    /\ component # "freed" =>
        /\ HandlersDiffer
        /\ \E s \in Chains(Cells) :
            /\ ListIs(s)
            /\ component = "live" /\ rpc # "idle" /\ ~tainted => Walking(s)
================================================================================
