-------------------------------- MODULE UartTx --------------------------------
(***************************************************************************)
(* The transmit side of src/drv_simple_uart.c with its pools.  xlink_send, *)
(* which only xlinkTask calls, takes an element, writes a frame into its   *)
(* buffer and appends it to tx_dma_list; the DMA sends the first element   *)
(* of the list and its interrupt frees it and starts the next one.         *)
(*                                                                         *)
(* The priority the driver gives the interrupt (:495) is above what        *)
(* taskENTER_CRITICAL masks, so the interrupt may come between any two     *)
(* statements, those of a critical section too.  The ghost torn records    *)
(* that it came where that does harm.                                      *)
(***************************************************************************)
EXTENDS DList, OsPool, Sequences, FiniteSets

CONSTANTS
    TxItems,          \* items of each transmit pool (TX_DMA_DATA_MAX_CNT)
    MaxFrames         \* bound on the frames that xlink_send is called for

ASSUME TxAssumption == TxItems \in Nat \ {0} /\ MaxFrames \in Nat

VARIABLES
    list,      \* tx_dma_list
    elements,  \* tx_dma_element_pool
    datas,     \* tx_dma_data_pool
    buffer,    \* the buffer field of each element
    content,   \* the frame in each item of tx_dma_data_pool
    state,     \* tx_dma_state
    dma,       \* the buffer the DMA reads from; Null when it is stopped
    pc,        \* where xlinkTask is
    frame,     \* the element that xlink_send holds
    first,     \* the head of the list as DL_APPEND read it
    called,    \* frames that xlink_send was called for
    refused,   \* those it returned -1 for
    sent,      \* frames on the line
    torn       \* the interrupt came where DL_APPEND must not be interrupted

pools == <<elements, datas, buffer>>
vars == <<list, pools, content, state, dma, pc, frame, first, called, refused, sent, torn>>

Items == 1..TxItems
Frames == 1..MaxFrames

TypeOK ==
    /\ list \in Lists(TxItems)
    /\ elements \in Pools(TxItems) /\ datas \in Pools(TxItems)
    /\ buffer \in [Items -> Items \cup {Null}]
    /\ content \in [Items -> 0..MaxFrames]
    /\ state \in {0, 1} /\ dma \in Items \cup {Null}
    /\ pc \in {"ready", "data", "fill", "append", "back", "forward", "tail", "end", "start", "fault"}
    /\ {frame, first} \subseteq Items \cup {Null} /\ torn \in BOOLEAN
    /\ called \in 0..MaxFrames /\ refused \subseteq 0..MaxFrames /\ sent \in Seq(0..MaxFrames)

Init ==
    /\ list = EmptyList(TxItems)
    /\ elements \in FreshPools(TxItems) /\ datas \in FreshPools(TxItems)
    /\ buffer = [e \in Items |-> Null] /\ content = [d \in Items |-> 0]
    /\ state = 0 /\ dma = Null
    /\ pc = "ready" /\ frame = Null /\ first = Null
    /\ called = 0 /\ refused = {} /\ sent = <<>> /\ torn = FALSE

Goto(from, to) == pc = from /\ pc' = to

--------------------------------------------------------------------------------
\* xlink_send: gd32_uart_alloc_dma_element, an element and then a buffer.
Refuse ==
    /\ refused' = refused \cup {called'}
    /\ UNCHANGED <<list, content, state, dma, first, sent, torn>>

AllocElement ==
    /\ pc = "ready" /\ called < MaxFrames
    /\ called' = called + 1
    /\ IF HasFree(elements, TxItems)
       THEN /\ pc' = "data"
            /\ frame' = FreeItem(elements, TxItems)
            /\ elements' = Alloc(elements, TxItems)
            /\ UNCHANGED <<list, datas, buffer, content, state, dma, first, refused, sent, torn>>
       ELSE Refuse /\ UNCHANGED <<pc, frame, pools>>

AllocData ==
    /\ pc = "data"
    /\ UNCHANGED called
    /\ IF HasFree(datas, TxItems)
       THEN /\ pc' = "fill"
            /\ buffer' = [buffer EXCEPT ![frame] = FreeItem(datas, TxItems)]
            /\ datas' = Alloc(datas, TxItems)
            /\ list' = Detached(list, frame)
            /\ UNCHANGED <<elements, content, state, dma, frame, first, refused, sent, torn>>
       ELSE /\ Refuse
            /\ pc' = "ready"
            /\ elements' = Free(elements, frame)
            /\ frame' = Null
            /\ UNCHANGED <<datas, buffer>>

\* The frame is written into the buffer.
Fill ==
    /\ Goto("fill", "append")
    /\ content' = [content EXCEPT ![buffer[frame]] = called]
    /\ UNCHANGED <<list, pools, state, dma, frame, first, called, refused, sent, torn>>

\* gd32_uart_append_dma_send_list: DL_APPEND statement by statement, then the
\* start of the DMA.  To an empty list the interrupt has nothing to do.
Appended == UNCHANGED <<pools, content, state, dma, frame, called, refused, sent>>

AppendFirst ==
    /\ list.head = Null
    /\ Goto("append", "start")
    /\ list' = Only(list, frame)
    /\ Appended /\ UNCHANGED <<first, torn>>

\* As if the list were never found empty.
AppendNextBlind ==
    /\ Goto("append", "back")
    /\ first' = list.head
    /\ Appended /\ UNCHANGED <<list, torn>>

AppendNext ==
    /\ list.head # Null
    /\ Goto("append", "back")
    /\ first' = list.head
    /\ Appended /\ UNCHANGED <<list, torn>>

\* The head that a statement of DL_APPEND goes through: a build without
\* optimisation reads it again, one with -O2 keeps it in a register.
Heads == {first, list.head}

AppendBack ==
    /\ \E h \in Heads :
        IF h = Null THEN Goto("back", "fault") /\ UNCHANGED list
        ELSE Goto("back", "forward") /\ list' = LinkBack(list, h, frame)
    /\ Appended /\ UNCHANGED <<first, torn>>

AppendForward ==
    /\ \E h \in Heads :
        IF h = Null THEN Goto("forward", "fault") /\ UNCHANGED list
        ELSE Goto("forward", "tail") /\ list' = LinkForward(list, h, frame)
    /\ Appended /\ UNCHANGED <<first, torn>>

\* The pointer to the last element is lost when it is written to an element
\* that is not the first any more.
AppendTail ==
    /\ \E h \in Heads :
        /\ IF h = Null THEN Goto("tail", "fault") /\ UNCHANGED list
           ELSE Goto("tail", "end") /\ list' = WithPrev(list, h, frame)
        /\ torn' = (torn \/ h # list.head)
    /\ first' = Null
    /\ Appended

AppendEnd ==
    /\ Goto("end", "start")
    /\ list' = WithNext(list, frame, Null)
    /\ Appended /\ UNCHANGED <<first, torn>>

\* tx_dma_state is tested and the DMA started.
Started ==
    /\ frame' = Null
    /\ UNCHANGED <<list, pools, content, first, called, refused, sent, torn>>

\* As if the DMA were started with the frame that was appended.
StartOwnFrame ==
    /\ Goto("start", "ready")
    /\ state' = 1 /\ dma' = buffer[frame]
    /\ Started


Start ==
    /\ IF state = 1 THEN Goto("start", "ready") /\ UNCHANGED <<state, dma>>
       ELSE /\ state' = 1
            /\ IF list.head = Null THEN Goto("start", "fault") /\ UNCHANGED dma
               ELSE Goto("start", "ready") /\ dma' = buffer[list.head]
    /\ Started

Task ==
    \/ AllocElement \/ AllocData \/ Fill
    \/ AppendFirst \/ AppendNext \/ AppendBack \/ AppendForward \/ AppendTail \/ AppendEnd
    \/ Start

--------------------------------------------------------------------------------
\* Between the test of the head and that of tx_dma_state.
Appending == pc \in {"back", "forward", "tail", "end", "start"}

\* The DMA has sent its buffer: dma_tx_isr frees the first element.  If that
\* empties the list under DL_APPEND, the frame being linked hangs in the air.
FreeFirst ==
    /\ dma # Null
    /\ sent' = Append(sent, content[dma])
    /\ list' = DLDelete(list, list.head)
    /\ elements' = Free(elements, list.head)
    /\ torn' = (torn \/ (Appending /\ list'.head = Null))
    /\ UNCHANGED <<buffer, content, pc, frame, first, called, refused>>

\* As if its buffer were not freed.
InterruptLeaks ==
    /\ FreeFirst
    /\ dma' = IF list'.head # Null THEN buffer[list'.head] ELSE Null
    /\ state' = IF list'.head # Null THEN state ELSE 0
    /\ UNCHANGED datas

\* As if the next element were left to the next call.
InterruptForgetsNext ==
    /\ FreeFirst
    /\ datas' = Free(datas, buffer[list.head])
    /\ dma' = Null
    /\ state' = IF list'.head # Null THEN state ELSE 0

\* dma_tx_isr, which then starts the next element or stops.
Interrupt ==
    /\ FreeFirst
    /\ datas' = Free(datas, buffer[list.head])
    /\ IF list'.head # Null
       THEN dma' = buffer[list'.head] /\ UNCHANGED state
       ELSE dma' = Null /\ state' = 0

Next == Task \/ Interrupt

Spec == Init /\ [][Next]_vars

\* The DMA ends every transfer, its interrupt is served, and the task is
\* scheduled until it has sent what it wants to.
FairSpec == Spec /\ WF_vars(Interrupt) /\ WF_vars(Task)

--------------------------------------------------------------------------------
InList == Members(list, TxItems)

\* "tx_dma_state; // 0:stop 1:running" (drv_simple_uart.c:29): it tells whether
\* the DMA runs, and when it runs it reads the buffer of the first element,
\* also while DL_APPEND is under way.
StateIsHonest ==
    ~torn /\ pc # "start" =>
        /\ state = 1 <=> dma # Null
        /\ dma = IF list.head = Null THEN Null ELSE buffer[list.head]

\* Every item of the transmit pools is free, in the list, or with xlink_send.
ItemsAccounted ==
    ~torn =>
        /\ elements.used = InList \cup ({frame} \ {Null})
        /\ datas.used = {buffer[e] : e \in InList \cup (IF pc \in {"ready", "data"} THEN {} ELSE {frame})}
        /\ pc \in {"data", "fill", "append"} => frame \notin InList

\* xlink_send is refused only for want of an element: when there is one there
\* is a buffer too.
BufferForElement == ~torn /\ pc = "data" => HasFree(datas, TxItems)

\* The list, from its head.
Listed == [k \in 1..Cardinality(InList) |-> Walk(list, TxItems)[k]]

\* The frame that xlink_send has not linked yet.
Unlinked == pc \in {"data", "fill", "append", "back", "forward"}

\* The frames that the driver has not sent.
Held ==
    [k \in DOMAIN Listed |-> content[buffer[Listed[k]]]]
        \o (IF Unlinked THEN <<called>> ELSE <<>>)

\* Frames leave whole and in the order of the calls, none twice; what is
\* linked and what is being linked waits in that order.  Wherever the
\* interrupt comes: until it tears the list, every step is one of the queue.
Fifo == INSTANCE LossyFifo WITH
    put <- called, queue <- IF torn THEN <<>> ELSE Held, got <- sent
ImplementsFifo == Fifo!Init /\ [][torn' \/ Fifo!Next]_(Fifo!vars)

\* A frame that was not refused is sent, if the list is not torn.
EverySent ==
    \A n \in Frames :
        called = n ~> torn \/ n \in refused \/ \E i \in 1..Len(sent) : sent[i] = n


--------------------------------------------------------------------------------
(* Why these hold: the inductive invariant of UartTxProofs.  s are the        *)
(* elements that are linked.                                                  *)

\* first may have left the list, but points to the last element still.
TxList(s) ==
    /\ BackLinked(list, s)
    /\ Linked(list, IF pc = "tail" THEN Append(s, frame) ELSE s)
    /\ IF pc \in {"back", "forward", "tail"}
       THEN s # <<>> /\ first \notin {Null, frame} /\ list.prev[first] = s[Len(s)]
       ELSE first = Null
    /\ pc \in {"fill", "append", "back", "forward"} => list.next[frame] = Null
    /\ pc \in {"forward", "tail"} => list.prev[frame] = s[Len(s)]

\* The elements that have a buffer.
Buffered(s) == ElementsOf(s) \cup (IF pc \in {"ready", "data"} THEN {} ELSE {frame})

TxPools(s) ==
    /\ pc = "ready" <=> frame = Null
    /\ pc \notin {"ready", "end", "start"} => frame \notin ElementsOf(s)
    /\ pc \in {"end", "start"} => s # <<>> /\ frame = s[Len(s)]
    /\ elements.used = ElementsOf(s) \cup ({frame} \ {Null})
    /\ datas.used = {buffer[e] : e \in Buffered(s)}
    /\ \A e \in Buffered(s) : buffer[e] # Null
    /\ \A e, f \in Buffered(s) : buffer[e] = buffer[f] => e = f

\* The DMA reads the buffer of the first element, unless that has just been
\* linked.
TxDma(s) ==
    /\ dma = IF state = 0 THEN Null ELSE buffer[s[1]]
    /\ state = 1 => s # <<>>
    /\ state = 0 => s = <<>> \/ (pc = "start" /\ Len(s) = 1)

TxContent(s) ==
    /\ pc # "ready" => called \in Frames
    /\ pc \notin {"ready", "data", "fill"} => content[buffer[frame]] = called
    /\ \A e \in ElementsOf(s) : content[buffer[e]] \in Frames

\* The pointers, the pools, the DMA and the buffers agree on the frames that
\* wait, between any two statements of the task and wherever the interrupt
\* comes, until it tears the list; and even then it finds an element to free.
TxInv ==
    /\ TypeOK
    /\ dma # Null => list.head # Null
    /\ ~torn =>
        /\ pc # "fault"
        /\ \E s \in Chains(TxItems) : TxList(s) /\ TxPools(s) /\ TxDma(s) /\ TxContent(s)
================================================================================
