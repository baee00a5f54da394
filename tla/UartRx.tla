-------------------------------- MODULE UartRx --------------------------------
(***************************************************************************)
(* The receive side of src/drv_simple_uart.c with its pools, and the task  *)
(* that consumes it (xlinkTask of src/main.c).  The DMA fills the current  *)
(* block; when the line falls idle the interrupt appends the block to      *)
(* rx_block_list, signals the task and arms the DMA with a new block.      *)
(*                                                                         *)
(* A unit stands for some bytes; units are numbered as they arrive.        *)
(*                                                                         *)
(* The priority the driver gives the interrupt (:541) is above what        *)
(* taskENTER_CRITICAL masks, so the interrupt may come between any two     *)
(* statements of the task, those of get_rx_block and free_rx_block too.    *)
(* The ghost torn records that it came where that does harm.               *)
(***************************************************************************)
EXTENDS DList, OsPool, Sequences, FiniteSets, SequencesExt

CONSTANTS
    RxBlocks,         \* items of each receive pool (TX_DMA_DATA_MAX_CNT)
    BufUnits,         \* units that fill a block (BSP_UART1_RX_BUFSIZE)
    MaxUnits          \* bound on the units that arrive

ASSUME RxAssumption ==
    /\ RxBlocks \in Nat \ {0, 1} /\ BufUnits \in Nat \ {0} /\ MaxUnits \in Nat

VARIABLES
    survives,   \* dma_deinit leaves the transfer count of the channel alone
    list,       \* rx_block_list
    blocks,     \* rx_block_pool
    datas,      \* rx_data_pool
    buffer,     \* the buffer field of each block
    size,       \* the size field of each block
    content,    \* the units in each item of rx_data_pool; 0 is zeroed memory
    fill,       \* units the DMA has put into the current block
    current,    \* current_rx_block
    fresh,      \* the line fell idle, or will, since the last interrupt
    arrived,    \* units that arrived so far
    dropped,    \* units overwritten by the DMA or freed for want of memory
    parsed,     \* what xlink_process_rx was given
    sem,        \* uart_rx_semaphore
    indicate,   \* rx_indicate is set
    pc,         \* where xlinkTask is
    node,       \* its rx_block
    last,       \* node->prev as DL_DELETE read it
    torn        \* the interrupt came where get_rx_block must not be interrupted

driver == <<survives, list, blocks, datas, buffer, size, content, fill, current>>
ghosts == <<arrived, dropped>>
vars == <<driver, fresh, ghosts, parsed, sem, indicate, pc, node, last, torn>>

Items == 1..RxBlocks
Units == 1..MaxUnits

TypeOK ==
    /\ list \in Lists(RxBlocks)
    /\ blocks \in Pools(RxBlocks) /\ datas \in Pools(RxBlocks)
    /\ buffer \in [Items -> Items \cup {Null}]
    /\ size \in [Items -> 0..BufUnits] /\ fill \in 0..(BufUnits - 1)
    /\ content \in [Items -> [1..BufUnits -> 0..MaxUnits]]
    /\ current \in Items \cup {Null}
    /\ {survives, fresh, indicate, torn} \subseteq BOOLEAN /\ sem \in {0, 1}
    /\ arrived \in 0..MaxUnits /\ dropped \subseteq Units /\ parsed \in Seq(0..MaxUnits)
    /\ pc \in {"start", "take", "head", "unlink", "relink", "sethead", "parse", "freedata", "freeblock", "fault"}
    /\ {node, last} \subseteq Items \cup {Null}

--------------------------------------------------------------------------------
\* uart_init and gd32_dma_config: the pools are new, the first block is armed.
Init ==
    /\ survives \in BOOLEAN
    /\ list = EmptyList(RxBlocks)
    /\ \E p \in FreshPools(RxBlocks), q \in FreshPools(RxBlocks) :
        /\ current = FreeItem(p, RxBlocks)
        /\ blocks = Alloc(p, RxBlocks)
        /\ datas = Alloc(q, RxBlocks)
        /\ buffer = [b \in Items |-> IF b = FreeItem(p, RxBlocks) THEN FreeItem(q, RxBlocks) ELSE Null]
    /\ size = [b \in Items |-> 0] /\ fill = 0
    /\ content = [d \in Items |-> [i \in 1..BufUnits |-> 0]]
    /\ fresh = FALSE /\ arrived = 0 /\ dropped = {} /\ parsed = <<>>
    /\ sem = 0 /\ indicate = FALSE /\ pc = "start" /\ node = Null /\ last = Null
    /\ torn = FALSE

\* The units in the first n places of a buffer.
UnitsIn(d, n) == {content[d][i] : i \in 1..n} \ {0}

\* A unit arrives.  The DMA is circular: when the buffer is full it starts
\* from its first byte again, and what it held is not counted any more.
Arrive ==
    /\ arrived < MaxUnits /\ current # Null
    /\ arrived' = arrived + 1
    /\ fresh' = TRUE
    /\ content' = [content EXCEPT ![buffer[current]][fill + 1] = arrived']
    /\ IF fill + 1 < BufUnits
       THEN fill' = fill + 1 /\ UNCHANGED dropped
       ELSE fill' = 0 /\ dropped' = dropped \cup UnitsIn(buffer[current], fill) \cup {arrived'}
    /\ UNCHANGED <<survives, list, blocks, datas, buffer, size, current, parsed, sem, indicate, pc, node, last, torn>>

\* The DMA gets a new block, which is in no list, and a buffer for it, or none if
\* there is no buffer.
Arm(rest, bpool, dpool) ==
    LET b == FreeItem(bpool, RxBlocks)
        d == FreeItem(dpool, RxBlocks)
    IN  /\ list' = Detached(rest, b)
        /\ IF HasFree(dpool, RxBlocks)
           THEN /\ current' = b
                /\ blocks' = Alloc(bpool, RxBlocks)
                /\ datas' = Alloc(dpool, RxBlocks)
                /\ buffer' = [buffer EXCEPT ![b] = d]
           ELSE /\ current' = Null
                /\ blocks' = Free(Alloc(bpool, RxBlocks), b)
                /\ datas' = dpool
                /\ buffer' = [buffer EXCEPT ![b] = Null]

\* The units that dma_transfer_number_get accounts for after the dma_deinit of
\* gd32_uart_isr: those received, or a whole buffer if the count was reset.
Counted == IF survives THEN fill ELSE BufUnits

\* dma_recv_isr.  When no block is free the oldest one in the list is given up.
Receive ==
    /\ size' = [size EXCEPT ![current] = Counted]
    /\ fill' = 0
    /\ LET appended == DLAppend(list, current)
           oldest == appended.head
       IN  IF HasFree(blocks, RxBlocks)
           THEN /\ Arm(appended, blocks, datas)
                /\ UNCHANGED dropped
           ELSE /\ Arm(DLDelete(appended, oldest), Free(blocks, oldest), Free(datas, buffer[oldest]))
                /\ dropped' = dropped \cup UnitsIn(buffer[oldest], size'[oldest])

\* uart_rx_ind, if it is registered already.
Indicate == sem' = IF indicate THEN 1 ELSE sem

\* The block the task is unlinking was given up, or a block was appended where
\* the head is written next.
Tears ==
    \/ pc \in {"unlink", "relink"} /\ list'.head # node
    \/ pc = "sethead"

\* gd32_uart_isr with the IDLE flag set.  The bytes that arrive after it wait
\* for the next idle line.
IdleInterrupt ==
    /\ fresh /\ current # Null
    /\ fresh' = FALSE
    /\ Receive
    /\ Indicate
    /\ torn' = (torn \/ Tears)
    /\ UNCHANGED <<survives, content, arrived, parsed, indicate, pc, node, last>>

--------------------------------------------------------------------------------
\* xlinkTask.
Goto(from, to) == pc = from /\ pc' = to

\* gd32_uart_set_rx_indicate, before the loop.
Register ==
    /\ Goto("start", "take")
    /\ indicate' = TRUE
    /\ UNCHANGED <<driver, fresh, ghosts, parsed, sem, node, last, torn>>

Take ==
    /\ sem = 1
    /\ Goto("take", "head")
    /\ sem' = 0
    /\ UNCHANGED <<driver, fresh, ghosts, parsed, indicate, node, last, torn>>

\* get_rx_block: the head is read, then unlinked by DL_DELETE.
ReadHead ==
    /\ Goto("head", IF list.head = Null THEN "take" ELSE "unlink")
    /\ node' = list.head
    /\ UNCHANGED <<driver, fresh, ghosts, parsed, sem, indicate, last, torn>>

\* What DL_DELETE changes.
Unlinking ==
    UNCHANGED <<survives, blocks, datas, buffer, size, content, fill, current, fresh, ghosts, parsed, sem, indicate, node>>

\* Is it the only one?
TestOnly ==
    /\ Goto("unlink", IF list.prev[node] = node THEN "sethead" ELSE "relink")
    /\ last' = list.prev[node]
    /\ Unlinking /\ UNCHANGED <<list, torn>>

\* The next one gets the pointer to the last one.  A build without optimisation
\* reads that pointer again, one with -O2 has it in a register; with a block
\* that is appended in between it is lost.
Relink ==
    /\ pc = "relink"
    /\ \E p \in {last, list.prev[node]} :
        /\ IF list.next[node] = Null THEN pc' = "fault" /\ UNCHANGED list
           ELSE pc' = "sethead" /\ list' = WithPrev(list, list.next[node], p)
        /\ torn' = (torn \/ p # list.prev[node])
    /\ Unlinking /\ UNCHANGED last

\* Without optimisation the head is read again too, and a block that is not the
\* first any more is unlinked from between its neighbours.
RelinkBetween ==
    /\ pc = "relink" /\ node # list.head
    /\ IF list.prev[node] = Null THEN pc' = "fault" /\ UNCHANGED list
       ELSE pc' = "parse" /\ list' = DLDelete(list, node)
    /\ last' = Null
    /\ Unlinking /\ UNCHANGED torn

SetHead ==
    /\ Goto("sethead", "parse")
    /\ list' = WithHead(list, IF last = node THEN Null ELSE list.next[node])
    /\ last' = Null
    /\ Unlinking /\ UNCHANGED torn

\* The first n places of the buffer of a block.
Received(b, n) == SubSeq(content[buffer[b]], 1, n)

\* As if the block were given back before it is parsed.
ParseAfterFree ==
    /\ Goto("parse", "freedata")
    /\ parsed' = parsed \o Received(node, size[node])
    /\ blocks' = Free(blocks, node)
    /\ UNCHANGED <<survives, list, datas, buffer, size, content, fill, current, fresh, ghosts, sem, indicate, node, last, torn>>

\* xlink_process_rx for every byte of the block.
Parse ==
    /\ Goto("parse", "freedata")
    /\ parsed' = parsed \o Received(node, size[node])
    /\ UNCHANGED <<driver, fresh, ghosts, sem, indicate, node, last, torn>>

\* As if free_rx_block forgot the buffer.
FreeDataForgotten ==
    /\ Goto("freedata", "freeblock")
    /\ UNCHANGED <<driver, fresh, ghosts, parsed, sem, indicate, node, last, torn>>

\* free_rx_block: the buffer, then the block.
FreeData ==
    /\ Goto("freedata", "freeblock")
    /\ datas' = Free(datas, buffer[node])
    /\ UNCHANGED <<survives, list, blocks, buffer, size, content, fill, current, fresh, ghosts, parsed, sem, indicate, node, last, torn>>

\* As if only one block were taken for each signal.
FreeBlockOnce ==
    /\ Goto("freeblock", "take")
    /\ blocks' = Free(blocks, node)
    /\ node' = Null
    /\ UNCHANGED <<survives, list, datas, buffer, size, content, fill, current, fresh, ghosts, parsed, sem, indicate, last, torn>>

FreeBlock ==
    /\ Goto("freeblock", "head")
    /\ blocks' = Free(blocks, node)
    /\ node' = Null
    /\ UNCHANGED <<survives, list, datas, buffer, size, content, fill, current, fresh, ghosts, parsed, sem, indicate, last, torn>>

GetBlock == ReadHead \/ TestOnly \/ Relink \/ RelinkBetween \/ SetHead

Task == Register \/ Take \/ GetBlock \/ Parse \/ FreeData \/ FreeBlock

Next == Arrive \/ IdleInterrupt \/ Task

Spec == Init /\ [][Next]_vars

\* The interrupt is served and the task is scheduled.
FairSpec == Spec /\ WF_vars(IdleInterrupt) /\ WF_vars(Task)

--------------------------------------------------------------------------------
InList == Members(list, RxBlocks)
UnitsOf(b) ==
    UnitsIn(buffer[b], IF b = current THEN fill ELSE size[b])

\* The block that xlinkTask took from get_rx_block.
Taken == IF pc \in {"parse", "freedata", "freeblock"} THEN {node} ELSE {}

\* The interrupt always finds a block to append: current_rx_block is never
\* NULL, because a block and its buffer are freed and taken in pairs, also
\* when it comes between the two in free_rx_block.
HasReceiveBlock == ~torn => current # Null

\* Every item of the receive pools is free, in the list, filled by the DMA or
\* with the task, and in one of these places only: none leaks, none is shared.
BlocksAccounted ==
    ~torn =>
        /\ blocks.used = InList \cup {current} \cup Taken
        /\ current \notin InList \cup Taken /\ InList \cap Taken = {}
        /\ \A b, c \in InList \cup {current} \cup (IF pc = "freeblock" THEN {} ELSE Taken) :
            /\ buffer[b] \in datas.used
            /\ b # c => buffer[b] # buffer[c]

\* A unit that arrived is parsed, waiting, or was dropped for want of memory
\* or because the DMA buffer ran over.
UnitsAccounted ==
    ~torn =>
        1..arrived =
            (ToSet(parsed) \ {0}) \cup dropped
                \cup UNION {UnitsOf(b) : b \in InList \cup {current} \cup (IF pc = "parse" THEN {node} ELSE {})}

\* The list, from its head.
Listed == [k \in 1..Cardinality(InList) |-> Walk(list, RxBlocks)[k]]

\* What the driver holds: the block of the task, the list, the block of the DMA.
Held ==
    (IF pc = "parse" THEN Received(node, size[node]) ELSE <<>>)
        \o FlattenSeq([k \in DOMAIN Listed |-> Received(Listed[k], size[Listed[k]])])
        \o Received(current, fill)

\* Wherever the interrupt comes, the parser sees the bytes in the order in
\* which they arrived, none twice, and the rest waits in order: until the list
\* is torn, every step is one of the queue.
\* With a transfer count that dma_deinit resets this says nothing: a block then
\* ends with what its buffer held before.
Whole == survives /\ ~torn
Fifo == INSTANCE LossyFifo WITH
    put <- IF Whole THEN arrived ELSE 0,
    queue <- IF Whole THEN Held ELSE <<>>,
    got <- IF Whole THEN parsed ELSE <<>>
ImplementsFifo == Fifo!Init /\ [][torn' \/ Fifo!Next]_(Fifo!vars)

\* The block that is given up when memory is short is the oldest in the list
\* (drv_simple_uart.c:240, "free list head"), so it is not the one in the
\* hands of the task.
TakenIsNotFreed == node # Null => node \in blocks.used /\ node # current

\* After the indication is registered, all that arrived before a block ends is
\* parsed or dropped: no signal is lost although the semaphore is binary, and
\* what came before the registration is found too.
Served ==
    \A n \in Units :
        ~torn /\ indicate /\ fresh /\ n <= arrived ~> torn \/ n \in ToSet(parsed) \cup dropped

--------------------------------------------------------------------------------
(* Why these hold: the inductive invariant of UartRxProofs.  s are the blocks *)
(* in the list.                                                               *)

\* In the middle of DL_DELETE the second block points to the last one already.
RxList(s) ==
    /\ Linked(list, s)
    /\ BackLinked(list, IF pc = "sethead" THEN Tail(s) ELSE s)
    /\ pc \in {"unlink", "relink", "sethead"} => s # <<>> /\ node = s[1]
    /\ pc \in {"relink", "sethead"} => (last = node <=> Len(s) = 1)
    /\ pc = "relink" => Len(s) > 1

\* The blocks that have a buffer.
Buffered(s) == ElementsOf(s) \cup {current} \cup (IF pc = "freeblock" THEN {} ELSE Taken)

RxPools(s) ==
    /\ current # Null
    /\ node = Null <=> pc \in {"start", "take", "head"}
    /\ current \notin ElementsOf(s) \cup Taken /\ ElementsOf(s) \cap Taken = {}
    /\ blocks.used = ElementsOf(s) \cup {current} \cup Taken
    /\ datas.used = {buffer[b] : b \in Buffered(s)}
    /\ \A b \in Buffered(s) : buffer[b] # Null
    /\ \A b, c \in Buffered(s) : buffer[b] = buffer[c] => b = c

RxUnits(s) ==
    /\ \A d \in Items : \A i \in 1..BufUnits : content[d][i] <= arrived
    /\ 1..arrived =
        (ToSet(parsed) \ {0}) \cup dropped
            \cup UNION {UnitsOf(b) : b \in ElementsOf(s) \cup {current} \cup (IF pc = "parse" THEN {node} ELSE {})}

\* The pointers, the pools and the buffers agree on what was received, between
\* any two statements of the task and wherever the interrupt comes, until it
\* tears the list.
RxIntact ==
    /\ TypeOK
    /\ pc # "fault"
    /\ \E s \in Chains(RxBlocks) : RxList(s) /\ RxPools(s) /\ RxUnits(s)

RxInv == ~torn => RxIntact
================================================================================
