-------------------------------- MODULE OsPool --------------------------------
(***************************************************************************)
(* The fixed-size memory pools of src/freertos_mpool.c.  A pool has the    *)
(* items 1..n; Null is the NULL pointer.  osPoolAlloc tests a marker       *)
(* outside its critical section, but each pool of the driver has a single  *)
(* context that allocates from it, and the others only free: an allocation *)
(* takes effect at its first test.                                         *)
(***************************************************************************)
EXTENDS Integers

Null == 0

Pools(n) == [used : SUBSET (1..n), index : 0..(n - 1)]

\* osPoolInit clears the markers; currentIndex keeps what the heap held.
FreshPools(n) == [used : {{}}, index : 0..(n - 1)]

HasFree(pool, n) == pool.used # 1..n

\* As if the search did not start again at the first item.
FreeItemNoWrap(pool, n) ==
    pool.index + 1 + CHOOSE i \in 0..n :
        /\ pool.index + 1 + i \notin pool.used
        /\ \A j \in 0..(i - 1) : pool.index + 1 + j \in pool.used

\* The first free item from the one that was allocated last.
FreeItem(pool, n) ==
    LET item(i) == ((pool.index + i) % n) + 1
        first == CHOOSE i \in 0..(n - 1) :
                    item(i) \notin pool.used /\ \A j \in 0..(i - 1) : item(j) \in pool.used
    IN  item(first)

\* osPoolAlloc and osPoolFree.  An address outside the pool is not freed.
Alloc(pool, n) ==
    LET item == FreeItem(pool, n) IN [used |-> pool.used \cup {item}, index |-> item - 1]

Free(pool, item) == [pool EXCEPT !.used = @ \ {item}]
================================================================================
