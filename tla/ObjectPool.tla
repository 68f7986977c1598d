----------------------------- MODULE ObjectPool -----------------------------
(***************************************************************************)
(* include/core/ObjectPool.h: a pool of objects that hands out raw         *)
(* pointers.  A pool is a record of storage_ and free_list_.  A pointer is *)
(* an index of storage: the deque only grows at its back and leaves its    *)
(* objects in place, so an index never changes its meaning.  A released    *)
(* object keeps its contents until the slot is acquired again, as in the   *)
(* code.                                                                   *)
(***************************************************************************)
EXTENDS Integers, SequencesExt

capacity(pool) == Len(pool.storage)

\* Mutant: every slot counts as active.
active_count_All(pool) == capacity(pool)

active_count(pool) == capacity(pool) - Len(pool.free_list)

\* The constructor: n value-initialised objects, all of them free.
NewPool(n, empty) ==
    [storage |-> [i \in 1..n |-> empty], free_list |-> [i \in 1..n |-> i]]

\* The pointer acquire() returns: the back of the free list, or the object
\* appended to the storage when the free list is empty.
acquired(pool) ==
    IF pool.free_list = << >> THEN capacity(pool) + 1 ELSE Last(pool.free_list)

\* Mutant: the slot stays on the free list.
acquire_NoPop(pool, empty) ==
    IF pool.free_list = << >> THEN [pool EXCEPT !.storage = Append(@, empty)] ELSE pool

\* The pool after acquire().
acquire(pool, empty) ==
    IF pool.free_list = << >>
    THEN [pool EXCEPT !.storage = Append(@, empty)]
    ELSE [pool EXCEPT !.free_list = Front(@)]

\* The pool after release(ptr).  Nothing checks that ptr is in use.
release(pool, ptr) == [pool EXCEPT !.free_list = Append(@, ptr)]

\* The write *ptr = object through a pointer into the pool.
Write(pool, ptr, object) == [pool EXCEPT !.storage[ptr] = object]
=============================================================================
