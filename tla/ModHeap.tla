------------------------------ MODULE ModHeap ------------------------------
(***************************************************************************)
(* The block allocator of shm.c: mod_mem_init_heap, mod_malloc and         *)
(* mod_free over the pools of the shared region.                           *)
(*                                                                         *)
(* A block's header (struct Mod_mem: m_flag, m_length) lies in the shared  *)
(* region and both cores see it.  The lists that say which blocks are free *)
(* (list_1k .. list_16M, s_mod_heap_array) are static data of the kernel,  *)
(* so each core has its own copy and no message keeps the copies equal.    *)
(*                                                                         *)
(* mod_malloc and mod_free are called by mpi_shm_open and mpi_shm_close    *)
(* only, both under the inter-core lock s_mod_lock, so each is one step.   *)
(* The heap lock they take inside (heap->m_lock) is never contended.       *)
(***************************************************************************)
EXTENDS Naturals, Sequences, Functions

CONSTANTS
    Core,        \* the cores, each running its own kernel
    NPool,       \* TOTAL_POOL_NUMBER
    PoolNumber,  \* s_pool_number_array: blocks in each pool
    BlockSize,   \* m_block_size of a pool: 1<<order less the block's header
    Size         \* the lengths a caller asks for (mod_malloc refuses 0)

Pool == 0..(NPool - 1)

ASSUME HeapAssumption ==
    /\ NPool \in Nat \ {0}
    /\ PoolNumber \in [Pool -> Nat]
    /\ BlockSize \in [Pool -> Nat \ {0}]
    /\ Size \subseteq Nat \ {0}

BlocksOf(p) == {p} \X (0..(PoolNumber[p] - 1))

Block == UNION {BlocksOf(p) : p \in Pool}

PoolOf(b) == b[1]

VARIABLES
    free,   \* free[c][p]: core c's m_free list of pool p, head first
    busy,   \* busy[c]: the blocks on core c's m_busy lists
    flag,   \* MOD_MEMORY_BUSY_FLAG of a block's shared header
    mlen,   \* m_length of a block's shared header
    served  \* history: the cores that mod_malloc has given a block so far

heapVars == <<free, busy, flag, mlen, served>>

(***************************************************************************)
(* mod_mem_init_heap pushes block 0, 1, .., n-1, so the last block is the  *)
(* head.  A pool without blocks is left zeroed: no size fits in it.        *)
(***************************************************************************)
InitialFreeOffByOne(p) ==       \* slip: numbers the blocks from 1
    [i \in 1..PoolNumber[p] |-> <<p, PoolNumber[p] - i + 1>>]

InitialFree(p) == [i \in 1..PoolNumber[p] |-> <<p, PoolNumber[p] - i>>]

InitHeap ==
    /\ free = [c \in Core |-> [p \in Pool |-> InitialFree(p)]]
    /\ busy = [c \in Core |-> {}]
    /\ flag = [b \in Block |-> FALSE]
    /\ mlen = [b \in Block |-> 0]
    /\ served = {}

Capacity(p) == IF PoolNumber[p] = 0 THEN 0 ELSE BlockSize[p]

(***************************************************************************)
(* mod_malloc walks the pools upwards and takes the first whose block is   *)
(* large enough and whose free list, as this core knows it, is not empty.  *)
(***************************************************************************)
UsableIgnoringHeader(c, s, p) ==    \* slip: header not taken off the size
    s <= Capacity(p) + 1 /\ free[c][p] # <<>>

Usable(c, s, p) == s <= Capacity(p) /\ free[c][p] # <<>>

FirstUsable(c, s, p) ==
    /\ Usable(c, s, p)
    /\ \A q \in 0..(p - 1) : ~Usable(c, s, q)

MallocHeapKeepsHead(c, s, p) ==     \* slip: remove_list_head left out
    LET b == Head(free[c][p]) IN
    /\ flag' = [flag EXCEPT ![b] = TRUE]
    /\ mlen' = [mlen EXCEPT ![b] = s]
    /\ busy' = [busy EXCEPT ![c] = @ \cup {b}]
    /\ served' = served \cup {c}
    /\ UNCHANGED free

MallocHeap(c, s, p) ==
    LET b == Head(free[c][p]) IN
    /\ flag' = [flag EXCEPT ![b] = TRUE]
    /\ mlen' = [mlen EXCEPT ![b] = s]
    /\ free' = [free EXCEPT ![c][p] = Tail(@)]
    /\ busy' = [busy EXCEPT ![c] = @ \cup {b}]
    /\ served' = served \cup {c}

\* mod_malloc(s) on core c returns block b.
Malloc(c, s, b) ==
    \E p \in Pool :
        /\ FirstUsable(c, s, p)
        /\ b = Head(free[c][p])
        /\ MallocHeap(c, s, p)

\* mod_malloc(s) on core c returns NULL.
MallocFails(c, s) == \A p \in Pool : ~Usable(c, s, p)

(***************************************************************************)
(* mod_free.  Its assert(order > STARTING_POOL_ORDER) is a BUG_ON, false   *)
(* for every block of the smallest pool.  The checks that follow compare   *)
(* the shared header with the lists of the core that frees: if one fails   *)
(* the function prints a message and returns, and the caller is not told.  *)
(***************************************************************************)
FreeAsserts(b) == PoolOf(b) = 0

FreeAcceptedStrict(c, b) ==         \* slip: >= for > in the length check
    /\ flag[b]
    /\ mlen[b] < Capacity(PoolOf(b))
    /\ b \in busy[c]

FreeAccepted(c, b) ==
    /\ flag[b]
    /\ mlen[b] <= Capacity(PoolOf(b))
    /\ b \in busy[c]

FreeReturnedFlagged(c, b) ==        \* slip: the busy flag is not cleared
    /\ ~FreeAsserts(b)
    /\ FreeAccepted(c, b)
    /\ busy' = [busy EXCEPT ![c] = @ \ {b}]
    /\ mlen' = [mlen EXCEPT ![b] = 0]
    /\ free' = [free EXCEPT ![c][PoolOf(b)] = <<b>> \o @]
    /\ UNCHANGED <<flag, served>>

FreeReturned(c, b) ==
    /\ ~FreeAsserts(b)
    /\ FreeAccepted(c, b)
    /\ busy' = [busy EXCEPT ![c] = @ \ {b}]
    /\ flag' = [flag EXCEPT ![b] = FALSE]
    /\ mlen' = [mlen EXCEPT ![b] = 0]
    /\ free' = [free EXCEPT ![c][PoolOf(b)] = <<b>> \o @]
    /\ UNCHANGED served

FreeRejected(c, b) ==
    /\ ~FreeAsserts(b)
    /\ ~FreeAccepted(c, b)
    /\ UNCHANGED heapVars

Free(c, b) == FreeReturned(c, b) \/ FreeRejected(c, b)

-----------------------------------------------------------------------------
HeapTypeOK ==
    /\ free \in [Core -> [Pool -> Seq(Block)]]
    /\ busy \in [Core -> SUBSET Block]
    /\ flag \in [Block -> BOOLEAN]
    /\ mlen \in [Block -> Nat]
    /\ served \subseteq Core

(***************************************************************************)
(* On each core a block is on exactly one of the two lists of its own pool *)
(* and only once.  remove_list_head, remove_list_entry and mod_malloc_heap *)
(* assert the pointer-level consequences of it (shm.c:180, 185, 202, 219,  *)
(* 612).  It holds whatever the other core does to the shared headers.     *)
(***************************************************************************)
ListsPartition ==
    \A c \in Core : \A p \in Pool :
        /\ Range(free[c][p]) = BlocksOf(p) \ busy[c]
        /\ IsInjective(free[c][p])
=============================================================================
