----------------------------- MODULE PoolLayout -----------------------------
(***************************************************************************)
(* Where mod_init puts things in the shared region: struct                 *)
(* Shm_control_area at its start, the array of infos behind it, one info   *)
(* for each block, and behind both the pools, one after the other.         *)
(*                                                                         *)
(* mod_mem_init makes room with one rounding (control_size + 4096 - 1,     *)
(* down to 1024), mod_init places the infos with another (up to 32).       *)
(* The loops of total_shm_number, total_shm_size and mod_mem_init are      *)
(* steps here, so that sums stay definitions without recursion.            *)
(*                                                                         *)
(* The code computes in unsigned, and a pool's size in int: every result   *)
(* is taken modulo Word, and wrapped records that one lost its high part.  *)
(* Nothing in the code tests for that.                                     *)
(***************************************************************************)
EXTENDS Integers

CONSTANTS
    Word,        \* 2^32
    NPool,       \* TOTAL_POOL_NUMBER
    BlockBytes,  \* full_block_size of a pool, 1<<order
    AreaBytes,   \* sizeof(struct Shm_control_area)
    InfoBytes,   \* sizeof(struct Shm_block_info)
    Regions,     \* start and length as mod_init is given them
    Tables       \* s_pool_number_array

Pool == 0..(NPool - 1)

ASSUME LayoutAssumption ==
    /\ Word \in Nat \ {0}
    /\ NPool \in Nat \ {0}
    /\ BlockBytes \in [Pool -> Nat \ {0}]
    /\ AreaBytes \in Nat /\ InfoBytes \in Nat
    /\ Regions \subseteq [start : Nat, length : Nat]
    /\ Tables \subseteq [Pool -> Nat]

VARIABLES
    reg, table,  \* the arguments: start and length, pool_number_array
    stage, i,    \* which loop runs, and its counter
    number,      \* total_shm_number so far
    bytes,       \* bytes[p]: total_shm_size when its loop reaches pool p
    ppool,       \* the next free address while the pools are carved
    head,        \* m_head of the pools carved so far
    wrapped      \* history: a sum or product did not fit its 32 bits

vars == <<reg, table, stage, i, number, bytes, ppool, head, wrapped>>

\* What a register keeps of a result.
Kept(x) == x % Word

Wraps(results) == wrapped' = (wrapped \/ \E x \in results : x >= Word)

ControlSize == number * InfoBytes + AreaBytes

DownTo(x, a) == x - (x % a)

\* Slip: no slack.
RoundedStartTight == DownTo(Kept(reg.start + ControlSize), 1024)

RoundedStart == DownTo(Kept(reg.start + ControlSize + 4095), 1024)

BlockStart == DownTo(Kept(reg.start + AreaBytes + 31), 32)

PoolBytes(p) == table[p] * BlockBytes[p]

NonEmpty == {p \in Pool : table[p] > 0}

Init ==
    /\ reg \in Regions
    /\ table \in Tables
    /\ stage = "sum"
    /\ i = 0
    /\ number = 0
    /\ bytes = [p \in 0..NPool |-> 0]
    /\ ppool = 0
    /\ head = [p \in Pool |-> 0]
    /\ wrapped = FALSE

\* One turn of total_shm_number and total_shm_size.
Sum ==
    /\ stage = "sum" /\ i < NPool
    /\ number' = Kept(number + table[i])
    /\ bytes' = [bytes EXCEPT ![i + 1] = Kept(bytes[i] + PoolBytes(i))]
    /\ Wraps({number + table[i], bytes[i] + PoolBytes(i)})
    /\ i' = i + 1
    /\ UNCHANGED <<reg, table, stage, ppool, head>>

ShiftTwice ==               \* slip: the control area is taken off once more
    Kept(RoundedStart - reg.start + ControlSize)

\* rounded_start - start, compared with the unsigned length.
Shift == Kept(RoundedStart - reg.start)

RoundedLength == reg.length - Shift

\* The assert of mod_mem_init, its refusal, or the start of the pools.
Measure ==
    /\ stage = "sum" /\ i = NPool
    /\ stage' = IF reg.length <= Shift THEN "bug"
                ELSE IF RoundedLength < bytes[NPool] THEN "refused" ELSE "carve"
    /\ ppool' = RoundedStart
    /\ Wraps({reg.start + ControlSize + 4095})
    /\ i' = 0
    /\ UNCHANGED <<reg, table, number, bytes, head>>

\* What mod_mem_init_heap returns is an int: a pool that takes half of the
\* address space looks like a failure.
Negative(x) == Kept(x) >= Word \div 2

\* One turn of mod_mem_init: mod_mem_init_heap lays block after block; a pool
\* without blocks is skipped and takes no room.
Carve ==
    /\ stage = "carve" /\ i < NPool
    /\ head' = IF table[i] = 0 THEN head ELSE [head EXCEPT ![i] = ppool]
    /\ IF Negative(PoolBytes(i))
       THEN stage' = "failed" /\ UNCHANGED <<i, ppool, wrapped>>
       ELSE /\ ppool' = Kept(ppool + PoolBytes(i))
            /\ Wraps({ppool + PoolBytes(i)})
            /\ i' = i + 1
            /\ UNCHANGED stage
    /\ UNCHANGED <<reg, table, number, bytes>>

Place ==
    /\ stage = "carve" /\ i = NPool
    /\ stage' = "placed"
    /\ UNCHANGED <<reg, table, i, number, bytes, ppool, head, wrapped>>

Next == Sum \/ Measure \/ Carve \/ Place

Spec == Init /\ [][Next]_vars

-----------------------------------------------------------------------------
TypeOK ==
    /\ reg \in Regions
    /\ table \in Tables
    /\ stage \in {"sum", "carve", "placed", "bug", "refused", "failed"}
    /\ i \in 0..NPool
    /\ number \in Nat
    /\ bytes \in [0..NPool -> Nat]
    /\ ppool \in Nat
    /\ head \in [Pool -> Nat]
    /\ wrapped \in BOOLEAN

\* Infos, pools and the end of the region never overlap, of a table whose sums
\* fit 32 bits: the slack of the first rounding covers both the 1024 it takes
\* away and the 31 the second one adds.  A table that wraps is laid out too.
LayoutSound ==
    stage = "placed" /\ ~wrapped =>
        /\ BlockStart >= reg.start + AreaBytes
        /\ \A p \in NonEmpty :
               /\ BlockStart + number * InfoBytes <= head[p]
               /\ head[p] + PoolBytes(p) <= reg.start + reg.length
               /\ \A q \in NonEmpty : p < q => head[p] + PoolBytes(p) <= head[q]

\* Unless a sum wrapped, a region is turned down, by the message "not enough
\* memory size" or by the assert, only if control area, infos and pools lack
\* the room of one page.
RefusalsJust ==
    stage \in {"bug", "refused"} /\ ~wrapped =>
        reg.length < ControlSize + bytes[NPool] + 4096
=============================================================================
