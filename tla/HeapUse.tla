------------------------------ MODULE HeapUse ------------------------------
(***************************************************************************)
(* The allocator as the segments of shm.c use it.  Every Shm_block_info    *)
(* holds at most one block in m_mem: the first mpi_shm_open of a name      *)
(* allocates it on the opener's core, the close that clears the last bit   *)
(* of m_open frees it on the closer's core.                                *)
(*                                                                         *)
(* Any core may be the first to open a name, and any the last to close it. *)
(* Much depends on whether a second core ever allocates: "served" records  *)
(* the cores that have.                                                    *)
(***************************************************************************)
EXTENDS ModHeap

CONSTANTS
    Handle,      \* indices of Shm_block_info
    Null         \* m_mem = 0

ASSUME UseAssumption == Null \notin Block

VARIABLES
    mem,     \* mem[h]: m_mem of info h
    stuck    \* a thread died in mod_free's assert and keeps s_mod_lock

vars == <<free, busy, flag, mlen, served, mem, stuck>>

Live(h) == mem[h] # Null

Init ==
    /\ InitHeap
    /\ mem = [h \in Handle |-> Null]
    /\ stuck = FALSE

Open(c, h) ==
    /\ ~stuck
    /\ ~Live(h)
    /\ \E s \in Size, b \in Block :
           /\ Malloc(c, s, b)
           /\ mem' = [mem EXCEPT ![h] = b]
    /\ UNCHANGED stuck

Close(c, h) ==
    /\ ~stuck
    /\ Live(h)
    /\ Free(c, mem[h])
    /\ mem' = [mem EXCEPT ![h] = Null]
    /\ UNCHANGED stuck

CloseBug(c, h) ==
    /\ ~stuck
    /\ Live(h)
    /\ FreeAsserts(mem[h])
    /\ stuck' = TRUE
    /\ UNCHANGED <<heapVars, mem>>

Next ==
    \E c \in Core, h \in Handle : Open(c, h) \/ Close(c, h) \/ CloseBug(c, h)

Spec == Init /\ [][Next]_vars

-----------------------------------------------------------------------------
TypeOK ==
    /\ HeapTypeOK
    /\ mem \in [Handle -> Block \cup {Null}]
    /\ stuck \in BOOLEAN

\* No core but one has ever allocated.
OneAllocates == \E a \in Core : served \subseteq {a}

Disjoint ==
    \A g, h \in Handle : Live(g) /\ Live(h) /\ g # h => mem[g] # mem[h]

\* Two open segments never share a block, as long as one core does all the
\* allocation: nothing in the code keeps the two cores' free lists apart.
NoSharedBlock == OneAllocates => Disjoint

\* A block in use carries the busy flag: mod_free's message "wrong flag"
\* (shm.c:700-703) reports what must not happen.
NeverWrongFlag == \A h \in Handle : Live(h) => flag[mem[h]]

\* It does as long as one core allocates, whichever core closes.
LiveFlagged == OneAllocates => NeverWrongFlag

\* The length recorded in the header of a block in use fits the block: the
\* walk over the pools never settles for one that is too small, and no close
\* clears the header of a block that another segment has.
LiveFits ==
    OneAllocates =>
        \A h \in Handle : Live(h) =>
            mlen[mem[h]] \in 1..Capacity(PoolOf(mem[h]))

\* The only core that allocates can always give a segment's block back:
\* mod_free's messages "wrong flag" and "not in busy list?" (shm.c:703, 724,
\* 731) are left for closes by the other core.
CloseAccepted ==
    \A a \in Core, h \in Handle :
        served \subseteq {a} /\ Live(h) /\ ~FreeAsserts(mem[h]) =>
            FreeAccepted(a, mem[h])

\* Blocks on a core's busy list that are no segment's: never free again.
Lost(c) == {b \in busy[c] : \A h \in Handle : mem[h] # b}

ForeignLeak ==
    \A a \in Core :
        served \subseteq {a} /\ ~(Lost(a)' \subseteq Lost(a)) =>
            /\ \E c \in Core \ {a}, h \in Handle : Close(c, h)
            /\ \A h \in Handle : ~Close(a, h)

\* As long as one core allocates, a block is lost only when another closes its
\* segment last, never when the allocator does; mpi_shm_close does not hear of
\* mod_free's refusal (shm.c:854).
LeaksAreForeign == [][ForeignLeak]_vars

\* A header says "busy" exactly while the block is on some core's busy list, as
\* long as one core allocates.
FlagMeansBusy ==
    OneAllocates => \A b \in Block : flag[b] <=> \E c \in Core : b \in busy[c]

\* If only core a has allocated, the shared flags and a's busy lists say the
\* same thing, and every open segment owns one entry of those lists.
SoleAllocator(a) ==
    /\ \A h \in Handle : Live(h) => mem[h] \in busy[a]
    /\ Disjoint
    /\ \A b \in Block : flag[b] <=> b \in busy[a]
    /\ \A b \in busy[a] : mlen[b] \in 1..Capacity(PoolOf(b))
    /\ \A c \in Core \ {a} : busy[c] = {}

\* The inductive strengthening of the properties above: the two cores' views of
\* the heap agree until a second core allocates.
OneAllocatorInv == \A a \in Core : served \subseteq {a} => SoleAllocator(a)

\* mod_free's assertion order > STARTING_POOL_ORDER holds of every block it is
\* given (shm.c:692).
NeverAsserts == ~stuck
=============================================================================
