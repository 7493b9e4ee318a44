----------------------------- MODULE ShmSegment -----------------------------
(***************************************************************************)
(* The named segments of shm.c: mpi_shm_open, mpi_shm_close, mpi_shm_send, *)
(* mpi_shm_send_offset, mpi_shm_get and mpi_shm_get_offset over the array  *)
(* of struct Shm_block_info in the shared region.                          *)
(*                                                                         *)
(* The body of every call runs under the inter-core lock s_mod_lock and is *)
(* one step.  All calls but open test m_mem, m_open and m_length BEFORE    *)
(* they take the lock; those tests are steps of their own, and whatever    *)
(* the other threads do in between is interleaved.                         *)
(***************************************************************************)
EXTENDS ModHeap, FiniteSets

CONSTANTS
    Thread,      \* kernel threads that call the API, interrupts included
    CoreOf,      \* the core a thread runs on
    Handle,      \* m_id of the infos: one for every block of the pools
    Null,        \* a null pointer
    Name,        \* segment names; all callers' names fit SHM_NAME_MAX_LENGTH
    NoName,      \* m_name[0] = 0
    Offset,      \* offsets the _offset calls use
    Word,        \* 2^32
    Allocator,   \* bound: the cores that open a name nobody holds
    UpdateMode,  \* values of get's argument "update"; no caller in src passes 1
    Call         \* bound: the entry points a thread uses

ASSUME SegmentAssumption ==
    /\ Cardinality(Core) = 2
    /\ CoreOf \in [Thread -> Core]
    /\ Null \notin Block
    /\ NoName \notin Name
    /\ IsFiniteSet(Handle)
    /\ Word \in Nat \ {0}
    /\ Size \subseteq 1..(Word - 1) /\ Offset \subseteq 0..(Word - 1)
    /\ Allocator \subseteq Core
    /\ UpdateMode \subseteq BOOLEAN
    /\ Call \in [Thread -> SUBSET {"open", "close", "send", "send_offset", "get",
                                 "get_offset"}]

VARIABLES
    infoFree,  \* m_free of the control area, head first
    infoBusy,  \* the infos on m_busy; the walk finds at most one per name
    name,      \* m_name
    len,       \* m_length
    open,      \* m_open, as the set of cores whose bit is set
    mem,       \* m_mem
    update,    \* m_update, as a set of cores
    size,      \* m_size
    offset,    \* m_offset
    content,   \* the bytes of a block: the core that wrote them, or Null
    pc,        \* what a thread is doing between its tests and its body, or
               \* the bytes that its get has just returned
    fault,     \* why a thread died holding s_mod_lock, or "none"
    written,   \* history: m_size was set in the current life of the info, and
               \* not by a rash call
    rash       \* history: threads whose pending copy its own core has led astray

infoVars == <<infoFree, infoBusy, name, len, open, mem, written>>
dataVars == <<update, size, offset, content>>
vars == <<heapVars, infoVars, dataVars, pc, fault, rash>>

Byte == Core \cup {Null}

Idle == [op |-> "idle"]

Peer(c) == Core \ {c}

Minus(x, y) == (x - y + Word) % Word
Plus(x, y) == (x + y) % Word
Lesser(x, y) == IF x < y THEN x ELSE y

Init ==
    /\ InitHeap
    /\ infoFree \in {s \in [1..Cardinality(Handle) -> Handle] : IsInjective(s)}
    /\ infoBusy = {}
    /\ name = [h \in Handle |-> NoName]
    /\ len = [h \in Handle |-> 0]
    /\ open = [h \in Handle |-> {}]
    /\ mem = [h \in Handle |-> Null]
    /\ update = [h \in Handle |-> {}]
    /\ size = [h \in Handle |-> 0]
    /\ offset = [h \in Handle |-> 0]
    /\ content = [b \in Block |-> [i \in 0..(BlockSize[PoolOf(b)] - 1) |-> Null]]
    /\ pc = [t \in Thread |-> Idle]
    /\ fault = "none"
    /\ written = [h \in Handle |-> FALSE]
    /\ rash = {}

LockFree == fault = "none"

\* A thread holds s_mod_lock and executes the body of the call.
Locked(t, op) == LockFree /\ pc[t].op = op

-----------------------------------------------------------------------------
(* mpi_shm_open: the name is looked up and, if nobody holds it, a segment is *)
(* made, all under the lock.  The calls that return an error change nothing. *)

Attach(t, n, s) ==
    /\ Locked(t, "idle")
    /\ "open" \in Call[t]
    /\ \E h \in infoBusy :
           /\ name[h] = n
           /\ s <= len[h]
           /\ open' = [open EXCEPT ![h] = @ \cup {CoreOf[t]}]
    /\ UNCHANGED <<heapVars, infoFree, infoBusy, name, len, mem, written,
                   dataVars, pc, fault, rash>>

NameUnusedLost(n) == TRUE           \* slip: the result of the lookup is lost

NameUnused(n) == \A h \in infoBusy : name[h] # n

Create(t, n, s) ==
    /\ Locked(t, "idle")
    /\ "open" \in Call[t] /\ CoreOf[t] \in Allocator
    /\ NameUnused(n)
    /\ infoFree # <<>>
    /\ LET h == Head(infoFree) IN
       /\ \E b \in Block :
              /\ Malloc(CoreOf[t], s, b)
              /\ mem' = [mem EXCEPT ![h] = b]
       /\ infoFree' = Tail(infoFree)
       /\ infoBusy' = infoBusy \cup {h}
       /\ len' = [len EXCEPT ![h] = s]
       /\ open' = [open EXCEPT ![h] = @ \cup {CoreOf[t]}]
       /\ name' = [name EXCEPT ![h] = n]
       /\ written' = [written EXCEPT ![h] = FALSE]
    /\ UNCHANGED <<dataVars, pc, fault, rash>>

-----------------------------------------------------------------------------
(* mpi_shm_close: the own bit is tested before the lock is taken and not     *)
(* tested again.                                                             *)

CloseCheck(t, h) ==
    /\ pc[t] = Idle
    /\ "close" \in Call[t]
    /\ CoreOf[t] \in open[h]
    /\ pc' = [pc EXCEPT ![t] = [op |-> "close", h |-> h]]
    /\ UNCHANGED <<heapVars, infoVars, dataVars, fault, rash>>

LastHolderAny(t, h) == TRUE         \* slip: the other core's bit not looked at

LastHolder(t, h) == open[h] \subseteq {CoreOf[t]}

\* The tests that a thread has made before it copies are about the bit of its
\* core: when another thread of that core clears the bit, they are out of date.
Copying == {"measure", "send", "get", "span", "peek"}

LeadAstray(t, h) ==
    rash' = rash \cup {u \in Thread : /\ CoreOf[u] = CoreOf[t]
                                     /\ pc[u].op \in Copying
                                     /\ pc[u].h = h}

\* The bit of the closing core goes; others remain.
CloseKeep(t) ==
    /\ Locked(t, "close")
    /\ LET h == pc[t].h IN
       /\ ~LastHolder(t, h)
       /\ open' = [open EXCEPT ![h] = @ \ {CoreOf[t]}]
       /\ LeadAstray(t, h)
    /\ pc' = [pc EXCEPT ![t] = Idle]
    /\ UNCHANGED <<heapVars, infoFree, infoBusy, name, len, mem, written,
                   dataVars, fault>>

\* No bit remains: the block is freed and the info goes back to the free list.
\* m_size, m_offset and the peer's m_update bit keep their values.
ClearInfo(t, h) ==
    /\ open' = [open EXCEPT ![h] = @ \ {CoreOf[t]}]
    /\ name' = [name EXCEPT ![h] = NoName]
    /\ len' = [len EXCEPT ![h] = 0]
    /\ update' = [update EXCEPT ![h] = @ \ {CoreOf[t]}]

FreeMemLost(t, h) == UNCHANGED heapVars     \* slip: mod_free left out

FreeMem(t, h) ==
    \/ mem[h] = Null /\ UNCHANGED heapVars
    \/ mem[h] # Null /\ Free(CoreOf[t], mem[h])

FreeInfoUnchecked(h) ==             \* slip: remove_info_entry's result ignored
    /\ infoBusy' = infoBusy \ {h}
    /\ infoFree' = <<h>> \o infoFree

FreeInfoLost(h) ==                  \* slip: add_info_entry left out
    /\ infoBusy' = infoBusy \ {h}
    /\ UNCHANGED infoFree

FreeInfo(h) ==
    /\ infoBusy' = infoBusy \ {h}
    /\ infoFree' = IF h \in infoBusy THEN <<h>> \o infoFree ELSE infoFree

CloseLast(t) ==
    /\ Locked(t, "close")
    /\ LET h == pc[t].h IN
       /\ LastHolder(t, h)
       /\ ClearInfo(t, h)
       /\ FreeMem(t, h)
       /\ mem' = [mem EXCEPT ![h] = Null]
       /\ FreeInfo(h)
       /\ LeadAstray(t, h)
    /\ pc' = [pc EXCEPT ![t] = Idle]
    /\ UNCHANGED <<written, size, offset, content, fault>>

\* mod_free's assert kills the thread, which keeps s_mod_lock.
CloseBug(t) ==
    /\ Locked(t, "close")
    /\ LET h == pc[t].h IN
       /\ LastHolder(t, h)
       /\ ClearInfo(t, h)
       /\ mem[h] # Null /\ FreeAsserts(mem[h])
       /\ LeadAstray(t, h)
    /\ fault' = "assert"
    /\ UNCHANGED <<heapVars, infoFree, infoBusy, mem, written,
                   size, offset, content, pc>>

-----------------------------------------------------------------------------
(* mpi_shm_send and mpi_shm_send_offset (send is the case offset = 0 except  *)
(* that only send_offset refuses an empty segment).                          *)

\* A copy starts.  It is rash when the core does not hold the handle (only get
\* lets it) or the sum the length is tested with wraps (send's sum is l + 0).
Begin(t, h, l, o) ==
    rash' = IF CoreOf[t] \in open[h] /\ l + o < Word THEN rash
            ELSE rash \cup {t}

\* It ends: nothing is left to go wrong.
End(t) == rash' = rash \ {t}

SendCheck(t, h, l, o) ==
    /\ pc[t] = Idle
    /\ \/ "send" \in Call[t] /\ o = 0
       \/ "send_offset" \in Call[t] /\ len[h] > o
    /\ mem[h] # Null
    /\ CoreOf[t] \in open[h]
    /\ pc' = [pc EXCEPT ![t] = [op |-> "measure", h |-> h, l |-> l, o |-> o]]
    /\ Begin(t, h, l, o)
    /\ UNCHANGED <<heapVars, infoVars, dataVars, fault>>

\* The length is cut to the segment's, which is read before the lock is taken.
CutOffByOne(h, l, o) ==             \* slip: one byte too many is let through
    IF Plus(l, o) > len[h] + 1 THEN Minus(len[h], o) ELSE l

Cut(h, l, o) == IF Plus(l, o) > len[h] THEN Minus(len[h], o) ELSE l

SendMeasure(t) ==
    /\ pc[t].op = "measure"
    /\ pc' = [pc EXCEPT ![t] =
                 [op |-> "send", h |-> @.h, s |-> Cut(@.h, @.l, @.o), o |-> @.o]]
    /\ UNCHANGED <<heapVars, infoVars, dataVars, fault, rash>>

InBlock(b, o, s) == o + s <= BlockSize[PoolOf(b)]

Writable(t) ==
    pc[t].s # 0 => mem[pc[t].h] # Null /\ InBlock(mem[pc[t].h], pc[t].o, pc[t].s)

SetWindow(t, h, o, s) ==
    /\ size' = [size EXCEPT ![h] = s]
    /\ offset' = [offset EXCEPT ![h] = o]
    /\ written' = [written EXCEPT ![h] = t \notin rash]

SendBody(t) ==
    /\ Locked(t, "send")
    /\ Writable(t)
    /\ LET h == pc[t].h
           s == pc[t].s
           o == pc[t].o
       IN
       /\ \/ s = 0 /\ UNCHANGED content
          \/ /\ s # 0
             /\ content' = [content EXCEPT ![mem[h]] =
                    [i \in DOMAIN @ |-> IF i \in o..(o + s - 1)
                                        THEN CoreOf[t] ELSE @[i]]]
       /\ update' = [update EXCEPT ![h] = @ \cup {CoreOf[t]}]
       /\ SetWindow(t, h, o, s)
    /\ pc' = [pc EXCEPT ![t] = Idle]
    /\ End(t)
    /\ UNCHANGED <<heapVars, infoFree, infoBusy, name, len, open, mem, fault>>

\* memcpy with a null pointer or past the end of the block: what follows is
\* undefined, the model stops here.
SendFault(t) ==
    /\ Locked(t, "send")
    /\ ~Writable(t)
    /\ fault' = IF mem[pc[t].h] = Null THEN "write_null" ELSE "write_range"
    /\ UNCHANGED <<heapVars, infoVars, dataVars, pc, rash>>

-----------------------------------------------------------------------------
(* mpi_shm_get takes the pending window (m_offset, m_size) and clears it;    *)
(* mpi_shm_get_offset reads where it is told and leaves the window.  Both    *)
(* test the PEER's open bit.  With the argument "update" set they want the   *)
(* caller's own update bit, and clear the peer's.                            *)

ReadCheck(t, h) ==
    /\ pc[t] = Idle
    /\ mem[h] # Null
    /\ Peer(CoreOf[t]) \subseteq open[h]

GetCheck(t, h, l, u) ==
    /\ "get" \in Call[t]
    /\ ReadCheck(t, h)
    /\ pc' = [pc EXCEPT ![t] = [op |-> "get", h |-> h, l |-> l, u |-> u]]
    /\ Begin(t, h, 0, 0)
    /\ UNCHANGED <<heapVars, infoVars, dataVars, fault>>

GetOffsetCheck(t, h, l, u, o) ==
    /\ "get_offset" \in Call[t]
    /\ len[h] > o
    /\ ReadCheck(t, h)
    /\ pc' = [pc EXCEPT ![t] =
                 [op |-> "span", h |-> h, l |-> l, u |-> u, o |-> o]]
    /\ Begin(t, h, l, o)
    /\ UNCHANGED <<heapVars, infoVars, dataVars, fault>>

GetOffsetMeasure(t) ==
    /\ pc[t].op = "span"
    /\ pc' = [pc EXCEPT ![t] = [op |-> "peek", h |-> @.h, u |-> @.u, o |-> @.o,
                                s |-> Cut(@.h, @.l, @.o)]]
    /\ UNCHANGED <<heapVars, infoVars, dataVars, fault, rash>>

UpdateSeen(t) == pc[t].u => CoreOf[t] \in update[pc[t].h]

\* Where the locked part of a get or get_offset reads, and how much.
ReadFrom(t) == IF pc[t].op = "get" THEN offset[pc[t].h] ELSE pc[t].o
ReadSize(t) == IF pc[t].op = "get" THEN Lesser(pc[t].l, size[pc[t].h])
               ELSE pc[t].s

Readable(t) ==
    ReadSize(t) # 0 => /\ mem[pc[t].h] # Null
                       /\ InBlock(mem[pc[t].h], ReadFrom(t), ReadSize(t))

\* The bytes copied, and the bookkeeping both kinds of get share.
ReadBytes(t) ==
    [i \in 1..ReadSize(t) |-> content[mem[pc[t].h]][ReadFrom(t) + i - 1]]

ReadDone(t) ==
    /\ pc' = [pc EXCEPT ![t] = [op |-> "got", bytes |-> ReadBytes(t)]]
    /\ update' = [update EXCEPT ![pc[t].h] = @ \ Peer(CoreOf[t])]
    /\ End(t)
    /\ UNCHANGED <<heapVars, infoFree, infoBusy, name, len, open, mem, content,
                   fault>>

GetBody(t) ==
    /\ Locked(t, "get")
    /\ UpdateSeen(t)
    /\ Readable(t)
    /\ ReadDone(t)
    /\ SetWindow(t, pc[t].h, 0, 0)

GetOffsetBody(t) ==
    /\ Locked(t, "peek")
    /\ UpdateSeen(t)
    /\ Readable(t)
    /\ ReadDone(t)
    /\ UNCHANGED <<size, offset, written>>

\* MPI_SHM_NOT_UPDATED.
NotUpdated(t) ==
    /\ LockFree
    /\ pc[t].op \in {"get", "peek"}
    /\ ~UpdateSeen(t)
    /\ pc' = [pc EXCEPT ![t] = Idle]
    /\ End(t)
    /\ UNCHANGED <<heapVars, infoVars, dataVars, fault>>

ReadFault(t) ==
    /\ LockFree
    /\ pc[t].op \in {"get", "peek"}
    /\ UpdateSeen(t)
    /\ ~Readable(t)
    /\ fault' = IF mem[pc[t].h] = Null THEN "read_null" ELSE "read_range"
    /\ UNCHANGED <<heapVars, infoVars, dataVars, pc, rash>>

\* The caller uses the bytes and goes on.
Return(t) ==
    /\ pc[t].op = "got"
    /\ pc' = [pc EXCEPT ![t] = Idle]
    /\ UNCHANGED <<heapVars, infoVars, dataVars, fault, rash>>

-----------------------------------------------------------------------------
OpenStep(t) ==
    \E n \in Name, s \in Size : Attach(t, n, s) \/ Create(t, n, s)

CheckStep(t) ==
    \E h \in Handle :
        \/ CloseCheck(t, h)
        \/ \E l \in Size, o \in Offset : SendCheck(t, h, l, o)
        \/ \E l \in Size, u \in UpdateMode : GetCheck(t, h, l, u)
        \/ \E l \in Size, u \in UpdateMode, o \in Offset :
               GetOffsetCheck(t, h, l, u, o)

CloseStep(t) == CloseKeep(t) \/ CloseLast(t) \/ CloseBug(t)

SendStep(t) == SendMeasure(t) \/ SendBody(t) \/ SendFault(t)

GetStep(t) ==
    \/ GetOffsetMeasure(t) \/ GetBody(t) \/ GetOffsetBody(t)
    \/ NotUpdated(t) \/ ReadFault(t) \/ Return(t)

Next ==
    \E t \in Thread :
        OpenStep(t) \/ CheckStep(t) \/ CloseStep(t) \/ SendStep(t) \/ GetStep(t)

Spec == Init /\ [][Next]_vars

-----------------------------------------------------------------------------
Held(h) == open[h] # {}

TypeOK ==
    /\ HeapTypeOK
    /\ infoFree \in Seq(Handle)
    /\ infoBusy \in SUBSET Handle
    /\ name \in [Handle -> Name \cup {NoName}]
    /\ len \in [Handle -> Size \cup {0}]
    /\ open \in [Handle -> SUBSET Core]
    /\ mem \in [Handle -> Block \cup {Null}]
    /\ update \in [Handle -> SUBSET Core]
    /\ size \in [Handle -> 0..(Word - 1)]
    /\ offset \in [Handle -> Offset \cup {0}]
    /\ content \in [Block -> UNION {[0..(BlockSize[p] - 1) -> Byte] : p \in Pool}]
    /\ written \in [Handle -> BOOLEAN]
    /\ \A t \in Thread : pc[t].op \in {"idle", "close", "measure", "send", "get",
                                     "span", "peek", "got"}
    /\ fault \in {"none", "assert", "write_null", "write_range", "read_null",
                  "read_range"}
    /\ rash \subseteq {t \in Thread : pc[t].op \in Copying}

\* The control area's lists, the open bits and the memory pointers agree: an
\* info is either on the free list, once, with no bit and no memory, or on the
\* busy list with both.  A close whose unlocked test is out of date must not
\* put an info on the free list twice or leave it on neither.
InfosConsistent ==
    LockFree =>
        /\ IsInjective(infoFree)
        /\ Range(infoFree) = Handle \ infoBusy
        /\ \A h \in Handle : /\ h \in infoBusy <=> Held(h)
                             /\ h \in infoBusy <=> mem[h] # Null
                             /\ h \in infoBusy <=> name[h] # NoName

\* A name leads every core to the same segment.
UniqueNames ==
    \A g, h \in infoBusy : name[g] = name[h] /\ name[g] # NoName => g = h

\* While a core's bit stays set the segment behind the handle stays the same
\* one, whatever the other core opens and closes.
HolderKeepsSegment ==
    [][\A h \in Handle : \A c \in open[h] \cap open'[h] :
           UNCHANGED <<name[h], len[h], mem[h]>>]_vars

\* The tests made before the lock is taken are still true under it: no copy
\* uses a null pointer or leaves its block, whatever the two cores open, close,
\* recycle and send meanwhile, rash calls included.  Two kinds of copy have no
\* such promise from the code: a rash one, and a get of a segment that nothing
\* was sent to yet, whose window is that of the info's former segment
\* (shm.c:848 clears neither m_size nor m_offset).
CopiesSafe ==
    LockFree =>
        \A t \in Thread \ rash :
            /\ pc[t].op = "send" => Writable(t)
            /\ pc[t].op = "get" /\ written[pc[t].h] => Readable(t)
            /\ pc[t].op = "peek" => Readable(t)

\* The control area runs out of infos only when no block is left either, as
\* long as one core allocates.
InfosSuffice ==
    LockFree /\ infoFree = <<>> =>
        \A c \in Core : served \subseteq {c} => \A p \in Pool : free[c][p] = <<>>

Heap == INSTANCE HeapUse WITH stuck <- fault = "assert"

\* The segments use the allocator as HeapUse says: what is proved of HeapUse
\* holds here.
UsesHeap == Heap!Spec

\* The segment a name stands for.
IsOpen(n) == \E h \in infoBusy : name[h] = n
At(n) == CHOOSE h \in infoBusy : name[h] = n

\* What the infos say of every name: the variables of SharedBuffers.
Holders == [n \in Name |-> IF IsOpen(n) THEN open[At(n)] ELSE {}]
Lengths == [n \in Name |-> IF IsOpen(n) THEN len[At(n)] ELSE 0]
Bytes(h) == [i \in 0..(len[h] - 1) |-> content[mem[h]][i]]
Cells == [n \in Name |-> IF IsOpen(n) THEN Bytes(At(n)) ELSE <<>>]
NoWindow == [from |-> 0, count |-> 0, known |-> FALSE]
WindowAt(h) == [from |-> offset[h], count |-> size[h], known |-> TRUE]
Windows ==
    [n \in Name |-> IF IsOpen(n) /\ written[At(n)] THEN WindowAt(At(n)) ELSE NoWindow]
Got == [t \in Thread |-> IF pc[t].op = "got" THEN pc[t].bytes ELSE <<>>]

Buffers == INSTANCE SharedBuffers WITH
    holder <- Holders, length <- Lengths, cells <- Cells, window <- Windows, got <- Got

\* What a rash call does under the lock.
RashStep ==
    \E t \in rash : SendBody(t) \/ GetBody(t) \/ GetOffsetBody(t)

\* Handles, infos, blocks, unlocked tests and the lock together implement one
\* buffer per name: no call on one segment touches another, a get returns the
\* bytes of the latest send, and a holder's buffer outlives the peer's close.
\* A second core's allocation ends this (see HeapUse), a rash call interrupts
\* it for its own step.
ImplementsBuffers ==
    /\ Buffers!Init
    /\ [][Heap!OneAllocates' => [Buffers!Next]_Buffers!vars \/ RashStep]_vars
=============================================================================
