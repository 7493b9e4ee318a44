-------------------------- MODULE ShmSegmentProofs --------------------------
(***************************************************************************)
(* Proofs about ShmSegment, for every number of threads, infos, names and  *)
(* blocks.                                                                 *)
(***************************************************************************)
EXTENDS ShmSegment, ModHeapProofs, FiniteSetTheorems

Ops == {"idle", "close", "measure", "send", "get", "span", "peek", "got"}

Faults == {"none", "assert", "write_null", "write_range", "read_null", "read_range"}

\* What a thread carries from its tests to its body.
PcOK ==
    /\ pc = [t \in Thread |-> pc[t]]
    /\ \A t \in Thread :
           /\ pc[t].op \in {"close", "measure", "send", "get", "span", "peek"} =>
                  pc[t].h \in Handle
           /\ pc[t].op \in {"measure", "get", "span"} => pc[t].l \in Size
           /\ pc[t].op \in {"measure", "send", "span", "peek"} => pc[t].o \in Offset
           /\ pc[t].op \in {"send", "peek"} => pc[t].s \in 0..(Word - 1)

\* Only a thread with a copy pending is rash.
RashOK == rash \subseteq {t \in Thread : pc[t].op \in Copying}

\* The inductive invariant of the control area.
AreaInv ==
    /\ TypeOK /\ PcOK
    /\ ListsPartition
    /\ InfosConsistent
    /\ UniqueNames

-----------------------------------------------------------------------------
(* What single operations do. *)

(* A step that changes only what one thread is doing. *)
LEMMA PcChange ==
    ASSUME PcOK, NEW t \in Thread, NEW r, pc' = [pc EXCEPT ![t] = r]
    PROVE  /\ pc' = [x \in Thread |-> pc'[x]]
           /\ pc'[t] = r
           /\ \A x \in Thread : x # t => pc'[x] = pc[x]
BY DEF PcOK

(* A remainder is a number below the modulus (32-bit arithmetic). *)
LEMMA ModRange ==
    ASSUME NEW x \in Int, NEW w \in Nat \ {0}
    PROVE  x % w \in 0..(w - 1)
BY SMT

(* The cut length is a 32-bit number. *)
LEMMA CutType ==
    ASSUME TypeOK, NEW h \in Handle, NEW l \in Size, NEW o \in Offset
    PROVE  Cut(h, l, o) \in 0..(Word - 1)
<1>1. len[h] \in Nat
  <2>1. len[h] \in Size \cup {0}
    BY DEF TypeOK
  <2>2. \A s \in Size : s \in Nat
    BY HeapAssumption
  <2> QED  BY <2>1, <2>2
<1>2. /\ l \in 0..(Word - 1) /\ o \in 0..(Word - 1)
      /\ Word \in Nat \ {0}
  BY SegmentAssumption
<1>3. len[h] - o + Word \in Int
  BY <1>1, <1>2
<1>4. (len[h] - o + Word) % Word \in 0..(Word - 1)
  BY <1>2, <1>3, ModRange
<1> QED  BY <1>2, <1>4 DEF Cut, Minus

(* A block is not the null pointer. *)
LEMMA NullNoBlock == Null \notin Block
BY SegmentAssumption

(* The first free info: the list holds it once and no longer afterwards. *)
LEMMA FirstFree ==
    ASSUME AreaInv, LockFree, infoFree # <<>>
    PROVE  LET h == Head(infoFree) IN
           /\ h \in Handle \ infoBusy
           /\ Tail(infoFree) \in Seq(Handle)
           /\ IsInjective(Tail(infoFree))
           /\ Range(Tail(infoFree)) = (Handle \ infoBusy) \ {h}
<1>1. /\ infoFree \in Seq(Handle) /\ IsInjective(infoFree)
      /\ Range(infoFree) = Handle \ infoBusy
  BY DEF AreaInv, TypeOK, InfosConsistent
<1> QED  BY <1>1, PopRange, HeadTailProperties

(* What mod_malloc gives a segment, and that the heap stays well formed. *)
LEMMA GivenBlock ==
    ASSUME TypeOK, ListsPartition, NEW c \in Core, NEW s \in Size, NEW b \in Block,
           Malloc(c, s, b)
    PROVE  HeapTypeOK' /\ ListsPartition'
BY ListsMalloc DEF TypeOK

-----------------------------------------------------------------------------
(* The control area at the start: the free list has every info. *)

LEMMA AllInfosFree ==
    ASSUME NEW s \in [1..Cardinality(Handle) -> Handle], IsInjective(s)
    PROVE  s \in Seq(Handle) /\ Range(s) = Handle
<1> DEFINE n == Cardinality(Handle)
<1>1. IsFiniteSet(Handle) /\ n \in Nat
  BY SegmentAssumption, FS_CardinalityType
<1>2. s \in Seq(Handle) /\ DOMAIN s = 1..n
  BY <1>1
<1>3. Range(s) \subseteq Handle /\ IsFiniteSet(Range(s))
  BY <1>1, <1>2, FS_Subset DEF Range
<1>4. ExistsBijection(1..n, Range(s))
  <2>1. s \in Bijection(1..n, Range(s))
    BY <1>2 DEF Bijection, Injection, Surjection, IsInjective, Range
  <2> QED  BY <2>1 DEF ExistsBijection
<1>5. Cardinality(Range(s)) = n
  <2>1. IsFiniteSet(1..n) /\ Cardinality(1..n) = n
    BY <1>1, FS_Interval
  <2> QED  BY <1>4, <2>1, FS_Bijection
<1> QED  BY <1>1, <1>2, <1>3, <1>5, FS_Subset

(* The invariant holds initially. *)
LEMMA AreaInit == Init => AreaInv
<1> SUFFICES ASSUME Init PROVE AreaInv
  OBVIOUS
<1>1. HeapTypeOK /\ ListsPartition
  BY HeapInit DEF Init
<1>2. infoFree \in Seq(Handle) /\ Range(infoFree) = Handle /\ IsInjective(infoFree)
  BY AllInfosFree DEF Init
<1>3. PcOK
  BY DEF Init, PcOK, Idle
<1>4. content \in [Block -> UNION {[0..(BlockSize[p] - 1) -> Byte] : p \in Pool}]
  <2>1. \A b \in Block : PoolOf(b) \in Pool
    BY BlockFacts
  <2>2. \A b \in Block :
          [i \in 0..(BlockSize[PoolOf(b)] - 1) |-> Null]
              \in [0..(BlockSize[PoolOf(b)] - 1) -> Byte]
    BY DEF Byte
  <2>3. \A b \in Block :
          [i \in 0..(BlockSize[PoolOf(b)] - 1) |-> Null]
              \in UNION {[0..(BlockSize[p] - 1) -> Byte] : p \in Pool}
    BY <2>1, <2>2
  <2> QED  BY <2>3 DEF Init
<1>5. /\ infoBusy = {} /\ name = [h \in Handle |-> NoName]
      /\ len = [h \in Handle |-> 0] /\ open = [h \in Handle |-> {}]
      /\ mem = [h \in Handle |-> Null] /\ update = [h \in Handle |-> {}]
      /\ size = [h \in Handle |-> 0] /\ offset = [h \in Handle |-> 0]
      /\ written = [h \in Handle |-> FALSE] /\ fault = "none"
      /\ \A t \in Thread : pc[t].op = "idle"
  BY DEF Init, Idle
<1>6. 0 \in 0..(Word - 1)
  BY SegmentAssumption
<1>7. TypeOK
  BY <1>1, <1>2, <1>4, <1>5, <1>6 DEF TypeOK, Init
<1>8. InfosConsistent
  BY <1>2, <1>5 DEF InfosConsistent, Held
<1>9. UniqueNames
  BY <1>5 DEF UniqueNames
<1> QED  BY <1>1, <1>3, <1>7, <1>8, <1>9 DEF AreaInv

-----------------------------------------------------------------------------
(* Steps that leave the control area alone. *)

(* A step that changes what thread t is doing, or stops it, and nothing else. *)
LEMMA QuietKeeps ==
    ASSUME AreaInv, RashOK', UNCHANGED <<heapVars, infoVars, dataVars>>,
           PcOK', \A x \in Thread : pc'[x].op \in Ops,
           fault' \in Faults, LockFree' => LockFree
    PROVE  AreaInv'
<1> USE DEF heapVars, infoVars, dataVars, AreaInv
<1>1. TypeOK'
  BY DEF TypeOK, HeapTypeOK, Ops, Faults, RashOK
<1>2. ListsPartition'
  BY DEF ListsPartition
<1>3. InfosConsistent'
  BY DEF InfosConsistent, Held
<1>4. UniqueNames'
  BY DEF UniqueNames
<1> QED  BY <1>1, <1>2, <1>3, <1>4

(* What the new state of a thread must be for PcOK. *)
LEMMA PcKeeps ==
    ASSUME AreaInv, NEW t \in Thread, NEW r, pc' = [pc EXCEPT ![t] = r],
           r.op \in Ops,
           r.op \in {"close", "measure", "send", "get", "span", "peek"} => r.h \in Handle,
           r.op \in {"measure", "get", "span"} => r.l \in Size,
           r.op \in {"measure", "send", "span", "peek"} => r.o \in Offset,
           r.op \in {"send", "peek"} => r.s \in 0..(Word - 1)
    PROVE  PcOK' /\ \A x \in Thread : pc'[x].op \in Ops
<1>1. /\ pc' = [x \in Thread |-> pc'[x]]
      /\ pc'[t] = r
      /\ \A x \in Thread : x # t => pc'[x] = pc[x]
  BY PcChange DEF AreaInv
<1>2. \A x \in Thread : pc[x].op \in Ops
  BY DEF AreaInv, TypeOK, Ops
<1> QED  BY <1>1, <1>2 DEF AreaInv, PcOK

(* The tests before the lock, and the reading of the length. *)
LEMMA ChecksKeep ==
    ASSUME AreaInv, RashOK', NEW t \in Thread, CheckStep(t) \/ SendMeasure(t) \/ GetOffsetMeasure(t)
    PROVE  AreaInv'
<1> USE DEF Ops
<1>1. fault \in Faults
  BY DEF AreaInv, TypeOK, Faults
<1>2. SUFFICES /\ UNCHANGED <<heapVars, infoVars, dataVars, fault>>
               /\ PcOK' /\ \A x \in Thread : pc'[x].op \in Ops
  BY <1>1, QuietKeeps DEF LockFree
<1>3. ASSUME NEW h \in Handle, CloseCheck(t, h)
      PROVE  /\ UNCHANGED <<heapVars, infoVars, dataVars, fault>>
             /\ PcOK' /\ \A x \in Thread : pc'[x].op \in Ops
  <2> DEFINE r == [op |-> "close", h |-> h]
  <2>1. /\ pc' = [pc EXCEPT ![t] = r]
        /\ UNCHANGED <<heapVars, infoVars, dataVars, fault>>
    BY <1>3 DEF CloseCheck
  <2>2. r.op = "close" /\ r.h = h
    OBVIOUS
  <2> HIDE DEF r
  <2> QED  BY <2>1, <2>2, PcKeeps
<1>4. ASSUME NEW h \in Handle, NEW l \in Size, NEW o \in Offset, SendCheck(t, h, l, o)
      PROVE  /\ UNCHANGED <<heapVars, infoVars, dataVars, fault>>
             /\ PcOK' /\ \A x \in Thread : pc'[x].op \in Ops
  <2> DEFINE r == [op |-> "measure", h |-> h, l |-> l, o |-> o]
  <2>1. /\ pc' = [pc EXCEPT ![t] = r]
        /\ UNCHANGED <<heapVars, infoVars, dataVars, fault>>
    BY <1>4 DEF SendCheck
  <2>2. r.op = "measure" /\ r.h = h /\ r.l = l /\ r.o = o
    OBVIOUS
  <2> HIDE DEF r
  <2> QED  BY <2>1, <2>2, PcKeeps
<1>5. ASSUME NEW h \in Handle, NEW l \in Size, NEW u \in UpdateMode, GetCheck(t, h, l, u)
      PROVE  /\ UNCHANGED <<heapVars, infoVars, dataVars, fault>>
             /\ PcOK' /\ \A x \in Thread : pc'[x].op \in Ops
  <2> DEFINE r == [op |-> "get", h |-> h, l |-> l, u |-> u]
  <2>1. /\ pc' = [pc EXCEPT ![t] = r]
        /\ UNCHANGED <<heapVars, infoVars, dataVars, fault>>
    BY <1>5 DEF GetCheck
  <2>2. r.op = "get" /\ r.h = h /\ r.l = l
    OBVIOUS
  <2> HIDE DEF r
  <2> QED  BY <2>1, <2>2, PcKeeps
<1>6. ASSUME NEW h \in Handle, NEW l \in Size, NEW u \in UpdateMode, NEW o \in Offset,
             GetOffsetCheck(t, h, l, u, o)
      PROVE  /\ UNCHANGED <<heapVars, infoVars, dataVars, fault>>
             /\ PcOK' /\ \A x \in Thread : pc'[x].op \in Ops
  <2> DEFINE r == [op |-> "span", h |-> h, l |-> l, u |-> u, o |-> o]
  <2>1. /\ pc' = [pc EXCEPT ![t] = r]
        /\ UNCHANGED <<heapVars, infoVars, dataVars, fault>>
    BY <1>6 DEF GetOffsetCheck
  <2>2. r.op = "span" /\ r.h = h /\ r.l = l /\ r.o = o
    OBVIOUS
  <2> HIDE DEF r
  <2> QED  BY <2>1, <2>2, PcKeeps
<1>7. CASE SendMeasure(t)
  <2> DEFINE h == pc[t].h
             o == pc[t].o
             s == Cut(h, pc[t].l, o)
             r == [op |-> "send", h |-> h, s |-> s, o |-> o]
  <2>1. /\ pc' = [pc EXCEPT ![t] = r]
        /\ UNCHANGED <<heapVars, infoVars, dataVars, fault>>
    BY <1>7 DEF SendMeasure
  <2>2. h \in Handle /\ o \in Offset /\ pc[t].l \in Size
    BY <1>7 DEF SendMeasure, AreaInv, PcOK
  <2>3. s \in 0..(Word - 1)
    BY <2>2, CutType DEF AreaInv
  <2> HIDE DEF h, o, s
  <2>4. r.op = "send" /\ r.h = h /\ r.s = s /\ r.o = o
    OBVIOUS
  <2> HIDE DEF r
  <2> QED  BY <2>1, <2>2, <2>3, <2>4, PcKeeps
<1>8. CASE GetOffsetMeasure(t)
  <2> DEFINE h == pc[t].h
             o == pc[t].o
             s == Cut(h, pc[t].l, o)
             r == [op |-> "peek", h |-> h, u |-> pc[t].u, o |-> o, s |-> s]
  <2>1. /\ pc' = [pc EXCEPT ![t] = r]
        /\ UNCHANGED <<heapVars, infoVars, dataVars, fault>>
    BY <1>8 DEF GetOffsetMeasure
  <2>2. h \in Handle /\ o \in Offset /\ pc[t].l \in Size
    BY <1>8 DEF GetOffsetMeasure, AreaInv, PcOK
  <2>3. s \in 0..(Word - 1)
    BY <2>2, CutType DEF AreaInv
  <2> HIDE DEF h, o, s
  <2>4. r.op = "peek" /\ r.h = h /\ r.s = s /\ r.o = o
    OBVIOUS
  <2> HIDE DEF r
  <2> QED  BY <2>1, <2>2, <2>3, <2>4, PcKeeps
<1> QED  BY <1>2, <1>3, <1>4, <1>5, <1>6, <1>7, <1>8 DEF CheckStep

(* A thread goes back to idle. *)
LEMMA BackToIdle ==
    ASSUME AreaInv, NEW t \in Thread, pc' = [pc EXCEPT ![t] = Idle]
    PROVE  PcOK' /\ \A x \in Thread : pc'[x].op \in Ops
<1>1. Idle.op = "idle"
  BY DEF Idle
<1> QED  BY <1>1, PcKeeps DEF Ops

(* A body that copies and keeps the books of a window. *)
LEMMA DataKeeps ==
    ASSUME AreaInv, RashOK', UNCHANGED <<heapVars, infoFree, infoBusy, name, len, open, mem, fault>>,
           PcOK', \A x \in Thread : pc'[x].op \in Ops,
           update' \in [Handle -> SUBSET Core],
           size' \in [Handle -> 0..(Word - 1)],
           offset' \in [Handle -> Offset \cup {0}],
           written' \in [Handle -> BOOLEAN],
           content' \in [Block -> UNION {[0..(BlockSize[p] - 1) -> Byte] : p \in Pool}]
    PROVE  AreaInv'
<1> USE DEF heapVars, AreaInv
<1>1. TypeOK'
  BY DEF TypeOK, HeapTypeOK, Ops, RashOK
<1>2. ListsPartition'
  BY DEF ListsPartition
<1>3. InfosConsistent'
  BY DEF InfosConsistent, Held, LockFree
<1>4. UniqueNames'
  BY DEF UniqueNames
<1> QED  BY <1>1, <1>2, <1>3, <1>4

(* The types of a window and of the update bits after they are set. *)
LEMMA WindowType ==
    ASSUME AreaInv, NEW h \in Handle, NEW o \in Offset \cup {0}, NEW s \in 0..(Word - 1),
           NEW t, SetWindow(t, h, o, s)
    PROVE  /\ size' \in [Handle -> 0..(Word - 1)]
           /\ offset' \in [Handle -> Offset \cup {0}]
           /\ written' \in [Handle -> BOOLEAN]
BY DEF AreaInv, TypeOK, SetWindow

(* The update bits of an info get another set of cores. *)
LEMMA UpdateType ==
    ASSUME AreaInv, NEW h \in Handle, NEW U \in SUBSET Core,
           update' = [update EXCEPT ![h] = U]
    PROVE  update' \in [Handle -> SUBSET Core]
BY DEF AreaInv, TypeOK

(* Writing bytes into a block keeps its type. *)
LEMMA WriteType ==
    ASSUME AreaInv, NEW b \in Block, NEW c \in Core, NEW R,
           content' = [content EXCEPT ![b] = [i \in DOMAIN @ |-> IF i \in R THEN c ELSE @[i]]]
    PROVE  content' \in [Block -> UNION {[0..(BlockSize[p] - 1) -> Byte] : p \in Pool}]
<1>1. content \in [Block -> UNION {[0..(BlockSize[p] - 1) -> Byte] : p \in Pool}]
  BY DEF AreaInv, TypeOK
<1>2. PICK p \in Pool : content[b] \in [0..(BlockSize[p] - 1) -> Byte]
  BY <1>1
<1> DEFINE w == [i \in DOMAIN content[b] |-> IF i \in R THEN c ELSE content[b][i]]
<1>3. w \in [0..(BlockSize[p] - 1) -> Byte]
  BY <1>2 DEF Byte
<1>4. w \in UNION {[0..(BlockSize[q] - 1) -> Byte] : q \in Pool}
  BY <1>3
<1>5. content' = [content EXCEPT ![b] = w]
  OBVIOUS
<1> HIDE DEF w
<1> QED  BY <1>1, <1>4, <1>5

(* Bodies and failures of send and get. *)
LEMMA SendKeeps ==
    ASSUME AreaInv, RashOK', NEW t \in Thread, SendBody(t)
    PROVE  AreaInv'
<1> DEFINE h == pc[t].h
           s == pc[t].s
           o == pc[t].o
<1>1. /\ pc[t].op = "send" /\ pc' = [pc EXCEPT ![t] = Idle]
      /\ update' = [update EXCEPT ![h] = @ \cup {CoreOf[t]}]
      /\ SetWindow(t, h, o, s)
      /\ UNCHANGED <<heapVars, infoFree, infoBusy, name, len, open, mem, fault>>
  BY DEF SendBody, Locked
<1>2. h \in Handle /\ o \in Offset \cup {0} /\ s \in 0..(Word - 1) /\ CoreOf[t] \in Core
  BY <1>1, SegmentAssumption DEF AreaInv, PcOK
<1>3. content' \in [Block -> UNION {[0..(BlockSize[p] - 1) -> Byte] : p \in Pool}]
  <2>1. CASE UNCHANGED content
    BY <2>1 DEF AreaInv, TypeOK
  <2>2. CASE /\ mem[h] # Null
             /\ content' = [content EXCEPT ![mem[h]] =
                    [i \in DOMAIN @ |-> IF i \in o..(o + s - 1) THEN CoreOf[t] ELSE @[i]]]
    <3>1. mem[h] \in Block
      BY <1>2, <2>2 DEF AreaInv, TypeOK
    <3> QED  BY <1>2, <2>2, <3>1, WriteType
  <2> QED  BY <2>1, <2>2 DEF SendBody, Writable
<1>4. update' \in [Handle -> SUBSET Core]
  <2>1. update[h] \cup {CoreOf[t]} \in SUBSET Core
    BY <1>2 DEF AreaInv, TypeOK
  <2> QED  BY <1>1, <1>2, <2>1, UpdateType
<1>5. PcOK' /\ \A x \in Thread : pc'[x].op \in Ops
  BY <1>1, BackToIdle
<1> QED  BY <1>1, <1>2, <1>3, <1>4, <1>5, WindowType, DataKeeps

(* The bodies of mpi_shm_get and mpi_shm_get_offset keep the invariant. *)
LEMMA GetKeeps ==
    ASSUME AreaInv, RashOK', NEW t \in Thread, GetBody(t) \/ GetOffsetBody(t)
    PROVE  AreaInv'
<1> DEFINE h == pc[t].h
           r == [op |-> "got", bytes |-> ReadBytes(t)]
<1>1. /\ pc[t].op \in {"get", "peek"} /\ pc' = [pc EXCEPT ![t] = r]
      /\ update' = [update EXCEPT ![h] = @ \ Peer(CoreOf[t])]
      /\ SetWindow(t, h, 0, 0) \/ UNCHANGED <<size, offset, written>>
      /\ UNCHANGED content
      /\ UNCHANGED <<heapVars, infoFree, infoBusy, name, len, open, mem, fault>>
  BY DEF GetBody, GetOffsetBody, Locked, ReadDone
<1>2. h \in Handle
  BY <1>1 DEF AreaInv, PcOK
<1>3. /\ size' \in [Handle -> 0..(Word - 1)]
      /\ offset' \in [Handle -> Offset \cup {0}]
      /\ written' \in [Handle -> BOOLEAN]
  <2>1. CASE SetWindow(t, h, 0, 0)
    <3>1. 0 \in 0..(Word - 1) /\ 0 \in Offset \cup {0}
      BY SegmentAssumption
    <3> QED  BY <1>2, <2>1, <3>1, WindowType
  <2>2. CASE UNCHANGED <<size, offset, written>>
    BY <2>2 DEF AreaInv, TypeOK
  <2> QED  BY <1>1, <2>1, <2>2
<1>4. update' \in [Handle -> SUBSET Core]
  <2>1. update[h] \ Peer(CoreOf[t]) \in SUBSET Core
    BY <1>2 DEF AreaInv, TypeOK
  <2> QED  BY <1>1, <1>2, <2>1, UpdateType
<1>7. content' \in [Block -> UNION {[0..(BlockSize[p] - 1) -> Byte] : p \in Pool}]
  BY <1>1 DEF AreaInv, TypeOK
<1>5. r.op = "got" /\ pc' = [pc EXCEPT ![t] = r]
  BY <1>1
<1> HIDE DEF r
<1>6. PcOK' /\ \A x \in Thread : pc'[x].op \in Ops
  BY <1>5, PcKeeps DEF Ops
<1> QED  BY <1>1, <1>3, <1>4, <1>6, <1>7, DataKeeps

(* So do a get that finds no update, a return, and a copy that goes wrong. *)
LEMMA RestKeeps ==
    ASSUME AreaInv, RashOK', NEW t \in Thread,
           NotUpdated(t) \/ Return(t) \/ SendFault(t) \/ ReadFault(t)
    PROVE  AreaInv'
<1>1. CASE NotUpdated(t) \/ Return(t)
  <2>1. /\ pc' = [pc EXCEPT ![t] = Idle]
        /\ UNCHANGED <<heapVars, infoVars, dataVars, fault>>
    BY <1>1 DEF NotUpdated, Return
  <2>2. PcOK' /\ \A x \in Thread : pc'[x].op \in Ops
    BY <2>1, BackToIdle
  <2>3. fault' \in Faults /\ (LockFree' => LockFree)
    BY <2>1, SMT DEF AreaInv, TypeOK, Faults, LockFree
  <2> QED  BY <2>1, <2>2, <2>3, QuietKeeps
<1>2. CASE SendFault(t) \/ ReadFault(t)
  <2>1. /\ UNCHANGED <<heapVars, infoVars, dataVars, pc>>
        /\ fault' \in Faults /\ LockFree
    BY <1>2 DEF SendFault, ReadFault, Faults, Locked
  <2>2. PcOK' /\ \A x \in Thread : pc'[x].op \in Ops
    BY <2>1 DEF AreaInv, TypeOK, PcOK, Ops
  <2> QED  BY <2>1, <2>2, QuietKeeps
<1> QED  BY <1>1, <1>2

-----------------------------------------------------------------------------
(* Opens and closes. *)

(* The types that an open or a close may disturb, together. *)
LEMMA InfoTypes ==
    ASSUME AreaInv, RashOK', HeapTypeOK', PcOK', \A x \in Thread : pc'[x].op \in Ops,
           infoFree' \in Seq(Handle), infoBusy' \subseteq Handle,
           name' \in [Handle -> Name \cup {NoName}],
           len' \in [Handle -> Size \cup {0}],
           open' \in [Handle -> SUBSET Core],
           mem' \in [Handle -> Block \cup {Null}],
           update' \in [Handle -> SUBSET Core],
           written' \in [Handle -> BOOLEAN],
           fault' \in Faults, UNCHANGED <<size, offset, content>>
    PROVE  TypeOK'
BY DEF AreaInv, TypeOK, Ops, Faults, RashOK

(* What InfosConsistent says of one info. *)
InfoOK(h) ==
    /\ h \in infoBusy <=> Held(h)
    /\ h \in infoBusy <=> mem[h] # Null
    /\ h \in infoBusy <=> name[h] # NoName

(* An open of a name in use adds a bit to its info and keeps the invariant. *)
LEMMA AttachKeeps ==
    ASSUME AreaInv, RashOK', NEW t \in Thread, NEW n \in Name, NEW s \in Size, Attach(t, n, s)
    PROVE  AreaInv'
<1> DEFINE c == CoreOf[t]
<1>1. PICK h \in infoBusy :
         /\ open' = [open EXCEPT ![h] = @ \cup {c}]
         /\ LockFree
         /\ UNCHANGED <<heapVars, infoFree, infoBusy, name, len, mem, written, dataVars,
                       pc, fault>>
  BY DEF Attach, Locked
<1>2. h \in Handle /\ c \in Core /\ open \in [Handle -> SUBSET Core]
  BY SegmentAssumption DEF AreaInv, TypeOK
<1> HIDE DEF c
<1>3. open' \in [Handle -> SUBSET Core]
  BY <1>1, <1>2
<1>4. \A g \in Handle : Held(g)' <=> Held(g)
  <2>1. Held(h)
    BY <1>1, <1>2 DEF AreaInv, InfosConsistent
  <2> QED  BY <1>1, <1>2, <2>1 DEF Held
<1>5. TypeOK'
  BY <1>1, <1>3 DEF AreaInv, TypeOK, heapVars, dataVars, HeapTypeOK, RashOK
<1>6. PcOK' /\ ListsPartition'
  BY <1>1 DEF AreaInv, PcOK, ListsPartition, heapVars
<1>7. InfosConsistent'
  BY <1>1, <1>4 DEF AreaInv, InfosConsistent, LockFree
<1>8. UniqueNames'
  BY <1>1 DEF AreaInv, UniqueNames
<1> QED  BY <1>5, <1>6, <1>7, <1>8 DEF AreaInv

(* An open of a new name takes an info and a block and keeps the invariant. *)
LEMMA CreateKeeps ==
    ASSUME AreaInv, RashOK', NEW t \in Thread, NEW n \in Name, NEW s \in Size, Create(t, n, s)
    PROVE  AreaInv'
<1> DEFINE c == CoreOf[t]
<1>0. PICK h : h = Head(infoFree)
  OBVIOUS
<1>1. PICK b \in Block :
         /\ LockFree /\ NameUnused(n) /\ infoFree # <<>>
         /\ Malloc(c, s, b)
         /\ mem' = [mem EXCEPT ![h] = b]
         /\ infoFree' = Tail(infoFree)
         /\ infoBusy' = infoBusy \cup {h}
         /\ len' = [len EXCEPT ![h] = s]
         /\ open' = [open EXCEPT ![h] = @ \cup {c}]
         /\ name' = [name EXCEPT ![h] = n]
         /\ written' = [written EXCEPT ![h] = FALSE]
         /\ UNCHANGED <<dataVars, pc, fault>>
  BY <1>0 DEF Create, Locked
<1>2. /\ h \in Handle \ infoBusy
      /\ Tail(infoFree) \in Seq(Handle)
      /\ IsInjective(Tail(infoFree))
      /\ Range(Tail(infoFree)) = (Handle \ infoBusy) \ {h}
  BY <1>0, <1>1, FirstFree
<1>3. c \in Core /\ b # Null /\ n # NoName
  BY NullNoBlock, SegmentAssumption
<1> HIDE DEF c
<1>4. HeapTypeOK' /\ ListsPartition'
  BY <1>1, <1>3, GivenBlock DEF AreaInv
<1>5. /\ infoBusy \subseteq Handle
      /\ name \in [Handle -> Name \cup {NoName}] /\ len \in [Handle -> Size \cup {0}]
      /\ open \in [Handle -> SUBSET Core] /\ mem \in [Handle -> Block \cup {Null}]
      /\ update \in [Handle -> SUBSET Core] /\ written \in [Handle -> BOOLEAN]
  BY DEF AreaInv, TypeOK
<1>6. PcOK' /\ (\A x \in Thread : pc'[x].op \in Ops) /\ fault' \in Faults
  BY <1>1 DEF AreaInv, TypeOK, PcOK, Ops, Faults
<1>7. TypeOK'
  <2>1. /\ infoFree' \in Seq(Handle) /\ infoBusy' \subseteq Handle
        /\ name' \in [Handle -> Name \cup {NoName}]
        /\ len' \in [Handle -> Size \cup {0}]
    BY <1>1, <1>2, <1>5
  <2>2. /\ open' \in [Handle -> SUBSET Core]
        /\ mem' \in [Handle -> Block \cup {Null}]
        /\ update' \in [Handle -> SUBSET Core]
        /\ written' \in [Handle -> BOOLEAN]
        /\ UNCHANGED <<size, offset, content>>
    BY <1>1, <1>2, <1>3, <1>5 DEF dataVars
  <2> QED  BY <1>4, <1>6, <2>1, <2>2, InfoTypes
<1>8. \A g \in Handle : InfoOK(g)
  BY <1>1 DEF AreaInv, InfosConsistent, InfoOK
<1>9. \A g \in Handle : InfoOK(g)'
  <2>1. InfoOK(h)'
    <3>1. h \in infoBusy' /\ mem'[h] = b /\ name'[h] = n /\ c \in open'[h]
      BY <1>1, <1>2, <1>5
    <3> QED  BY <1>3, <3>1 DEF InfoOK, Held
  <2>2. ASSUME NEW g \in Handle, g # h
        PROVE  InfoOK(g)'
    BY <1>1, <1>5, <1>8, <2>2 DEF InfoOK, Held
  <2> QED  BY <2>1, <2>2
<1>10. InfosConsistent'
  <2>1. IsInjective(infoFree') /\ Range(infoFree') = Handle \ infoBusy'
    <3>1. (Handle \ infoBusy) \ {h} = Handle \ infoBusy'
      BY <1>1
    <3> QED  BY <1>1, <1>2, <3>1
  <2> QED  BY <1>9, <2>1 DEF InfosConsistent, InfoOK
<1>11. UniqueNames'
  BY <1>1, <1>2, <1>5 DEF AreaInv, UniqueNames, NameUnused
<1> QED  BY <1>4, <1>6, <1>7, <1>10, <1>11 DEF AreaInv

(* A close that others outlive clears one bit and keeps the invariant. *)
LEMMA CloseKeepKeeps ==
    ASSUME AreaInv, RashOK', NEW t \in Thread, CloseKeep(t)
    PROVE  AreaInv'
<1> DEFINE c == CoreOf[t]
           h == pc[t].h
<1>1. /\ pc[t].op = "close" /\ LockFree /\ ~LastHolder(t, h)
      /\ open' = [open EXCEPT ![h] = @ \ {c}]
      /\ pc' = [pc EXCEPT ![t] = Idle]
      /\ UNCHANGED <<heapVars, infoFree, infoBusy, name, len, mem, written, dataVars, fault>>
  BY DEF CloseKeep, Locked
<1>2. h \in Handle /\ open \in [Handle -> SUBSET Core] /\ fault' \in Faults
  BY <1>1 DEF AreaInv, TypeOK, PcOK, Faults
<1>3. Held(h) /\ open[h] \ {c} # {}
  BY <1>1 DEF Held, LastHolder
<1>4. PcOK' /\ \A x \in Thread : pc'[x].op \in Ops
  BY <1>1, BackToIdle
<1> HIDE DEF c, h
<1>5. open' \in [Handle -> SUBSET Core] /\ \A g \in Handle : Held(g)' <=> Held(g)
  BY <1>1, <1>2, <1>3 DEF Held
<1>6. HeapTypeOK' /\ ListsPartition'
  BY <1>1 DEF AreaInv, TypeOK, HeapTypeOK, ListsPartition, heapVars
<1>7. TypeOK'
  BY <1>1, <1>2, <1>4, <1>5, <1>6 DEF AreaInv, TypeOK, dataVars, Ops, Faults, RashOK
<1>8. InfosConsistent'
  BY <1>1, <1>5 DEF AreaInv, InfosConsistent, LockFree
<1>9. UniqueNames'
  BY <1>1 DEF AreaInv, UniqueNames
<1> QED  BY <1>4, <1>6, <1>7, <1>8, <1>9 DEF AreaInv

(* The types after the info has been cleared. *)
LEMMA ClearTypes ==
    ASSUME AreaInv, NEW t \in Thread, NEW h \in Handle, ClearInfo(t, h)
    PROVE  /\ name' \in [Handle -> Name \cup {NoName}]
           /\ len' \in [Handle -> Size \cup {0}]
           /\ open' \in [Handle -> SUBSET Core]
           /\ update' \in [Handle -> SUBSET Core]
<1>1. /\ name \in [Handle -> Name \cup {NoName}] /\ len \in [Handle -> Size \cup {0}]
      /\ open \in [Handle -> SUBSET Core] /\ update \in [Handle -> SUBSET Core]
  BY DEF AreaInv, TypeOK
<1>2. open[h] \ {CoreOf[t]} \in SUBSET Core /\ update[h] \ {CoreOf[t]} \in SUBSET Core
  BY <1>1
<1> QED  BY <1>1, <1>2 DEF ClearInfo

(* A last close, also one that comes twice, keeps the invariant. *)
LEMMA CloseLastKeeps ==
    ASSUME AreaInv, RashOK', NEW t \in Thread, CloseLast(t)
    PROVE  AreaInv'
<1> DEFINE c == CoreOf[t]
<1>1. PICK h : h = pc[t].h
  OBVIOUS
<1>2. /\ pc[t].op = "close" /\ LockFree
      /\ LastHolder(t, h) /\ ClearInfo(t, h) /\ FreeMem(t, h)
      /\ mem' = [mem EXCEPT ![h] = Null]
      /\ FreeInfo(h)
      /\ pc' = [pc EXCEPT ![t] = Idle]
      /\ UNCHANGED <<written, size, offset, content, fault>>
  BY <1>1 DEF CloseLast, Locked
<1>3. h \in Handle /\ c \in Core
  BY <1>1, <1>2, SegmentAssumption DEF AreaInv, PcOK
<1>4. /\ infoBusy \subseteq Handle /\ infoFree \in Seq(Handle)
      /\ name \in [Handle -> Name \cup {NoName}] /\ open \in [Handle -> SUBSET Core]
      /\ mem \in [Handle -> Block \cup {Null}] /\ written \in [Handle -> BOOLEAN]
      /\ fault \in Faults /\ HeapTypeOK /\ ListsPartition
  BY DEF AreaInv, TypeOK, Faults
<1>5. HeapTypeOK' /\ ListsPartition'
  <2>1. CASE mem[h] = Null /\ UNCHANGED heapVars
    BY <1>4, <2>1 DEF HeapTypeOK, ListsPartition, heapVars
  <2>2. CASE mem[h] # Null /\ Free(c, mem[h])
    <3>1. mem[h] \in Block
      BY <1>3, <1>4, <2>2
    <3> QED  BY <1>3, <1>4, <2>2, <3>1, ListsFree
  <2> QED  BY <1>2, <2>1, <2>2 DEF FreeMem
<1>6. PcOK' /\ \A x \in Thread : pc'[x].op \in Ops
  BY <1>2, BackToIdle
<1>7. /\ IsInjective(infoFree) /\ Range(infoFree) = Handle \ infoBusy
      /\ \A g \in Handle : InfoOK(g)
  BY <1>2 DEF AreaInv, InfosConsistent, InfoOK
<1>8. /\ infoBusy' = infoBusy \ {h}
      /\ infoFree' \in Seq(Handle) /\ IsInjective(infoFree')
      /\ Range(infoFree') = Handle \ infoBusy'
  <2>1. infoBusy' = infoBusy \ {h}
    BY <1>2 DEF FreeInfo
  <2>2. CASE h \in infoBusy
    <3>1. infoFree' = <<h>> \o infoFree /\ h \notin Range(infoFree)
      BY <1>2, <1>7, <2>2 DEF FreeInfo
    <3>2. /\ infoFree' \in Seq(Handle) /\ IsInjective(infoFree')
          /\ Range(infoFree') = Range(infoFree) \cup {h}
      BY <1>3, <1>4, <1>7, <3>1, PushRange
    <3>3. (Handle \ infoBusy) \cup {h} = Handle \ infoBusy'
      BY <1>3, <2>1
    <3> QED  BY <1>7, <2>1, <3>2, <3>3
  <2>3. CASE h \notin infoBusy
    <3>1. infoFree' = infoFree /\ infoBusy' = infoBusy
      BY <1>2, <2>1, <2>3 DEF FreeInfo
    <3> QED  BY <1>4, <1>7, <2>1, <3>1
  <2> QED  BY <2>2, <2>3
<1>9. TypeOK'
  <2>1. mem' \in [Handle -> Block \cup {Null}] /\ infoBusy' \subseteq Handle
    BY <1>2, <1>4, <1>8
  <2>2. written' \in [Handle -> BOOLEAN] /\ fault' \in Faults
        /\ UNCHANGED <<size, offset, content>>
    BY <1>2, <1>4
  <2> QED  BY <1>2, <1>3, <1>5, <1>6, <1>8, <2>1, <2>2, ClearTypes, InfoTypes
<1>10. \A g \in Handle : InfoOK(g)'
  <2>1. /\ open' = [open EXCEPT ![h] = @ \ {c}] /\ open[h] \ {c} = {}
        /\ name' = [name EXCEPT ![h] = NoName]
    BY <1>2 DEF ClearInfo, LastHolder
  <2> HIDE DEF c
  <2>2. InfoOK(h)'
    <3>1. h \notin infoBusy' /\ mem'[h] = Null /\ name'[h] = NoName /\ open'[h] = {}
      BY <1>2, <1>3, <1>4, <1>8, <2>1
    <3> QED  BY <3>1 DEF InfoOK, Held
  <2>3. ASSUME NEW g \in Handle, g # h
        PROVE  InfoOK(g)'
    BY <1>2, <1>4, <1>7, <1>8, <2>1, <2>3 DEF InfoOK, Held
  <2> QED  BY <2>2, <2>3
<1>11. InfosConsistent'
  BY <1>8, <1>10 DEF InfosConsistent, InfoOK
<1>12. UniqueNames'
  <2>1. \A g \in infoBusy' : g \in infoBusy /\ name'[g] = name[g]
    BY <1>2, <1>4, <1>8 DEF ClearInfo
  <2> QED  BY <2>1 DEF AreaInv, UniqueNames
<1> QED  BY <1>5, <1>6, <1>9, <1>11, <1>12 DEF AreaInv

(* A close that dies in mod_free leaves only an info half cleared. *)
LEMMA CloseBugKeeps ==
    ASSUME AreaInv, RashOK', NEW t \in Thread, CloseBug(t)
    PROVE  AreaInv'
<1>1. PICK h : h = pc[t].h
  OBVIOUS
<1>2. /\ pc[t].op = "close" /\ ClearInfo(t, h) /\ fault' = "assert"
      /\ UNCHANGED <<heapVars, infoFree, infoBusy, mem, written, size, offset, content, pc>>
  BY <1>1 DEF CloseBug, Locked
<1>3. h \in Handle
  BY <1>1, <1>2 DEF AreaInv, PcOK
<1>4. PcOK' /\ (\A x \in Thread : pc'[x].op \in Ops) /\ fault' \in Faults
  BY <1>2 DEF AreaInv, TypeOK, PcOK, Ops, Faults
<1>5. HeapTypeOK' /\ ListsPartition'
  BY <1>2 DEF AreaInv, TypeOK, HeapTypeOK, ListsPartition, heapVars
<1>6. TypeOK'
  <2>1. /\ infoFree' \in Seq(Handle) /\ infoBusy' \subseteq Handle
        /\ mem' \in [Handle -> Block \cup {Null}] /\ written' \in [Handle -> BOOLEAN]
    BY <1>2 DEF AreaInv, TypeOK
  <2> QED  BY <1>2, <1>3, <1>4, <1>5, <2>1, ClearTypes, InfoTypes
<1>7. InfosConsistent'
  BY <1>2 DEF InfosConsistent, LockFree
<1>8. UniqueNames'
  <2>1. \A g \in infoBusy : name'[g] = name[g] \/ name'[g] = NoName
    BY <1>2, <1>3 DEF ClearInfo, AreaInv, TypeOK
  <2> QED  BY <1>2, <2>1 DEF AreaInv, UniqueNames
<1> QED  BY <1>4, <1>5, <1>6, <1>7, <1>8 DEF AreaInv

(* A rash thread is one that copies, and a copy that ends takes its thread off. *)
LEMMA RashNext ==
    ASSUME AreaInv, [Next]_vars
    PROVE  RashOK'
<1>1. RashOK
  BY DEF AreaInv, TypeOK, RashOK
<1>2. CASE UNCHANGED vars
  BY <1>1, <1>2 DEF vars, RashOK
<1>3. ASSUME NEW t \in Thread, NEW r, pc' = [pc EXCEPT ![t] = r],
             rash' \subseteq rash \cup {t},
             r.op \in Copying \/ t \notin rash'
      PROVE  RashOK'
  <2>1. pc'[t] = r /\ \A x \in Thread : x # t => pc'[x] = pc[x]
    BY <1>3, PcChange DEF AreaInv
  <2> QED  BY <1>1, <1>3, <2>1 DEF RashOK
<1>4. ASSUME NEW t \in Thread, NEW h, LeadAstray(t, h), pc[t].op = "close",
             pc' = [pc EXCEPT ![t] = Idle] \/ UNCHANGED pc
      PROVE  RashOK'
  <2>1. "close" \notin Copying
    BY DEF Copying
  <2>2. rash' \subseteq {x \in Thread : pc[x].op \in Copying}
    BY <1>1, <1>4 DEF LeadAstray, RashOK
  <2>3. \A x \in Thread : x # t => pc'[x] = pc[x]
    BY <1>4, PcChange DEF AreaInv
  <2> QED  BY <1>4, <2>1, <2>2, <2>3 DEF RashOK
<1>5. ASSUME NEW t \in Thread, CheckStep(t)
      PROVE  RashOK'
  <2>1. ASSUME NEW h \in Handle, CloseCheck(t, h)
        PROVE  RashOK'
    <3>1. PICK r : r = [op |-> "close", h |-> h]
      OBVIOUS
    <3>2. pc' = [pc EXCEPT ![t] = r] /\ rash' = rash
      BY <2>1, <3>1 DEF CloseCheck
    <3>3. t \notin rash
      BY <1>1, <2>1 DEF CloseCheck, RashOK, Idle, Copying
    <3> QED  BY <1>3, <3>2, <3>3
  <2>2. ASSUME NEW h \in Handle, NEW l \in Size, NEW o \in Offset, SendCheck(t, h, l, o)
        PROVE  RashOK'
    <3>1. PICK r : r = [op |-> "measure", h |-> h, l |-> l, o |-> o]
      OBVIOUS
    <3>2. pc' = [pc EXCEPT ![t] = r] /\ rash' \subseteq rash \cup {t}
      BY <2>2, <3>1 DEF SendCheck, Begin
    <3>3. r.op \in Copying
      BY <3>1 DEF Copying
    <3> QED  BY <1>3, <3>2, <3>3
  <2>3. ASSUME NEW h \in Handle, NEW l \in Size, NEW u \in UpdateMode, GetCheck(t, h, l, u)
        PROVE  RashOK'
    <3>1. PICK r : r = [op |-> "get", h |-> h, l |-> l, u |-> u]
      OBVIOUS
    <3>2. pc' = [pc EXCEPT ![t] = r] /\ rash' \subseteq rash \cup {t}
      BY <2>3, <3>1 DEF GetCheck, Begin
    <3>3. r.op \in Copying
      BY <3>1 DEF Copying
    <3> QED  BY <1>3, <3>2, <3>3
  <2>4. ASSUME NEW h \in Handle, NEW l \in Size, NEW u \in UpdateMode, NEW o \in Offset,
               GetOffsetCheck(t, h, l, u, o)
        PROVE  RashOK'
    <3>1. PICK r : r = [op |-> "span", h |-> h, l |-> l, u |-> u, o |-> o]
      OBVIOUS
    <3>2. pc' = [pc EXCEPT ![t] = r] /\ rash' \subseteq rash \cup {t}
      BY <2>4, <3>1 DEF GetOffsetCheck, Begin
    <3>3. r.op \in Copying
      BY <3>1 DEF Copying
    <3> QED  BY <1>3, <3>2, <3>3
  <2> QED  BY <1>5, <2>1, <2>2, <2>3, <2>4 DEF CheckStep
<1>6. ASSUME NEW t \in Thread, OpenStep(t)
      PROVE  RashOK'
  BY <1>1, <1>6 DEF OpenStep, Attach, Create, RashOK
<1>7. ASSUME NEW t \in Thread, CloseStep(t)
      PROVE  RashOK'
  <2>1. \E h : LeadAstray(t, h)
    BY <1>7 DEF CloseStep, CloseKeep, CloseLast, CloseBug
  <2>2. pc[t].op = "close" /\ (pc' = [pc EXCEPT ![t] = Idle] \/ UNCHANGED pc)
    BY <1>7 DEF CloseStep, CloseKeep, CloseLast, CloseBug, Locked
  <2> QED  BY <1>4, <2>1, <2>2
<1>8. ASSUME NEW t \in Thread, SendMeasure(t)
      PROVE  RashOK'
  <2>1. PICK r : r = [op |-> "send", h |-> pc[t].h, s |-> Cut(pc[t].h, pc[t].l, pc[t].o),
                      o |-> pc[t].o]
    OBVIOUS
  <2>2. pc' = [pc EXCEPT ![t] = r] /\ rash' = rash
    BY <1>8, <2>1 DEF SendMeasure
  <2>3. r.op \in Copying
    BY <2>1 DEF Copying
  <2> QED  BY <1>3, <2>2, <2>3
<1>9. ASSUME NEW t \in Thread, GetOffsetMeasure(t)
      PROVE  RashOK'
  <2>1. PICK r : r = [op |-> "peek", h |-> pc[t].h, u |-> pc[t].u, o |-> pc[t].o,
                      s |-> Cut(pc[t].h, pc[t].l, pc[t].o)]
    OBVIOUS
  <2>2. pc' = [pc EXCEPT ![t] = r] /\ rash' = rash
    BY <1>9, <2>1 DEF GetOffsetMeasure
  <2>3. r.op \in Copying
    BY <2>1 DEF Copying
  <2> QED  BY <1>3, <2>2, <2>3
<1>10. ASSUME NEW t \in Thread, SendBody(t) \/ GetBody(t) \/ GetOffsetBody(t) \/ NotUpdated(t)
       PROVE  RashOK'
  <2>1. PICK r : pc' = [pc EXCEPT ![t] = r]
    BY <1>10 DEF SendBody, GetBody, GetOffsetBody, NotUpdated, ReadDone
  <2>2. rash' = rash \ {t}
    BY <1>10 DEF SendBody, GetBody, GetOffsetBody, NotUpdated, ReadDone, End
  <2> QED  BY <1>3, <2>1, <2>2
<1>11. ASSUME NEW t \in Thread, Return(t)
       PROVE  RashOK'
  <2>1. pc' = [pc EXCEPT ![t] = Idle] /\ rash' = rash
    BY <1>11 DEF Return
  <2>2. t \notin rash
    BY <1>1, <1>11 DEF Return, RashOK, Copying
  <2> QED  BY <1>3, <2>1, <2>2
<1>12. ASSUME NEW t \in Thread, SendFault(t) \/ ReadFault(t)
       PROVE  RashOK'
  BY <1>1, <1>12 DEF SendFault, ReadFault, RashOK
<1> QED
  BY <1>2, <1>5, <1>6, <1>7, <1>8, <1>9, <1>10, <1>11, <1>12 DEF Next, SendStep, GetStep

(* Every step keeps the invariant. *)
LEMMA AreaNext == AreaInv /\ [Next]_vars => AreaInv'
<1> SUFFICES ASSUME AreaInv, [Next]_vars PROVE AreaInv'
  OBVIOUS
<1>0. RashOK'
  BY RashNext
<1>1. CASE UNCHANGED vars
  BY <1>0, <1>1, QuietKeeps DEF vars, AreaInv, TypeOK, PcOK, Ops, Faults, LockFree
<1>2. ASSUME NEW t \in Thread,
             OpenStep(t) \/ CheckStep(t) \/ CloseStep(t) \/ SendStep(t) \/ GetStep(t)
      PROVE  AreaInv'
  <2>1. CASE OpenStep(t)
    BY <1>0, <2>1, AttachKeeps, CreateKeeps DEF OpenStep
  <2>2. CASE CheckStep(t)
    BY <1>0, <2>2, ChecksKeep
  <2>3. CASE CloseStep(t)
    BY <1>0, <2>3, CloseKeepKeeps, CloseLastKeeps, CloseBugKeeps DEF CloseStep
  <2>4. CASE SendStep(t)
    BY <1>0, <2>4, ChecksKeep, SendKeeps, RestKeeps DEF SendStep
  <2>5. CASE GetStep(t)
    BY <1>0, <2>5, ChecksKeep, GetKeeps, RestKeeps DEF GetStep
  <2> QED  BY <1>2, <2>1, <2>2, <2>3, <2>4, <2>5
<1> QED  BY <1>1, <1>2 DEF Next

(* The inductive invariant of the control area: types, the threads' states,   *)
(* the allocator's lists and the infos' lists agree after every step.         *)
THEOREM AreaInductive == Spec => []AreaInv
BY AreaInit, AreaNext, PTL DEF Spec

(* All variables keep their types. *)
THEOREM SegmentTypes == Spec => []TypeOK
<1>1. AreaInv => TypeOK
  BY DEF AreaInv
<1> QED  BY <1>1, AreaInductive, PTL

(* An info is free, once, with nothing in it, or busy and held, whatever      *)
(* closes meet on one handle after their unlocked tests.                      *)
THEOREM InfosAgree == Spec => []InfosConsistent
<1>1. AreaInv => InfosConsistent
  BY DEF AreaInv
<1> QED  BY <1>1, AreaInductive, PTL

(* No name has two segments. *)
THEOREM NamesUnique == Spec => []UniqueNames
<1>1. AreaInv => UniqueNames
  BY DEF AreaInv
<1> QED  BY <1>1, AreaInductive, PTL

-----------------------------------------------------------------------------
(* What a holder may rely on. *)

(* Only opens and closes touch the control area and the heap. *)
LEMMA OthersLeave ==
    ASSUME NEW t \in Thread, CheckStep(t) \/ SendStep(t) \/ GetStep(t)
    PROVE  /\ UNCHANGED <<heapVars, infoFree, infoBusy, name, len, open, mem>>
           /\ fault' # "assert" \/ UNCHANGED fault
           /\ LockFree \/ UNCHANGED fault
<1>1. CASE CheckStep(t)
  BY <1>1 DEF CheckStep, CloseCheck, SendCheck, GetCheck, GetOffsetCheck, infoVars
<1>2. CASE SendStep(t)
  BY <1>2 DEF SendStep, SendMeasure, SendBody, SendFault, infoVars, Locked
<1>3. CASE GetStep(t)
  BY <1>3 DEF GetStep, GetOffsetMeasure, GetBody, GetOffsetBody, NotUpdated, ReadFault,
              Return, ReadDone, infoVars, Locked
<1> QED  BY <1>1, <1>2, <1>3

HolderKeeps ==
    \A h \in Handle : \A c \in open[h] \cap open'[h] : UNCHANGED <<name[h], len[h], mem[h]>>

(* The lists and bits of an info are in order while nobody has died. *)
LEMMA InfoFacts ==
    ASSUME AreaInv, LockFree
    PROVE  \A g \in Handle : InfoOK(g)
BY DEF AreaInv, InfosConsistent, InfoOK

(* No step changes the segment of a core whose bit stays set. *)
LEMMA HolderNext ==
    ASSUME AreaInv, [Next]_vars
    PROVE  [HolderKeeps]_vars
<1>1. CASE UNCHANGED <<name, len, mem>>
  BY <1>1 DEF HolderKeeps
<1>2. ASSUME NEW t \in Thread, NEW n \in Name, NEW s \in Size, Create(t, n, s)
      PROVE  HolderKeeps
  <2>1. PICK h : h = Head(infoFree)
    OBVIOUS
  <2>2. PICK b \in Block :
           /\ LockFree /\ infoFree # <<>>
           /\ mem' = [mem EXCEPT ![h] = b]
           /\ len' = [len EXCEPT ![h] = s]
           /\ name' = [name EXCEPT ![h] = n]
    BY <1>2, <2>1 DEF Create, Locked
  <2>3. h \in Handle \ infoBusy
    BY <2>1, <2>2, FirstFree
  <2>4. open[h] = {}
    BY <2>2, <2>3, InfoFacts DEF InfoOK, Held
  <2> QED  BY <2>2, <2>3, <2>4 DEF HolderKeeps, AreaInv, TypeOK
<1>3. ASSUME NEW t \in Thread, CloseLast(t) \/ CloseBug(t)
      PROVE  HolderKeeps
  <2>1. PICK h : h = pc[t].h
    OBVIOUS
  <2>2. /\ pc[t].op = "close" /\ LastHolder(t, h) /\ ClearInfo(t, h)
        /\ mem' = [mem EXCEPT ![h] = Null] \/ UNCHANGED mem
    BY <1>3, <2>1 DEF CloseLast, CloseBug, Locked
  <2>3. h \in Handle
    BY <2>1, <2>2 DEF AreaInv, PcOK
  <2>4. open'[h] = {}
    BY <2>2, <2>3 DEF ClearInfo, LastHolder, AreaInv, TypeOK
  <2> QED  BY <2>2, <2>3, <2>4 DEF HolderKeeps, ClearInfo, AreaInv, TypeOK
<1>4. ASSUME NEW t \in Thread, NEW n \in Name, NEW s \in Size, Attach(t, n, s)
      PROVE  UNCHANGED <<name, len, mem>>
  BY <1>4 DEF Attach
<1>5. ASSUME NEW t \in Thread, CloseKeep(t)
      PROVE  UNCHANGED <<name, len, mem>>
  BY <1>5 DEF CloseKeep
<1>6. CASE UNCHANGED vars
  BY <1>6
<1>7. CASE Next
  <2>1. PICK t \in Thread :
           OpenStep(t) \/ CheckStep(t) \/ CloseStep(t) \/ SendStep(t) \/ GetStep(t)
    BY <1>7 DEF Next
  <2>2. CASE OpenStep(t)
    BY <1>1, <1>2, <1>4, <2>2 DEF OpenStep
  <2>3. CASE CloseStep(t)
    BY <1>1, <1>3, <1>5, <2>3 DEF CloseStep
  <2>4. CASE CheckStep(t) \/ SendStep(t) \/ GetStep(t)
    BY <1>1, <2>4, OthersLeave
  <2> QED  BY <2>1, <2>2, <2>3, <2>4
<1> QED  BY <1>6, <1>7

(* A handle keeps naming the same segment as long as the core's bit is set.   *)
THEOREM HoldersKeep == Spec => HolderKeepsSegment
<1>1. AreaInv /\ [Next]_vars => [HolderKeeps]_vars
  BY HolderNext
<1>2. Spec => [][HolderKeeps]_vars
  BY <1>1, AreaInductive, PTL DEF Spec
<1> QED  BY <1>2 DEF HolderKeepsSegment, HolderKeeps

-----------------------------------------------------------------------------
(* The segments use the heap as HeapUse says. *)

(* The instance of ModHeap inside HeapUse is the one of ShmSegment. *)
LEMMA SameHeap ==
    /\ InitHeap => Heap!InitHeap
    /\ \A c, s, b : Malloc(c, s, b) => Heap!Malloc(c, s, b)
    /\ \A c, b : Free(c, b) => Heap!Free(c, b)
    /\ \A b : FreeAsserts(b) <=> Heap!FreeAsserts(b)
    /\ heapVars = Heap!heapVars /\ Block = Heap!Block
<1>1. Pool = Heap!Pool /\ \A c : Capacity(c) = Heap!Capacity(c)
  BY DEF Pool, Heap!Pool, Capacity, Heap!Capacity
<1>2. Block = Heap!Block
  BY <1>1 DEF Block, BlocksOf, Heap!Block, Heap!BlocksOf
<1>3. InitHeap => Heap!InitHeap
  BY <1>1, <1>2 DEF InitHeap, InitialFree, Heap!InitHeap, Heap!InitialFree
<1>4. \A c, s, p : Usable(c, s, p) <=> Heap!Usable(c, s, p)
  BY <1>1 DEF Usable, Heap!Usable
<1>5. \A c, s, b : Malloc(c, s, b) => Heap!Malloc(c, s, b)
  BY <1>1, <1>4 DEF Malloc, FirstUsable, MallocHeap, Heap!Malloc, Heap!FirstUsable,
                    Heap!MallocHeap
<1>6. \A b : FreeAsserts(b) <=> Heap!FreeAsserts(b)
  BY DEF FreeAsserts, PoolOf, Heap!FreeAsserts, Heap!PoolOf
<1>7. \A c, b : FreeAccepted(c, b) <=> Heap!FreeAccepted(c, b)
  BY <1>1 DEF FreeAccepted, PoolOf, Heap!FreeAccepted, Heap!PoolOf
<1>8. \A c, b : Free(c, b) => Heap!Free(c, b)
  BY <1>6, <1>7 DEF Free, FreeReturned, FreeRejected, heapVars, PoolOf, Heap!Free,
        Heap!FreeReturned, Heap!FreeRejected, Heap!heapVars, Heap!PoolOf
<1> QED  BY <1>2, <1>3, <1>5, <1>6, <1>8 DEF heapVars, Heap!heapVars

\* The variables of HeapUse do not change.
HeapRests == UNCHANGED <<heapVars, mem>> /\ (fault' = "assert" <=> fault = "assert")

(* A step that leaves heap and blocks alone is no step of HeapUse. *)
LEMMA RestIsStutter == HeapRests => UNCHANGED Heap!vars
<1> SUFFICES ASSUME HeapRests PROVE UNCHANGED Heap!vars
  OBVIOUS
<1>1. (fault = "assert")' = (fault = "assert")
  BY Zenon DEF HeapRests
<1> QED  BY <1>1 DEF HeapRests, Heap!vars, heapVars

(* Creating a segment is HeapUse's Open of a handle that has no block. *)
LEMMA CreateOpens ==
    ASSUME AreaInv, NEW t \in Thread, NEW n \in Name, NEW s \in Size, Create(t, n, s)
    PROVE  Heap!Next
<1>1. PICK h : h = Head(infoFree)
  OBVIOUS
<1>2. PICK b \in Block :
         /\ LockFree /\ infoFree # <<>>
         /\ Malloc(CoreOf[t], s, b)
         /\ mem' = [mem EXCEPT ![h] = b]
         /\ UNCHANGED fault
  BY <1>1 DEF Create, Locked
<1>3. h \in Handle /\ mem[h] = Null
  BY <1>1, <1>2, FirstFree, InfoFacts DEF InfoOK
<1>4. Heap!Malloc(CoreOf[t], s, b) /\ b \in Heap!Block
  BY <1>2, SameHeap
<1>5. fault # "assert" /\ (fault = "assert")' = (fault = "assert")
  BY <1>2 DEF LockFree
<1>6. Heap!Open(CoreOf[t], h)
  BY <1>2, <1>3, <1>4, <1>5 DEF Heap!Open, Heap!Live
<1> QED  BY <1>3, <1>6, SegmentAssumption DEF Heap!Next

(* A last close is HeapUse's Close, or of a handle that was closed before. *)
LEMMA CloseCloses ==
    ASSUME AreaInv, NEW t \in Thread, CloseLast(t)
    PROVE  Heap!Next \/ HeapRests
<1>1. PICK h : h = pc[t].h
  OBVIOUS
<1>2. /\ pc[t].op = "close" /\ LockFree /\ FreeMem(t, h)
      /\ mem' = [mem EXCEPT ![h] = Null]
      /\ UNCHANGED fault
  BY <1>1 DEF CloseLast, Locked
<1>3. h \in Handle /\ mem \in [Handle -> Block \cup {Null}]
  BY <1>1, <1>2 DEF AreaInv, PcOK, TypeOK
<1>4. CASE mem[h] = Null /\ UNCHANGED heapVars
  BY <1>2, <1>3, <1>4 DEF HeapRests
<1>5. CASE mem[h] # Null /\ Free(CoreOf[t], mem[h])
  <2>1. Heap!Free(CoreOf[t], mem[h])
    BY <1>5, SameHeap
  <2>2. fault # "assert" /\ (fault = "assert")' = (fault = "assert")
    BY <1>2 DEF LockFree
  <2>3. Heap!Close(CoreOf[t], h)
    BY <1>2, <1>5, <2>1, <2>2 DEF Heap!Close, Heap!Live
  <2> QED  BY <1>3, <2>3, SegmentAssumption DEF Heap!Next
<1> QED  BY <1>2, <1>4, <1>5 DEF FreeMem

(* The assert of mod_free is HeapUse's CloseBug. *)
LEMMA BugIsBug ==
    ASSUME AreaInv, NEW t \in Thread, CloseBug(t)
    PROVE  Heap!Next
<1>1. PICK h : h = pc[t].h
  OBVIOUS
<1>2. /\ pc[t].op = "close" /\ LockFree
      /\ mem[h] # Null /\ FreeAsserts(mem[h])
      /\ fault' = "assert" /\ UNCHANGED <<heapVars, mem>>
  BY <1>1 DEF CloseBug, Locked
<1>3. h \in Handle
  BY <1>1, <1>2 DEF AreaInv, PcOK
<1>4. Heap!CloseBug(CoreOf[t], h)
  BY <1>2, SameHeap DEF Heap!CloseBug, Heap!Live, LockFree, heapVars, Heap!heapVars
<1> QED  BY <1>3, <1>4, SegmentAssumption DEF Heap!Next

(* Every step is a step of HeapUse or leaves its variables alone. *)
LEMMA HeapSteps ==
    ASSUME AreaInv, [Next]_vars
    PROVE  [Heap!Next]_(Heap!vars)
<1>1. SUFFICES Heap!Next \/ HeapRests
  BY RestIsStutter
<1>2. CASE UNCHANGED vars
  BY <1>2 DEF vars, infoVars, HeapRests
<1>3. ASSUME NEW t \in Thread, NEW n \in Name, NEW s \in Size, Attach(t, n, s)
      PROVE  HeapRests
  BY <1>3 DEF Attach, HeapRests
<1>4. ASSUME NEW t \in Thread, CloseKeep(t)
      PROVE  HeapRests
  BY <1>4 DEF CloseKeep, HeapRests
<1>5. ASSUME NEW t \in Thread, CheckStep(t) \/ SendStep(t) \/ GetStep(t)
      PROVE  HeapRests
  BY <1>5, OthersLeave DEF HeapRests, LockFree
<1>6. CASE Next
  <2>1. PICK t \in Thread :
           OpenStep(t) \/ CheckStep(t) \/ CloseStep(t) \/ SendStep(t) \/ GetStep(t)
    BY <1>6 DEF Next
  <2>2. CASE OpenStep(t)
    BY <1>3, <2>2, CreateOpens DEF OpenStep
  <2>3. CASE CloseStep(t)
    BY <1>4, <2>3, CloseCloses, BugIsBug DEF CloseStep
  <2> QED  BY <1>5, <2>1, <2>2, <2>3
<1> QED  BY <1>2, <1>6

(* The heap starts as HeapUse says it does. *)
LEMMA HeapStarts == Init => Heap!Init
<1> SUFFICES ASSUME Init PROVE Heap!Init
  OBVIOUS
<1>1. Heap!InitHeap /\ mem = [h \in Handle |-> Null] /\ fault = "none"
  BY SameHeap DEF Init
<1>2. (fault = "assert") = FALSE
  BY <1>1
<1> QED  BY <1>1, <1>2 DEF Heap!Init

(* What is proved of HeapUse holds of the segments: threads, unlocked tests   *)
(* and closes that come twice use the allocator as HeapUse does.              *)
THEOREM SegmentsUseHeap == Spec => UsesHeap
<1>1. AreaInv /\ [Next]_vars => [Heap!Next]_(Heap!vars)
  BY HeapSteps
<1>2. Spec => Heap!Init /\ [][Heap!Next]_(Heap!vars)
  BY <1>1, HeapStarts, AreaInductive, PTL DEF Spec
<1> QED  BY <1>2 DEF UsesHeap, Heap!Spec

-----------------------------------------------------------------------------
(* Blocks, as long as one core allocates.                                    *)

\* The blocks of the segments are different ones, on the busy list of core a,
\* and no other core has a busy list.
Owns(a) ==
    LockFree =>
        /\ \A c \in Core \ {a} : busy[c] = {}
        /\ \A h \in infoBusy : mem[h] \in busy[a]
        /\ \A g, h \in infoBusy : mem[g] = mem[h] => g = h

OwnBlocks == \A a \in Core : served \subseteq {a} => Owns(a)

BlocksInv == AreaInv /\ OwnBlocks

(* At the start no block is busy. *)
LEMMA OwnInit == Init => OwnBlocks
BY DEF Init, InitHeap, OwnBlocks, Owns

(* A new segment takes a block that was free on the one core that allocates. *)
LEMMA OwnCreate ==
    ASSUME BlocksInv, NEW t \in Thread, NEW n \in Name, NEW s \in Size, Create(t, n, s)
    PROVE  OwnBlocks'
<1>1. PICK h : h = Head(infoFree)
  OBVIOUS
<1>2. PICK b \in Block :
         /\ LockFree /\ infoFree # <<>>
         /\ Malloc(CoreOf[t], s, b)
         /\ mem' = [mem EXCEPT ![h] = b]
         /\ infoBusy' = infoBusy \cup {h}
  BY <1>1 DEF Create, Locked
<1>3. h \in Handle \ infoBusy
  BY <1>1, <1>2, FirstFree DEF BlocksInv
<1>4. /\ infoBusy \subseteq Handle /\ mem \in [Handle -> Block \cup {Null}]
      /\ HeapTypeOK /\ ListsPartition /\ CoreOf[t] \in Core
  BY SegmentAssumption DEF BlocksInv, AreaInv, TypeOK
<1>5. b \notin busy[CoreOf[t]] /\ busy' = [busy EXCEPT ![CoreOf[t]] = @ \cup {b}]
  BY <1>2, <1>4, MallocFacts DEF MallocHeap
<1>0. served' = served \cup {CoreOf[t]}
  BY <1>2 DEF Malloc, MallocHeap
<1>6. ASSUME NEW a \in Core, served' \subseteq {a}
      PROVE  Owns(a)'
  <2>1. a = CoreOf[t] /\ Owns(a)
    BY <1>0, <1>6 DEF BlocksInv, OwnBlocks
  <2>2. /\ \A c \in Core \ {a} : busy'[c] = {}
        /\ busy'[a] = busy[a] \cup {b}
    BY <1>2, <1>4, <1>5, <2>1 DEF Owns, HeapTypeOK
  <2>3. mem'[h] = b /\ \A g \in infoBusy : mem'[g] = mem[g] /\ mem[g] \in busy[a]
    BY <1>2, <1>3, <1>4, <2>1 DEF Owns
  <2>4. \A g \in infoBusy' : mem'[g] \in busy'[a]
    BY <1>2, <2>2, <2>3
  <2>5. \A f, g \in infoBusy' : mem'[f] = mem'[g] => f = g
    BY <1>2, <1>5, <2>1, <2>3 DEF Owns
  <2> QED  BY <2>2, <2>4, <2>5 DEF Owns
<1> QED  BY <1>6 DEF OwnBlocks

(* A last close gives back the block of its own segment, or, on the core that *)
(* does not allocate, no block at all.                                        *)
LEMMA OwnCloseLast ==
    ASSUME BlocksInv, NEW t \in Thread, CloseLast(t)
    PROVE  OwnBlocks'
<1>1. PICK h : h = pc[t].h
  OBVIOUS
<1>2. /\ pc[t].op = "close" /\ LockFree /\ FreeMem(t, h) /\ FreeInfo(h)
      /\ mem' = [mem EXCEPT ![h] = Null]
  BY <1>1 DEF CloseLast, Locked
<1>3. /\ h \in Handle /\ infoBusy \subseteq Handle /\ mem \in [Handle -> Block \cup {Null}]
      /\ HeapTypeOK /\ CoreOf[t] \in Core
  BY <1>1, <1>2, SegmentAssumption DEF BlocksInv, AreaInv, TypeOK, PcOK
<1>4. h \in infoBusy <=> mem[h] # Null
  BY <1>2, <1>3, InfoFacts DEF BlocksInv, InfoOK
<1>5. infoBusy' = infoBusy \ {h} /\ \A g \in infoBusy' : mem'[g] = mem[g]
  BY <1>2, <1>3 DEF FreeInfo
<1>6. \/ UNCHANGED busy
      \/ /\ mem[h] # Null /\ mem[h] \in busy[CoreOf[t]]
         /\ busy' = [busy EXCEPT ![CoreOf[t]] = @ \ {mem[h]}]
  BY <1>2 DEF FreeMem, Free, FreeReturned, FreeRejected, FreeAccepted, heapVars
<1>0. served' = served
  BY <1>2 DEF FreeMem, Free, FreeReturned, FreeRejected, heapVars
<1>7. ASSUME NEW a \in Core, served' \subseteq {a}
      PROVE  Owns(a)'
  <2>1. Owns(a)
    BY <1>0, <1>7 DEF BlocksInv, OwnBlocks
  <2>2. CASE UNCHANGED busy
    BY <1>2, <1>5, <2>1, <2>2 DEF Owns
  <2>3. CASE /\ mem[h] # Null /\ mem[h] \in busy[CoreOf[t]]
             /\ busy' = [busy EXCEPT ![CoreOf[t]] = @ \ {mem[h]}]
    <3>1. CoreOf[t] = a
      BY <1>2, <1>3, <2>1, <2>3 DEF Owns
    <3>2. /\ \A c \in Core \ {a} : busy'[c] = {}
          /\ busy'[a] = busy[a] \ {mem[h]}
      BY <1>2, <1>3, <2>1, <2>3, <3>1 DEF Owns, HeapTypeOK
    <3>3. \A g \in infoBusy' : mem[g] # mem[h]
      BY <1>2, <1>4, <1>5, <2>1, <2>3 DEF Owns
    <3> QED  BY <1>2, <1>5, <2>1, <3>2, <3>3 DEF Owns
  <2> QED  BY <1>6, <2>2, <2>3
<1> QED  BY <1>7 DEF OwnBlocks

(* A step that moves no block and no info. *)
LEMMA OwnFrame ==
    ASSUME OwnBlocks, UNCHANGED <<busy, served, infoBusy, mem>>, LockFree' => LockFree
    PROVE  OwnBlocks'
BY DEF OwnBlocks, Owns

(* Every step keeps the blocks of the segments apart. *)
LEMMA OwnNext == BlocksInv /\ [Next]_vars => OwnBlocks'
<1> SUFFICES ASSUME BlocksInv, [Next]_vars PROVE OwnBlocks'
  OBVIOUS
<1>1. CASE UNCHANGED vars
  BY <1>1, OwnFrame DEF vars, heapVars, infoVars, BlocksInv, LockFree
<1>2. CASE Next
  <2>1. PICK t \in Thread :
           OpenStep(t) \/ CheckStep(t) \/ CloseStep(t) \/ SendStep(t) \/ GetStep(t)
    BY <1>2 DEF Next
  <2>2. ASSUME NEW n \in Name, NEW s \in Size, Attach(t, n, s)
        PROVE  OwnBlocks'
    BY <2>2, OwnFrame DEF Attach, Locked, heapVars, BlocksInv
  <2>3. CASE CloseKeep(t)
    BY <2>3, OwnFrame DEF CloseKeep, Locked, heapVars, BlocksInv
  <2>4. CASE CloseBug(t)
    BY <2>4 DEF CloseBug, OwnBlocks, Owns, LockFree
  <2>5. CASE CheckStep(t) \/ SendStep(t) \/ GetStep(t)
    BY <2>5, OthersLeave, OwnFrame DEF heapVars, BlocksInv, LockFree
  <2> QED  BY <2>1, <2>2, <2>3, <2>4, <2>5, OwnCreate, OwnCloseLast DEF OpenStep, CloseStep
<1> QED  BY <1>1, <1>2

(* As long as one core allocates, the blocks of the segments are different    *)
(* ones, and that core's lists know them, whichever core closes.              *)
THEOREM SegmentsOwnBlocks == Spec => []BlocksInv
<1>1. Init => BlocksInv
  BY AreaInit, OwnInit DEF BlocksInv
<1>2. BlocksInv /\ [Next]_vars => BlocksInv'
  BY AreaNext, OwnNext DEF BlocksInv
<1> QED  BY <1>1, <1>2, PTL DEF Spec

(* There are finitely many blocks. *)
LEMMA FiniteBlocks == IsFiniteSet(Block)
<1> DEFINE sets == {BlocksOf(p) : p \in Pool}
           f == [p \in Pool |-> BlocksOf(p)]
<1>1. IsFiniteSet(Pool)
  <2>1. 0 \in Int /\ NPool - 1 \in Int
    BY HeapAssumption
  <2> QED  BY <2>1, FS_Interval DEF Pool
<1>2. f \in Surjection(Pool, sets)
  BY DEF Surjection
<1>3. IsFiniteSet(sets)
  BY <1>1, <1>2, FS_Surjection
<1>4. ASSUME NEW p \in Pool PROVE IsFiniteSet(BlocksOf(p))
  <2>1. 0 \in Int /\ PoolNumber[p] - 1 \in Int
    BY HeapAssumption
  <2>2. IsFiniteSet({p}) /\ IsFiniteSet(0..(PoolNumber[p] - 1))
    BY <2>1, FS_Singleton, FS_Interval
  <2> QED  BY <2>2, FS_Product DEF BlocksOf
<1>5. \A T \in sets : IsFiniteSet(T)
  BY <1>4
<1> HIDE DEF sets
<1>6. IsFiniteSet(UNION sets)
  BY <1>3, <1>5, FS_UNION
<1> QED  BY <1>6 DEF Block, sets

\* mod_init makes an info for every block of the pools (shm.c:529).
InfoForEachBlock == Cardinality(Handle) = Cardinality(Block)

(* With an info for every block the control area runs out of infos only when  *)
(* the one core that allocates has no block left: each info in use has a block *)
(* of its own.                                                                *)
THEOREM InfosAreEnough ==
    ASSUME InfoForEachBlock PROVE Spec => []InfosSuffice
<1>1. BlocksInv => InfosSuffice
  <2>1. SUFFICES ASSUME BlocksInv, LockFree, infoFree = <<>>,
                        NEW c \in Core, served \subseteq {c}, NEW p \in Pool
                 PROVE  free[c][p] = <<>>
    BY DEF InfosSuffice
  <2>2. c \in Core /\ Owns(c)
    BY <2>1 DEF BlocksInv, OwnBlocks
  <2>3. /\ infoBusy \subseteq Handle /\ infoFree \in Seq(Handle)
        /\ mem \in [Handle -> Block \cup {Null}] /\ free[c][p] \in Seq(Block)
        /\ Range(free[c][p]) = BlocksOf(p) \ busy[c]
    BY <2>1, <2>2 DEF BlocksInv, AreaInv, TypeOK, HeapTypeOK, ListsPartition
  <2>4. infoBusy = Handle
    <3>1. Range(infoFree) = Handle \ infoBusy
      BY <2>1 DEF BlocksInv, AreaInv, InfosConsistent
    <3>2. Range(infoFree) = {}
      BY <2>1 DEF Range
    <3> QED  BY <2>3, <3>1, <3>2
  <2>5. \A h \in Handle : mem[h] \in Block
    BY <2>1, <2>3, <2>4, InfoFacts DEF BlocksInv, InfoOK
  <2>6. mem \in Injection(Handle, Block)
    BY <2>1, <2>2, <2>3, <2>4, <2>5 DEF Owns, Injection, IsInjective
  <2>7. mem \in Surjection(Handle, Block)
    BY <2>6, FiniteBlocks, FS_Injection DEF InfoForEachBlock
  <2>8. Block \subseteq busy[c]
    BY <2>1, <2>2, <2>4, <2>7 DEF Owns, Surjection
  <2>9. Range(free[c][p]) = {}
    BY <2>3, <2>8, BlockFacts
  <2>10. IsInjective(free[c][p])
    BY <2>1, <2>2 DEF BlocksInv, AreaInv, ListsPartition
  <2> QED  BY <2>3, <2>9, <2>10, PopRange
<1> QED  BY <1>1, SegmentsOwnBlocks, PTL

-----------------------------------------------------------------------------
(* Copies and windows, whatever the threads of both cores call.              *)

\* Thread t has a copy pending, and nothing has led it astray.
Pending(t) == t \notin rash /\ pc[t].op \in Copying

ThreadsHold == \A t \in Thread : Pending(t) => CoreOf[t] \in open[pc[t].h]

LengthsFit ==
    \A h \in infoBusy : len[h] \in Size /\ len[h] <= BlockSize[PoolOf(mem[h])]

\* s is what is left of some message after the cut to a segment of n bytes.
CutTo(n, o, s) == o < n /\ \E l \in Size : s = Lesser(l, n - o)

\* What a thread tested and measured before the lock is still so.
CutsAre ==
    \A t \in Thread : Pending(t) =>
        /\ pc[t].op \in {"measure", "span"} =>
               pc[t].l + pc[t].o < Word /\ pc[t].o < len[pc[t].h]
        /\ pc[t].op \in {"send", "peek"} => CutTo(len[pc[t].h], pc[t].o, pc[t].s)

PendingInv == LockFree => ThreadsHold /\ LengthsFit /\ CutsAre

\* A window that was set in the segment's life is inside the segment.
WindowsFit ==
    \A h \in Handle : Held(h) /\ written[h] => offset[h] + size[h] <= len[h]

CopyInv == AreaInv /\ PendingInv /\ WindowsFit

(* Below the modulus a remainder changes nothing. *)
LEMMA ModSmall ==
    ASSUME NEW w \in Nat \ {0}, NEW x \in 0..(w - 1)
    PROVE  x % w = x /\ (x + w) % w = x
BY SMT

(* Where the sum does not wrap the cut takes the lesser length. *)
LEMMA CutIsLesser ==
    ASSUME NEW h \in Handle, NEW l \in Size, NEW o \in Offset, l + o < Word,
           len[h] \in Size, o < len[h]
    PROVE  Cut(h, l, o) = Lesser(l, len[h] - o)
<1>1. /\ Word \in Nat \ {0} /\ l \in 1..(Word - 1) /\ o \in 0..(Word - 1)
      /\ len[h] \in 1..(Word - 1)
  BY SegmentAssumption
<1>2. l + o \in 0..(Word - 1)
  BY <1>1
<1>3. Plus(l, o) = l + o
  BY <1>1, <1>2, ModSmall DEF Plus
<1>4. len[h] - o \in 0..(Word - 1)
  BY <1>1
<1>5. ((len[h] - o) + Word) % Word = len[h] - o
  BY <1>1, <1>4, ModSmall
<1>6. Minus(len[h], o) = len[h] - o
  BY <1>5 DEF Minus
<1>7. l + o > len[h] <=> ~(l <= len[h] - o)
  BY <1>1
<1>8. l = len[h] - o \/ ((l <= len[h] - o) <=> (l < len[h] - o))
  BY <1>1
<1> QED  BY <1>3, <1>6, <1>7, <1>8 DEF Cut, Lesser

(* What was cut to a segment is inside it. *)
LEMMA CutInside ==
    ASSUME NEW n \in Nat, NEW o \in Nat, NEW s, CutTo(n, o, s)
    PROVE  s \in Nat /\ o + s <= n
<1>1. PICK l \in Size : s = Lesser(l, n - o)
  BY DEF CutTo
<1>2. l \in Nat /\ n - o \in Nat
  BY HeapAssumption DEF CutTo
<1> QED  BY <1>1, <1>2 DEF Lesser

(* Lengths and offsets are numbers. *)
LEMMA SegmentNumbers ==
    ASSUME AreaInv
    PROVE  /\ \A x \in Size \cup {0} : x \in Nat
           /\ \A x \in Offset \cup {0} : x \in Nat
           /\ \A x \in 0..(Word - 1) : x \in Nat
           /\ \A h \in Handle : len[h] \in Nat /\ size[h] \in Nat /\ offset[h] \in Nat
           /\ \A b \in Block : BlockSize[PoolOf(b)] \in Nat
<1>1. /\ \A x \in Size \cup {0} : x \in Nat
      /\ \A x \in Offset \cup {0} : x \in Nat
      /\ \A x \in 0..(Word - 1) : x \in Nat
  BY SegmentAssumption
<1>2. \A b \in Block : BlockSize[PoolOf(b)] \in Nat
  BY HeapAssumption, BlockFacts
<1>3. /\ len \in [Handle -> Size \cup {0}]
      /\ size \in [Handle -> 0..(Word - 1)] /\ offset \in [Handle -> Offset \cup {0}]
  BY DEF AreaInv, TypeOK
<1> QED  BY <1>1, <1>2, <1>3

(* A handle that a pending copy uses is busy and has its block. *)
LEMMA PendingFacts ==
    ASSUME AreaInv, LockFree, PendingInv, NEW t \in Thread, Pending(t)
    PROVE  /\ pc[t].h \in infoBusy /\ pc[t].h \in Handle
           /\ CoreOf[t] \in open[pc[t].h]
           /\ mem[pc[t].h] \in Block /\ mem[pc[t].h] # Null
           /\ len[pc[t].h] \in Size
           /\ len[pc[t].h] <= BlockSize[PoolOf(mem[pc[t].h])]
<1>1. pc[t].h \in Handle /\ CoreOf[t] \in open[pc[t].h]
  BY DEF AreaInv, PcOK, Pending, Copying, PendingInv, ThreadsHold
<1>2. pc[t].h \in infoBusy /\ mem[pc[t].h] # Null
  BY <1>1, InfoFacts DEF InfoOK, Held
<1>3. mem[pc[t].h] \in Block
  BY <1>1, <1>2 DEF AreaInv, TypeOK
<1> QED  BY <1>1, <1>2, <1>3 DEF PendingInv, LengthsFit

(* Nothing is open or pending at the start. *)
LEMMA CopyInit == Init => CopyInv
<1> SUFFICES ASSUME Init PROVE CopyInv
  OBVIOUS
<1>1. AreaInv
  BY AreaInit
<1>2. \A t \in Thread : pc[t].op = "idle"
  BY DEF Init, Idle
<1>3. infoBusy = {} /\ open = [h \in Handle |-> {}]
  BY DEF Init
<1>4. PendingInv
  BY <1>2, <1>3 DEF PendingInv, ThreadsHold, LengthsFit, CutsAre, Pending, Copying
<1>5. WindowsFit
  BY <1>3 DEF WindowsFit, Held
<1> QED  BY <1>1, <1>4, <1>5 DEF CopyInv

(* A core that died keeps the lock. *)
LEMMA LockNext == [Next]_vars /\ LockFree' => LockFree
<1> SUFFICES ASSUME [Next]_vars, LockFree' PROVE LockFree
  OBVIOUS
<1>1. CASE UNCHANGED vars
  BY <1>1 DEF vars, LockFree
<1>2. ASSUME NEW t \in Thread, OpenStep(t) \/ CloseStep(t)
      PROVE  LockFree
  BY <1>2 DEF OpenStep, Attach, Create, CloseStep, CloseKeep, CloseLast, CloseBug, Locked
<1>3. ASSUME NEW t \in Thread, CheckStep(t) \/ SendStep(t) \/ GetStep(t)
      PROVE  LockFree
  BY <1>3, OthersLeave DEF LockFree
<1> QED  BY <1>1, <1>2, <1>3 DEF Next

(* What single steps do to the threads: only the tests start a copy, only the *)
(* readings of a length go on with one.                                       *)
LEMMA CallsMove ==
    ASSUME AreaInv, NEW t \in Thread,
           OpenStep(t) \/ CheckStep(t) \/ CloseStep(t) \/ SendStep(t) \/ GetStep(t)
    PROVE  /\ \A x \in Thread : x # t => pc'[x] = pc[x]
           /\ \/ pc'[t] = pc[t]
              \/ pc'[t].op \in {"idle", "close", "got"}
              \/ \E h \in Handle, l \in Size, u \in UpdateMode : GetCheck(t, h, l, u)
              \/ \E h \in Handle, l \in Size, o \in Offset : SendCheck(t, h, l, o)
              \/ \E h \in Handle, l \in Size, u \in UpdateMode, o \in Offset :
                     GetOffsetCheck(t, h, l, u, o)
              \/ SendMeasure(t)
              \/ GetOffsetMeasure(t)
<1>1. CASE OpenStep(t)
  BY <1>1 DEF OpenStep, Attach, Create
<1>2. CASE CheckStep(t)
  <2>1. ASSUME NEW h \in Handle, CloseCheck(t, h)
        PROVE  /\ \A x \in Thread : x # t => pc'[x] = pc[x]
               /\ pc'[t].op \in {"idle", "close", "got"}
    BY <2>1, PcChange DEF CloseCheck, AreaInv
  <2>2. ASSUME NEW h \in Handle, NEW l \in Size, NEW u \in UpdateMode, GetCheck(t, h, l, u)
        PROVE  \A x \in Thread : x # t => pc'[x] = pc[x]
    BY <2>2 DEF GetCheck
  <2>3. ASSUME NEW h \in Handle, NEW l \in Size, NEW o \in Offset, SendCheck(t, h, l, o)
        PROVE  \A x \in Thread : x # t => pc'[x] = pc[x]
    BY <2>3 DEF SendCheck
  <2>4. ASSUME NEW h \in Handle, NEW l \in Size, NEW u \in UpdateMode, NEW o \in Offset,
               GetOffsetCheck(t, h, l, u, o)
        PROVE  \A x \in Thread : x # t => pc'[x] = pc[x]
    BY <2>4 DEF GetOffsetCheck
  <2> QED  BY <1>2, <2>1, <2>2, <2>3, <2>4 DEF CheckStep
<1>3. ASSUME pc' = [pc EXCEPT ![t] = Idle]
      PROVE  /\ \A x \in Thread : x # t => pc'[x] = pc[x]
             /\ pc'[t].op \in {"idle", "close", "got"}
  BY <1>3, PcChange DEF AreaInv, Idle
<1>4. CASE CloseStep(t)
  <2>1. pc' = [pc EXCEPT ![t] = Idle] \/ UNCHANGED pc
    BY <1>4 DEF CloseStep, CloseKeep, CloseLast, CloseBug
  <2> QED  BY <1>3, <2>1
<1>5. CASE SendStep(t)
  <2>1. \/ pc' = [pc EXCEPT ![t] = Idle]
        \/ UNCHANGED pc
        \/ SendMeasure(t) /\ \A x \in Thread : x # t => pc'[x] = pc[x]
    BY <1>5, PcChange DEF SendStep, SendMeasure, SendBody, SendFault, AreaInv
  <2> QED  BY <1>3, <2>1
<1>6. CASE GetBody(t) \/ GetOffsetBody(t)
  BY <1>6, PcChange DEF GetBody, GetOffsetBody, ReadDone, AreaInv
<1>7. CASE GetStep(t)
  <2>1. \/ pc' = [pc EXCEPT ![t] = Idle]
        \/ UNCHANGED pc
        \/ GetBody(t) \/ GetOffsetBody(t)
        \/ GetOffsetMeasure(t) /\ \A x \in Thread : x # t => pc'[x] = pc[x]
    BY <1>7, PcChange DEF GetStep, GetOffsetMeasure, NotUpdated, ReadFault, Return, AreaInv
  <2> QED  BY <1>3, <1>6, <2>1
<1> QED  BY <1>1, <1>2, <1>4, <1>5, <1>7

(* A thread that goes on with the same copy stays rash. *)
LEMMA RashStays ==
    ASSUME AreaInv, [Next]_vars, NEW x \in Thread, pc'[x] = pc[x], x \in rash
    PROVE  x \in rash'
<1>1. pc[x].op \in Copying
  BY DEF AreaInv, TypeOK
<1>2. CASE UNCHANGED vars
  BY <1>2 DEF vars
<1>3. ASSUME NEW t \in Thread, End(t), pc'[t].op \in {"idle", "got"}
      PROVE  x \in rash'
  <2>1. x # t
    BY <1>1, <1>3 DEF Copying
  <2> QED  BY <1>3, <2>1 DEF End
<1>4. ASSUME NEW t \in Thread,
             SendBody(t) \/ NotUpdated(t) \/ GetBody(t) \/ GetOffsetBody(t)
      PROVE  x \in rash'
  <2>1. End(t)
    BY <1>4 DEF SendBody, NotUpdated, GetBody, GetOffsetBody, ReadDone
  <2>2. pc'[t].op \in {"idle", "got"}
    BY <1>4, PcChange DEF SendBody, NotUpdated, GetBody, GetOffsetBody, ReadDone, Idle, AreaInv
  <2> QED  BY <1>3, <2>1, <2>2
<1>5. CASE Next
  <2>1. PICK t \in Thread :
           OpenStep(t) \/ CheckStep(t) \/ CloseStep(t) \/ SendStep(t) \/ GetStep(t)
    BY <1>5 DEF Next
  <2>2. CASE OpenStep(t)
    BY <2>2 DEF OpenStep, Attach, Create
  <2>3. CASE CheckStep(t)
    BY <2>3 DEF CheckStep, CloseCheck, SendCheck, GetCheck, GetOffsetCheck, Begin
  <2>4. CASE CloseStep(t)
    BY <2>4 DEF CloseStep, CloseKeep, CloseLast, CloseBug, LeadAstray
  <2>5. CASE SendStep(t)
    BY <1>4, <2>5 DEF SendStep, SendMeasure, SendFault
  <2>6. CASE GetStep(t)
    BY <1>4, <2>6 DEF GetStep, GetOffsetMeasure, ReadFault, Return
  <2> QED  BY <2>1, <2>2, <2>3, <2>4, <2>5, <2>6
<1> QED  BY <1>2, <1>5

(* A close takes the bit of its core, and leads that core's copies astray. *)
LEMMA CloseTakes ==
    ASSUME AreaInv, NEW t \in Thread, CloseStep(t)
    PROVE  /\ pc[t].op = "close" /\ pc[t].h \in Handle
           /\ open' = [open EXCEPT ![pc[t].h] = @ \ {CoreOf[t]}]
           /\ LeadAstray(t, pc[t].h)
<1>1. pc[t].op = "close"
  BY DEF CloseStep, CloseKeep, CloseLast, CloseBug, Locked
<1>2. pc[t].h \in Handle
  BY <1>1 DEF AreaInv, PcOK
<1>3. LeadAstray(t, pc[t].h)
  BY DEF CloseStep, CloseKeep, CloseLast, CloseBug
<1>4. open' = [open EXCEPT ![pc[t].h] = @ \ {CoreOf[t]}]
  BY DEF CloseStep, CloseKeep, CloseLast, CloseBug, ClearInfo
<1> QED  BY <1>1, <1>2, <1>3, <1>4

(* A copy that stays pending keeps the bit it was tested with. *)
LEMMA HoldStays ==
    ASSUME CopyInv, [Next]_vars, LockFree', NEW x \in Thread, Pending(x)', pc'[x] = pc[x]
    PROVE  LockFree /\ Pending(x) /\ CoreOf[x] \in open'[pc[x].h]
<1>1. LockFree
  BY LockNext
<1>2. Pending(x)
  <2>1. pc[x].op \in Copying /\ x \notin rash'
    BY DEF Pending
  <2>2. x \notin rash
    BY <2>1, RashStays DEF CopyInv
  <2> QED  BY <2>1, <2>2 DEF Pending
<1> DEFINE h == pc[x].h
<1>3. h \in Handle /\ CoreOf[x] \in open[h]
  BY <1>1, <1>2, PendingFacts DEF CopyInv
<1>4. open \in [Handle -> SUBSET Core]
  BY DEF CopyInv, AreaInv, TypeOK
<1>5. CoreOf[x] \in open'[h]
  <2>1. CASE UNCHANGED open
    BY <1>3, <2>1
  <2>2. ASSUME NEW t \in Thread, OpenStep(t)
        PROVE  CoreOf[x] \in open'[h]
    <3>1. PICK g : open' = [open EXCEPT ![g] = @ \cup {CoreOf[t]}]
      BY <2>2 DEF OpenStep, Attach, Create
    <3> QED  BY <1>3, <1>4, <3>1
  <2>3. ASSUME NEW t \in Thread, CloseStep(t)
        PROVE  CoreOf[x] \in open'[h]
    <3>1. /\ open' = [open EXCEPT ![pc[t].h] = @ \ {CoreOf[t]}]
          /\ LeadAstray(t, pc[t].h)
      BY <2>3, CloseTakes DEF CopyInv
    <3>2. h = pc[t].h => CoreOf[x] # CoreOf[t]
      BY <1>2, <3>1 DEF LeadAstray, Pending
    <3> QED  BY <1>3, <1>4, <3>1, <3>2
  <2>4. ASSUME NEW t \in Thread, CheckStep(t) \/ SendStep(t) \/ GetStep(t)
        PROVE  UNCHANGED open
    BY <2>4, OthersLeave
  <2>5. CASE UNCHANGED vars
    BY <2>1, <2>5 DEF vars, infoVars
  <2> QED  BY <2>1, <2>2, <2>3, <2>4, <2>5 DEF Next
<1> QED  BY <1>1, <1>2, <1>5

(* Nor does the segment it is about change. *)
LEMMA LengthStays ==
    ASSUME CopyInv, [Next]_vars, LockFree', NEW x \in Thread, Pending(x)', pc'[x] = pc[x]
    PROVE  len'[pc[x].h] = len[pc[x].h]
<1>1. LockFree /\ Pending(x) /\ CoreOf[x] \in open'[pc[x].h]
  BY HoldStays
<1>2. pc[x].h \in Handle /\ CoreOf[x] \in open[pc[x].h]
  BY <1>1, PendingFacts DEF CopyInv
<1>3. [HolderKeeps]_vars
  BY HolderNext DEF CopyInv
<1>4. CASE HolderKeeps
  BY <1>1, <1>2, <1>4 DEF HolderKeeps
<1>5. CASE UNCHANGED vars
  BY <1>5 DEF vars, infoVars
<1> QED  BY <1>3, <1>4, <1>5

(* A send finds an offset inside the segment. *)
LEMMA SendsInside ==
    ASSUME CopyInv, LockFree, NEW t \in Thread, NEW h \in Handle, NEW l \in Size,
           NEW o \in Offset, SendCheck(t, h, l, o)
    PROVE  o < len[h]
<1>1. h \in infoBusy
  BY InfoFacts DEF SendCheck, CopyInv, InfoOK
<1>2. len[h] \in Size
  BY <1>1 DEF CopyInv, PendingInv, LengthsFit
<1>3. len[h] \in Nat \ {0} /\ o \in Nat
  <2>1. len[h] \in Nat \ {0}
    BY <1>2, HeapAssumption
  <2> QED  BY <2>1, SegmentNumbers DEF CopyInv
<1>4. o = 0 \/ len[h] > o
  BY DEF SendCheck
<1> QED  BY <1>3, <1>4

(* A measured length is what the cut leaves of the message. *)
LEMMA MeasuresCut ==
    ASSUME CopyInv, LockFree, NEW t \in Thread, Pending(t), pc[t].op \in {"measure", "span"}
    PROVE  CutTo(len[pc[t].h], pc[t].o, Cut(pc[t].h, pc[t].l, pc[t].o))
<1>1. pc[t].h \in Handle /\ len[pc[t].h] \in Size
  BY PendingFacts DEF CopyInv
<1>2. pc[t].l \in Size /\ pc[t].o \in Offset
  BY DEF CopyInv, AreaInv, PcOK
<1>3. pc[t].o < len[pc[t].h] /\ pc[t].l + pc[t].o < Word
  BY DEF CopyInv, PendingInv, CutsAre
<1> QED  BY <1>1, <1>2, <1>3, CutIsLesser DEF CutTo

\* What is asked of the pending copy of thread x.
Sound(x) ==
    /\ CoreOf[x] \in open[pc[x].h]
    /\ pc[x].op \in {"measure", "span"} =>
           pc[x].l + pc[x].o < Word /\ pc[x].o < len[pc[x].h]
    /\ pc[x].op \in {"send", "peek"} => CutTo(len[pc[x].h], pc[x].o, pc[x].s)

(* A copy that starts, or goes on, without being rash is sound. *)
LEMMA MoversSound ==
    ASSUME CopyInv, [Next]_vars, LockFree, NEW x \in Thread, Pending(x)', pc'[x] # pc[x]
    PROVE  Sound(x)'
<1>1. PICK t \in Thread :
         OpenStep(t) \/ CheckStep(t) \/ CloseStep(t) \/ SendStep(t) \/ GetStep(t)
  BY DEF Next, vars
<1>2. \/ \E h \in Handle, l \in Size, u \in UpdateMode : GetCheck(x, h, l, u)
      \/ \E h \in Handle, l \in Size, o \in Offset : SendCheck(x, h, l, o)
      \/ \E h \in Handle, l \in Size, u \in UpdateMode, o \in Offset :
             GetOffsetCheck(x, h, l, u, o)
      \/ SendMeasure(x)
      \/ GetOffsetMeasure(x)
  BY <1>1, CallsMove DEF CopyInv, Pending, Copying
<1>3. x \notin rash' /\ PcOK
  BY DEF Pending, CopyInv, AreaInv
<1>4. ASSUME NEW h \in Handle, NEW l \in Size, NEW u \in UpdateMode, GetCheck(x, h, l, u)
      PROVE  Sound(x)'
  <2>1. pc'[x] = [op |-> "get", h |-> h, l |-> l, u |-> u] /\ UNCHANGED <<len, open>>
    BY <1>3, <1>4, PcChange DEF GetCheck, infoVars
  <2>2. CoreOf[x] \in open[h]
    BY <1>3, <1>4 DEF GetCheck, Begin
  <2> QED  BY <2>1, <2>2 DEF Sound
<1>5. ASSUME NEW h \in Handle, NEW l \in Size, NEW o \in Offset, SendCheck(x, h, l, o)
      PROVE  Sound(x)'
  <2>1. pc'[x] = [op |-> "measure", h |-> h, l |-> l, o |-> o] /\ UNCHANGED <<len, open>>
    BY <1>3, <1>5, PcChange DEF SendCheck, infoVars
  <2>2. CoreOf[x] \in open[h] /\ l + o < Word
    BY <1>3, <1>5 DEF SendCheck, Begin
  <2>3. o < len[h]
    BY <1>5, SendsInside
  <2> QED  BY <2>1, <2>2, <2>3 DEF Sound
<1>6. ASSUME NEW h \in Handle, NEW l \in Size, NEW u \in UpdateMode, NEW o \in Offset,
             GetOffsetCheck(x, h, l, u, o)
      PROVE  Sound(x)'
  <2>1. /\ pc'[x] = [op |-> "span", h |-> h, l |-> l, u |-> u, o |-> o]
        /\ UNCHANGED <<len, open>>
    BY <1>3, <1>6, PcChange DEF GetOffsetCheck, infoVars
  <2>2. CoreOf[x] \in open[h] /\ l + o < Word
    BY <1>3, <1>6 DEF GetOffsetCheck, Begin
  <2>3. o < len[h]
    <3>1. len[h] > o
      BY <1>6 DEF GetOffsetCheck
    <3>2. len[h] \in Nat /\ o \in Nat
      BY SegmentNumbers DEF CopyInv
    <3> QED  BY <3>1, <3>2
  <2> QED  BY <2>1, <2>2, <2>3 DEF Sound
<1>7. CASE SendMeasure(x)
  <2>1. PICK h, o, s : h = pc[x].h /\ o = pc[x].o /\ s = Cut(h, pc[x].l, o)
    OBVIOUS
  <2>2. /\ pc[x].op = "measure" /\ UNCHANGED <<len, open, rash>>
        /\ pc'[x] = [op |-> "send", h |-> h, s |-> s, o |-> o]
    BY <1>3, <1>7, <2>1, PcChange DEF SendMeasure, infoVars
  <2>3. Pending(x)
    BY <1>3, <2>2 DEF Pending, Copying
  <2>4. CutTo(len[h], o, s) /\ CoreOf[x] \in open[h]
    BY <2>1, <2>2, <2>3, MeasuresCut, PendingFacts DEF CopyInv
  <2> QED  BY <2>2, <2>4 DEF Sound
<1>8. CASE GetOffsetMeasure(x)
  <2>1. PICK h, o, s : h = pc[x].h /\ o = pc[x].o /\ s = Cut(h, pc[x].l, o)
    OBVIOUS
  <2>2. /\ pc[x].op = "span" /\ UNCHANGED <<len, open, rash>>
        /\ pc'[x] = [op |-> "peek", h |-> h, u |-> pc[x].u, o |-> o, s |-> s]
    BY <1>3, <1>8, <2>1, PcChange DEF GetOffsetMeasure, infoVars
  <2>3. Pending(x)
    BY <1>3, <2>2 DEF Pending, Copying
  <2>4. CutTo(len[h], o, s) /\ CoreOf[x] \in open[h]
    BY <2>1, <2>2, <2>3, MeasuresCut, PendingFacts DEF CopyInv
  <2> QED  BY <2>2, <2>4 DEF Sound
<1> QED  BY <1>2, <1>4, <1>5, <1>6, <1>7, <1>8

(* So all pending copies stay sound. *)
LEMMA SoundNext ==
    ASSUME CopyInv, [Next]_vars, LockFree', NEW x \in Thread, Pending(x)'
    PROVE  Sound(x)'
<1>1. LockFree
  BY LockNext
<1>2. CASE pc'[x] = pc[x]
  <2>1. Pending(x) /\ CoreOf[x] \in open'[pc[x].h]
    BY <1>2, HoldStays
  <2>2. len'[pc[x].h] = len[pc[x].h]
    BY <1>2, LengthStays
  <2>3. /\ pc[x].op \in {"measure", "span"} =>
               pc[x].l + pc[x].o < Word /\ pc[x].o < len[pc[x].h]
        /\ pc[x].op \in {"send", "peek"} => CutTo(len[pc[x].h], pc[x].o, pc[x].s)
    BY <1>1, <2>1 DEF CopyInv, PendingInv, CutsAre
  <2> QED  BY <1>2, <2>1, <2>2, <2>3 DEF Sound
<1>3. CASE pc'[x] # pc[x]
  BY <1>1, <1>3, MoversSound
<1> QED  BY <1>2, <1>3

(* A segment's length stays within its block. *)
LEMMA LengthsNext ==
    ASSUME CopyInv, [Next]_vars, LockFree'
    PROVE  LengthsFit'
<1>1. LockFree /\ LengthsFit
  BY LockNext DEF CopyInv, PendingInv
<1>2. /\ infoBusy \subseteq Handle /\ len \in [Handle -> Size \cup {0}]
      /\ mem \in [Handle -> Block \cup {Null}] /\ HeapTypeOK /\ ListsPartition
  BY DEF CopyInv, AreaInv, TypeOK
<1>3. CASE UNCHANGED <<infoBusy, len, mem>>
  BY <1>1, <1>3 DEF LengthsFit
<1>4. ASSUME NEW t \in Thread, NEW n \in Name, NEW s \in Size, Create(t, n, s)
      PROVE  LengthsFit'
  <2>1. PICK h : h = Head(infoFree)
    OBVIOUS
  <2>2. PICK b \in Block :
           /\ infoFree # <<>>
           /\ Malloc(CoreOf[t], s, b)
           /\ mem' = [mem EXCEPT ![h] = b]
           /\ infoBusy' = infoBusy \cup {h}
           /\ len' = [len EXCEPT ![h] = s]
    BY <1>4, <2>1 DEF Create, Locked
  <2>3. h \in Handle \ infoBusy
    BY <1>1, <2>1, <2>2, FirstFree DEF CopyInv
  <2>4. s <= BlockSize[PoolOf(b)]
    <3>1. CoreOf[t] \in Core
      BY SegmentAssumption
    <3>2. PICK p \in Pool : PoolOf(b) = p /\ s \in Nat \ {0} /\ s <= Capacity(p)
      BY <1>2, <2>2, <3>1, MallocFacts
    <3> QED  BY <3>2 DEF Capacity
  <2>5. mem'[h] = b /\ len'[h] = s
    BY <1>2, <2>2, <2>3
  <2>6. \A g \in infoBusy : mem'[g] = mem[g] /\ len'[g] = len[g]
    BY <1>2, <2>2, <2>3
  <2> QED  BY <1>1, <2>2, <2>4, <2>5, <2>6 DEF LengthsFit
<1>5. ASSUME NEW t \in Thread, CloseLast(t)
      PROVE  LengthsFit'
  <2>1. PICK h : h = pc[t].h
    OBVIOUS
  <2>2. ClearInfo(t, h) /\ FreeInfo(h) /\ mem' = [mem EXCEPT ![h] = Null]
    BY <1>5, <2>1 DEF CloseLast
  <2>3. infoBusy' = infoBusy \ {h} /\ \A g \in infoBusy' : mem'[g] = mem[g] /\ len'[g] = len[g]
    BY <1>2, <2>2 DEF FreeInfo, ClearInfo
  <2> QED  BY <1>1, <2>3 DEF LengthsFit
<1>6. CASE Next
  <2>1. PICK t \in Thread :
           OpenStep(t) \/ CheckStep(t) \/ CloseStep(t) \/ SendStep(t) \/ GetStep(t)
    BY <1>6 DEF Next
  <2>2. ASSUME NEW n \in Name, NEW s \in Size, Attach(t, n, s)
        PROVE  LengthsFit'
    BY <1>3, <2>2 DEF Attach
  <2>3. CASE CloseKeep(t)
    BY <1>3, <2>3 DEF CloseKeep
  <2>4. CASE CloseBug(t)
    BY <2>4 DEF CloseBug, LockFree
  <2>5. CASE CheckStep(t) \/ SendStep(t) \/ GetStep(t)
    BY <1>3, <2>5, OthersLeave
  <2> QED  BY <1>4, <1>5, <2>1, <2>2, <2>3, <2>4, <2>5 DEF OpenStep, CloseStep
<1> QED  BY <1>3, <1>6 DEF vars, infoVars

(* A body sets a window only inside the segment, or a rash one unknown. *)
LEMMA BodiesWindow ==
    ASSUME CopyInv, NEW t \in Thread, SendBody(t) \/ GetBody(t) \/ GetOffsetBody(t)
    PROVE  WindowsFit'
<1>1. PICK h, o, s : h = pc[t].h /\ o = pc[t].o /\ s = pc[t].s
  OBVIOUS
<1>2. /\ pc[t].op \in {"send", "get", "peek"} /\ LockFree
      /\ UNCHANGED <<len, open>>
      /\ \/ pc[t].op = "send" /\ SetWindow(t, h, o, s)
         \/ SetWindow(t, h, 0, 0)
         \/ UNCHANGED <<size, offset, written>>
  BY <1>1 DEF SendBody, GetBody, GetOffsetBody, ReadDone, Locked
<1>3. h \in Handle
  BY <1>1, <1>2 DEF CopyInv, AreaInv, PcOK
<1>4. len[h] \in Nat /\ 0 <= len[h]
  BY <1>3, SegmentNumbers DEF CopyInv
<1>5. pc[t].op = "send" /\ t \notin rash => o + s <= len[h]
  <2>1. SUFFICES ASSUME pc[t].op = "send", t \notin rash PROVE o + s <= len[h]
    OBVIOUS
  <2>2. CutTo(len[h], o, s)
    BY <1>1, <1>2, <2>1 DEF CopyInv, PendingInv, CutsAre, Pending, Copying
  <2>3. o \in Nat
    <3>1. o \in Offset
      BY <1>1, <2>1 DEF CopyInv, AreaInv, PcOK
    <3> QED  BY <3>1, SegmentAssumption
  <2> QED  BY <1>4, <2>2, <2>3, CutInside
<1>6. size \in [Handle -> 0..(Word - 1)] /\ offset \in [Handle -> Offset \cup {0}]
      /\ written \in [Handle -> BOOLEAN]
  BY DEF CopyInv, AreaInv, TypeOK
<1>7. SUFFICES ASSUME NEW g \in Handle, Held(g), written'[g]
               PROVE  offset'[g] + size'[g] <= len[g]
  BY <1>2 DEF WindowsFit, Held
<1>8. CASE UNCHANGED <<size, offset, written>> \/ g # h
  <2>1. offset'[g] = offset[g] /\ size'[g] = size[g] /\ written'[g] = written[g]
    BY <1>2, <1>6, <1>8 DEF SetWindow
  <2> QED  BY <1>7, <2>1 DEF CopyInv, WindowsFit
<1>9. CASE g = h /\ pc[t].op = "send" /\ SetWindow(t, h, o, s)
  <2>1. offset'[h] = o /\ size'[h] = s /\ written'[h] = (t \notin rash)
    BY <1>3, <1>6, <1>9 DEF SetWindow
  <2> QED  BY <1>5, <1>7, <1>9, <2>1
<1>10. CASE g = h /\ SetWindow(t, h, 0, 0)
  <2>1. offset'[h] = 0 /\ size'[h] = 0
    BY <1>3, <1>6, <1>10 DEF SetWindow
  <2> QED  BY <1>4, <1>10, <2>1
<1> QED  BY <1>2, <1>8, <1>9, <1>10

(* Windows stay inside their segments. *)
LEMMA WindowsNext ==
    ASSUME CopyInv, [Next]_vars
    PROVE  WindowsFit'
<1>1. /\ len \in [Handle -> Size \cup {0}] /\ open \in [Handle -> SUBSET Core]
      /\ written \in [Handle -> BOOLEAN] /\ infoBusy \subseteq Handle
  BY DEF CopyInv, AreaInv, TypeOK
<1>2. CASE UNCHANGED <<len, open, size, offset, written>>
  BY <1>2 DEF CopyInv, WindowsFit, Held
<1>3. ASSUME NEW t \in Thread, NEW n \in Name, NEW s \in Size, Attach(t, n, s)
      PROVE  WindowsFit'
  <2>1. PICK h \in infoBusy :
           /\ open' = [open EXCEPT ![h] = @ \cup {CoreOf[t]}] /\ LockFree
           /\ UNCHANGED <<len, written, dataVars>>
    BY <1>3 DEF Attach, Locked
  <2>2. h \in Handle /\ Held(h)
    BY <1>1, <2>1, InfoFacts DEF CopyInv, InfoOK
  <2>3. \A g \in Handle : Held(g)' <=> Held(g)
    BY <1>1, <2>1, <2>2 DEF Held
  <2> QED  BY <2>1, <2>3 DEF CopyInv, WindowsFit, dataVars
<1>4. ASSUME NEW t \in Thread, NEW n \in Name, NEW s \in Size, Create(t, n, s)
      PROVE  WindowsFit'
  <2>1. PICK h : h = Head(infoFree)
    OBVIOUS
  <2>2. /\ LockFree /\ infoFree # <<>>
        /\ len' = [len EXCEPT ![h] = s]
        /\ open' = [open EXCEPT ![h] = @ \cup {CoreOf[t]}]
        /\ written' = [written EXCEPT ![h] = FALSE]
        /\ UNCHANGED dataVars
    BY <1>4, <2>1 DEF Create, Locked
  <2>3. h \in Handle
    BY <2>1, <2>2, FirstFree DEF CopyInv
  <2>4. ~written'[h] /\ \A g \in Handle : g # h =>
           len'[g] = len[g] /\ open'[g] = open[g] /\ written'[g] = written[g]
    BY <1>1, <2>2, <2>3
  <2> QED  BY <2>2, <2>4 DEF CopyInv, WindowsFit, Held, dataVars
<1>5. ASSUME NEW t \in Thread, CloseKeep(t)
      PROVE  WindowsFit'
  <2>1. /\ open' = [open EXCEPT ![pc[t].h] = @ \ {CoreOf[t]}]
        /\ UNCHANGED <<len, written, dataVars>>
    BY <1>5 DEF CloseKeep
  <2>2. \A g \in Handle : open'[g] \subseteq open[g]
    BY <1>1, <2>1
  <2> QED  BY <2>1, <2>2 DEF CopyInv, WindowsFit, Held, dataVars
<1>6. ASSUME NEW t \in Thread, CloseLast(t) \/ CloseBug(t)
      PROVE  WindowsFit'
  <2>1. PICK h : h = pc[t].h
    OBVIOUS
  <2>2. /\ pc[t].op = "close" /\ LastHolder(t, h) /\ ClearInfo(t, h)
        /\ UNCHANGED <<written, size, offset>>
    BY <1>6, <2>1 DEF CloseLast, CloseBug, Locked
  <2>3. h \in Handle
    BY <2>1, <2>2 DEF CopyInv, AreaInv, PcOK
  <2>4. open'[h] = {} /\ \A g \in Handle : g # h => open'[g] = open[g] /\ len'[g] = len[g]
    BY <1>1, <2>2, <2>3 DEF ClearInfo, LastHolder
  <2> QED  BY <2>2, <2>4 DEF CopyInv, WindowsFit, Held
<1>7. ASSUME NEW t \in Thread, CheckStep(t) \/ SendStep(t) \/ GetStep(t)
      PROVE  \/ UNCHANGED <<len, open, size, offset, written>>
             \/ SendBody(t) \/ GetBody(t) \/ GetOffsetBody(t)
  <2>1. CASE CheckStep(t)
    BY <2>1 DEF CheckStep, CloseCheck, SendCheck, GetCheck, GetOffsetCheck, infoVars, dataVars
  <2>2. CASE SendStep(t)
    BY <2>2 DEF SendStep, SendMeasure, SendFault, infoVars, dataVars
  <2>3. CASE GetStep(t)
    BY <2>3 DEF GetStep, GetOffsetMeasure, NotUpdated, ReadFault, Return, infoVars, dataVars
  <2> QED  BY <1>7, <2>1, <2>2, <2>3
<1>8. CASE UNCHANGED vars
  BY <1>2, <1>8 DEF vars, infoVars, dataVars
<1>9. CASE Next
  <2>1. PICK t \in Thread :
           OpenStep(t) \/ CheckStep(t) \/ CloseStep(t) \/ SendStep(t) \/ GetStep(t)
    BY <1>9 DEF Next
  <2>2. CASE OpenStep(t)
    BY <1>3, <1>4, <2>2 DEF OpenStep
  <2>3. CASE CloseStep(t)
    BY <1>5, <1>6, <2>3 DEF CloseStep
  <2>4. CASE CheckStep(t) \/ SendStep(t) \/ GetStep(t)
    BY <1>2, <1>7, <2>4, BodiesWindow
  <2> QED  BY <2>1, <2>2, <2>3, <2>4
<1> QED  BY <1>8, <1>9

(* Every step keeps the invariant of the copies. *)
LEMMA CopyNext ==
    ASSUME CopyInv, [Next]_vars
    PROVE  CopyInv'
<1>1. AreaInv'
  BY AreaNext DEF CopyInv
<1>2. PendingInv'
  <2>1. SUFFICES ASSUME LockFree' PROVE ThreadsHold' /\ LengthsFit' /\ CutsAre'
    BY DEF PendingInv
  <2>2. \A x \in Thread : Pending(x)' => Sound(x)'
    BY <2>1, SoundNext
  <2>3. LengthsFit'
    BY <2>1, LengthsNext
  <2> QED  BY <2>2, <2>3 DEF Sound, ThreadsHold, CutsAre
<1>3. WindowsFit'
  BY WindowsNext
<1> QED  BY <1>1, <1>2, <1>3 DEF CopyInv

(* What a thread tested before it took the lock stays true until its body,    *)
(* unless the thread is rash, and a window set in a segment's life stays      *)
(* inside it: for any number of threads and every order of their calls.       *)
THEOREM CopiesInductive == Spec => []CopyInv
BY CopyInit, CopyNext, PTL DEF Spec

(* In the invariant no copy leaves its block. *)
LEMMA CopiesAreSafe == CopyInv => CopiesSafe
<1> SUFFICES ASSUME CopyInv, LockFree, NEW t \in Thread \ rash
             PROVE  /\ pc[t].op = "send" => Writable(t)
                    /\ pc[t].op = "get" /\ written[pc[t].h] => Readable(t)
                    /\ pc[t].op = "peek" => Readable(t)
  BY DEF CopiesSafe
<1>1. SUFFICES ASSUME pc[t].op \in {"send", "get", "peek"}
               PROVE  /\ pc[t].op = "send" => Writable(t)
                      /\ pc[t].op = "get" /\ written[pc[t].h] => Readable(t)
                      /\ pc[t].op = "peek" => Readable(t)
  OBVIOUS
<1> DEFINE h == pc[t].h
           room == BlockSize[PoolOf(mem[h])]
<1>2. Pending(t)
  BY <1>1 DEF Pending, Copying
<1>3. h \in Handle /\ mem[h] \in Block /\ mem[h] # Null /\ len[h] <= room /\ Held(h)
  BY <1>2, PendingFacts DEF CopyInv, Held
<1>4. len[h] \in Nat /\ room \in Nat /\ offset[h] \in Nat /\ size[h] \in Nat
  BY <1>3, SegmentNumbers DEF CopyInv
<1>5. ASSUME pc[t].op \in {"send", "peek"}
      PROVE  pc[t].o + pc[t].s <= room
  <2>1. CutTo(len[h], pc[t].o, pc[t].s)
    BY <1>2, <1>5 DEF CopyInv, PendingInv, CutsAre
  <2>2. pc[t].o \in Offset
    BY <1>5 DEF CopyInv, AreaInv, PcOK
  <2>3. pc[t].o \in Nat
    BY <2>2, SegmentNumbers DEF CopyInv
  <2>4. pc[t].s \in Nat /\ pc[t].o + pc[t].s <= len[h]
    BY <1>4, <2>1, <2>3, CutInside
  <2> QED  BY <1>3, <1>4, <2>3, <2>4
<1>6. ASSUME pc[t].op = "get", written[h]
      PROVE  offset[h] + Lesser(pc[t].l, size[h]) <= room
  <2>1. offset[h] + size[h] <= len[h]
    BY <1>3, <1>6 DEF CopyInv, WindowsFit
  <2>2. pc[t].l \in Size
    BY <1>6 DEF CopyInv, AreaInv, PcOK
  <2>3. pc[t].l \in Nat
    BY <2>2, HeapAssumption
  <2>4. Lesser(pc[t].l, size[h]) \in Nat /\ Lesser(pc[t].l, size[h]) <= size[h]
    BY <1>4, <2>3 DEF Lesser
  <2> HIDE DEF h, room
  <2>5. ASSUME NEW k \in Nat, k <= size[h] PROVE offset[h] + k <= room
    BY <1>3, <1>4, <2>1, <2>5
  <2> QED  BY <2>4, <2>5
<1>7. pc[t].op = "send" => Writable(t)
  BY <1>3, <1>5 DEF Writable, InBlock
<1>8. pc[t].op = "get" /\ written[h] => Readable(t)
  BY <1>3, <1>6 DEF Readable, ReadSize, ReadFrom, InBlock
<1>9. pc[t].op = "peek" => Readable(t)
  BY <1>3, <1>5 DEF Readable, ReadSize, ReadFrom, InBlock
<1> QED  BY <1>7, <1>8, <1>9

(* No copy uses a null pointer or leaves its block, but a rash one and a get  *)
(* before the segment's first send: any number of threads and interrupts on   *)
(* both cores, every order of their tests, closes, opens and bodies.          *)
THEOREM CopiesStaySafe == Spec => []CopiesSafe
BY CopiesInductive, CopiesAreSafe, PTL

-----------------------------------------------------------------------------
(* Segments as buffers.                                                      *)

\* The bytes of every block are bytes that a core wrote, or none.
ContentOK == \A b \in Block : content[b] \in [0..(BlockSize[PoolOf(b)] - 1) -> Byte]

BufferInv == CopyInv /\ OwnBlocks /\ ContentOK

(* Nothing is written, open or pending at the start. *)
LEMMA BufferInit == Init => BufferInv
<1> SUFFICES ASSUME Init PROVE BufferInv
  OBVIOUS
<1>1. CopyInv
  BY CopyInit
<1>2. OwnBlocks
  BY OwnInit
<1>3. ContentOK
  BY DEF Init, ContentOK, Byte
<1> QED  BY <1>1, <1>2, <1>3 DEF BufferInv

(* A send writes bytes of its core and no more than the block has. *)
LEMMA ContentNext ==
    ASSUME BufferInv, [Next]_vars
    PROVE  ContentOK'
<1>1. CASE UNCHANGED content
  BY <1>1 DEF BufferInv, ContentOK
<1>2. ASSUME NEW t \in Thread, SendBody(t)
      PROVE  ContentOK'
  <2>1. PICK h, o, s : h = pc[t].h /\ o = pc[t].o /\ s = pc[t].s
    OBVIOUS
  <2>2. pc[t].op = "send"
    BY <1>2 DEF SendBody, Locked
  <2>3. CASE UNCHANGED content
    BY <1>1, <2>3
  <2>4. CASE /\ mem[h] # Null
             /\ content' = [content EXCEPT ![mem[h]] =
                    [i \in DOMAIN @ |-> IF i \in o..(o + s - 1)
                                        THEN CoreOf[t] ELSE @[i]]]
    <3>1. h \in Handle
      BY <2>1, <2>2 DEF BufferInv, CopyInv, AreaInv, PcOK
    <3>2. mem[h] \in Block
      BY <2>4, <3>1 DEF BufferInv, CopyInv, AreaInv, TypeOK
    <3>3. CoreOf[t] \in Byte
      BY SegmentAssumption DEF Byte
    <3>4. [i \in DOMAIN content[mem[h]] |->
              IF i \in o..(o + s - 1) THEN CoreOf[t] ELSE content[mem[h]][i]]
              \in [0..(BlockSize[PoolOf(mem[h])] - 1) -> Byte]
      BY <3>2, <3>3 DEF BufferInv, ContentOK
    <3>5. content = [b \in Block |-> content[b]]
      BY DEF BufferInv, CopyInv, AreaInv, TypeOK
    <3> QED  BY <2>4, <3>2, <3>4, <3>5 DEF BufferInv, ContentOK
  <2> QED  BY <1>2, <2>1, <2>3, <2>4 DEF SendBody, Writable
<1>3. CASE UNCHANGED vars
  BY <1>1, <1>3 DEF vars, dataVars
<1>4. CASE Next
  <2>1. PICK t \in Thread :
           OpenStep(t) \/ CheckStep(t) \/ CloseStep(t) \/ SendStep(t) \/ GetStep(t)
    BY <1>4 DEF Next
  <2>2. UNCHANGED content \/ SendBody(t)
    BY <2>1 DEF OpenStep, Attach, Create, CheckStep, CloseCheck, SendCheck, GetCheck,
         GetOffsetCheck, CloseStep, CloseKeep, CloseLast, CloseBug, SendStep, SendMeasure,
         SendFault, GetStep, GetOffsetMeasure, GetBody, GetOffsetBody, NotUpdated,
         ReadFault, Return, ReadDone, dataVars
  <2> QED  BY <1>1, <1>2, <2>2
<1> QED  BY <1>3, <1>4

(* The invariant of the buffers is inductive. *)
(* The invariant of the buffers is inductive. *)
LEMMA BufferNext ==
    ASSUME BufferInv, [Next]_vars
    PROVE  BufferInv'
<1>1. CopyInv'
  BY CopyNext DEF BufferInv
<1>2. OwnBlocks'
  BY OwnNext DEF BufferInv, CopyInv, BlocksInv
<1>3. ContentOK'
  BY ContentNext
<1> QED  BY <1>1, <1>2, <1>3 DEF BufferInv

\* What the mapping to SharedBuffers says of a name, and what an info says of its own.
Slice(n) == <<Holders[n], Lengths[n], Cells[n], Windows[n]>>
InfoSlice(h) ==
    <<open[h], len[h], Bytes(h), IF written[h] THEN WindowAt(h) ELSE NoWindow>>
NoSlice == <<{}, 0, <<>>, NoWindow>>

Slices ==
    /\ \A h \in infoBusy : name[h] \in Name => Slice(name[h]) = InfoSlice(h)
    /\ \A n \in Name : (\A h \in infoBusy : name[h] # n) => Slice(n) = NoSlice

(* A name has the state of the one info that bears it. *)
LEMMA SlicesNow == AreaInv => Slices
<1> SUFFICES ASSUME AreaInv PROVE Slices
  OBVIOUS
<1>1. ASSUME NEW h \in infoBusy, name[h] \in Name
      PROVE  Slice(name[h]) = InfoSlice(h)
  <2>1. name[h] # NoName
    BY <1>1, SegmentAssumption
  <2>2. IsOpen(name[h]) /\ At(name[h]) \in infoBusy /\ name[At(name[h])] = name[h]
    BY <1>1 DEF IsOpen, At
  <2>3. At(name[h]) = h
    BY <2>1, <2>2 DEF AreaInv, UniqueNames
  <2> QED  BY <1>1, <2>2, <2>3 DEF Slice, InfoSlice, Holders, Lengths, Cells, Windows
<1>2. ASSUME NEW n \in Name, \A h \in infoBusy : name[h] # n
      PROVE  Slice(n) = NoSlice
  BY <1>2 DEF Slice, NoSlice, IsOpen, Holders, Lengths, Cells, Windows
<1> QED  BY <1>1, <1>2 DEF Slices

(* What a name shows of the control area is right after a step too.           *)
LEMMA SlicesNext == AreaInv' => Slices'
BY SlicesNow, PTL

(* After a step that concerns the info h and the name n at most, the others   *)
(* are as they were.                                                          *)
LEMMA OneInfo ==
    ASSUME AreaInv, AreaInv', NEW h \in Handle, NEW n \in Name,
           h \in infoBusy => name[h] = n,
           h \in infoBusy' => name'[h] \in {n, NoName},
           \A g \in Handle \ {h} :
               /\ g \in infoBusy' <=> g \in infoBusy
               /\ name'[g] = name[g]
               /\ g \in infoBusy => InfoSlice(g)' = InfoSlice(g)
    PROVE  /\ Holders' = [Holders EXCEPT ![n] = Holders'[n]]
           /\ Lengths' = [Lengths EXCEPT ![n] = Lengths'[n]]
           /\ Cells' = [Cells EXCEPT ![n] = Cells'[n]]
           /\ Windows' = [Windows EXCEPT ![n] = Windows'[n]]
<1>1. Slices /\ Slices'
  BY SlicesNow, SlicesNext
<1>2. infoBusy \subseteq Handle /\ infoBusy' \subseteq Handle /\ NoName \notin Name
  BY SegmentAssumption DEF AreaInv, TypeOK
<1>3. ASSUME NEW m \in Name, m # n
      PROVE  Slice(m)' = Slice(m)
  <2>1. \A g \in infoBusy : name[g] = m => g # h /\ g \in infoBusy'
    BY <1>2, <1>3
  <2>2. \A g \in infoBusy' : name'[g] = m => g # h /\ g \in infoBusy /\ name[g] = m
    BY <1>2, <1>3
  <2>3. CASE \E g \in infoBusy : name[g] = m
    <3>1. PICK g \in infoBusy : name[g] = m
      BY <2>3
    <3>2. g \in infoBusy' /\ name'[g] = m /\ InfoSlice(g)' = InfoSlice(g)
      BY <1>2, <2>1, <3>1
    <3>3. Slice(m) = InfoSlice(g)
      BY <1>1, <3>1 DEF Slices
    <3>4. Slice(m)' = InfoSlice(g)'
      BY <1>1, <3>2 DEF Slices
    <3> QED  BY <3>2, <3>3, <3>4
  <2>4. CASE \A g \in infoBusy : name[g] # m
    <3>1. \A g \in infoBusy' : name'[g] # m
      BY <2>2, <2>4
    <3>2. Slice(m) = NoSlice /\ Slice(m)' = NoSlice'
      BY <1>1, <2>4, <3>1 DEF Slices
    <3> QED  BY <3>2 DEF NoSlice, NoWindow
  <2> QED  BY <2>3, <2>4
<1>4. \A m \in Name : m # n => /\ Holders'[m] = Holders[m] /\ Lengths'[m] = Lengths[m]
                               /\ Cells'[m] = Cells[m] /\ Windows'[m] = Windows[m]
  BY <1>3 DEF Slice
<1>5. /\ Holders = [m \in Name |-> Holders[m]] /\ Lengths = [m \in Name |-> Lengths[m]]
      /\ Cells = [m \in Name |-> Cells[m]] /\ Windows = [m \in Name |-> Windows[m]]
  BY DEF Holders, Lengths, Cells, Windows
<1>6. /\ Holders' = [m \in Name |-> Holders'[m]] /\ Lengths' = [m \in Name |-> Lengths'[m]]
      /\ Cells' = [m \in Name |-> Cells'[m]] /\ Windows' = [m \in Name |-> Windows'[m]]
  BY DEF Holders, Lengths, Cells, Windows
<1> QED  BY <1>4, <1>5, <1>6

(* A function of the names that keeps its value at n keeps itself.            *)
LEMMA SameFunction ==
    ASSUME NEW f, NEW g, f = [m \in Name |-> f[m]], NEW n \in Name,
           g = [f EXCEPT ![n] = f[n]]
    PROVE  g = f
OBVIOUS

(* The domains of the four. *)
LEMMA Domains ==
    /\ Holders = [m \in Name |-> Holders[m]] /\ Lengths = [m \in Name |-> Lengths[m]]
    /\ Cells = [m \in Name |-> Cells[m]] /\ Windows = [m \in Name |-> Windows[m]]
BY DEF Holders, Lengths, Cells, Windows

(* What nobody's info changes, no buffer shows. *)
LEMMA BuffersRest ==
    ASSUME UNCHANGED <<infoBusy, name, len, open, mem, written, size, offset, content>>
    PROVE  UNCHANGED <<Holders, Lengths, Cells, Windows>>
<1>1. \A n \in Name : IsOpen(n)' = IsOpen(n)
  BY DEF IsOpen
<1>2. \A n \in Name : At(n)' = At(n)
  BY DEF At
<1> QED  BY <1>1, <1>2 DEF Holders, Lengths, Cells, Windows, Bytes, WindowAt, NoWindow

(* Nor is what changes no info that is in use. *)
LEMMA IdleInfos ==
    ASSUME AreaInv, AreaInv', infoBusy' = infoBusy,
           \A g \in infoBusy : name'[g] = name[g] /\ InfoSlice(g)' = InfoSlice(g)
    PROVE  UNCHANGED <<Holders, Lengths, Cells, Windows>>
<1>1. Slices /\ Slices'
  BY SlicesNow, SlicesNext
<1>2. ASSUME NEW m \in Name
      PROVE  Slice(m)' = Slice(m)
  <2>1. CASE \E g \in infoBusy : name[g] = m
    <3>1. PICK g \in infoBusy : name[g] = m
      BY <2>1
    <3>2. g \in infoBusy' /\ name'[g] = m /\ InfoSlice(g)' = InfoSlice(g)
      BY <3>1
    <3>3. Slice(m) = InfoSlice(g)
      BY <1>1, <3>1 DEF Slices
    <3>4. Slice(m)' = InfoSlice(g)'
      BY <1>1, <3>2 DEF Slices
    <3> QED  BY <3>2, <3>3, <3>4
  <2>2. CASE \A g \in infoBusy : name[g] # m
    <3>1. Slice(m) = NoSlice /\ Slice(m)' = NoSlice'
      BY <1>1, <2>2 DEF Slices
    <3> QED  BY <3>1 DEF NoSlice, NoWindow
  <2> QED  BY <2>1, <2>2
<1>3. \A m \in Name : /\ Holders'[m] = Holders[m] /\ Lengths'[m] = Lengths[m]
                      /\ Cells'[m] = Cells[m] /\ Windows'[m] = Windows[m]
  BY <1>2 DEF Slice
<1>4. /\ Holders' = [m \in Name |-> Holders'[m]] /\ Lengths' = [m \in Name |-> Lengths'[m]]
      /\ Cells' = [m \in Name |-> Cells'[m]] /\ Windows' = [m \in Name |-> Windows'[m]]
  BY DEF Holders, Lengths, Cells, Windows
<1> QED  BY <1>3, <1>4, Domains

\* What no buffer and no caller sees.
BuffersQuiet == UNCHANGED <<Holders, Lengths, Cells, Windows, Got>>

(* The bytes a get has returned. *)
LEMMA GotNow ==
    ASSUME PcOK, NEW t \in Thread, NEW r, pc' = [pc EXCEPT ![t] = r]
    PROVE  /\ r.op = "got" => Got' = [Got EXCEPT ![t] = r.bytes]
           /\ r.op # "got" => Got' = [Got EXCEPT ![t] = <<>>]
           /\ r.op # "got" /\ pc[t].op # "got" => Got' = Got
<1>1. pc'[t] = r /\ \A x \in Thread : x # t => pc'[x] = pc[x]
  BY PcChange
<1> DEFINE val(x) == IF x.op = "got" THEN x.bytes ELSE <<>>
<1>2. /\ Got = [x \in Thread |-> val(pc[x])]
      /\ Got' = [x \in Thread |-> val(pc'[x])]
  BY DEF Got
<1>3. /\ r.op = "got" => val(r) = r.bytes
      /\ r.op # "got" => val(r) = <<>>
      /\ pc[t].op # "got" => val(pc[t]) = <<>>
  OBVIOUS
<1> HIDE DEF val
<1>4. Got' = [Got EXCEPT ![t] = val(r)]
  BY <1>1, <1>2
<1> QED  BY <1>2, <1>3, <1>4

(* A step that moves no thread leaves what they got alone.                     *)
LEMMA GotRests ==
    ASSUME UNCHANGED pc
    PROVE  UNCHANGED Got
BY DEF Got

(* An open of a name in use joins its buffer. *)
LEMMA AttachJoins ==
    ASSUME BufferInv, BufferInv', NEW t \in Thread, NEW n \in Name, NEW s \in Size,
           Attach(t, n, s)
    PROVE  Buffers!Join(t, n)
<1>1. PICK h \in infoBusy :
         /\ LockFree /\ name[h] = n
         /\ open' = [open EXCEPT ![h] = @ \cup {CoreOf[t]}]
         /\ UNCHANGED <<infoBusy, name, len, mem, written, dataVars, pc>>
  BY DEF Attach, Locked
<1>2. /\ h \in Handle /\ open \in [Handle -> SUBSET Core] /\ open[h] # {}
      /\ AreaInv /\ AreaInv'
  BY <1>1, InfoFacts DEF BufferInv, CopyInv, AreaInv, TypeOK, InfoOK, Held
<1>3. InfoSlice(h)' = <<open[h] \cup {CoreOf[t]}, len[h], Bytes(h),
                        IF written[h] THEN WindowAt(h) ELSE NoWindow>>
  BY <1>1, <1>2 DEF InfoSlice, Bytes, WindowAt, NoWindow, dataVars
<1>4. \A g \in Handle \ {h} : InfoSlice(g)' = InfoSlice(g)
  BY <1>1, <1>2 DEF InfoSlice, Bytes, WindowAt, NoWindow, dataVars
<1>5. Slice(n) = InfoSlice(h) /\ Slice(n)' = InfoSlice(h)'
  BY <1>1, <1>2, SlicesNow, SlicesNext DEF Slices
<1>6. /\ Holders[n] = open[h] /\ Holders'[n] = open[h] \cup {CoreOf[t]}
      /\ Lengths'[n] = Lengths[n] /\ Cells'[n] = Cells[n] /\ Windows'[n] = Windows[n]
  BY <1>3, <1>5 DEF Slice, InfoSlice
<1>7. /\ Holders' = [Holders EXCEPT ![n] = Holders'[n]]
      /\ Lengths' = [Lengths EXCEPT ![n] = Lengths'[n]]
      /\ Cells' = [Cells EXCEPT ![n] = Cells'[n]]
      /\ Windows' = [Windows EXCEPT ![n] = Windows'[n]]
  BY <1>1, <1>2, <1>4, OneInfo
<1>8. UNCHANGED <<Lengths, Cells, Windows>>
  BY <1>6, <1>7, Domains, SameFunction
<1>9. UNCHANGED Got
  BY <1>1, GotRests
<1>10. Holders[n] # {} /\ Holders' = [Holders EXCEPT ![n] = @ \cup {CoreOf[t]}]
  BY <1>2, <1>6, <1>7
<1> QED  BY <1>8, <1>9, <1>10 DEF Buffers!Join

(* An open of a new name makes a buffer of whatever bytes its block has.      *)
LEMMA CreateCreates ==
    ASSUME BufferInv, BufferInv', NEW t \in Thread, NEW n \in Name, NEW s \in Size,
           Create(t, n, s)
    PROVE  Buffers!Create(t, n)
<1>1. PICK h : h = Head(infoFree)
  OBVIOUS
<1>2. PICK b \in Block :
         /\ LockFree /\ infoFree # <<>> /\ NameUnused(n)
         /\ Malloc(CoreOf[t], s, b)
         /\ mem' = [mem EXCEPT ![h] = b]
         /\ infoBusy' = infoBusy \cup {h}
         /\ len' = [len EXCEPT ![h] = s]
         /\ open' = [open EXCEPT ![h] = @ \cup {CoreOf[t]}]
         /\ name' = [name EXCEPT ![h] = n]
         /\ written' = [written EXCEPT ![h] = FALSE]
         /\ UNCHANGED <<dataVars, pc>>
  BY <1>1 DEF Create, Locked
<1>3. /\ AreaInv /\ AreaInv' /\ LockFree'
      /\ h \in Handle /\ h \notin infoBusy /\ open[h] = {}
      /\ open \in [Handle -> SUBSET Core] /\ len \in [Handle -> Size \cup {0}]
      /\ mem \in [Handle -> Block \cup {Null}] /\ written \in [Handle -> BOOLEAN]
      /\ name \in [Handle -> Name \cup {NoName}]
  <2>1. AreaInv /\ AreaInv' /\ LockFree'
    BY <1>2 DEF BufferInv, CopyInv, LockFree, Create
  <2>2. h \in Handle /\ h \notin infoBusy
    BY <1>1, <1>2, <2>1, FirstFree
  <2>3. open[h] = {}
    BY <1>2, <2>1, <2>2, InfoFacts DEF InfoOK, Held
  <2> QED  BY <2>1, <2>2, <2>3 DEF AreaInv, TypeOK
<1>4. /\ open'[h] = {CoreOf[t]} /\ len'[h] = s /\ mem'[h] = b /\ ~written'[h]
      /\ name'[h] = n /\ h \in infoBusy'
  BY <1>2, <1>3
<1>5. \A g \in Handle \ {h} : InfoSlice(g)' = InfoSlice(g)
  BY <1>2, <1>3 DEF InfoSlice, Bytes, WindowAt, NoWindow, dataVars
<1>6. Slice(n) = NoSlice /\ Slice(n)' = InfoSlice(h)'
  BY <1>2, <1>3, <1>4, SlicesNow, SlicesNext DEF Slices, NameUnused
<1>7. /\ Holders[n] = {} /\ Holders'[n] = {CoreOf[t]}
      /\ Lengths'[n] = s
      /\ Cells'[n] = Bytes(h)'
      /\ Windows'[n] = Windows[n]
  BY <1>4, <1>6 DEF Slice, InfoSlice, NoSlice, NoWindow
<1>8. Bytes(h)' \in [0..(s - 1) -> Byte]
  <2>1. content'[b] = content[b] /\ content[b] \in [0..(BlockSize[PoolOf(b)] - 1) -> Byte]
    BY <1>2 DEF BufferInv, ContentOK, dataVars
  <2>2. s <= BlockSize[PoolOf(b)]
    BY <1>3, <1>4 DEF BufferInv, CopyInv, PendingInv, LengthsFit
  <2>3. s \in Nat /\ BlockSize[PoolOf(b)] \in Nat
    BY HeapAssumption, BlockFacts
  <2> QED  BY <1>4, <2>1, <2>2, <2>3 DEF Bytes
<1>9. /\ Holders' = [Holders EXCEPT ![n] = Holders'[n]]
      /\ Lengths' = [Lengths EXCEPT ![n] = Lengths'[n]]
      /\ Cells' = [Cells EXCEPT ![n] = Cells'[n]]
      /\ Windows' = [Windows EXCEPT ![n] = Windows'[n]]
  <2>1. \A g \in Handle \ {h} : (g \in infoBusy' <=> g \in infoBusy) /\ name'[g] = name[g]
    BY <1>2, <1>3
  <2> QED  BY <1>3, <1>4, <1>5, <2>1, OneInfo
<1>10. UNCHANGED <<Windows, Got>>
  BY <1>2, <1>7, <1>9, Domains, SameFunction, GotRests
<1>11. /\ Holders[n] = {}
       /\ Holders' = [Holders EXCEPT ![n] = {CoreOf[t]}]
       /\ Lengths' = [Lengths EXCEPT ![n] = s]
       /\ \E f \in [0..(s - 1) -> Byte] : Cells' = [Cells EXCEPT ![n] = f]
  BY <1>7, <1>8, <1>9
<1> QED  BY <1>10, <1>11 DEF Buffers!Create, Buffers!Buffer

(* A pending call is about the one info that bears its name.                  *)
LEMMA NamedInfo ==
    ASSUME BufferInv, LockFree, NEW t \in Thread, Pending(t)
    PROVE  \E h \in Handle, n \in Name :
               /\ h = pc[t].h /\ h \in infoBusy /\ name[h] = n
               /\ CoreOf[t] \in open[h]
               /\ mem[h] \in Block /\ len[h] \in Size
               /\ len[h] <= BlockSize[PoolOf(mem[h])]
               /\ Slice(n) = InfoSlice(h)
<1>1. AreaInv /\ PendingInv
  BY DEF BufferInv, CopyInv
<1>2. PICK h : h = pc[t].h
  OBVIOUS
<1>3. /\ h \in Handle /\ h \in infoBusy /\ CoreOf[t] \in open[h]
      /\ mem[h] \in Block /\ len[h] \in Size
      /\ len[h] <= BlockSize[PoolOf(mem[h])]
  BY <1>1, <1>2, PendingFacts
<1>4. name[h] \in Name
  BY <1>1, <1>3, InfoFacts DEF InfoOK, AreaInv, TypeOK
<1>5. Slice(name[h]) = InfoSlice(h)
  BY <1>1, <1>3, <1>4, SlicesNow DEF Slices
<1> QED  BY <1>2, <1>3, <1>4, <1>5

(* A close leaves the buffer; with the last holder goes the buffer itself,    *)
(* even if the thread dies before the block is back.                          *)
LEMMA CloseLeaves ==
    ASSUME BufferInv, BufferInv', NEW t \in Thread, CloseStep(t),
           CoreOf[t] \in open[pc[t].h]
    PROVE  \E n \in Name : Buffers!Leave(t, n)
<1>1. pc[t].op = "close" /\ LockFree /\ AreaInv /\ AreaInv' /\ PcOK
  BY DEF CloseStep, CloseKeep, CloseLast, CloseBug, Locked, BufferInv, CopyInv, AreaInv
<1>2. PICK h \in Handle, n \in Name :
         /\ h = pc[t].h /\ h \in infoBusy /\ name[h] = n
         /\ CoreOf[t] \in open[h]
         /\ Slice(n) = InfoSlice(h)
  <2>1. PICK h : h = pc[t].h
    OBVIOUS
  <2>2. h \in Handle /\ CoreOf[t] \in open[h]
    BY <1>1, <2>1 DEF PcOK
  <2>3. h \in infoBusy /\ name[h] \in Name
    BY <1>1, <2>2, InfoFacts DEF InfoOK, Held, AreaInv, TypeOK
  <2>4. Slice(name[h]) = InfoSlice(h)
    BY <1>1, <2>3, SlicesNow DEF Slices
  <2> QED  BY <2>1, <2>2, <2>3, <2>4
<1>3. /\ open \in [Handle -> SUBSET Core] /\ len \in [Handle -> Size \cup {0}]
      /\ mem \in [Handle -> Block \cup {Null}] /\ infoBusy \subseteq Handle
      /\ name \in [Handle -> Name \cup {NoName}] /\ NoName \notin Name
  BY <1>1, SegmentAssumption DEF AreaInv, TypeOK
<1>4. UNCHANGED Got
  <2>1. pc' = [pc EXCEPT ![t] = Idle] \/ UNCHANGED pc
    BY DEF CloseStep, CloseKeep, CloseLast, CloseBug
  <2>2. Idle.op # "got"
    BY DEF Idle
  <2> QED  BY <1>1, <2>1, <2>2, GotNow, GotRests
<1>5. /\ open' = [open EXCEPT ![h] = @ \ {CoreOf[t]}]
      /\ UNCHANGED <<written, size, offset, content>>
  BY <1>2 DEF CloseStep, CloseKeep, CloseLast, CloseBug, ClearInfo, dataVars
<1>6. Holders[n] = open[h] /\ open'[h] = open[h] \ {CoreOf[t]}
  BY <1>2, <1>3, <1>5 DEF Slice, InfoSlice
<1>7. CASE CloseKeep(t)
  <2>1. /\ UNCHANGED <<infoBusy, name, len, mem>>
        /\ open'[h] # {}
    BY <1>2, <1>6, <1>7 DEF CloseKeep, LastHolder
  <2>2. InfoSlice(h)' = <<open'[h], len[h], Bytes(h),
                          IF written[h] THEN WindowAt(h) ELSE NoWindow>>
    BY <1>2, <1>5, <2>1 DEF InfoSlice, Bytes, WindowAt, NoWindow
  <2>3. \A g \in Handle \ {h} : InfoSlice(g)' = InfoSlice(g)
    BY <1>3, <1>5, <2>1 DEF InfoSlice, Bytes, WindowAt, NoWindow
  <2>4. Slice(n)' = InfoSlice(h)'
    BY <1>1, <1>2, <2>1, SlicesNext DEF Slices
  <2>5. /\ Holders'[n] = open'[h] /\ Lengths'[n] = Lengths[n]
        /\ Cells'[n] = Cells[n] /\ Windows'[n] = Windows[n]
    BY <1>2, <2>2, <2>4 DEF Slice, InfoSlice
  <2>6. /\ Holders' = [Holders EXCEPT ![n] = Holders'[n]]
        /\ Lengths' = [Lengths EXCEPT ![n] = Lengths'[n]]
        /\ Cells' = [Cells EXCEPT ![n] = Cells'[n]]
        /\ Windows' = [Windows EXCEPT ![n] = Windows'[n]]
    BY <1>1, <1>2, <2>1, <2>3, OneInfo
  <2>7. UNCHANGED <<Lengths, Cells, Windows>>
    BY <2>5, <2>6, Domains, SameFunction
  <2>8. /\ CoreOf[t] \in Holders[n] /\ Holders'[n] # {}
        /\ Holders' = [Holders EXCEPT ![n] = @ \ {CoreOf[t]}]
    BY <1>2, <1>6, <2>1, <2>5, <2>6
  <2> QED  BY <1>4, <2>7, <2>8 DEF Buffers!Leave
<1>8. CASE CloseLast(t) \/ CloseBug(t)
  <2>1. /\ LastHolder(t, h) /\ ClearInfo(t, h)
        /\ \/ mem' = [mem EXCEPT ![h] = Null] /\ infoBusy' = infoBusy \ {h}
           \/ UNCHANGED <<mem, infoBusy>>
    BY <1>2, <1>8 DEF CloseLast, CloseBug, FreeInfo
  <2>2. /\ open'[h] = {} /\ name'[h] = NoName
        /\ \A g \in Handle \ {h} :
              /\ open'[g] = open[g] /\ name'[g] = name[g] /\ len'[g] = len[g]
              /\ mem'[g] = mem[g]
              /\ g \in infoBusy' <=> g \in infoBusy
    BY <1>2, <1>3, <1>6, <2>1 DEF LastHolder, ClearInfo
  <2>3. \A g \in Handle \ {h} : InfoSlice(g)' = InfoSlice(g)
    BY <1>5, <2>2 DEF InfoSlice, Bytes, WindowAt, NoWindow
  <2>4. \A g \in infoBusy' : name'[g] # n
    <3>1. \A g \in infoBusy : name[g] = n => g = h
      BY <1>1, <1>2, <1>3 DEF AreaInv, UniqueNames
    <3> QED  BY <1>3, <2>1, <2>2, <3>1
  <2>5. Slice(n)' = NoSlice'
    BY <1>1, <2>4, SlicesNext DEF Slices
  <2>6. /\ Holders'[n] = {} /\ Lengths'[n] = 0 /\ Cells'[n] = <<>>
        /\ Windows'[n] = NoWindow
    BY <2>5 DEF Slice, NoSlice, NoWindow
  <2>7. /\ Holders' = [Holders EXCEPT ![n] = Holders'[n]]
        /\ Lengths' = [Lengths EXCEPT ![n] = Lengths'[n]]
        /\ Cells' = [Cells EXCEPT ![n] = Cells'[n]]
        /\ Windows' = [Windows EXCEPT ![n] = Windows'[n]]
    BY <1>1, <1>2, <2>2, <2>3, OneInfo
  <2>8. /\ CoreOf[t] \in Holders[n] /\ Holders'[n] = {}
        /\ Holders' = [Holders EXCEPT ![n] = @ \ {CoreOf[t]}]
    BY <1>2, <1>6, <2>1, <2>6, <2>7 DEF LastHolder
  <2>9. /\ Lengths' = [Lengths EXCEPT ![n] = 0] /\ Cells' = [Cells EXCEPT ![n] = <<>>]
        /\ Windows' = [Windows EXCEPT ![n] = NoWindow]
    BY <2>6, <2>7
  <2> QED  BY <1>4, <2>8, <2>9 DEF Buffers!Leave, Buffers!Gone, Buffers!Unknown, NoWindow
<1> QED  BY <1>7, <1>8 DEF CloseStep

(* A close whose test is out of date, because another thread of its core      *)
(* closed first, changes no buffer.                                           *)
LEMMA LateClose ==
    ASSUME BufferInv, BufferInv', NEW t \in Thread, CloseStep(t),
           CoreOf[t] \notin open[pc[t].h]
    PROVE  BuffersQuiet
<1>1. /\ pc[t].op = "close" /\ LockFree /\ AreaInv /\ AreaInv' /\ PcOK
      /\ UNCHANGED <<written, size, offset, content>>
  BY DEF CloseStep, CloseKeep, CloseLast, CloseBug, Locked, BufferInv, CopyInv, AreaInv,
         dataVars
<1>2. PICK h : h = pc[t].h
  OBVIOUS
<1>3. /\ h \in Handle /\ CoreOf[t] \notin open[h]
      /\ open \in [Handle -> SUBSET Core] /\ len \in [Handle -> Size \cup {0}]
      /\ mem \in [Handle -> Block \cup {Null}] /\ infoBusy \subseteq Handle
      /\ name \in [Handle -> Name \cup {NoName}]
  BY <1>1, <1>2 DEF AreaInv, TypeOK, PcOK
<1>4. UNCHANGED Got
  <2>1. pc' = [pc EXCEPT ![t] = Idle] \/ UNCHANGED pc
    BY DEF CloseStep, CloseKeep, CloseLast, CloseBug
  <2>2. Idle.op # "got"
    BY DEF Idle
  <2> QED  BY <1>1, <2>1, <2>2, GotNow, GotRests
<1>5. CASE CloseKeep(t)
  <2>1. /\ UNCHANGED <<infoBusy, name, len, mem>>
        /\ open' = [open EXCEPT ![h] = @ \ {CoreOf[t]}]
    BY <1>2, <1>5 DEF CloseKeep
  <2>2. open[h] \ {CoreOf[t]} = open[h]
    BY <1>3
  <2>3. open' = open
    BY <1>3, <2>1, <2>2
  <2> QED  BY <1>1, <1>4, <2>1, <2>3, BuffersRest DEF BuffersQuiet
<1>6. CASE CloseLast(t) \/ CloseBug(t)
  <2>1. LastHolder(t, h) /\ ClearInfo(t, h)
    BY <1>2, <1>6 DEF CloseLast, CloseBug
  <2>2. open[h] = {}
    BY <1>3, <2>1 DEF LastHolder
  <2>3. h \notin infoBusy /\ mem[h] = Null
    BY <1>1, <1>3, <2>2, InfoFacts DEF InfoOK, Held
  <2>4. mem' = [mem EXCEPT ![h] = Null] /\ infoBusy' = infoBusy \ {h}
    BY <1>2, <1>6, <2>3 DEF CloseLast, CloseBug, FreeInfo
  <2>5. infoBusy' = infoBusy
    BY <2>3, <2>4
  <2>6. \A g \in infoBusy :
           open'[g] = open[g] /\ name'[g] = name[g] /\ len'[g] = len[g] /\ mem'[g] = mem[g]
    BY <1>3, <2>1, <2>3, <2>4 DEF ClearInfo
  <2>7. \A g \in infoBusy : InfoSlice(g)' = InfoSlice(g)
    BY <1>1, <2>6 DEF InfoSlice, Bytes, WindowAt, NoWindow
  <2> QED  BY <1>1, <1>4, <2>5, <2>6, <2>7, IdleInfos DEF BuffersQuiet
<1> QED  BY <1>5, <1>6 DEF CloseStep

(* The lengths and offsets are numbers, and a message has at least a byte.    *)
LEMMA Numbers ==
    /\ \A x \in Size : x \in Nat /\ 0 < x
    /\ \A x \in Offset : x \in Nat
    /\ \A b \in Block : BlockSize[PoolOf(b)] \in Nat
<1>1. \A x \in Size : x \in 1..(Word - 1)
  BY SegmentAssumption
<1>2. \A x \in Offset : x \in 0..(Word - 1)
  BY SegmentAssumption
<1> QED  BY <1>1, <1>2, SegmentAssumption, HeapAssumption, BlockFacts

(* A send puts what is left of the message into the buffer of its name and    *)
(* no byte into another one.                                                  *)
LEMMA SendPuts ==
    ASSUME BufferInv, BufferInv', NEW t \in Thread \ rash, SendBody(t),
           NEW a \in Core, served \subseteq {a}
    PROVE  \E n \in Name, o \in Offset : Buffers!Put(t, n, o)
<1>1. pc[t].op = "send" /\ LockFree /\ AreaInv /\ AreaInv' /\ PcOK
  BY DEF SendBody, Locked, BufferInv, CopyInv, AreaInv
<1>0. Pending(t)
  BY <1>1 DEF Pending, Copying
<1>2. PICK h \in Handle, n \in Name :
         /\ h = pc[t].h /\ h \in infoBusy /\ name[h] = n
         /\ CoreOf[t] \in open[h]
         /\ mem[h] \in Block /\ len[h] \in Size
         /\ len[h] <= BlockSize[PoolOf(mem[h])]
         /\ Slice(n) = InfoSlice(h)
  BY <1>1, <1>0, NamedInfo
<1>3. PICK o \in Offset, l \in Size :
         pc[t].o = o /\ o < len[h] /\ pc[t].s = Lesser(l, len[h] - o)
  <2>1. CutTo(len[pc[t].h], pc[t].o, pc[t].s)
    BY <1>0, <1>1 DEF BufferInv, CopyInv, PendingInv, CutsAre
  <2>2. pc[t].o \in Offset
    BY <1>1 DEF PcOK
  <2> QED  BY <1>2, <2>1, <2>2 DEF CutTo
<1>4. PICK s : s = pc[t].s
  OBVIOUS
<1>5. s \in Nat \ {0} /\ o \in Nat /\ len[h] \in Nat /\ o + s <= len[h]
  BY <1>2, <1>3, <1>4, Numbers DEF Lesser
<1>6. /\ content' = [content EXCEPT ![mem[h]] =
                        [i \in DOMAIN @ |-> IF i \in o..(o + s - 1)
                                            THEN CoreOf[t] ELSE @[i]]]
      /\ SetWindow(t, h, o, s)
      /\ pc' = [pc EXCEPT ![t] = Idle]
      /\ UNCHANGED <<infoBusy, name, len, open, mem>>
  BY <1>2, <1>3, <1>4, <1>5 DEF SendBody
<1>7. /\ size \in [Handle -> 0..(Word - 1)] /\ offset \in [Handle -> Offset \cup {0}]
      /\ written \in [Handle -> BOOLEAN] /\ content = [b \in Block |-> content[b]]
      /\ infoBusy \subseteq Handle
  BY <1>1 DEF AreaInv, TypeOK
<1>8. /\ content'[mem[h]] =
             [i \in DOMAIN content[mem[h]] |->
                 IF i \in o..(o + s - 1) THEN CoreOf[t] ELSE content[mem[h]][i]]
      /\ \A b \in Block : b # mem[h] => content'[b] = content[b]
  BY <1>2, <1>6, <1>7
<1>9. /\ size'[h] = s /\ offset'[h] = o /\ written'[h]
      /\ \A g \in Handle \ {h} : /\ size'[g] = size[g] /\ offset'[g] = offset[g]
                                 /\ written'[g] = written[g]
  BY <1>6, <1>7 DEF SetWindow
<1>10. Bytes(h)' = [i \in DOMAIN Bytes(h) |-> IF i \in o..(o + s - 1)
                                              THEN CoreOf[t] ELSE Bytes(h)[i]]
  <2>1. DOMAIN content[mem[h]] = 0..(BlockSize[PoolOf(mem[h])] - 1)
    BY <1>2 DEF BufferInv, ContentOK
  <2>2. 0..(len[h] - 1) \subseteq DOMAIN content[mem[h]]
    BY <1>2, <1>5, <2>1, Numbers
  <2> QED  BY <1>6, <1>8, <2>2 DEF Bytes
<1>11. \A g \in infoBusy : g # h => InfoSlice(g)' = InfoSlice(g)
  <2>1. Owns(a)
    BY DEF BufferInv, OwnBlocks
  <2>2. \A g \in infoBusy : g # h => mem[g] # mem[h]
    BY <1>1, <1>2, <2>1 DEF Owns
  <2>3. \A g \in infoBusy : mem[g] \in Block
    BY <1>1, <1>7, InfoFacts DEF InfoOK, AreaInv, TypeOK
  <2>4. \A g \in infoBusy : g # h => content'[mem[g]] = content[mem[g]]
    BY <1>8, <2>2, <2>3
  <2>5. ASSUME NEW g \in infoBusy, g # h
        PROVE  InfoSlice(g)' = InfoSlice(g)
    <3>1. Bytes(g)' = Bytes(g)
      BY <1>6, <2>4, <2>5 DEF Bytes
    <3>2. g \in Handle \ {h}
      BY <1>7, <2>5
    <3> QED  BY <1>6, <1>9, <3>1, <3>2 DEF InfoSlice, WindowAt, NoWindow
  <2> QED  BY <2>5
<1>12. Slice(n)' = InfoSlice(h)'
  BY <1>1, <1>2, <1>6, SlicesNext DEF Slices
<1>13. /\ Holders[n] = open[h] /\ Lengths[n] = len[h] /\ Cells[n] = Bytes(h)
       /\ Holders'[n] = open[h] /\ Lengths'[n] = len[h] /\ Cells'[n] = Bytes(h)'
       /\ Windows'[n] = [from |-> o, count |-> s, known |-> TRUE]
  BY <1>2, <1>6, <1>9, <1>12 DEF Slice, InfoSlice, WindowAt
<1>14. /\ Holders' = [Holders EXCEPT ![n] = Holders'[n]]
       /\ Lengths' = [Lengths EXCEPT ![n] = Lengths'[n]]
       /\ Cells' = [Cells EXCEPT ![n] = Cells'[n]]
       /\ Windows' = [Windows EXCEPT ![n] = Windows'[n]]
  BY <1>1, <1>2, <1>6, <1>11, OneInfo
<1>15. UNCHANGED <<Holders, Lengths>>
  BY <1>13, <1>14, Domains, SameFunction
<1>16. UNCHANGED Got
  <2>1. Idle.op # "got"
    BY DEF Idle
  <2> QED  BY <1>1, <1>6, <2>1, GotNow
<1>17. /\ Cells' = [Cells EXCEPT ![n] = [i \in DOMAIN @ |-> IF i \in o..(o + s - 1)
                                                            THEN CoreOf[t] ELSE @[i]]]
       /\ Windows' = [Windows EXCEPT ![n] = [from |-> o, count |-> s, known |-> TRUE]]
  BY <1>10, <1>13, <1>14
<1>18. s = Buffers!Lesser(l, Lengths[n] - o)
  BY <1>3, <1>4, <1>13 DEF Lesser, Buffers!Lesser
<1>19. CoreOf[t] \in Holders[n] /\ o < Lengths[n]
  BY <1>2, <1>3, <1>13
<1> QED  BY <1>15, <1>16, <1>17, <1>18, <1>19 DEF Buffers!Put, Buffers!Window

(* The bodies of the gets return bytes and change no buffer.                  *)
LEMMA ReadsReturn ==
    ASSUME PcOK, NEW t \in Thread, ReadDone(t)
    PROVE  /\ Got' = [Got EXCEPT ![t] = ReadBytes(t)]
           /\ UNCHANGED <<infoBusy, name, len, open, mem, content, Holders, Lengths, Cells>>
<1>1. UNCHANGED <<infoBusy, name, len, open, mem, content>>
  BY DEF ReadDone
<1>2. \A n \in Name : IsOpen(n)' = IsOpen(n)
  BY <1>1 DEF IsOpen
<1>3. \A n \in Name : At(n)' = At(n)
  BY <1>1 DEF At
<1>4. UNCHANGED <<Holders, Lengths, Cells>>
  BY <1>1, <1>2, <1>3 DEF Holders, Lengths, Cells, Bytes
<1> DEFINE r == [op |-> "got", bytes |-> ReadBytes(t)]
<1>5. pc' = [pc EXCEPT ![t] = r] /\ r.op = "got" /\ r.bytes = ReadBytes(t)
  BY DEF ReadDone
<1> HIDE DEF r
<1>6. Got' = [Got EXCEPT ![t] = ReadBytes(t)]
  BY <1>5, GotNow
<1> QED  BY <1>1, <1>4, <1>6

(* A get takes the first bytes of the window, if a send has set one, and else *)
(* bytes nobody promised.                                                     *)
LEMMA GetTakes ==
    ASSUME BufferInv, BufferInv', NEW t \in Thread \ rash, GetBody(t)
    PROVE  \E n \in Name : Buffers!Take(t, n)
<1>1. /\ pc[t].op = "get" /\ LockFree /\ AreaInv /\ AreaInv' /\ PcOK
      /\ Readable(t) /\ ReadDone(t)
  BY DEF GetBody, Locked, BufferInv, CopyInv, AreaInv
<1>0. Pending(t)
  BY <1>1 DEF Pending, Copying
<1>2. PICK h \in Handle, n \in Name :
         /\ h = pc[t].h /\ h \in infoBusy /\ name[h] = n
         /\ CoreOf[t] \in open[h]
         /\ mem[h] \in Block /\ len[h] \in Size
         /\ len[h] <= BlockSize[PoolOf(mem[h])]
         /\ Slice(n) = InfoSlice(h)
  BY <1>0, <1>1, NamedInfo
<1>3. PICK l \in Size : l = pc[t].l
  BY <1>1 DEF PcOK
<1>4. /\ size \in [Handle -> 0..(Word - 1)] /\ offset \in [Handle -> Offset \cup {0}]
      /\ written \in [Handle -> BOOLEAN] /\ infoBusy \subseteq Handle
  BY <1>1 DEF AreaInv, TypeOK
<1>5. size[h] \in Nat /\ offset[h] \in Nat /\ l \in Nat /\ len[h] \in Nat
  <2>1. Word \in Nat /\ size[h] \in 0..(Word - 1)
    BY <1>4, SegmentAssumption
  <2>2. offset[h] = 0 \/ offset[h] \in Offset
    BY <1>4
  <2> QED  BY <1>2, <2>1, <2>2, Numbers
<1>6. PICK k \in Nat : k = Lesser(l, size[h]) /\ k <= l /\ k <= size[h]
  BY <1>5 DEF Lesser
<1>7. ReadBytes(t) = [i \in 1..k |-> content[mem[h]][offset[h] + i - 1]]
  BY <1>1, <1>2, <1>3, <1>6 DEF ReadBytes, ReadSize, ReadFrom
<1>8. /\ Got' = [Got EXCEPT ![t] = ReadBytes(t)]
      /\ UNCHANGED <<infoBusy, name, len, open, mem, content, Holders, Lengths, Cells>>
  BY <1>1, ReadsReturn
<1>9. /\ size'[h] = 0 /\ offset'[h] = 0 /\ written'[h]
      /\ \A g \in Handle \ {h} : /\ size'[g] = size[g] /\ offset'[g] = offset[g]
                                 /\ written'[g] = written[g]
  <2>1. SetWindow(t, h, 0, 0)
    BY <1>2 DEF GetBody
  <2> QED  BY <1>4, <2>1 DEF SetWindow
<1>10. Windows' = [Windows EXCEPT ![n] = [from |-> 0, count |-> 0, known |-> TRUE]]
  <2>1. \A g \in Handle \ {h} : InfoSlice(g)' = InfoSlice(g)
    BY <1>8, <1>9 DEF InfoSlice, Bytes, WindowAt, NoWindow
  <2>2. Windows' = [Windows EXCEPT ![n] = Windows'[n]]
    BY <1>1, <1>2, <1>8, <2>1, OneInfo
  <2>3. Slice(n)' = InfoSlice(h)'
    BY <1>1, <1>2, <1>8, SlicesNext DEF Slices
  <2>4. Windows'[n] = [from |-> 0, count |-> 0, known |-> TRUE]
    BY <1>9, <2>3 DEF Slice, InfoSlice, WindowAt
  <2> QED  BY <2>2, <2>4
<1>11. /\ CoreOf[t] \in Holders[n] /\ Cells[n] = Bytes(h)
       /\ Windows[n] = IF written[h] THEN WindowAt(h) ELSE NoWindow
  BY <1>2 DEF Slice, InfoSlice
<1>12. CASE written[h]
  <2>1. /\ Windows[n].known /\ Windows[n].from = offset[h] /\ Windows[n].count = size[h]
    BY <1>11, <1>12 DEF WindowAt
  <2>2. offset[h] + size[h] <= len[h]
    BY <1>2, <1>12 DEF BufferInv, CopyInv, WindowsFit, Held
  <2>3. \A i \in 1..k : offset[h] + i - 1 \in 0..(len[h] - 1)
    BY <1>5, <1>6, <2>2
  <2>4. \A i \in 1..k : Cells[n][offset[h] + i - 1] = content[mem[h]][offset[h] + i - 1]
    BY <1>11, <2>3 DEF Bytes
  <2>5. ReadBytes(t) = [i \in 1..k |-> Cells[n][Windows[n].from + i - 1]]
    BY <1>7, <2>1, <2>4
  <2>6. k = Buffers!Lesser(l, Windows[n].count)
    BY <1>6, <2>1 DEF Lesser, Buffers!Lesser
  <2> QED  BY <1>8, <1>10, <1>11, <2>1, <2>5, <2>6 DEF Buffers!Take, Buffers!Window
<1>13. CASE ~written[h]
  <2>1. ~Windows[n].known
    BY <1>11, <1>13 DEF NoWindow
  <2>2. ReadBytes(t) \in [1..k -> Byte]
    <3>1. ASSUME NEW i \in 1..k
          PROVE  content[mem[h]][offset[h] + i - 1] \in Byte
      <4>1. offset[h] + k <= BlockSize[PoolOf(mem[h])]
        BY <1>1, <1>2, <1>3, <1>6, <3>1 DEF Readable, ReadSize, ReadFrom, InBlock
      <4>2. offset[h] + i - 1 \in 0..(BlockSize[PoolOf(mem[h])] - 1)
        BY <1>2, <1>5, <1>6, <4>1, Numbers
      <4> QED  BY <1>2, <4>2 DEF BufferInv, ContentOK
    <3> QED  BY <1>7, <3>1
  <2>3. k \in 0..l
    BY <1>5, <1>6
  <2> QED  BY <1>8, <1>10, <1>11, <2>1, <2>2, <2>3 DEF Buffers!Take, Buffers!Window
<1> QED  BY <1>12, <1>13

(* A get at an offset returns bytes of the segment and leaves the window.     *)
LEMMA GetPeeks ==
    ASSUME BufferInv, NEW t \in Thread \ rash, GetOffsetBody(t)
    PROVE  \E n \in Name, o \in Offset : Buffers!Peek(t, n, o)
<1>1. /\ pc[t].op = "peek" /\ LockFree /\ AreaInv /\ PcOK /\ ReadDone(t)
      /\ UNCHANGED <<size, offset, written>>
  BY DEF GetOffsetBody, Locked, BufferInv, CopyInv, AreaInv
<1>0. Pending(t)
  BY <1>1 DEF Pending, Copying
<1>2. PICK h \in Handle, n \in Name :
         /\ h = pc[t].h /\ h \in infoBusy /\ name[h] = n
         /\ CoreOf[t] \in open[h]
         /\ mem[h] \in Block /\ len[h] \in Size
         /\ len[h] <= BlockSize[PoolOf(mem[h])]
         /\ Slice(n) = InfoSlice(h)
  BY <1>1, <1>0, NamedInfo
<1>3. PICK o \in Offset, l \in Size :
         pc[t].o = o /\ o < len[h] /\ pc[t].s = Lesser(l, len[h] - o)
  <2>1. CutTo(len[pc[t].h], pc[t].o, pc[t].s)
    BY <1>0, <1>1 DEF BufferInv, CopyInv, PendingInv, CutsAre
  <2>2. pc[t].o \in Offset
    BY <1>1 DEF PcOK
  <2> QED  BY <1>2, <2>1, <2>2 DEF CutTo
<1>4. PICK s : s = pc[t].s
  OBVIOUS
<1>5. s \in Nat \ {0} /\ o \in Nat /\ len[h] \in Nat /\ o + s <= len[h]
  BY <1>2, <1>3, <1>4, Numbers DEF Lesser
<1>6. ReadBytes(t) = [i \in 1..s |-> content[mem[h]][o + i - 1]]
  BY <1>1, <1>2, <1>3, <1>4 DEF ReadBytes, ReadSize, ReadFrom
<1>7. /\ Got' = [Got EXCEPT ![t] = ReadBytes(t)]
      /\ UNCHANGED <<infoBusy, name, len, open, mem, content, Holders, Lengths, Cells>>
  BY <1>1, ReadsReturn
<1>8. UNCHANGED Windows
  BY <1>1, <1>7, BuffersRest
<1>9. CoreOf[t] \in Holders[n] /\ Lengths[n] = len[h] /\ Cells[n] = Bytes(h)
  BY <1>2 DEF Slice, InfoSlice
<1>10. ReadBytes(t) = [i \in 1..s |-> Cells[n][o + i - 1]]
  <2>1. \A i \in 1..s : o + i - 1 \in 0..(len[h] - 1)
    BY <1>5
  <2>2. \A i \in 1..s : Cells[n][o + i - 1] = content[mem[h]][o + i - 1]
    BY <1>9, <2>1 DEF Bytes
  <2> QED  BY <1>6, <2>2
<1>11. s = Buffers!Lesser(l, Lengths[n] - o)
  BY <1>3, <1>4, <1>9 DEF Lesser, Buffers!Lesser
<1> QED  BY <1>3, <1>7, <1>8, <1>9, <1>10, <1>11 DEF Buffers!Peek

(* A caller that goes on gives its bytes up. *)
LEMMA ReturnReturns ==
    ASSUME PcOK, NEW t \in Thread, Return(t)
    PROVE  Buffers!Return(t)
<1>1. pc' = [pc EXCEPT ![t] = Idle] /\ UNCHANGED <<infoVars, dataVars>>
  BY DEF Return
<1>2. Idle.op # "got"
  BY DEF Idle
<1>3. Got' = [Got EXCEPT ![t] = <<>>]
  BY <1>1, <1>2, GotNow
<1>4. UNCHANGED <<Holders, Lengths, Cells, Windows>>
  BY <1>1, BuffersRest DEF infoVars, dataVars
<1> QED  BY <1>3, <1>4 DEF Buffers!Return

(* Tests, measures and failures are not seen. *)
LEMMA QuietRests ==
    ASSUME PcOK, NEW t \in Thread,
           \/ CheckStep(t) \/ SendMeasure(t) \/ GetOffsetMeasure(t)
           \/ NotUpdated(t) \/ SendFault(t) \/ ReadFault(t)
    PROVE  BuffersQuiet
<1>1. UNCHANGED <<infoVars, dataVars>>
  BY DEF CheckStep, CloseCheck, SendCheck, GetCheck, GetOffsetCheck, SendMeasure,
         GetOffsetMeasure, NotUpdated, SendFault, ReadFault
<1>2. UNCHANGED <<Holders, Lengths, Cells, Windows>>
  BY <1>1, BuffersRest DEF infoVars, dataVars
<1>3. pc[t].op # "got"
  BY DEF CheckStep, CloseCheck, SendCheck, GetCheck, GetOffsetCheck, ReadCheck, SendMeasure,
         GetOffsetMeasure, NotUpdated, SendFault, ReadFault, Locked, Idle
<1>4. ASSUME NEW h \in Handle, CloseCheck(t, h)
      PROVE  UNCHANGED Got
  <2> DEFINE r == [op |-> "close", h |-> h]
  <2>1. pc' = [pc EXCEPT ![t] = r] /\ r.op # "got"
    BY <1>4 DEF CloseCheck
  <2> HIDE DEF r
  <2> QED  BY <1>3, <2>1, GotNow
<1>5. ASSUME NEW h \in Handle, NEW l \in Size, NEW o \in Offset, SendCheck(t, h, l, o)
      PROVE  UNCHANGED Got
  <2> DEFINE r == [op |-> "measure", h |-> h, l |-> l, o |-> o]
  <2>1. pc' = [pc EXCEPT ![t] = r] /\ r.op # "got"
    BY <1>5 DEF SendCheck
  <2> HIDE DEF r
  <2> QED  BY <1>3, <2>1, GotNow
<1>6. ASSUME NEW h \in Handle, NEW l \in Size, NEW u \in UpdateMode, GetCheck(t, h, l, u)
      PROVE  UNCHANGED Got
  <2> DEFINE r == [op |-> "get", h |-> h, l |-> l, u |-> u]
  <2>1. pc' = [pc EXCEPT ![t] = r] /\ r.op # "got"
    BY <1>6 DEF GetCheck
  <2> HIDE DEF r
  <2> QED  BY <1>3, <2>1, GotNow
<1>7. ASSUME NEW h \in Handle, NEW l \in Size, NEW u \in UpdateMode, NEW o \in Offset,
             GetOffsetCheck(t, h, l, u, o)
      PROVE  UNCHANGED Got
  <2> DEFINE r == [op |-> "span", h |-> h, l |-> l, u |-> u, o |-> o]
  <2>1. pc' = [pc EXCEPT ![t] = r] /\ r.op # "got"
    BY <1>7 DEF GetOffsetCheck
  <2> HIDE DEF r
  <2> QED  BY <1>3, <2>1, GotNow
<1>8. ASSUME SendMeasure(t)
      PROVE  UNCHANGED Got
  <2> DEFINE r == [op |-> "send", h |-> pc[t].h, s |-> Cut(pc[t].h, pc[t].l, pc[t].o), o |-> pc[t].o]
  <2>1. pc' = [pc EXCEPT ![t] = r] /\ r.op # "got"
    BY <1>8 DEF SendMeasure
  <2> HIDE DEF r
  <2> QED  BY <1>3, <2>1, GotNow
<1>9. ASSUME GetOffsetMeasure(t)
      PROVE  UNCHANGED Got
  <2> DEFINE r == [op |-> "peek", h |-> pc[t].h, u |-> pc[t].u, o |-> pc[t].o,
                s |-> Cut(pc[t].h, pc[t].l, pc[t].o)]
  <2>1. pc' = [pc EXCEPT ![t] = r] /\ r.op # "got"
    BY <1>9 DEF GetOffsetMeasure
  <2> HIDE DEF r
  <2> QED  BY <1>3, <2>1, GotNow
<1>10. ASSUME NotUpdated(t)
      PROVE  UNCHANGED Got
  <2> DEFINE r == Idle
  <2>1. pc' = [pc EXCEPT ![t] = r] /\ r.op # "got"
    BY <1>10 DEF NotUpdated, Idle
  <2> HIDE DEF r
  <2> QED  BY <1>3, <2>1, GotNow
<1>11. ASSUME SendFault(t) \/ ReadFault(t)
      PROVE  UNCHANGED Got
  BY <1>11, GotRests DEF SendFault, ReadFault
<1>12. UNCHANGED Got
  BY <1>4, <1>5, <1>6, <1>7, <1>8, <1>9, <1>10, <1>11 DEF CheckStep
<1> QED  BY <1>2, <1>12 DEF BuffersQuiet

(* As long as one core allocates, every step is a step of SharedBuffers, is   *)
(* not seen there, or is what a rash call does under the lock.                *)
LEMMA BufferSteps ==
    ASSUME BufferInv, [Next]_vars, Heap!OneAllocates'
    PROVE  [Buffers!Next]_(Buffers!vars) \/ RashStep
<1>1. BufferInv' /\ PcOK
  BY BufferNext DEF BufferInv, CopyInv, AreaInv
<1>2. SUFFICES Buffers!Next \/ BuffersQuiet \/ RashStep
  BY DEF BuffersQuiet, Buffers!vars
<1>3. CASE UNCHANGED vars
  BY <1>3, BuffersRest, GotRests DEF vars, infoVars, dataVars, BuffersQuiet
<1>4. CASE Next
  <2>1. PICK t \in Thread :
           OpenStep(t) \/ CheckStep(t) \/ CloseStep(t) \/ SendStep(t) \/ GetStep(t)
    BY <1>4 DEF Next
  <2>2. CASE OpenStep(t)
    BY <1>1, <2>2, AttachJoins, CreateCreates DEF OpenStep, Buffers!Next
  <2>3. CASE CloseStep(t) /\ CoreOf[t] \in open[pc[t].h]
    BY <1>1, <2>3, CloseLeaves DEF Buffers!Next
  <2>4. CASE CloseStep(t) /\ CoreOf[t] \notin open[pc[t].h]
    BY <1>1, <2>4, LateClose
  <2>5. CASE SendBody(t) /\ t \notin rash
    <3>1. PICK a \in Core : served \subseteq {a}
      BY <2>5 DEF SendBody, heapVars, Heap!OneAllocates
    <3> QED  BY <1>1, <2>5, <3>1, SendPuts DEF Buffers!Next
  <2>6. CASE GetBody(t) /\ t \notin rash
    BY <1>1, <2>6, GetTakes DEF Buffers!Next
  <2>7. CASE GetOffsetBody(t) /\ t \notin rash
    BY <1>1, <2>7, GetPeeks DEF Buffers!Next
  <2>8. CASE (SendBody(t) \/ GetBody(t) \/ GetOffsetBody(t)) /\ t \in rash
    BY <2>8 DEF RashStep
  <2>9. CASE Return(t)
    BY <1>1, <2>9, ReturnReturns DEF Buffers!Next
  <2>10. CASE \/ CheckStep(t) \/ SendMeasure(t) \/ GetOffsetMeasure(t)
              \/ NotUpdated(t) \/ SendFault(t) \/ ReadFault(t)
    BY <1>1, <2>10, QuietRests
  <2> QED
    BY <2>1, <2>2, <2>3, <2>4, <2>5, <2>6, <2>7, <2>8, <2>9, <2>10 DEF SendStep, GetStep
<1> QED  BY <1>3, <1>4

(* At the start nobody holds a name. *)
LEMMA BufferStarts == Init => Buffers!Init
<1> SUFFICES ASSUME Init PROVE Buffers!Init
  OBVIOUS
<1>1. infoBusy = {} /\ \A t \in Thread : pc[t].op = "idle"
  BY DEF Init, Idle
<1>2. \A n \in Name : ~IsOpen(n)
  BY <1>1 DEF IsOpen
<1> QED  BY <1>1, <1>2 DEF Buffers!Init, Buffers!Gone, Buffers!Unknown, Holders, Lengths,
                           Cells, Windows, NoWindow, Got

(* What the buffers rest on: blocks that belong to one segment each as long   *)
(* as one core allocates, and tests and cuts made before the lock that are    *)
(* still true under it.                                                       *)
THEOREM BuffersInductive == Spec => []BufferInv
BY BufferInit, BufferNext, PTL DEF Spec

(* mpi_shm_open, close, send, send_offset, get and get_offset, with their     *)
(* tests before the lock, are one buffer for each name, for any number of     *)
(* threads on both cores: a send reaches only the buffer of its name, a get   *)
(* returns bytes of the latest send if there has been one, and a buffer lives *)
(* until its last holder closes it.  Only a rash call's body may do something *)
(* else, and only until a second core has been given a block is this so.      *)
THEOREM SegmentsAreBuffers == Spec => ImplementsBuffers
<1>1. BufferInv /\ [Next]_vars =>
          (Heap!OneAllocates' => [Buffers!Next]_(Buffers!vars) \/ RashStep)
  BY BufferSteps
<1>2. BufferInv /\ [Next]_vars =>
          [Heap!OneAllocates' => [Buffers!Next]_(Buffers!vars) \/ RashStep]_vars
  BY <1>1
<1>3. Spec => Buffers!Init /\ [][Heap!OneAllocates' => [Buffers!Next]_(Buffers!vars) \/ RashStep]_vars
  BY <1>2, BuffersInductive, BufferStarts, PTL DEF Spec
<1> QED  BY <1>3 DEF ImplementsBuffers
=============================================================================
