--------------------------- MODULE HeapUseProofs ---------------------------
(***************************************************************************)
(* Proofs about HeapUse, for every number of cores, pools, blocks and      *)
(* handles.                                                                *)
(***************************************************************************)
EXTENDS HeapUse, ModHeapProofs

-----------------------------------------------------------------------------
(* Type correctness and the partition of each core's lists, whatever the     *)
(* cores do.                                                                 *)

ListsInv == TypeOK /\ ListsPartition

(* The lists partition the blocks when the heap has been initialised. *)
LEMMA ListsInit == Init => ListsInv
BY HeapInit DEF Init, ListsInv, TypeOK

(* No step of either core breaks the partition. *)
LEMMA ListsNext == ListsInv /\ [Next]_vars => ListsInv'
<1> SUFFICES ASSUME ListsInv, [Next]_vars PROVE ListsInv'
  OBVIOUS
<1> USE DEF ListsInv
<1>1. ASSUME NEW h \in Handle, NEW c \in Core, Open(c, h)
      PROVE  ListsInv'
  <2>1. PICK s \in Size, b \in Block :
           Malloc(c, s, b) /\ mem' = [mem EXCEPT ![h] = b] /\ stuck' = stuck
    BY <1>1 DEF Open
  <2>2. c \in Core /\ HeapTypeOK
    BY DEF TypeOK
  <2>3. HeapTypeOK' /\ ListsPartition'
    BY <2>1, <2>2, ListsMalloc
  <2> QED  BY <2>1, <2>3 DEF TypeOK
<1>2. ASSUME NEW h \in Handle, NEW c \in Core, Close(c, h)
      PROVE  ListsInv'
  <2>1. /\ Free(c, mem[h]) /\ mem[h] \in Block /\ c \in Core /\ HeapTypeOK
        /\ mem' = [mem EXCEPT ![h] = Null] /\ stuck' = stuck
    BY <1>2, UseAssumption DEF Close, Live, TypeOK
  <2>2. HeapTypeOK' /\ ListsPartition'
    BY <2>1, ListsFree
  <2> QED  BY <2>1, <2>2 DEF TypeOK
<1>3. ASSUME NEW h \in Handle, NEW c \in Core, CloseBug(c, h)
      PROVE  ListsInv'
  BY <1>3 DEF CloseBug, TypeOK, HeapTypeOK, ListsPartition, heapVars
<1>4. CASE UNCHANGED vars
  BY <1>4 DEF vars, TypeOK, HeapTypeOK, ListsPartition
<1> QED  BY <1>1, <1>2, <1>3, <1>4 DEF Next

(* The variables keep their types. *)
THEOREM TypeCorrect == Spec => []TypeOK
<1>1. ListsInv => TypeOK
  BY DEF ListsInv
<1> QED  BY <1>1, ListsInit, ListsNext, PTL DEF Spec

(* On each core every block is on exactly one list, once, whatever the other *)
(* core allocates and frees: the asserts of the list functions never fire.   *)
THEOREM ListsStayPartitioned == Spec => []ListsPartition
<1>1. ListsInv => ListsPartition
  BY DEF ListsInv
<1> QED  BY <1>1, ListsInit, ListsNext, PTL DEF Spec

-----------------------------------------------------------------------------
(* One allocating core: the shared headers agree with its lists.            *)

(* Nothing is allocated at first. *)
LEMMA SoleInit == ASSUME NEW a \in Core, Init PROVE SoleAllocator(a)
BY UseAssumption DEF Init, InitHeap, SoleAllocator, Live, Disjoint

(* The sole allocator picks a block that no open segment has. *)
LEMMA SoleOpen ==
    ASSUME NEW a \in Core, ListsInv, SoleAllocator(a),
           NEW h \in Handle, Open(a, h)
    PROVE  SoleAllocator(a)'
<1> USE DEF ListsInv, TypeOK
<1>1. PICK s \in Size, b \in Block :
         Malloc(a, s, b) /\ mem' = [mem EXCEPT ![h] = b] /\ ~Live(h)
  BY DEF Open
<1>2. PICK p \in Pool :
         /\ b \in BlocksOf(p) \ busy[a] /\ b = Head(free[a][p])
         /\ PoolOf(b) = p
         /\ s \in Nat \ {0} /\ s <= Capacity(p)
         /\ MallocHeap(a, s, p)
  BY <1>1, MallocFacts
<1>3. /\ busy' = [busy EXCEPT ![a] = busy[a] \cup {b}]
      /\ flag' = [flag EXCEPT ![b] = TRUE]
      /\ mlen' = [mlen EXCEPT ![b] = s]
  BY <1>2 DEF MallocHeap
<1>4. busy'[a] = busy[a] \cup {b}
  BY <1>3 DEF HeapTypeOK
<1>5. \A g \in Handle : mem'[g] = IF g = h THEN b ELSE mem[g]
  BY <1>1
<1>6. b # Null
  BY <1>1, UseAssumption
<1>7. \A g \in Handle : Live(g)' => mem'[g] \in busy'[a]
  BY <1>4, <1>5 DEF Live, SoleAllocator
<1>8. Disjoint'
  <2>1. \A g \in Handle : Live(g) => mem[g] # b
    BY <1>2 DEF SoleAllocator
  <2> QED  BY <1>5, <1>6, <2>1 DEF SoleAllocator, Disjoint, Live
<1>9. \A x \in Block : flag'[x] <=> x \in busy'[a]
  BY <1>3, <1>4 DEF SoleAllocator, HeapTypeOK
<1>10. \A x \in busy'[a] : mlen'[x] \in 1..Capacity(PoolOf(x))
  <2>1. Capacity(p) \in Nat
    BY CapacityNat
  <2>2. s \in 1..Capacity(PoolOf(b))
    BY <1>2, <2>1
  <2>3. \A x \in Block : mlen'[x] = IF x = b THEN s ELSE mlen[x]
    BY <1>3 DEF HeapTypeOK
  <2>4. busy[a] \subseteq Block
    BY DEF HeapTypeOK
  <2> QED  BY <1>4, <2>2, <2>3, <2>4 DEF SoleAllocator
<1>11. \A c \in Core \ {a} : busy'[c] = {}
  BY <1>3 DEF SoleAllocator, HeapTypeOK
<1> QED  BY <1>7, <1>8, <1>9, <1>10, <1>11 DEF SoleAllocator

(* A close by either core leaves the other open segments and their headers. *)
LEMMA SoleClose ==
    ASSUME NEW a \in Core, ListsInv, SoleAllocator(a),
           NEW c \in Core, NEW h \in Handle, Close(c, h)
    PROVE  SoleAllocator(a)'
<1> USE DEF ListsInv, TypeOK
<1> DEFINE b == mem[h]
<1>1. /\ b \in Block /\ b \in busy[a] /\ Free(c, b)
      /\ mem' = [mem EXCEPT ![h] = Null]
  BY DEF Close, Live, SoleAllocator
<1>2. \A g \in Handle : mem'[g] = IF g = h THEN Null ELSE mem[g]
  BY <1>1
<1>3. \A g \in Handle : Live(g)' => g # h /\ Live(g) /\ mem'[g] = mem[g]
  BY <1>2 DEF Live
<1>4. \A g \in Handle : Live(g)' => mem'[g] # b
  BY <1>1, <1>3 DEF SoleAllocator, Disjoint, Close
<1>5. Disjoint'
  BY <1>3 DEF SoleAllocator, Disjoint
<1>6. CASE FreeRejected(c, b)
  <2>1. busy' = busy /\ flag' = flag /\ mlen' = mlen
    BY <1>6 DEF FreeRejected, heapVars
  <2> QED  BY <1>3, <1>5, <2>1 DEF SoleAllocator
<1>7. CASE FreeReturned(c, b)
  <2>1. c = a
    BY <1>7 DEF FreeReturned, FreeAccepted, SoleAllocator
  <2>2. /\ busy' = [busy EXCEPT ![a] = busy[a] \ {b}]
        /\ flag' = [flag EXCEPT ![b] = FALSE]
        /\ mlen' = [mlen EXCEPT ![b] = 0]
    BY <1>7, <2>1 DEF FreeReturned
  <2> HIDE DEF b
  <2>3. busy'[a] = busy[a] \ {b}
    BY <2>2 DEF HeapTypeOK
  <2>4. \A g \in Handle : Live(g)' => mem'[g] \in busy'[a]
    BY <1>3, <1>4, <2>3 DEF SoleAllocator
  <2>5. \A x \in Block : flag'[x] <=> x \in busy'[a]
    BY <2>2, <2>3 DEF SoleAllocator, HeapTypeOK
  <2>6. \A x \in busy'[a] : mlen'[x] \in 1..Capacity(PoolOf(x))
    BY <2>2, <2>3 DEF SoleAllocator, HeapTypeOK
  <2>7. \A d \in Core \ {a} : busy'[d] = {}
    BY <2>2 DEF SoleAllocator, HeapTypeOK
  <2> QED  BY <1>5, <2>4, <2>5, <2>6, <2>7 DEF SoleAllocator
<1> QED  BY <1>1, <1>6, <1>7 DEF Free

(* The cores that have allocated are recorded for good. *)
LEMMA ServedGrows == [Next]_vars => served \subseteq served'
<1>1. ASSUME NEW h \in Handle, NEW c \in Core, Open(c, h)
      PROVE  served \subseteq served'
  BY <1>1 DEF Open, Malloc, MallocHeap
<1>2. ASSUME NEW h \in Handle, NEW c \in Core, Close(c, h)
      PROVE  served \subseteq served'
  BY <1>2 DEF Close, Free, FreeReturned, FreeRejected, heapVars
<1>3. ASSUME NEW h \in Handle, NEW c \in Core, CloseBug(c, h)
      PROVE  served \subseteq served'
  BY <1>3 DEF CloseBug, heapVars
<1> QED  BY <1>1, <1>2, <1>3 DEF Next, vars

(* A core that opens a segment first is one of them. *)
LEMMA OpenServes ==
    ASSUME NEW c \in Core, NEW h \in Handle, Open(c, h)
    PROVE  c \in served'
BY DEF Open, Malloc, MallocHeap

OneAllocator == ListsInv /\ OneAllocatorInv

(* The invariant holds when the heap has been initialised. *)
LEMMA OneAllocatorInit == Init => OneAllocator
BY ListsInit, SoleInit DEF OneAllocator, OneAllocatorInv

(* Every step keeps it: one case for each action of HeapUse. *)
LEMMA OneAllocatorNext == OneAllocator /\ [Next]_vars => OneAllocator'
<1> SUFFICES ASSUME OneAllocator, [Next]_vars,
                    NEW a \in Core, served' \subseteq {a}
             PROVE  SoleAllocator(a)'
  BY ListsNext DEF OneAllocator, OneAllocatorInv
<1>1. ListsInv /\ SoleAllocator(a)
  BY ServedGrows DEF OneAllocator, OneAllocatorInv
<1>2. ASSUME NEW h \in Handle, NEW c \in Core, Open(c, h)
      PROVE  SoleAllocator(a)'
  BY <1>1, <1>2, OpenServes, SoleOpen
<1>3. ASSUME NEW h \in Handle, NEW c \in Core, Close(c, h)
      PROVE  SoleAllocator(a)'
  BY <1>1, <1>3, SoleClose
<1>4. ASSUME NEW h \in Handle, NEW c \in Core, CloseBug(c, h)
      PROVE  SoleAllocator(a)'
  BY <1>1, <1>4 DEF CloseBug, SoleAllocator, Disjoint, Live, heapVars
<1>5. CASE UNCHANGED vars
  BY <1>1, <1>5 DEF vars, SoleAllocator, Disjoint, Live
<1> QED  BY <1>2, <1>3, <1>4, <1>5 DEF Next

(* As long as a single core allocates, the two cores' views of the heap never *)
(* part: the shared flags and the allocator's busy lists say the same, and    *)
(* each open segment owns one entry of them.                                  *)
THEOREM OneAllocatorInductive == Spec => []OneAllocator
BY OneAllocatorInit, OneAllocatorNext, PTL DEF Spec

(* The same, without the lists of the cores.                                 *)
THEOREM OneAllocatorHolds == Spec => []OneAllocatorInv
<1>1. OneAllocator => OneAllocatorInv
  BY DEF OneAllocator
<1> QED  BY <1>1, OneAllocatorInductive, PTL

(* As long as one core allocates, a header says "busy" exactly while the     *)
(* block is on a busy list: a refused mod_free leaves flag and list alone.   *)
THEOREM FlagsTellTruth == Spec => []FlagMeansBusy
<1>1. OneAllocator => FlagMeansBusy
  <2> SUFFICES ASSUME OneAllocator, NEW a \in Core, served \subseteq {a},
                      NEW b \in Block
               PROVE  flag[b] <=> \E c \in Core : b \in busy[c]
    BY DEF FlagMeansBusy, OneAllocates
  <2>1. SoleAllocator(a)
    BY DEF OneAllocator, OneAllocatorInv
  <2>2. (flag[b] <=> b \in busy[a]) /\ \A c \in Core \ {a} : b \notin busy[c]
    BY <2>1 DEF SoleAllocator
  <2>3. (\E c \in Core : b \in busy[c]) <=> b \in busy[a]
    BY <2>2
  <2> QED  BY <2>2, <2>3
<1> QED  BY <1>1, OneAllocatorInductive, PTL

(* As long as one core allocates, two open segments never share a block,      *)
(* whichever core closes them and whatever mod_free refuses to take back.     *)
THEOREM SegmentsDisjoint == Spec => []NoSharedBlock
<1>1. OneAllocator => NoSharedBlock
  BY DEF OneAllocator, OneAllocatorInv, OneAllocates, SoleAllocator,
         NoSharedBlock
<1> QED  BY <1>1, OneAllocatorInductive, PTL

(* As long as one core allocates, the header of an open segment's block keeps *)
(* its busy flag: mod_free never sees "wrong flag".                           *)
THEOREM LiveBlocksFlagged == Spec => []LiveFlagged
<1>1. OneAllocator => LiveFlagged
  BY DEF OneAllocator, OneAllocatorInv, OneAllocates, SoleAllocator,
         LiveFlagged, NeverWrongFlag, ListsInv, TypeOK, Live
<1> QED  BY <1>1, OneAllocatorInductive, PTL

(* As long as one core allocates, the length in the header of an open         *)
(* segment's block is positive and fits the block.                            *)
THEOREM LiveBlocksFit == Spec => []LiveFits
<1>1. OneAllocator => LiveFits
  BY DEF OneAllocator, OneAllocatorInv, OneAllocates, SoleAllocator, LiveFits
<1> QED  BY <1>1, OneAllocatorInductive, PTL

-----------------------------------------------------------------------------
(* What a close gives back, if only one core allocates. *)

(* The core that allocated a segment passes all the checks of mod_free. *)
LEMMA LocalAccepted ==
    ASSUME NEW a \in Core, served \subseteq {a}, OneAllocator,
           NEW h \in Handle, Live(h)
    PROVE  FreeAccepted(a, mem[h])
<1>1. SoleAllocator(a) /\ mem[h] \in Block
  BY DEF OneAllocator, OneAllocatorInv, ListsInv, TypeOK, Live
<1>2. mem[h] \in busy[a] /\ mlen[mem[h]] \in 1..Capacity(PoolOf(mem[h]))
  BY <1>1 DEF SoleAllocator
<1>3. Capacity(PoolOf(mem[h])) \in Nat
  BY <1>1, BlockFacts, CapacityNat
<1>4. flag[mem[h]]
  BY <1>1, <1>2 DEF SoleAllocator
<1> QED  BY <1>2, <1>3, <1>4 DEF FreeAccepted

(* A block that an allocation, or a close by the allocator, leaves on its busy *)
(* list is a segment's, unless it was lost before.                            *)
LEMMA LeakNext ==
    ASSUME OneAllocator, [Next]_vars
    PROVE  ForeignLeak
<1>1. SUFFICES ASSUME NEW a \in Core, served \subseteq {a},
                      NEW x, x \in Lost(a)', x \notin Lost(a)
               PROVE  /\ \E c \in Core \ {a}, h \in Handle : Close(c, h)
                      /\ \A h \in Handle : ~Close(a, h)
  BY DEF ForeignLeak
<1>2. ListsInv /\ SoleAllocator(a) /\ TypeOK /\ HeapTypeOK
  BY <1>1 DEF OneAllocator, OneAllocatorInv, ListsInv, TypeOK
<1>3. x \in busy'[a] /\ \A g \in Handle : mem'[g] # x
  BY <1>1 DEF Lost
<1>4. x \in busy[a] => \E g \in Handle : mem[g] = x
  BY <1>1 DEF Lost
<1>5. ASSUME NEW h \in Handle, NEW c \in Core, Open(c, h)
      PROVE  FALSE
  <2>1. PICK s \in Size, b \in Block :
           Malloc(c, s, b) /\ mem' = [mem EXCEPT ![h] = b] /\ ~Live(h)
    BY <1>5 DEF Open
  <2>2. busy' = [busy EXCEPT ![c] = busy[c] \cup {b}]
    BY <2>1 DEF Malloc, MallocHeap
  <2>3. mem'[h] = b /\ \A g \in Handle : Live(g) => mem'[g] = mem[g]
    BY <1>2, <2>1 DEF TypeOK, Live
  <2>4. x = b \/ x \in busy[a]
    BY <1>2, <1>3, <2>2 DEF HeapTypeOK
  <2>5. x # Null
    BY <1>2, <2>1, <2>4, UseAssumption DEF HeapTypeOK
  <2> QED  BY <1>3, <1>4, <2>3, <2>4, <2>5 DEF Live
<1>6. ASSUME NEW h \in Handle, Close(a, h)
      PROVE  FALSE
  <2>1. /\ Live(h) /\ Free(a, mem[h])
        /\ mem' = [mem EXCEPT ![h] = Null]
    BY <1>6 DEF Close
  <2>2. FreeReturned(a, mem[h])
    BY <1>1, <2>1, LocalAccepted DEF Free, FreeRejected
  <2>3. busy' = [busy EXCEPT ![a] = busy[a] \ {mem[h]}]
    BY <2>2 DEF FreeReturned
  <2>4. x \in busy[a] /\ x # mem[h]
    BY <1>2, <1>3, <2>3 DEF HeapTypeOK
  <2>5. PICK g \in Handle : mem[g] = x
    BY <1>4, <2>4
  <2>6. mem'[g] = x
    BY <1>2, <2>1, <2>4, <2>5 DEF TypeOK
  <2> QED  BY <1>3, <2>6
<1>7. ASSUME NEW h \in Handle, NEW c \in Core, CloseBug(c, h)
      PROVE  FALSE
  BY <1>3, <1>4, <1>7 DEF CloseBug, heapVars
<1>8. ~UNCHANGED vars
  BY <1>3, <1>4 DEF vars
<1>9. PICK c \in Core, h \in Handle :
           Open(c, h) \/ Close(c, h) \/ CloseBug(c, h)
  BY <1>8 DEF Next
<1> QED  BY <1>5, <1>6, <1>7, <1>9

(* As long as only core a allocates, mod_free takes back what a closes,       *)
(* whatever was refused to the other core before.                             *)
THEOREM AllocatorCloseAccepted == Spec => []CloseAccepted
<1>1. OneAllocator => CloseAccepted
  BY LocalAccepted DEF CloseAccepted
<1> QED  BY <1>1, OneAllocatorInductive, PTL

(* As long as one core allocates, a block is lost only by a close of another, *)
(* never by a close of its own.                                               *)
THEOREM LeaksForeign == Spec => LeaksAreForeign
<1>1. OneAllocator /\ [Next]_vars => [ForeignLeak]_vars
  BY LeakNext
<1> QED  BY <1>1, OneAllocatorInductive, PTL DEF Spec, LeaksAreForeign
=============================================================================
