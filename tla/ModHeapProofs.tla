---------------------------- MODULE ModHeapProofs ----------------------------
(***************************************************************************)
(* Lemmas about the allocator, for every number of cores, pools and blocks *)
(* and whatever uses it.                                                   *)
(***************************************************************************)
EXTENDS ModHeap, SequenceTheorems, TLAPS

-----------------------------------------------------------------------------
(* Sequences used as stacks. *)

(* Taking the head off a list without duplicates removes just that element. *)
LEMMA PopRange ==
    ASSUME NEW S, NEW s \in Seq(S), s # <<>>, IsInjective(s)
    PROVE  /\ Head(s) \in Range(s)
           /\ Range(Tail(s)) = Range(s) \ {Head(s)}
           /\ IsInjective(Tail(s))
<1>1. /\ Len(s) \in Nat \ {0}
      /\ DOMAIN s = 1..Len(s)
  BY EmptySeq, LenProperties
<1>2. /\ Tail(s) \in Seq(S)
      /\ Len(Tail(s)) = Len(s) - 1
      /\ DOMAIN Tail(s) = 1..(Len(s) - 1)
      /\ \A i \in 1..(Len(s) - 1) : Tail(s)[i] = s[i + 1]
  BY HeadTailProperties, LenProperties
<1>3. Head(s) = s[1]
  BY <1>1
<1>4. \A i, j \in 1..Len(s) : s[i] = s[j] => i = j
  BY <1>1 DEF IsInjective
<1>5. Head(s) \in Range(s)
  BY <1>1, <1>3 DEF Range
<1>6. Range(Tail(s)) = Range(s) \ {Head(s)}
  <2>1. ASSUME NEW x \in Range(Tail(s))
        PROVE  x \in Range(s) /\ x # Head(s)
    <3>1. PICK i \in 1..(Len(s) - 1) : x = s[i + 1]
      BY <1>2 DEF Range
    <3>2. i + 1 \in 1..Len(s) /\ 1 \in 1..Len(s) /\ i + 1 # 1
      BY <1>1, <3>1
    <3> QED  BY <1>1, <1>3, <1>4, <3>1, <3>2 DEF Range
  <2>2. ASSUME NEW x \in Range(s), x # Head(s)
        PROVE  x \in Range(Tail(s))
    <3>1. PICK i \in 1..Len(s) : x = s[i]
      BY <1>1 DEF Range
    <3>2. i - 1 \in 1..(Len(s) - 1) /\ (i - 1) + 1 = i
      BY <1>1, <1>3, <2>2, <3>1
    <3>3. Tail(s)[i - 1] = x
      BY <1>2, <3>1, <3>2
    <3> QED  BY <1>2, <3>2, <3>3 DEF Range
  <2> QED  BY <2>1, <2>2
<1>7. IsInjective(Tail(s))
  <2>1. SUFFICES ASSUME NEW i \in 1..(Len(s) - 1), NEW j \in 1..(Len(s) - 1),
                        Tail(s)[i] = Tail(s)[j]
                 PROVE  i = j
    BY <1>2 DEF IsInjective
  <2>2. i + 1 \in 1..Len(s) /\ j + 1 \in 1..Len(s) /\ s[i + 1] = s[j + 1]
    BY <1>1, <1>2, <2>1
  <2> QED  BY <1>4, <2>2
<1> QED  BY <1>5, <1>6, <1>7

(* Pushing an element that is not on the list adds it and makes no duplicate. *)
LEMMA PushRange ==
    ASSUME NEW S, NEW s \in Seq(S), NEW e \in S, e \notin Range(s),
           IsInjective(s)
    PROVE  /\ <<e>> \o s \in Seq(S)
           /\ Range(<<e>> \o s) = Range(s) \cup {e}
           /\ IsInjective(<<e>> \o s)
<1> DEFINE t == <<e>> \o s
<1>1. /\ <<e>> \in Seq(S)
      /\ Len(<<e>>) = 1
      /\ <<e>>[1] = e
  OBVIOUS
<1>2. /\ Len(s) \in Nat
      /\ DOMAIN s = 1..Len(s)
  BY LenProperties
<1>3. /\ t \in Seq(S)
      /\ Len(t) = 1 + Len(s)
      /\ \A i \in 1..(1 + Len(s)) : t[i] = IF i <= 1 THEN e ELSE s[i - 1]
  BY <1>1, ConcatProperties
<1>4. DOMAIN t = 1..(1 + Len(s))
  BY <1>3, LenProperties
<1>5. Range(t) = Range(s) \cup {e}
  <2>1. Range(<<e>>) = {e}
    BY <1>1 DEF Range
  <2>2. Range(<<e>> \o s) = Range(<<e>>) \cup Range(s)
    BY <1>1, RangeConcatenation
  <2> QED  BY <2>1, <2>2
<1>6. IsInjective(t)
  <2>1. SUFFICES ASSUME NEW i \in 1..(1 + Len(s)), NEW j \in 1..(1 + Len(s)),
                        t[i] = t[j]
                 PROVE  i = j
    BY <1>4 DEF IsInjective
  <2>2. \A k \in 1..(1 + Len(s)) : k # 1 => k - 1 \in 1..Len(s)
    BY <1>2
  <2>3. \A k \in 1..Len(s) : s[k] # e
    BY <1>2 DEF Range
  <2>4. CASE i = 1
    BY <1>2, <1>3, <2>1, <2>2, <2>3, <2>4
  <2>5. CASE j = 1
    BY <1>2, <1>3, <2>1, <2>2, <2>3, <2>5
  <2>6. CASE i # 1 /\ j # 1
    <3>1. s[i - 1] = s[j - 1]
      BY <1>2, <1>3, <2>1, <2>6
    <3>2. i - 1 = j - 1
      BY <1>2, <2>2, <2>6, <3>1 DEF IsInjective
    <3> QED  BY <1>2, <3>2
  <2> QED  BY <2>4, <2>5, <2>6
<1> QED  BY <1>3, <1>5, <1>6

(* mod_mem_init_heap puts every block of a pool on the free list, once. *)
LEMMA InitialFreeList ==
    ASSUME NEW p \in Pool
    PROVE  /\ InitialFree(p) \in Seq(BlocksOf(p))
           /\ Range(InitialFree(p)) = BlocksOf(p)
           /\ IsInjective(InitialFree(p))
<1> DEFINE n == PoolNumber[p]
           f == [i \in 1..n |-> <<p, n - i>>]
<1>1. n \in Nat
  BY HeapAssumption
<1>2. f \in Seq(BlocksOf(p)) /\ DOMAIN f = 1..n
  BY <1>1 DEF BlocksOf
<1>3. Range(f) = BlocksOf(p)
  <2>1. ASSUME NEW b \in BlocksOf(p) PROVE b \in Range(f)
    <3>1. PICK k \in 0..(n - 1) : b = <<p, k>>
      BY DEF BlocksOf
    <3>2. n - k \in 1..n /\ n - (n - k) = k
      BY <1>1, <3>1
    <3> QED  BY <1>2, <3>1, <3>2 DEF Range
  <2>2. ASSUME NEW b \in Range(f) PROVE b \in BlocksOf(p)
    <3>1. PICK i \in 1..n : b = f[i]
      BY <1>2 DEF Range
    <3>2. n - i \in 0..(n - 1) /\ b = <<p, n - i>>
      BY <1>1, <3>1
    <3> QED  BY <3>2 DEF BlocksOf
  <2> QED  BY <2>1, <2>2
<1>4. IsInjective(f)
  BY <1>1 DEF IsInjective
<1> QED  BY <1>2, <1>3, <1>4 DEF InitialFree

-----------------------------------------------------------------------------
(* The blocks of different pools are different. *)

(* A block belongs to one pool, the one its header names. *)
LEMMA BlockFacts ==
    /\ \A p \in Pool : \A b \in BlocksOf(p) : b \in Block /\ PoolOf(b) = p
    /\ \A b \in Block : PoolOf(b) \in Pool /\ b \in BlocksOf(PoolOf(b))
<1>1. \A p \in Pool : \A b \in BlocksOf(p) : PoolOf(b) = p
  BY DEF BlocksOf, PoolOf
<1> QED  BY <1>1 DEF Block

(* The size a pool offers is a number, also for a pool without blocks. *)
LEMMA CapacityNat == \A p \in Pool : Capacity(p) \in Nat
BY HeapAssumption DEF Capacity

(* What mod_malloc returns: the head of a list of this core's, large enough. *)
LEMMA MallocFacts ==
    ASSUME HeapTypeOK, ListsPartition,
           NEW c \in Core, NEW s \in Size, NEW b, Malloc(c, s, b)
    PROVE  \E p \in Pool :
             /\ free[c][p] # <<>>
             /\ b = Head(free[c][p])
             /\ b \in BlocksOf(p) \ busy[c]
             /\ b \in Block /\ PoolOf(b) = p
             /\ s \in Nat \ {0} /\ s <= Capacity(p)
             /\ MallocHeap(c, s, p)
<1>1. PICK p \in Pool : /\ Usable(c, s, p)
                       /\ b = Head(free[c][p])
                       /\ MallocHeap(c, s, p)
  BY DEF Malloc, FirstUsable
<1>2. free[c][p] \in Seq(Block) /\ IsInjective(free[c][p])
  BY DEF HeapTypeOK, ListsPartition
<1>3. free[c][p] # <<>> /\ s <= Capacity(p)
  BY <1>1 DEF Usable
<1>4. b \in Range(free[c][p])
  BY <1>1, <1>2, <1>3, PopRange
<1>5. b \in BlocksOf(p) \ busy[c]
  BY <1>4 DEF ListsPartition
<1> QED  BY <1>1, <1>3, <1>5, BlockFacts, HeapAssumption

-----------------------------------------------------------------------------
(* Types and the partition of each core's lists, whatever the cores do.      *)

(* The lists partition the blocks when the heap has been initialised. *)
LEMMA HeapInit == InitHeap => HeapTypeOK /\ ListsPartition
<1> SUFFICES ASSUME InitHeap PROVE HeapTypeOK /\ ListsPartition
  OBVIOUS
<1> USE DEF InitHeap
<1>1. \A p \in Pool : InitialFree(p) \in Seq(Block)
  <2>1. SUFFICES ASSUME NEW p \in Pool PROVE InitialFree(p) \in Seq(Block)
    OBVIOUS
  <2>2. InitialFree(p) \in Seq(BlocksOf(p)) /\ BlocksOf(p) \subseteq Block
    BY InitialFreeList, BlockFacts
  <2> QED  BY <2>2
<1>2. HeapTypeOK
  BY <1>1 DEF HeapTypeOK
<1>3. ListsPartition
  BY InitialFreeList DEF ListsPartition
<1> QED  BY <1>2, <1>3

(* mod_malloc moves one block of one core from its free to its busy list. *)
LEMMA ListsMalloc ==
    ASSUME HeapTypeOK, ListsPartition,
           NEW c \in Core, NEW s \in Size, NEW b, Malloc(c, s, b)
    PROVE  HeapTypeOK' /\ ListsPartition'
<1>1. PICK p \in Pool : /\ free[c][p] # <<>>
                       /\ b = Head(free[c][p])
                       /\ b \in BlocksOf(p) \ busy[c]
                       /\ b \in Block /\ PoolOf(b) = p
                       /\ s \in Nat \ {0}
                       /\ MallocHeap(c, s, p)
  BY MallocFacts
<1>2. /\ free[c][p] \in Seq(Block)
      /\ IsInjective(free[c][p])
      /\ Range(free[c][p]) = BlocksOf(p) \ busy[c]
  BY DEF HeapTypeOK, ListsPartition
<1>3. /\ Tail(free[c][p]) \in Seq(Block)
      /\ Range(Tail(free[c][p])) = Range(free[c][p]) \ {b}
      /\ IsInjective(Tail(free[c][p]))
  BY <1>1, <1>2, PopRange, HeadTailProperties
<1>4. HeapTypeOK'
  BY <1>1, <1>3 DEF HeapTypeOK, MallocHeap
<1>5. ListsPartition'
  <2>1. SUFFICES ASSUME NEW d \in Core, NEW q \in Pool
                 PROVE  /\ Range(free'[d][q]) = BlocksOf(q) \ busy'[d]
                        /\ IsInjective(free'[d][q])
    BY DEF ListsPartition
  <2>2. /\ Range(free[d][q]) = BlocksOf(q) \ busy[d]
        /\ IsInjective(free[d][q])
    BY DEF ListsPartition
  <2>3. /\ free'[d][q] = IF d = c /\ q = p THEN Tail(free[c][p]) ELSE free[d][q]
        /\ busy'[d] = IF d = c THEN busy[c] \cup {b} ELSE busy[d]
    BY <1>1 DEF MallocHeap, HeapTypeOK
  <2>4. CASE d # c
    BY <2>2, <2>3, <2>4
  <2>5. CASE d = c /\ q = p
    BY <1>2, <1>3, <2>3, <2>5
  <2>6. CASE d = c /\ q # p
    <3>1. b \notin BlocksOf(q)
      BY <1>1, <2>6, BlockFacts
    <3> QED  BY <2>2, <2>3, <2>6, <3>1
  <2> QED  BY <2>4, <2>5, <2>6
<1> QED  BY <1>4, <1>5

(* mod_free moves one block back, or changes no list. *)
LEMMA ListsFree ==
    ASSUME HeapTypeOK, ListsPartition,
           NEW c \in Core, NEW b \in Block, Free(c, b)
    PROVE  HeapTypeOK' /\ ListsPartition'
<1>1. CASE FreeRejected(c, b)
  BY <1>1 DEF FreeRejected, heapVars, HeapTypeOK, ListsPartition
<1>2. CASE FreeReturned(c, b)
  <2> DEFINE p == PoolOf(b)
  <2>1. p \in Pool /\ b \in BlocksOf(p) /\ b \in busy[c]
    BY <1>2, BlockFacts DEF FreeReturned, FreeAccepted
  <2>2. /\ free[c][p] \in Seq(Block)
        /\ IsInjective(free[c][p])
        /\ Range(free[c][p]) = BlocksOf(p) \ busy[c]
    BY <2>1 DEF HeapTypeOK, ListsPartition
  <2>3. /\ <<b>> \o free[c][p] \in Seq(Block)
        /\ Range(<<b>> \o free[c][p]) = Range(free[c][p]) \cup {b}
        /\ IsInjective(<<b>> \o free[c][p])
    BY <2>1, <2>2, PushRange
  <2>4. /\ busy' = [busy EXCEPT ![c] = @ \ {b}]
        /\ flag' = [flag EXCEPT ![b] = FALSE]
        /\ mlen' = [mlen EXCEPT ![b] = 0]
        /\ free' = [free EXCEPT ![c][p] = <<b>> \o @]
        /\ served' = served
    BY <1>2 DEF FreeReturned
  <2> HIDE DEF p
  <2>5. HeapTypeOK'
    BY <2>1, <2>3, <2>4 DEF HeapTypeOK
  <2>6. ListsPartition'
    <3>1. SUFFICES ASSUME NEW d \in Core, NEW q \in Pool
                   PROVE  /\ Range(free'[d][q]) = BlocksOf(q) \ busy'[d]
                          /\ IsInjective(free'[d][q])
      BY DEF ListsPartition
    <3>2. /\ Range(free[d][q]) = BlocksOf(q) \ busy[d]
          /\ IsInjective(free[d][q])
      BY DEF ListsPartition
    <3>3. /\ free'[d][q] = IF d = c /\ q = p THEN <<b>> \o free[c][p]
                                            ELSE free[d][q]
          /\ busy'[d] = IF d = c THEN busy[c] \ {b} ELSE busy[d]
      BY <2>1, <2>4 DEF HeapTypeOK
    <3>4. CASE d # c
      BY <3>2, <3>3, <3>4
    <3>5. CASE d = c /\ q = p
      BY <2>1, <2>2, <2>3, <3>3, <3>5
    <3>6. CASE d = c /\ q # p
      <4>1. b \notin BlocksOf(q)
        BY <2>1, <3>6, BlockFacts
      <4> QED  BY <3>2, <3>3, <3>6, <4>1
    <3> QED  BY <3>4, <3>5, <3>6
  <2> QED  BY <2>5, <2>6
<1> QED  BY <1>1, <1>2 DEF Free
=============================================================================
