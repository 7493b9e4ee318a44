-------------------------- MODULE PoolLayoutProofs --------------------------
(***************************************************************************)
(* The layout of the shared region is sound for every table, region and    *)
(* size of the structures for which no 32-bit sum wraps.                   *)
(***************************************************************************)
EXTENDS PoolLayout, TLAPS

\* The pools total_shm_size has added up.
Summed == IF stage = "sum" THEN i ELSE NPool

\* bytes holds the partial sums, which grow by at least each pool in between.
SumsRight ==
    /\ bytes[0] = 0
    /\ \A p \in Pool : p < Summed => bytes[p + 1] = bytes[p] + PoolBytes(p)
    /\ \A p, q \in 0..NPool : p <= q /\ q <= Summed => bytes[p] <= bytes[q]

\* The pools lie where the partial sums say, and all of them fit.
CarvedRight ==
    stage \in {"carve", "placed"} =>
        /\ bytes[NPool] <= RoundedLength
        /\ ppool = RoundedStart + bytes[i]
        /\ \A p \in NonEmpty : p < i => head[p] = RoundedStart + bytes[p]
        /\ stage = "placed" => i = NPool

TurnedDown ==
    stage \in {"bug", "refused"} =>
        RoundedLength <= 0 \/ RoundedLength < bytes[NPool]

\* The first rounding did not wrap.
Measured == stage # "sum" => reg.start + ControlSize + 4095 < Word

\* As long as no sum has wrapped.
Exact == SumsRight /\ CarvedRight /\ TurnedDown /\ Measured

LayoutInv == TypeOK /\ (~wrapped => Exact)

-----------------------------------------------------------------------------
\* What the code's masks do to an address.
LEMMA Rounding ==
    ASSUME NEW x \in Nat
    PROVE  /\ DownTo(x, 1024) \in Nat /\ DownTo(x, 32) \in Nat
           /\ x - 1023 <= DownTo(x, 1024) /\ DownTo(x, 1024) <= x
           /\ x - 31 <= DownTo(x, 32) /\ DownTo(x, 32) <= x
<1>1. x % 1024 \in 0..1023 /\ x % 1024 <= x
  BY SMT
<1>2. x % 32 \in 0..31 /\ x % 32 <= x
  BY SMT
<1> QED
  BY <1>1, <1>2, SMT DEF DownTo

\* What a register keeps: a natural number, and all of one that fits.
LEMMA KeptNat ==
    ASSUME NEW x \in Int
    PROVE  /\ Kept(x) \in Nat
           /\ x \in Nat /\ x < Word => Kept(x) = x
BY LayoutAssumption, SMT DEF Kept

(* The space of a pool, number times size, is a natural number. *)
LEMMA ProductNat ==
    ASSUME NEW a \in Nat, NEW b \in Nat
    PROVE  a * b \in Nat
BY SMT

\* The types of what is computed from the arguments.
LEMMA Computed ==
    ASSUME TypeOK
    PROVE  /\ reg.start \in Nat /\ reg.length \in Nat
           /\ \A p \in Pool : table[p] \in Nat /\ PoolBytes(p) \in Nat
           /\ ControlSize \in Nat /\ number * InfoBytes \in Nat
           /\ RoundedStart \in Nat /\ BlockStart \in Nat
           /\ Shift \in Nat /\ RoundedLength \in Int
<1>1. reg.start \in Nat /\ reg.length \in Nat
  BY LayoutAssumption DEF TypeOK
<1>2. \A p \in Pool : table[p] \in Nat /\ BlockBytes[p] \in Nat
  BY LayoutAssumption DEF TypeOK
<1>3. \A p \in Pool : PoolBytes(p) \in Nat
  BY <1>2, ProductNat DEF PoolBytes
<1>4. number * InfoBytes \in Nat
  BY LayoutAssumption, ProductNat DEF TypeOK
<1>5. ControlSize \in Nat
  BY <1>4, LayoutAssumption DEF ControlSize
<1>6. /\ Kept(reg.start + ControlSize + 4095) \in Nat
      /\ Kept(reg.start + AreaBytes + 31) \in Nat
  BY <1>1, <1>5, LayoutAssumption, KeptNat
<1>7. RoundedStart \in Nat /\ BlockStart \in Nat
  BY <1>6, Rounding DEF RoundedStart, BlockStart
<1>8. Shift \in Nat
  BY <1>1, <1>7, KeptNat DEF Shift
<1>9. RoundedLength \in Int
  BY <1>1, <1>8 DEF RoundedLength
<1> QED
  BY <1>1, <1>2, <1>3, <1>4, <1>5, <1>7, <1>8, <1>9

\* Where the first rounding does not wrap, the infos end before the pools
\* begin, and the slack is less than a page.
LEMMA Slack ==
    ASSUME TypeOK, reg.start + ControlSize + 4095 < Word
    PROVE  /\ reg.start + AreaBytes <= BlockStart
           /\ BlockStart + number * InfoBytes <= RoundedStart
           /\ RoundedStart <= reg.start + ControlSize + 4095
           /\ Shift = RoundedStart - reg.start
<1> DEFINE x == reg.start + ControlSize + 4095
           y == reg.start + AreaBytes + 31
<1>1. /\ x \in Nat /\ y \in Nat /\ y <= x
      /\ reg.start \in Nat /\ ControlSize \in Nat /\ number * InfoBytes \in Nat
      /\ ControlSize = number * InfoBytes + AreaBytes
  BY Computed, LayoutAssumption DEF ControlSize
<1>2. Word \in Nat /\ x < Word /\ y < Word
  BY <1>1, LayoutAssumption
<1>3. Kept(x) = x /\ Kept(y) = y
  BY <1>1, <1>2, KeptNat
<1>4. RoundedStart = DownTo(x, 1024) /\ BlockStart = DownTo(y, 32)
  BY <1>3 DEF RoundedStart, BlockStart
<1>5. x - 1023 <= DownTo(x, 1024) /\ DownTo(x, 1024) <= x /\ DownTo(x, 1024) \in Nat
  BY <1>1, Rounding
<1>6. y - 31 <= DownTo(y, 32) /\ DownTo(y, 32) <= y /\ DownTo(y, 32) \in Nat
  BY <1>1, Rounding
<1>7. /\ reg.start + AreaBytes <= BlockStart
      /\ BlockStart + number * InfoBytes <= RoundedStart
      /\ RoundedStart <= x /\ reg.start <= RoundedStart
  BY <1>1, <1>4, <1>5, <1>6, LayoutAssumption
<1>8. RoundedStart - reg.start \in Nat /\ RoundedStart - reg.start < Word
  BY <1>1, <1>2, <1>4, <1>5, <1>7
<1>9. Shift = RoundedStart - reg.start
  BY <1>8, KeptNat DEF Shift
<1> QED
  BY <1>7, <1>9

-----------------------------------------------------------------------------
(* The invariant holds before the first turn of a loop. *)
LEMMA InitInv == Init => LayoutInv
<1> SUFFICES ASSUME Init PROVE LayoutInv
  OBVIOUS
<1>1. TypeOK
  <2>1. reg \in Regions /\ table \in Tables /\ i \in 0..NPool /\ ppool \in Nat
    BY LayoutAssumption DEF Init
  <2>2. bytes \in [0..NPool -> Nat] /\ head \in [Pool -> Nat]
    BY DEF Init
  <2>3. number \in Nat /\ wrapped \in BOOLEAN /\ stage = "sum"
    BY DEF Init
  <2> QED
    BY <2>1, <2>2, <2>3 DEF TypeOK
<1>2. SumsRight
  BY LayoutAssumption DEF Init, SumsRight, Summed, Pool
<1>3. CarvedRight /\ TurnedDown /\ Measured
  BY DEF Init, CarvedRight, TurnedDown, Measured
<1> QED
  BY <1>1, <1>2, <1>3 DEF LayoutInv, Exact

\* The turn for pool i adds one partial sum and leaves the earlier ones alone.
LEMMA SumInv ==
    ASSUME LayoutInv, Sum
    PROVE  LayoutInv'
<1>1. /\ NPool \in Nat /\ i \in Nat /\ i < NPool
      /\ i \in Pool /\ i \in 0..NPool /\ i + 1 \in 0..NPool
  BY LayoutAssumption DEF Sum, LayoutInv, TypeOK, Pool
<1>2. table[i] \in Nat /\ PoolBytes(i) \in Nat
  BY <1>1, Computed DEF LayoutInv
<1>3. /\ bytes \in [0..NPool -> Nat] /\ bytes[i] \in Nat
      /\ number \in Nat /\ wrapped \in BOOLEAN
  BY <1>1 DEF LayoutInv, TypeOK
<1> DEFINE more == Kept(bytes[i] + PoolBytes(i))
<1>4. more \in Nat /\ Kept(number + table[i]) \in Nat
  <2>1. bytes[i] + PoolBytes(i) \in Int /\ number + table[i] \in Int
    BY <1>2, <1>3
  <2> QED
    BY <2>1, KeptNat
<1>5. bytes' = [bytes EXCEPT ![i + 1] = more]
  BY DEF Sum
<1> HIDE DEF more
<1>6. /\ bytes' \in [0..NPool -> Nat]
      /\ bytes'[i + 1] = more
      /\ \A p \in 0..NPool : p # i + 1 => bytes'[p] = bytes[p]
  BY <1>1, <1>3, <1>4, <1>5
<1>7. TypeOK'
  <2>1. wrapped' \in BOOLEAN
    BY <1>3 DEF Sum, Wraps
  <2> QED
    BY <1>1, <1>4, <1>6, <2>1 DEF Sum, LayoutInv, TypeOK
<1>8. ASSUME ~wrapped'
      PROVE  Exact'
  <2>1. ~wrapped /\ ~(bytes[i] + PoolBytes(i) >= Word)
    BY <1>8 DEF Sum, Wraps
  <2>2. more = bytes[i] + PoolBytes(i)
    <3>1. bytes[i] + PoolBytes(i) \in Nat /\ bytes[i] + PoolBytes(i) < Word
      BY <1>2, <1>3, <2>1, LayoutAssumption
    <3> QED
      BY <3>1, KeptNat DEF more
  <2>3. Exact
    BY <2>1 DEF LayoutInv
  <2>4. /\ \A p \in Pool : p < i => bytes[p + 1] = bytes[p] + PoolBytes(p)
        /\ \A p, q \in 0..NPool : p <= q /\ q <= i => bytes[p] <= bytes[q]
        /\ bytes[0] = 0
    BY <2>3 DEF Sum, Exact, SumsRight, Summed
  <2>5. ASSUME NEW p \in Pool, p < i + 1
        PROVE  bytes'[p + 1] = bytes'[p] + PoolBytes(p)
    <3>1. p \in Nat /\ p \in 0..NPool /\ p + 1 \in 0..NPool /\ p # i + 1
      BY <1>1, <2>5 DEF Pool
    <3>2. bytes'[p] = bytes[p]
      BY <3>1, <1>6
    <3>3. CASE p = i
      BY <3>2, <3>3, <1>6, <2>2
    <3>4. CASE p # i
      BY <1>1, <1>6, <2>4, <2>5, <3>1, <3>2, <3>4
    <3> QED
      BY <3>3, <3>4
  <2>6. ASSUME NEW p \in 0..NPool, NEW q \in 0..NPool, p <= q, q <= i + 1
        PROVE  bytes'[p] <= bytes'[q]
    <3>1. bytes'[p] \in Nat
      BY <1>6
    <3>2. CASE q = i + 1 /\ p = i + 1
      BY <3>1, <3>2
    <3>3. CASE q = i + 1 /\ p # i + 1
      <4>1. bytes[p] <= bytes[i] /\ bytes'[p] = bytes[p] /\ bytes[p] \in Nat
        BY <1>1, <1>3, <1>6, <2>4, <2>6, <3>3
      <4> QED
        BY <4>1, <1>2, <1>3, <1>6, <2>2, <3>3
    <3>4. CASE q # i + 1
      BY <1>1, <1>6, <2>4, <2>6, <3>4
    <3> QED
      BY <3>2, <3>3, <3>4
  <2>7. Summed' = i + 1 /\ \A p \in Pool : PoolBytes(p)' = PoolBytes(p)
    BY DEF Sum, Summed, PoolBytes
  <2>8. bytes'[0] = 0
    BY <1>1, <1>6, <2>4
  <2>9. SumsRight'
    BY <1>6, <2>5, <2>6, <2>7, <2>8 DEF SumsRight
  <2>10. CarvedRight' /\ TurnedDown' /\ Measured'
    BY DEF Sum, CarvedRight, TurnedDown, Measured
  <2> QED
    BY <2>9, <2>10 DEF Exact
<1> QED
  BY <1>7, <1>8 DEF LayoutInv

(* The measuring of the region, refused or not, keeps the invariant. *)
LEMMA MeasureInv ==
    ASSUME LayoutInv, Measure
    PROVE  LayoutInv'
<1>1. /\ RoundedStart' = RoundedStart /\ RoundedLength' = RoundedLength
      /\ ControlSize' = ControlSize
  BY DEF Measure, RoundedStart, RoundedLength, Shift, ControlSize
<1>2. /\ NPool \in Nat /\ 0 \in 0..NPool
      /\ RoundedStart \in Nat /\ RoundedLength \in Int
      /\ reg.length \in Nat /\ Shift \in Nat /\ ControlSize \in Nat /\ reg.start \in Nat
  BY Computed, LayoutAssumption DEF LayoutInv
<1>3. TypeOK'
  BY <1>2 DEF Measure, Wraps, LayoutInv, TypeOK
<1>4. bytes \in [0..NPool -> Nat] /\ bytes[NPool] \in Nat
  BY <1>2 DEF LayoutInv, TypeOK
<1>5. ASSUME ~wrapped'
      PROVE  Exact'
  <2>1. Exact /\ reg.start + ControlSize + 4095 < Word
    <3> DEFINE x == reg.start + ControlSize + 4095
    <3>1. Wraps({x})
      BY DEF Measure
    <3> HIDE DEF x
    <3>3. ~wrapped /\ ~(x >= Word)
      BY <1>5, <3>1 DEF Wraps
    <3>4. Exact
      BY <3>3 DEF LayoutInv
    <3>2. Word \in Nat
      BY LayoutAssumption
    <3> QED
      BY <1>2, <3>2, <3>3, <3>4 DEF x
  <2>2. SumsRight'
    BY <2>1 DEF Measure, Exact, SumsRight, Summed, PoolBytes
  <2>3. stage' = "carve" => bytes[NPool] <= RoundedLength
    BY <1>2, <1>4 DEF Measure
  <2>4. bytes[0] = 0
    BY <2>1 DEF Exact, SumsRight
  <2>5. CarvedRight'
    BY <1>1, <1>2, <1>4, <2>3, <2>4 DEF Measure, CarvedRight, NonEmpty, Pool
  <2>6. TurnedDown'
    BY <1>1, <1>2, <1>4 DEF Measure, TurnedDown, RoundedLength
  <2>7. Measured'
    BY <1>1, <2>1 DEF Measure, Measured
  <2> QED
    BY <2>2, <2>5, <2>6, <2>7 DEF Exact
<1> QED
  BY <1>3, <1>5 DEF LayoutInv

\* Pool i gets the address its partial sum says; empty pools get none.
LEMMA CarveInv ==
    ASSUME LayoutInv, Carve
    PROVE  LayoutInv'
<1>1. /\ NPool \in Nat /\ i \in Nat /\ i < NPool
      /\ i \in Pool /\ i \in 0..NPool /\ i + 1 \in 0..NPool
  BY LayoutAssumption DEF Carve, LayoutInv, TypeOK, Pool
<1>2. PoolBytes(i) \in Nat /\ RoundedStart \in Nat
  BY <1>1, Computed DEF LayoutInv
<1>3. /\ RoundedStart' = RoundedStart /\ RoundedLength' = RoundedLength
      /\ NonEmpty' = NonEmpty /\ ControlSize' = ControlSize
  BY DEF Carve, RoundedStart, RoundedLength, Shift, ControlSize, NonEmpty
<1>4. /\ bytes \in [0..NPool -> Nat] /\ bytes[i] \in Nat
      /\ ppool \in Nat /\ wrapped \in BOOLEAN
  BY <1>1 DEF LayoutInv, TypeOK
<1>5. head' \in [Pool -> Nat] /\ \A p \in NonEmpty : head'[p] = IF p = i THEN ppool ELSE head[p]
  BY <1>1, <1>4 DEF Carve, LayoutInv, TypeOK, NonEmpty
<1>6. Kept(ppool + PoolBytes(i)) \in Nat
  BY <1>2, <1>4, KeptNat
<1>7. TypeOK'
  <2>1. stage' \in {"carve", "failed"} /\ i' \in 0..NPool /\ ppool' \in Nat
    BY <1>1, <1>4, <1>6 DEF Carve
  <2>2. wrapped' \in BOOLEAN
    BY <1>4 DEF Carve, Wraps
  <2> QED
    BY <1>5, <2>1, <2>2 DEF Carve, LayoutInv, TypeOK
<1>8. ASSUME ~wrapped'
      PROVE  Exact'
  <2>1. Exact
    BY <1>8 DEF Carve, Wraps, LayoutInv
  <2>2. SumsRight'
    BY <2>1 DEF Carve, Exact, SumsRight, Summed, PoolBytes
  <2>3. CarvedRight'
    <3>1. CASE Negative(PoolBytes(i))
      BY <3>1 DEF Carve, CarvedRight
    <3>2. CASE ~Negative(PoolBytes(i))
      <4>1. ppool + PoolBytes(i) < Word
        <5>1. ~(ppool + PoolBytes(i) >= Word)
          BY <1>8, <3>2 DEF Carve, Wraps
        <5>2. Word \in Nat
          BY LayoutAssumption
        <5> QED
          BY <1>2, <1>4, <5>1, <5>2
      <4>2. i' = i + 1 /\ ppool' = ppool + PoolBytes(i) /\ stage' = "carve"
        BY <1>2, <1>4, <3>2, <4>1, KeptNat DEF Carve
      <4>3. bytes[i + 1] = bytes[i] + PoolBytes(i)
        BY <1>1, <2>1 DEF Carve, Exact, SumsRight, Summed
      <4>4. bytes[NPool] <= RoundedLength /\ ppool = RoundedStart + bytes[i]
        BY <2>1 DEF Carve, Exact, CarvedRight
      <4>5. ppool' = RoundedStart + bytes[i + 1]
        BY <1>2, <1>4, <4>2, <4>3, <4>4
      <4>6. \A p \in NonEmpty : p < i => head[p] = RoundedStart + bytes[p]
        BY <2>1 DEF Carve, Exact, CarvedRight
      <4>7. \A p \in NonEmpty : p < i + 1 => head'[p] = RoundedStart + bytes[p]
        BY <1>1, <1>5, <4>4, <4>6 DEF NonEmpty, Pool
      <4>8. bytes' = bytes
        BY DEF Carve
      <4> QED
        BY <1>3, <4>2, <4>4, <4>5, <4>7, <4>8 DEF CarvedRight
    <3> QED
      BY <3>1, <3>2
  <2>4. TurnedDown' /\ Measured'
    BY <1>3, <2>1 DEF Carve, Exact, TurnedDown, Measured
  <2> QED
    BY <2>2, <2>3, <2>4 DEF Exact
<1> QED
  BY <1>7, <1>8 DEF LayoutInv

(* The end of the carving keeps the invariant. *)
LEMMA PlaceInv ==
    ASSUME LayoutInv, Place
    PROVE  LayoutInv'
<1>1. TypeOK'
  BY DEF Place, LayoutInv, TypeOK
<1>2. ASSUME Exact
      PROVE  Exact'
  BY <1>2 DEF Place, Exact, SumsRight, Summed, PoolBytes, CarvedRight, TurnedDown,
      Measured, NonEmpty, RoundedLength, Shift, RoundedStart, ControlSize
<1> QED
  BY <1>1, <1>2 DEF Place, LayoutInv

\* The sums the loops build and the addresses they give agree at every step
\* of mod_mem_init, until a sum wraps.
THEOREM LayoutInductive == Spec => []LayoutInv
<1>1. LayoutInv /\ [Next]_vars => LayoutInv'
  <2> SUFFICES ASSUME LayoutInv, [Next]_vars PROVE LayoutInv'
    OBVIOUS
  <2>1. CASE Sum
    BY <2>1, SumInv
  <2>2. CASE Measure
    BY <2>2, MeasureInv
  <2>3. CASE Carve
    BY <2>3, CarveInv
  <2>4. CASE Place
    BY <2>4, PlaceInv
  <2>5. CASE UNCHANGED vars
    BY <2>5 DEF vars, LayoutInv, Exact, TypeOK, SumsRight, Summed, CarvedRight,
        TurnedDown, Measured, NonEmpty, PoolBytes, RoundedLength, Shift,
        RoundedStart, ControlSize
  <2> QED
    BY <2>1, <2>2, <2>3, <2>4, <2>5 DEF Next
<1> QED
  BY InitInv, <1>1, PTL DEF Spec

-----------------------------------------------------------------------------
(* Of a region that is laid out, the invariant says what LayoutSound does. *)
LEMMA InvSound == LayoutInv => LayoutSound
<1> SUFFICES ASSUME LayoutInv, stage = "placed", ~wrapped PROVE LayoutSound
  BY DEF LayoutSound
<1> USE DEF LayoutInv, Exact
<1>1. NPool \in Nat /\ \A p \in NonEmpty : p \in Pool /\ p \in 0..NPool /\ p + 1 \in 0..NPool /\ p < NPool
  BY LayoutAssumption DEF NonEmpty, Pool
<1>2. /\ bytes[NPool] <= RoundedLength
      /\ \A p \in NonEmpty : head[p] = RoundedStart + bytes[p]
  BY <1>1 DEF CarvedRight
<1>3. /\ \A p \in NonEmpty : bytes[p + 1] = bytes[p] + PoolBytes(p)
      /\ \A p, q \in 0..NPool : p <= q => bytes[p] <= bytes[q]
  BY <1>1 DEF SumsRight, Summed
<1>4. \A p \in 0..NPool : bytes[p] \in Nat
  BY DEF TypeOK
<1>5. /\ RoundedStart \in Nat /\ BlockStart \in Nat /\ number * InfoBytes \in Nat
      /\ reg.start \in Nat /\ reg.length \in Nat
      /\ \A p \in NonEmpty : PoolBytes(p) \in Nat
  BY <1>1, Computed
<1>6. /\ reg.start + AreaBytes <= BlockStart
      /\ BlockStart + number * InfoBytes <= RoundedStart
      /\ Shift = RoundedStart - reg.start
  BY Slack DEF Measured
<1>7. ASSUME NEW p \in NonEmpty
      PROVE  BlockStart + number * InfoBytes <= head[p]
  BY <1>1, <1>2, <1>4, <1>5, <1>6
<1>8. ASSUME NEW p \in NonEmpty
      PROVE  head[p] + PoolBytes(p) <= reg.start + reg.length
  <2>1. bytes[p + 1] <= bytes[NPool]
    BY <1>1, <1>3
  <2> QED
    BY <1>1, <1>2, <1>3, <1>4, <1>5, <1>6, <2>1 DEF RoundedLength
<1>9. ASSUME NEW p \in NonEmpty, NEW q \in NonEmpty, p < q
      PROVE  head[p] + PoolBytes(p) <= head[q]
  <2>1. bytes[p + 1] <= bytes[q]
    BY <1>1, <1>3, <1>9
  <2> QED
    BY <1>1, <1>2, <1>3, <1>4, <1>5, <2>1
<1> QED
  BY <1>6, <1>7, <1>8, <1>9 DEF LayoutSound

(* Of a region that is refused, it says what RefusalsJust does. *)
LEMMA InvJust == LayoutInv => RefusalsJust
<1> SUFFICES ASSUME LayoutInv, stage \in {"bug", "refused"}, ~wrapped PROVE RefusalsJust
  BY DEF RefusalsJust
<1>1. RoundedLength <= 0 \/ RoundedLength < bytes[NPool]
  BY DEF LayoutInv, Exact, TurnedDown
<1>2. NPool \in 0..NPool
  BY LayoutAssumption
<1>3. bytes[NPool] \in Nat
  BY <1>2 DEF LayoutInv, TypeOK
<1>4. /\ RoundedStart \in Nat /\ ControlSize \in Nat
      /\ reg.start \in Nat /\ reg.length \in Nat
  BY Computed DEF LayoutInv
<1>5. /\ RoundedStart <= reg.start + ControlSize + 4095
      /\ Shift = RoundedStart - reg.start
  BY Slack DEF LayoutInv, Exact, Measured
<1> QED
  BY <1>1, <1>3, <1>4, <1>5 DEF RefusalsJust, RoundedLength

\* Whatever the pool table, the region and the sizes of the structures: infos
\* and pools that mod_init lays out never overlap or leave the region, unless
\* one of its 32-bit sums wrapped.
THEOREM LayoutCorrect == Spec => []LayoutSound
BY LayoutInductive, InvSound, PTL

\* And unless one did, mod_mem_init turns down a region only if a page or less
\* is spare.
THEOREM RefusalsCorrect == Spec => []RefusalsJust
BY LayoutInductive, InvJust, PTL
=============================================================================
