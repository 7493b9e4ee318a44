---------------------------- MODULE ModListProofs ----------------------------
(***************************************************************************)
(* Proofs about ModList, for every set of nodes and every order in which   *)
(* they are first pushed.                                                  *)
(***************************************************************************)
EXTENDS ModList, FiniteSetTheorems, SequenceTheorems, WellFoundedInduction, TLAPS

(* Induction on a set of naturals: a least number outside T would have its    *)
(* predecessor in T.                                                          *)
LEMMA InductionOnSets ==
    ASSUME NEW T \in SUBSET Nat, 0 \in T, \A n \in T : n + 1 \in T
    PROVE  T = Nat
<1>1. SUFFICES ASSUME Nat \ T # {} PROVE FALSE
  OBVIOUS
<1> DEFINE F == {0..k : k \in Nat \ T}
           R == StrictSubsetOrdering(Nat)
<1>2. F # {} /\ F \subseteq FiniteSubsetsOf(Nat)
  <2>1. ASSUME NEW k \in Nat PROVE 0..k \in SUBSET Nat /\ IsFiniteSet(0..k)
    <3>1. 0 \in Int /\ k \in Int
      OBVIOUS
    <3> QED  BY <3>1, FS_Interval
  <2> QED  BY <1>1, <2>1 DEF FiniteSubsetsOf
<1>3. IsWellFoundedOn(R, FiniteSubsetsOf(Nat))
  BY FS_StrictSubsetOrderingWellFounded
<1> HIDE DEF R
<1>4. PICK s \in F : \A r \in F : ~ (<<r, s>> \in R)
  <2> HIDE DEF F
  <2> QED  BY <1>2, <1>3, WFMin
<1>5. PICK k \in Nat \ T : s = 0..k
  OBVIOUS
<1>6. k - 1 \in Nat \ T
  BY <1>5
<1>7. <<0..(k - 1), 0..k>> \in R
  <2>1. 0..(k - 1) \subseteq 0..k /\ k \in 0..k /\ k \notin 0..(k - 1)
    BY <1>5
  <2>2. 0..(k - 1) \in SUBSET Nat /\ 0..k \in SUBSET Nat
    BY <1>5
  <2>3. 0..(k - 1) # 0..k
    BY <2>1
  <2> QED  BY <2>1, <2>2, <2>3 DEF R, StrictSubsetOrdering
<1> QED  BY <1>4, <1>5, <1>6, <1>7

-----------------------------------------------------------------------------
(* Walking along a list. *)

N == Cardinality(Node)

\* The pointers have their types.
PtrOK(m) ==
    m \in [next : [Node -> Node \cup {Nil}], prev : [Node -> Node \cup {Nil}],
           head : [List -> Node \cup {Nil}], number : [List -> Nat], ok : BOOLEAN]

\* The pointers of list l go through the nodes of s, there and back.
Chain(m, l, s) ==
    /\ s \in Seq(Node)
    /\ \A i, j \in 1..Len(s) : s[i] = s[j] => i = j
    /\ m.number[l] = Len(s)
    /\ m.head[l] = IF Len(s) = 0 THEN Nil ELSE s[1]
    /\ \A i \in 1..Len(s) :
           /\ m.next[s[i]] = IF i = Len(s) THEN Nil ELSE s[i + 1]
           /\ m.prev[s[i]] = IF i = 1 THEN Nil ELSE s[i - 1]

Nodes(s) == {s[i] : i \in 1..Len(s)}

(* Small facts about numbers, for lengths of sequences.                       *)
LEMMA SmallNumbers ==
    \A k \in Nat \ {0} : k = 1 \/ (k # 1 /\ k > 1 /\ 1 \in 1..(k - 1) /\ 2 \in 1..k)
OBVIOUS

(* A sequence with a later place has more than one.                           *)
LEMMA LaterPlaces ==
    \A k \in Nat : \A i \in 1..k : i # 1 => 1 < i /\ k \in Nat \ {0} /\ k # 1
OBVIOUS

(* There is a number of nodes, and the null pointer is none of them.          *)
LEMMA NodeFacts == N \in Nat /\ Nil \notin Node
BY ListAssumption, FS_CardinalityType DEF N

(* The walk of remove_list_entry meets the nodes of the list in their order,  *)
(* and then a null pointer.                                                   *)
LEMMA WalkFollows ==
    ASSUME NEW m, NEW l, NEW s, Chain(m, l, s), Len(s) <= N
    PROVE  Walk(m, l) = [k \in 0..N |-> IF k < Len(s) THEN s[k + 1] ELSE Nil]
<1> DEFINE W == [k \in 0..N |-> IF k < Len(s) THEN s[k + 1] ELSE Nil]
           Go(f) == [k \in 0..N |-> IF k = 0 THEN m.head[l]
                                    ELSE IF f[k - 1] = Nil THEN Nil ELSE m.next[f[k - 1]]]
<1>1. s \in Seq(Node) /\ Len(s) \in Nat /\ N \in Nat /\ Nil \notin Node
  BY NodeFacts DEF Chain
<1>2. \A i \in 1..Len(s) : s[i] \in Node
  BY <1>1
<1>3. W = Go(W)
  <2>1. ASSUME NEW k \in 0..N
        PROVE  W[k] = IF k = 0 THEN m.head[l]
                      ELSE IF W[k - 1] = Nil THEN Nil ELSE m.next[W[k - 1]]
    <3>1. CASE k = 0
      BY <1>1, <3>1 DEF Chain
    <3>2. CASE k # 0 /\ k <= Len(s)
      <4>1. k \in 1..Len(s) /\ k - 1 \in 0..N /\ W[k - 1] = s[k] /\ s[k] \in Node
        BY <1>1, <1>2, <3>2
      <4>2. m.next[s[k]] = IF k = Len(s) THEN Nil ELSE s[k + 1]
        BY <4>1 DEF Chain
      <4> QED  BY <1>1, <3>2, <4>1, <4>2
    <3>3. CASE k # 0 /\ k > Len(s)
      BY <1>1, <3>3
    <3> QED  BY <1>1, <3>1, <3>2, <3>3
  <2> QED  BY <2>1
<1>4. Walk(m, l) = CHOOSE f : f = Go(f)
  BY DEF Walk, N
<1> HIDE DEF W, Go
<1>5. Walk(m, l) = Go(Walk(m, l))
  BY <1>3, <1>4
<1> DEFINE T == {k \in Nat : k \in 0..N => Walk(m, l)[k] = W[k]}
<1>6. T = Nat
  <2>1. 0 \in T
    BY <1>1, <1>3, <1>5 DEF Go
  <2>2. ASSUME NEW k \in T PROVE k + 1 \in T
    <3>1. k + 1 \in 0..N => k \in 0..N /\ k + 1 # 0 /\ (k + 1) - 1 = k
      BY <1>1
    <3> QED  BY <1>3, <1>5, <3>1 DEF Go
  <2> HIDE DEF T
  <2>3. T \in SUBSET Nat
    BY DEF T
  <2> QED  BY <2>1, <2>2, <2>3, InductionOnSets
<1>7. \A k \in 0..N : Walk(m, l)[k] = W[k]
  BY <1>1, <1>6
<1>8. Walk(m, l) = [k \in 0..N |-> Walk(m, l)[k]]
  BY <1>5 DEF Go
<1>9. W = [k \in 0..N |-> W[k]]
  BY DEF W
<1> QED  BY <1>7, <1>8, <1>9 DEF W

(* A node is met if and only if it is on the list. *)
LEMMA WalkMeets ==
    ASSUME NEW m, NEW l, NEW s, Chain(m, l, s), Len(s) <= N, NEW n \in Node
    PROVE  OnList(m, l, n) <=> n \in Nodes(s)
<1>1. Walk(m, l) = [k \in 0..N |-> IF k < Len(s) THEN s[k + 1] ELSE Nil]
  BY WalkFollows
<1>2. N \in Nat /\ Nil \notin Node /\ Len(s) \in Nat
  BY NodeFacts DEF Chain
<1>3. ASSUME OnList(m, l, n) PROVE n \in Nodes(s)
  <2>1. PICK k \in 0..N : n = IF k < Len(s) THEN s[k + 1] ELSE Nil
    BY <1>1, <1>3 DEF OnList
  <2>2. k + 1 \in 1..Len(s) /\ n = s[k + 1]
    BY <1>2, <2>1
  <2> QED  BY <2>2 DEF Nodes
<1>4. ASSUME n \in Nodes(s) PROVE OnList(m, l, n)
  <2>1. PICK i \in 1..Len(s) : n = s[i]
    BY <1>4 DEF Nodes
  <2>2. i - 1 \in 0..N /\ i - 1 < Len(s) /\ (i - 1) + 1 = i
    BY <1>2
  <2>3. i - 1 \in DOMAIN Walk(m, l) /\ Walk(m, l)[i - 1] = n
    BY <1>1, <2>1, <2>2
  <2> QED  BY <2>3 DEF OnList
<1> QED  BY <1>3, <1>4

-----------------------------------------------------------------------------
(* What the list functions do to the pointers. *)

(* add_list_head writes two nodes, the head and the count.                    *)
LEMMA AddHeadFields ==
    ASSUME NEW m, PtrOK(m), NEW l \in List, NEW n \in Node, NEW r, r = AddHead(m, l, n)
    PROVE  /\ PtrOK(r)
           /\ \A x \in Node : /\ r.next[x] = IF x = n THEN m.head[l] ELSE m.next[x]
                              /\ r.prev[x] = IF x = n THEN Nil
                                             ELSE IF x = m.head[l] THEN n ELSE m.prev[x]
           /\ \A k \in List : k # l => r.head[k] = m.head[k] /\ r.number[k] = m.number[k]
           /\ r.head[l] = n /\ r.number[l] = m.number[l] + 1
           /\ r.ok = m.ok
<1> DEFINE nx == [m.next EXCEPT ![n] = m.head[l]]
           pv == [x \in Node |-> IF x = n THEN Nil
                                 ELSE IF x = m.head[l] THEN n ELSE m.prev[x]]
           hd == [m.head EXCEPT ![l] = n]
           nr == [m.number EXCEPT ![l] = @ + 1]
<1>1. r = [next |-> nx, prev |-> pv, head |-> hd, number |-> nr, ok |-> m.ok]
  <2> DEFINE q == [m EXCEPT !.next[n] = m.head[l]]
  <2>1. q = [next |-> nx, prev |-> m.prev, head |-> m.head, number |-> m.number, ok |-> m.ok]
    BY DEF PtrOK
  <2> DEFINE w == [q EXCEPT !.prev = [x \in Node |-> IF x = n THEN Nil
                                                     ELSE IF x = m.head[l] THEN n ELSE @[x]]]
  <2>2. r = [w EXCEPT !.head[l] = n, !.number[l] = @ + 1]
    BY DEF AddHead
  <2> HIDE DEF q, nx
  <2>3. w = [next |-> nx, prev |-> pv, head |-> m.head, number |-> m.number, ok |-> m.ok]
    BY <2>1
  <2> HIDE DEF w, pv
  <2> QED  BY <2>2, <2>3
<1>2. /\ nx \in [Node -> Node \cup {Nil}] /\ pv \in [Node -> Node \cup {Nil}]
      /\ hd \in [List -> Node \cup {Nil}] /\ nr \in [List -> Nat] /\ m.ok \in BOOLEAN
  <2>1. m.head[l] \in Node \cup {Nil}
    BY DEF PtrOK
  <2>2. nx \in [Node -> Node \cup {Nil}]
    BY <2>1 DEF PtrOK
  <2>3. pv \in [Node -> Node \cup {Nil}]
    BY DEF PtrOK
  <2>4. hd \in [List -> Node \cup {Nil}] /\ nr \in [List -> Nat] /\ m.ok \in BOOLEAN
    BY DEF PtrOK
  <2> QED  BY <2>2, <2>3, <2>4
<1>3. /\ \A x \in Node : /\ nx[x] = IF x = n THEN m.head[l] ELSE m.next[x]
                         /\ pv[x] = IF x = n THEN Nil
                                    ELSE IF x = m.head[l] THEN n ELSE m.prev[x]
      /\ \A k \in List : k # l => hd[k] = m.head[k] /\ nr[k] = m.number[k]
      /\ hd[l] = n /\ nr[l] = m.number[l] + 1
  BY DEF PtrOK
<1> HIDE DEF nx, pv, hd, nr
<1>4. PtrOK(r)
  BY <1>1, <1>2 DEF PtrOK
<1> QED  BY <1>1, <1>3, <1>4

(* It keeps the types and asserts nothing.                                     *)
LEMMA AddHeadSound ==
    ASSUME NEW m, PtrOK(m), NEW l \in List, NEW n \in Node
    PROVE  PtrOK(AddHead(m, l, n)) /\ AddHead(m, l, n).ok = m.ok
BY AddHeadFields

(* remove_list_head writes the second node, the head and the count.           *)
LEMMA RemoveHeadFields ==
    ASSUME NEW m, PtrOK(m), NEW l \in List, m.number[l] # 0, m.head[l] # Nil,
           NEW q, q = m.next[m.head[l]], NEW r, r = RemoveHead(m, l)
    PROVE  /\ PtrOK(r)
           /\ \A x \in Node : /\ r.next[x] = m.next[x]
                              /\ r.prev[x] = IF x = q THEN Nil ELSE m.prev[x]
           /\ \A k \in List : k # l => r.head[k] = m.head[k] /\ r.number[k] = m.number[k]
           /\ r.head[l] = q /\ r.number[l] = m.number[l] - 1
           /\ q = Nil \/ m.number[l] > 1 => r.ok = m.ok
<1> DEFINE pv == [x \in Node |-> IF x = q THEN Nil ELSE m.prev[x]]
           hd == [m.head EXCEPT ![l] = q]
           nr == [m.number EXCEPT ![l] = @ - 1]
           ok == m.ok /\ (q = Nil \/ m.number[l] > 1)
<1>1. r = [next |-> m.next, prev |-> pv, head |-> hd, number |-> nr, ok |-> ok]
  BY DEF PtrOK, RemoveHead
<1>2. /\ m.next \in [Node -> Node \cup {Nil}] /\ pv \in [Node -> Node \cup {Nil}]
      /\ hd \in [List -> Node \cup {Nil}] /\ nr \in [List -> Nat] /\ ok \in BOOLEAN
  BY DEF PtrOK
<1>3. /\ \A x \in Node : pv[x] = IF x = q THEN Nil ELSE m.prev[x]
      /\ \A k \in List : k # l => hd[k] = m.head[k] /\ nr[k] = m.number[k]
      /\ hd[l] = q /\ nr[l] = m.number[l] - 1
      /\ q = Nil \/ m.number[l] > 1 => ok = m.ok
  BY DEF PtrOK
<1> HIDE DEF pv, hd, nr, ok
<1>4. PtrOK(r)
  BY <1>1, <1>2 DEF PtrOK
<1> QED  BY <1>1, <1>3, <1>4

(* remove_list_entry writes the two neighbours, or the head for one of them.  *)
LEMMA RemoveEntryFields ==
    ASSUME NEW m, PtrOK(m), NEW l \in List, NEW n \in Node,
           m.number[l] # 0, m.head[l] # Nil, OnList(m, l, n),
           NEW p, p = m.prev[n], NEW q, q = m.next[n], NEW r, r = RemoveEntry(m, l, n)
    PROVE  /\ PtrOK(r)
           /\ \A x \in Node : /\ r.next[x] = IF x = p THEN q ELSE m.next[x]
                              /\ r.prev[x] = IF x = q THEN p ELSE m.prev[x]
           /\ \A k \in List : k # l => r.head[k] = m.head[k] /\ r.number[k] = m.number[k]
           /\ r.head[l] = IF p = Nil THEN q ELSE m.head[l]
           /\ r.number[l] = m.number[l] - 1
           /\ q = Nil \/ m.number[l] > 1 => r.ok = m.ok
<1> DEFINE nx == [x \in Node |-> IF x = p THEN q ELSE m.next[x]]
           pv == [x \in Node |-> IF x = q THEN p ELSE m.prev[x]]
           hd == [m.head EXCEPT ![l] = IF p = Nil THEN q ELSE @]
           nr == [m.number EXCEPT ![l] = @ - 1]
           ok == m.ok /\ (q = Nil \/ m.number[l] > 1)
<1>1. r = [next |-> nx, prev |-> pv, head |-> hd, number |-> nr, ok |-> ok]
  BY DEF PtrOK, RemoveEntry
<1>2. /\ nx \in [Node -> Node \cup {Nil}] /\ pv \in [Node -> Node \cup {Nil}]
      /\ hd \in [List -> Node \cup {Nil}] /\ nr \in [List -> Nat] /\ ok \in BOOLEAN
  BY DEF PtrOK
<1>3. /\ \A x \in Node : /\ nx[x] = IF x = p THEN q ELSE m.next[x]
                         /\ pv[x] = IF x = q THEN p ELSE m.prev[x]
      /\ \A k \in List : k # l => hd[k] = m.head[k] /\ nr[k] = m.number[k]
      /\ hd[l] = IF p = Nil THEN q ELSE m.head[l]
      /\ nr[l] = m.number[l] - 1
      /\ q = Nil \/ m.number[l] > 1 => ok = m.ok
  BY DEF PtrOK
<1> HIDE DEF nx, pv, hd, nr, ok
<1>4. PtrOK(r)
  BY <1>1, <1>2 DEF PtrOK
<1> QED  BY <1>1, <1>3, <1>4

(* A chain that a step does not touch stays one. *)
LEMMA ChainStays ==
    ASSUME NEW m, NEW r, NEW k \in List, NEW s, Chain(m, k, s),
           r.number[k] = m.number[k], r.head[k] = m.head[k],
           \A x \in Nodes(s) : r.next[x] = m.next[x] /\ r.prev[x] = m.prev[x]
    PROVE  Chain(r, k, s)
BY DEF Chain, Nodes

(* add_list_head puts its node in front. *)
LEMMA PushChain ==
    ASSUME NEW m, PtrOK(m), NEW l \in List, NEW s, Chain(m, l, s), NEW n \in Node \ Nodes(s)
    PROVE  Chain(AddHead(m, l, n), l, <<n>> \o s)
<1> DEFINE r == AddHead(m, l, n)
           u == <<n>> \o s
<1>1. /\ \A x \in Node : /\ r.next[x] = IF x = n THEN m.head[l] ELSE m.next[x]
                         /\ r.prev[x] = IF x = n THEN Nil
                                        ELSE IF x = m.head[l] THEN n ELSE m.prev[x]
      /\ \A k \in List : k # l => r.head[k] = m.head[k] /\ r.number[k] = m.number[k]
      /\ r.head[l] = n /\ r.number[l] = m.number[l] + 1
  BY AddHeadFields
<1>2. /\ s \in Seq(Node) /\ Len(s) \in Nat
      /\ m.next \in [Node -> Node \cup {Nil}] /\ m.head \in [List -> Node \cup {Nil}]
      /\ m.number \in [List -> Nat] /\ Nil \notin Node
  BY NodeFacts DEF Chain, PtrOK
<1>3. /\ u \in Seq(Node) /\ Len(u) = Len(s) + 1 /\ u[1] = n
      /\ \A i \in 1..Len(s) : u[i + 1] = s[i]
      /\ \A i \in 2..Len(u) : u[i] = s[i - 1] /\ i - 1 \in 1..Len(s)
  BY <1>2
<1> HIDE DEF r, u
<1>4. \A i \in 1..Len(s) : s[i] \in Node /\ s[i] # n
  BY <1>2 DEF Nodes
<1>5. \A i, j \in 1..Len(u) : u[i] = u[j] => i = j
  <2>1. \A i \in 1..Len(u) : i = 1 \/ i \in 2..Len(u)
    BY <1>2, <1>3
  <2>2. \A i \in 2..Len(u) : u[i] # n
    BY <1>3, <1>4
  <2>3. \A i, j \in 2..Len(u) : u[i] = u[j] => i - 1 = j - 1
    BY <1>3 DEF Chain
  <2> QED  BY <1>2, <1>3, <2>1, <2>2, <2>3
<1>6. r.number[l] = Len(u) /\ r.head[l] = u[1] /\ Len(u) # 0
  BY <1>1, <1>2, <1>3 DEF Chain
<1>7. ASSUME NEW i \in 1..Len(u)
      PROVE  /\ r.next[u[i]] = IF i = Len(u) THEN Nil ELSE u[i + 1]
             /\ r.prev[u[i]] = IF i = 1 THEN Nil ELSE u[i - 1]
  <2>1. CASE i = 1
    <3>1. r.next[n] = m.head[l] /\ r.prev[n] = Nil
      BY <1>1, <1>2
    <3>2. m.head[l] = IF Len(s) = 0 THEN Nil ELSE s[1]
      BY DEF Chain
    <3>3. Len(s) # 0 => u[2] = s[1]
      BY <1>2, <1>3
    <3> QED  BY <1>2, <1>3, <2>1, <3>1, <3>2, <3>3
  <2>2. CASE i # 1
    <3>1. PICK j \in 1..Len(s) : j = i - 1 /\ u[i] = s[j] /\ i = j + 1
      BY <1>2, <1>3, <2>2
    <3>2. /\ m.next[s[j]] = IF j = Len(s) THEN Nil ELSE s[j + 1]
          /\ m.prev[s[j]] = IF j = 1 THEN Nil ELSE s[j - 1]
          /\ m.head[l] = s[1]
          /\ s[j] = s[1] => j = 1
      BY <1>2, <3>1 DEF Chain
    <3>3. r.next[s[j]] = m.next[s[j]]
      BY <1>1, <1>2, <1>4, <3>1
    <3>4. r.prev[s[j]] = IF j = 1 THEN n ELSE m.prev[s[j]]
      BY <1>1, <1>4, <3>1, <3>2
    <3>5. j # Len(s) => u[i + 1] = s[j + 1]
      BY <1>2, <1>3, <3>1
    <3>6. j # 1 => u[i - 1] = s[j - 1]
      BY <1>2, <1>3, <3>1
    <3> QED  BY <1>2, <1>3, <2>2, <3>1, <3>2, <3>3, <3>4, <3>5, <3>6
  <2> QED  BY <2>1, <2>2
<1>8. Chain(r, l, u)
  BY <1>3, <1>5, <1>6, <1>7 DEF Chain
<1> QED  BY <1>8 DEF r, u

(* The other list does not notice. *)
LEMMA PushOther ==
    ASSUME NEW m, PtrOK(m), NEW l \in List, NEW k \in List \ {l}, NEW s, NEW u,
           Chain(m, l, s), Chain(m, k, u), Nodes(s) \cap Nodes(u) = {},
           NEW n \in Node \ Nodes(u)
    PROVE  Chain(AddHead(m, l, n), k, u)
<1> DEFINE r == AddHead(m, l, n)
<1>1. /\ \A x \in Node : /\ r.next[x] = IF x = n THEN m.head[l] ELSE m.next[x]
                         /\ r.prev[x] = IF x = n THEN Nil
                                        ELSE IF x = m.head[l] THEN n ELSE m.prev[x]
      /\ \A h \in List : h # l => r.head[h] = m.head[h] /\ r.number[h] = m.number[h]
      /\ r.head[l] = n /\ r.number[l] = m.number[l] + 1
  BY AddHeadFields
<1>2. /\ m.next \in [Node -> Node \cup {Nil}] /\ m.head \in [List -> Node \cup {Nil}]
      /\ m.number \in [List -> Nat] /\ Nil \notin Node
      /\ Nodes(u) \subseteq Node
  BY NodeFacts DEF Chain, PtrOK, Nodes
<1>3. m.head[l] \notin Nodes(u)
  <2>1. CASE Len(s) = 0
    BY <1>2, <2>1 DEF Chain
  <2>2. CASE Len(s) # 0
    <3>1. 1 \in 1..Len(s) /\ m.head[l] = s[1]
      BY <2>2 DEF Chain
    <3> QED  BY <3>1 DEF Nodes
  <2> QED  BY <2>1, <2>2
<1> HIDE DEF r
<1>4. \A x \in Nodes(u) : r.next[x] = m.next[x] /\ r.prev[x] = m.prev[x]
  BY <1>1, <1>2, <1>3
<1>5. r.number[k] = m.number[k] /\ r.head[k] = m.head[k]
  BY <1>1, <1>2
<1> QED  BY <1>4, <1>5, ChainStays DEF r

(* remove_list_head leaves the rest of its list; neither assert fails.        *)
LEMMA PopChain ==
    ASSUME NEW m, PtrOK(m), NEW l \in List, NEW s, Chain(m, l, s), Len(s) # 0
    PROVE  /\ Chain(RemoveHead(m, l), l, Tail(s))
           /\ PtrOK(RemoveHead(m, l)) /\ RemoveHead(m, l).ok = m.ok
           /\ \A k \in List \ {l} : \A u :
                  Chain(m, k, u) /\ Nodes(s) \cap Nodes(u) = {} => Chain(RemoveHead(m, l), k, u)
<1>1. PICK r : r = RemoveHead(m, l)
  OBVIOUS
<1>2. PICK q : q = m.next[m.head[l]]
  OBVIOUS
<1>3. /\ s \in Seq(Node) /\ Len(s) \in Nat
      /\ m.next \in [Node -> Node \cup {Nil}] /\ m.prev \in [Node -> Node \cup {Nil}]
      /\ m.head \in [List -> Node \cup {Nil}]
      /\ m.number \in [List -> Nat] /\ Nil \notin Node
  BY NodeFacts DEF Chain, PtrOK
<1>4. /\ 1 \in 1..Len(s) /\ s[1] \in Node /\ m.head[l] = s[1] /\ m.number[l] = Len(s)
      /\ q = IF Len(s) = 1 THEN Nil ELSE s[2]
  <2>1. 1 \in 1..Len(s)
    BY <1>3
  <2>2. s[1] \in Node
    BY <1>3, <2>1
  <2>3. m.head[l] = s[1] /\ m.number[l] = Len(s)
    BY DEF Chain
  <2>4. m.next[s[1]] = IF 1 = Len(s) THEN Nil ELSE s[1 + 1]
    BY <2>1 DEF Chain
  <2>5. 1 + 1 = 2
    OBVIOUS
  <2> QED  BY <1>2, <2>1, <2>2, <2>3, <2>4, <2>5
<1>5. /\ PtrOK(r)
      /\ \A x \in Node : /\ r.next[x] = m.next[x]
                         /\ r.prev[x] = IF x = q THEN Nil ELSE m.prev[x]
      /\ \A k \in List : k # l => r.head[k] = m.head[k] /\ r.number[k] = m.number[k]
      /\ r.head[l] = q /\ r.number[l] = m.number[l] - 1
      /\ q = Nil \/ m.number[l] > 1 => r.ok = m.ok
  <2>1. m.number[l] # 0 /\ m.head[l] # Nil
    BY <1>3, <1>4
  <2> QED  BY <1>1, <1>2, <2>1, RemoveHeadFields
<1>6. r.ok = m.ok
  <2>1. Len(s) = 1 \/ Len(s) > 1
    <3>1. Len(s) \in Nat \ {0}
      BY <1>3
    <3> QED  BY <3>1, SmallNumbers
  <2>2. q = Nil \/ m.number[l] > 1
    BY <1>4, <2>1
  <2> QED  BY <1>5, <2>2
<1>7. PICK u \in Seq(Node) :
         u = Tail(s) /\ Len(u) = Len(s) - 1 /\ \A i \in 1..Len(u) : u[i] = s[i + 1]
  <2>1. s \in Seq(Node) /\ s # << >>
    BY <1>3
  <2>2. Tail(s) \in Seq(Node) /\ Len(Tail(s)) = Len(s) - 1
    BY <2>1, HeadTailProperties
  <2>3. \A i \in 1..Len(Tail(s)) : Tail(s)[i] = s[i + 1]
    BY <2>1, HeadTailProperties
  <2> QED  BY <2>2, <2>3
<1>8. Chain(r, l, u)
  <2>1. r.number[l] = Len(u) /\ r.head[l] = IF Len(u) = 0 THEN Nil ELSE u[1]
    BY <1>3, <1>4, <1>5, <1>7
  <2>2. \A i, j \in 1..Len(u) : u[i] = u[j] => i = j
    <3>1. ASSUME NEW i \in 1..Len(u), NEW j \in 1..Len(u), u[i] = u[j] PROVE i = j
      <4>1. i + 1 \in 1..Len(s) /\ j + 1 \in 1..Len(s) /\ s[i + 1] = s[j + 1]
        BY <1>3, <1>7, <3>1
      <4>2. i + 1 = j + 1
        BY <4>1 DEF Chain
      <4> QED  BY <4>2
    <3> QED  BY <3>1
  <2>3. ASSUME NEW i \in 1..Len(u)
        PROVE  /\ r.next[u[i]] = IF i = Len(u) THEN Nil ELSE u[i + 1]
               /\ r.prev[u[i]] = IF i = 1 THEN Nil ELSE u[i - 1]
    <3>1. PICK j \in 2..Len(s) : j = i + 1 /\ u[i] = s[j] /\ s[j] \in Node
      BY <1>3, <1>7
    <3>2. j \in 1..Len(s) /\ 2 \in 1..Len(s) /\ j # 1 /\ Len(s) # 1
      BY <1>3, <3>1
    <3>3. /\ m.next[s[j]] = IF j = Len(s) THEN Nil ELSE s[j + 1]
          /\ m.prev[s[j]] = s[j - 1]
      BY <3>2 DEF Chain
    <3>4. s[j] = s[2] => j = 2
      BY <3>2 DEF Chain
    <3>5. q = s[2]
      BY <1>4, <3>2
    <3>6. r.next[s[j]] = m.next[s[j]]
      BY <1>5, <3>1
    <3>7. r.prev[s[j]] = IF j = 2 THEN Nil ELSE s[j - 1]
      BY <1>5, <3>1, <3>3, <3>4, <3>5
    <3>8. /\ (i = Len(u)) <=> (j = Len(s))
          /\ (i = 1) <=> (j = 2)
      BY <1>3, <1>7, <3>1
    <3>9. j # Len(s) => u[i + 1] = s[j + 1]
      <4>0. Len(u) = Len(s) - 1 /\ Len(s) \in Nat
        BY <1>3, <1>7
      <4>1. j # Len(s) => i + 1 \in 1..Len(u)
        BY <3>1, <4>0
      <4>2. \A k \in 1..Len(u) : u[k] = s[k + 1]
        BY <1>7
      <4> QED  BY <3>1, <4>1, <4>2
    <3>10. j # 2 => u[i - 1] = s[j - 1]
      <4>1. j # 2 => i - 1 \in 1..Len(u) /\ (i - 1) + 1 = j - 1
        BY <1>3, <1>7, <3>1
      <4>2. \A k \in 1..Len(u) : u[k] = s[k + 1]
        BY <1>7
      <4> QED  BY <4>1, <4>2
    <3> QED  BY <3>1, <3>3, <3>6, <3>7, <3>8, <3>9, <3>10
  <2> QED  BY <1>7, <2>1, <2>2, <2>3 DEF Chain
<1>9. ASSUME NEW k \in List \ {l}, NEW v, Chain(m, k, v), Nodes(s) \cap Nodes(v) = {}
      PROVE  Chain(r, k, v)
  <2>1. q \notin Nodes(v)
    <3>1. Nodes(v) \subseteq Node
      BY <1>9 DEF Chain, Nodes
    <3>2. q = Nil \/ q \in Nodes(s)
      <4>1. Len(s) # 1 => 2 \in 1..Len(s)
        <5>1. Len(s) \in Nat \ {0}
          BY <1>3
        <5> QED  BY <5>1, SmallNumbers
      <4> QED  BY <1>4, <4>1 DEF Nodes
    <3> QED  BY <1>3, <1>9, <3>1, <3>2
  <2>2. \A x \in Nodes(v) : r.next[x] = m.next[x] /\ r.prev[x] = m.prev[x]
    <3>1. Nodes(v) \subseteq Node
      BY <1>9 DEF Chain, Nodes
    <3> QED  BY <1>5, <2>1, <3>1
  <2>3. r.number[k] = m.number[k] /\ r.head[k] = m.head[k]
    BY <1>3, <1>5
  <2> QED  BY <1>9, <2>2, <2>3, ChainStays
<1> QED  BY <1>1, <1>5, <1>6, <1>7, <1>8, <1>9

\* A sequence without its element at i.
Without(s, i) == [j \in 1..(Len(s) - 1) |-> IF j < i THEN s[j] ELSE s[j + 1]]

(* remove_list_entry joins the neighbours of its node, wherever in the list   *)
(* that is; neither assert fails.                                             *)
LEMMA EntryChain ==
    ASSUME NEW m, PtrOK(m), NEW l \in List, NEW s, Chain(m, l, s), Len(s) <= N,
           NEW i \in 1..Len(s)
    PROVE  LET r == RemoveEntry(m, l, s[i]) IN
           /\ Chain(r, l, Without(s, i))
           /\ PtrOK(r) /\ r.ok = m.ok
           /\ \A k \in List \ {l} : \A u :
                  Chain(m, k, u) /\ Nodes(s) \cap Nodes(u) = {} => Chain(r, k, u)
<1>1. PICK r : r = RemoveEntry(m, l, s[i])
  OBVIOUS
<1>2. PICK p, q : p = m.prev[s[i]] /\ q = m.next[s[i]]
  OBVIOUS
<1>3. /\ s \in Seq(Node) /\ Len(s) \in Nat
      /\ m.next \in [Node -> Node \cup {Nil}] /\ m.prev \in [Node -> Node \cup {Nil}]
      /\ m.head \in [List -> Node \cup {Nil}]
      /\ m.number \in [List -> Nat] /\ Nil \notin Node
  BY NodeFacts DEF Chain, PtrOK
<1>4. /\ \A j \in 1..Len(s) : s[j] \in Node
      /\ 1 \in 1..Len(s)
      /\ m.head[l] = s[1] /\ m.number[l] = Len(s)
      /\ p = IF i = 1 THEN Nil ELSE s[i - 1]
      /\ q = IF i = Len(s) THEN Nil ELSE s[i + 1]
  BY <1>2, <1>3 DEF Chain
<1>5. /\ PtrOK(r)
      /\ \A x \in Node : /\ r.next[x] = IF x = p THEN q ELSE m.next[x]
                         /\ r.prev[x] = IF x = q THEN p ELSE m.prev[x]
      /\ \A k \in List : k # l => r.head[k] = m.head[k] /\ r.number[k] = m.number[k]
      /\ r.head[l] = IF p = Nil THEN q ELSE m.head[l]
      /\ r.number[l] = m.number[l] - 1
      /\ q = Nil \/ m.number[l] > 1 => r.ok = m.ok
  <2>1. s[i] \in Node /\ s[i] \in Nodes(s) /\ m.number[l] # 0 /\ m.head[l] # Nil
    BY <1>3, <1>4 DEF Nodes
  <2>2. OnList(m, l, s[i])
    BY <2>1, WalkMeets
  <2>3. m.number[l] # 0 /\ m.head[l] # Nil /\ s[i] \in Node
    BY <2>1
  <2> QED  BY <1>1, <1>2, <2>2, <2>3, RemoveEntryFields
<1>6. r.ok = m.ok
  <2>1. q = Nil \/ m.number[l] > 1
    BY <1>3, <1>4
  <2> QED  BY <1>5, <2>1
<1>7. PICK u \in Seq(Node) :
         /\ u = Without(s, i) /\ Len(u) = Len(s) - 1
         /\ \A j \in 1..Len(u) : u[j] = IF j < i THEN s[j] ELSE s[j + 1]
  <2>1. Len(s) - 1 \in Nat
    BY <1>3
  <2>2. \A j \in 1..(Len(s) - 1) : j \in 1..Len(s) /\ j + 1 \in 1..Len(s)
    BY <1>3
  <2>3. Without(s, i) \in [1..(Len(s) - 1) -> Node]
    BY <1>4, <2>2 DEF Without
  <2>4. Without(s, i) \in Seq(Node) /\ Len(Without(s, i)) = Len(s) - 1
    BY <2>1, <2>3
  <2> QED  BY <2>1, <2>4 DEF Without
<1>8. ASSUME NEW j \in 1..Len(s), NEW k \in 1..Len(s), s[j] = s[k] PROVE j = k
  BY <1>8 DEF Chain
<1>9. \A j, k \in 1..Len(u) : u[j] = u[k] => j = k
  <2>1. ASSUME NEW j \in 1..Len(u), NEW k \in 1..Len(u), u[j] = u[k] PROVE j = k
    <3>1. PICK a \in 1..Len(s) : a = (IF j < i THEN j ELSE j + 1) /\ u[j] = s[a]
      BY <1>3, <1>7
    <3>2. PICK b \in 1..Len(s) : b = (IF k < i THEN k ELSE k + 1) /\ u[k] = s[b]
      BY <1>3, <1>7
    <3>3. a = b
      BY <1>8, <2>1, <3>1, <3>2
    <3> QED  BY <1>3, <3>1, <3>2, <3>3
  <2> QED  BY <2>1
<1>10. r.number[l] = Len(u) /\ r.head[l] = IF Len(u) = 0 THEN Nil ELSE u[1]
  <2>1. r.number[l] = Len(u)
    BY <1>3, <1>4, <1>5, <1>7
  <2>2. CASE i = 1
    BY <1>3, <1>4, <1>5, <1>7, <2>2
  <2>3. CASE i # 1
    <3>1. i - 1 \in 1..Len(s) /\ p \in Node /\ r.head[l] = s[1]
      BY <1>3, <1>4, <1>5, <2>3
    <3>2. Len(s) \in Nat \ {0} /\ Len(s) # 1 /\ 1 < i
      <4>1. Len(s) \in Nat
        BY <1>3
      <4> QED  BY <2>3, <4>1, LaterPlaces
    <3>3. Len(u) # 0 /\ 1 \in 1..Len(u) /\ 1 < i
      <4>1. 1 \in 1..(Len(s) - 1) /\ Len(u) = Len(s) - 1
        BY <1>7, <3>2, SmallNumbers
      <4>2. Len(u) # 0
        BY <4>1
      <4> QED  BY <3>2, <4>1, <4>2
    <3>4. u[1] = s[1]
      BY <1>7, <3>3
    <3> QED  BY <2>1, <3>1, <3>3, <3>4
  <2> QED  BY <2>1, <2>2, <2>3
<1>11. ASSUME NEW j \in 1..Len(u)
       PROVE  /\ r.next[u[j]] = IF j = Len(u) THEN Nil ELSE u[j + 1]
              /\ r.prev[u[j]] = IF j = 1 THEN Nil ELSE u[j - 1]
  <2>1. PICK a \in 1..Len(s) : a = (IF j < i THEN j ELSE j + 1) /\ u[j] = s[a]
    BY <1>3, <1>7
  <2>2. /\ m.next[s[a]] = IF a = Len(s) THEN Nil ELSE s[a + 1]
        /\ m.prev[s[a]] = IF a = 1 THEN Nil ELSE s[a - 1]
        /\ s[a] \in Node
    BY <1>4 DEF Chain
  <2>3. /\ r.next[s[a]] = IF s[a] = p THEN q ELSE m.next[s[a]]
        /\ r.prev[s[a]] = IF s[a] = q THEN p ELSE m.prev[s[a]]
    BY <1>5, <2>2
  <2>4. s[a] = p <=> i # 1 /\ a = i - 1
    <3>1. i # 1 => i - 1 \in 1..Len(s)
      BY <1>3
    <3> QED  BY <1>3, <1>4, <1>8, <2>2, <3>1
  <2>5. s[a] = q <=> i # Len(s) /\ a = i + 1
    <3>1. i # Len(s) => i + 1 \in 1..Len(s)
      BY <1>3
    <3> QED  BY <1>3, <1>4, <1>8, <2>2, <3>1
  <2>6. r.next[u[j]] = IF j = Len(u) THEN Nil ELSE u[j + 1]
    <3>1. j # Len(u) => u[j + 1] = IF j + 1 < i THEN s[j + 1] ELSE s[j + 2]
      <4>1. j # Len(u) => j + 1 \in 1..Len(u) /\ (j + 1) + 1 = j + 2
        BY <1>7
      <4> QED  BY <1>7, <4>1
    <3> QED  BY <1>3, <1>4, <1>7, <2>1, <2>2, <2>3, <2>4, <3>1
  <2>7. r.prev[u[j]] = IF j = 1 THEN Nil ELSE u[j - 1]
    <3>1. j # 1 => u[j - 1] = IF j - 1 < i THEN s[j - 1] ELSE s[j]
      BY <1>3, <1>7
    <3> QED  BY <1>3, <1>4, <1>7, <2>1, <2>2, <2>3, <2>5, <3>1
  <2> QED  BY <2>6, <2>7
<1>12. Chain(r, l, u)
  BY <1>7, <1>9, <1>10, <1>11 DEF Chain
<1>13. ASSUME NEW k \in List \ {l}, NEW v, Chain(m, k, v), Nodes(s) \cap Nodes(v) = {}
       PROVE  Chain(r, k, v)
  <2>1. Nodes(v) \subseteq Node
    BY <1>13 DEF Chain, Nodes
  <2>2. (p = Nil \/ p \in Nodes(s)) /\ (q = Nil \/ q \in Nodes(s))
    <3>1. (i # 1 => i - 1 \in 1..Len(s)) /\ (i # Len(s) => i + 1 \in 1..Len(s))
      BY <1>3
    <3> QED  BY <1>4, <3>1 DEF Nodes
  <2>3. \A x \in Nodes(v) : r.next[x] = m.next[x] /\ r.prev[x] = m.prev[x]
    BY <1>3, <1>5, <1>13, <2>1, <2>2
  <2>4. r.number[k] = m.number[k] /\ r.head[k] = m.head[k]
    BY <1>3, <1>5
  <2> QED  BY <1>13, <2>3, <2>4, ChainStays
<1> QED  BY <1>1, <1>5, <1>6, <1>7, <1>12, <1>13

-----------------------------------------------------------------------------
(* The nodes of the sequences that the moves make. *)

(* A push adds its node,                                                      *)
LEMMA NodesPushed ==
    ASSUME NEW s \in Seq(Node), NEW n \in Node
    PROVE  /\ Nodes(<<n>> \o s) = {n} \cup Nodes(s)
           /\ Len(<<n>> \o s) = Len(s) + 1
<1> DEFINE u == <<n>> \o s
<1>1. /\ Len(s) \in Nat /\ Len(u) = Len(s) + 1 /\ u[1] = n
      /\ \A i \in 1..Len(s) : u[i + 1] = s[i]
      /\ \A i \in 2..Len(u) : u[i] = s[i - 1] /\ i - 1 \in 1..Len(s)
  OBVIOUS
<1> HIDE DEF u
<1>2. ASSUME NEW x \in Nodes(u) PROVE x \in {n} \cup Nodes(s)
  <2>1. PICK i \in 1..Len(u) : x = u[i]
    BY DEF Nodes
  <2>2. i = 1 \/ i \in 2..Len(u)
    BY <1>1
  <2> QED  BY <1>1, <2>1, <2>2 DEF Nodes
<1>3. n \in Nodes(u)
  <2>1. 1 \in 1..Len(u)
    BY <1>1
  <2> QED  BY <1>1, <2>1 DEF Nodes
<1>4. ASSUME NEW x \in Nodes(s) PROVE x \in Nodes(u)
  <2>1. PICK i \in 1..Len(s) : x = s[i]
    BY DEF Nodes
  <2>2. i + 1 \in 1..Len(u)
    BY <1>1
  <2> QED  BY <1>1, <2>1, <2>2 DEF Nodes
<1> QED  BY <1>1, <1>2, <1>3, <1>4 DEF u

(* Tail takes the first away,                                                 *)
LEMMA NodesPopped ==
    ASSUME NEW m, NEW l, NEW s, Chain(m, l, s), Len(s) # 0
    PROVE  /\ s[1] \in Nodes(s) /\ Nodes(Tail(s)) = Nodes(s) \ {s[1]}
           /\ Len(Tail(s)) = Len(s) - 1
<1>1. s \in Seq(Node) /\ s # << >> /\ Len(s) \in Nat
  BY DEF Chain
<1>2. PICK u \in Seq(Node) : u = Tail(s)
  BY <1>1, HeadTailProperties
<1>3. Len(u) = Len(s) - 1
  BY <1>1, <1>2, HeadTailProperties
<1>4. \A i \in 1..Len(u) : u[i] = s[i + 1]
  BY <1>1, <1>2, HeadTailProperties
<1>5. 1 \in 1..Len(s)
  BY <1>1
<1>6. ASSUME NEW x \in Nodes(u) PROVE x \in Nodes(s) /\ x # s[1]
  <2>1. PICK i \in 1..Len(u) : x = u[i]
    BY DEF Nodes
  <2>2. i + 1 \in 1..Len(s) /\ i + 1 # 1
    BY <1>1, <1>3
  <2>3. s[i + 1] # s[1]
    BY <1>5, <2>2 DEF Chain
  <2> QED  BY <1>4, <2>1, <2>2, <2>3 DEF Nodes
<1>7. ASSUME NEW x \in Nodes(s), x # s[1] PROVE x \in Nodes(u)
  <2>1. PICK i \in 1..Len(s) : x = s[i]
    BY DEF Nodes
  <2>2. i - 1 \in 1..Len(u) /\ (i - 1) + 1 = i
    BY <1>1, <1>3, <1>7, <2>1
  <2>3. u[i - 1] = x
    BY <1>4, <2>1, <2>2
  <2> QED  BY <2>2, <2>3 DEF Nodes
<1>8. s[1] \in Nodes(s)
  BY <1>5 DEF Nodes
<1> QED  BY <1>2, <1>3, <1>6, <1>7, <1>8

(* and Without the one at i.                                                  *)
LEMMA NodesWithout ==
    ASSUME NEW m, NEW l, NEW s, Chain(m, l, s), NEW i \in 1..Len(s)
    PROVE  /\ Nodes(Without(s, i)) = Nodes(s) \ {s[i]}
           /\ Len(Without(s, i)) = Len(s) - 1
<1>1. s \in Seq(Node) /\ Len(s) \in Nat /\ Len(s) - 1 \in Nat
  <2>1. s \in Seq(Node) /\ Len(s) \in Nat
    BY DEF Chain
  <2> QED  BY <2>1
<1>2. PICK u : u = Without(s, i)
  OBVIOUS
<1>3. \A j \in 1..(Len(s) - 1) : u[j] = IF j < i THEN s[j] ELSE s[j + 1]
  BY <1>2 DEF Without
<1>4. Len(u) = Len(s) - 1
  <2>1. \A j \in 1..(Len(s) - 1) : j \in 1..Len(s) /\ j + 1 \in 1..Len(s)
    BY <1>1
  <2>2. u \in [1..(Len(s) - 1) -> Node]
    BY <1>1, <1>2, <2>1 DEF Without
  <2> QED  BY <1>1, <2>2
<1>5. ASSUME NEW x \in Nodes(u) PROVE x \in Nodes(s) /\ x # s[i]
  <2>1. PICK j \in 1..(Len(s) - 1) : x = u[j]
    BY <1>4 DEF Nodes
  <2>2. PICK a \in 1..Len(s) : a = (IF j < i THEN j ELSE j + 1) /\ x = s[a]
    BY <1>1, <1>3, <2>1
  <2>3. a # i
    BY <1>1, <2>2
  <2>4. s[a] # s[i]
    BY <2>3 DEF Chain
  <2> QED  BY <2>2, <2>4 DEF Nodes
<1>6. ASSUME NEW x \in Nodes(s), x # s[i] PROVE x \in Nodes(u)
  <2>1. PICK a \in 1..Len(s) : x = s[a]
    BY DEF Nodes
  <2>2. a # i
    BY <1>6, <2>1
  <2>3. PICK j \in 1..(Len(s) - 1) : a = (IF j < i THEN j ELSE j + 1)
    <3>1. CASE a < i
      <4>1. a \in 1..(Len(s) - 1)
        BY <1>1, <3>1
      <4> QED  BY <3>1, <4>1
    <3>2. CASE a > i
      <4>1. a - 1 \in 1..(Len(s) - 1) /\ ~ (a - 1 < i) /\ (a - 1) + 1 = a
        BY <1>1, <3>2
      <4> QED  BY <4>1
    <3> QED  BY <1>1, <2>2, <3>1, <3>2
  <2>4. u[j] = x
    BY <1>3, <2>1, <2>3
  <2> QED  BY <1>4, <2>4 DEF Nodes
<1>7. s[i] \in Nodes(s)
  BY DEF Nodes
<1> QED  BY <1>2, <1>4, <1>5, <1>6, <1>7

-----------------------------------------------------------------------------
(* The two lists together, and what the two moves make of them. *)

TwoChains(m, f, b) ==
    /\ PtrOK(m) /\ m.ok
    /\ Chain(m, "free", f)
    /\ Chain(m, "busy", b)
    /\ Nodes(f) \cap Nodes(b) = {}
    /\ Nodes(f) \cup Nodes(b) = Node
    /\ Len(f) + Len(b) = N

(* mod_malloc_heap: the first free node becomes the first busy one.           *)
LEMMA AllocateChains ==
    ASSUME NEW m, NEW f, NEW b, TwoChains(m, f, b), m.number["free"] # 0,
           NEW r, r = AddHead(RemoveHead(m, "free"), "busy", m.head["free"])
    PROVE  /\ f \in Seq(Node) /\ f # << >>
           /\ TwoChains(r, Tail(f), <<f[1]>> \o b)
<1>1. /\ f \in Seq(Node) /\ b \in Seq(Node) /\ Len(f) \in Nat /\ Len(b) \in Nat /\ N \in Nat
      /\ "free" \in List /\ "busy" \in List \ {"free"} /\ "free" \in List \ {"busy"}
      /\ "busy" \in List
  BY NodeFacts DEF TwoChains, Chain, List
<1>2. Len(f) # 0 /\ m.head["free"] = f[1]
  BY DEF TwoChains, Chain
<1>3. PICK a : a = RemoveHead(m, "free")
  OBVIOUS
<1>4. PICK t : t = Tail(f)
  OBVIOUS
<1>5. f[1] \in Nodes(f) /\ Nodes(t) = Nodes(f) \ {f[1]} /\ Len(t) = Len(f) - 1
  BY <1>2, <1>4, NodesPopped DEF TwoChains
<1>6. PtrOK(a) /\ a.ok /\ Chain(a, "free", t) /\ Chain(a, "busy", b)
  <2>0. PtrOK(m) /\ Chain(m, "free", f) /\ "free" \in List
    BY <1>1 DEF TwoChains
  <2>1. PtrOK(a) /\ Chain(a, "free", t) /\ a.ok = m.ok
    <3>1. /\ Chain(RemoveHead(m, "free"), "free", Tail(f))
          /\ PtrOK(RemoveHead(m, "free")) /\ RemoveHead(m, "free").ok = m.ok
      BY <1>2, <2>0, PopChain
    <3> QED  BY <1>3, <1>4, <3>1
  <2>2. \A k \in List \ {"free"} : \A u :
            Chain(m, k, u) /\ Nodes(f) \cap Nodes(u) = {} => Chain(a, k, u)
    BY <1>1, <1>2, <1>3, PopChain DEF TwoChains
  <2> QED  BY <1>1, <2>1, <2>2 DEF TwoChains
<1>7. f[1] \in Node /\ f[1] \notin Nodes(b) /\ f[1] \notin Nodes(t) /\ Nodes(t) \cap Nodes(b) = {}
  BY <1>5 DEF TwoChains
<1>8. r = AddHead(a, "busy", f[1])
  BY <1>2, <1>3
<1>9. PtrOK(r) /\ r.ok
  BY <1>1, <1>6, <1>7, <1>8, AddHeadSound
<1>10. Chain(r, "busy", <<f[1]>> \o b)
  BY <1>1, <1>6, <1>7, <1>8, PushChain
<1>11. Chain(r, "free", t)
  BY <1>1, <1>6, <1>7, <1>8, PushOther
<1>12. Nodes(<<f[1]>> \o b) = {f[1]} \cup Nodes(b) /\ Len(<<f[1]>> \o b) = Len(b) + 1
  BY <1>1, <1>7, NodesPushed
<1>13. PICK v : v = <<f[1]>> \o b
  OBVIOUS
<1>14. Nodes(t) \cap Nodes(v) = {} /\ Nodes(t) \cup Nodes(v) = Node
  BY <1>5, <1>7, <1>12, <1>13 DEF TwoChains
<1>15. Len(t) + Len(v) = N
  <2>1. Len(f) + Len(b) = N
    BY DEF TwoChains
  <2>2. Len(v) = Len(b) + 1 /\ Len(t) = Len(f) - 1
    BY <1>5, <1>12, <1>13
  <2>3. Len(f) \in Nat /\ Len(b) \in Nat
    BY <1>1
  <2> QED  BY <2>1, <2>2, <2>3
<1>16. TwoChains(r, t, v)
  BY <1>9, <1>10, <1>11, <1>13, <1>14, <1>15 DEF TwoChains
<1>17. f # << >>
  BY <1>1, <1>2
<1> QED  BY <1>1, <1>4, <1>13, <1>16, <1>17

(* mod_free: a busy node, wherever in the list, becomes the first free one.   *)
LEMMA ReleaseChains ==
    ASSUME NEW m, NEW f, NEW b, TwoChains(m, f, b), NEW n \in Node,
           m.number["busy"] # 0, m.head["busy"] = Nil \/ OnList(m, "busy", n),
           NEW r, r = AddHead(RemoveEntry(m, "busy", n), "free", n)
    PROVE  \E i \in 1..Len(b) : b[i] = n /\ TwoChains(r, <<n>> \o f, Without(b, i))
<1>1. /\ f \in Seq(Node) /\ b \in Seq(Node) /\ Len(f) \in Nat /\ Len(b) \in Nat /\ N \in Nat
      /\ "free" \in List /\ "busy" \in List \ {"free"} /\ "free" \in List \ {"busy"}
      /\ "busy" \in List
  BY NodeFacts DEF TwoChains, Chain, List
<1>2. Len(b) # 0 /\ Len(b) <= N /\ Chain(m, "busy", b) /\ Len(f) + Len(b) = N
  <2>1. Len(b) # 0 /\ Chain(m, "busy", b) /\ Len(f) + Len(b) = N
    BY DEF TwoChains, Chain
  <2>2. Len(b) <= Len(f) + Len(b)
    BY <1>1
  <2> QED  BY <2>1, <2>2
<1>3. n \in Nodes(b)
  <2>1. 1 \in 1..Len(b) /\ b[1] \in Node
    <3>1. 1 \in 1..Len(b)
      BY <1>1, <1>2
    <3> QED  BY <1>1, <3>1
  <2>2. m.head["busy"] = b[1]
    <3>1. m.head["busy"] = IF Len(b) = 0 THEN Nil ELSE b[1]
      BY <1>2 DEF Chain
    <3> QED  BY <1>2, <3>1
  <2>3. OnList(m, "busy", n)
    BY <2>1, <2>2, NodeFacts
  <2> QED  BY <1>2, <2>3, WalkMeets
<1>4. PICK i \in 1..Len(b) : n = b[i]
  BY <1>3 DEF Nodes
<1>5. PICK a : a = RemoveEntry(m, "busy", b[i])
  OBVIOUS
<1>6. PICK t : t = Without(b, i)
  OBVIOUS
<1>7. Nodes(t) = Nodes(b) \ {b[i]} /\ Len(t) = Len(b) - 1
  <2>1. Chain(m, "busy", b) /\ i \in 1..Len(b)
    BY <1>2
  <2>2. Nodes(Without(b, i)) = Nodes(b) \ {b[i]} /\ Len(Without(b, i)) = Len(b) - 1
    BY <2>1, NodesWithout
  <2> QED  BY <1>6, <2>2
<1>8. PtrOK(a) /\ a.ok /\ Chain(a, "busy", t) /\ Chain(a, "free", f)
  <2>1. PtrOK(m) /\ m.ok /\ Chain(m, "free", f) /\ Nodes(b) \cap Nodes(f) = {}
    BY DEF TwoChains
  <2>2. PtrOK(a) /\ Chain(a, "busy", t) /\ a.ok = m.ok
    BY <1>1, <1>2, <1>5, <1>6, <2>1, EntryChain
  <2>3. \A k \in List \ {"busy"} : \A u :
            Chain(m, k, u) /\ Nodes(b) \cap Nodes(u) = {} => Chain(a, k, u)
    BY <1>1, <1>2, <1>5, <2>1, EntryChain
  <2> QED  BY <1>1, <2>1, <2>2, <2>3
<1>9. n \notin Nodes(f) /\ n \notin Nodes(t) /\ Nodes(f) \cap Nodes(t) = {}
  BY <1>3, <1>4, <1>7 DEF TwoChains
<1>10. r = AddHead(a, "free", n)
  BY <1>4, <1>5
<1>11. PtrOK(r) /\ r.ok
  <2>1. PtrOK(AddHead(a, "free", n)) /\ AddHead(a, "free", n).ok = a.ok
    BY <1>1, <1>8, AddHeadSound
  <2> QED  BY <1>8, <1>10, <2>1
<1>12. Chain(r, "free", <<n>> \o f)
  BY <1>1, <1>8, <1>9, <1>10, PushChain
<1>13. Chain(r, "busy", t)
  BY <1>1, <1>8, <1>9, <1>10, PushOther
<1>14. Nodes(<<n>> \o f) = {n} \cup Nodes(f) /\ Len(<<n>> \o f) = Len(f) + 1
  BY <1>1, NodesPushed
<1>15. PICK v : v = <<n>> \o f
  OBVIOUS
<1>16. Nodes(v) \cap Nodes(t) = {} /\ Nodes(v) \cup Nodes(t) = Node
  BY <1>3, <1>4, <1>7, <1>9, <1>14, <1>15 DEF TwoChains
<1>17. Len(v) + Len(t) = N
  <2>1. Len(v) = Len(f) + 1 /\ Len(t) = Len(b) - 1
    BY <1>7, <1>14, <1>15
  <2>2. Len(f) \in Nat /\ Len(b) \in Nat /\ Len(f) + Len(b) = N
    BY <1>1, <1>2
  <2> QED  BY <2>1, <2>2
<1>18. TwoChains(r, v, t)
  BY <1>11, <1>12, <1>13, <1>15, <1>16, <1>17 DEF TwoChains
<1> QED  BY <1>4, <1>6, <1>15, <1>18

-----------------------------------------------------------------------------
(* The initial lists: the nodes are pushed one after the other. *)

NoPointers ==
    [next |-> [n \in Node |-> Nil], prev |-> [n \in Node |-> Nil],
     head |-> [l \in List |-> Nil], number |-> [l \in List |-> 0], ok |-> TRUE]

\* f holds the pointers after each of the first n pushes.
Pushes(f, n) ==
    f = [i \in 0..n |-> IF i = 0 THEN NoPointers ELSE AddHead(f[i - 1], "free", Order[i])]

\* The first i nodes of the order are on the free list, and none is on the other.
Built(m, i) ==
    /\ PtrOK(m) /\ m.ok
    /\ Chain(m, "busy", << >>)
    /\ \E f : Chain(m, "free", f) /\ Len(f) = i /\ Nodes(f) = {Order[j] : j \in 1..i}

(* The recursion of the initial state defines a function.                     *)
LEMMA PushesExist == \A n \in Nat : \E f : Pushes(f, n)
<1> DEFINE T == {n \in Nat : \E f : Pushes(f, n)}
<1>1. 0 \in T
  <2> DEFINE f == [i \in 0..0 |-> NoPointers]
  <2>1. \A i \in 0..0 : i = 0
    OBVIOUS
  <2>2. f = [i \in 0..0 |-> IF i = 0 THEN NoPointers ELSE AddHead(f[i - 1], "free", Order[i])]
    BY <2>1
  <2>3. Pushes(f, 0)
    BY <2>2 DEF Pushes
  <2> QED  BY <2>3
<1>2. ASSUME NEW n \in T PROVE n + 1 \in T
  <2>1. n \in Nat
    OBVIOUS
  <2>2. PICK g : Pushes(g, n)
    OBVIOUS
  <2> DEFINE last == AddHead(g[n], "free", Order[n + 1])
             f == [i \in 0..(n + 1) |-> IF i = n + 1 THEN last ELSE g[i]]
             Go(i) == IF i = 0 THEN NoPointers ELSE AddHead(f[i - 1], "free", Order[i])
  <2>3. ASSUME NEW i \in 0..(n + 1) PROVE f[i] = Go(i)
    <3>1. CASE i = n + 1
      <4>1. i # 0 /\ i - 1 = n /\ n \in 0..(n + 1) /\ n # n + 1
        BY <2>1, <3>1
      <4>2. f[i] = last /\ f[n] = g[n]
        BY <3>1, <4>1
      <4> HIDE DEF f, last
      <4> QED  BY <3>1, <4>1, <4>2 DEF last
    <3>2. CASE i # n + 1
      <4>1. i \in 0..n /\ f[i] = g[i]
        BY <2>1, <3>2
      <4>2. g[i] = IF i = 0 THEN NoPointers ELSE AddHead(g[i - 1], "free", Order[i])
        BY <2>2, <4>1 DEF Pushes
      <4>3. i # 0 => i - 1 \in 0..(n + 1) /\ i - 1 # n + 1
        BY <2>1, <4>1
      <4>4. i # 0 => f[i - 1] = g[i - 1]
        BY <4>3
      <4> HIDE DEF f
      <4> QED  BY <4>1, <4>2, <4>4
    <3> QED  BY <3>1, <3>2
  <2>4. f = [i \in 0..(n + 1) |-> f[i]]
    OBVIOUS
  <2>5. f = [i \in 0..(n + 1) |-> Go(i)]
    <3> HIDE DEF f, Go
    <3> QED  BY <2>3, <2>4
  <2>6. Pushes(f, n + 1)
    <3> HIDE DEF f
    <3> QED  BY <2>5 DEF Pushes
  <2> HIDE DEF f
  <2> QED  BY <2>1, <2>6
<1> HIDE DEF T
<1>3. T \in SUBSET Nat
  BY DEF T
<1>4. T = Nat
  BY <1>1, <1>2, <1>3, InductionOnSets
<1> QED  BY <1>4 DEF T

(* After i pushes the first i nodes of the order are on the free list.        *)
LEMMA PushesBuild ==
    ASSUME NEW f, Pushes(f, N)
    PROVE  \A i \in 0..N : Built(f[i], i)
<1> DEFINE T == {i \in Nat : i \in 0..N => Built(f[i], i)}
<1>0. N \in Nat /\ Nil \notin Node /\ "free" \in List /\ "busy" \in List \ {"free"}
  BY NodeFacts DEF List
<1>1. 0 \in T
  <2>1. f[0] = NoPointers
    BY <1>0 DEF Pushes
  <2>2. PtrOK(NoPointers) /\ NoPointers.ok
    BY DEF PtrOK, NoPointers
  <2>3. \A l \in List : Chain(NoPointers, l, << >>)
    BY DEF Chain, NoPointers
  <2>4. Nodes(<< >>) = {Order[j] : j \in 1..0}
    BY DEF Nodes
  <2>5. Built(NoPointers, 0)
    BY <1>0, <2>2, <2>3, <2>4 DEF Built
  <2> QED  BY <2>1, <2>5
<1>2. ASSUME NEW i \in T PROVE i + 1 \in T
  <2>1. SUFFICES ASSUME i + 1 \in 0..N PROVE Built(f[i + 1], i + 1)
    OBVIOUS
  <2>2. i \in Nat /\ i \in 0..N /\ i + 1 \in 1..N /\ i + 1 # 0 /\ (i + 1) - 1 = i
    BY <1>0, <2>1
  <2>3. f[i + 1] = AddHead(f[i], "free", Order[i + 1])
    BY <2>1, <2>2 DEF Pushes
  <2>4. PICK m : m = f[i]
    OBVIOUS
  <2>5. PICK n : n = Order[i + 1]
    OBVIOUS
  <2>6. PtrOK(m) /\ m.ok /\ Chain(m, "busy", << >>)
    BY <2>2, <2>4 DEF Built
  <2>7. PICK s : Chain(m, "free", s) /\ Len(s) = i /\ Nodes(s) = {Order[j] : j \in 1..i}
    BY <2>2, <2>4 DEF Built
  <2>8. n \in Node /\ n \notin Nodes(s)
    <3>1. /\ Order \in [1..N -> Node]
          /\ \A j, k \in 1..N : Order[j] = Order[k] => j = k
      BY ListAssumption DEF N
    <3>2. \A j \in 1..i : j \in 1..N /\ j # i + 1
      BY <1>0, <2>2
    <3> QED  BY <2>2, <2>5, <2>7, <3>1, <3>2
  <2>9. PICK r : r = AddHead(m, "free", n)
    OBVIOUS
  <2>10. PtrOK(r) /\ r.ok
    <3>1. PtrOK(AddHead(m, "free", n)) /\ AddHead(m, "free", n).ok = m.ok
      BY <1>0, <2>6, <2>8, AddHeadSound
    <3> QED  BY <2>6, <2>9, <3>1
  <2>11. Chain(r, "free", <<n>> \o s)
    BY <1>0, <2>6, <2>7, <2>8, <2>9, PushChain
  <2>12. Chain(r, "busy", << >>)
    <3>1. Nodes(<< >>) = {}
      BY DEF Nodes
    <3>2. Chain(AddHead(m, "free", n), "busy", << >>)
      BY <1>0, <2>6, <2>7, <2>8, <3>1, PushOther
    <3> QED  BY <2>9, <3>2
  <2>13. Nodes(<<n>> \o s) = {n} \cup Nodes(s) /\ Len(<<n>> \o s) = i + 1
    BY <2>7, <2>8, NodesPushed DEF Chain
  <2>14. {n} \cup Nodes(s) = {Order[j] : j \in 1..(i + 1)}
    <3>1. 1..(i + 1) = 1..i \cup {i + 1}
      BY <2>2
    <3> QED  BY <2>5, <2>7, <3>1
  <2>15. Built(r, i + 1)
    BY <2>10, <2>11, <2>12, <2>13, <2>14 DEF Built
  <2> QED  BY <2>3, <2>4, <2>5, <2>9, <2>15
<1> HIDE DEF T
<1>3. T \in SUBSET Nat
  BY DEF T
<1>4. T = Nat
  BY <1>1, <1>2, <1>3, InductionOnSets
<1> QED  BY <1>0, <1>4 DEF T

(* After all of them every node is.                                           *)
LEMMA InitialChains == \E f : TwoChains(InitialPointers, f, << >>)
<1>0. N \in Nat
  BY NodeFacts
<1>1. InitialPointers = (CHOOSE f : Pushes(f, N))[N]
  BY DEF InitialPointers, Pushes, NoPointers, N
<1>2. PICK g : g = CHOOSE f : Pushes(f, N)
  OBVIOUS
<1>3. Pushes(g, N)
  BY <1>0, <1>2, PushesExist
<1>4. Built(g[N], N)
  BY <1>0, <1>3, PushesBuild
<1>5. PICK m : m = g[N]
  OBVIOUS
<1>6. PICK f : Chain(m, "free", f) /\ Len(f) = N /\ Nodes(f) = {Order[j] : j \in 1..N}
  BY <1>4, <1>5 DEF Built
<1>7. {Order[j] : j \in 1..N} = Node
  <2>1. IsFiniteSet(Node) /\ Order \in [1..N -> Node]
        /\ \A i, j \in 1..N : Order[i] = Order[j] => i = j
    BY ListAssumption DEF N
  <2>2. IsFiniteSet(1..N) /\ Cardinality(1..N) = N
    BY <1>0, FS_Interval
  <2>3. Order \in Injection(1..N, Node)
    BY <2>1 DEF Injection, IsInjective
  <2>4. Order \in Surjection(1..N, Node)
    BY <2>1, <2>2, <2>3, FS_Injection DEF N
  <2> QED  BY <2>1, <2>4 DEF Surjection
<1>8. Nodes(<< >>) = {}
  BY DEF Nodes
<1>9. Len(f) + Len(<< >>) = N
  BY <1>0, <1>6
<1>10. TwoChains(m, f, << >>)
  BY <1>4, <1>5, <1>6, <1>7, <1>8, <1>9 DEF TwoChains, Built
<1> QED  BY <1>1, <1>2, <1>5, <1>10

-----------------------------------------------------------------------------
(* The inductive invariant: the pointers chain every node into one of the two *)
(* lists.                                                                      *)

ListInv == failed = FALSE /\ \E f, b : TwoChains(Pointers, f, b)

(* The record of the pointers holds the variables.                            *)
LEMMA PointersFields ==
    /\ Pointers.next = next /\ Pointers.prev = prev /\ Pointers.head = head
    /\ Pointers.number = number /\ Pointers.ok = TRUE
BY DEF Pointers

(* The new pointers are those that the list functions returned. *)
LEMMA BecomesPointers ==
    ASSUME NEW m, PtrOK(m), m.ok, Becomes(m), failed = FALSE
    PROVE  Pointers' = m /\ failed' = FALSE
<1>1. failed' = FALSE
  BY DEF Becomes
<1>2. m = [next |-> m.next, prev |-> m.prev, head |-> m.head, number |-> m.number, ok |-> TRUE]
  <2>1. m = [next |-> m.next, prev |-> m.prev, head |-> m.head, number |-> m.number,
             ok |-> m.ok]
    BY DEF PtrOK
  <2>2. m.ok = TRUE
    BY DEF PtrOK
  <2> QED  BY <2>1, <2>2
<1>3. Pointers' = [next |-> m.next, prev |-> m.prev, head |-> m.head, number |-> m.number,
                   ok |-> TRUE]
  BY DEF Pointers, Becomes
<1> QED  BY <1>1, <1>2, <1>3

(* At the start the free list has every node.                                 *)
LEMMA ListInit == Init => failed = FALSE /\ \E f : TwoChains(Pointers, f, << >>)
<1> SUFFICES ASSUME Init PROVE failed = FALSE /\ \E f : TwoChains(Pointers, f, << >>)
  OBVIOUS
<1>1. PICK f : TwoChains(InitialPointers, f, << >>)
  BY InitialChains
<1>2. PICK m : m = InitialPointers
  OBVIOUS
<1>3. PtrOK(m) /\ m.ok
  BY <1>1, <1>2 DEF TwoChains
<1>4. /\ next = m.next /\ prev = m.prev /\ head = m.head /\ number = m.number
      /\ failed = FALSE
  BY <1>2 DEF Init
<1>5. m = [next |-> m.next, prev |-> m.prev, head |-> m.head, number |-> m.number, ok |-> TRUE]
  <2>1. m = [next |-> m.next, prev |-> m.prev, head |-> m.head, number |-> m.number,
             ok |-> m.ok]
    BY <1>3 DEF PtrOK
  <2>2. m.ok = TRUE
    BY <1>3 DEF PtrOK
  <2> QED  BY <2>1, <2>2
<1>6. Pointers = m
  BY <1>4, <1>5 DEF Pointers
<1> QED  BY <1>1, <1>2, <1>4, <1>6

(* The step of mod_malloc_heap, as the specification takes it.                *)
LEMMA AllocateStep ==
    ASSUME NEW f, NEW b, TwoChains(Pointers, f, b), failed = FALSE, Allocate
    PROVE  /\ failed' = FALSE /\ f \in Seq(Node) /\ f # << >>
           /\ TwoChains(Pointers', Tail(f), <<f[1]>> \o b)
<1>1. PICK r : r = AddHead(RemoveHead(Pointers, "free"), "busy", Pointers.head["free"])
  OBVIOUS
<1>2. Pointers.number["free"] # 0 /\ Becomes(r)
  BY <1>1, PointersFields DEF Allocate
<1>3. f \in Seq(Node) /\ f # << >> /\ TwoChains(r, Tail(f), <<f[1]>> \o b)
  BY <1>1, <1>2, AllocateChains
<1>4. PtrOK(r) /\ r.ok
  BY <1>3 DEF TwoChains
<1>5. Pointers' = r /\ failed' = FALSE
  BY <1>2, <1>4, BecomesPointers
<1> QED  BY <1>3, <1>5

(* The step of mod_free, as the specification takes it.                       *)
LEMMA ReleaseStep ==
    ASSUME NEW f, NEW b, TwoChains(Pointers, f, b), failed = FALSE,
           NEW n \in Node, Release(n)
    PROVE  /\ failed' = FALSE
           /\ \E i \in 1..Len(b) :
                  b[i] = n /\ TwoChains(Pointers', <<n>> \o f, Without(b, i))
<1>1. PICK r : r = AddHead(RemoveEntry(Pointers, "busy", n), "free", n)
  OBVIOUS
<1>2. Pointers.number["busy"] # 0 /\ Becomes(r)
  BY <1>1, PointersFields DEF Release
<1>3. Pointers.head["busy"] = Nil \/ OnList(Pointers, "busy", n)
  BY PointersFields DEF Release
<1>4. PICK i \in 1..Len(b) : b[i] = n /\ TwoChains(r, <<n>> \o f, Without(b, i))
  BY <1>1, <1>2, <1>3, ReleaseChains
<1>5. PtrOK(r) /\ r.ok
  BY <1>4 DEF TwoChains
<1>6. Pointers' = r /\ failed' = FALSE
  BY <1>2, <1>5, BecomesPointers
<1> QED  BY <1>4, <1>6

(* A stuttering step leaves the pointers alone.                               *)
LEMMA Stutters == UNCHANGED vars => Pointers' = Pointers /\ failed' = failed
BY DEF vars, Pointers

(* Every node is on one of the two lists, whose pointers and count agree, in  *)
(* every reachable state: what add_list_head, remove_list_head and            *)
(* remove_list_entry keep although they leave stale pointers behind.          *)
THEOREM ListsChained == Spec => []ListInv
<1>1. Init => ListInv
  BY ListInit DEF ListInv
<1>2. ListInv /\ [Next]_vars => ListInv'
  <2>1. SUFFICES ASSUME ListInv, [Next]_vars PROVE ListInv'
    OBVIOUS
  <2>2. failed = FALSE
    BY <2>1 DEF ListInv
  <2>3. PICK f, b : TwoChains(Pointers, f, b)
    BY <2>1 DEF ListInv
  <2>4. ASSUME Allocate PROVE ListInv'
    <3>1. failed' = FALSE /\ TwoChains(Pointers', Tail(f), <<f[1]>> \o b)
      BY <2>2, <2>3, <2>4, AllocateStep
    <3> QED  BY <3>1 DEF ListInv
  <2>5. ASSUME NEW n \in Node, Release(n) PROVE ListInv'
    <3>1. failed' = FALSE
      BY <2>2, <2>3, <2>5, ReleaseStep
    <3>2. PICK i \in 1..Len(b) : TwoChains(Pointers', <<n>> \o f, Without(b, i))
      BY <2>2, <2>3, <2>5, ReleaseStep
    <3> QED  BY <3>1, <3>2 DEF ListInv
  <2>6. ASSUME UNCHANGED vars PROVE ListInv'
    <3>1. failed' = FALSE /\ TwoChains(Pointers', f, b)
      BY <2>2, <2>3, <2>6, Stutters
    <3> QED  BY <3>1 DEF ListInv
  <2> QED  BY <2>1, <2>4, <2>5, <2>6 DEF Next
<1> QED  BY <1>1, <1>2, PTL DEF Spec

-----------------------------------------------------------------------------
(* What the invariant says of the lists as they are read. *)

(* The counts are the lengths of the chains, N together.                      *)
LEMMA LengthBound ==
    ASSUME NEW f, NEW b, TwoChains(Pointers, f, b)
    PROVE  /\ f \in Seq(Node) /\ b \in Seq(Node) /\ Len(f) \in 0..N /\ Len(b) \in 0..N
           /\ number["free"] = Len(f) /\ number["busy"] = Len(b) /\ Len(f) + Len(b) = N
<1>1. /\ f \in Seq(Node) /\ b \in Seq(Node) /\ Len(f) + Len(b) = N
      /\ number["free"] = Len(f) /\ number["busy"] = Len(b)
  BY PointersFields DEF TwoChains, Chain
<1>2. Len(f) \in Nat /\ Len(b) \in Nat
  BY <1>1
<1>3. Len(f) \in 0..N /\ Len(b) \in 0..N
  BY <1>1, <1>2
<1> QED  BY <1>1, <1>3

(* A list holds the nodes of its chain, in their order. *)
LEMMA ContentIs ==
    ASSUME NEW l \in List, NEW s, Chain(Pointers, l, s), Len(s) <= N
    PROVE  /\ number[l] = Len(s) /\ Content(l) = s
           /\ Walk(Pointers, l)[number[l]] = Nil
<1>1. Walk(Pointers, l) = [k \in 0..N |-> IF k < Len(s) THEN s[k + 1] ELSE Nil]
  BY WalkFollows
<1>2. number[l] = Len(s) /\ s \in Seq(Node)
  BY PointersFields DEF Chain
<1>3. Len(s) \in Nat /\ Len(s) \in 0..N /\ s = [i \in 1..Len(s) |-> s[i]]
  <2>1. Len(s) \in Nat /\ N \in Nat
    BY <1>2, NodeFacts
  <2> QED  BY <1>2, <2>1
<1>4. PICK w : w = Walk(Pointers, l)
  OBVIOUS
<1>5. \A i \in 1..Len(s) : w[i - 1] = s[i]
  <2>1. ASSUME NEW i \in 1..Len(s)
        PROVE  i - 1 \in 0..N /\ i - 1 < Len(s) /\ (i - 1) + 1 = i
    <3>1. Len(s) \in Nat /\ Len(s) <= N /\ N \in Nat
      BY <1>3, NodeFacts
    <3> QED  BY <3>1
  <2> QED  BY <1>1, <1>4, <2>1
<1>6. Content(l) = [i \in 1..Len(s) |-> w[i - 1]]
  BY <1>2, <1>4 DEF Content
<1>7. Content(l) = s
  BY <1>3, <1>5, <1>6
<1>8. ~ (Len(s) < Len(s))
  BY <1>3
<1>9. Walk(Pointers, l)[number[l]] = Nil
  BY <1>1, <1>2, <1>3, <1>8
<1> QED  BY <1>2, <1>7, <1>9

(* So the two lists hold the two chains.                                      *)
LEMMA BothContents ==
    ASSUME NEW f, NEW b, TwoChains(Pointers, f, b)
    PROVE  Content("free") = f /\ Content("busy") = b
<1>1. /\ "free" \in List /\ "busy" \in List
      /\ Chain(Pointers, "free", f) /\ Chain(Pointers, "busy", b)
  BY DEF List, TwoChains
<1>2. Len(f) <= N /\ Len(b) <= N
  <2>1. Len(f) \in 0..N /\ Len(b) \in 0..N
    BY LengthBound
  <2> QED  BY <2>1, NodeFacts
<1> QED  BY <1>1, <1>2, ContentIs

(* The chains give the variables their types,                                 *)
LEMMA InvTypes == ListInv => TypeOK
<1> SUFFICES ASSUME ListInv PROVE TypeOK
  OBVIOUS
<1>1. PICK f, b : TwoChains(Pointers, f, b)
  BY DEF ListInv
<1>2. /\ next \in [Node -> Node \cup {Nil}] /\ prev \in [Node -> Node \cup {Nil}]
      /\ head \in [List -> Node \cup {Nil}] /\ number \in [List -> Nat]
  <2>1. PtrOK(Pointers)
    BY <1>1 DEF TwoChains
  <2> QED  BY <2>1, PointersFields DEF PtrOK
<1>3. number["free"] \in 0..N /\ number["busy"] \in 0..N
  BY <1>1, LengthBound
<1>4. number \in [List -> 0..N]
  BY <1>2, <1>3 DEF List
<1>5. failed \in BOOLEAN
  BY DEF ListInv
<1> QED  BY <1>2, <1>4, <1>5 DEF TypeOK, N

(* and make the lists well linked.                                            *)
LEMMA InvLinked == ListInv => WellLinked
<1> SUFFICES ASSUME ListInv PROVE WellLinked
  OBVIOUS
<1>1. PICK f, b : TwoChains(Pointers, f, b)
  BY DEF ListInv
<1>2. /\ f \in Seq(Node) /\ b \in Seq(Node) /\ Len(f) \in 0..N /\ Len(b) \in 0..N
      /\ number["free"] = Len(f) /\ number["busy"] = Len(b) /\ Len(f) + Len(b) = N
  BY <1>1, LengthBound
<1>3. ASSUME NEW l \in List
      PROVE  \E s : Chain(Pointers, l, s) /\ Len(s) <= N /\ s = IF l = "free" THEN f ELSE b
  <2>1. Len(f) <= N /\ Len(b) <= N
    BY <1>2, NodeFacts
  <2>2. Chain(Pointers, "free", f) /\ Chain(Pointers, "busy", b)
    BY <1>1 DEF TwoChains
  <2> QED  BY <2>1, <2>2 DEF List
<1>4. ASSUME NEW l \in List
      PROVE  /\ Walk(Pointers, l)[number[l]] = Nil
             /\ \A i \in 1..number[l] :
                    prev[Content(l)[i]] = IF i = 1 THEN Nil ELSE Content(l)[i - 1]
  <2>1. PICK s : Chain(Pointers, l, s) /\ Len(s) <= N
    BY <1>3
  <2>2. number[l] = Len(s) /\ Content(l) = s /\ Walk(Pointers, l)[number[l]] = Nil
    BY <2>1, ContentIs
  <2>3. \A i \in 1..Len(s) : prev[s[i]] = IF i = 1 THEN Nil ELSE s[i - 1]
    BY <2>1, PointersFields DEF Chain
  <2> QED  BY <2>2, <2>3
<1>5. ASSUME NEW n \in Node PROVE \E l \in List : OnList(Pointers, l, n)
  <2>1. n \in Nodes(f) \/ n \in Nodes(b)
    BY <1>1 DEF TwoChains
  <2>2. /\ Chain(Pointers, "free", f) /\ Chain(Pointers, "busy", b)
        /\ Len(f) <= N /\ Len(b) <= N
    <3>1. Len(f) <= N /\ Len(b) <= N
      BY <1>2, NodeFacts
    <3> QED  BY <1>1, <3>1 DEF TwoChains
  <2>3. OnList(Pointers, "free", n) \/ OnList(Pointers, "busy", n)
    BY <2>1, <2>2, WalkMeets
  <2> QED  BY <2>3 DEF List
<1>6. number["free"] + number["busy"] = Cardinality(Node)
  BY <1>2 DEF N
<1> QED  BY <1>4, <1>5, <1>6 DEF WellLinked

(* The pointers, the counts and the flag of a failed assert have their types;  *)
(* no count of mod_list exceeds the number of nodes.                           *)
THEOREM ListTypes == Spec => []TypeOK
BY ListsChained, InvTypes, PTL

(* No assert of the list functions is ever false: the count and the pointers   *)
(* of mod_list agree on whether there is a first and a second node.            *)
THEOREM AssertsNeverFail == Spec => []AssertsHold
<1>1. ListInv => AssertsHold
  BY DEF ListInv, AssertsHold
<1> QED  BY <1>1, ListsChained, PTL

(* The backward pointers, the forward pointers and the count of a list always  *)
(* agree, and no node is lost, for any number of nodes.                        *)
THEOREM ListsWellLinked == Spec => []WellLinked
BY ListsChained, InvLinked, PTL

-----------------------------------------------------------------------------
(* The pointers implement two stacks. *)

(* What remove_list_entry leaves is RemoveAt of the abstract lists. *)
LEMMA WithoutIsRemoveAt ==
    ASSUME NEW s \in Seq(Node), NEW i \in 1..Len(s)
    PROVE  Abstract!RemoveAt(s, i) = Without(s, i)
<1>1. Len(s) \in Nat
  OBVIOUS
<1>2. PICK x : x = SubSeq(s, 1, i - 1)
  OBVIOUS
<1>3. PICK y : y = SubSeq(s, i + 1, Len(s))
  OBVIOUS
<1>4. x \in Seq(Node) /\ Len(x) = i - 1 /\ \A j \in 1..(i - 1) : x[j] = s[j]
  BY <1>1, <1>2
<1>5. y \in Seq(Node) /\ Len(y) = Len(s) - i /\ \A j \in 1..(Len(s) - i) : y[j] = s[i + j]
  BY <1>1, <1>3
<1>6. PICK z : z = x \o y
  OBVIOUS
<1>7. z \in Seq(Node) /\ Len(z) = Len(s) - 1
  BY <1>1, <1>4, <1>5, <1>6
<1>8. \A j \in 1..(Len(s) - 1) : z[j] = IF j < i THEN s[j] ELSE s[j + 1]
  <2>1. ASSUME NEW j \in 1..(Len(s) - 1) PROVE z[j] = IF j < i THEN s[j] ELSE s[j + 1]
    <3>1. CASE j < i
      <4>1. j \in 1..(i - 1)
        BY <1>1, <3>1
      <4>2. z[j] = x[j]
        BY <1>1, <1>4, <1>5, <1>6, <4>1
      <4> QED  BY <1>4, <3>1, <4>1, <4>2
    <3>2. CASE ~ (j < i)
      <4>1. PICK k \in 1..(Len(s) - i) : k = j - (i - 1) /\ i + k = j + 1
        BY <1>1, <3>2
      <4>2. z[j] = y[k]
        BY <1>1, <1>4, <1>5, <1>6, <3>2, <4>1
      <4> QED  BY <1>5, <3>2, <4>1, <4>2
    <3> QED  BY <3>1, <3>2
  <2> QED  BY <2>1
<1>9. z = [j \in 1..(Len(s) - 1) |-> z[j]]
  BY <1>1, <1>7
<1>10. z = Without(s, i)
  BY <1>8, <1>9 DEF Without
<1> QED  BY <1>2, <1>3, <1>6, <1>10 DEF Abstract!RemoveAt

(* The pushed list is some order of the nodes, and the busy list is empty.    *)
LEMMA AbstractInit == Init => Abstract!Init
<1> SUFFICES ASSUME Init PROVE Abstract!Init
  OBVIOUS
<1>1. PICK f : TwoChains(Pointers, f, << >>)
  BY ListInit
<1>2. Content("free") = f /\ Content("busy") = << >>
  BY <1>1, BothContents
<1>3. f \in Seq(Node) /\ Len(f) = N
  <2>1. f \in Seq(Node) /\ Len(f) + Len(<< >>) = N
    BY <1>1, LengthBound
  <2> QED  BY <2>1
<1>4. \A i, j \in 1..Len(f) : f[i] = f[j] => i = j
  BY <1>1 DEF TwoChains, Chain
<1>5. f \in [1..N -> Node] /\ DOMAIN f = 1..N
  BY <1>3
<1>6. Abstract!IsInjective(f)
  BY <1>3, <1>4, <1>5 DEF Abstract!IsInjective
<1>7. Abstract!Cardinality(Node) = N
  BY DEF Abstract!Cardinality, Cardinality, N
<1> QED  BY <1>2, <1>5, <1>6, <1>7 DEF Abstract!Init, Abstract!InSomeOrder

(* A move of a node is the move of the two stacks. *)
LEMMA AbstractStep == ListInv /\ [Next]_vars => [Abstract!Next]_(Abstract!vars)
<1>1. \A f, b : TwoChains(Pointers, f, b) => Content("free") = f /\ Content("busy") = b
  BY BothContents
<1>2. (\A f, b : TwoChains(Pointers, f, b) => Content("free") = f /\ Content("busy") = b)'
  BY <1>1, PTL
<1>3. \A f, b : TwoChains(Pointers', f, b) => Content("free")' = f /\ Content("busy")' = b
  BY <1>2
<1>4. SUFFICES ASSUME ListInv, [Next]_vars PROVE [Abstract!Next]_(Abstract!vars)
  OBVIOUS
<1>5. failed = FALSE
  BY <1>4 DEF ListInv
<1>6. PICK f, b : TwoChains(Pointers, f, b)
  BY <1>4 DEF ListInv
<1>7. Content("free") = f /\ Content("busy") = b
  BY <1>1, <1>6
<1>8. ASSUME Allocate PROVE Abstract!Allocate
  <2>1. /\ f \in Seq(Node) /\ f # << >>
        /\ TwoChains(Pointers', Tail(f), <<f[1]>> \o b)
    BY <1>5, <1>6, <1>8, AllocateStep
  <2>2. Content("free")' = Tail(f) /\ Content("busy")' = <<f[1]>> \o b
    BY <1>3, <2>1
  <2>3. Head(f) = f[1]
    BY <2>1
  <2> QED  BY <1>7, <2>1, <2>2, <2>3 DEF Abstract!Allocate
<1>9. ASSUME NEW n \in Node, Release(n) PROVE Abstract!Release(n)
  <2>1. PICK i \in 1..Len(b) :
            b[i] = n /\ TwoChains(Pointers', <<n>> \o f, Without(b, i))
    BY <1>5, <1>6, <1>9, ReleaseStep
  <2>2. Content("free")' = <<n>> \o f /\ Content("busy")' = Without(b, i)
    BY <1>3, <2>1
  <2>3. b \in Seq(Node)
    BY <1>6, LengthBound
  <2>4. Without(b, i) = Abstract!RemoveAt(b, i)
    BY <2>3, WithoutIsRemoveAt
  <2> QED  BY <1>7, <2>1, <2>2, <2>4 DEF Abstract!Release
<1>10. ASSUME UNCHANGED vars PROVE UNCHANGED Abstract!vars
  <2>1. Pointers' = Pointers
    BY <1>10, Stutters
  <2>2. Content("free")' = f /\ Content("busy")' = b
    BY <1>3, <1>6, <2>1
  <2> QED  BY <1>7, <2>2 DEF Abstract!vars
<1> QED  BY <1>4, <1>8, <1>9, <1>10 DEF Next, Abstract!Next

(* Moving nodes by their pointers is moving the top of one stack to the other *)
(* (mod_malloc_heap) and taking a node out of the middle (mod_free), whatever *)
(* stale pointers earlier moves have left in the nodes.                       *)
THEOREM ListsAreStacks == Spec => ImplementsTwoLists
<1>1. Init => Abstract!Init
  BY AbstractInit
<1>2. ListInv /\ [Next]_vars => [Abstract!Next]_(Abstract!vars)
  BY AbstractStep
<1> QED  BY <1>1, <1>2, ListsChained, PTL DEF Spec, ImplementsTwoLists, Abstract!Spec
=============================================================================
