------------------------------ MODULE ModList ------------------------------
(***************************************************************************)
(* The doubly linked lists of shm.c at the level of their pointers:        *)
(* add_list_head, remove_list_head and remove_list_entry on struct         *)
(* Mod_list, and their copies add_info_entry, remove_info_head and         *)
(* remove_info_entry on struct Shm_block_info.  A node has one pair of     *)
(* pointers and is moved between the free and the busy list; nothing       *)
(* clears its pointers when it leaves a list.                              *)
(*                                                                         *)
(* The two moves are those of mod_malloc_heap and mod_free (and of         *)
(* mpi_shm_open and mpi_shm_close for the info lists).                     *)
(***************************************************************************)
EXTENDS Naturals, Sequences, FiniteSets

CONSTANTS
    Node,
    Nil,    \* the null pointer
    Order   \* the order in which the nodes are first pushed

ASSUME ListAssumption ==
    /\ IsFiniteSet(Node)
    /\ Nil \notin Node
    /\ Order \in [1..Cardinality(Node) -> Node]
    /\ \A i, j \in DOMAIN Order : Order[i] = Order[j] => i = j

VARIABLES
    next,     \* m_list_next of a node
    prev,     \* m_previous of a node
    head,     \* m_list_next of the list heads "free" and "busy"
    number,   \* m_number of the list heads
    failed    \* an assert of a list function was false

vars == <<next, prev, head, number, failed>>

List == {"free", "busy"}

(***************************************************************************)
(* The list functions, as operators on the record of all pointers.         *)
(***************************************************************************)
Pointers ==
    [next |-> next, prev |-> prev, head |-> head, number |-> number,
     ok |-> TRUE]

AddHeadStalePrev(m, l, n) ==        \* slip: plist->m_previous = 0 left out
    LET first == m.head[l] IN
    [m EXCEPT !.next[n] = first,
              !.prev = [x \in Node |-> IF x = first THEN n ELSE @[x]],
              !.head[l] = n,
              !.number[l] = @ + 1]

AddHead(m, l, n) ==
    LET first == m.head[l] IN
    [m EXCEPT !.next[n] = first,
              !.prev = [x \in Node |-> IF x = n THEN Nil
                                       ELSE IF x = first THEN n ELSE @[x]],
              !.head[l] = n,
              !.number[l] = @ + 1]

RemoveHeadUncounted(m, l) ==        \* slip: --head->m_number left out
    LET n == m.head[l]
        s == m.next[n]
    IN  IF m.number[l] = 0 THEN m
        ELSE IF n = Nil THEN [m EXCEPT !.ok = FALSE]
        ELSE [m EXCEPT !.head[l] = s,
                       !.prev = [x \in Node |-> IF x = s THEN Nil ELSE @[x]]]

\* Two asserts: there is a first node, and the count says so of a second one.
RemoveHead(m, l) ==
    LET n == m.head[l]
        s == m.next[n]
    IN  IF m.number[l] = 0 THEN m
        ELSE IF n = Nil THEN [m EXCEPT !.ok = FALSE]
        ELSE [m EXCEPT !.number[l] = @ - 1,
                       !.head[l] = s,
                       !.prev = [x \in Node |-> IF x = s THEN Nil ELSE @[x]],
                       !.ok = @ /\ (s = Nil \/ m.number[l] > 1)]

\* The node reached from the head of list l after k steps.
Walk(m, l) ==
    LET at[k \in 0..Cardinality(Node)] ==
            IF k = 0 THEN m.head[l]
            ELSE IF at[k - 1] = Nil THEN Nil ELSE m.next[at[k - 1]]
    IN  at

OnList(m, l, n) == \E k \in DOMAIN Walk(m, l) : Walk(m, l)[k] = n

RemoveEntryOneWay(m, l, n) ==       \* slip: the successor's m_previous kept
    LET p == m.prev[n]
        s == m.next[n]
    IN  IF m.number[l] = 0 THEN m
        ELSE IF m.head[l] = Nil THEN [m EXCEPT !.ok = FALSE]
        ELSE IF ~OnList(m, l, n) THEN m
        ELSE [m EXCEPT !.number[l] = @ - 1,
                       !.head[l] = IF p = Nil THEN s ELSE @,
                       !.next = [x \in Node |-> IF x = p THEN s ELSE @[x]]]

\* A node with m_previous = 0 is taken for the head.  The asserts are those of
\* RemoveHead; a node the walk does not meet changes nothing.
RemoveEntry(m, l, n) ==
    LET p == m.prev[n]
        s == m.next[n]
    IN  IF m.number[l] = 0 THEN m
        ELSE IF m.head[l] = Nil THEN [m EXCEPT !.ok = FALSE]
        ELSE IF ~OnList(m, l, n) THEN m
        ELSE [m EXCEPT !.number[l] = @ - 1,
                       !.head[l] = IF p = Nil THEN s ELSE @,
                       !.next = [x \in Node |-> IF x = p THEN s ELSE @[x]],
                       !.prev = [x \in Node |-> IF x = s THEN p ELSE @[x]],
                       !.ok = @ /\ (s = Nil \/ m.number[l] > 1)]

-----------------------------------------------------------------------------
InitialPointers ==
    LET none == [next   |-> [n \in Node |-> Nil],
                 prev   |-> [n \in Node |-> Nil],
                 head   |-> [l \in List |-> Nil],
                 number |-> [l \in List |-> 0],
                 ok     |-> TRUE]
        pushed[i \in 0..Cardinality(Node)] ==
            IF i = 0 THEN none ELSE AddHead(pushed[i - 1], "free", Order[i])
    IN  pushed[Cardinality(Node)]

Becomes(m) ==
    /\ next' = m.next
    /\ prev' = m.prev
    /\ head' = m.head
    /\ number' = m.number
    /\ failed' = (failed \/ ~m.ok)

Init ==
    /\ next = InitialPointers.next
    /\ prev = InitialPointers.prev
    /\ head = InitialPointers.head
    /\ number = InitialPointers.number
    /\ failed = FALSE

\* mod_malloc_heap: the first free node, if there is one, becomes busy.
Allocate ==
    /\ ~failed
    /\ number["free"] # 0
    /\ Becomes(AddHead(RemoveHead(Pointers, "free"), "busy", head["free"]))

\* mod_free: the node comes from a header, on the busy list or not.  If the
\* removal fails nothing is pushed.
Release(n) ==
    /\ ~failed
    /\ number["busy"] # 0
    /\ head["busy"] = Nil \/ OnList(Pointers, "busy", n)
    /\ Becomes(AddHead(RemoveEntry(Pointers, "busy", n), "free", n))

Next == Allocate \/ \E n \in Node : Release(n)

Spec == Init /\ [][Next]_vars

-----------------------------------------------------------------------------
TypeOK ==
    /\ next \in [Node -> Node \cup {Nil}]
    /\ prev \in [Node -> Node \cup {Nil}]
    /\ head \in [List -> Node \cup {Nil}]
    /\ number \in [List -> 0..Cardinality(Node)]
    /\ failed \in BOOLEAN

\* No assert of the list functions is ever false (shm.c:180, 185, 202, 219 and
\* 254, 259, 275, 292).
AssertsHold == ~failed

\* The nodes of list l, as far as its count says.
Content(l) == [i \in 1..number[l] |-> Walk(Pointers, l)[i - 1]]

\* The count, the forward and the backward pointers of a list agree, and every
\* node is on one list only, although pointers of removed nodes are left behind.
WellLinked ==
    /\ \A l \in List :
           /\ Walk(Pointers, l)[number[l]] = Nil
           /\ \A i \in 1..number[l] :
                  prev[Content(l)[i]] = IF i = 1 THEN Nil ELSE Content(l)[i - 1]
    /\ \A n \in Node : \E l \in List : OnList(Pointers, l, n)
    /\ number["free"] + number["busy"] = Cardinality(Node)

Abstract == INSTANCE TwoLists
                WITH free <- Content("free"), busy <- Content("busy")

\* The pointer manipulation implements two stacks with removal in the middle.
ImplementsTwoLists == Abstract!Spec
=============================================================================
