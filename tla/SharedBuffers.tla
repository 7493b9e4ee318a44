--------------------------- MODULE SharedBuffers ---------------------------
(***************************************************************************)
(* What the segment API promises its callers: one buffer per name, shared  *)
(* by the cores that hold the name, with a window over the bytes of the    *)
(* last send that nobody has got yet.  There are no handles, no blocks and *)
(* no lock here, and what happens to one name has no effect on another.    *)
(***************************************************************************)
EXTENDS Naturals, Sequences

CONSTANTS Thread, CoreOf, Core, Name, Byte, Size, Offset

VARIABLES
    holder,  \* the cores that hold a name
    length,  \* the length of its buffer, 0 when nobody holds it
    cells,   \* the bytes of its buffer
    window,  \* what the next get returns, or Unknown after creation
    got      \* the bytes a thread's get has returned, until it goes on

vars == <<holder, length, cells, window, got>>

Unknown == [from |-> 0, count |-> 0, known |-> FALSE]
Window(o, s) == [from |-> o, count |-> s, known |-> TRUE]
Gone == <<>>

Buffer(n) == [0..(n - 1) -> Byte]
Lesser(x, y) == IF x < y THEN x ELSE y

Init ==
    /\ holder = [n \in Name |-> {}]
    /\ length = [n \in Name |-> 0]
    /\ cells = [n \in Name |-> Gone]
    /\ window = [n \in Name |-> Unknown]
    /\ got = [t \in Thread |-> <<>>]

\* A new buffer holds whatever its memory held before.
Create(t, n) ==
    /\ holder[n] = {}
    /\ holder' = [holder EXCEPT ![n] = {CoreOf[t]}]
    /\ \E s \in Size :
           /\ length' = [length EXCEPT ![n] = s]
           /\ \E f \in Buffer(s) : cells' = [cells EXCEPT ![n] = f]
    /\ UNCHANGED <<window, got>>

Join(t, n) ==
    /\ holder[n] # {}
    /\ holder' = [holder EXCEPT ![n] = @ \cup {CoreOf[t]}]
    /\ UNCHANGED <<length, cells, window, got>>

Leave(t, n) ==
    /\ CoreOf[t] \in holder[n]
    /\ holder' = [holder EXCEPT ![n] = @ \ {CoreOf[t]}]
    /\ IF holder'[n] # {} THEN UNCHANGED <<length, cells, window>>
       ELSE /\ length' = [length EXCEPT ![n] = 0]
            /\ cells' = [cells EXCEPT ![n] = Gone]
            /\ window' = [window EXCEPT ![n] = Unknown]
    /\ UNCHANGED got

\* A send overwrites the buffer from o on, as far as the message or the buffer
\* goes, and moves the window there, whether or not the previous one was got.
Put(t, n, o) ==
    /\ CoreOf[t] \in holder[n]
    /\ o < length[n]
    /\ \E l \in Size :
           LET s == Lesser(l, length[n] - o) IN
           /\ cells' = [cells EXCEPT ![n] =
                           [i \in DOMAIN @ |-> IF i \in o..(o + s - 1)
                                               THEN CoreOf[t] ELSE @[i]]]
           /\ window' = [window EXCEPT ![n] = Window(o, s)]
    /\ UNCHANGED <<holder, length, got>>

\* A get returns the first bytes of the window and drops the rest.
Take(t, n) ==
    /\ CoreOf[t] \in holder[n]
    /\ \E l \in Size :
           IF window[n].known
           THEN got' = [got EXCEPT ![t] =
                    [i \in 1..Lesser(l, window[n].count) |->
                        cells[n][window[n].from + i - 1]]]
           ELSE \E k \in 0..l : \E f \in [1..k -> Byte] :
                    got' = [got EXCEPT ![t] = f]
    /\ window' = [window EXCEPT ![n] = Window(0, 0)]
    /\ UNCHANGED <<holder, length, cells>>

\* A get at an offset leaves the window alone.
Peek(t, n, o) ==
    /\ CoreOf[t] \in holder[n]
    /\ o < length[n]
    /\ \E l \in Size :
           got' = [got EXCEPT ![t] =
                    [i \in 1..Lesser(l, length[n] - o) |-> cells[n][o + i - 1]]]
    /\ UNCHANGED <<holder, length, cells, window>>

Return(t) ==
    /\ got' = [got EXCEPT ![t] = <<>>]
    /\ UNCHANGED <<holder, length, cells, window>>

Next ==
    \E t \in Thread :
        \/ \E n \in Name :
              \/ Create(t, n) \/ Join(t, n) \/ Leave(t, n) \/ Take(t, n)
              \/ \E o \in Offset : Peek(t, n, o) \/ Put(t, n, o)
        \/ Return(t)

Spec == Init /\ [][Next]_vars
=============================================================================
