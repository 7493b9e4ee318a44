----------------------------- MODULE MpiChannel -----------------------------
(***************************************************************************)
(* Message channels: mpi_create_channel, mpi_create_channel_with_data,     *)
(* mpi_destroy_channel and mpi_channel_send of shm.c, the registration     *)
(* list and the interrupt handler message_isr of utils.c, the lock keeper  *)
(* and the spin lock of mpi.c.                                             *)
(*                                                                         *)
(* Each core runs one process and, on top of it, the interrupt handler:    *)
(* while the handler runs the process does not.  system_lock leaves        *)
(* interrupts on, so the handler may preempt a process inside s_mod_lock.  *)
(* A call into a segment is therefore three steps here: the tests made     *)
(* before the lock, taking the lock, and the body that releases it.        *)
(*                                                                         *)
(* Segments are as ShmSegment describes them, less their memory: an info   *)
(* is a name, the open bits and the message that waits (m_size > 0).       *)
(***************************************************************************)
EXTENDS Naturals, Sequences, Functions

CONSTANTS
    Core,
    Number,     \* the channel numbers the drivers use
    Handle,     \* the infos; opening a new name fails when none is free
    Given,      \* the infos that a new segment may be made of, by its name: all
                \* of them in the code
    Nil,        \* no channel, no handle, no message, nobody
    Reserved,   \* lock numbers the core took while it booted
    Call        \* the calls a core makes on its channels: "send", "destroy"

ASSUME ChannelAssumption ==
    /\ \E a, b \in Core : a # b /\ Core = {a, b}
    /\ Number \subseteq Nat
    /\ Reserved \subseteq Nat
    /\ Given \in [Number \X Core -> SUBSET Handle]
    /\ Call \in [Core -> SUBSET {"send", "destroy"}]
    /\ Nil \notin Core \cup Number \cup Handle
    /\ Nil \notin (Core \X {"process", "handler"}) \cup (Number \X Core)

VARIABLES
    keeper,   \* s_lock_keeper of each core, as the set of numbers taken
    chan,     \* the struct Mpi_channel of a core's channel
    calls,    \* message_int_call_stack_head: the registered channels, in order
    name,     \* m_name of an info
    open,     \* m_open of an info
    pending,  \* the core whose message waits in an info; kept by a close
    lock,     \* s_mod_lock: Nil, or core and context ("process", "handler")
    pc,       \* where a core's process is
    isr,      \* where a core's interrupt handler is
    msgr,     \* the message register of a core
    irq,      \* the message interrupt of a core is pending
    missed,   \* history: the infos whose waiting message nothing announces any
              \* more, by a loss that the code does not guard against
    crashed   \* the cores that dereferenced a null pointer

channelVars == <<keeper, chan, calls>>
segmentVars == <<name, open, pending>>
doorbellVars == <<msgr, irq, missed>>
vars == <<channelVars, segmentVars, doorbellVars, lock, pc, isr, crashed>>

Peer(c) == CHOOSE d \in Core : d # c

\* MPI_SYSTEM_LOCK_DEFAULT_CHANNEL+number.
LockNumber(n) == 501 + n

\* "_mpi_channel_%d_up" is core 0's to send on and "_down" is core 1's: a name
\* is the channel number and the core that sends.
SendName(c, n) == <<n, c>>
RecvName(c, n) == <<n, Peer(c)>>
SegmentName == Number \X Core

NoChannel == [send |-> Nil, recv |-> Nil, data |-> FALSE, buffer |-> FALSE]
Idle == [op |-> "idle", n |-> Nil]
NoInterrupt == [op |-> "idle", n |-> Nil, h |-> Nil]

Init ==
    /\ keeper = [c \in Core |-> Reserved]
    /\ chan = [c \in Core |-> [n \in Number |-> NoChannel]]
    /\ calls = [c \in Core |-> <<>>]
    /\ name = [h \in Handle |-> Nil]
    /\ open = [h \in Handle |-> {}]
    /\ pending = [h \in Handle |-> Nil]
    /\ lock = Nil
    /\ pc = [c \in Core |-> Idle]
    /\ isr = [c \in Core |-> NoInterrupt]
    /\ msgr = [c \in Core |-> Nil]
    /\ irq = [c \in Core |-> FALSE]
    /\ missed = {}
    /\ crashed = {}

-----------------------------------------------------------------------------
(* The process of a core.                                                    *)

At(c, op) == pc[c].op = op /\ isr[c].op = "idle" /\ c \notin crashed
Goto(c, op) == pc' = [pc EXCEPT ![c].op = op]
Begin(c, op, n) == pc' = [pc EXCEPT ![c] = [op |-> op, n |-> n]]
Finish(c) == pc' = [pc EXCEPT ![c] = Idle]

\* system_lock: the atomic test-and-set succeeds.
TakeLock(c, context) == lock = Nil /\ lock' = <<c, context>>
DropLockForgotten == UNCHANGED lock     \* slip: a return without the unlock
DropLock == lock' = Nil

Lock(c, from, to) ==
    /\ At(c, from)
    /\ TakeLock(c, "process")
    /\ Goto(c, to)
    /\ UNCHANGED <<channelVars, segmentVars, doorbellVars, isr, crashed>>

\* Mpi_mutex_init takes the channel's lock number or, if it is taken, makes
\* mpi_create_channel return null.
CreateBegin(c, n) ==
    /\ At(c, "idle")
    /\ LockNumber(n) \notin keeper[c]
    /\ keeper' = [keeper EXCEPT ![c] = @ \cup {LockNumber(n)}]
    /\ Begin(c, "open_send", n)
    /\ UNCHANGED <<chan, calls, segmentVars, doorbellVars, lock, isr, crashed>>

Found(nm) == {h \in Handle : name[h] = nm}
Unused(nm) == {h \in Given[nm] : open[h] = {}}

\* mpi_shm_open under the lock: attach to the segment of that name, or make one
\* of an info as its last close left it, a message that still waits included.
Opened(c, nm, h) ==
    /\ IF Found(nm) # {} THEN h \in Found(nm) ELSE h \in Unused(nm)
    /\ name' = [name EXCEPT ![h] = nm]
    /\ open' = [open EXCEPT ![h] = @ \cup {c}]
    /\ missed' = IF Found(nm) = {} /\ pending[h] # Nil THEN missed \cup {h} ELSE missed
    /\ UNCHANGED <<pending, msgr, irq>>

\* It fails without an info, on a segment that is too short and without memory;
\* lengths and the heap are left out, so it may fail at any time.
NotOpened == UNCHANGED <<segmentVars, doorbellVars>>

\* Slip: the segment goes whoever else holds it.
ClosedForAll(c, h) ==
    /\ open' = [open EXCEPT ![h] = {}]
    /\ name' = [name EXCEPT ![h] = Nil]
    /\ UNCHANGED pending

\* mpi_shm_close under the lock.
Closed(c, h) ==
    /\ open' = [open EXCEPT ![h] = @ \ {c}]
    /\ name' = IF open[h] = {c} THEN [name EXCEPT ![h] = Nil] ELSE name
    /\ UNCHANGED pending

OpenSend(c) ==
    /\ At(c, "open_send_locked")
    /\ LET n == pc[c].n IN
       \/ \E h \in Handle :
              /\ Opened(c, SendName(c, n), h)
              /\ chan' = [chan EXCEPT ![c][n].send = h]
              /\ Goto(c, "open_recv")
       \/ /\ NotOpened
          /\ Goto(c, "drop")
          /\ UNCHANGED chan
    /\ DropLock
    /\ UNCHANGED <<keeper, calls, isr, crashed>>

OnNoRecvForgets == "drop"       \* slip: the send handle stays open
OnNoRecv == "undo_send"

OpenRecv(c) ==
    /\ At(c, "open_recv_locked")
    /\ LET n == pc[c].n IN
       \/ \E h \in Handle :
              /\ Opened(c, RecvName(c, n), h)
              /\ chan' = [chan EXCEPT ![c][n].recv = h]
              /\ Goto(c, "register")
       \/ /\ NotOpened
          /\ Goto(c, OnNoRecv)
          /\ UNCHANGED chan
    /\ DropLock
    /\ UNCHANGED <<keeper, calls, isr, crashed>>

\* message_int_reg: from here on the handler calls back.
Register(c) ==
    /\ At(c, "register")
    /\ calls' = [calls EXCEPT ![c] = Append(@, pc[c].n)]
    /\ Goto(c, "set_data")
    /\ UNCHANGED <<keeper, chan, segmentVars, doorbellVars, lock, isr, crashed>>

\* mpi_create_channel_with_data stores m_private_data and then m_buffer; the
\* handler may run before, between and after.
SetData(c) ==
    /\ At(c, "set_data")
    /\ chan' = [chan EXCEPT ![c][pc[c].n].data = TRUE]
    /\ Goto(c, "set_buffer")
    /\ UNCHANGED <<keeper, calls, segmentVars, doorbellVars, lock, isr,
                   crashed>>

SetBuffer(c) ==
    /\ At(c, "set_buffer")
    /\ chan' = [chan EXCEPT ![c][pc[c].n].buffer = TRUE]
    /\ Finish(c)
    /\ UNCHANGED <<keeper, calls, segmentVars, doorbellVars, lock, isr,
                   crashed>>

\* Slip: the entry is freed and stays in the list.
UnlinkedKept(s, n) == [i \in DOMAIN s |-> IF s[i] = n THEN Nil ELSE s[i]]

\* message_int_unreg: what follows the channel comes after what precedes it.
Unlinked(s, n) ==
    [i \in 1 .. Len(s) - 1 |->
        IF \E j \in 1 .. i : s[j] = n THEN s[i + 1] ELSE s[i]]

\* mpi_destroy_channel: message_int_unreg first.
DestroyBegin(c, n) ==
    /\ "destroy" \in Call[c]
    /\ At(c, "idle")
    /\ n \in Range(calls[c])
    /\ calls' = [calls EXCEPT ![c] = Unlinked(@, n)]
    /\ Begin(c, "close_send", n)
    /\ UNCHANGED <<keeper, chan, segmentVars, doorbellVars, lock, isr, crashed>>

\* The close of the send handle, on destruction or when the receive segment
\* could not be opened, and of the receive handle.
CloseSend(c) ==
    /\ \/ At(c, "close_send_locked") /\ Goto(c, "close_recv")
       \/ At(c, "undo_send_locked") /\ Goto(c, "drop")
    /\ Closed(c, chan[c][pc[c].n].send)
    /\ DropLock
    /\ UNCHANGED <<channelVars, doorbellVars, isr, crashed>>

CloseRecv(c) ==
    /\ At(c, "close_recv_locked")
    /\ Closed(c, chan[c][pc[c].n].recv)
    /\ Goto(c, "drop")
    /\ DropLock
    /\ UNCHANGED <<channelVars, doorbellVars, isr, crashed>>

\* Mpi_mutex_destroy and kfree.
Drop(c) ==
    /\ At(c, "drop")
    /\ keeper' = [keeper EXCEPT ![c] = @ \ {LockNumber(pc[c].n)}]
    /\ chan' = [chan EXCEPT ![c][pc[c].n] = NoChannel]
    /\ Finish(c)
    /\ UNCHANGED <<calls, segmentVars, doorbellVars, lock, isr, crashed>>

\* mpi_channel_send: mpi_shm_send, then message_write to the peer's register.
SendBegin(c, n) ==
    /\ "send" \in Call[c]
    /\ At(c, "idle")
    /\ n \in Range(calls[c])
    /\ Begin(c, "send", n)
    /\ UNCHANGED <<channelVars, segmentVars, doorbellVars, lock, isr, crashed>>

SendBody(c) ==
    /\ At(c, "send_locked")
    /\ pending' = [pending EXCEPT ![chan[c][pc[c].n].send] = c]
    /\ missed' = missed \ {chan[c][pc[c].n].send}
    /\ Goto(c, "ring")
    /\ DropLock
    /\ UNCHANGED <<channelVars, name, open, msgr, irq, isr, crashed>>

OwnDoorbell(c) == c             \* slip: the register of the sender's own slot
Doorbell(c) == Peer(c)

\* The peer's register holds one value: what was not read yet is overwritten.
Overwritten(c, h) ==
    LET d == Peer(c) IN
    {g \in Handle \ {h} : irq[d] /\ msgr[d] = g /\ pending[g] = c}

Ring(c) ==
    /\ At(c, "ring")
    /\ LET h == chan[c][pc[c].n].send IN
       /\ msgr' = [msgr EXCEPT ![Doorbell(c)] = h]
       /\ missed' = (missed \ {h}) \cup Overwritten(c, h)
    /\ irq' = [irq EXCEPT ![Doorbell(c)] = TRUE]
    /\ Finish(c)
    /\ UNCHANGED <<channelVars, segmentVars, lock, isr, crashed>>

Process(c) ==
    \/ \E n \in Number :
           CreateBegin(c, n) \/ DestroyBegin(c, n) \/ SendBegin(c, n)
    \/ Lock(c, "open_send", "open_send_locked") \/ OpenSend(c)
    \/ Lock(c, "open_recv", "open_recv_locked") \/ OpenRecv(c)
    \/ Register(c) \/ SetData(c) \/ SetBuffer(c)
    \/ Lock(c, "close_send", "close_send_locked")
    \/ Lock(c, "undo_send", "undo_send_locked") \/ CloseSend(c)
    \/ Lock(c, "close_recv", "close_recv_locked") \/ CloseRecv(c)
    \/ Drop(c)
    \/ Lock(c, "send", "send_locked") \/ SendBody(c) \/ Ring(c)

-----------------------------------------------------------------------------
(* The interrupt handler of a core.                                          *)

In(c, op) == isr[c].op = op /\ c \notin crashed
Step(c, op) == isr' = [isr EXCEPT ![c].op = op]

\* The first registered channel that receives on the handle.
Listener(c, h) ==
    LET hit == {i \in DOMAIN calls[c] : chan[c][calls[c][i]].recv = h}
    IN  IF hit = {} THEN Nil
        ELSE calls[c][CHOOSE i \in hit : \A j \in hit : i <= j]

\* message_isr reads the register once, which clears the interrupt, and walks
\* the registered channels without their semaphore.
Interrupt(c) ==
    /\ In(c, "idle")
    /\ irq[c]
    /\ irq' = [irq EXCEPT ![c] = FALSE]
    /\ isr' = [isr EXCEPT ![c] =
                  [op |-> "test", n |-> Listener(c, msgr[c]), h |-> msgr[c]]]
    /\ UNCHANGED <<channelVars, segmentVars, lock, pc, msgr, missed, crashed>>

\* The callback's mpi_shm_get, and that of the handler itself when no channel
\* listens: without a buffer, a segment or a peer that holds it, get returns
\* an error before it takes the lock.
Gettable(c) ==
    /\ isr[c].n # Nil => chan[c][isr[c].n].buffer
    /\ Peer(c) \in open[isr[c].h]

GetTest(c) ==
    /\ In(c, "test")
    /\ IF Gettable(c)
       THEN Step(c, "spin") /\ UNCHANGED missed
       ELSE /\ Step(c, "done")
            /\ missed' = {h \in Handle : h = isr[c].h /\ pending[h] = Peer(c)} \cup missed
    /\ UNCHANGED <<channelVars, segmentVars, msgr, irq, lock, pc, crashed>>

\* Slip: a handler gives up when the lock is taken.
GetLockTry(c) ==
    /\ In(c, "spin")
    /\ \/ TakeLock(c, "handler") /\ Step(c, "get")
       \/ lock # Nil /\ Step(c, "done") /\ UNCHANGED lock
    /\ UNCHANGED <<channelVars, segmentVars, doorbellVars, pc, crashed>>

GetLock(c) ==
    /\ In(c, "spin")
    /\ TakeLock(c, "handler")
    /\ Step(c, "get")
    /\ UNCHANGED <<channelVars, segmentVars, doorbellVars, pc, crashed>>

\* The message is taken, whoever sent it, if the info has not been closed.
GetBody(c) ==
    /\ In(c, "get")
    /\ open[isr[c].h] # {} \/ pending[isr[c].h] = Nil
    /\ pending' = [pending EXCEPT ![isr[c].h] = Nil]
    /\ missed' = missed \ {isr[c].h}
    /\ DropLock
    /\ Step(c, "done")
    /\ UNCHANGED <<channelVars, name, open, msgr, irq, pc, crashed>>

\* A closed info with m_size > 0: memcpy from a null pointer, under the lock.
GetFault(c) ==
    /\ In(c, "get")
    /\ open[isr[c].h] = {} /\ pending[isr[c].h] # Nil
    /\ crashed' = crashed \cup {c}
    /\ UNCHANGED <<channelVars, segmentVars, doorbellVars, lock, pc, isr>>

\* mpi_shm_callback_func stores the length through m_private_data and then
\* asserts that it is not null (mpi_shm.c:293, 224).
CallbackDone(c) ==
    /\ In(c, "done")
    /\ isr[c].n # Nil => chan[c][isr[c].n].data
    /\ isr' = [isr EXCEPT ![c] = NoInterrupt]
    /\ UNCHANGED <<channelVars, segmentVars, doorbellVars, lock, pc, crashed>>

CallbackFault(c) ==
    /\ In(c, "done")
    /\ isr[c].n # Nil /\ ~chan[c][isr[c].n].data
    /\ crashed' = crashed \cup {c}
    /\ UNCHANGED <<channelVars, segmentVars, doorbellVars, lock, pc, isr>>

Handler(c) ==
    \/ Interrupt(c) \/ GetTest(c) \/ GetLock(c) \/ GetBody(c) \/ GetFault(c)
    \/ CallbackDone(c) \/ CallbackFault(c)

Next == \E c \in Core : Process(c) \/ Handler(c)

\* A started call goes on and a pending interrupt is served: a core that is not
\* spinning executes its next instruction.  Nobody is obliged to start a call.
Going(c) == pc[c] # Idle /\ Process(c)

Spec == Init /\ [][Next]_vars

FairSpec ==
    Spec /\ \A c \in Core : WF_vars(Going(c)) /\ WF_vars(Handler(c))

-----------------------------------------------------------------------------
Operations ==
    {"idle", "open_send", "open_send_locked", "open_recv", "open_recv_locked",
     "register", "set_data", "set_buffer", "close_send", "close_send_locked", "undo_send",
     "undo_send_locked", "close_recv", "close_recv_locked", "drop", "send",
     "send_locked", "ring"}

TypeOK ==
    /\ keeper \in [Core -> SUBSET Nat]
    /\ chan \in [Core -> [Number -> [send : Handle \cup {Nil},
                                    recv : Handle \cup {Nil},
                                    data : BOOLEAN, buffer : BOOLEAN]]]
    /\ calls \in [Core -> Seq(Number)]
    /\ name \in [Handle -> SegmentName \cup {Nil}]
    /\ open \in [Handle -> SUBSET Core]
    /\ pending \in [Handle -> Core \cup {Nil}]
    /\ lock \in (Core \X {"process", "handler"}) \cup {Nil}
    /\ pc \in [Core -> [op : Operations, n : Number \cup {Nil}]]
    /\ isr \in [Core -> [op : {"idle", "test", "spin", "get", "done"},
                         n : Number \cup {Nil}, h : Handle \cup {Nil}]]
    /\ msgr \in [Core -> Handle \cup {Nil}]
    /\ irq \in [Core -> BOOLEAN]
    /\ missed \in SUBSET Handle
    /\ crashed \in SUBSET Core

Registered(c) == Range(calls[c])

\* When a core's process is between two calls, the lock numbers it has taken and
\* the open bits it has set are those of its registered channels: no failure
\* half way through mpi_create_channel leaves anything behind.
NothingLeftBehind ==
    \A c \in Core : pc[c] = Idle =>
        /\ keeper[c] = Reserved \cup {LockNumber(n) : n \in Registered(c)}
        /\ {h \in Handle : c \in open[h]} =
               UNION {{chan[c][n].send, chan[c][n].recv} : n \in Registered(c)}

\* A registered channel's handles are open and carry the names of the channel,
\* so the callback never reads a segment that was taken away.
ListenersHold ==
    \A c \in Core : \A n \in Registered(c) :
        /\ chan[c][n].recv # Nil /\ c \in open[chan[c][n].recv]
        /\ name[chan[c][n].recv] = RecvName(c, n)
        /\ chan[c][n].send # Nil /\ c \in open[chan[c][n].send]
        /\ name[chan[c][n].send] = SendName(c, n)

\* s_mod_lock keeps every two of the four contexts, a process and a handler on
\* each core, out of the segments' bodies, and is free when none is in one: also
\* a creation that fails and a destruction give it back.
MutualExclusion ==
    \A c \in Core :
        /\ lock = <<c, "process">> <=>
               pc[c].op \in {"open_send_locked", "open_recv_locked", "send_locked",
                            "close_send_locked", "undo_send_locked",
                            "close_recv_locked"}
        /\ lock = <<c, "handler">> <=> isr[c].op = "get"

\* A handler spins for a lock that the process it interrupted holds.
Interlocked(c) == isr[c].op = "spin" /\ lock = <<c, "process">>

\* s_mod_lock is released by whoever takes it, on every path, unless the holder
\* was interrupted by a handler that wants it too or died: nothing else can
\* stop the two cores.
LockReleased ==
    \A c \in Core : \A x \in {"process", "handler"} :
        lock = <<c, x>> ~> (lock # <<c, x>> \/ Interlocked(c) \/ crashed # {})

\* m_private_data is set whenever the handler calls back
\* ("BUG_ON(!pdata)", mpi_shm.c:224).
CallbackHasData ==
    \A c \in Core :
        isr[c].op = "done" /\ isr[c].n # Nil => chan[c][isr[c].n].data

\* A waiting message is on its way: its sender is about to ring, or the
\* interrupt is pending or being served for that very info.
Announced(c, n) ==
    LET h == chan[c][n].recv IN
    \/ pc[Peer(c)] = [op |-> "ring", n |-> n]
    \/ irq[c] /\ msgr[c] = h
    \/ isr[c].h = h /\ isr[c].op \in {"test", "spin", "get"}

\* A message that waits on a registered channel is announced, even one sent
\* while the receiver was still being set up, until it is missed: its ring was
\* overwritten by that of another channel before the register was read, or the
\* get it led to was refused because the channel had no buffer yet or its sender
\* had closed the segment, or a former segment left it in the info.
DoorbellCovers ==
    \A c \in Core : \A n \in Registered(c) :
        pending[chan[c][n].recv] = Peer(c) /\ crashed = {} =>
            Announced(c, n) \/ chan[c][n].recv \in missed

Waiting(c, n) ==
    n \in Registered(c) /\ pending[chan[c][n].recv] = Peer(c) /\ chan[c][n].recv \notin missed

NoCallBegins == \A c \in Core : pc[c] = Idle => pc'[c] = Idle

\* When no more calls begin, every message on a registered channel that was not
\* missed is got in the end, unless a core died or a handler spins for the
\* process it interrupted.  While the processes go on calling, the spin lock
\* promises a handler nothing.
Delivered ==
    <>[][NoCallBegins]_vars =>
        \A c \in Core : \A n \in Number :
            <>[](~Waiting(c, n) \/ crashed # {} \/ \E d \in Core : Interlocked(d))
=============================================================================
