-------------------------------- MODULE Boot --------------------------------
(***************************************************************************)
(* The start of the two cores over one region: utils_init (init_mpi,       *)
(* mod_init, the default channel, message_int_init), then shm_init with    *)
(* its devices, and shm_exit.  Core 0 clears the region; core 1 waits by   *)
(* time only, so it may come at any moment.  A core may be stopped and     *)
(* started again by the other (hreset_peer): what its kernel keeps is      *)
(* lost, what lies in the region stays.                                    *)
(*                                                                         *)
(* Opens and closes are those of ShmSegment without lengths and windows.   *)
(***************************************************************************)
EXTENDS ModHeap

CONSTANTS
    NDevice,     \* NUMBER_SHM_DEVICE
    NInfo,       \* the number of Shm_block_info
    Length,      \* the length of every segment opened here
    Builds,      \* which drivers the cores may run, as functions on Cpu
    Zero, Junk,  \* contents of a control area nobody initialised
    Nil,         \* no handle, no name, no lock holder
    MaxResets    \* bound on the restarts of cores

Cpu == {0, 1}

\* Of a driver's build mod_init compares the start order and number of pools.
Build == {b[c] : b \in Builds, c \in Cpu}

\* The allocator's lists are static data, so a restarted core is another
\* "core" of ModHeap.  Every segment is too long for the smallest pool.
ASSUME BootAssumption ==
    /\ Core = Cpu \X (0..MaxResets)
    /\ NDevice \in Nat \ {0} /\ NInfo \in Nat \ {0} /\ MaxResets \in Nat
    /\ Length \in Size /\ Length > BlockSize[0]
    /\ \A b \in Builds : DOMAIN b = Cpu
    /\ {Zero, Junk} \cap Build = {}

Info == 0..(NInfo - 1)

Channel == 0..NDevice       \* 0 is the default channel, i the one of device i

Test == <<0, "test">>

Name == {Test} \cup (Channel \X {"up", "down"})

ASSUME NilAssumption == {Nil, Junk} \cap (Core \cup Info \cup Name) = {} /\ Nil # Junk

\* The default channel of core 0 sends "down", its devices' channels "up".
SendName(c, n) == <<n, IF (c = 0) = (n = 0) THEN "down" ELSE "up">>

RecvName(c, n) == SendName(1 - c, n)

VARIABLES
    build,       \* build[c]: the driver that core c runs
    lock,        \* the word of s_mod_lock in the region
    area,        \* m_init_flag and the pools: Zero, Junk or a build
    infoFree,    \* m_free, head first
    info,        \* the infos: name, open bits, block
    kernel,      \* kernel[c]: static data of core c
    pc, at,      \* how far core c is, and with which channel
    holds,       \* core c is in a section under s_mod_lock
    life,        \* how often core c was started again
    hreset,      \* hreset[c]: how far core c is in hreset_peer
    overrun      \* history: core 0 cleared what core 1 was already using

region == <<lock, area, infoFree, info, heapVars>>
bootVars == <<build, region, kernel, pc, at, holds, life, hreset, overrun>>

EmptyInfo == [name |-> Nil, open |-> {}, mem |-> Nil]

FreshKernel ==
    [joined |-> FALSE,                      \* pshm_control_area is set
     hand   |-> [x \in Name |-> Nil],       \* the handles it keeps
     listed |-> {},                         \* channels message_isr knows
     cdev   |-> {}, irq |-> FALSE, synced |-> FALSE]

Entry(c) == IF c = 0 THEN "wipe_locks" ELSE "mod_init"

AllInfos == [i \in 1..NInfo |-> NInfo - i]

Init ==
    /\ InitHeap
    /\ build \in Builds
    /\ lock \in {Nil, Junk}
    /\ area \in {Zero, Junk} \cup Build     \* a build: from an earlier boot
    /\ infoFree = IF area \in Build THEN AllInfos ELSE <<>>
    /\ info = [h \in Info |-> EmptyInfo]
    /\ kernel = [c \in Cpu |-> FreshKernel]
    /\ pc = [c \in Cpu |-> Entry(c)]
    /\ at = [c \in Cpu |-> 0]
    /\ holds = [c \in Cpu |-> FALSE]
    /\ life = [c \in Cpu |-> 0]
    /\ hreset = [c \in Cpu |-> "none"]
    /\ overrun = FALSE

\* The core of ModHeap that c is now, and its mark in the lock word.
Me(c) == <<c, life[c]>>

Goto(c, l) == pc' = [pc EXCEPT ![c] = l]

Set(c, field, v) == kernel' = [kernel EXCEPT ![c][field] = v]

-----------------------------------------------------------------------------
(* init_mpi on core 0: memset over the lock words, then over the rest.     *)

Using(c) == holds[c] \/ kernel[c].joined

WipeLocks ==
    /\ pc[0] = "wipe_locks"
    /\ lock' = Nil
    /\ overrun' = (overrun \/ Using(1))
    /\ Goto(0, "wipe_area")
    /\ UNCHANGED <<build, area, infoFree, info, heapVars, kernel, at, holds, life, hreset>>

ClearHeaders ==
    /\ flag' = [b \in Block |-> FALSE]
    /\ mlen' = [b \in Block |-> 0]

WipeArea ==
    /\ pc[0] = "wipe_area"
    /\ area' = Zero
    /\ infoFree' = <<>>
    /\ info' = [h \in Info |-> EmptyInfo]
    /\ ClearHeaders
    /\ served' = {}
    /\ overrun' = (overrun \/ Using(1))
    /\ Goto(0, "mod_init")
    /\ UNCHANGED <<build, lock, free, busy, kernel, at, holds, life, hreset>>

-----------------------------------------------------------------------------
(* s_mod_lock.  The tests before it are guards of the actions that follow. *)

Initialising(c) ==
    \/ pc[c] = "mod_init"
    \/ pc[c] = "mod_again" /\ ~kernel[c].joined

Opening(c) == IF pc[c] = "test" THEN Test
              ELSE IF pc[c] = "send" THEN SendName(c, at[c]) ELSE RecvName(c, at[c])

Closing(c) == IF pc[c] \in {"undo", "close_send"} THEN SendName(c, at[c])
              ELSE RecvName(c, at[c])

OpenBit(c) ==
    LET h == kernel[c].hand[Closing(c)] IN h # Nil /\ c \in info[h].open

Take(c) ==
    /\ ~holds[c]
    /\ \/ Initialising(c)
       \/ pc[c] \in {"test", "send", "recv"} /\ kernel[c].joined
       \/ pc[c] \in {"undo", "close_send", "close_recv"} /\ OpenBit(c)
    /\ lock = Nil
    /\ lock' = Me(c)
    /\ holds' = [holds EXCEPT ![c] = TRUE]
    /\ UNCHANGED <<build, area, infoFree, info, heapVars, kernel, pc, at, life, hreset, overrun>>

DropKept(c) ==                      \* slip: returns with the lock held
    /\ holds[c]
    /\ UNCHANGED lock
    /\ holds' = [holds EXCEPT ![c] = FALSE]

Drop(c) ==
    /\ holds[c]
    /\ lock' = Nil
    /\ holds' = [holds EXCEPT ![c] = FALSE]

-----------------------------------------------------------------------------
(* mod_init.  utils_init calls it once more on core 0, which returns at    *)
(* once unless the first call was refused.                                 *)

AfterModInit(c) == IF c = 0 THEN "mod_again" ELSE "irq"

UninitialisedAlways == TRUE         \* slip: m_init_flag is not looked at

Uninitialised == area = Zero

Initialise(c) ==
    /\ Initialising(c) /\ Drop(c)
    /\ Uninitialised
    /\ area' = build[c]
    /\ infoFree' = AllInfos
    /\ ClearHeaders
    /\ Set(c, "joined", TRUE)
    /\ Goto(c, "test")
    /\ UNCHANGED <<build, info, free, busy, served, at, life, hreset, overrun>>

Join(c) ==
    /\ Initialising(c) /\ Drop(c)
    /\ ~Uninitialised /\ area = build[c]
    /\ Set(c, "joined", TRUE)
    /\ Goto(c, "test")
    /\ UNCHANGED <<build, area, infoFree, info, heapVars, at, life, hreset, overrun>>

Refuse(c) ==
    /\ Initialising(c) /\ Drop(c)
    /\ ~Uninitialised /\ area # build[c]
    /\ Goto(c, IF pc[c] = "mod_init" THEN AfterModInit(c) ELSE "irq")
    /\ UNCHANGED <<build, area, infoFree, info, heapVars, kernel, at, life, hreset, overrun>>

ModInitAgain(c) ==
    /\ pc[c] = "mod_again" /\ kernel[c].joined
    /\ Goto(c, "irq")
    /\ UNCHANGED <<build, region, kernel, at, holds, life, hreset, overrun>>

-----------------------------------------------------------------------------
(* mpi_shm_open and mpi_shm_close under the lock.                          *)

Found(x) == {h \in Info : info[h].name = x}

OpenSeg(c, x, h) ==
    \/ /\ h \in Found(x)
       /\ info' = [info EXCEPT ![h].open = @ \cup {c}]
       /\ UNCHANGED <<area, infoFree, heapVars>>
    \/ /\ Found(x) = {} /\ infoFree # <<>> /\ h = Head(infoFree)
       /\ \E b \in Block :
              /\ Malloc(Me(c), Length, b)
              /\ info' = [info EXCEPT ![h] = [name |-> x, open |-> {c}, mem |-> b]]
       /\ infoFree' = Tail(infoFree)
       /\ UNCHANGED area

CannotOpen(c, x) ==
    Found(x) = {} /\ (infoFree = <<>> \/ MallocFails(Me(c), Length))

\* A block goes back on the list of the core that closes, if mod_free takes it.
CloseSeg(c, h) ==
    IF info[h].open = {c}
    THEN /\ info' = [info EXCEPT ![h] = EmptyInfo]
         /\ infoFree' = <<h>> \o infoFree
         /\ Free(Me(c), info[h].mem)
    ELSE /\ info' = [info EXCEPT ![h].open = @ \ {c}]
         /\ UNCHANGED <<infoFree, heapVars>>

Opened(c) ==
    LET x == Opening(c) IN
    /\ pc[c] \in {"test", "send", "recv"}
    /\ Drop(c)
    /\ \E h \in Info : OpenSeg(c, x, h) /\ Set(c, "hand", [kernel[c].hand EXCEPT ![x] = h])
    /\ Goto(c, CASE pc[c] = "test" -> "send" [] pc[c] = "send" -> "recv" [] OTHER -> "register")
    /\ UNCHANGED <<build, at, life, hreset, overrun>>

(***************************************************************************)
(* mpi_default_channel_init returns without undoing anything, and the test *)
(* handle is not looked at; mpi_create_channel closes what it had opened.  *)
(***************************************************************************)
OnNoRecvForgets == "cleanup"        \* slip: the send segment stays open

OnNoRecv == "undo"

NotOpened(c) ==
    /\ pc[c] \in {"test", "send", "recv"}
    /\ Drop(c)
    /\ CannotOpen(c, Opening(c))
    /\ Goto(c, CASE pc[c] = "test"                 -> "send"
                 [] pc[c] # "test" /\ at[c] = 0    -> AfterModInit(c)
                 [] pc[c] = "send" /\ at[c] # 0    -> "cleanup"
                 [] pc[c] = "recv" /\ at[c] # 0    -> OnNoRecv)
    /\ UNCHANGED <<build, area, infoFree, info, heapVars, kernel, at, life, hreset, overrun>>

\* mpi_shm_open asserts pshm_control_area: BUG_ON where mod_init was refused.
OpenBug(c) ==
    /\ pc[c] = "send" /\ ~kernel[c].joined
    /\ Goto(c, "bug")
    /\ UNCHANGED <<build, region, kernel, at, holds, life, hreset, overrun>>

AfterClose(c) == IF pc[c] = "close_send" THEN "close_recv" ELSE "cleanup"

Closed(c) ==
    /\ pc[c] \in {"undo", "close_send", "close_recv"}
    /\ \/ Drop(c) /\ CloseSeg(c, kernel[c].hand[Closing(c)])
       \/ ~holds[c] /\ ~OpenBit(c) /\ UNCHANGED <<lock, holds, infoFree, info, heapVars>>
    /\ Set(c, "hand", [kernel[c].hand EXCEPT ![Closing(c)] = Nil])
    /\ Goto(c, AfterClose(c))
    /\ UNCHANGED <<build, area, at, life, hreset, overrun>>

-----------------------------------------------------------------------------
(* Registration, the interrupt, shm_init and shm_dev_cleanup.              *)

\* message_int_reg: the end of a channel's creation.
Register(c) ==
    /\ pc[c] = "register"
    /\ Set(c, "listed", kernel[c].listed \cup {at[c]})
    /\ IF at[c] = 0 THEN Goto(c, AfterModInit(c)) /\ UNCHANGED at
       ELSE IF at[c] = NDevice THEN Goto(c, "sync") /\ UNCHANGED at
       ELSE Goto(c, "setup") /\ at' = [at EXCEPT ![c] = @ + 1]
    /\ UNCHANGED <<build, region, holds, life, hreset, overrun>>

\* message_int_init.  Where it cannot have the interrupt it only prints, and no
\* message is delivered: as if none was sent.
InterruptOn(c) ==
    /\ pc[c] = "irq"
    /\ Set(c, "irq", TRUE)
    /\ Goto(c, "setup")
    /\ at' = [at EXCEPT ![c] = 1]
    /\ UNCHANGED <<build, region, holds, life, hreset, overrun>>

SetupDev(c) ==
    /\ pc[c] = "setup"
    /\ Set(c, "cdev", kernel[c].cdev \cup {at[c]})
    /\ Goto(c, "send")
    /\ UNCHANGED <<build, region, at, holds, life, hreset, overrun>>

\* alloc_chrdev_region, class_create, device_create or cdev_add fails.
SetupFails(c) ==
    /\ pc[c] = "setup"
    /\ Goto(c, "cleanup")
    /\ UNCHANGED <<build, region, kernel, at, holds, life, hreset, overrun>>

\* The semaphores, the wait queue and the list, after all the devices.
SyncInit(c) ==
    /\ pc[c] = "sync"
    /\ Set(c, "synced", TRUE)
    /\ Goto(c, "up")
    /\ UNCHANGED <<build, region, at, holds, life, hreset, overrun>>

ShmExit(c) ==
    /\ pc[c] = "up"
    /\ Goto(c, "cleanup")
    /\ UNCHANGED <<build, region, kernel, at, holds, life, hreset, overrun>>

Made(c) == kernel[c].listed \ {0}

Cleanup(c) ==
    /\ pc[c] = "cleanup"
    /\ IF Made(c) = {} THEN Goto(c, "down") /\ UNCHANGED <<kernel, at>>
       ELSE \E i \in Made(c) :
                /\ \A j \in Made(c) : i <= j
                /\ at' = [at EXCEPT ![c] = i]
                /\ kernel' = [kernel EXCEPT ![c].listed = @ \ {i}, ![c].cdev = @ \ {i}]
                /\ Goto(c, "close_send")
    /\ UNCHANGED <<build, region, holds, life, hreset, overrun>>

-----------------------------------------------------------------------------
(* What the other core does.                                               *)

(***************************************************************************)
(* message_isr on core c for channel n of the peer.  The handler dies if   *)
(* c has no control area (an assert of mpi_shm_get), if it wants the lock  *)
(* of the process under it, or if it wakes a wait queue shm_init has not   *)
(* reached.  Otherwise it changes nothing that is modelled here.           *)
(***************************************************************************)
Delivers(c, n) ==
    kernel[c].hand[RecvName(c, n)] = kernel[1 - c].hand[SendName(1 - c, n)]

MessageKills(c) ==
    /\ kernel[c].irq /\ pc[1 - c] = "up" /\ pc[c] \notin {"crashed", "reset"}
    /\ \E n \in kernel[1 - c].listed :
           \/ ~kernel[c].joined
           \/ holds[c]
           \/ n # 0 /\ n \in kernel[c].listed /\ Delivers(c, n) /\ ~kernel[c].synced
    /\ Goto(c, "crashed")
    /\ UNCHANGED <<build, region, kernel, at, holds, life, hreset, overrun>>

Running(c) == pc[c] \in {"up", "down", "bug"}

\* The processor reset register holds core c: what its kernel keeps is lost.
Held(c) ==
    /\ Goto(c, "reset")
    /\ kernel' = [kernel EXCEPT ![c] = FreshKernel]
    /\ holds' = [holds EXCEPT ![c] = FALSE]
    /\ at' = [at EXCEPT ![c] = 0]
    /\ UNCHANGED <<build, region, life, overrun>>

\* hreset_peer on the other core writes that register three times, with a delay
\* after each: hold, let go, hold again.
HoldReset(c) ==
    /\ Running(1 - c) /\ hreset[1 - c] = "none"
    /\ life[0] + life[1] < MaxResets
    /\ hreset' = [hreset EXCEPT ![1 - c] = "held", ![c] = "none"]
    /\ Held(c)

LetGo(c) ==
    /\ Running(1 - c) /\ hreset[1 - c] = "held"
    /\ hreset' = [hreset EXCEPT ![1 - c] = "released"]
    /\ life' = [life EXCEPT ![c] = @ + 1]
    /\ Goto(c, Entry(c))
    /\ UNCHANGED <<build, region, kernel, at, holds, overrun>>

HoldAgain(c) ==
    /\ Running(1 - c) /\ hreset[1 - c] = "released"
    /\ hreset' = [hreset EXCEPT ![1 - c] = "none", ![c] = "none"]
    /\ Held(c)

-----------------------------------------------------------------------------
Step(c) ==
    \/ c = 0 /\ (WipeLocks \/ WipeArea)
    \/ Take(c) \/ Initialise(c) \/ Join(c) \/ Refuse(c) \/ ModInitAgain(c)
    \/ Opened(c) \/ NotOpened(c) \/ OpenBug(c) \/ Closed(c)
    \/ Register(c) \/ InterruptOn(c) \/ SetupDev(c) \/ SetupFails(c)
    \/ SyncInit(c) \/ Cleanup(c)

Next ==
    \E c \in Cpu :
        Step(c) \/ ShmExit(c) \/ MessageKills(c) \/ HoldReset(c) \/ LetGo(c)
        \/ HoldAgain(c)

Fairness == \A c \in Cpu : WF_bootVars(Step(c))

Spec == Init /\ [][Next]_bootVars /\ Fairness

-----------------------------------------------------------------------------
TypeOK ==
    /\ HeapTypeOK
    /\ build \in Builds
    /\ lock \in Core \cup {Nil, Junk}
    /\ area \in {Zero, Junk} \cup Build
    /\ infoFree \in Seq(Info)
    /\ info \in [Info -> [name : Name \cup {Nil}, open : SUBSET Cpu, mem : Block \cup {Nil}]]
    /\ kernel \in [Cpu -> [joined : BOOLEAN, hand : [Name -> Info \cup {Nil}],
                           listed : SUBSET Channel, cdev : SUBSET (1..NDevice),
                           irq : BOOLEAN, synced : BOOLEAN]]
    /\ at \in [Cpu -> Channel]
    /\ holds \in [Cpu -> BOOLEAN]
    /\ life \in [Cpu -> 0..MaxResets]
    /\ hreset \in [Cpu -> {"none", "held", "released"}]
    /\ overrun \in BOOLEAN

\* A name leads both cores to one info, which has their bits, however their
\* starts and restarts interleave, as long as core 0 clears nothing core 1 is
\* using: the handle in a doorbell means the same on both sides (utils.c:603).
PeersPaired ==
    ~overrun =>
        \A c \in Cpu, x \in Name :
            LET h == kernel[c].hand[x] IN
            h # Nil => Found(x) = {h} /\ c \in info[h].open

\* Two segments have different blocks as long as one kernel has allocated since
\* the region was cleared.  A core that starts again counts as another kernel:
\* its lists say that all is free (shm.c:349).
BlocksApart ==
    (~overrun /\ \E k \in Core : served \subseteq {k}) =>
        \A g, h \in Info :
            info[g].name # Nil /\ info[h].name # Nil /\ g # h => info[g].mem # info[h].mem

\* After shm_exit, or a shm_init that failed, no channel of a device is open or
\* known to the handler.  Nothing else is left after shm_exit; after a failure
\* one cdev may be, that of the device whose channel failed (mpi_shm.c:340).
TeardownComplete ==
    \A c \in Cpu :
        pc[c] = "down" =>
            /\ kernel[c].listed \subseteq {0}
            /\ kernel[c].synced => kernel[c].cdev = {}
            /\ \A i, j \in kernel[c].cdev : i = j
            /\ (life[c] = 0 /\ ~overrun) =>
                   \A h \in Info : c \in info[h].open =>
                       info[h].name \in {Test, SendName(0, 0), SendName(1, 0)}

Stopped(c) == pc[c] \in {"crashed", "reset"}

\* Core 0 was stopped before it cleared the lock word, or the mark in it is that of
\* a core that was stopped before it gave the lock back, started again or not.
Abandoned ==
    \/ lock = Junk /\ Stopped(0)
    \/ \E c \in Cpu, n \in 0..MaxResets : lock = <<c, n>> /\ (n # life[c] \/ Stopped(c))

\* The assert on the null control area is left to core 1, which may come before
\* core 0 has cleared a dirty region, and to two different drivers.
Settled(c) ==
    \/ pc[c] \in {"up", "down"} \/ Stopped(c)
    \/ pc[c] = "bug" /\ (c = 1 \/ build[0] # build[1])

\* A core that starts comes up, goes down, is stopped, or meets the assert as
\* Settled says, unless s_mod_lock was left by a core that can no longer give it
\* back: no live core keeps the lock, the cores never wait for each other, and
\* the retry of mod_init ends.
BootCompletes == \A c \in Cpu : <>[](Settled(c) \/ Abandoned)
=============================================================================
