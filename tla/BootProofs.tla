------------------------------ MODULE BootProofs ------------------------------
(***************************************************************************)
(* Proofs about Boot, for any number of devices, infos, blocks and         *)
(* restarts, and whatever the region holds before core 0 clears it.        *)
(***************************************************************************)
EXTENDS Boot, ModHeapProofs

-----------------------------------------------------------------------------
(* Types.                                                                    *)

Places ==
    {"wipe_locks", "wipe_area", "mod_init", "mod_again", "test", "send", "recv",
     "register", "irq", "setup", "sync", "up", "undo", "cleanup", "close_send",
     "close_recv", "down", "bug", "crashed", "reset"}

Openings == {"test", "send", "recv"}
Closings == {"undo", "close_send", "close_recv"}

\* What a core's own steps keep up: it holds the lock only in the sections of
\* mod_init, mpi_shm_open and mpi_shm_close, the last two for what it has, and
\* it has no handle before mod_init.
Local(c) ==
    /\ pc[c] = "reset" => pc[1 - c] # "reset"
    /\ hreset[1 - c] = "held" => pc[c] = "reset" /\ life[0] + life[1] < MaxResets
    /\ pc[c] = "setup" => at[c] # 0
    /\ ~kernel[c].joined => \A x \in Name : kernel[c].hand[x] = Nil
    /\ holds[c] =>
           /\ pc[c] \in {"mod_init", "mod_again", "crashed"} \cup Openings \cup Closings
           /\ pc[c] = "mod_again" => ~kernel[c].joined
           /\ pc[c] \in Openings => kernel[c].joined
           /\ pc[c] \in Closings => kernel[c].hand[Closing(c)] \in Info

TypeInv ==
    /\ TypeOK
    /\ ListsPartition
    /\ pc \in [Cpu -> Places]
    /\ life[0] + life[1] <= MaxResets
    /\ \A c \in Cpu : Local(c)

Kernels ==
    [Cpu -> [joined : BOOLEAN, hand : [Name -> Info \cup {Nil}],
             listed : SUBSET Channel, cdev : SUBSET (1..NDevice),
             irq : BOOLEAN, synced : BOOLEAN]]

\* Only the static data of core c may be assigned to.
KernelOf(c) == kernel' \in Kernels /\ \A d \in Cpu : d # c => kernel'[d] = kernel[d]

(* What an assignment to one field of a kernel's static data leaves alone. *)
LEMMA SetKeeps ==
    ASSUME kernel \in Kernels, NEW c \in Cpu
    PROVE  /\ \A h \in [Name -> Info \cup {Nil}] : Set(c, "hand", h) =>
                  /\ KernelOf(c) /\ kernel'[c].hand = h
                  /\ kernel'[c].joined = kernel[c].joined
                  /\ kernel'[c].listed = kernel[c].listed
                  /\ kernel'[c].cdev = kernel[c].cdev
                  /\ kernel'[c].synced = kernel[c].synced
           /\ \A l \in SUBSET Channel : Set(c, "listed", l) =>
                  /\ KernelOf(c) /\ kernel'[c].listed = l
                  /\ kernel'[c].joined = kernel[c].joined
                  /\ kernel'[c].hand = kernel[c].hand
                  /\ kernel'[c].cdev = kernel[c].cdev
                  /\ kernel'[c].synced = kernel[c].synced
           /\ \A s \in SUBSET (1..NDevice) : Set(c, "cdev", s) =>
                  /\ KernelOf(c) /\ kernel'[c].cdev = s
                  /\ kernel'[c].joined = kernel[c].joined
                  /\ kernel'[c].hand = kernel[c].hand
                  /\ kernel'[c].listed = kernel[c].listed
                  /\ kernel'[c].synced = kernel[c].synced
<1>1. ASSUME NEW h \in [Name -> Info \cup {Nil}], Set(c, "hand", h)
      PROVE  /\ KernelOf(c) /\ kernel'[c].hand = h
             /\ kernel'[c].joined = kernel[c].joined
             /\ kernel'[c].listed = kernel[c].listed
             /\ kernel'[c].cdev = kernel[c].cdev
             /\ kernel'[c].synced = kernel[c].synced
  BY <1>1 DEF Set, Kernels, KernelOf
<1>2. ASSUME NEW l \in SUBSET Channel, Set(c, "listed", l)
      PROVE  /\ KernelOf(c) /\ kernel'[c].listed = l
             /\ kernel'[c].joined = kernel[c].joined
             /\ kernel'[c].hand = kernel[c].hand
             /\ kernel'[c].cdev = kernel[c].cdev
             /\ kernel'[c].synced = kernel[c].synced
  BY <1>2 DEF Set, Kernels, KernelOf
<1>3. ASSUME NEW s \in SUBSET (1..NDevice), Set(c, "cdev", s)
      PROVE  /\ KernelOf(c) /\ kernel'[c].cdev = s
             /\ kernel'[c].joined = kernel[c].joined
             /\ kernel'[c].hand = kernel[c].hand
             /\ kernel'[c].listed = kernel[c].listed
             /\ kernel'[c].synced = kernel[c].synced
  BY <1>3 DEF Set, Kernels, KernelOf
<1> QED  BY <1>1, <1>2, <1>3

(* The same for the flags, which are only ever set. *)
LEMMA FlagKeeps ==
    ASSUME kernel \in Kernels, NEW c \in Cpu
    PROVE  /\ Set(c, "joined", TRUE) =>
                  /\ KernelOf(c) /\ kernel'[c].joined
                  /\ kernel'[c].hand = kernel[c].hand
                  /\ kernel'[c].listed = kernel[c].listed
                  /\ kernel'[c].cdev = kernel[c].cdev
                  /\ kernel'[c].synced = kernel[c].synced
           /\ Set(c, "irq", TRUE) =>
                  /\ KernelOf(c)
                  /\ kernel'[c].joined = kernel[c].joined
                  /\ kernel'[c].hand = kernel[c].hand
                  /\ kernel'[c].listed = kernel[c].listed
                  /\ kernel'[c].cdev = kernel[c].cdev
                  /\ kernel'[c].synced = kernel[c].synced
           /\ Set(c, "synced", TRUE) =>
                  /\ KernelOf(c)
                  /\ kernel'[c].joined = kernel[c].joined
                  /\ kernel'[c].hand = kernel[c].hand
                  /\ kernel'[c].listed = kernel[c].listed
                  /\ kernel'[c].cdev = kernel[c].cdev
<1>1. ASSUME Set(c, "joined", TRUE)
      PROVE  /\ KernelOf(c) /\ kernel'[c].joined
             /\ kernel'[c].hand = kernel[c].hand
             /\ kernel'[c].listed = kernel[c].listed
             /\ kernel'[c].cdev = kernel[c].cdev
             /\ kernel'[c].synced = kernel[c].synced
  BY <1>1 DEF Set, Kernels, KernelOf
<1>2. ASSUME Set(c, "irq", TRUE)
      PROVE  /\ KernelOf(c)
             /\ kernel'[c].joined = kernel[c].joined
             /\ kernel'[c].hand = kernel[c].hand
             /\ kernel'[c].listed = kernel[c].listed
             /\ kernel'[c].cdev = kernel[c].cdev
             /\ kernel'[c].synced = kernel[c].synced
  BY <1>2 DEF Set, Kernels, KernelOf
<1>3. ASSUME Set(c, "synced", TRUE)
      PROVE  /\ KernelOf(c)
             /\ kernel'[c].joined = kernel[c].joined
             /\ kernel'[c].hand = kernel[c].hand
             /\ kernel'[c].listed = kernel[c].listed
             /\ kernel'[c].cdev = kernel[c].cdev
  BY <1>3 DEF Set, Kernels, KernelOf
<1> QED  BY <1>1, <1>2, <1>3

(* A core that starts again has nothing. *)
LEMMA FreshKeeps ==
    ASSUME kernel \in Kernels, NEW c \in Cpu,
           kernel' = [kernel EXCEPT ![c] = FreshKernel]
    PROVE  /\ KernelOf(c) /\ kernel'[c] = FreshKernel
           /\ ~kernel'[c].joined /\ ~kernel'[c].synced
           /\ \A x \in Name : kernel'[c].hand[x] = Nil
           /\ kernel'[c].listed = {} /\ kernel'[c].cdev = {}
BY DEF Kernels, KernelOf, FreshKernel

(* shm_dev_cleanup takes one channel off the list of the handler. *)
LEMMA CleanupKeeps ==
    ASSUME kernel \in Kernels, NEW c \in Cpu, NEW i \in Channel,
           kernel' = [kernel EXCEPT ![c].listed = @ \ {i}, ![c].cdev = @ \ {i}]
    PROVE  /\ KernelOf(c)
           /\ kernel'[c].listed = kernel[c].listed \ {i}
           /\ kernel'[c].cdev = kernel[c].cdev \ {i}
           /\ kernel'[c].joined = kernel[c].joined
           /\ kernel'[c].hand = kernel[c].hand
           /\ kernel'[c].synced = kernel[c].synced
BY DEF Kernels, KernelOf

(* The names a core opens and closes are names of segments. *)
LEMMA NamesOfCores ==
    ASSUME at \in [Cpu -> Channel], NEW c \in Cpu
    PROVE  /\ \A n \in Channel : SendName(c, n) \in Name /\ RecvName(c, n) \in Name
           /\ Opening(c) \in Name /\ Closing(c) \in Name
<1>1. Test \in Name /\ 1 - c \in Cpu
  BY DEF Name, Cpu
<1>2. \A d \in Cpu, n \in Channel : SendName(d, n) \in Name
  BY DEF Name, SendName, Cpu
<1>3. \A n \in Channel : SendName(c, n) \in Name /\ RecvName(c, n) \in Name
  BY <1>1, <1>2 DEF RecvName
<1>4. at[c] \in Channel
  OBVIOUS
<1> QED  BY <1>1, <1>3, <1>4 DEF Opening, Closing

(* Whatever is done with the heap, each core's lists partition the blocks. *)
LEMMA HeapKept ==
    ASSUME HeapTypeOK, ListsPartition, NEW k \in Core,
           \/ UNCHANGED heapVars
           \/ \E b \in Block : Malloc(k, Length, b)
           \/ \E b : Free(k, b)
           \/ ClearHeaders /\ served' \in SUBSET served /\ UNCHANGED <<free, busy>>
    PROVE  HeapTypeOK' /\ ListsPartition'
<1>1. CASE UNCHANGED heapVars
  BY <1>1 DEF heapVars, HeapTypeOK, ListsPartition
<1>2. ASSUME NEW b \in Block, Malloc(k, Length, b)
      PROVE  HeapTypeOK' /\ ListsPartition'
  BY <1>2, ListsMalloc, BootAssumption
<1>3. ASSUME NEW b, Free(k, b)
      PROVE  HeapTypeOK' /\ ListsPartition'
  <2>1. CASE FreeRejected(k, b)
    BY <2>1 DEF FreeRejected, heapVars, HeapTypeOK, ListsPartition
  <2>2. CASE FreeReturned(k, b)
    <3>1. b \in busy[k]
      BY <2>2 DEF FreeReturned, FreeAccepted
    <3>2. b \in Block
      BY <3>1 DEF HeapTypeOK
    <3> QED  BY <1>3, <3>2, ListsFree
  <2> QED  BY <1>3, <2>1, <2>2 DEF Free
<1>4. CASE ClearHeaders /\ served' \in SUBSET served /\ UNCHANGED <<free, busy>>
  BY <1>4 DEF ClearHeaders, HeapTypeOK, ListsPartition
<1> QED  BY <1>1, <1>2, <1>3, <1>4

-----------------------------------------------------------------------------
(* Each step keeps the types.                                                *)

RegionOK ==
    /\ HeapTypeOK /\ ListsPartition
    /\ lock \in Core \cup {Nil, Junk}
    /\ area \in {Zero, Junk} \cup Build
    /\ infoFree \in Seq(Info)
    /\ info \in [Info -> [name : Name \cup {Nil}, open : SUBSET Cpu, mem : Block \cup {Nil}]]

(* The parts of the types, by name. *)
LEMMA TypeParts ==
    TypeInv <=> /\ RegionOK /\ build \in Builds /\ kernel \in Kernels
                /\ at \in [Cpu -> Channel] /\ holds \in [Cpu -> BOOLEAN]
                /\ life \in [Cpu -> 0..MaxResets] /\ overrun \in BOOLEAN
                /\ hreset \in [Cpu -> {"none", "held", "released"}]
                /\ pc \in [Cpu -> Places] /\ life[0] + life[1] <= MaxResets
                /\ \A c \in Cpu : Local(c)
BY DEF TypeInv, TypeOK, RegionOK, Kernels

(* A core that runs is one of the cores of the allocator. *)
LEMMA MeCore == ASSUME TypeInv, NEW c \in Cpu PROVE Me(c) \in Core
<1>1. life[c] \in 0..MaxResets
  BY DEF TypeInv, TypeOK
<1> QED  BY <1>1, BootAssumption DEF Me

(* A step of core c that leaves it without the lock keeps the types. *)
LEMMA TypeStep ==
    ASSUME TypeInv, NEW c \in Cpu, NEW l \in Places \ {"reset"}, Goto(c, l),
           KernelOf(c), ~kernel'[c].joined => \A x \in Name : kernel'[c].hand[x] = Nil,
           NEW a \in Channel, at' = [at EXCEPT ![c] = a], l = "setup" => a # 0,
           holds' = [holds EXCEPT ![c] = FALSE],
           RegionOK', UNCHANGED <<build, life>>, UNCHANGED hreset, overrun' \in BOOLEAN,
           pc[c] # "reset"
    PROVE  TypeInv'
<1>0. /\ kernel \in Kernels /\ at \in [Cpu -> Channel] /\ holds \in [Cpu -> BOOLEAN]
      /\ life \in [Cpu -> 0..MaxResets] /\ pc \in [Cpu -> Places]
      /\ build \in Builds /\ life[0] + life[1] <= MaxResets
      /\ \A d \in Cpu : Local(d)
  BY TypeParts
<1>1. /\ at' \in [Cpu -> Channel] /\ holds' \in [Cpu -> BOOLEAN]
      /\ pc' \in [Cpu -> Places] /\ kernel' \in Kernels
      /\ build' \in Builds /\ life' \in [Cpu -> 0..MaxResets]
      /\ life'[0] + life'[1] <= MaxResets
  BY <1>0 DEF Goto, KernelOf
<1>2. /\ pc'[c] = l /\ at'[c] = a /\ holds'[c] = FALSE
      /\ \A d \in Cpu : d # c => pc'[d] = pc[d] /\ at'[d] = at[d] /\ holds'[d] = holds[d]
                                 /\ kernel'[d] = kernel[d]
  BY <1>0 DEF Goto, KernelOf
<1>3. Local(c)'
  <2>1. Local(c)
    BY <1>0
  <2> QED  BY <1>1, <1>2, <2>1 DEF Local
<1>4. ASSUME NEW d \in Cpu, d # c PROVE Local(d)'
  <2>1. Local(d) /\ 1 - d = c
    BY <1>0, <1>4 DEF Cpu
  <2>2. Closing(d)' = Closing(d)
    BY <1>2, <1>4 DEF Closing, RecvName, SendName
  <2> QED  BY <1>2, <1>4, <2>1, <2>2 DEF Local
<1>5. \A d \in Cpu : Local(d)'
  BY <1>3, <1>4
<1>6. hreset' \in [Cpu -> {"none", "held", "released"}]
  BY TypeParts
<1> QED  BY <1>1, <1>5, <1>6 DEF TypeInv, TypeOK, RegionOK, Kernels

(* Core 0 clears the region. *)
LEMMA WipeTypes == TypeInv /\ (WipeLocks \/ WipeArea) => TypeInv'
<1> SUFFICES ASSUME TypeInv, WipeLocks \/ WipeArea PROVE TypeInv'
  OBVIOUS
<1>1. /\ RegionOK /\ kernel \in Kernels /\ at \in [Cpu -> Channel]
      /\ holds \in [Cpu -> BOOLEAN] /\ overrun \in BOOLEAN
      /\ Local(0) /\ 0 \in Cpu /\ Me(0) \in Core
  BY TypeParts, MeCore DEF Cpu
<1>2. pc[0] \in {"wipe_locks", "wipe_area"}
  BY DEF WipeLocks, WipeArea
<1>3. /\ ~holds[0]
      /\ ~kernel[0].joined => \A x \in Name : kernel[0].hand[x] = Nil
  BY <1>1, <1>2 DEF Local, Openings, Closings
<1>4. /\ KernelOf(0) /\ kernel'[0] = kernel[0]
      /\ at' = [at EXCEPT ![0] = at[0]] /\ at[0] \in Channel
      /\ holds' = [holds EXCEPT ![0] = FALSE]
      /\ overrun' \in BOOLEAN /\ UNCHANGED <<build, life>> /\ UNCHANGED hreset
      /\ pc[0] # "reset"
  BY <1>1, <1>2, <1>3 DEF WipeLocks, WipeArea, KernelOf, Using, Cpu, Kernels
<1>5. CASE WipeLocks
  <2>1. RegionOK'
    BY <1>1, <1>5, HeapKept DEF WipeLocks, RegionOK
  <2>2. Goto(0, "wipe_area") /\ "wipe_area" \in Places \ {"reset"}
    BY <1>5 DEF WipeLocks, Places
  <2>3. ~kernel'[0].joined => \A x \in Name : kernel'[0].hand[x] = Nil
    BY <1>3, <1>4
  <2> QED  BY <1>1, <1>4, <2>1, <2>2, <2>3, TypeStep
<1>6. CASE WipeArea
  <2>1. HeapTypeOK' /\ ListsPartition'
    <3>1. ClearHeaders /\ served' \in SUBSET served /\ UNCHANGED <<free, busy>>
      BY <1>6 DEF WipeArea
    <3> QED  BY <1>1, <3>1, HeapKept DEF RegionOK
  <2>2. RegionOK'
    BY <1>1, <1>6, <2>1 DEF WipeArea, RegionOK, EmptyInfo
  <2>3. Goto(0, "mod_init") /\ "mod_init" \in Places \ {"reset"}
    BY <1>6 DEF WipeArea, Places
  <2>4. ~kernel'[0].joined => \A x \in Name : kernel'[0].hand[x] = Nil
    BY <1>3, <1>4
  <2> QED  BY <1>1, <1>4, <2>2, <2>3, <2>4, TypeStep
<1> QED  BY <1>5, <1>6

(* The lock is taken for a section whose needs are there. *)
LEMMA TakeTypes ==
    ASSUME TypeInv, NEW c \in Cpu, Take(c)
    PROVE  TypeInv'
<1>0. /\ RegionOK /\ kernel \in Kernels /\ at \in [Cpu -> Channel]
      /\ holds \in [Cpu -> BOOLEAN] /\ pc \in [Cpu -> Places]
      /\ \A d \in Cpu : Local(d)
  BY TypeParts
<1>1. /\ UNCHANGED <<build, area, infoFree, info, heapVars, kernel, pc, at, life, hreset, overrun>>
      /\ lock' = Me(c) /\ holds' = [holds EXCEPT ![c] = TRUE]
      /\ \/ Initialising(c)
         \/ pc[c] \in {"test", "send", "recv"} /\ kernel[c].joined
         \/ pc[c] \in {"undo", "close_send", "close_recv"} /\ OpenBit(c)
  BY DEF Take
<1>2. RegionOK'
  BY <1>0, <1>1, HeapKept, MeCore DEF RegionOK
<1>3. holds' \in [Cpu -> BOOLEAN] /\ \A d \in Cpu : d # c => holds'[d] = holds[d]
  BY <1>0, <1>1
<1>4. Local(c)'
  <2>1. Closing(c)' = Closing(c) /\ Closing(c) \in Name
    BY <1>0, <1>1, NamesOfCores DEF Closing, RecvName, SendName
  <2>2. OpenBit(c) => kernel[c].hand[Closing(c)] \in Info
    BY <1>0, <2>1 DEF OpenBit, Kernels
  <2> QED  BY <1>0, <1>1, <2>1, <2>2 DEF Local, Initialising, Openings, Closings
<1>5. ASSUME NEW d \in Cpu, d # c PROVE Local(d)'
  <2>1. Closing(d)' = Closing(d)
    BY <1>1 DEF Closing, RecvName, SendName
  <2>2. Local(d)
    BY <1>0
  <2> QED  BY <1>1, <1>3, <1>5, <2>1, <2>2 DEF Local
<1> QED  BY <1>0, <1>1, <1>2, <1>3, <1>4, <1>5, TypeParts DEF TypeInv, TypeOK, RegionOK, Kernels

(* The end of a section under the lock, as far as types go. *)
LEMMA DropTypes ==
    ASSUME TypeInv, NEW c \in Cpu, Drop(c)
    PROVE  /\ lock' \in Core \cup {Nil, Junk} /\ holds[c]
           /\ holds' = [holds EXCEPT ![c] = FALSE]
           /\ Local(c) /\ kernel \in Kernels /\ RegionOK /\ at \in [Cpu -> Channel]
BY TypeParts DEF Drop

(* mod_init, joining, refusing or trying again. *)
LEMMA InitTypes ==
    ASSUME TypeInv, NEW c \in Cpu,
           Initialise(c) \/ Join(c) \/ Refuse(c) \/ ModInitAgain(c)
    PROVE  TypeInv'
<1>0. /\ RegionOK /\ kernel \in Kernels /\ at \in [Cpu -> Channel] /\ at[c] \in Channel
      /\ holds \in [Cpu -> BOOLEAN] /\ overrun \in BOOLEAN /\ build \in Builds
      /\ Local(c) /\ Me(c) \in Core
  BY TypeParts, MeCore
<1>1. /\ at' = [at EXCEPT ![c] = at[c]] /\ overrun' \in BOOLEAN
      /\ UNCHANGED <<build, life, hreset>> /\ pc[c] # "reset"
  BY <1>0 DEF Initialise, Join, Refuse, ModInitAgain, Initialising
<1>2. build[c] \in Build
  BY <1>0 DEF Build
<1>3. {"test", "irq", AfterModInit(c)} \subseteq Places \ {"reset", "setup"}
  BY DEF Places, AfterModInit
<1>4. CASE Initialise(c)
  <2>1. /\ KernelOf(c) /\ kernel'[c].joined
        /\ holds' = [holds EXCEPT ![c] = FALSE] /\ Goto(c, "test")
    BY <1>0, <1>4, FlagKeeps DEF Initialise, Drop
  <2>2. HeapTypeOK' /\ ListsPartition'
    <3>1. ClearHeaders /\ served' \in SUBSET served /\ UNCHANGED <<free, busy>>
      BY <1>4 DEF Initialise
    <3> QED  BY <1>0, <3>1, HeapKept DEF RegionOK
  <2>3. AllInfos \in Seq(Info)
    <3>1. NInfo \in Nat /\ \A i \in 1..NInfo : NInfo - i \in Info
      BY BootAssumption DEF Info
    <3> QED  BY <3>1 DEF AllInfos
  <2>4. RegionOK'
    BY <1>0, <1>2, <1>4, <2>2, <2>3, DropTypes DEF RegionOK, Initialise
  <2> QED  BY <1>0, <1>1, <1>3, <2>1, <2>4, TypeStep
<1>5. CASE Join(c)
  <2>1. /\ KernelOf(c) /\ kernel'[c].joined
        /\ holds' = [holds EXCEPT ![c] = FALSE] /\ Goto(c, "test")
    BY <1>0, <1>5, FlagKeeps DEF Join, Drop
  <2>2. RegionOK'
    BY <1>0, <1>5, HeapKept, DropTypes DEF RegionOK, Join
  <2> QED  BY <1>0, <1>1, <1>3, <2>1, <2>2, TypeStep
<1>6. CASE Refuse(c)
  <2>1. PICK l \in Places \ {"reset", "setup"} : Goto(c, l)
    BY <1>3, <1>6 DEF Refuse
  <2>2. /\ KernelOf(c) /\ kernel' = kernel /\ holds' = [holds EXCEPT ![c] = FALSE]
    BY <1>0, <1>6 DEF Refuse, Drop, KernelOf
  <2>3. RegionOK'
    BY <1>0, <1>6, HeapKept, DropTypes DEF RegionOK, Refuse
  <2>4. ~kernel'[c].joined => \A x \in Name : kernel'[c].hand[x] = Nil
    BY <1>0, <2>2 DEF Local
  <2> QED  BY <1>0, <1>1, <2>1, <2>2, <2>3, <2>4, TypeStep
<1>7. CASE ModInitAgain(c)
  <2>1. Goto(c, "irq") /\ ~holds[c]
    BY <1>0, <1>7 DEF ModInitAgain, Local
  <2>2. /\ KernelOf(c) /\ kernel'[c].joined /\ holds' = [holds EXCEPT ![c] = FALSE]
    BY <1>0, <1>7, <2>1 DEF ModInitAgain, KernelOf
  <2>3. RegionOK'
    BY <1>0, <1>7, HeapKept DEF RegionOK, ModInitAgain, region
  <2> QED  BY <1>0, <1>1, <1>3, <2>1, <2>2, <2>3, TypeStep
<1> QED  BY <1>4, <1>5, <1>6, <1>7

(* mpi_shm_open gives a core an info of the region, or leaves all as it was. *)
LEMMA OpenTypes ==
    ASSUME TypeInv, NEW c \in Cpu, Opened(c) \/ NotOpened(c) \/ OpenBug(c)
    PROVE  TypeInv'
<1>0. /\ RegionOK /\ kernel \in Kernels /\ at \in [Cpu -> Channel] /\ at[c] \in Channel
      /\ holds \in [Cpu -> BOOLEAN] /\ overrun \in BOOLEAN
      /\ Local(c) /\ Me(c) \in Core
  BY TypeParts, MeCore
<1>1. /\ at' = [at EXCEPT ![c] = at[c]] /\ overrun' \in BOOLEAN
      /\ UNCHANGED <<build, life, hreset>> /\ pc[c] # "reset"
  BY <1>0 DEF Opened, NotOpened, OpenBug
<1>2. CASE Opened(c)
  <2> DEFINE x == Opening(c)
  <2>1. PICK h \in Info : OpenSeg(c, x, h) /\ Set(c, "hand", [kernel[c].hand EXCEPT ![x] = h])
    BY <1>2 DEF Opened
  <2>2. x \in Name
    BY <1>0, NamesOfCores
  <2>3. [kernel[c].hand EXCEPT ![x] = h] \in [Name -> Info \cup {Nil}]
    BY <1>0 DEF Kernels
  <2>4. KernelOf(c) /\ kernel'[c].joined = kernel[c].joined
    BY <1>0, <2>1, <2>3, SetKeeps
  <2>5. Drop(c) /\ pc[c] \in Openings
    BY <1>2 DEF Opened, Openings
  <2>6. holds' = [holds EXCEPT ![c] = FALSE] /\ kernel[c].joined
    BY <1>0, <2>5 DEF Drop, Local
  <2>7. Goto(c, "send") \/ Goto(c, "recv") \/ Goto(c, "register")
    BY <1>2 DEF Opened
  <2>8. PICK l \in Places \ {"reset", "setup"} : Goto(c, l)
    BY <2>7 DEF Places
  <2> HIDE DEF x
  <2>9. HeapTypeOK' /\ ListsPartition'
    <3>1. UNCHANGED heapVars \/ \E b \in Block : Malloc(Me(c), Length, b)
      BY <2>1 DEF OpenSeg
    <3> QED  BY <1>0, <3>1, HeapKept DEF RegionOK
  <2>10. infoFree' \in Seq(Info) /\ area' = area
    <3>1. infoFree \in Seq(Info)
      BY <1>0 DEF RegionOK
    <3>2. infoFree # <<>> => Tail(infoFree) \in Seq(Info)
      BY <3>1
    <3> QED  BY <2>1, <3>1, <3>2 DEF OpenSeg
  <2>11. info' \in [Info -> [name : Name \cup {Nil}, open : SUBSET Cpu, mem : Block \cup {Nil}]]
    <3>1. CASE info' = [info EXCEPT ![h].open = @ \cup {c}]
      BY <1>0, <3>1 DEF RegionOK
    <3>2. CASE \E b \in Block : info' = [info EXCEPT ![h] = [name |-> x, open |-> {c}, mem |-> b]]
      BY <1>0, <2>2, <3>2 DEF RegionOK
    <3> QED  BY <2>1, <3>1, <3>2 DEF OpenSeg
  <2>12. RegionOK'
    BY <1>0, <2>5, <2>9, <2>10, <2>11, DropTypes DEF RegionOK
  <2> QED  BY <1>0, <1>1, <2>4, <2>6, <2>8, <2>12, TypeStep
<1>3. CASE NotOpened(c)
  <2>1. Drop(c) /\ pc[c] \in Openings
    BY <1>3 DEF NotOpened, Openings
  <2>2. holds' = [holds EXCEPT ![c] = FALSE] /\ kernel[c].joined
    BY <1>0, <2>1 DEF Drop, Local
  <2>3. Goto(c, "send") \/ Goto(c, AfterModInit(c)) \/ Goto(c, "cleanup") \/ Goto(c, OnNoRecv)
    BY <1>3 DEF NotOpened
  <2>4. PICK l \in Places \ {"reset", "setup"} : Goto(c, l)
    BY <2>3 DEF Places, AfterModInit, OnNoRecv
  <2>5. KernelOf(c) /\ kernel' = kernel
    BY <1>0, <1>3 DEF NotOpened, KernelOf
  <2>6. RegionOK'
    BY <1>0, <1>3, HeapKept, <2>1, DropTypes DEF RegionOK, NotOpened
  <2> QED  BY <1>0, <1>1, <2>2, <2>4, <2>5, <2>6, TypeStep
<1>4. CASE OpenBug(c)
  <2>1. Goto(c, "bug") /\ "bug" \in Places \ {"reset", "setup"} /\ ~holds[c]
    BY <1>0, <1>4 DEF OpenBug, Local, Places, Openings
  <2>2. /\ KernelOf(c) /\ kernel' = kernel /\ holds' = [holds EXCEPT ![c] = FALSE]
    BY <1>0, <1>4, <2>1 DEF OpenBug, KernelOf
  <2>3. ~kernel'[c].joined => \A x \in Name : kernel'[c].hand[x] = Nil
    BY <1>0, <2>2 DEF Local
  <2>4. RegionOK'
    BY <1>0, <1>4, HeapKept DEF RegionOK, OpenBug, region
  <2> QED  BY <1>0, <1>1, <2>1, <2>2, <2>3, <2>4, TypeStep
<1> QED  BY <1>2, <1>3, <1>4

(* mpi_shm_close takes the core's bit away, and the info with the last bit. *)
LEMMA CloseTypes ==
    ASSUME TypeInv, NEW c \in Cpu, Closed(c)
    PROVE  TypeInv'
<1>0. /\ RegionOK /\ kernel \in Kernels /\ at \in [Cpu -> Channel] /\ at[c] \in Channel
      /\ holds \in [Cpu -> BOOLEAN] /\ overrun \in BOOLEAN
      /\ Local(c) /\ Me(c) \in Core
  BY TypeParts, MeCore
<1> DEFINE h == kernel[c].hand[Closing(c)]
<1>1. /\ at' = [at EXCEPT ![c] = at[c]] /\ overrun' \in BOOLEAN /\ area' = area
      /\ UNCHANGED <<build, life, hreset>> /\ pc[c] \in Closings /\ pc[c] # "reset"
  BY <1>0 DEF Closed, Closings
<1>2. PICK l \in Places \ {"reset", "setup"} : Goto(c, l)
  BY DEF Closed, AfterClose, Places
<1>3. /\ KernelOf(c) /\ kernel'[c].joined = kernel[c].joined
      /\ kernel'[c].hand = [kernel[c].hand EXCEPT ![Closing(c)] = Nil]
  <2>1. [kernel[c].hand EXCEPT ![Closing(c)] = Nil] \in [Name -> Info \cup {Nil}]
    BY <1>0 DEF Kernels
  <2> QED  BY <1>0, <2>1, SetKeeps DEF Closed
<1>4. ~kernel'[c].joined => \A x \in Name : kernel'[c].hand[x] = Nil
  BY <1>0, <1>3 DEF Local, Kernels
<1>5. CASE Drop(c) /\ CloseSeg(c, h)
  <2>1. h \in Info
    BY <1>0, <1>1, <1>5 DEF Drop, Local
  <2>2. holds' = [holds EXCEPT ![c] = FALSE]
    BY <1>5 DEF Drop
  <2> HIDE DEF h
  <2>3. UNCHANGED heapVars \/ \E b : Free(Me(c), b)
    BY <1>5 DEF CloseSeg
  <2>4. HeapTypeOK' /\ ListsPartition'
    BY <1>0, <2>3, HeapKept DEF RegionOK
  <2>5. infoFree' \in Seq(Info)
    <3>1. infoFree' = <<h>> \o infoFree \/ infoFree' = infoFree
      BY <1>5 DEF CloseSeg
    <3>2. infoFree \in Seq(Info) /\ <<h>> \in Seq(Info)
      BY <1>0, <2>1 DEF RegionOK
    <3>3. <<h>> \o infoFree \in Seq(Info)
      BY <3>2
    <3> QED  BY <3>1, <3>2, <3>3
  <2>6. info' \in [Info -> [name : Name \cup {Nil}, open : SUBSET Cpu, mem : Block \cup {Nil}]]
    <3> DEFINE R == [name : Name \cup {Nil}, open : SUBSET Cpu, mem : Block \cup {Nil}]
    <3>1. \/ info' = [info EXCEPT ![h] = EmptyInfo]
          \/ info' = [info EXCEPT ![h].open = @ \ {c}]
      BY <1>5 DEF CloseSeg
    <3>2. info \in [Info -> R]
      BY <1>0 DEF RegionOK
    <3>3. EmptyInfo \in R
      BY DEF EmptyInfo
    <3>4. [info[h] EXCEPT !.open = info[h].open \ {c}] \in R
      BY <2>1, <3>2
    <3> HIDE DEF R
    <3>5. ASSUME info' = [info EXCEPT ![h] = EmptyInfo] PROVE info' \in [Info -> R]
      BY <2>1, <3>2, <3>3, <3>5
    <3>6. ASSUME info' = [info EXCEPT ![h].open = @ \ {c}] PROVE info' \in [Info -> R]
      BY <2>1, <3>2, <3>4, <3>6
    <3>7. info' \in [Info -> R]
      BY <3>1, <3>5, <3>6
    <3> QED  BY <3>7 DEF R
  <2>7. RegionOK'
    BY <1>0, <1>1, <1>5, <2>4, <2>5, <2>6, DropTypes DEF RegionOK
  <2> QED  BY <1>0, <1>1, <1>2, <1>3, <1>4, <2>2, <2>7, TypeStep
<1>6. CASE ~holds[c] /\ ~OpenBit(c) /\ UNCHANGED <<lock, holds, infoFree, info, heapVars>>
  <2>1. holds' = [holds EXCEPT ![c] = FALSE]
    BY <1>0, <1>6
  <2>2. RegionOK'
    BY <1>0, <1>1, <1>6, HeapKept DEF RegionOK
  <2> QED  BY <1>0, <1>1, <1>2, <1>3, <1>4, <2>1, <2>2, TypeStep
<1> QED  BY <1>5, <1>6 DEF Closed

(* The steps outside the lock, over the devices. *)
LEMMA DeviceTypes ==
    ASSUME TypeInv, NEW c \in Cpu,
           \/ Register(c) \/ InterruptOn(c) \/ SetupDev(c) \/ SetupFails(c)
           \/ SyncInit(c) \/ Cleanup(c) \/ ShmExit(c)
    PROVE  TypeInv'
<1>0. /\ RegionOK /\ kernel \in Kernels /\ at \in [Cpu -> Channel] /\ at[c] \in Channel
      /\ holds \in [Cpu -> BOOLEAN] /\ overrun \in BOOLEAN
      /\ Local(c) /\ Me(c) \in Core
      /\ ~kernel[c].joined => \A x \in Name : kernel[c].hand[x] = Nil
  BY TypeParts, MeCore DEF Local
<1>1. pc[c] \in {"register", "irq", "setup", "sync", "up", "cleanup"}
  BY DEF Register, InterruptOn, SetupDev, SetupFails, SyncInit, Cleanup, ShmExit
<1>2. UNCHANGED <<build, region, holds, life, hreset, overrun>>
  BY DEF Register, InterruptOn, SetupDev, SetupFails, SyncInit, Cleanup, ShmExit
<1>3. holds' = [holds EXCEPT ![c] = FALSE]
  BY <1>0, <1>1, <1>2 DEF Local, Openings, Closings
<1>4. RegionOK' /\ overrun' \in BOOLEAN
  BY <1>0, <1>2, HeapKept DEF RegionOK, region
<1>5. /\ KernelOf(c)
      /\ kernel'[c].joined = kernel[c].joined /\ kernel'[c].hand = kernel[c].hand
  <2>1. CASE Register(c)
    <3>1. kernel[c].listed \cup {at[c]} \in SUBSET Channel
      BY <1>0 DEF Kernels
    <3> QED  BY <1>0, <2>1, <3>1, SetKeeps DEF Register
  <2>2. CASE InterruptOn(c)
    BY <1>0, <2>2, FlagKeeps DEF InterruptOn
  <2>3. CASE SetupDev(c)
    <3>1. at[c] # 0
      BY <1>0, <2>3 DEF SetupDev, Local
    <3>2. kernel[c].cdev \cup {at[c]} \in SUBSET (1..NDevice)
      <4>1. kernel[c].cdev \in SUBSET (1..NDevice)
        BY <1>0 DEF Kernels
      <4>2. at[c] \in 1..NDevice
        BY <1>0, <3>1, BootAssumption DEF Channel
      <4> QED  BY <4>1, <4>2
    <3> QED  BY <1>0, <2>3, <3>2, SetKeeps DEF SetupDev
  <2>4. CASE SetupFails(c) \/ ShmExit(c)
    BY <1>0, <2>4 DEF SetupFails, ShmExit, KernelOf
  <2>5. CASE SyncInit(c)
    BY <1>0, <2>5, FlagKeeps DEF SyncInit
  <2>6. CASE Cleanup(c)
    <3>1. \/ kernel' = kernel
          \/ \E i \in Made(c) : kernel' = [kernel EXCEPT ![c].listed = @ \ {i}, ![c].cdev = @ \ {i}]
      BY <2>6 DEF Cleanup
    <3>2. Made(c) \subseteq Channel
      BY <1>0 DEF Made, Kernels
    <3> QED  BY <1>0, <3>1, <3>2, CleanupKeeps DEF KernelOf
  <2> QED  BY <2>1, <2>2, <2>3, <2>4, <2>5, <2>6
<1>6. \E l \in Places \ {"reset"}, a \in Channel :
          Goto(c, l) /\ at' = [at EXCEPT ![c] = a] /\ (l = "setup" => a # 0)
  <2>0. at = [at EXCEPT ![c] = at[c]] /\ 1 \in Channel
    BY <1>0, BootAssumption DEF Channel
  <2>1. CASE Register(c)
    <3>1. CASE at[c] = 0
      <4>1. Goto(c, AfterModInit(c)) /\ AfterModInit(c) \in Places \ {"reset", "setup"} /\ at' = at
        BY <2>1, <3>1 DEF Register, AfterModInit, Places
      <4> QED  BY <1>0, <2>0, <4>1
    <3>2. CASE at[c] # 0 /\ at[c] = NDevice
      <4>1. Goto(c, "sync") /\ "sync" \in Places \ {"reset", "setup"} /\ at' = at
        BY <2>1, <3>2 DEF Register, Places
      <4> QED  BY <1>0, <2>0, <4>1
    <3>3. CASE at[c] # 0 /\ at[c] # NDevice
      <4>1. /\ Goto(c, "setup") /\ "setup" \in Places \ {"reset"}
            /\ at' = [at EXCEPT ![c] = at[c] + 1]
        BY <2>1, <3>3 DEF Register, Places
      <4>2. at[c] + 1 \in Channel /\ at[c] + 1 # 0
        BY <1>0, <3>3, BootAssumption DEF Channel
      <4> QED  BY <4>1, <4>2
    <3> QED  BY <3>1, <3>2, <3>3
  <2>2. CASE InterruptOn(c)
    <3>1. Goto(c, "setup") /\ "setup" \in Places \ {"reset"} /\ at' = [at EXCEPT ![c] = 1]
      BY <2>2 DEF InterruptOn, Places
    <3>2. 1 \in Channel /\ 1 # 0
      BY <2>0
    <3> QED  BY <3>1, <3>2
  <2>3. CASE SetupDev(c)
    BY <1>0, <2>0, <2>3 DEF SetupDev, Places
  <2>4. CASE SetupFails(c) \/ ShmExit(c)
    BY <1>0, <2>0, <2>4 DEF SetupFails, ShmExit, Places
  <2>5. CASE SyncInit(c)
    BY <1>0, <2>0, <2>5 DEF SyncInit, Places
  <2>6. CASE Cleanup(c) /\ Made(c) = {}
    BY <1>0, <2>0, <2>6 DEF Cleanup, Places
  <2>7. CASE Cleanup(c) /\ Made(c) # {}
    <3>1. PICK i \in Made(c) : at' = [at EXCEPT ![c] = i] /\ Goto(c, "close_send")
      BY <2>7 DEF Cleanup
    <3>2. i \in Channel /\ "close_send" \in Places \ {"reset", "setup"}
      BY <1>0 DEF Made, Kernels, Places
    <3> QED  BY <3>1, <3>2
  <2> QED  BY <2>1, <2>2, <2>3, <2>4, <2>5, <2>6, <2>7
<1>7. /\ ~kernel'[c].joined => \A x \in Name : kernel'[c].hand[x] = Nil
      /\ pc[c] # "reset"
  BY <1>0, <1>1, <1>5
<1>8. UNCHANGED <<build, life>> /\ UNCHANGED hreset /\ KernelOf(c)
  BY <1>2, <1>5
<1> QED  BY <1>3, <1>4, <1>6, <1>7, <1>8, TypeStep

(* A message kills the core, or the other core holds it in reset. *)
LEMMA ResetTypes ==
    ASSUME TypeInv, NEW c \in Cpu, MessageKills(c) \/ HoldReset(c) \/ LetGo(c) \/ HoldAgain(c)
    PROVE  TypeInv'
<1>0. /\ RegionOK /\ kernel \in Kernels /\ at \in [Cpu -> Channel]
      /\ holds \in [Cpu -> BOOLEAN] /\ pc \in [Cpu -> Places]
      /\ life \in [Cpu -> 0..MaxResets] /\ life[0] + life[1] <= MaxResets
      /\ build \in Builds /\ overrun \in BOOLEAN
      /\ hreset \in [Cpu -> {"none", "held", "released"}]
      /\ \A d \in Cpu : Local(d)
  BY TypeParts
<1>1. UNCHANGED <<build, region, overrun>>
  BY DEF MessageKills, HoldReset, LetGo, HoldAgain, Held
<1>2. RegionOK' /\ overrun' \in BOOLEAN /\ build' \in Builds
  BY <1>0, <1>1, HeapKept, MeCore DEF RegionOK, region
<1>3. \A d \in Cpu : at'[d] = at[d] => Closing(d)' = IF pc'[d] \in {"undo", "close_send"}
                                                      THEN SendName(d, at[d]) ELSE RecvName(d, at[d])
  BY DEF Closing, RecvName, SendName
<1>4. CASE MessageKills(c)
  <2>1. /\ pc' = [pc EXCEPT ![c] = "crashed"] /\ pc[c] # "reset"
        /\ UNCHANGED <<kernel, at, holds, life, hreset>>
    BY <1>4 DEF MessageKills, Goto
  <2>2. pc' \in [Cpu -> Places] /\ pc'[c] = "crashed" /\ \A d \in Cpu : d # c => pc'[d] = pc[d]
    BY <1>0, <2>1 DEF Places
  <2>3. Local(c)'
    BY <1>0, <2>1, <2>2 DEF Local, Openings, Closings
  <2>4. ASSUME NEW d \in Cpu, d # c PROVE Local(d)'
    <3>1. Local(d) /\ 1 - d = c
      BY <1>0, <2>4 DEF Cpu
    <3>2. Closing(d)' = Closing(d)
      BY <1>3, <2>1, <2>2, <2>4 DEF Closing
    <3> QED  BY <2>1, <2>2, <2>4, <3>1, <3>2 DEF Local
  <2>5. \A d \in Cpu : Local(d)'
    BY <2>3, <2>4
  <2> QED  BY <1>0, <1>2, <2>1, <2>2, <2>5 DEF TypeInv, TypeOK, RegionOK, Kernels
<1>5. CASE HoldReset(c) \/ HoldAgain(c)
  <2>1. /\ pc' = [pc EXCEPT ![c] = "reset"] /\ pc[1 - c] # "reset"
        /\ kernel' = [kernel EXCEPT ![c] = FreshKernel]
        /\ holds' = [holds EXCEPT ![c] = FALSE] /\ at' = [at EXCEPT ![c] = 0]
        /\ UNCHANGED life
    BY <1>5 DEF HoldReset, HoldAgain, Held, Running, Goto
  <2>2. /\ pc' \in [Cpu -> Places] /\ pc'[c] = "reset"
        /\ \A d \in Cpu : d # c => pc'[d] = pc[d] /\ at'[d] = at[d] /\ holds'[d] = holds[d]
        /\ ~holds'[c] /\ holds' \in [Cpu -> BOOLEAN]
    BY <1>0, <2>1 DEF Places
  <2>3. 0 \in Channel
    BY BootAssumption DEF Channel
  <2>4. at' \in [Cpu -> Channel] /\ 1 - c \in Cpu /\ 1 - c # c
    BY <1>0, <2>1, <2>3 DEF Cpu
  <2>5. /\ kernel' \in Kernels /\ \A d \in Cpu : d # c => kernel'[d] = kernel[d]
        /\ \A x \in Name : kernel'[c].hand[x] = Nil
    BY <1>0, <2>1, FreshKeeps DEF KernelOf
  <2>9. /\ hreset' \in [Cpu -> {"none", "held", "released"}]
        /\ hreset'[c] = "none"
        /\ hreset'[1 - c] = "held" => life[0] + life[1] < MaxResets
    BY <1>0, <1>5, <2>4 DEF HoldReset, HoldAgain
  <2>6. Local(c)'
    BY <2>1, <2>2, <2>4, <2>5, <2>9 DEF Local
  <2>7. ASSUME NEW d \in Cpu, d # c PROVE Local(d)'
    <3>1. Local(d) /\ 1 - d = c /\ d = 1 - c
      BY <1>0, <2>7 DEF Cpu
    <3>2. Closing(d)' = Closing(d)
      BY <1>3, <2>2, <2>7 DEF Closing
    <3> QED  BY <2>1, <2>2, <2>5, <2>7, <2>9, <3>1, <3>2 DEF Local
  <2>8. \A d \in Cpu : Local(d)'
    BY <2>6, <2>7
  <2> QED  BY <1>0, <1>2, <2>1, <2>2, <2>4, <2>5, <2>8, <2>9 DEF TypeInv, TypeOK, RegionOK, Kernels
<1>6. CASE LetGo(c)
  <2>1. /\ pc' = [pc EXCEPT ![c] = Entry(c)] /\ pc[1 - c] # "reset" /\ pc[c] = "reset"
        /\ life' = [life EXCEPT ![c] = @ + 1] /\ UNCHANGED <<kernel, at, holds>>
        /\ hreset[1 - c] = "held"
        /\ hreset' = [hreset EXCEPT ![1 - c] = "released"]
    BY <1>0, <1>6 DEF LetGo, Goto, Running, Local
  <2>2. Entry(c) \in {"wipe_locks", "mod_init"}
    BY DEF Entry
  <2>3. /\ pc' \in [Cpu -> Places] /\ pc'[c] = Entry(c)
        /\ \A d \in Cpu : d # c => pc'[d] = pc[d]
    BY <1>0, <2>1, <2>2 DEF Places
  <2>4. life[0] + life[1] < MaxResets
    BY <1>0, <2>1 DEF Local
  <2>5. /\ life' \in [Cpu -> 0..MaxResets]
        /\ life'[0] + life'[1] <= MaxResets
    <3>1. 0 \in Cpu /\ 1 \in Cpu /\ c \in {0, 1} /\ life[0] \in Nat /\ life[1] \in Nat
      BY <1>0 DEF Cpu
    <3>2. life'[0] + life'[1] = life[0] + life[1] + 1 /\ life'[c] \in 0..MaxResets
      BY <1>0, <2>1, <2>4, <3>1, BootAssumption
    <3> QED  BY <1>0, <2>1, <2>4, <3>1, <3>2, BootAssumption
  <2>9. /\ hreset' \in [Cpu -> {"none", "held", "released"}]
        /\ hreset'[1 - c] = "released" /\ hreset'[c] = hreset[c]
        /\ hreset[c] # "held"
    <3>1. 1 - c \in Cpu /\ 1 - c # c /\ 1 - (1 - c) = c
      BY DEF Cpu
    <3>2. Local(1 - c)
      BY <1>0, <3>1
    <3> QED  BY <1>0, <2>1, <3>1, <3>2 DEF Local
  <2>6. Local(c)'
    BY <1>0, <2>1, <2>2, <2>3, <2>9 DEF Local, Openings, Closings
  <2>7. ASSUME NEW d \in Cpu, d # c PROVE Local(d)'
    <3>1. Local(d) /\ 1 - d = c /\ d = 1 - c
      BY <1>0, <2>7 DEF Cpu
    <3>2. Closing(d)' = Closing(d)
      BY <1>3, <2>1, <2>3, <2>7 DEF Closing
    <3>3. pc'[d] # "reset"
      BY <2>1, <2>3, <2>7, <3>1
    <3> QED  BY <2>1, <2>3, <2>7, <2>9, <3>1, <3>2, <3>3 DEF Local
  <2>8. \A d \in Cpu : Local(d)'
    BY <2>6, <2>7
  <2> QED  BY <1>0, <1>2, <2>1, <2>3, <2>5, <2>8, <2>9 DEF TypeInv, TypeOK, RegionOK, Kernels
<1> QED  BY <1>4, <1>5, <1>6

(* Power-on gives every variable its type, whatever the region holds.         *)
LEMMA InitTypeInv == Init => TypeInv
<1> SUFFICES ASSUME Init PROVE TypeInv
  OBVIOUS
<1> USE DEF Init
<1>1. HeapTypeOK /\ ListsPartition
  BY HeapInit
<1>2. AllInfos \in Seq(Info)
  <2>1. NInfo \in Nat /\ \A i \in 1..NInfo : NInfo - i \in Info
    BY BootAssumption DEF Info
  <2> QED  BY <2>1 DEF AllInfos
<1>3. infoFree \in Seq(Info)
  BY <1>2
<1>4. info \in [Info -> [name : Name \cup {Nil}, open : SUBSET Cpu, mem : Block \cup {Nil}]]
  BY DEF EmptyInfo
<1>5. RegionOK
  BY <1>1, <1>3, <1>4 DEF RegionOK
<1>6. kernel \in Kernels
  BY DEF FreshKernel, Kernels
<1>7. /\ at \in [Cpu -> Channel] /\ holds \in [Cpu -> BOOLEAN]
      /\ life \in [Cpu -> 0..MaxResets] /\ life[0] + life[1] <= MaxResets
      /\ hreset \in [Cpu -> {"none", "held", "released"}]
  BY BootAssumption DEF Channel, Cpu
<1>8. pc \in [Cpu -> Places] /\ \A c \in Cpu : pc[c] \in {"wipe_locks", "mod_init"}
  BY DEF Places, Entry
<1>9. \A c \in Cpu : Local(c)
  <2>1. \A c \in Cpu, x \in Name : kernel[c].hand[x] = Nil
    BY DEF FreshKernel
  <2>2. \A c \in Cpu : hreset[1 - c] = "none"
    BY DEF Cpu
  <2> QED  BY <1>8, <2>1, <2>2 DEF Local
<1> QED  BY <1>5, <1>6, <1>7, <1>8, <1>9, TypeParts

(* Every step of boot, teardown and restart keeps the types.                  *)
LEMMA NextTypeInv == TypeInv /\ [Next]_bootVars => TypeInv'
<1> SUFFICES ASSUME TypeInv, [Next]_bootVars PROVE TypeInv'
  OBVIOUS
<1>1. CASE UNCHANGED bootVars
  <2>1. \A d \in Cpu : Closing(d)' = Closing(d)
    BY <1>1 DEF bootVars, Closing, RecvName, SendName
  <2>2. \A d \in Cpu : Local(d)'
    BY <1>1, <2>1, TypeParts DEF bootVars, Local
  <2>3. HeapTypeOK' /\ ListsPartition'
    BY <1>1, HeapKept, MeCore, TypeParts DEF bootVars, region, RegionOK, Cpu
  <2> QED  BY <1>1, <2>2, <2>3, TypeParts DEF bootVars, region, TypeInv, TypeOK, RegionOK, Kernels
<1>2. ASSUME NEW c \in Cpu, Step(c) PROVE TypeInv'
  BY <1>2, WipeTypes, TakeTypes, InitTypes, OpenTypes, CloseTypes, DeviceTypes DEF Step
<1>3. ASSUME NEW c \in Cpu, ShmExit(c) \/ MessageKills(c) \/ HoldReset(c) \/ LetGo(c) \/ HoldAgain(c)
      PROVE  TypeInv'
  BY <1>3, DeviceTypes, ResetTypes
<1> QED  BY <1>1, <1>2, <1>3 DEF Next

\* Every variable keeps its type, however the starts of the two cores and their
\* restarts interleave: no close runs under the lock without a handle, and no
\* device is set up for the default channel (mpi_shm.c:322-350, shm.c:1085).
THEOREM BootTypes == Spec => []TypeOK
<1>1. TypeInv => TypeOK
  BY DEF TypeInv
<1> QED  BY <1>1, InitTypeInv, NextTypeInv, PTL DEF Spec

-----------------------------------------------------------------------------
(* Names: while core 0 has cleared nothing that core 1 was using, a handle   *)
(* is that of the one info with the name.                                    *)

Early == {"wipe_locks", "wipe_area", "reset"}

\* Handles come after mod_init, and mod_init after the clearing.
Joining ==
    /\ \A c \in Cpu : kernel[c].joined => area = build[c]
    /\ pc[0] \in Early => ~kernel[0].joined
    /\ area = Zero => \A h \in Info : info[h] = EmptyInfo

\* An info is on the free list or has a name of its own.
Infos ==
    /\ IsInjective(infoFree)
    /\ \A h \in Range(infoFree) : info[h].name = Nil
    /\ \A h \in Info : info[h].name = Nil => info[h].open = {}
    /\ \A g, h \in Info : info[g].name = info[h].name /\ info[g].name # Nil => g = h

\* A handle is that of an info with the name, held open.
Handles ==
    \A c \in Cpu, x \in Name :
        LET h == kernel[c].hand[x]
        IN  h # Nil => info[h].name = x /\ c \in info[h].open

NamesInv == ~overrun => Joining /\ Infos /\ Handles

(* What an mpi_shm_open that finds or makes its segment does. *)
LEMMA OpenFacts ==
    ASSUME TypeInv, NEW c \in Cpu, Opened(c)
    PROVE  /\ kernel[c].joined /\ Opening(c) \in Name /\ pc[c] \in Openings /\ holds[c]
           /\ KernelOf(c) /\ kernel'[c].joined
           /\ kernel'[c].listed = kernel[c].listed /\ kernel'[c].cdev = kernel[c].cdev
           /\ kernel'[c].synced = kernel[c].synced
           /\ UNCHANGED <<build, at, life, overrun>>
           /\ pc'[c] \in {"send", "recv", "register"}
           /\ \A d \in Cpu : d # c => pc'[d] = pc[d]
           /\ \E h \in Info :
                  /\ OpenSeg(c, Opening(c), h)
                  /\ kernel'[c].hand = [kernel[c].hand EXCEPT ![Opening(c)] = h]
<1>0. /\ kernel \in Kernels /\ at \in [Cpu -> Channel] /\ pc \in [Cpu -> Places] /\ Local(c)
  BY TypeParts
<1>1. Drop(c) /\ pc[c] \in Openings /\ UNCHANGED <<build, at, life, overrun>>
  BY DEF Opened, Openings
<1>2. kernel[c].joined /\ Opening(c) \in Name /\ holds[c]
  BY <1>0, <1>1, NamesOfCores DEF Drop, Local
<1>3. PICK h \in Info :
          /\ OpenSeg(c, Opening(c), h)
          /\ Set(c, "hand", [kernel[c].hand EXCEPT ![Opening(c)] = h])
  BY DEF Opened
<1>4. [kernel[c].hand EXCEPT ![Opening(c)] = h] \in [Name -> Info \cup {Nil}]
  BY <1>0 DEF Kernels
<1>5. /\ KernelOf(c) /\ kernel'[c].joined = kernel[c].joined
      /\ kernel'[c].hand = [kernel[c].hand EXCEPT ![Opening(c)] = h]
      /\ kernel'[c].listed = kernel[c].listed /\ kernel'[c].cdev = kernel[c].cdev
      /\ kernel'[c].synced = kernel[c].synced
  BY <1>0, <1>3, <1>4, SetKeeps
<1>6. /\ pc'[c] \in {"send", "recv", "register"}
      /\ \A d \in Cpu : d # c => pc'[d] = pc[d]
  BY <1>0 DEF Opened, Goto
<1> QED  BY <1>1, <1>2, <1>3, <1>5, <1>6

(* What an mpi_shm_close does to the core that closes. *)
LEMMA CloseFacts ==
    ASSUME TypeInv, NEW c \in Cpu, Closed(c)
    PROVE  /\ Closing(c) \in Name /\ pc[c] \in Closings
           /\ KernelOf(c) /\ kernel'[c].joined = kernel[c].joined
           /\ kernel'[c].listed = kernel[c].listed /\ kernel'[c].cdev = kernel[c].cdev
           /\ kernel'[c].synced = kernel[c].synced
           /\ kernel'[c].hand = [kernel[c].hand EXCEPT ![Closing(c)] = Nil]
           /\ UNCHANGED <<build, area, at, life, overrun>>
           /\ pc'[c] = AfterClose(c)
           /\ \A d \in Cpu : d # c => pc'[d] = pc[d]
           /\ \/ /\ kernel[c].hand[Closing(c)] \in Info
                 /\ CloseSeg(c, kernel[c].hand[Closing(c)])
              \/ ~OpenBit(c) /\ UNCHANGED <<infoFree, info, heapVars>>
<1>0. /\ kernel \in Kernels /\ at \in [Cpu -> Channel] /\ pc \in [Cpu -> Places] /\ Local(c)
  BY TypeParts
<1>1. Closing(c) \in Name /\ pc[c] \in Closings /\ UNCHANGED <<build, area, at, life, overrun>>
  BY <1>0, NamesOfCores DEF Closed, Closings
<1>2. [kernel[c].hand EXCEPT ![Closing(c)] = Nil] \in [Name -> Info \cup {Nil}]
  BY <1>0 DEF Kernels
<1>3. /\ KernelOf(c) /\ kernel'[c].joined = kernel[c].joined
      /\ kernel'[c].listed = kernel[c].listed /\ kernel'[c].cdev = kernel[c].cdev
      /\ kernel'[c].synced = kernel[c].synced
      /\ kernel'[c].hand = [kernel[c].hand EXCEPT ![Closing(c)] = Nil]
  BY <1>0, <1>2, SetKeeps DEF Closed
<1>4. /\ pc'[c] = AfterClose(c) /\ \A d \in Cpu : d # c => pc'[d] = pc[d]
  BY <1>0 DEF Closed, Goto
<1>5. Drop(c) => kernel[c].hand[Closing(c)] \in Info
  BY <1>0, <1>1 DEF Drop, Local
<1> QED  BY <1>1, <1>3, <1>4, <1>5 DEF Closed

(* A step that touches neither infos nor pools, and no handle but to drop it. *)
LEMMA NamesFrame ==
    ASSUME TypeInv, TypeInv', NamesInv, UNCHANGED <<area, infoFree, info, build, overrun>>,
           \A d \in Cpu : kernel'[d].joined => kernel[d].joined \/ area = build[d],
           \A d \in Cpu, x \in Name : kernel'[d].hand[x] \in {kernel[d].hand[x], Nil},
           pc'[0] \in Early => ~kernel'[0].joined
    PROVE  NamesInv'
<1> SUFFICES ASSUME ~overrun' PROVE Joining' /\ Infos' /\ Handles'
  BY DEF NamesInv
<1>1. Joining /\ Infos /\ Handles
  BY DEF NamesInv
<1>2. Joining'
  BY <1>1 DEF Joining
<1>3. Infos'
  BY <1>1 DEF Infos
<1>4. Handles'
  BY <1>1 DEF Handles
<1> QED  BY <1>2, <1>3, <1>4

(* The clearing is of a region nobody uses, or it is an overrun. *)
LEMMA WipeNames ==
    ASSUME TypeInv, TypeInv', NamesInv, WipeLocks \/ WipeArea
    PROVE  NamesInv'
<1> SUFFICES ASSUME ~overrun' PROVE Joining' /\ Infos' /\ Handles'
  BY DEF NamesInv
<1>1. ~overrun /\ ~Using(1) /\ UNCHANGED <<build, kernel>>
  BY DEF WipeLocks, WipeArea
<1>2. Joining /\ Infos /\ Handles
  BY <1>1 DEF NamesInv
<1>3. pc[0] \in Early
  BY DEF WipeLocks, WipeArea, Early
<1>4. \A d \in Cpu : ~kernel'[d].joined
  BY <1>1, <1>2, <1>3 DEF Using, Joining, Cpu
<1>5. \A d \in Cpu : \A x \in Name : kernel'[d].hand[x] = Nil
  <2>1. \A d \in Cpu : Local(d)'
    BY DEF TypeInv
  <2> QED  BY <1>4, <2>1 DEF Local
<1>6. Handles'
  BY <1>5 DEF Handles
<1>7. CASE WipeLocks
  <2>1. UNCHANGED <<area, infoFree, info>>
    BY <1>7 DEF WipeLocks
  <2>2. Joining'
    BY <1>2, <1>4, <2>1 DEF Joining, Cpu
  <2>3. Infos'
    BY <1>2, <2>1 DEF Infos
  <2> QED  BY <1>6, <2>2, <2>3
<1>8. CASE WipeArea
  <2>1. infoFree' = <<>> /\ info' = [h \in Info |-> EmptyInfo]
    BY <1>8 DEF WipeArea
  <2>2. Joining'
    BY <1>4, <2>1 DEF Joining, Cpu
  <2>3. Range(infoFree') = {} /\ IsInjective(infoFree')
    BY <2>1 DEF Range, IsInjective
  <2>4. Infos'
    BY <2>1, <2>3 DEF Infos, EmptyInfo
  <2> QED  BY <1>6, <2>2, <2>4
<1> QED  BY <1>7, <1>8

(* The list of infos that mod_init makes. *)
LEMMA AllInfosFacts == AllInfos \in Seq(Info) /\ IsInjective(AllInfos)
<1>1. NInfo \in Nat /\ \A i \in 1..NInfo : NInfo - i \in Info
  BY BootAssumption DEF Info
<1>2. AllInfos \in Seq(Info)
  BY <1>1 DEF AllInfos
<1>3. \A i, j \in 1..NInfo : AllInfos[i] = AllInfos[j] => i = j
  BY <1>1 DEF AllInfos
<1>4. DOMAIN AllInfos = 1..NInfo
  BY DEF AllInfos
<1> QED  BY <1>2, <1>3, <1>4 DEF IsInjective

(* mod_init makes the infos where the area is empty. *)
LEMMA InitialiseNames ==
    ASSUME TypeInv, TypeInv', NamesInv, NEW c \in Cpu, Initialise(c)
    PROVE  NamesInv'
<1> SUFFICES ASSUME ~overrun' PROVE Joining' /\ Infos' /\ Handles'
  BY DEF NamesInv
<1>0. /\ kernel \in Kernels /\ pc \in [Cpu -> Places] /\ build \in Builds
      /\ \A d \in Cpu : Local(d)
  BY TypeParts
<1>1. /\ UNCHANGED <<build, info, overrun>> /\ area = Zero
      /\ area' = build[c] /\ infoFree' = AllInfos
  BY DEF Initialise, Uninitialised
<1>2. Joining /\ Infos /\ Handles
  BY <1>1 DEF NamesInv
<1>3. \A d \in Cpu : build[d] # Zero
  <2>1. \A d \in Cpu : build[d] \in Build
    BY <1>0 DEF Build
  <2> QED  BY <2>1, BootAssumption
<1>4. \A d \in Cpu : ~kernel[d].joined
  BY <1>1, <1>2, <1>3 DEF Joining
<1>5. \A d \in Cpu, x \in Name : kernel[d].hand[x] = Nil
  BY <1>0, <1>4 DEF Local
<1>6. /\ KernelOf(c) /\ kernel'[c].hand = kernel[c].hand
  BY <1>0, FlagKeeps DEF Initialise
<1>7. pc'[c] = "test" /\ \A d \in Cpu : d # c => pc'[d] = pc[d]
  BY <1>0 DEF Initialise, Goto
<1>8. \A h \in Info : info'[h] = EmptyInfo
  BY <1>1, <1>2 DEF Joining
<1>9. Joining'
  <2>1. pc'[0] \in Early => 0 # c
    BY <1>7 DEF Early
  <2>2. pc'[0] \in Early => ~kernel'[0].joined
    BY <1>4, <1>6, <2>1 DEF KernelOf, Cpu
  <2>3. \A d \in Cpu : kernel'[d].joined => d = c
    BY <1>4, <1>6 DEF KernelOf
  <2> QED  BY <1>1, <1>3, <2>2, <2>3 DEF Joining
<1>10. Infos'
  <2>1. Range(infoFree') \subseteq Info /\ IsInjective(infoFree')
    <3>1. AllInfos \in Seq(Info) /\ IsInjective(AllInfos)
      BY AllInfosFacts
    <3>2. \A i \in DOMAIN AllInfos : AllInfos[i] \in Info
      BY <3>1
    <3> QED  BY <1>1, <3>1, <3>2 DEF Range
  <2> QED  BY <1>8, <2>1 DEF Infos, EmptyInfo
<1>11. Handles'
  <2>1. \A d \in Cpu, x \in Name : kernel'[d].hand[x] = Nil
    BY <1>5, <1>6 DEF KernelOf
  <2> QED  BY <2>1 DEF Handles
<1> QED  BY <1>9, <1>10, <1>11

(* A new handle is that of the info with the name, or of one that had none. *)
LEMMA OpenedNames ==
    ASSUME TypeInv, TypeInv', NamesInv, NEW c \in Cpu, Opened(c)
    PROVE  NamesInv'
<1> SUFFICES ASSUME ~overrun' PROVE Joining' /\ Infos' /\ Handles'
  BY DEF NamesInv
<1> DEFINE x == Opening(c)
<1>0. /\ kernel \in Kernels /\ build \in Builds
      /\ infoFree \in Seq(Info)
      /\ info \in [Info -> [name : Name \cup {Nil}, open : SUBSET Cpu, mem : Block \cup {Nil}]]
  BY TypeParts DEF RegionOK
<1>1. PICK h \in Info :
          /\ OpenSeg(c, x, h)
          /\ kernel'[c].hand = [kernel[c].hand EXCEPT ![x] = h]
  BY OpenFacts
<1>2. /\ kernel[c].joined /\ x \in Name /\ KernelOf(c)
      /\ UNCHANGED <<build, overrun>>
      /\ pc'[c] \notin Early /\ \A d \in Cpu : d # c => pc'[d] = pc[d]
  BY OpenFacts DEF Early
<1>3. Joining /\ Infos /\ Handles
  BY <1>2 DEF NamesInv
<1>4. area # Zero /\ area' = area
  <2>1. build[c] \in Build
    BY <1>0 DEF Build
  <2> QED  BY <1>1, <1>2, <1>3, <2>1, BootAssumption DEF Joining, OpenSeg
<1>5. Joining'
  <2>1. pc'[0] \in Early => ~kernel'[0].joined
    BY <1>2, <1>3 DEF Joining, KernelOf, Cpu
  <2>2. \A d \in Cpu : kernel'[d].joined => kernel[d].joined
    BY <1>2 DEF KernelOf
  <2> QED  BY <1>2, <1>3, <1>4, <2>1, <2>2 DEF Joining
<1>6. /\ \A d \in Cpu, y \in Name : d # c \/ y # x => kernel'[d].hand[y] = kernel[d].hand[y]
      /\ kernel'[c].hand[x] = h
  BY <1>0, <1>1, <1>2 DEF KernelOf, Kernels
<1>7. x # Nil
  BY <1>2, NilAssumption
<1> HIDE DEF x
<1>8. CASE h \in Found(x) /\ info' = [info EXCEPT ![h].open = @ \cup {c}] /\ infoFree' = infoFree
  <2>1. /\ \A g \in Info : info'[g].name = info[g].name
        /\ \A g \in Info : g # h => info'[g].open = info[g].open
        /\ info'[h].open = info[h].open \cup {c}
    BY <1>0, <1>8
  <2>2. info[h].name = x
    BY <1>8 DEF Found
  <2>3. Infos'
    <3>1. \A g \in Info : info'[g].name = Nil => info'[g].open = {}
      BY <1>3, <1>7, <2>1, <2>2 DEF Infos
    <3>2. \A i \in Range(infoFree) : i \in Info
      BY <1>0 DEF Range
    <3>3. \A i \in Range(infoFree') : info'[i].name = Nil
      BY <1>3, <1>8, <2>1, <3>2 DEF Infos
    <3> QED  BY <1>3, <1>8, <2>1, <3>1, <3>3 DEF Infos
  <2>4. Handles'
    <3>1. SUFFICES ASSUME NEW d \in Cpu, NEW y \in Name, kernel'[d].hand[y] # Nil
                   PROVE  LET g == kernel'[d].hand[y] IN info'[g].name = y /\ d \in info'[g].open
      BY DEF Handles
    <3>2. CASE d = c /\ y = x
      BY <1>6, <2>1, <2>2, <3>2
    <3>3. CASE d # c \/ y # x
      <4>1. kernel'[d].hand[y] = kernel[d].hand[y] /\ kernel[d].hand[y] \in Info
        BY <1>0, <1>6, <3>1, <3>3 DEF Kernels
      <4> QED  BY <1>3, <2>1, <3>1, <4>1 DEF Handles
    <3> QED  BY <3>2, <3>3
  <2> QED  BY <1>5, <2>3, <2>4
<1>9. CASE /\ Found(x) = {} /\ infoFree # <<>> /\ h = Head(infoFree) /\ infoFree' = Tail(infoFree)
           /\ \E b \in Block : info' = [info EXCEPT ![h] = [name |-> x, open |-> {c}, mem |-> b]]
  <2>1. /\ \A g \in Info : g # h => info'[g] = info[g]
        /\ info'[h].name = x /\ info'[h].open = {c}
    BY <1>0, <1>9
  <2>2. /\ h \in Range(infoFree) /\ IsInjective(infoFree')
        /\ Range(infoFree') = Range(infoFree) \ {h} /\ Range(infoFree) \subseteq Info
    <3>1. Range(infoFree) \subseteq Info
      BY <1>0 DEF Range
    <3> QED  BY <1>0, <1>3, <1>9, <3>1, PopRange DEF Infos
  <2>3. info[h].name = Nil /\ info[h].open = {}
    BY <1>3, <2>2 DEF Infos
  <2>4. \A g \in Info : info[g].name # x
    BY <1>9 DEF Found
  <2>5. Infos'
    <3>1. \A i \in Range(infoFree') : info'[i].name = Nil
      BY <1>3, <2>1, <2>2 DEF Infos
    <3>2. \A g \in Info : info'[g].name = Nil => info'[g].open = {}
      BY <1>3, <1>7, <2>1 DEF Infos
    <3>3. \A g, k \in Info : info'[g].name = info'[k].name /\ info'[g].name # Nil => g = k
      BY <1>3, <2>1, <2>4 DEF Infos
    <3> QED  BY <2>2, <3>1, <3>2, <3>3 DEF Infos
  <2>6. Handles'
    <3>1. SUFFICES ASSUME NEW d \in Cpu, NEW y \in Name, kernel'[d].hand[y] # Nil
                   PROVE  LET g == kernel'[d].hand[y] IN info'[g].name = y /\ d \in info'[g].open
      BY DEF Handles
    <3>2. CASE d = c /\ y = x
      BY <1>6, <2>1, <3>2
    <3>3. CASE d # c \/ y # x
      <4>1. kernel'[d].hand[y] = kernel[d].hand[y] /\ kernel[d].hand[y] \in Info
        BY <1>0, <1>6, <3>1, <3>3 DEF Kernels
      <4>2. kernel[d].hand[y] # h
        BY <1>3, <2>3, <3>1, <4>1 DEF Handles
      <4> QED  BY <1>3, <2>1, <3>1, <4>1, <4>2 DEF Handles
    <3> QED  BY <3>2, <3>3
  <2> QED  BY <1>5, <2>5, <2>6
<1> QED  BY <1>1, <1>8, <1>9 DEF OpenSeg

(* The bit that goes was that of the handle that goes, and no other handle's. *)
LEMMA ClosedNames ==
    ASSUME TypeInv, TypeInv', NamesInv, NEW c \in Cpu, Closed(c)
    PROVE  NamesInv'
<1> SUFFICES ASSUME ~overrun' PROVE Joining' /\ Infos' /\ Handles'
  BY DEF NamesInv
<1> DEFINE x == Closing(c)
           h == kernel[c].hand[x]
<1>0. /\ kernel \in Kernels /\ build \in Builds
      /\ infoFree \in Seq(Info) /\ Range(infoFree) \subseteq Info
      /\ info \in [Info -> [name : Name \cup {Nil}, open : SUBSET Cpu, mem : Block \cup {Nil}]]
  BY TypeParts DEF RegionOK, Range
<1>1. /\ x \in Name /\ x # Nil /\ pc[c] \in Closings
      /\ KernelOf(c) /\ kernel'[c].joined = kernel[c].joined
      /\ kernel'[c].hand = [kernel[c].hand EXCEPT ![x] = Nil]
      /\ UNCHANGED <<build, area, overrun>>
      /\ pc'[c] \notin Early /\ \A d \in Cpu : d # c => pc'[d] = pc[d]
      /\ \/ h \in Info /\ CloseSeg(c, h)
         \/ UNCHANGED <<infoFree, info>>
  BY CloseFacts, NilAssumption DEF AfterClose, Early
<1>2. Joining /\ Infos /\ Handles
  BY <1>1 DEF NamesInv
<1>3. /\ \A d \in Cpu, y \in Name : d # c \/ y # x => kernel'[d].hand[y] = kernel[d].hand[y]
      /\ kernel'[c].hand[x] = Nil
  BY <1>0, <1>1 DEF KernelOf, Kernels
<1> HIDE DEF x, h
<1>4. pc'[0] \in Early => ~kernel'[0].joined
  BY <1>1, <1>2 DEF Joining, KernelOf, Cpu
<1>5. \A d \in Cpu : kernel'[d].joined => kernel[d].joined
  BY <1>1 DEF KernelOf
<1>6. CASE UNCHANGED <<infoFree, info>>
  <2>1. \A d \in Cpu, y \in Name : kernel'[d].hand[y] \in {kernel[d].hand[y], Nil}
    BY <1>3
  <2>2. NamesInv'
    BY <1>1, <1>4, <1>5, <1>6, <2>1, NamesFrame
  <2> QED  BY <2>2 DEF NamesInv
<1>7. CASE h \in Info /\ CloseSeg(c, h)
  <2>1. h # Nil /\ info[h].name = x /\ c \in info[h].open
    BY <1>1, <1>2, <1>7, NilAssumption DEF Handles, h
  <2>2. ASSUME area = Zero PROVE FALSE
    BY <1>1, <1>2, <1>7, <2>1, <2>2 DEF Joining, EmptyInfo
  <2>3. Joining'
    BY <1>1, <1>2, <1>4, <1>5, <2>2 DEF Joining
  <2>4. ASSUME NEW d \in Cpu, NEW y \in Name, kernel'[d].hand[y] # Nil
        PROVE  /\ kernel'[d].hand[y] = kernel[d].hand[y]
               /\ kernel[d].hand[y] \in Info
               /\ kernel[d].hand[y] = h => d # c
    <3>2. d # c \/ y # x
      BY <1>3, <2>4
    <3>3. kernel'[d].hand[y] = kernel[d].hand[y] /\ kernel[d].hand[y] \in Info
      BY <1>0, <1>3, <2>4, <3>2 DEF Kernels
    <3>4. kernel[d].hand[y] = h => y = x
      BY <1>2, <2>1, <2>4, <3>3 DEF Handles
    <3> QED  BY <3>2, <3>3, <3>4
  <2>5. CASE info[h].open = {c}
    <3>1. infoFree' = <<h>> \o infoFree /\ info' = [info EXCEPT ![h] = EmptyInfo]
      BY <1>7, <2>5 DEF CloseSeg
    <3>2. /\ \A g \in Info : g # h => info'[g] = info[g]
          /\ info'[h].name = Nil /\ info'[h].open = {}
      BY <1>0, <1>7, <3>1 DEF EmptyInfo
    <3>3. h \notin Range(infoFree)
      BY <1>1, <1>2, <2>1 DEF Infos
    <3>4. Range(infoFree') = Range(infoFree) \cup {h} /\ IsInjective(infoFree')
      BY <1>0, <1>2, <1>7, <3>1, <3>3, PushRange DEF Infos
    <3>5. Infos'
      <4>1. \A i \in Range(infoFree') : info'[i].name = Nil
        BY <1>0, <1>2, <3>2, <3>3, <3>4 DEF Infos
      <4>2. \A g \in Info : info'[g].name = Nil => info'[g].open = {}
        BY <1>2, <3>2 DEF Infos
      <4>3. \A g, k \in Info : info'[g].name = info'[k].name /\ info'[g].name # Nil => g = k
        BY <1>2, <3>2 DEF Infos
      <4> QED  BY <3>4, <4>1, <4>2, <4>3 DEF Infos
    <3>6. Handles'
      <4>1. SUFFICES ASSUME NEW d \in Cpu, NEW y \in Name, kernel'[d].hand[y] # Nil
                     PROVE  LET g == kernel'[d].hand[y] IN info'[g].name = y /\ d \in info'[g].open
        BY DEF Handles
      <4>2. kernel'[d].hand[y] = kernel[d].hand[y] /\ kernel[d].hand[y] \in Info
        BY <2>4, <4>1
      <4>3. kernel[d].hand[y] # h
        BY <1>2, <2>4, <2>5, <4>1, <4>2 DEF Handles
      <4> QED  BY <1>2, <3>2, <4>1, <4>2, <4>3 DEF Handles
    <3> QED  BY <2>3, <3>5, <3>6
  <2>6. CASE info[h].open # {c}
    <3>1. infoFree' = infoFree /\ info' = [info EXCEPT ![h].open = @ \ {c}]
      BY <1>7, <2>6 DEF CloseSeg
    <3>2. /\ \A g \in Info : info'[g].name = info[g].name
          /\ \A g \in Info : g # h => info'[g].open = info[g].open
          /\ info'[h].open = info[h].open \ {c}
      BY <1>0, <1>7, <3>1
    <3>3. Infos'
      <4>1. \A i \in Range(infoFree') : info'[i].name = Nil
        BY <1>0, <1>2, <3>1, <3>2 DEF Infos
      <4>2. \A g \in Info : info'[g].name = Nil => info'[g].open = {}
        BY <1>1, <1>2, <2>1, <3>2 DEF Infos
      <4> QED  BY <1>2, <3>1, <3>2, <4>1, <4>2 DEF Infos
    <3>4. Handles'
      <4>1. SUFFICES ASSUME NEW d \in Cpu, NEW y \in Name, kernel'[d].hand[y] # Nil
                     PROVE  LET g == kernel'[d].hand[y] IN info'[g].name = y /\ d \in info'[g].open
        BY DEF Handles
      <4>2. kernel'[d].hand[y] = kernel[d].hand[y] /\ kernel[d].hand[y] \in Info
        BY <2>4, <4>1
      <4>3. info[kernel[d].hand[y]].name = y /\ d \in info[kernel[d].hand[y]].open
        BY <1>2, <4>1, <4>2 DEF Handles
      <4>4. kernel[d].hand[y] = h => d # c
        BY <2>4, <4>1
      <4> QED  BY <3>2, <4>2, <4>3, <4>4
    <3> QED  BY <2>3, <3>3, <3>4
  <2> QED  BY <2>5, <2>6
<1> QED  BY <1>1, <1>6, <1>7

(* At power-on no kernel has joined or holds a handle.                        *)
LEMMA InitNames == Init => NamesInv
<1> SUFFICES ASSUME Init PROVE Joining /\ Infos /\ Handles
  BY DEF NamesInv
<1> USE DEF Init
<1>1. \A c \in Cpu : ~kernel[c].joined /\ \A x \in Name : kernel[c].hand[x] = Nil
  BY DEF FreshKernel
<1>2. Range(infoFree) \subseteq Info /\ IsInjective(infoFree)
  <2>1. \A i \in DOMAIN AllInfos : AllInfos[i] \in Info
    BY AllInfosFacts
  <2>2. infoFree = AllInfos \/ infoFree = <<>>
    OBVIOUS
  <2>3. IsInjective(<<>>) /\ Range(<<>>) = {}
    BY DEF IsInjective, Range
  <2> QED  BY <2>1, <2>2, <2>3, AllInfosFacts DEF Range
<1>3. \A h \in Info : info[h] = EmptyInfo
  OBVIOUS
<1>4. Infos
  BY <1>2, <1>3 DEF Infos, EmptyInfo
<1>5. Joining
  BY <1>1, <1>3 DEF Joining, Cpu
<1>6. Handles
  BY <1>1 DEF Handles
<1> QED  BY <1>4, <1>5, <1>6

(* The steps that open and close nothing and leave the area alone. *)
LEMMA QuietNames ==
    ASSUME TypeInv, TypeInv', NamesInv, NEW c \in Cpu,
           \/ Take(c) \/ Join(c) \/ Refuse(c) \/ ModInitAgain(c)
           \/ NotOpened(c) \/ OpenBug(c)
           \/ Register(c) \/ InterruptOn(c) \/ SetupDev(c) \/ SetupFails(c)
           \/ SyncInit(c) \/ Cleanup(c) \/ ShmExit(c)
    PROVE  /\ NamesInv'
           /\ UNCHANGED <<build, area, infoFree, info, life, overrun, heapVars>>
           /\ KernelOf(c) /\ kernel'[c].hand = kernel[c].hand
           /\ pc[c] \notin Early /\ pc'[c] \notin Early
           /\ \A d \in Cpu : d # c => pc'[d] = pc[d]
<1>0. /\ kernel \in Kernels /\ at \in [Cpu -> Channel] /\ pc \in [Cpu -> Places] /\ Local(c)
  BY TypeParts
<1>1. UNCHANGED <<build, area, infoFree, info, life, overrun, heapVars>>
  BY DEF Take, Join, Refuse, ModInitAgain, NotOpened, OpenBug, Register, InterruptOn,
         SetupDev, SetupFails, SyncInit, Cleanup, ShmExit, region
<1>2. /\ KernelOf(c) /\ kernel'[c].hand = kernel[c].hand
      /\ kernel'[c].joined => kernel[c].joined \/ area = build[c]
  <2>1. CASE Join(c)
    BY <1>0, <2>1, FlagKeeps DEF Join
  <2>2. CASE Register(c)
    <3>1. kernel[c].listed \cup {at[c]} \in SUBSET Channel
      BY <1>0 DEF Kernels
    <3> QED  BY <1>0, <2>2, <3>1, SetKeeps DEF Register
  <2>3. CASE InterruptOn(c)
    BY <1>0, <2>3, FlagKeeps DEF InterruptOn
  <2>4. CASE SetupDev(c)
    <3>1. at[c] \in 1..NDevice
      BY <1>0, <2>4, BootAssumption DEF SetupDev, Local, Channel
    <3>2. kernel[c].cdev \in SUBSET (1..NDevice)
      BY <1>0 DEF Kernels
    <3>3. kernel[c].cdev \cup {at[c]} \in SUBSET (1..NDevice)
      BY <3>1, <3>2
    <3> QED  BY <1>0, <2>4, <3>3, SetKeeps DEF SetupDev
  <2>5. CASE SyncInit(c)
    BY <1>0, <2>5, FlagKeeps DEF SyncInit
  <2>6. CASE Cleanup(c)
    <3>1. \/ kernel' = kernel
          \/ \E i \in Made(c) : kernel' = [kernel EXCEPT ![c].listed = @ \ {i}, ![c].cdev = @ \ {i}]
      BY <2>6 DEF Cleanup
    <3>2. Made(c) \subseteq Channel
      BY <1>0 DEF Made, Kernels
    <3> QED  BY <1>0, <3>1, <3>2, CleanupKeeps DEF KernelOf
  <2>7. CASE \/ Take(c) \/ Refuse(c) \/ ModInitAgain(c) \/ NotOpened(c) \/ OpenBug(c)
             \/ SetupFails(c) \/ ShmExit(c)
    BY <1>0, <2>7 DEF Take, Refuse, ModInitAgain, NotOpened, OpenBug, SetupFails, ShmExit, KernelOf
  <2> QED  BY <2>1, <2>2, <2>3, <2>4, <2>5, <2>6, <2>7
<1>3. pc' = pc \/ \E l \in Places \ Early : Goto(c, l)
  <2>1. CASE Take(c)
    BY <2>1 DEF Take
  <2>2. CASE Join(c) \/ Refuse(c) \/ ModInitAgain(c)
    BY <2>2 DEF Join, Refuse, ModInitAgain, AfterModInit, Places, Early
  <2>3. CASE NotOpened(c)
    <3>1. Goto(c, "send") \/ Goto(c, AfterModInit(c)) \/ Goto(c, "cleanup") \/ Goto(c, OnNoRecv)
      BY <2>3 DEF NotOpened
    <3> QED  BY <3>1 DEF AfterModInit, OnNoRecv, Places, Early
  <2>4. CASE Register(c)
    BY <2>4 DEF Register, AfterModInit, Places, Early
  <2>5. CASE Cleanup(c)
    BY <2>5 DEF Cleanup, Places, Early
  <2>6. CASE \/ OpenBug(c) \/ InterruptOn(c) \/ SetupDev(c) \/ SetupFails(c)
             \/ SyncInit(c) \/ ShmExit(c)
    BY <2>6 DEF OpenBug, InterruptOn, SetupDev, SetupFails, SyncInit, ShmExit, Places, Early
  <2> QED  BY <2>1, <2>2, <2>3, <2>4, <2>5, <2>6
<1>4. /\ pc[c] \notin Early /\ pc'[c] \notin Early
      /\ \A d \in Cpu : d # c => pc'[d] = pc[d]
  <2>1. pc[c] \notin Early
    BY DEF Take, Initialising, Join, Refuse, ModInitAgain, NotOpened, OpenBug, Register,
           InterruptOn, SetupDev, SetupFails, SyncInit, Cleanup, ShmExit, Early
  <2> QED  BY <1>0, <1>3, <2>1 DEF Goto
<1>5. \A d \in Cpu, x \in Name : kernel'[d].hand[x] \in {kernel[d].hand[x], Nil}
  BY <1>2 DEF KernelOf
<1>6. \A d \in Cpu : kernel'[d].joined => kernel[d].joined \/ area = build[d]
  BY <1>2 DEF KernelOf
<1>7. ~overrun /\ pc'[0] \in Early => ~kernel'[0].joined
  BY <1>2, <1>4 DEF NamesInv, Joining, KernelOf, Cpu
<1>8. NamesInv'
  <2>1. CASE overrun
    BY <1>1, <2>1 DEF NamesInv
  <2>2. CASE ~overrun
    BY <1>1, <1>5, <1>6, <1>7, <2>2, NamesFrame
  <2> QED  BY <2>1, <2>2
<1> QED  BY <1>1, <1>2, <1>4, <1>8

(* Every step keeps names, infos and handles together.                        *)
LEMMA NextNames == TypeInv /\ TypeInv' /\ NamesInv /\ [Next]_bootVars => NamesInv'
<1> SUFFICES ASSUME TypeInv, TypeInv', NamesInv, [Next]_bootVars PROVE NamesInv'
  OBVIOUS
<1>0. kernel \in Kernels /\ pc \in [Cpu -> Places]
  BY TypeParts
<1>1. CASE UNCHANGED bootVars
  BY <1>1 DEF bootVars, region, NamesInv, Joining, Infos, Handles
<1>2. ASSUME NEW c \in Cpu, Step(c) PROVE NamesInv'
  BY <1>2, WipeNames, InitialiseNames, OpenedNames, ClosedNames, QuietNames DEF Step
<1>3. ASSUME NEW c \in Cpu, ShmExit(c) PROVE NamesInv'
  BY <1>3, QuietNames
<1>4. ASSUME NEW c \in Cpu, MessageKills(c) \/ HoldReset(c) \/ LetGo(c) \/ HoldAgain(c) PROVE NamesInv'
  <2>1. UNCHANGED <<area, infoFree, info, build, overrun>>
    BY <1>4 DEF MessageKills, HoldReset, HoldAgain, Held, LetGo, region
  <2>2. CASE MessageKills(c) \/ LetGo(c)
    <3>1. kernel' = kernel
      BY <2>2 DEF MessageKills, LetGo
    <3>2. pc'[0] \in Early => pc[0] \in Early
      <4>1. \/ Goto(c, "crashed")
            \/ pc[c] = "reset" /\ Goto(c, Entry(c))
        BY <2>2, TypeParts DEF MessageKills, LetGo, Local
      <4>2. c = 0 \/ pc'[0] = pc[0]
        BY <1>0, <4>1 DEF Goto, Cpu
      <4> QED  BY <1>0, <4>1, <4>2 DEF Goto, Early, Cpu
    <3>3. ~overrun /\ pc'[0] \in Early => ~kernel'[0].joined
      BY <3>1, <3>2 DEF NamesInv, Joining
    <3> QED  BY <2>1, <3>1, <3>3, NamesFrame DEF NamesInv
  <2>3. CASE HoldReset(c) \/ HoldAgain(c)
    <3>1. kernel' = [kernel EXCEPT ![c] = FreshKernel] /\ Goto(c, "reset")
      BY <2>3 DEF HoldReset, HoldAgain, Held
    <3>2. /\ KernelOf(c) /\ ~kernel'[c].joined
          /\ \A x \in Name : kernel'[c].hand[x] = Nil
      BY <1>0, <3>1, FreshKeeps
    <3>3. \A d \in Cpu : kernel'[d].joined => kernel[d].joined
      BY <3>2 DEF KernelOf
    <3>4. \A d \in Cpu, x \in Name : kernel'[d].hand[x] \in {kernel[d].hand[x], Nil}
      BY <3>2 DEF KernelOf
    <3>5. ~overrun /\ pc'[0] \in Early => ~kernel'[0].joined
      BY <1>0, <3>1, <3>2 DEF NamesInv, Joining, Goto, KernelOf, Cpu
    <3> QED  BY <2>1, <3>3, <3>4, <3>5, NamesFrame DEF NamesInv
  <2> QED  BY <1>4, <2>2, <2>3
<1> QED  BY <1>1, <1>2, <1>3, <1>4 DEF Next

\* A name leads both cores to one info, which has their bits, for any number of
\* devices and restarts, as long as core 0 clears nothing core 1 is using: the
\* handle in a doorbell means the same on both sides (shm.c:1096-1190,
\* utils.c:603).
THEOREM NamesAgree == Spec => []PeersPaired
<1>1. TypeInv /\ NamesInv => PeersPaired
  <2>1. SUFFICES ASSUME TypeInv, NamesInv, ~overrun, NEW c \in Cpu, NEW x \in Name,
                        kernel[c].hand[x] # Nil
                 PROVE  /\ Found(x) = {kernel[c].hand[x]}
                        /\ c \in info[kernel[c].hand[x]].open
    BY DEF PeersPaired
  <2>2. Joining /\ Infos /\ Handles
    BY <2>1 DEF NamesInv
  <2>3. kernel[c].hand[x] \in Info /\ x # Nil
    BY <2>1, TypeParts, NilAssumption DEF Kernels
  <2>4. info[kernel[c].hand[x]].name = x /\ c \in info[kernel[c].hand[x]].open
    BY <2>1, <2>2 DEF Handles
  <2> QED  BY <2>2, <2>3, <2>4 DEF Found, Infos
<1> QED  BY <1>1, InitTypeInv, NextTypeInv, InitNames, NextNames, PTL DEF Spec

-----------------------------------------------------------------------------
(* Blocks: while one kernel has allocated, the segments have blocks of their *)
(* own, which that kernel has taken off its lists.                           *)

BlocksInv ==
    ~overrun =>
        /\ served = {} => \A h \in Info : info[h].name = Nil
        /\ \A k \in Core : served = {k} =>
               \A h \in Info : info[h].name # Nil =>
                   /\ info[h].mem \in busy[k]
                   /\ \A g \in Info \ {h} :
                          info[g].name # Nil => info[g].mem # info[h].mem

(* A step that moves no block and names no info. *)
LEMMA BlocksFrame ==
    ASSUME BlocksInv, UNCHANGED <<busy, served, overrun>>,
           \A h \in Info : info'[h].name = info[h].name /\ info'[h].mem = info[h].mem
    PROVE  BlocksInv'
BY DEF BlocksInv

(* An open takes a free block of the one kernel that allocates, or none.      *)
LEMMA OpenedBlocks ==
    ASSUME TypeInv, BlocksInv, NEW c \in Cpu, Opened(c)
    PROVE  BlocksInv'
<1> DEFINE x == Opening(c)
           k == Me(c)
<1>0. /\ HeapTypeOK /\ ListsPartition /\ k \in Core
      /\ info \in [Info -> [name : Name \cup {Nil}, open : SUBSET Cpu, mem : Block \cup {Nil}]]
  BY TypeParts, MeCore DEF RegionOK
<1>1. PICK h \in Info : OpenSeg(c, x, h) /\ UNCHANGED overrun
  BY OpenFacts
<1> HIDE DEF x, k
<1>2. CASE info' = [info EXCEPT ![h].open = @ \cup {c}] /\ UNCHANGED heapVars
  <2>1. \A g \in Info : info'[g].name = info[g].name /\ info'[g].mem = info[g].mem
    BY <1>0, <1>2
  <2> QED  BY <1>1, <1>2, <2>1, BlocksFrame DEF heapVars
<1>3. ASSUME NEW b \in Block, Malloc(k, Length, b),
             info' = [info EXCEPT ![h] = [name |-> x, open |-> {c}, mem |-> b]]
      PROVE  BlocksInv'
  <2>1. PICK p \in Pool : b \in BlocksOf(p) \ busy[k] /\ MallocHeap(k, Length, p) /\ b = Head(free[k][p])
    BY <1>0, <1>3, MallocFacts, BootAssumption
  <2>2. /\ b \notin busy[k] /\ served' = served \cup {k}
        /\ busy' = [busy EXCEPT ![k] = @ \cup {b}]
    BY <2>1 DEF MallocHeap
  <2>3. b \in busy'[k] /\ busy[k] \subseteq busy'[k]
    BY <1>0, <2>2 DEF HeapTypeOK
  <2>4. /\ \A g \in Info : g # h => info'[g] = info[g]
        /\ info'[h].mem = b
    BY <1>0, <1>3
  <2>5. SUFFICES ASSUME ~overrun, NEW l \in Core, served' = {l}, NEW g \in Info, info'[g].name # Nil
                 PROVE  /\ info'[g].mem \in busy'[l]
                        /\ \A f \in Info \ {g} : info'[f].name # Nil => info'[f].mem # info'[g].mem
    BY <1>1, <2>2 DEF BlocksInv
  <2>6. l = k /\ (served = {} \/ served = {k})
    BY <2>2, <2>5
  <2>7. \A f \in Info : info[f].name # Nil =>
            /\ info[f].mem \in busy[k]
            /\ \A e \in Info \ {f} : info[e].name # Nil => info[e].mem # info[f].mem
    BY <1>0, <2>5, <2>6 DEF BlocksInv
  <2>8. CASE g = h
    BY <2>2, <2>3, <2>4, <2>6, <2>7, <2>8
  <2>9. CASE g # h
    BY <2>2, <2>3, <2>4, <2>5, <2>6, <2>7, <2>9
  <2> QED  BY <2>8, <2>9
<1> QED  BY <1>1, <1>2, <1>3 DEF OpenSeg, x, k

(* A close gives back the block of the info that loses its name.              *)
LEMMA ClosedBlocks ==
    ASSUME TypeInv, NamesInv, BlocksInv, NEW c \in Cpu, Closed(c)
    PROVE  BlocksInv'
<1> DEFINE h == kernel[c].hand[Closing(c)]
           k == Me(c)
<1>0. /\ HeapTypeOK /\ k \in Core
      /\ info \in [Info -> [name : Name \cup {Nil}, open : SUBSET Cpu, mem : Block \cup {Nil}]]
  BY TypeParts, MeCore DEF RegionOK
<1>1. /\ UNCHANGED overrun /\ Closing(c) \in Name
      /\ \/ h \in Info /\ CloseSeg(c, h)
         \/ UNCHANGED <<info, heapVars>>
  BY CloseFacts
<1>2. CASE UNCHANGED <<info, heapVars>>
  BY <1>1, <1>2, BlocksFrame DEF heapVars
<1>3. CASE h \in Info /\ CloseSeg(c, h)
  <2>1. ~overrun => info[h].name # Nil
    BY <1>1, <1>3, NilAssumption DEF NamesInv, Handles
  <2> HIDE DEF h, k
  <2>2. CASE info[h].open # {c}
    <3>1. info' = [info EXCEPT ![h].open = @ \ {c}] /\ UNCHANGED heapVars
      BY <1>3, <2>2 DEF CloseSeg
    <3>2. \A g \in Info : info'[g].name = info[g].name /\ info'[g].mem = info[g].mem
      BY <1>0, <3>1
    <3> QED  BY <1>1, <3>1, <3>2, BlocksFrame DEF heapVars
  <2>3. CASE info[h].open = {c}
    <3>1. info' = [info EXCEPT ![h] = EmptyInfo] /\ Free(k, info[h].mem)
      BY <1>3, <2>3 DEF CloseSeg, k
    <3>2. /\ \A g \in Info : g # h => info'[g] = info[g]
          /\ info'[h].name = Nil
      BY <1>0, <1>3, <3>1 DEF EmptyInfo
    <3>3. served' = served /\ (busy' = busy \/ busy' = [busy EXCEPT ![k] = @ \ {info[h].mem}])
      BY <3>1 DEF Free, FreeReturned, FreeRejected, heapVars
    <3>4. \A l \in Core : \A b : b \in busy[l] /\ b # info[h].mem => b \in busy'[l]
      BY <1>0, <3>3 DEF HeapTypeOK
    <3>5. SUFFICES ASSUME ~overrun PROVE BlocksInv'
      BY <1>1 DEF BlocksInv
    <3>6. served' = {} => \A g \in Info : info'[g].name = Nil
      BY <3>2, <3>3, <3>5 DEF BlocksInv
    <3>7. ASSUME NEW l \in Core, served' = {l}, NEW g \in Info, info'[g].name # Nil
          PROVE  /\ info'[g].mem \in busy'[l]
                 /\ \A f \in Info \ {g} : info'[f].name # Nil => info'[f].mem # info'[g].mem
      <4>1. g # h /\ info'[g] = info[g] /\ info[g].name # Nil
        BY <3>2, <3>7
      <4>2. served = {l}
        BY <3>3, <3>7
      <4>3. \A f \in Info : info[f].name # Nil =>
                /\ info[f].mem \in busy[l]
                /\ \A e \in Info \ {f} : info[e].name # Nil => info[e].mem # info[f].mem
        BY <3>5, <4>2 DEF BlocksInv
      <4>4. info[g].mem # info[h].mem
        BY <1>3, <2>1, <3>5, <4>1, <4>3
      <4>5. info[g].mem \in busy'[l]
        BY <3>4, <4>1, <4>3, <4>4
      <4>6. ASSUME NEW f \in Info \ {g}, info'[f].name # Nil PROVE info'[f].mem # info'[g].mem
        BY <3>2, <4>1, <4>3, <4>6
      <4> QED  BY <4>1, <4>5, <4>6
    <3> QED  BY <1>1, <3>6, <3>7 DEF BlocksInv
  <2> QED  BY <2>2, <2>3
<1> QED  BY <1>1, <1>2, <1>3

(* Every step keeps the blocks of named infos busy and apart.                 *)
LEMMA NextBlocks == TypeInv /\ NamesInv /\ BlocksInv /\ [Next]_bootVars => BlocksInv'
<1> SUFFICES ASSUME TypeInv, NamesInv, BlocksInv, [Next]_bootVars PROVE BlocksInv'
  OBVIOUS
<1>1. CASE UNCHANGED bootVars
  BY <1>1, BlocksFrame DEF bootVars, region, heapVars
<1>2. CASE WipeLocks
  BY <1>2 DEF WipeLocks, heapVars, BlocksInv
<1>3. CASE WipeArea
  <2>1. served' = {} /\ \A h \in Info : info'[h].name = Nil
    BY <1>3 DEF WipeArea, EmptyInfo
  <2> QED  BY <2>1 DEF BlocksInv
<1>4. ASSUME NEW c \in Cpu, Initialise(c) PROVE BlocksInv'
  BY <1>4, BlocksFrame DEF Initialise
<1>5. ASSUME NEW c \in Cpu, MessageKills(c) \/ HoldReset(c) \/ LetGo(c) \/ HoldAgain(c) PROVE BlocksInv'
  BY <1>5, BlocksFrame DEF MessageKills, HoldReset, HoldAgain, Held, LetGo, region, heapVars
<1>6. ASSUME NEW c \in Cpu,
             \/ Take(c) \/ Join(c) \/ Refuse(c) \/ ModInitAgain(c)
             \/ NotOpened(c) \/ OpenBug(c)
             \/ Register(c) \/ InterruptOn(c) \/ SetupDev(c) \/ SetupFails(c)
             \/ SyncInit(c) \/ Cleanup(c) \/ ShmExit(c)
      PROVE  BlocksInv'
  <2>1. UNCHANGED <<info, overrun, heapVars>>
    BY <1>6 DEF Take, Join, Refuse, ModInitAgain, NotOpened, OpenBug, Register, InterruptOn,
                SetupDev, SetupFails, SyncInit, Cleanup, ShmExit, region
  <2> QED  BY <2>1, BlocksFrame DEF heapVars
<1>7. ASSUME NEW c \in Cpu, Opened(c) \/ Closed(c) PROVE BlocksInv'
  BY <1>7, OpenedBlocks, ClosedBlocks
<1> QED  BY <1>1, <1>2, <1>3, <1>4, <1>5, <1>6, <1>7 DEF Next, Step

\* No two segments share a block as long as one kernel has allocated since the
\* region was cleared, for any pools and any number of restarts: mod_malloc
\* gives out what is not on the busy list, and mod_free returns it only for the
\* segment that goes (shm.c:640-760, 1096-1190).
THEOREM SegmentsApart == Spec => []BlocksApart
<1>1. Init => BlocksInv
  BY DEF Init, InitHeap, EmptyInfo, BlocksInv
<1>2. TypeInv /\ BlocksInv => BlocksApart
  <2>1. SUFFICES ASSUME TypeInv, BlocksInv, ~overrun, NEW k \in Core, served \subseteq {k},
                        NEW g \in Info, NEW h \in Info,
                        info[g].name # Nil, info[h].name # Nil, g # h
                 PROVE  info[g].mem # info[h].mem
    BY DEF BlocksApart
  <2>2. served = {} \/ served = {k}
    BY <2>1
  <2> QED  BY <2>1, <2>2 DEF BlocksInv
<1> QED  BY <1>1, <1>2, InitTypeInv, NextTypeInv, InitNames, NextNames, NextBlocks, PTL DEF Spec

-----------------------------------------------------------------------------
(* Teardown: what a core has of a device's channel, it has for a channel the *)
(* handler knows or for the one it is making or unmaking.                    *)

Flat == {"wipe_locks", "wipe_area", "mod_init", "mod_again", "test", "irq",
         "setup", "sync", "up", "reset"}

\* A cdev is that of a channel that was made, or of the one that is being made
\* or could not be made.
Cdevs(c) ==
    /\ \E i \in Channel : kernel[c].cdev \subseteq Made(c) \cup {i}
    /\ pc[c] \in Flat => kernel[c].cdev \subseteq Made(c)
    /\ pc[c] \in {"send", "recv", "register"} =>
           kernel[c].cdev \subseteq Made(c) \cup {at[c]}
    /\ kernel[c].synced =>
           /\ kernel[c].cdev \subseteq Made(c)
           /\ pc[c] \in {"up", "cleanup", "close_send", "close_recv", "down", "crashed"}

\* The handles of a device's channel belong to a channel that is made or that
\* the core is making or unmaking.
Channels(c) ==
    pc[c] \notin {"crashed", "bug"} =>
        \A n \in Channel \ {0} :
            /\ kernel[c].hand[SendName(c, n)] # Nil =>
                   \/ n \in Made(c)
                   \/ at[c] = n /\ pc[c] \in {"recv", "register", "undo", "close_send"}
            /\ kernel[c].hand[RecvName(c, n)] # Nil =>
                   \/ n \in Made(c)
                   \/ at[c] = n /\ pc[c] \in {"register", "close_send", "close_recv"}

\* shm_dev_cleanup ends when no device's channel is left.
Devices(c) == Cdevs(c) /\ Channels(c) /\ (pc[c] = "down" => Made(c) = {})

\* A core that was never stopped knows all its open bits.
Bits(c) ==
    ~overrun /\ life[c] = 0 /\ pc[c] # "reset" =>
        \A h \in Info : c \in info[h].open => kernel[c].hand[info[h].name] = h

TeardownInv == \A c \in Cpu : Devices(c) /\ Bits(c)

(* The two names of a channel, and that they differ from all others. *)
LEMMA NameCases ==
    ASSUME NEW c \in Cpu
    PROVE  /\ \A n \in Channel :
                  /\ {SendName(c, n), RecvName(c, n)} = {<<n, "up">>, <<n, "down">>}
                  /\ SendName(c, n) # RecvName(c, n)
                  /\ SendName(c, n) # Test /\ RecvName(c, n) # Test
                  /\ SendName(c, n)[1] = n /\ RecvName(c, n)[1] = n
                  /\ SendName(c, n) \in Name /\ RecvName(c, n) \in Name
           /\ {SendName(0, 0), SendName(1, 0)} = {<<0, "up">>, <<0, "down">>}
<1>1. \A n \in Channel : /\ SendName(c, n) = <<n, IF (c = 0) = (n = 0) THEN "down" ELSE "up">>
                         /\ RecvName(c, n) = <<n, IF (c = 0) = (n = 0) THEN "up" ELSE "down">>
  <2>1. (1 - c = 0) <=> ~(c = 0)
    BY DEF Cpu
  <2> QED  BY <2>1 DEF SendName, RecvName
<1>2. \A n \in Channel : SendName(c, n) \in {<<n, "up">>, <<n, "down">>}
                         /\ RecvName(c, n) \in {<<n, "up">>, <<n, "down">>}
                         /\ SendName(c, n) # RecvName(c, n)
  BY <1>1
<1>3. {SendName(0, 0), SendName(1, 0)} = {<<0, "up">>, <<0, "down">>}
  BY DEF SendName
<1>4. \A n \in Channel : <<n, "up">> \in Name /\ <<n, "down">> \in Name
  BY DEF Name
<1>5. \A n \in Channel : <<n, "up">> # Test /\ <<n, "down">> # Test
  BY DEF Test
<1> QED  BY <1>2, <1>3, <1>4, <1>5

(* Moves of a core that change neither its handles nor its devices. *)
LEMMA DevicesMove ==
    ASSUME TypeInv, NEW c \in Cpu, Devices(c),
           kernel'[c].hand = kernel[c].hand, kernel'[c].listed = kernel[c].listed,
           kernel'[c].cdev = kernel[c].cdev, kernel'[c].synced = kernel[c].synced,
           at'[c] = at[c],
           \/ pc'[c] = pc[c]
           \/ pc[c] \in Flat \ {"up"} /\ pc'[c] \in Flat \cup {"send", "cleanup"}
           \/ pc[c] = "up" /\ pc'[c] = "cleanup"
           \/ pc[c] \in {"send", "recv"} /\ at[c] = 0 /\ pc'[c] \in Flat
           \/ pc[c] = "send" /\ pc'[c] \in {"cleanup", "bug"}
           \/ pc[c] = "recv" /\ pc'[c] = "undo"
           \/ pc'[c] = "crashed"
           \/ pc[c] = "cleanup" /\ pc'[c] = "down" /\ Made(c) = {}
    PROVE  Devices(c)'
<1>1. Made(c)' = Made(c) /\ 0 \notin kernel[c].cdev
  BY TypeParts DEF Made, Kernels
<1>2. Cdevs(c) /\ Channels(c) /\ (pc[c] = "down" => Made(c) = {})
  BY DEF Devices
<1>3. Cdevs(c)'
  BY <1>1, <1>2 DEF Cdevs, Flat
<1>4. \A n \in Channel : SendName(c, n)' = SendName(c, n) /\ RecvName(c, n)' = RecvName(c, n)
  BY DEF SendName, RecvName
<1>5. Channels(c)'
  BY <1>1, <1>2, <1>4 DEF Channels, Flat
<1>6. pc'[c] = "down" => Made(c)' = {}
  BY <1>1, <1>2 DEF Flat
<1> QED  BY <1>3, <1>5, <1>6 DEF Devices

(* The steps of a core that are such moves. *)
LEMMA MoveDevices ==
    ASSUME TypeInv, TypeInv', NEW c \in Cpu, Devices(c),
           \/ c = 0 /\ (WipeLocks \/ WipeArea)
           \/ Take(c) \/ Initialise(c) \/ Join(c) \/ Refuse(c) \/ ModInitAgain(c)
           \/ NotOpened(c) \/ OpenBug(c) \/ SetupFails(c) \/ ShmExit(c) \/ MessageKills(c)
    PROVE  Devices(c)'
<1>0. /\ kernel \in Kernels /\ at \in [Cpu -> Channel] /\ pc \in [Cpu -> Places] /\ Local(c)
  BY TypeParts
<1>1. at'[c] = at[c]
  BY DEF WipeLocks, WipeArea, Take, Initialise, Join, Refuse, ModInitAgain, NotOpened, OpenBug,
         SetupFails, ShmExit, MessageKills
<1>2. /\ kernel'[c].hand = kernel[c].hand /\ kernel'[c].listed = kernel[c].listed
      /\ kernel'[c].cdev = kernel[c].cdev /\ kernel'[c].synced = kernel[c].synced
  <2>1. CASE Initialise(c) \/ Join(c)
    BY <1>0, <2>1, FlagKeeps DEF Initialise, Join
  <2>2. CASE ~(Initialise(c) \/ Join(c))
    <3>1. kernel' = kernel
      BY <2>2 DEF WipeLocks, WipeArea, Take, Refuse, ModInitAgain, NotOpened, OpenBug,
                  SetupFails, ShmExit, MessageKills
    <3> QED  BY <3>1
  <2> QED  BY <2>1, <2>2
<1>3. CASE Take(c)
  <2>1. pc'[c] = pc[c]
    BY <1>3 DEF Take
  <2> QED  BY <1>1, <1>2, <2>1, DevicesMove
<1>4. CASE \/ c = 0 /\ (WipeLocks \/ WipeArea)
           \/ Initialise(c) \/ Join(c) \/ Refuse(c) \/ ModInitAgain(c)
  <2>1. pc[c] \in Flat \ {"up"} /\ pc'[c] \in Flat
    BY <1>0, <1>4 DEF WipeLocks, WipeArea, Initialise, Join, Refuse, ModInitAgain, Initialising,
                      AfterModInit, Goto, Flat
  <2> QED  BY <1>1, <1>2, <2>1, DevicesMove
<1>5. CASE NotOpened(c)
  <2>1. pc[c] \in {"test", "send", "recv"} /\ AfterModInit(c) \in Flat
    BY <1>5 DEF NotOpened, AfterModInit, Flat
  <2>2. Goto(c, CASE pc[c] = "test"                 -> "send"
                  [] pc[c] # "test" /\ at[c] = 0    -> AfterModInit(c)
                  [] pc[c] = "send" /\ at[c] # 0    -> "cleanup"
                  [] pc[c] = "recv" /\ at[c] # 0    -> OnNoRecv)
    BY <1>5 DEF NotOpened
  <2>3. CASE pc[c] = "test"
    <3>1. pc'[c] = "send" /\ "test" \in Flat \ {"up"}
      BY <1>0, <2>2, <2>3 DEF Goto, Flat
    <3> QED  BY <1>1, <1>2, <2>3, <3>1, DevicesMove
  <2>4. CASE pc[c] \in {"send", "recv"} /\ at[c] = 0
    <3>1. pc'[c] = AfterModInit(c)
      BY <1>0, <2>2, <2>4 DEF Goto
    <3> QED  BY <1>1, <1>2, <2>1, <2>4, <3>1, DevicesMove
  <2>5. CASE pc[c] = "send" /\ at[c] # 0
    <3>1. pc'[c] = "cleanup"
      BY <1>0, <2>2, <2>5 DEF Goto
    <3> QED  BY <1>1, <1>2, <2>5, <3>1, DevicesMove
  <2>6. CASE pc[c] = "recv" /\ at[c] # 0
    <3>1. pc'[c] = "undo"
      BY <1>0, <2>2, <2>6 DEF Goto, OnNoRecv
    <3> QED  BY <1>1, <1>2, <2>6, <3>1, DevicesMove
  <2> QED  BY <2>1, <2>3, <2>4, <2>5, <2>6
<1>6. CASE OpenBug(c)
  <2>1. pc[c] = "send" /\ pc'[c] = "bug"
    BY <1>0, <1>6 DEF OpenBug, Goto
  <2> QED  BY <1>1, <1>2, <2>1, DevicesMove
<1>7. CASE SetupFails(c)
  <2>1. pc[c] \in Flat \ {"up"} /\ pc'[c] = "cleanup"
    BY <1>0, <1>7 DEF SetupFails, Goto, Flat
  <2> QED  BY <1>1, <1>2, <2>1, DevicesMove
<1>8. CASE ShmExit(c)
  <2>1. pc[c] = "up" /\ pc'[c] = "cleanup"
    BY <1>0, <1>8 DEF ShmExit, Goto
  <2> QED  BY <1>1, <1>2, <2>1, DevicesMove
<1>9. CASE MessageKills(c)
  <2>1. pc'[c] = "crashed"
    BY <1>0, <1>9 DEF MessageKills, Goto
  <2> QED  BY <1>1, <1>2, <2>1, DevicesMove
<1> QED  BY <1>3, <1>4, <1>5, <1>6, <1>7, <1>8, <1>9

(* A successful open adds a handle of the channel in progress only.           *)
LEMMA OpenedDevices ==
    ASSUME TypeInv, NEW c \in Cpu, Devices(c), Opened(c)
    PROVE  Devices(c)'
<1>0. /\ kernel \in Kernels /\ at \in [Cpu -> Channel] /\ pc \in [Cpu -> Places]
      /\ at[c] \in Channel
  BY TypeParts
<1>1. PICK h \in Info : kernel'[c].hand = [kernel[c].hand EXCEPT ![Opening(c)] = h]
  BY OpenFacts
<1>2. /\ kernel'[c].listed = kernel[c].listed /\ kernel'[c].cdev = kernel[c].cdev
      /\ kernel'[c].synced = kernel[c].synced /\ at'[c] = at[c]
      /\ Opening(c) \in Name /\ pc[c] \in {"test", "send", "recv"}
  BY OpenFacts DEF Openings
<1>3. pc'[c] = CASE pc[c] = "test" -> "send" [] pc[c] = "send" -> "recv" [] OTHER -> "register"
  BY <1>0 DEF Opened, Goto
<1>4. /\ pc[c] = "test" => pc'[c] = "send" /\ Opening(c) = Test
      /\ pc[c] = "send" => pc'[c] = "recv" /\ Opening(c) = SendName(c, at[c])
      /\ pc[c] = "recv" => pc'[c] = "register" /\ Opening(c) = RecvName(c, at[c])
  BY <1>3 DEF Opening
<1>5. Cdevs(c) /\ Channels(c)
  BY DEF Devices
<1>6. Made(c)' = Made(c)
  BY <1>2 DEF Made
<1>7. Cdevs(c)'
  BY <1>2, <1>4, <1>5, <1>6 DEF Cdevs, Flat
<1>8. Channels(c)'
  <2>1. SUFFICES ASSUME NEW n \in Channel \ {0}
                 PROVE  /\ kernel'[c].hand[SendName(c, n)] # Nil =>
                              \/ n \in Made(c)
                              \/ at[c] = n /\ pc'[c] \in {"recv", "register"}
                        /\ kernel'[c].hand[RecvName(c, n)] # Nil =>
                              \/ n \in Made(c)
                              \/ at[c] = n /\ pc'[c] = "register"
    BY <1>2, <1>6 DEF Channels, SendName, RecvName
  <2>2. /\ kernel[c].hand[SendName(c, n)] # Nil =>
                \/ n \in Made(c)
                \/ at[c] = n /\ pc[c] = "recv"
        /\ kernel[c].hand[RecvName(c, n)] # Nil => n \in Made(c)
    BY <1>2, <1>5 DEF Channels
  <2>3. \A y \in Name : y # Opening(c) => kernel'[c].hand[y] = kernel[c].hand[y]
    BY <1>0, <1>1 DEF Kernels
  <2>4. /\ SendName(c, n) \in Name /\ RecvName(c, n) \in Name
        /\ SendName(c, n) # RecvName(c, n) /\ SendName(c, n) # Test /\ RecvName(c, n) # Test
        /\ SendName(c, n) # RecvName(c, at[c]) \/ n = at[c]
        /\ RecvName(c, n) # SendName(c, at[c])
        /\ SendName(c, n) = SendName(c, at[c]) => n = at[c]
        /\ RecvName(c, n) = RecvName(c, at[c]) => n = at[c]
    <3>1. n \in Channel
      OBVIOUS
    <3>2. /\ SendName(c, n)[1] = n /\ RecvName(c, n)[1] = n
          /\ SendName(c, at[c])[1] = at[c] /\ RecvName(c, at[c])[1] = at[c]
          /\ SendName(c, n) # RecvName(c, n)
      BY <1>0, <3>1, NameCases
    <3> QED  BY <3>1, <3>2, NameCases
  <2>5. CASE pc[c] = "test"
    BY <1>4, <2>2, <2>3, <2>4, <2>5
  <2>6. CASE pc[c] = "send"
    BY <1>4, <2>2, <2>3, <2>4, <2>6
  <2>7. CASE pc[c] = "recv"
    BY <1>4, <2>2, <2>3, <2>4, <2>7
  <2> QED  BY <1>2, <2>5, <2>6, <2>7
<1>9. pc'[c] # "down"
  BY <1>2, <1>4
<1> QED  BY <1>7, <1>8, <1>9 DEF Devices

(* A close takes a handle of the channel in progress away.                    *)
LEMMA ClosedDevices ==
    ASSUME TypeInv, NEW c \in Cpu, Devices(c), Closed(c)
    PROVE  Devices(c)'
<1>0. /\ kernel \in Kernels /\ at \in [Cpu -> Channel] /\ pc \in [Cpu -> Places]
      /\ at[c] \in Channel
  BY TypeParts
<1>1. /\ kernel'[c].listed = kernel[c].listed /\ kernel'[c].cdev = kernel[c].cdev
      /\ kernel'[c].synced = kernel[c].synced /\ at'[c] = at[c]
      /\ Closing(c) \in Name /\ pc[c] \in {"undo", "close_send", "close_recv"}
      /\ kernel'[c].hand = [kernel[c].hand EXCEPT ![Closing(c)] = Nil]
      /\ pc'[c] = AfterClose(c)
  BY CloseFacts DEF Closings
<1>2. /\ pc[c] = "undo" => pc'[c] = "cleanup" /\ Closing(c) = SendName(c, at[c])
      /\ pc[c] = "close_send" => pc'[c] = "close_recv" /\ Closing(c) = SendName(c, at[c])
      /\ pc[c] = "close_recv" => pc'[c] = "cleanup" /\ Closing(c) = RecvName(c, at[c])
  BY <1>1 DEF AfterClose, Closing
<1>3. Cdevs(c) /\ Channels(c) /\ Made(c)' = Made(c)
  BY <1>1 DEF Devices, Made
<1>4. Cdevs(c)'
  BY <1>1, <1>2, <1>3 DEF Cdevs, Flat
<1>5. Channels(c)'
  <2>1. SUFFICES ASSUME NEW n \in Channel \ {0}
                 PROVE  /\ kernel'[c].hand[SendName(c, n)] # Nil => n \in Made(c)
                        /\ kernel'[c].hand[RecvName(c, n)] # Nil =>
                              \/ n \in Made(c)
                              \/ at[c] = n /\ pc'[c] = "close_recv"
    BY <1>1, <1>3 DEF Channels, SendName, RecvName
  <2>2. /\ kernel[c].hand[SendName(c, n)] # Nil =>
                \/ n \in Made(c)
                \/ at[c] = n /\ pc[c] \in {"undo", "close_send"}
        /\ kernel[c].hand[RecvName(c, n)] # Nil =>
                \/ n \in Made(c)
                \/ at[c] = n /\ pc[c] \in {"close_send", "close_recv"}
    BY <1>1, <1>3 DEF Channels
  <2>3. /\ \A y \in Name : y # Closing(c) => kernel'[c].hand[y] = kernel[c].hand[y]
        /\ kernel'[c].hand[Closing(c)] = Nil
    BY <1>0, <1>1 DEF Kernels
  <2>4. /\ SendName(c, n) \in Name /\ RecvName(c, n) \in Name
    BY NameCases
  <2>5. CASE pc[c] = "undo"
    BY <1>2, <2>2, <2>3, <2>4, <2>5
  <2>6. CASE pc[c] = "close_send"
    BY <1>2, <2>2, <2>3, <2>4, <2>6
  <2>7. CASE pc[c] = "close_recv"
    BY <1>2, <2>2, <2>3, <2>4, <2>7
  <2> QED  BY <1>1, <2>5, <2>6, <2>7
<1>6. pc'[c] # "down"
  BY <1>1, <1>2
<1> QED  BY <1>4, <1>5, <1>6 DEF Devices

(* The steps that make and unmake a device, and those that lose it all. *)
LEMMA MakeDevices ==
    ASSUME TypeInv, NEW c \in Cpu, Devices(c),
           \/ Register(c) \/ InterruptOn(c) \/ SetupDev(c) \/ SyncInit(c)
           \/ Cleanup(c) \/ HoldReset(c) \/ LetGo(c) \/ HoldAgain(c)
    PROVE  Devices(c)'
<1>0. /\ kernel \in Kernels /\ at \in [Cpu -> Channel] /\ pc \in [Cpu -> Places]
      /\ at[c] \in Channel /\ Local(c)
      /\ kernel[c].cdev \in SUBSET (1..NDevice) /\ kernel[c].listed \in SUBSET Channel
  BY TypeParts DEF Kernels
<1>1. Cdevs(c) /\ Channels(c) /\ (pc[c] = "down" => Made(c) = {})
  BY DEF Devices
<1>2. \A n \in Channel : SendName(c, n)' = SendName(c, n) /\ RecvName(c, n)' = RecvName(c, n)
  BY DEF SendName, RecvName
<1>3. CASE Register(c)
  <2>1. kernel[c].listed \cup {at[c]} \in SUBSET Channel
    BY <1>0
  <2>2. /\ pc[c] = "register" /\ kernel'[c].hand = kernel[c].hand
        /\ kernel'[c].listed = kernel[c].listed \cup {at[c]}
        /\ kernel'[c].cdev = kernel[c].cdev /\ kernel'[c].synced = kernel[c].synced
    BY <1>0, <1>3, <2>1, SetKeeps DEF Register
  <2>3. /\ Made(c)' = Made(c) \cup ({at[c]} \ {0})
    BY <2>2 DEF Made
  <2>4. pc'[c] \in Flat \ {"up"} /\ pc'[c] # "down"
    BY <1>0, <1>3 DEF Register, Goto, AfterModInit, Flat
  <2>5. kernel[c].cdev \subseteq Made(c)'
    BY <1>0, <1>1, <2>2, <2>3 DEF Cdevs
  <2>6. ~kernel[c].synced
    BY <1>1, <2>2 DEF Cdevs
  <2>7. Cdevs(c)'
    BY <1>0, <2>2, <2>4, <2>5, <2>6 DEF Cdevs, Flat
  <2>8. Channels(c)'
    BY <1>1, <1>2, <2>2, <2>3 DEF Channels
  <2> QED  BY <2>4, <2>7, <2>8 DEF Devices
<1>4. CASE InterruptOn(c) \/ SyncInit(c)
  <2>1. /\ kernel'[c].hand = kernel[c].hand /\ kernel'[c].listed = kernel[c].listed
        /\ kernel'[c].cdev = kernel[c].cdev
        /\ kernel'[c].synced => kernel[c].synced \/ pc'[c] = "up"
        /\ pc[c] \in Flat \ {"up"} /\ pc'[c] \in {"setup", "up"}
    <3>1. CASE InterruptOn(c)
      BY <1>0, <3>1, FlagKeeps DEF InterruptOn, Goto, Flat
    <3>2. CASE SyncInit(c)
      BY <1>0, <3>2, FlagKeeps DEF SyncInit, Goto, Flat
    <3> QED  BY <1>4, <3>1, <3>2
  <2>2. Made(c)' = Made(c)
    BY <2>1 DEF Made
  <2>3. kernel[c].cdev \subseteq Made(c) /\ ~kernel[c].synced
    BY <1>1, <2>1 DEF Cdevs, Flat
  <2>4. Cdevs(c)'
    BY <1>0, <2>1, <2>2, <2>3 DEF Cdevs
  <2>5. Channels(c)'
    BY <1>1, <1>2, <2>1, <2>2 DEF Channels, Flat
  <2> QED  BY <2>1, <2>4, <2>5 DEF Devices
<1>5. CASE SetupDev(c)
  <2>1. at[c] \in 1..NDevice
    BY <1>0, <1>5, BootAssumption DEF SetupDev, Local, Channel
  <2>2. kernel[c].cdev \cup {at[c]} \in SUBSET (1..NDevice)
    BY <1>0, <2>1
  <2>3. /\ kernel'[c].hand = kernel[c].hand /\ kernel'[c].listed = kernel[c].listed
        /\ kernel'[c].cdev = kernel[c].cdev \cup {at[c]}
        /\ kernel'[c].synced = kernel[c].synced
        /\ pc[c] = "setup" /\ pc'[c] = "send" /\ at'[c] = at[c]
    BY <1>0, <1>5, <2>2, SetKeeps DEF SetupDev, Goto
  <2>4. Made(c)' = Made(c)
    BY <2>3 DEF Made
  <2>5. kernel[c].cdev \subseteq Made(c) /\ ~kernel[c].synced
    BY <1>1, <2>3 DEF Cdevs, Flat
  <2>6. Cdevs(c)'
    BY <1>0, <2>3, <2>4, <2>5 DEF Cdevs, Flat
  <2>7. Channels(c)'
    BY <1>1, <1>2, <2>3, <2>4 DEF Channels
  <2> QED  BY <2>3, <2>6, <2>7 DEF Devices
<1>6. CASE Cleanup(c) /\ Made(c) = {}
  <2>1. pc[c] = "cleanup" /\ pc'[c] = "down" /\ UNCHANGED <<kernel, at>>
    BY <1>0, <1>6 DEF Cleanup, Goto
  <2> QED  BY <1>6, <2>1, DevicesMove
<1>7. CASE Cleanup(c) /\ Made(c) # {}
  <2>1. PICK i \in Made(c) :
            /\ at' = [at EXCEPT ![c] = i] /\ Goto(c, "close_send") /\ pc[c] = "cleanup"
            /\ kernel' = [kernel EXCEPT ![c].listed = @ \ {i}, ![c].cdev = @ \ {i}]
    BY <1>7 DEF Cleanup
  <2>2. i \in Channel
    BY <1>0 DEF Made
  <2>3. /\ kernel'[c].hand = kernel[c].hand /\ kernel'[c].synced = kernel[c].synced
        /\ kernel'[c].listed = kernel[c].listed \ {i}
        /\ kernel'[c].cdev = kernel[c].cdev \ {i}
        /\ pc'[c] = "close_send" /\ at'[c] = i
    BY <1>0, <2>1, <2>2, CleanupKeeps DEF Goto
  <2>4. Made(c)' = Made(c) \ {i}
    BY <2>3 DEF Made
  <2>5. Cdevs(c)'
    BY <1>1, <2>1, <2>3, <2>4 DEF Cdevs, Flat
  <2>6. Channels(c)'
    BY <1>1, <1>2, <2>1, <2>3, <2>4 DEF Channels
  <2> QED  BY <2>3, <2>5, <2>6 DEF Devices
<1>8. CASE HoldReset(c) \/ HoldAgain(c)
  <2>1. /\ kernel'[c].cdev = {} /\ ~kernel'[c].synced /\ \A x \in Name : kernel'[c].hand[x] = Nil
        /\ pc'[c] = "reset"
    BY <1>0, <1>8, FreshKeeps DEF HoldReset, HoldAgain, Held, Goto
  <2>2. Cdevs(c)'
    BY <1>0, <2>1 DEF Cdevs
  <2>3. \A n \in Channel : SendName(c, n) \in Name /\ RecvName(c, n) \in Name
    BY NameCases
  <2>4. Channels(c)'
    BY <1>2, <2>1, <2>3 DEF Channels
  <2> QED  BY <2>1, <2>2, <2>4 DEF Devices
<1>9. CASE LetGo(c)
  <2>1. /\ pc[c] = "reset" /\ pc'[c] \in {"wipe_locks", "mod_init"} /\ UNCHANGED <<kernel, at>>
    <3>1. pc[c] = "reset" /\ Goto(c, Entry(c)) /\ UNCHANGED <<kernel, at>>
      BY <1>0, <1>9 DEF LetGo, Local
    <3> QED  BY <1>0, <3>1 DEF Goto, Entry
  <2>2. pc[c] \in Flat \ {"up"} /\ pc'[c] \in Flat
    BY <2>1 DEF Flat
  <2> QED  BY <2>1, <2>2, DevicesMove
<1> QED  BY <1>3, <1>4, <1>5, <1>6, <1>7, <1>8, <1>9

(* What one core does does not touch the devices of the other. *)
LEMMA OtherDevices ==
    ASSUME NEW d \in Cpu, Devices(d),
           kernel'[d] = kernel[d], pc'[d] = pc[d], at'[d] = at[d]
    PROVE  Devices(d)'
<1>1. Made(d)' = Made(d)
  BY DEF Made
<1>2. \A n \in Channel : SendName(d, n)' = SendName(d, n) /\ RecvName(d, n)' = RecvName(d, n)
  BY DEF SendName, RecvName
<1>3. Cdevs(d)'
  BY <1>1 DEF Devices, Cdevs
<1>4. Channels(d)'
  BY <1>1, <1>2 DEF Devices, Channels
<1> QED  BY <1>1, <1>3, <1>4 DEF Devices

(* A step of core c, as the other core sees it. *)
LEMMA OtherStays ==
    ASSUME TypeInv, NEW c \in Cpu,
           Step(c) \/ ShmExit(c) \/ MessageKills(c) \/ HoldReset(c) \/ LetGo(c) \/ HoldAgain(c)
    PROVE  \A d \in Cpu : d # c =>
               kernel'[d] = kernel[d] /\ pc'[d] = pc[d] /\ at'[d] = at[d] /\ life'[d] = life[d]
<1>0. /\ kernel \in Kernels /\ at \in [Cpu -> Channel] /\ pc \in [Cpu -> Places]
      /\ life \in [Cpu -> 0..MaxResets]
  BY TypeParts
<1> SUFFICES ASSUME NEW d \in Cpu, d # c
             PROVE  kernel'[d] = kernel[d] /\ pc'[d] = pc[d] /\ at'[d] = at[d] /\ life'[d] = life[d]
  OBVIOUS
<1>1. ASSUME NEW l, Goto(c, l) PROVE pc'[d] = pc[d]
  BY <1>0, <1>1 DEF Goto
<1>2. ASSUME NEW f, NEW v, Set(c, f, v) PROVE kernel'[d] = kernel[d]
  BY <1>0, <1>2 DEF Set, Kernels
<1>3. ASSUME NEW a, at' = [at EXCEPT ![c] = a] PROVE at'[d] = at[d]
  BY <1>0, <1>3
<1>4. CASE c = 0 /\ (WipeLocks \/ WipeArea)
  BY <1>1, <1>4 DEF WipeLocks, WipeArea
<1>5. CASE Take(c) \/ Initialise(c) \/ Join(c) \/ Refuse(c) \/ ModInitAgain(c)
  BY <1>1, <1>2, <1>5 DEF Take, Initialise, Join, Refuse, ModInitAgain
<1>6. CASE NotOpened(c) \/ OpenBug(c) \/ SetupFails(c) \/ ShmExit(c) \/ MessageKills(c)
  BY <1>1, <1>6 DEF NotOpened, OpenBug, SetupFails, ShmExit, MessageKills
<1>7. CASE Opened(c) \/ Closed(c)
  BY <1>0, <1>7, OpenFacts, CloseFacts DEF KernelOf
<1>8. CASE Register(c)
  <2>1. /\ Set(c, "listed", kernel[c].listed \cup {at[c]}) /\ life' = life
        /\ at' = at \/ at' = [at EXCEPT ![c] = at[c] + 1]
        /\ \/ Goto(c, AfterModInit(c)) \/ Goto(c, "sync") \/ Goto(c, "setup")
    BY <1>8 DEF Register
  <2> QED  BY <1>1, <1>2, <1>3, <2>1
<1>9. CASE InterruptOn(c) \/ SetupDev(c) \/ SyncInit(c)
  BY <1>1, <1>2, <1>3, <1>9 DEF InterruptOn, SetupDev, SyncInit
<1>10. CASE Cleanup(c)
  <2>1. CASE kernel' = kernel /\ at' = at
    BY <1>1, <1>10, <2>1 DEF Cleanup
  <2>2. CASE \E i : /\ at' = [at EXCEPT ![c] = i]
                    /\ kernel' = [kernel EXCEPT ![c].listed = @ \ {i}, ![c].cdev = @ \ {i}]
    <3>1. kernel'[d] = kernel[d] /\ at'[d] = at[d]
      BY <1>0, <2>2 DEF Kernels
    <3> QED  BY <1>1, <1>10, <3>1 DEF Cleanup
  <2> QED  BY <1>10, <2>1, <2>2 DEF Cleanup
<1>11. CASE HoldReset(c) \/ HoldAgain(c)
  <2>1. kernel'[d] = kernel[d]
    BY <1>0, <1>11 DEF HoldReset, HoldAgain, Held, Kernels
  <2> QED  BY <1>1, <1>3, <1>11, <2>1 DEF HoldReset, HoldAgain, Held
<1>12. CASE LetGo(c)
  <2>1. life'[d] = life[d]
    BY <1>0, <1>12 DEF LetGo
  <2> QED  BY <1>1, <1>12, <2>1 DEF LetGo
<1> QED  BY <1>4, <1>5, <1>6, <1>7, <1>8, <1>9, <1>10, <1>11, <1>12 DEF Step

(* A step that leaves the infos alone, and the handles of a core that runs. *)
LEMMA BitsFrame ==
    ASSUME NEW d \in Cpu, Bits(d), UNCHANGED <<info, overrun>>,
           life'[d] = 0 /\ pc'[d] # "reset" =>
               life[d] = 0 /\ pc[d] # "reset" /\ kernel'[d].hand = kernel[d].hand
    PROVE  Bits(d)'
BY DEF Bits

(* An open sets the bit of the core for the handle it returns.                *)
LEMMA OpenedBits ==
    ASSUME TypeInv, NamesInv, NEW c \in Cpu, Opened(c), NEW d \in Cpu, Bits(d)
    PROVE  Bits(d)'
<1> DEFINE x == Opening(c)
<1>0. /\ kernel \in Kernels /\ infoFree \in Seq(Info)
      /\ info \in [Info -> [name : Name \cup {Nil}, open : SUBSET Cpu, mem : Block \cup {Nil}]]
  BY TypeParts DEF RegionOK
<1>1. PICK h \in Info :
          /\ OpenSeg(c, x, h)
          /\ kernel'[c].hand = [kernel[c].hand EXCEPT ![x] = h]
  BY OpenFacts
<1>2. /\ UNCHANGED <<overrun, life>> /\ KernelOf(c) /\ x \in Name
      /\ pc[c] # "reset" /\ \A e \in Cpu : e # c => pc'[e] = pc[e]
  BY OpenFacts DEF Openings
<1> HIDE DEF x
<1>3. SUFFICES ASSUME ~overrun, life[d] = 0, pc'[d] # "reset", NEW g \in Info, d \in info'[g].open
               PROVE  kernel'[d].hand[info'[g].name] = g
  BY <1>2 DEF Bits
<1>4. \A f \in Info : d \in info[f].open => kernel[d].hand[info[f].name] = f
  BY <1>2, <1>3 DEF Bits
<1>5. Infos
  BY <1>3 DEF NamesInv
<1>6. /\ d # c => kernel'[d].hand = kernel[d].hand
      /\ \A y \in Name : y # x => kernel'[c].hand[y] = kernel[c].hand[y]
      /\ kernel'[c].hand[x] = h
  BY <1>0, <1>1, <1>2 DEF KernelOf, Kernels
<1>7. \A f \in Info : d \in info[f].open => info[f].name \in Name
  BY <1>0, <1>5 DEF Infos
<1>8. /\ info'[h].name = x
      /\ d # c /\ d \in info'[h].open => d \in info[h].open /\ info[h].name = x
      /\ \A f \in Info : f # h => info'[f] = info[f]
  <2>1. CASE h \in Found(x) /\ info' = [info EXCEPT ![h].open = @ \cup {c}]
    <3>1. /\ info'[h].name = info[h].name /\ info'[h].open = info[h].open \cup {c}
          /\ \A f \in Info : f # h => info'[f] = info[f]
      BY <1>0, <2>1
    <3> QED  BY <2>1, <3>1 DEF Found
  <2>2. CASE \E b \in Block : info' = [info EXCEPT ![h] = [name |-> x, open |-> {c}, mem |-> b]]
    <3>1. /\ info'[h].name = x /\ info'[h].open = {c}
          /\ \A f \in Info : f # h => info'[f] = info[f]
      BY <1>0, <2>2
    <3> QED  BY <3>1
  <2> QED  BY <1>1, <2>1, <2>2 DEF OpenSeg
<1>9. CASE g = h
  BY <1>3, <1>4, <1>6, <1>8, <1>9
<1>10. CASE g # h
  <2>1. d \in info[g].open /\ info'[g].name = info[g].name /\ kernel[d].hand[info[g].name] = g
    BY <1>3, <1>4, <1>8, <1>10
  <2>2. CASE info[g].name # x
    BY <1>6, <1>7, <2>1, <2>2
  <2>3. CASE info[g].name = x
    <3>1. Found(x) # {}
      BY <2>3 DEF Found
    <3>2. info[h].name = x
      BY <1>1, <3>1 DEF OpenSeg, Found
    <3> QED  BY <1>5, <1>7, <1>10, <2>1, <2>3, <3>2, NilAssumption DEF Infos
  <2> QED  BY <2>2, <2>3
<1> QED  BY <1>9, <1>10

(* A close clears the bit together with the handle.                           *)
LEMMA ClosedBits ==
    ASSUME TypeInv, NamesInv, NEW c \in Cpu, Closed(c), NEW d \in Cpu, Bits(d)
    PROVE  Bits(d)'
<1> DEFINE x == Closing(c)
           h == kernel[c].hand[x]
<1>0. /\ kernel \in Kernels
      /\ info \in [Info -> [name : Name \cup {Nil}, open : SUBSET Cpu, mem : Block \cup {Nil}]]
  BY TypeParts DEF RegionOK
<1>1. /\ UNCHANGED <<overrun, life>> /\ KernelOf(c) /\ x \in Name
      /\ pc[c] \in Closings /\ pc'[c] = AfterClose(c)
      /\ \A e \in Cpu : e # c => pc'[e] = pc[e]
      /\ kernel'[c].hand = [kernel[c].hand EXCEPT ![x] = Nil]
      /\ \/ h \in Info /\ CloseSeg(c, h)
         \/ ~OpenBit(c) /\ UNCHANGED info
  BY CloseFacts
<1>2. OpenBit(c) <=> h # Nil /\ c \in info[h].open
  BY DEF OpenBit
<1> HIDE DEF x
<1>3. SUFFICES ASSUME ~overrun, life[d] = 0, pc'[d] # "reset", NEW g \in Info, d \in info'[g].open
               PROVE  kernel'[d].hand[info'[g].name] = g
  BY <1>1 DEF Bits
<1>4. \A f \in Info : d \in info[f].open => kernel[d].hand[info[f].name] = f
  <2>1. pc[c] # "reset"
    BY <1>1 DEF Closings
  <2> QED  BY <1>1, <1>3, <2>1 DEF Bits
<1>5. Infos /\ Handles
  BY <1>3 DEF NamesInv
<1>6. /\ d # c => kernel'[d].hand = kernel[d].hand
      /\ \A y \in Name : y # x => kernel'[c].hand[y] = kernel[c].hand[y]
  BY <1>0, <1>1 DEF KernelOf, Kernels
<1>7. \A f \in Info : d \in info[f].open => info[f].name \in Name
  BY <1>0, <1>5 DEF Infos
<1>8. h # Nil => info[h].name = x /\ c \in info[h].open
  BY <1>1, <1>5 DEF Handles
<1> HIDE DEF h
<1>9. d \in info[g].open /\ info'[g].name = info[g].name /\ (g = h /\ h # Nil => d # c)
  <2>1. CASE h \in Info /\ info' = [info EXCEPT ![h] = EmptyInfo]
    BY <1>0, <1>3, <2>1 DEF EmptyInfo
  <2>2. CASE h \in Info /\ info' = [info EXCEPT ![h].open = @ \ {c}]
    BY <1>0, <1>3, <2>2
  <2>3. CASE ~OpenBit(c) /\ UNCHANGED info
    BY <1>2, <1>3, <1>8, <2>3
  <2> QED  BY <1>1, <2>1, <2>2, <2>3 DEF CloseSeg
<1>10. kernel[d].hand[info[g].name] = g /\ info[g].name \in Name
  BY <1>4, <1>7, <1>9
<1>11. CASE d # c
  BY <1>6, <1>9, <1>10, <1>11
<1>12. CASE d = c
  <2>1. info[g].name # x
    <3>1. SUFFICES ASSUME info[g].name = x PROVE FALSE
      OBVIOUS
    <3>2. h = g
      BY <1>10, <1>12, <3>1 DEF h
    <3>3. h # Nil
      BY <3>2, NilAssumption
    <3> QED  BY <1>9, <1>12, <3>2, <3>3
  <2> QED  BY <1>6, <1>9, <1>10, <1>12, <2>1
<1> QED  BY <1>11, <1>12

(* Every step leaves a core no more than the device in progress accounts for. *)
LEMMA NextTeardown ==
    TypeInv /\ TypeInv' /\ NamesInv /\ TeardownInv /\ [Next]_bootVars => TeardownInv'
<1> SUFFICES ASSUME TypeInv, TypeInv', NamesInv, TeardownInv, [Next]_bootVars,
                    NEW d \in Cpu
             PROVE  Devices(d)' /\ Bits(d)'
  BY DEF TeardownInv
<1>0. /\ Devices(d) /\ Bits(d) /\ \A c \in Cpu : Devices(c) /\ Bits(c)
      /\ kernel \in Kernels /\ pc \in [Cpu -> Places] /\ life \in [Cpu -> 0..MaxResets]
  BY TypeParts DEF TeardownInv
<1>1. CASE UNCHANGED bootVars
  <2>1. Devices(d)'
    BY <1>0, <1>1, OtherDevices DEF bootVars
  <2>2. Bits(d)'
    BY <1>0, <1>1, BitsFrame DEF bootVars, region
  <2> QED  BY <2>1, <2>2
<1>2. ASSUME NEW c \in Cpu,
             Step(c) \/ ShmExit(c) \/ MessageKills(c) \/ HoldReset(c) \/ LetGo(c) \/ HoldAgain(c)
      PROVE  Devices(d)' /\ Bits(d)'
  <2>1. d # c => kernel'[d] = kernel[d] /\ pc'[d] = pc[d] /\ at'[d] = at[d] /\ life'[d] = life[d]
    BY <1>2, OtherStays
  <2>2. Devices(d)'
    <3>1. CASE d # c
      BY <1>0, <2>1, <3>1, OtherDevices
    <3>2. CASE d = c
      BY <1>0, <1>2, <3>2, MoveDevices, MakeDevices, OpenedDevices, ClosedDevices DEF Step
    <3> QED  BY <3>1, <3>2
  <2>3. Bits(d)'
    <3>1. CASE Opened(c)
      BY <1>0, <3>1, OpenedBits
    <3>2. CASE Closed(c)
      BY <1>0, <3>2, ClosedBits
    <3>3. CASE WipeArea
      <4>1. \A h \in Info : info'[h].open = {}
        BY <3>3 DEF WipeArea, EmptyInfo
      <4> QED  BY <4>1 DEF Bits
    <3>4. CASE WipeLocks
      <4>1. UNCHANGED <<info, kernel, life>> /\ (overrun => overrun') /\ pc[0] = "wipe_locks"
        BY <3>4 DEF WipeLocks
      <4>2. pc'[d] # "reset" => pc[d] # "reset"
        BY <1>0, <3>4 DEF WipeLocks, Goto, Cpu
      <4> QED  BY <1>0, <4>1, <4>2 DEF Bits
    <3>5. CASE Initialise(c)
      <4>1. UNCHANGED <<info, overrun, life>> /\ pc[c] # "reset"
        BY <3>5 DEF Initialise, Initialising
      <4>2. kernel'[d].hand = kernel[d].hand
        BY <1>0, <2>1, <3>5, FlagKeeps DEF Initialise
      <4> QED  BY <1>0, <2>1, <4>1, <4>2, BitsFrame
    <3>6. CASE \/ Take(c) \/ Join(c) \/ Refuse(c) \/ ModInitAgain(c)
               \/ NotOpened(c) \/ OpenBug(c)
               \/ Register(c) \/ InterruptOn(c) \/ SetupDev(c) \/ SetupFails(c)
               \/ SyncInit(c) \/ Cleanup(c) \/ ShmExit(c)
      <4>1. /\ UNCHANGED <<info, overrun, life>> /\ pc[c] # "reset"
            /\ KernelOf(c) /\ kernel'[c].hand = kernel[c].hand
        BY <3>6, QuietNames DEF Early
      <4> QED  BY <1>0, <2>1, <4>1, BitsFrame
    <3>7. CASE MessageKills(c)
      BY <1>0, <2>1, <3>7, BitsFrame DEF MessageKills, region
    <3>8. CASE HoldReset(c) \/ HoldAgain(c)
      <4>1. UNCHANGED <<info, overrun, life>> /\ pc'[c] = "reset"
        BY <1>0, <3>8 DEF HoldReset, HoldAgain, Held, Goto, region
      <4> QED  BY <1>0, <2>1, <4>1, BitsFrame
    <3>9. CASE LetGo(c)
      <4>1. UNCHANGED <<info, overrun>> /\ life'[c] # 0
        <5>1. life[c] \in Nat /\ life'[c] = life[c] + 1
          BY <1>0, <3>9 DEF LetGo
        <5> QED  BY <3>9, <5>1 DEF LetGo, region
      <4> QED  BY <1>0, <2>1, <4>1, BitsFrame
    <3> QED  BY <1>2, <3>1, <3>2, <3>3, <3>4, <3>5, <3>6, <3>7, <3>8, <3>9 DEF Step
  <2> QED  BY <2>2, <2>3
<1> QED  BY <1>1, <1>2 DEF Next

(* At power-on there is nothing to take back.                                 *)
LEMMA InitTeardown == Init => TeardownInv
<1> SUFFICES ASSUME Init, NEW c \in Cpu PROVE Devices(c) /\ Bits(c)
  BY DEF TeardownInv
<1>1. /\ kernel[c].cdev = {} /\ ~kernel[c].synced /\ \A x \in Name : kernel[c].hand[x] = Nil
      /\ pc[c] # "down" /\ 0 \in Channel
  BY BootAssumption DEF Init, FreshKernel, Entry, Channel
<1>2. Cdevs(c)
  BY <1>1 DEF Cdevs
<1>3. Channels(c)
  BY <1>1, NameCases DEF Channels
<1>4. \A h \in Info : info[h].open = {}
  BY DEF Init, EmptyInfo
<1>5. Bits(c)
  BY <1>4 DEF Bits
<1> QED  BY <1>1, <1>2, <1>3, <1>5 DEF Devices

\* After shm_exit, or a shm_init that failed, no channel of a device is open or
\* known to the handler, whatever device failed at whatever step, and at most
\* one cdev is left (mpi_shm.c:322-350, 440-470).
THEOREM TeardownLeavesNothing == Spec => []TeardownComplete
<1>1. TypeInv /\ NamesInv /\ TeardownInv => TeardownComplete
  <2>1. SUFFICES ASSUME TypeInv, NamesInv, TeardownInv, NEW c \in Cpu, pc[c] = "down"
                 PROVE  /\ kernel[c].listed \subseteq {0}
                        /\ kernel[c].synced => kernel[c].cdev = {}
                        /\ \A i, j \in kernel[c].cdev : i = j
                        /\ (life[c] = 0 /\ ~overrun) =>
                               \A h \in Info : c \in info[h].open =>
                                   info[h].name \in {Test, SendName(0, 0), SendName(1, 0)}
    BY DEF TeardownComplete
  <2>2. Cdevs(c) /\ Channels(c) /\ Bits(c) /\ Made(c) = {}
    BY <2>1 DEF TeardownInv, Devices
  <2>3. kernel[c].listed \subseteq {0}
    BY <2>2 DEF Made
  <2>4. kernel[c].synced => kernel[c].cdev = {}
    BY <2>2 DEF Cdevs
  <2>5. \A i, j \in kernel[c].cdev : i = j
    BY <2>2 DEF Cdevs
  <2>6. ASSUME life[c] = 0, ~overrun, NEW h \in Info, c \in info[h].open
        PROVE  info[h].name \in {Test, SendName(0, 0), SendName(1, 0)}
    <3>1. kernel[c].hand[info[h].name] = h /\ h # Nil
      BY <2>1, <2>2, <2>6, NilAssumption DEF Bits
    <3>2. info[h].name \in Name
      <4>1. info[h].name \in Name \cup {Nil}
        BY <2>1, TypeParts DEF RegionOK
      <4>2. info[h].name # Nil
        BY <2>1, <2>6 DEF NamesInv, Infos
      <4> QED  BY <4>1, <4>2
    <3>3. CASE info[h].name = Test
      BY <3>3
    <3>4. ASSUME NEW n \in Channel, info[h].name \in {<<n, "up">>, <<n, "down">>}
          PROVE  info[h].name \in {Test, SendName(0, 0), SendName(1, 0)}
      <4>1. info[h].name \in {SendName(c, n), RecvName(c, n)}
        BY <3>4, NameCases
      <4>2. n = 0
        <5>1. SUFFICES ASSUME n # 0 PROVE FALSE
          OBVIOUS
        <5>2. n \in Channel \ {0} /\ n \notin Made(c)
          BY <2>2, <5>1
        <5> QED  BY <2>1, <2>2, <3>1, <4>1, <5>2 DEF Channels
      <4> QED  BY <3>4, <4>2, NameCases
    <3>5. info[h].name = Test \/ \E n \in Channel : info[h].name \in {<<n, "up">>, <<n, "down">>}
      BY <3>2 DEF Name
    <3> QED  BY <3>3, <3>4, <3>5
  <2> QED  BY <2>3, <2>4, <2>5, <2>6
<1> QED  BY <1>1, InitTypeInv, NextTypeInv, InitNames, NextNames, InitTeardown, NextTeardown,
            PTL DEF Spec

=============================================================================
