# shm_drv: TLA+ models, model checks and proofs

`shm_drv` is a Linux driver by which two cores, each running its own kernel,
exchange messages through a region of memory they both map. These modules model
its start and shutdown on both cores, the layout of that region, its
allocator, its named segments, its message channels and its character devices.
TLC checks them on small instances; TLAPS proves the safety properties of the
allocator, the layout, the segments, the channels, the devices and the start for every
size of the system. All line numbers are those of the
sources under `src/`.

Contents: 1 the system, 2 what is hard about it, 3 the modules, 4 the runs,
5 fairness, 6 what is proved, 7 what the checks found, 8 what is not modelled,
9 plan.

## 1. The system

### Components, their state and their operations

| Component | Source | State | Operations |
|---|---|---|---|
| Inter-core locks | `mpi.c` | the lock words in the shared region; `s_lock_keeper`, static data of each kernel, the lock numbers that core has handed out | `system_lock` (test-and-set in a loop, interrupts stay on), `system_unlock`, `Mpi_mutex_init`, `Mpi_mutex_destroy` |
| Block allocator | `shm.c` 500-760 | headers `struct Mod_mem` (signature, flag, length) in the shared region; the free and busy lists of every pool in static data of each kernel | `mod_mem_init`, `mod_malloc`, `mod_free` |
| List functions | `shm.c` 150-330 | `struct Mod_list_entry` nodes | `add_list_head`, `remove_list_head`, `remove_list_entry`, and their twins for infos |
| Named segments | `shm.c` 760-1110 | `struct Shm_control_area` in the shared region: an array of `Shm_block_info` (name, open bits, memory pointer, length, window, update bits) on a free and a busy list | `mpi_shm_open`, `_close`, `_send`, `_send_offset`, `_get`, `_get_offset`, `_get_mem` |
| Message channels | `shm.c` 1230-1394 | `struct Mpi_channel` of each core: a send and a receive handle, a mutex number, a callback, private data | `mpi_create_channel[_with_data]`, `mpi_destroy_channel`, `mpi_channel_send` |
| Doorbell interrupt | `utils.c` 540-760 | one message register and one interrupt line for each core; the list of registered channels | `message_write`, `message_isr`, `message_int_reg`, `message_int_unreg` |
| Character devices | `mpi_shm.c` | for each device a semaphore, a data flag, a state and a list node with a time stamp; for all of them `global_sem`, `list_sem`, `sync_shm_cnt`, `sync_shm_condition` | `dev_read`, `dev_write`, `dev_poll`, `dev_ioctl`, the callback `mpi_shm_callback_func`, `sync_shm_lock_func` |
| Boot | `mpi.c`, `shm.c`, `utils.c`, `mpi_shm.c` | `m_init_flag` and the pool numbers in the region; `pshm_control_area`, the handles, channels and devices each kernel has made so far | `init_mpi`, `mod_init`, `mpi_default_channel_init`, `message_int_init`, `shm_init`, `shm_exit`, and the restart of a core by `hreset_peer` |
| Pool layout | `shm.c` 397-490, 524-553 | where control area, infos and pools lie | `total_shm_number`, `total_shm_size`, the roundings and refusals of `mod_mem_init` and `mod_init` |
| Default channel, interrupt send and get | `shm.c` | one channel, two handles | made at boot; send and get are thin callers of the segment functions |
| Flash synchronisation | `utils.c`, under `CONFIG_FLASHMSG` | - | an interrupt that takes a lock from outside the repository |
| Registers, dumps, reset, console | `utils.c` | hardware | reads, writes, printing |

### How they interact

A device's `write` sends on its channel, a channel's send is a segment's send
followed by a ring of the peer's doorbell, a segment's open and close allocate
and free a block. On the other core the interrupt finds the channel that
receives on the handle in the register and calls back; the callback gets the
message from the segment, marks the device and ends the wait of `dev_write`.

At start core 0 clears the region, and whichever core comes to `mod_init` first
under `s_mod_lock` initialises it; the other joins, or is refused if its driver
has other pools. Each core then opens the segments of the default channel, takes
the interrupt, and makes a device and a channel at a time.

The cores share the lock words, the block headers, the control area and the
bytes of the segments. They do **not** share the allocator's lists, the lock
keeper or the channels, which are static data of each kernel. One spin lock,
`s_mod_lock`, covers the body of every call on a segment, and it is taken by
processes and by interrupt handlers alike.

### What makes each component correct

- Allocator: every block is on one list of a core, once (its asserts rely on
  it); no two open segments have the same block; the header of a block in use
  stays busy and its length fits; what is closed can be allocated again.
- Lists: links stay consistent in both directions and across both lists; the
  functions behave as two stacks with removal from the middle.
- Segments: the control area's lists, open bits, names and pointers agree; a
  name leads both cores to one segment; a segment outlives the peer's close as
  long as one holds it; a copy whose core keeps the handle stays inside the block;
  together they are one buffer for each name.
- Channels: a creation that fails leaves nothing behind; a registered channel
  holds its two segments; no message waits without a doorbell that announces
  it, but for the losses the code does not guard against; each other is got in the
  end; the lock is released on every path.
- Devices: semaphores are given back, the list operations meet nodes in the
  state they need, the counter never exceeds the entries, a write is acknowledged
  by an answer that came after it was sent, poll tells of data that waits, every call
  returns.
- Boot: however starts and restarts interleave, a name leads both cores to one
  segment and every core settles; what a failed or undone initialisation made is
  taken back.
- Layout: as long as its 32-bit sums do not wrap, infos and pools never overlap or
  leave the region, and no region with room is refused.

## 2. What is hard about it

- *Two copies of the lists over one set of blocks.* Each core believes its own
  lists (`shm.c:610`, `721`).
- *Tests before the lock.* All segment calls but open read `m_mem`, `m_open`
  and `m_length` before they take `s_mod_lock` and use them under it
  (`shm.c:845`, `929`, `977`, `1010`).
- *Recycled infos.* A close leaves the window and an update bit in the info the
  next open of another name takes (`shm.c:848`).
- *An interrupt handler that takes a spin lock the process under it may hold*
  (`mpi.c:122`).
- *One register as a doorbell*, overwritten by the next ring (`utils.c:706`).
- *A channel that is registered before it is complete*: its private data and then its
  buffer come later (`shm.c:1298`, `1310`, `1311`).
- *Answers that come late, early or not at all* to a write that waits ten
  seconds, with the list membership of the device decided by a time stamp
  (`mpi_shm.c:125`, `207`, `462`).
- *Early returns* on failed copies, timeouts and signals (`mpi_shm.c:183`, `197`,
  `206`).
- *Start-up*: one core clears memory the other will use, and waits are by time
  (`utils.c:773`); the interrupt is on before the wait queue it wakes exists
  (`mpi_shm.c:440`).
- *Restarts*: what a kernel knew is lost while the region stays: its infos keep
  their open bits, its lock stays taken, its new lists call every block free
  (`mpi.c:122`, `shm.c:349`).
- *Initialisation that fails half way*, differently at each call (`shm.c:1159`,
  `shm.c:1281`, `mpi_shm.c:348`).
- *Two roundings of one start address*, one up to a page and one up to 32 bytes,
  that must leave infos and pools apart (`shm.c:418`), and sums in `unsigned` and `int`
  that nobody tests for overflow (`shm.c:138`).

`PROJECT.json` lists each with its line and the properties that would catch it.

## 3. The modules

```
ModHeap ── HeapUse ── HeapUseProofs          TwoLists <══ ModList ── ModListProofs
   │          ▲                              MpiChannel ── MpiChannelProofs
   ├── ShmSegment ══> SharedBuffers          ShmDevice  ── ShmDeviceProofs
   │       └── ShmSegmentProofs              PoolLayout ── PoolLayoutProofs
   └── Boot ── BootProofs
```

`──` is EXTENDS; `══>` and `▲` are refinements, checked by TLC and proved.
`ModHeapProofs` extends ModHeap; `HeapUseProofs`, `ShmSegmentProofs` and `BootProofs`
extend it.

**ModHeap** (`mod_mem_init_heap`, `mod_malloc`, `mod_free`). A block is its pool
and its number in it. `free[c][p]` and `busy[c]` are core c's own lists, `flag`
and `mlen` the shared headers. `Malloc` walks the pools upward; the first whose
block is large enough and whose list is not empty gives its head. `Free` either
returns the block (`FreeReturned`) or prints a message and returns
(`FreeRejected`); the assert at `shm.c:692` is `FreeAsserts`. Both functions run
under `s_mod_lock`, so each is one step. The signature and address range checks
of `mod_free` hold of every address `mod_malloc` gave out and do not appear.

**HeapUse**: the allocator as segments use it. The core that opens a name first
allocates, the core that closes it last frees, and either may be either. The history
variable `served` of ModHeap records the cores that have allocated so far; the
properties that need a single allocating core say `OneAllocates`. `CloseBug` is the
BUG_ON.

**ModList** (`add_list_head`, `remove_list_head`, `remove_list_entry`, one
allocation or release an action each): the pointers `m_next` and `m_previous` of
every node, stale ones included, and the counters. **TwoLists** says what these
lists promise. The functions for `Shm_block_info` (`shm.c:232`-`303`) are the same code
on another struct; they are not translated again and not mapped.

**ShmSegment**: one action for the unlocked tests of a call (`CloseCheck`,
`SendCheck`, `GetCheck`, ...), one for the reading of the length where that
follows (`SendMeasure`, `GetOffsetMeasure`), one for the body under the lock.
`Attach` and `Create` are the two outcomes of `mpi_shm_open` that change state.
A `memcpy` with a null pointer or past the block is an action of its own
(`SendFault`, `ReadFault`): what follows is undefined, so the model records the
reason and stops with the lock held. `content` gives each byte the core that
wrote it. Lengths are computed modulo `Word`.

Nothing keeps a caller from the calls for which the code has no protection, so they are
in the model, and the history variable `rash` marks the threads that are in one: a get on a
handle its core does not hold (`mpi_shm_get` tests the peer's bit only), a length whose
sum with the offset wraps, and a copy whose own core closes the handle between its test and
its body (`LeadAstray`). What the properties promise, they promise to all other
calls, next to these. `written` is the other history variable: whether the window
was set, and not by a rash call, since the info was last opened. Before that a get finds the window of the
info's former segment, and nothing is promised to it either.
**SharedBuffers** is the promise: one buffer for each name, no handles, no
blocks, no lock.

**MpiChannel**: each core has one process and an interrupt handler that runs on
top of it. A call into a segment is three steps here (tests, lock, body), so the
handler may come between any two of them, and between the stores of
`m_private_data` (`SetData`) and `m_buffer` (`SetBuffer`): a get without a buffer is refused
(`Gettable`). A name is the channel number and the
sending core (`_up` and `_down`); an info keeps its name, its bits and whether
a message waits. An open may fail at any time (`NotOpened`): lengths and the heap, which
are two of its reasons, are left out. The doorbell is `msgr` and `irq`;
`message_isr` walks `calls` in order. A null dereference stops the core for good (`crashed`).

The history variable `missed` holds the infos whose waiting message nothing announces
any more. It is set where this happens, and these are all the places: a ring that
overwrites one that was not read (`Overwritten`), a get that is refused because the
channel has no buffer yet or its sender has closed the segment (`GetTest`), and an
open that is given an info in which a former segment left a message (`Opened`). A new message,
a new ring or a get takes the info out again.

`Given` says which infos a new segment may be made of. In the code any free one, and so in
`channel_setup`; `channel_doorbell` gives each name an info of its own, since infos
are alike, which keeps the liveness run small.

**ShmDevice**: the processes of one core on its devices. Every semaphore
operation, copy, send and wait is a step; a section under `list_sem` is one step,
because it never blocks and the callback does not enter it. The reset of `m_state`
and the test for data in `dev_read` are two steps (`ReadReset`, `ReadTest`), as are the two
stores of `sync_shm_lock_func(0)` when an ioctl runs it (`UnlockReset`, `UnlockSet`); the
callback runs it in one go. `mpi_channel_send`
is `WriteSend`: after it an answer is due, to come once, at any time or never.
A `list_add` or `list_del` that meets a node in the wrong state sets `broken`. The
rigid variable `calm` tells two kinds of behaviour apart: in a calm one a single
client writes, polls until there is data, reads and writes again, while answers
come late or never; in the others any process calls anything, copies fail, signals
end waits, the ioctls wake waiters and messages come unasked.

**Boot**: both cores from power-on to `shm_init`, through `shm_exit` and again after a
reset. `pc` and `at` say how far a core is and with which channel, `kernel` holds its
static data, `area` is `m_init_flag` together with the pools the region was
initialised for. Every section under `s_mod_lock` is `Take` and then one action for its
body; the other core, a message (`MessageKills`) or a reset may come between. A core
is started again as another core of ModHeap, because its lists start afresh over the
headers that stayed. Messages appear only where they stop the receiver: without a
control area, under the lock, or before `sync_shm_wait` is initialised. `overrun` is a
history variable: core 0 cleared the region while core 1 was using it.

What Boot assumes: at power-on the region is zero, has a non-zero flag that is no
driver's, or is what an earlier boot left with no segment open; the infos of a region
that counts as initialised are all free then. `hreset_peer` is three actions, for the three
writes that hold the peer, let it go and hold it again (`HoldReset`, `LetGo`, `HoldAgain`),
with any step of either core between them; the core that runs it may stop half way. The lock
word holds a core and its life, so that a word a core left behind is told apart from one its
restarted kernel has taken. `utils_init` runs before `shm_init`. A
`message_int_init` that fails is a core to which nothing is delivered.

**PoolLayout**: one step for each turn of the loops of `total_shm_number`,
`total_shm_size` and `mod_mem_init`, so that the sums need no recursion. `RoundedStart`
and `BlockStart` are the two roundings, `Measure` the assert and the refusal. Results are
taken modulo `Word` (`Kept`), and the history variable `wrapped` says that one did not fit;
a pool whose size is negative as an `int` makes the initialisation fail (`Negative`).

The `MC*` modules hold the small instances: pool tables, the assignment of threads
to cores and of calls to threads, and symmetry sets. In all modules but `HeapUse`,
`TwoLists` and `SharedBuffers` the definitions marked "slip" are faulty versions of the
definition that follows; no specification uses them. `PROJECT.json` pairs each with a
property that fails when it takes the place of the correct one.

## 4. The runs

| Run | Properties | Instance and why it is enough |
|---|---|---|
| `heap_cores` | `TypeOK`, `ListsPartition`, `OneAllocatorInv`, `NoSharedBlock`, `LiveFits`, `LeaksAreForeign` | Two cores, four segments for four blocks in pools of 1, 2, 0 and 1: pools run empty and the walk goes past them, one pool has no blocks. Sizes 1, 2, 3, 5: at and just above what blocks hold, the last never granted. The cores hand out the same block, free it under each other and meet refused frees. |
| `list_pointers` | `TypeOK`, `AssertsHold`, `WellLinked`, `ImplementsTwoLists` | Five nodes, all orders: removal from head, middle and tail of every length. |
| `segment_buffers` | `CopiesSafe`, `ImplementsBuffers` | Two names, two infos, blocks of 1 and 2 bytes, lengths 1 and 2, offsets 0 and 1, one thread a core. Both cores open and close; one sends, the other gets, on handles held or not: windows that fit and that are cut, each info serving both names in turn, segments reopened shorter, a stale window taken. `Word` is 3, so that 2 + 1 wraps. |
| `segment_threads` | `TypeOK`, `InfosConsistent`, `UniqueNames`, `InfosSuffice`, `CopiesSafe`, `HolderKeepsSegment`, `UsesHeap` | Three threads, two of them on one core; both cores allocate; two names, two infos, two blocks, one of them of the smallest pool. Two closes of one handle meet, sends and gets race closes and reopens of their own core and of the other. |
| `channel_setup` | `TypeOK`, `NothingLeftBehind`, `ListenersHold`, `DoorbellCovers` | Channels 1, 2 and 9 on two cores: two of them need four infos and have three, so creations fail at the first and at the second open; channel 9 wants the lock number 510, which is reserved. Both cores destroy, and infos pass from one name to the other with a message in them. |
| `channel_doorbell` | `DoorbellCovers`, `Delivered`, `LockReleased` | The same channels with an info for each segment of channels 1 and 2. One core creates both and sends on both, so that its rings overwrite each other; the other creates and destroys them, so that messages arrive at every point of the setup and the teardown, and its handler interrupts it under the lock. |
| `device_calls` | `TypeOK`, `SemaphoresReturned`, `FreshAck`, `ListSound`, `CountWithinEntries`, `PollSeesData`, `CallsReturn` | Two processes on one device, up to two answers due. Calm: the late answer to a write that timed out arrives during the next write, poll or read. Not calm: the processes call in any order; copies fail, signals end waits, answers come unasked, early or never. `ListSound` and `PollSeesData` are about calm behaviours only. |
| `boot` | `TypeOK`, `PeersPaired`, `BlocksApart`, `TeardownComplete`, `BootCompletes` | Two cores with one device each, five infos for the test segment, two names of the default channel and two of the device, four blocks: the last open of whoever comes last fails. Equal and different drivers, a zero, junk or old region, a lock word that is free or junk, one restart: held, let go, held again. |
| `pool_layout` | `LayoutSound`, `RefusalsJust` | The shipped table of 15 pools and 12 small ones (empty, one block, 31 blocks in one or two pools) in regions of 4 KB to 96 MB at aligned and odd addresses: placed, refused and asserted. `Word` is 2^27, above all that these need, and four more tables wrap it in the number of infos or in the bytes, or make a pool's size negative. |
| `heap_two_allocators`, `heap_small_block`, `channel_callback_data` | one each | The disagreements of section 7. |

Bounds. `Handle`, the pool tables, `Size`, `Offset`, `Thread`, `Name` and `Number`
are small sets. `Word` is 16 in `segment_threads`, above any length plus offset, and 3 in
`segment_buffers`. `UpdateMode` is both values in `segment_threads` and FALSE in
`segment_buffers`: no caller in `src` passes 1. `CountBound` stops
new calls on the devices while `sync_shm_cnt` is at 2 or -2; two processes on a device
reach linked and unlinked nodes with counts that are right and too low within it.
`MaxDue` is the number of answers a device may have outstanding: two, so that a late
one may come when another is due. `MaxResets` is 1, over both cores: a second restart
meets what the first left, which is the same kind of region. `NDevice` is 1; with two
the boot run has over four million states before any restart. So a failing `shm_init` has no
earlier device to undo in the run, and `Cleanup` with a device to undo is that of `shm_exit`.
The theorems of `BootProofs` have neither bound: that a failed `shm_init` takes down all the
devices it had made is shown by `TeardownLeavesNothing`, not by the run.

Deadlock. All runs but `heap_two_allocators` and `list_pointers` say
`CHECK_DEADLOCK FALSE`: `pool_layout` ends when the pools are placed or refused,
`boot` when both cores are down or dead, and in the others the system really may stop: a BUG_ON or a bad
`memcpy` leaves `s_mod_lock` held; a handler spins for ever on the lock of the process
under it; a crashed core is silent; after signals all semaphores may be taken.

Restrictions that are part of what a run shows:

- `ImplementsBuffers` and `InfosSuffice` speak of behaviours up to the point where a second
  core allocates, the case in which the heap is sound (section 6). `segment_buffers` has one
  allocating core (`Allocator = {c0}`). With two, `heap_two_allocators` shows what happens;
  `segment_threads` has two, and its other properties hold all the same.
- A rash call (section 3) is promised nothing: it does write or read through null and past
  its block in the segment runs, and the model stops there. `CopiesSafe` and
  `ImplementsBuffers` say that no other call is harmed, up to that point. The get that the
  handler makes by itself (`utils.c:614`) may be one; `MpiChannel` has its fault as `GetFault`.
- A get of a segment that nothing was sent to yet takes the window of the info's former
  segment (`shm.c:848` clears neither `m_size` nor `m_offset`): it may read other bytes than
  its length allows, past the block too. It is promised nothing either.
- `DoorbellCovers` and `Delivered` except the messages in `missed` (section 3). These losses
  do occur in the runs, two channels being enough for an overwritten ring; no line of the
  repository says that they may not.
- A process that a signal made leave keeps its semaphores for good (`mpi_shm.c:183`,
  `197`, `206`): `SemaphoresReturned` and `CallsReturn` except it.
- A calm behaviour has one client. Two that each write, poll, read on devices of their
  own already make `sync_shm_cnt` lose an entry: a late answer to a write of the one that
  timed out leaves `m_state` active, the other's answer acknowledges its next write, and it
  reads while its device is linked (`mpi_shm.c:127` counts down all the same). The timer prints
  the counter as the number of entries (`mpi_shm.c:380`); `CountWithinEntries` says, of
  all behaviours, only that it is never more than that.
- `FreshAck` is about a condition set before the message was sent. A late answer to an
  *earlier* write that comes after that does count as this one's, and an answer that comes
  before `sync_shm_lock_func(1)` resets the condition (`mpi_shm.c:462`) is forgotten: the
  write then times out.
- A message that comes while `dev_read` copies an older one is lost when it clears
  `m_data_available` (`mpi_shm.c:146`): nothing waits any more, so `PollSeesData` says
  nothing of it.
- Copies do not fail in a calm behaviour: after a failed `copy_to_user` data stays
  available while poll is silent.
- After an `overrun` `boot` promises only types and `BootCompletes`: nothing but
  `delay(1)` (`utils.c:773`) keeps core 1 from using what core 0 then clears.
- `BlocksApart` is promised as long as one kernel has allocated since the region was
  cleared. A core that starts again is another kernel: its lists call every block free
  (`shm.c:349`) and two segments may get one block, as in `heap_two_allocators`.
- `LayoutSound` and `RefusalsJust` say nothing once `wrapped`: a table for more than the
  address space is laid out over itself, which nothing tests for. The shipped table is far from it.
- `TeardownComplete` allows the cdev of the device whose channel could not be created
  (`mpi_shm.c:348`: it is neither deleted nor among those `shm_dev_cleanup` undoes), the
  segments a core opened before it was reset, and those of the default channel, which
  nothing closes.

## 5. Fairness

`MpiChannel!FairSpec` has weak fairness on the process of a core that has begun a
call and on its handler: a core executes its next instruction, and a pending
interrupt is served. Nobody is obliged to begin a call. A handler that spins is not
helped: taking the lock is only weakly fair, as a test-and-set loop is. So
`Delivered` assumes that the processes pause, and `LockReleased` says only that a
holder goes on to release. Both exclude the case of a core that died or of a handler that spins
for its own process, which the code permits, and `Delivered` the messages in `missed`.
`LockReleased` is checked of creation, failed or not, of sending, of destruction and of the
handler; that the bodies under the lock exclude each other is proved (`LockExcludes`).

`ShmDevice!FairSpec` has strong fairness on the continuation of each process's
call. Every blocking point is a kernel semaphore, whose waiters are queued and woken
in turn, or the wait of `sync_shm_lock_func`, which ends after ten seconds by itself:
no fairness of the peer is assumed, and `CallsReturn` holds when answers are lost.

`Boot!Spec` has weak fairness on the step of each core: it goes on with its
initialisation or its teardown. Nobody is obliged to unload, reset or send. The spin
lock is again only weakly fair, which is enough because the other core takes it
finitely often before it settles. `BootCompletes` excepts a lock word with the mark of a
core that was stopped since it wrote it, started again or not, and one that was junk when
core 0 was stopped before it cleared it (`Abandoned`). A word that a running core has taken
is not excepted: that core must give it back.

The other specifications have no fairness; only safety is checked of them.

## 6. What is proved

`HeapUseProofs` proves, for any number of cores, pools, blocks, segments and
sizes, under `HeapAssumption` and `UseAssumption`:

| Theorem | States |
|---|---|
| `TypeCorrect` | `[]TypeOK` |
| `ListsStayPartitioned` | `[]ListsPartition` |
| `OneAllocatorInductive`, `OneAllocatorHolds` | the inductive invariant; `[]OneAllocatorInv` |
| `SegmentsDisjoint`, `LiveBlocksFlagged`, `LiveBlocksFit`, `FlagsTellTruth`, `AllocatorCloseAccepted` | `[]NoSharedBlock`, `[]LiveFlagged`, `[]LiveFits`, `[]FlagMeansBusy`, `[]CloseAccepted` |
| `LeaksForeign` | `LeaksAreForeign`, an action property |

The last three rows speak of behaviours up to the point where a second core allocates;
the properties say so themselves (`served \subseteq {a}`).

The argument.

1. In `ModHeapProofs`, `PopRange`, `PushRange` and `InitialFreeList` say what taking the head, pushing, and
   the initial numbering do to the range of a list without duplicates.
2. `ListsInv == TypeOK /\ ListsPartition` is inductive: `ListsMalloc` and `ListsFree`
   move one block of one core from one list to the other, whatever the shared
   headers say and whichever cores allocate.
3. None of the safety properties is inductive by itself. That open segments have
   different blocks needs that a block on the free list is no segment's, hence
   that every segment's block is on the *allocator's* busy list; that the flag of a
   block in use stays set needs that no other core's close can reach it, hence that
   the busy lists of the others are empty and flags and lists agree.
   `SoleAllocator(a)` is their conjunction and `OneAllocator == ListsInv /\
   OneAllocatorInv` the inductive invariant. The interesting case is a close by
   another core: `mod_free` refuses the block, so neither flag nor list changes and
   the segment alone is gone (`SoleClose`). The block is then lost, and `LeakNext` shows
   that no other step loses one.

`heap_cores` checks these with TLC, the invariant `OneAllocatorInv` included; `LiveFlagged`,
`FlagMeansBusy` and `CloseAccepted`, which follow from it, are proved and not in the run.

`ShmSegmentProofs` proves, for any number of threads, infos, names, pools and blocks,
under `HeapAssumption` and `SegmentAssumption` (two cores, finitely many infos, lengths
from 1 and offsets from 0 below `Word`):

| Theorem | States |
|---|---|
| `AreaInductive` | `[]AreaInv`, the inductive invariant of the control area |
| `SegmentTypes`, `InfosAgree`, `NamesUnique` | `[]TypeOK`, `[]InfosConsistent`, `[]UniqueNames` |
| `HoldersKeep` | `HolderKeepsSegment`, an action property |
| `SegmentsUseHeap` | `UsesHeap`: ShmSegment implements HeapUse |
| `CopiesInductive`, `CopiesStaySafe` | `[]CopyInv`, the inductive invariant of the copies; `[]CopiesSafe` |
| `SegmentsOwnBlocks` | `[]BlocksInv`: the blocks of the segments, until a second core allocates |
| `InfosAreEnough` | if `InfoForEachBlock`, `[]InfosSuffice` |
| `BuffersInductive` | `[]BufferInv`, the inductive invariant of the refinement |
| `SegmentsAreBuffers` | `ImplementsBuffers`: one buffer for each name |

`InfoForEachBlock` is what `mod_init` does (`shm.c:529`); the other theorems have no premise.

1. `InfosConsistent` is not inductive: that the info an open takes was on no list twice,
   and that its block was nobody's, needs the types, what the threads carry (`PcOK`) and the
   lists of the heap (`ListsPartition`). `AreaInv` is their conjunction with
   `UniqueNames`. There is a lemma for each action (`CreateKeeps`, `CloseLastKeeps`, ...). The
   interesting case is a close whose handle was closed since its unlocked test: under
   the lock `mpi_shm_close` looks only at the other core's bit and at `m_mem`, clears an
   info that is clear already, and only because `remove_info_entry` does not find it
   on the busy list is it not put on the free list twice (`FreeInfo`).
2. `UsesHeap` is a step simulation: with `stuck` for "somebody died in the assert", a
   `Create` is an `Open`, a last close a `Close`, `CloseBug` a `CloseBug`, and all other steps
   leave HeapUse's variables alone (`HeapSteps`). With `HeapUseProofs` this gives the
   results on the allocator for the blocks of open segments, in every instance.
3. `CopiesSafe` needs that what a call tested before the lock is still true under it.
   `PendingInv` says so for the threads that are not `rash`, while nobody has died: the core of
   a thread that is between test and body holds its handle (`ThreadsHold`), a
   segment's length fits its block (`LengthsFit`), and a length that was cut is the message cut to
   *this* segment behind its offset (`CutsAre`); `WindowsFit` adds that a window that was
   `written` lies in its segment.
   Only a close by the thread's own core takes the handle away, and that step makes
   the thread rash; a close by the other core leaves the info alone because this core's bit
   stays. So the number of threads does not matter, and no thread needs to know of another.
4. `InfosSuffice` counts. Until a second core is given a block, the segments' blocks are
   different ones and all on the first core's busy list, whichever core closes (`OwnBlocks`; a
   close by the other core loses the block but leaves it on that list). So when every info is
   in use and there are as many infos as blocks, infos to blocks is a surjection and no
   free list has a block left.
5. `ImplementsBuffers` is a step simulation with the mapping of `ShmSegment`: a name is held by
   whom its info says, its bytes are those of the info's block, its window is the info's
   window if `written`, a thread has got what its get returned. A lemma for each action says
   which step of `SharedBuffers` it is (`AttachJoins`, ...). What a step must not do is
   change another name: each name is a slice (`Slice`) of the control area, and a step on an info
   leaves the slices of all others alone because their infos (`UniqueNames`) and their
   blocks (`OwnBlocks`) are different ones. The body of a rash call is the one step that need
   not be one of `SharedBuffers`; it still keeps the invariant, because what it does is
   done to the block of some info, changes no name, length or owner, and leaves a window
   that `written` does not vouch for.

`ModListProofs` proves, for any number of nodes and any order in which they are first pushed,
under `ListAssumption` (finitely many nodes, each pushed once, none of them the null pointer):

| Theorem | States |
|---|---|
| `ListsChained` | `[]ListInv`, the inductive invariant |
| `ListTypes`, `AssertsNeverFail`, `ListsWellLinked` | `[]TypeOK`, `[]AssertsHold`, `[]WellLinked` |
| `ListsAreStacks` | `ImplementsTwoLists`: the pointers are two stacks |

1. `Chain(m, l, s)` says that the pointers m of list l go through the sequence s, there and
   back, and that the count is its length; `ListInv` that there are two such sequences with
   all nodes between them and none in both. What the pointers of a node say beyond
   that is not constrained: nothing clears them when a node is removed, and each
   push must write all that it needs.
2. `PushChain`, `PopChain` and `EntryChain` are the three list functions on one chain, with the
   asserts; `PushOther` and the last part of the other two say that the other list does not
   notice, because the neighbours a function writes are nodes of its own list.
   `EntryChain` has no cases for head, middle and tail beyond those of the code.
3. `Walk` and `InitialPointers` are recursive functions. That they are what one expects
   (`WalkFollows`, `PushesBuild`) is an induction on a *set* of numbers, `InductionOnSets`, which
   follows from the well-foundedness of proper inclusion between finite sets: it takes no operator
   as a parameter, so it is within the prover's reach.
4. The refinement then reads the two sequences as the abstract lists: `Content(l)` is the chain
   (`ContentIs`), Tail and `Without` are what the moves leave (`AllocateChains`,
   `ReleaseChains`), and `Without` is the `RemoveAt` of `TwoLists`.

`PoolLayoutProofs` proves, for every number and size of pools, every table, region, word size
and size of the two structures, under `LayoutAssumption` (naturals, and a block has at least a
byte):

| Theorem | States |
|---|---|
| `LayoutInductive` | `[]LayoutInv`, the inductive invariant |
| `LayoutCorrect` | `[]LayoutSound` |
| `RefusalsCorrect` | `[]RefusalsJust` |

`LayoutSound` speaks of the end state only, and only of runs in which nothing wrapped; that is
its premise, stated in the property and not assumed of the constants. `LayoutInv` carries the
loops, as long as nothing wrapped: `SumsRight`, the partial sums and that they grow with the
pool; `CarvedRight`, a pool lies at the rounded start plus the partial sum before it, and the
last sum fits; `TurnedDown`, why the region was refused. The loop of the carving adds the same products as that of the sums,
so monotone sums give order and disjointness; `Slack` shows that the infos end before the
rounded start and that the roundings cost less than a page.

`MpiChannelProofs` proves, for any set of channel numbers, infos and reserved lock numbers,
under `ChannelAssumption` (two distinct cores, and a `Nil` that is nothing else):

| Theorem | States |
|---|---|
| `ChannelTypes` | `[]TypeOK` |
| `LockExcludes` | `[]MutualExclusion`, which no run checks on its own |
| `HoldInductive` | the inductive invariant of what the cores hold |
| `NothingStaysBehind`, `ListenersKeepTheirs` | `[]NothingLeftBehind`, `[]ListenersHold` |
| `DoorbellAlwaysCovers` | `[]DoorbellCovers` |

1. `TypeOK` needs that a process in a call has the number of its channel (`Numbered`).
2. `NothingLeftBehind` speaks of a core at rest, `ListenersHold` of channels on the list. In
   between, a creation or a destruction holds a part. `Sends(c)`, `Recvs(c)` and `Locks(c)` say
   which channels' handles and lock numbers core c has: those of registered channels, and
   of the one in progress as far as it has come. `Holding` says that
   these handles are held under their names, `Accounted` that every open bit is one of
   theirs, `KeeperOf` the same of `s_lock_keeper`, `Entries` that the list has no channel twice and
   not the one in progress, `Named` that an info has a name exactly while some core has it
   open, and no two the same. Every undo path must take its part away again, in the order the
   code has. The peer's closes disturb none of this because a close clears the name only of
   an info that loses its last bit.
3. `DoorbellCovers` needs the places a bell can be (`OnTheWay`): the sender between the body
   of its send and `message_write`, the register with its interrupt, the handler that has read
   the register and comes to the channel. `Covered` says it of every info in use, whether
   anybody listens to it yet or not, so that a message sent before the registration is
   covered; `Rings` that on the info a core is about to ring for no other message waits
   than its own. Each step
   that takes a bell away either gets the message or puts the info into `missed`. There is no
   premise: any number of channels, created and destroyed by both cores in any order.

`ShmDeviceProofs` proves, for any finite sets of processes and devices and any number of
answers that may be due, under `DeviceAssumption`:

| Theorem | States |
|---|---|
| `DeviceTypes` | `[]TypeOK`, the bounds of `sync_shm_cnt` included |
| `SemInductive` | the inductive invariant of semaphores and answers |
| `SemsReturned`, `AcksAreFresh` | `[]SemaphoresReturned`, `[]FreshAck`, in every behaviour |
| `DeviceInductive` | the inductive invariant of calm behaviours |
| `ListStaysSound`, `PollTells` | `[]ListSound`, `[]PollSeesData` |
| `CountWithin` | `[]CountWithinEntries`, in every behaviour |

1. `CountBound` stops only the beginning of calls, and a call begun counts up or down later.
   `CountInv` adds those under way: the count and the processes at `link` (`Linking`) stay below
   the upper bound together, the count less those that may still count down (`Unlinking`)
   above the lower. Sets that gain or lose one process at a step give this for any number.
2. `SemInv` says who owns what: a process past `down` holds the semaphore of *its* device
   (`SemOwner`), one past the second wait `global_sem` too (`GlobalOwner`). That the owner is one
   process makes `FreshAck` go through: only the owner of `global_sem` clears
   `sync_shm_condition`, after it sent, so what it finds set was set since
   (`ConditionFresh`), whosever answer it is.
3. `CalmInv` follows the one client through write, poll and read: its device is in the list,
   marked and counted from the write's entry to the end of the read or of the answer
   (`Entered`), and the callback that comes at any point of this finds the state that
   `Marked` promises.
4. `CountWithinEntries` is inductive with the types: an addition that meets no linked node
   and a count up go together, and a removal that meets a linked one takes a count down with it.
   That the count is *equal* to the entries is not so: see section 4.

`BootProofs` proves, for any number of devices, infos, blocks and restarts and whatever the
region holds at power-on, under `HeapAssumption`, `BootAssumption` and `NilAssumption`:

| Theorem | States |
|---|---|
| `BootTypes` | `[]TypeOK` |
| `NamesAgree` | `[]PeersPaired` |
| `SegmentsApart` | `[]BlocksApart` |
| `TeardownLeavesNothing` | `[]TeardownComplete` |

1. `TypeInv` adds to the types what a core's own steps keep up (`Local`): it has the lock only
   in the sections that take it, a close under the lock has a handle, nothing is open
   before `mod_init`.
2. `PeersPaired` compares two handles; `NamesInv` relates each to the control area: free infos
   are unnamed and listed once, no name is given twice (`Infos`), a handle is that of
   the info of its name with the core's bit (`Handles`). A kernel that has joined did so for the
   pools the area has now (`Joining`): the step that could break this is core 0 clearing the
   flag, which is what `overrun` records.
3. `BlocksInv` is the argument of `HeapUseProofs` over again for infos that outlive a kernel:
   while one kernel has allocated, the block of every *named* info is on that kernel's busy
   list, and different infos have different blocks. The bits a reset core left keep their
   infos named, so this counts them too.
4. `TeardownInv` says which cdevs, channels and bits a core has while it makes or unmakes
   device `at`: cdevs of the devices made and at most one more (`Cdevs`), handles of made
   channels and of the one in progress (`Channels`), no bit without its handle unless
   the core was reset (`Bits`).

All these strengthenings were checked by TLC on the instances of the runs before they were
proved (`ListInv` with the contents of the lists as its two sequences).

Every safety property, action property and refinement of the passing runs is a theorem. Only
model-checked, and out of the prover's reach: the liveness properties (`Delivered`,
`LockReleased`, `CallsReturn`, `BootCompletes`) with their fairness, which is ENABLED. No
module here has a RECURSIVE operator. The three disagreements of section 7 are counterexamples, which
only TLC gives.

## 7. What the checks found

| Run | What happens |
|---|---|
| `heap_two_allocators` | Both cores open a new name and get the same block; the first close clears the flag of the other's. |
| `heap_small_block` | `mod_malloc` uses the 1K pool, `mod_free` asserts that nobody does: BUG_ON with `s_mod_lock` held. |
| `channel_callback_data` | A message between registration and the setting of the private data makes the callback use a null pointer. |

Observed while modelling, without a run of their own because nothing in the repository
states the contrary outright: a close by the core that did not allocate loses the block
(`LeaksAreForeign` says it is the only way to lose one, `shm.c:721`); a get with `update`
set tests the caller's own update bit (`shm.c:1020`); a device whose channel fails leaves
its cdev (`mpi_shm.c:348`); a core that is reset while it holds `s_mod_lock` leaves the
other spinning for good unless core 0 starts again and clears the word (`mpi.c:122`); a
message before `shm_init` has come to its wait queue stops the core (`mpi_shm.c:440`); the
observations on handles, signals
and two clients under section 4.

## 8. What is not modelled

- Sends and gets of the default channel (`mpi_shm_interrupt_send`, `_get`): those of
  `ShmSegment` on two more handles; its callback prints. Their creation is in `Boot`.
- A user process that opens a device before `shm_init` has initialised `list_sem`
  (`mpi_shm.c:440`).
- `mpi_shm_get_mem` and `get_system_locks` change no state; `shm_fill_test` only exercises
  a lock; `SHM_UNLOCK_CORE0` releases a lock nothing here takes; the timer of
  `mpi_shm.c` prints what it reads; that it takes a semaphore in a timer
  (`mpi_shm.c:381`) and is deleted after the devices (`mpi_shm.c:455`) are hazards without a
  property.
- Registers, memory dumps, serial output and core disabling (`utils.c`): hardware
  access without protocol state.
- The flash synchronisation interrupt: compiled only with `CONFIG_FLASHMSG`, and the
  lock it takes is not in the repository.
- `shm.h`, the System V header of the Linux kernel; `Kconfig` and `Makefile`.

Abstractions: bytes are the core that wrote them; a channel's message is one flag for
each info, so several sends before a get are one message, as they are in the code;
`list_sem` is never held across a blocking call and has no variable; messages to the log
are left out; memory is taken to be
sequentially consistent (the code has explicit barriers at `shm.c:1350` and
`mpi_shm.c:291` only).

## 9. Plan

Done, in this order: the heap and its proofs, the lists, the segments and their
buffers, the channels, the devices, boot, the layout and its proofs, the proofs about
the segments, the channels, the devices and boot, the refinements of the segments and
the lists.

Next:

1. Theorems without a run: with `PoolLayout`, that blocks of different segments are different bytes
   of the region; what the heap's results say of `Boot` between two restarts.
2. A composition of two `ShmDevice` cores over an `MpiChannel`, in place of the free
   environment: what the environment's answers really may be. Outside calm
   behaviours the environment already allows every message a peer can send, so what is
   shown there would hold; in calm ones it would have to be a peer that only answers.
