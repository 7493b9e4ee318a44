----------------------------- MODULE ShmDevice -----------------------------
(***************************************************************************)
(* The character devices of mpi_shm.c on one core: dev_write, dev_read,    *)
(* dev_poll, dev_ioctl, the channel callback mpi_shm_callback_func and     *)
(* sync_shm_lock_func.                                                     *)
(*                                                                         *)
(* The peer and the channel are the environment: a request sent may be     *)
(* answered once, at any later time or never.  The callback runs as an     *)
(* interrupt handler: for the processes of its core it is one step.  So is *)
(* a section under list_sem, which never blocks and which the callback     *)
(* does not enter.                                                         *)
(*                                                                         *)
(* Two kinds of behaviour are told apart by calm, which never changes.     *)
(* In a calm one a single client writes, polls until there is data, reads  *)
(* and writes again, while answers come late or never.  In the others any  *)
(* process makes any call, copies fail, signals end waits, the ioctls are  *)
(* used and messages come that nobody asked for.                           *)
(***************************************************************************)
EXTENDS Integers, FiniteSets

CONSTANTS
    Process,
    Device,
    DeviceOf,     \* the device that a process has open
    Nobody,
    Client,       \* the process that runs in a calm behaviour
    CountBound,   \* bound: calls begin while |sync_shm_cnt| is below it
    MaxDue        \* bound: answers a device may have to come

ASSUME DeviceAssumption ==
    /\ IsFiniteSet(Process) /\ IsFiniteSet(Device)
    /\ DeviceOf \in [Process -> Device]
    /\ Nobody \notin Process
    /\ Client \in Process
    /\ {CountBound, MaxDue} \subseteq Nat \ {0}

VARIABLES
    node,       \* m_data_list of a device: "zero", "linked" or "poison"
    count,      \* sync_shm_cnt
    stamp,      \* time_stamp: "zero", "sent" (jiffies) or "answered" (~0)
    active,     \* m_state = SHM_STATE_ACTIVE
    available,  \* m_data_available > 0
    sem,        \* m_sem of a device: who holds it
    globalSem,  \* global_sem
    condition,  \* sync_shm_condition
    rung,       \* history: an answer or an unlock came since the last send
    due,        \* the answers still to come
    pc,         \* where a process is
    calm,       \* one client that keeps to write, poll, read; see above
    user,       \* what the client of a calm behaviour knows
    signalled,  \* history: the processes that a signal made leave a call
    broken      \* a list operation met a node it must not: the core oopses

listVars == <<node, count, stamp>>
dataVars == <<active, available>>
syncVars == <<condition, rung, due>>
semVars == <<sem, globalSem>>
clientVars == <<calm, user, signalled>>
vars == <<listVars, dataVars, syncVars, semVars, pc, clientVars, broken>>

Init ==
    /\ node = [d \in Device |-> "zero"]
    /\ count = 0
    /\ stamp = [d \in Device |-> "zero"]
    /\ active = [d \in Device |-> FALSE]
    /\ available = [d \in Device |-> FALSE]
    /\ sem = [d \in Device |-> Nobody]
    /\ globalSem = Nobody
    /\ condition = FALSE
    /\ rung = FALSE
    /\ due = [d \in Device |-> 0]
    /\ pc = [p \in Process |-> "idle"]
    /\ calm \in BOOLEAN
    /\ user = "free"
    /\ signalled = {}
    /\ broken = FALSE

At(p, op) == pc[p] = op /\ ~broken
Goto(p, op) == pc' = [pc EXCEPT ![p] = op]
Knows(what) ==
    /\ user' = IF calm THEN what ELSE user
    /\ UNCHANGED <<calm, signalled>>

\* In a calm behaviour only the client begins a call, and not any call.
Begins(p, known) ==
    /\ At(p, "idle")
    /\ calm => p = Client /\ user = known

\* list_add_tail needs a node that is in no list, list_del one that is in one:
\* it writes through both links, and poisons them.
ListAdd(d) ==
    /\ node' = [node EXCEPT ![d] = "linked"]
    /\ broken' = (node[d] = "linked")

ListDel(d) ==
    /\ node' = [node EXCEPT ![d] = "poison"]
    /\ broken' = (node[d] # "linked")

-----------------------------------------------------------------------------
(* dev_write.                                                                *)

CountUpTwice == count' = count + 2      \* slip
CountUp == count' = count + 1
CountDown == count' = count - 1

UpGlobalLost == UNCHANGED globalSem     \* slip: up(&global_sem) left out
UpGlobal == globalSem' = Nobody

WriteBegin(p) ==
    /\ Begins(p, "free")
    /\ count < CountBound
    /\ Goto(p, "link")
    /\ UNCHANGED <<listVars, dataVars, syncVars, semVars, clientVars, broken>>

WriteLink(p) ==
    /\ At(p, "link")
    /\ stamp' = [stamp EXCEPT ![DeviceOf[p]] = "sent"]
    /\ ListAdd(DeviceOf[p])
    /\ CountUp
    /\ Goto(p, "m_sem")
    /\ UNCHANGED <<dataVars, syncVars, semVars, clientVars>>

WriteCopy(p) ==
    /\ At(p, "m_sem")
    /\ sem[DeviceOf[p]] = Nobody
    /\ sem' = [sem EXCEPT ![DeviceOf[p]] = p]
    /\ Goto(p, "global_sem") \/ (~calm /\ Goto(p, "out"))
    /\ UNCHANGED <<listVars, dataVars, syncVars, globalSem, clientVars, broken>>

WriteGlobal(p) ==
    /\ At(p, "global_sem")
    /\ globalSem = Nobody
    /\ globalSem' = p
    /\ Goto(p, "send")
    /\ UNCHANGED <<listVars, dataVars, syncVars, sem, clientVars, broken>>

\* mpi_channel_send: from here on the peer may answer.
WriteSend(p) ==
    /\ At(p, "send")
    /\ due' = [due EXCEPT ![DeviceOf[p]] = IF @ < MaxDue THEN @ + 1 ELSE @]
    /\ rung' = FALSE
    /\ Goto(p, "arm")
    /\ UNCHANGED <<listVars, dataVars, semVars, condition, clientVars, broken>>

NoReset == UNCHANGED condition          \* slip: a condition left over counts
ResetCondition == condition' = FALSE

\* sync_shm_lock_func(1) forgets an answer that came before it.
WriteArm(p) ==
    /\ At(p, "arm")
    /\ ResetCondition
    /\ Goto(p, "wait")
    /\ UNCHANGED <<listVars, dataVars, rung, due, semVars, clientVars, broken>>

NeverGivesUp(p) == FALSE                \* slip: wait_event without a timeout
GivesUp(p) == Goto(p, "unlink")

\* The wait ends with the condition, or after 10 s or on a signal, even if the
\* condition comes true at that very moment.
WriteWait(p) ==
    /\ At(p, "wait")
    /\ (condition /\ Goto(p, "acked")) \/ GivesUp(p)
    /\ ResetCondition
    /\ UNCHANGED <<listVars, dataVars, rung, due, semVars, clientVars, broken>>

\* The failed write takes its device out of the list.
WriteUnlink(p) ==
    /\ At(p, "unlink")
    /\ ListDel(DeviceOf[p])
    /\ CountDown
    /\ UpGlobal
    /\ Goto(p, "out")
    /\ UNCHANGED <<stamp, dataVars, syncVars, sem, clientVars>>

WriteAcked(p) ==
    /\ At(p, "acked")
    /\ UpGlobal
    /\ Knows("written")
    /\ Goto(p, "out")
    /\ UNCHANGED <<listVars, dataVars, syncVars, sem, broken>>

\* up(&pdata->m_sem) and the return of a write or a read.
Out(p) ==
    /\ At(p, "out")
    /\ sem' = [sem EXCEPT ![DeviceOf[p]] = Nobody]
    /\ Goto(p, "idle")
    /\ UNCHANGED <<listVars, dataVars, syncVars, globalSem, clientVars, broken>>

-----------------------------------------------------------------------------
(* dev_read and dev_poll.                                                    *)

ReadBegin(p) ==
    /\ Begins(p, "readable")
    /\ count > -CountBound
    /\ Goto(p, "unlink_read")
    /\ UNCHANGED <<listVars, dataVars, syncVars, semVars, clientVars, broken>>

\* The counter goes down whether or not the device was in the list.
ReadUnlink(p) ==
    /\ At(p, "unlink_read")
    /\ IF stamp[DeviceOf[p]] = "answered"
       THEN ListDel(DeviceOf[p])
       ELSE UNCHANGED <<node, broken>>
    /\ CountDown
    /\ Goto(p, "m_sem_read")
    /\ UNCHANGED <<stamp, dataVars, syncVars, semVars, clientVars>>

\* The state is reset before the data is looked for: an answer in between is
\* read, and told of once more.
ReadReset(p) ==
    /\ At(p, "m_sem_read")
    /\ sem[DeviceOf[p]] = Nobody
    /\ sem' = [sem EXCEPT ![DeviceOf[p]] = p]
    /\ active' = [active EXCEPT ![DeviceOf[p]] = FALSE]
    /\ Goto(p, "test")
    /\ UNCHANGED <<listVars, available, syncVars, globalSem, clientVars, broken>>

ReadTest(p) ==
    /\ At(p, "test")
    /\ Goto(p, IF available[DeviceOf[p]] THEN "copy" ELSE "read_out")
    /\ UNCHANGED <<listVars, dataVars, syncVars, semVars, clientVars, broken>>

ReadCopy(p) ==
    /\ At(p, "copy")
    /\ Goto(p, "clear") \/ (~calm /\ Goto(p, "read_out"))
    /\ UNCHANGED <<listVars, dataVars, syncVars, semVars, clientVars, broken>>

ReadClear(p) ==
    /\ At(p, "clear")
    /\ available' = [available EXCEPT ![DeviceOf[p]] = FALSE]
    /\ Goto(p, "read_out")
    /\ UNCHANGED <<listVars, active, syncVars, semVars, clientVars, broken>>

\* Slip: the state goes back to SHM_STATE_WAIT when the read ends.
ReadOutResets(p) ==
    /\ At(p, "read_out")
    /\ active' = [active EXCEPT ![DeviceOf[p]] = FALSE]
    /\ Knows("free")
    /\ Goto(p, "out")
    /\ UNCHANGED <<listVars, available, syncVars, semVars, broken>>

ReadOut(p) ==
    /\ At(p, "read_out")
    /\ Knows("free")
    /\ Goto(p, "out")
    /\ UNCHANGED <<listVars, dataVars, syncVars, semVars, broken>>

\* dev_poll waits for m_sem and tells POLLIN.
Poll(p) ==
    /\ calm /\ Begins(p, "written")
    /\ sem[DeviceOf[p]] = Nobody
    /\ active[DeviceOf[p]]
    /\ Knows("readable")
    /\ UNCHANGED <<listVars, dataVars, syncVars, semVars, pc, broken>>

\* A signal makes down_interruptible fail and the call return as it stands:
\* what it took or linked before stays taken and linked.
Signal(p) ==
    /\ ~calm
    /\ ~broken
    /\ pc[p] \in {"link", "m_sem", "global_sem", "unlink",
                  "unlink_read", "m_sem_read"}
    /\ Goto(p, "idle")
    /\ signalled' = signalled \cup {p}
    /\ UNCHANGED <<listVars, dataVars, syncVars, semVars, calm, user, broken>>

-----------------------------------------------------------------------------
(* What comes from outside.                                                  *)

\* sync_shm_lock_func(0), as the callback runs it: in one go.
SyncUnlock == condition' = TRUE /\ rung' = TRUE

UnstampedAnswer(d) == UNCHANGED stamp   \* slip: the answer leaves no mark
StampAnswer(d) == stamp' = [stamp EXCEPT ![d] = "answered"]

Callback(d) ==
    /\ ~broken
    /\ due[d] > 0 \/ ~calm
    /\ due' = [due EXCEPT ![d] = IF @ > 0 THEN @ - 1 ELSE @]
    /\ available' = [available EXCEPT ![d] = TRUE]
    /\ StampAnswer(d)
    /\ active' = [active EXCEPT ![d] = TRUE]
    /\ SyncUnlock
    /\ UNCHANGED <<node, count, semVars, pc, clientVars, broken>>

\* The ioctls that wake the readers of a device or the waiting writer.  The
\* second runs sync_shm_lock_func(0) in a process, so that a writer may find the
\* condition reset before it is set.
SetMode(d) ==
    /\ ~calm
    /\ ~broken
    /\ active' = [active EXCEPT ![d] = TRUE]
    /\ UNCHANGED <<listVars, available, syncVars, semVars, pc, clientVars, broken>>

UnlockReset(p) ==
    /\ ~calm
    /\ At(p, "idle")
    /\ ResetCondition
    /\ Goto(p, "unlock")
    /\ UNCHANGED <<listVars, dataVars, rung, due, semVars, clientVars, broken>>

UnlockSet(p) ==
    /\ At(p, "unlock")
    /\ SyncUnlock
    /\ Goto(p, "idle")
    /\ UNCHANGED <<listVars, dataVars, due, semVars, clientVars, broken>>

\* A call that has begun.
Continue(p) ==
    \/ WriteLink(p) \/ WriteCopy(p) \/ WriteGlobal(p) \/ WriteSend(p)
    \/ WriteArm(p) \/ WriteWait(p) \/ WriteUnlink(p) \/ WriteAcked(p)
    \/ ReadUnlink(p) \/ ReadReset(p) \/ ReadTest(p) \/ ReadCopy(p)
    \/ ReadClear(p) \/ ReadOut(p) \/ Out(p) \/ UnlockSet(p)

Next ==
    \/ \E p \in Process :
           \/ WriteBegin(p) \/ ReadBegin(p) \/ Poll(p) \/ UnlockReset(p)
           \/ Continue(p) \/ Signal(p)
    \/ \E d \in Device : Callback(d) \/ SetMode(d)

Spec == Init /\ [][Next]_vars

\* A process that can go on does, and a semaphore wakes its waiters in turn.
FairSpec == Spec /\ \A p \in Process : SF_vars(Continue(p))

-----------------------------------------------------------------------------
Operations ==
    {"idle", "link", "m_sem", "global_sem", "send", "arm", "wait", "acked",
     "unlink", "out", "unlink_read", "m_sem_read", "test", "copy", "clear",
     "read_out", "unlock"}

TypeOK ==
    /\ node \in [Device -> {"zero", "linked", "poison"}]
    /\ LET bound == CountBound + Cardinality(Process)
       IN  count \in -bound .. bound
    /\ stamp \in [Device -> {"zero", "sent", "answered"}]
    /\ active \in [Device -> BOOLEAN]
    /\ available \in [Device -> BOOLEAN]
    /\ sem \in [Device -> Process \cup {Nobody}]
    /\ globalSem \in Process \cup {Nobody}
    /\ condition \in BOOLEAN
    /\ rung \in BOOLEAN
    /\ due \in [Device -> 0 .. MaxDue]
    /\ pc \in [Process -> Operations]
    /\ calm \in BOOLEAN
    /\ user \in {"free", "written", "readable"}
    /\ signalled \subseteq Process
    /\ broken \in BOOLEAN

\* A semaphore is held only by a call that is going on, or for good by one that
\* a signal ended: every other way out of dev_write and dev_read, a failed copy
\* and a timeout included, gives back what it took.
SemaphoresReturned ==
    /\ \A d \in Device : sem[d] \notin signalled \cup {Nobody} =>
           pc[sem[d]] \notin {"idle", "link", "m_sem", "unlink_read", "m_sem_read",
                             "unlock"}
    /\ globalSem \notin signalled \cup {Nobody} =>
           pc[globalSem] \in {"send", "arm", "wait", "acked", "unlink"}

\* A write succeeds only if an answer or an unlock came after its message was
\* sent, not on one left over from before.
FreshAck == \A p \in Process : pc[p] = "acked" => rung

\* With one client that keeps to its protocol, data that waits makes poll tell
\* POLLIN, whatever callback interrupts a read of older data, unless that read
\* is still going on.
PollSeesData ==
    calm => \A d \in Device : available[d] =>
                active[d] \/ \E p \in Process :
                                 DeviceOf[p] = d /\ pc[p] \in {"test", "copy", "clear"}

\* With such a client no list operation meets a node in the wrong state, though
\* a writer that gives up, the reader and the callback all decide from
\* time_stamp and the outcome of the wait whether the device is in the list.
ListSound == calm => ~broken

Linked == {d \in Device : node[d] = "linked"}

\* Whatever calls, failures and signals come, sync_shm_cnt stays within the
\* number of devices in the list until a list operation goes wrong: the timer
\* never warns of entries that are not there.
CountWithinEntries == ~broken => count <= Cardinality(Linked)

\* Every call returns, though the answer may be lost or come before the wait,
\* unless a signal has ended a call and a semaphore with it.
CallsReturn ==
    \A p \in Process :
        pc[p] # "idle" ~> (pc[p] = "idle" \/ broken \/ signalled # {})
=============================================================================
