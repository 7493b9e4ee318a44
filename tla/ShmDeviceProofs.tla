--------------------------- MODULE ShmDeviceProofs ---------------------------
(***************************************************************************)
(* Proofs about ShmDevice, for every number of processes and devices, of   *)
(* calls in the list and of answers to come.                               *)
(***************************************************************************)
EXTENDS ShmDevice, FiniteSetTheorems, TLAPS

-----------------------------------------------------------------------------
(* Types.                                                                    *)

\* TypeOK without the bounds of sync_shm_cnt.
Types ==
    /\ node \in [Device -> {"zero", "linked", "poison"}]
    /\ count \in Int
    /\ stamp \in [Device -> {"zero", "sent", "answered"}]
    /\ active \in [Device -> BOOLEAN]
    /\ available \in [Device -> BOOLEAN]
    /\ sem \in [Device -> Process \cup {Nobody}]
    /\ globalSem \in Process \cup {Nobody}
    /\ condition \in BOOLEAN
    /\ rung \in BOOLEAN
    /\ due \in [Device -> 0 .. MaxDue]
    /\ pc \in [Process -> Operations]
    /\ calm \in BOOLEAN
    /\ user \in {"free", "written", "readable"}
    /\ signalled \subseteq Process
    /\ broken \in BOOLEAN

\* The writes that will count up, and the calls that may still count down.
Linking == {p \in Process : pc[p] = "link"}
MayUnlink == {"m_sem", "global_sem", "send", "arm", "wait", "unlink", "unlink_read"}
Unlinking == {p \in Process : pc[p] \in MayUnlink}

\* The bounds hold because every call that has begun counts once.
CountInv ==
    LET bound == CountBound + Cardinality(Process)
    IN  /\ count + Cardinality(Linking) <= bound
        /\ -bound <= count - Cardinality(Unlinking)

TypeInv == Types /\ CountInv

(* The initial state has the right types. *)
LEMMA TypesInit == Init => Types
<1> SUFFICES ASSUME Init PROVE Types
  OBVIOUS
<1>1. 0 \in 0 .. MaxDue
  BY DeviceAssumption
<1>2. /\ due \in [Device -> 0 .. MaxDue]
      /\ pc \in [Process -> Operations]
      /\ globalSem \in Process \cup {Nobody}
      /\ sem \in [Device -> Process \cup {Nobody}]
  BY <1>1 DEF Init, Operations
<1>3. /\ node \in [Device -> {"zero", "linked", "poison"}]
      /\ stamp \in [Device -> {"zero", "sent", "answered"}]
      /\ count \in Int
      /\ user \in {"free", "written", "readable"}
      /\ signalled \subseteq Process
  BY DEF Init
<1>4. /\ active \in [Device -> BOOLEAN] /\ available \in [Device -> BOOLEAN]
      /\ condition \in BOOLEAN /\ rung \in BOOLEAN
      /\ calm \in BOOLEAN /\ broken \in BOOLEAN
  BY DEF Init
<1> QED  BY <1>2, <1>3, <1>4 DEF Types

(* Steps of dev_write keep the types. *)
LEMMA TypesWrite ==
    ASSUME Types, NEW p \in Process,
           \/ WriteBegin(p) \/ WriteLink(p) \/ WriteCopy(p) \/ WriteGlobal(p)
           \/ WriteSend(p) \/ WriteArm(p) \/ WriteWait(p) \/ WriteUnlink(p)
           \/ WriteAcked(p)
    PROVE  Types'
<1> USE DEF Types, Goto, Operations, vars, listVars, dataVars, syncVars, semVars,
            clientVars
<1>0. DeviceOf[p] \in Device /\ MaxDue \in Nat
  BY DeviceAssumption
<1>1. CASE WriteBegin(p)
  BY <1>1 DEF WriteBegin
<1>2. CASE WriteLink(p)
  BY <1>0, <1>2 DEF WriteLink, ListAdd, CountUp
<1>3. CASE WriteCopy(p)
  BY <1>0, <1>3 DEF WriteCopy
<1>4. CASE WriteGlobal(p)
  BY <1>4 DEF WriteGlobal
<1>5. CASE WriteSend(p)
  <2>1. due' \in [Device -> 0 .. MaxDue]
    BY <1>0, <1>5 DEF WriteSend
  <2> QED  BY <1>5, <2>1 DEF WriteSend
<1>6. CASE WriteArm(p)
  BY <1>6 DEF WriteArm, ResetCondition
<1>7. CASE WriteWait(p)
  BY <1>7 DEF WriteWait, ResetCondition, GivesUp
<1>8. CASE WriteUnlink(p)
  BY <1>0, <1>8 DEF WriteUnlink, ListDel, CountDown, UpGlobal
<1>9. CASE WriteAcked(p)
  BY <1>9 DEF WriteAcked, Knows, UpGlobal
<1> QED  BY <1>1, <1>2, <1>3, <1>4, <1>5, <1>6, <1>7, <1>8, <1>9

(* So do those of dev_read and dev_poll, a return and a signal. *)
LEMMA TypesRead ==
    ASSUME Types, NEW p \in Process,
           \/ ReadBegin(p) \/ ReadUnlink(p) \/ ReadReset(p) \/ ReadTest(p)
           \/ ReadCopy(p) \/ ReadClear(p) \/ ReadOut(p) \/ Poll(p) \/ Out(p)
           \/ Signal(p)
    PROVE  Types'
<1> USE DEF Types, Goto, Operations, vars, listVars, dataVars, syncVars, semVars,
            clientVars
<1>0. DeviceOf[p] \in Device
  BY DeviceAssumption
<1>1. CASE ReadBegin(p)
  BY <1>1 DEF ReadBegin
<1>2. CASE ReadUnlink(p)
  <2>1. node' \in [Device -> {"zero", "linked", "poison"}] /\ broken' \in BOOLEAN
    BY <1>0, <1>2 DEF ReadUnlink, ListDel
  <2> QED  BY <1>2, <2>1 DEF ReadUnlink, CountDown
<1>3. CASE ReadReset(p)
  BY <1>0, <1>3 DEF ReadReset
<1>10. CASE ReadTest(p)
  <2>1. pc' \in [Process -> Operations]
    BY <1>10 DEF ReadTest
  <2> QED  BY <1>10, <2>1 DEF ReadTest
<1>4. CASE ReadCopy(p)
  BY <1>4 DEF ReadCopy
<1>5. CASE ReadClear(p)
  BY <1>0, <1>5 DEF ReadClear
<1>6. CASE ReadOut(p)
  BY <1>6 DEF ReadOut, Knows
<1>7. CASE Poll(p)
  BY <1>7 DEF Poll, Knows
<1>8. CASE Out(p)
  BY <1>0, <1>8 DEF Out
<1>9. CASE Signal(p)
  BY <1>9 DEF Signal
<1> QED  BY <1>1, <1>2, <1>3, <1>4, <1>5, <1>6, <1>7, <1>8, <1>9, <1>10

(* And what comes from outside. *)
LEMMA TypesOutside ==
    ASSUME Types,
           \/ \E p \in Process : UnlockReset(p) \/ UnlockSet(p)
           \/ \E d \in Device : Callback(d) \/ SetMode(d)
    PROVE  Types'
<1> USE DEF Types, vars, listVars, dataVars, syncVars, semVars, clientVars
<1>1. ASSUME NEW p \in Process, UnlockReset(p) \/ UnlockSet(p)
      PROVE  Types'
  BY <1>1 DEF UnlockReset, UnlockSet, ResetCondition, SyncUnlock, Goto, Operations
<1>2. ASSUME NEW d \in Device, SetMode(d)
      PROVE  Types'
  BY <1>2 DEF SetMode
<1>3. ASSUME NEW d \in Device, Callback(d)
      PROVE  Types'
  <2>1. due[d] \in 0 .. MaxDue /\ MaxDue \in Nat
    BY DeviceAssumption
  <2>2. (IF due[d] > 0 THEN due[d] - 1 ELSE due[d]) \in 0 .. MaxDue
    BY <2>1
  <2>3. due' \in [Device -> 0 .. MaxDue]
    BY <1>3, <2>2 DEF Callback
  <2>4. /\ available' \in [Device -> BOOLEAN] /\ active' \in [Device -> BOOLEAN]
        /\ stamp' \in [Device -> {"zero", "sent", "answered"}]
    BY <1>3 DEF Callback, StampAnswer
  <2>5. /\ condition' \in BOOLEAN /\ rung' \in BOOLEAN
        /\ UNCHANGED <<node, count, sem, globalSem, pc, calm, user, signalled, broken>>
    BY <1>3 DEF Callback, SyncUnlock
  <2> QED  BY <2>3, <2>4, <2>5
<1> QED  BY <1>1, <1>2, <1>3
-----------------------------------------------------------------------------
(* The bounds of sync_shm_cnt.                                               *)

(* A subset of the processes that one process enters or leaves. *)
LEMMA OneMoves ==
    ASSUME NEW S \in SUBSET Process, NEW p \in Process, NEW T,
           T = S \cup {p} \/ T = S \ {p}
    PROVE  /\ Cardinality(S) \in Nat /\ Cardinality(S) <= Cardinality(Process)
           /\ Cardinality(T) \in Nat /\ Cardinality(T) <= Cardinality(Process)
           /\ Cardinality(T) = Cardinality(S) + (IF p \in T THEN 1 ELSE 0)
                                              - (IF p \in S THEN 1 ELSE 0)
<1>1. IsFiniteSet(Process) /\ T \in SUBSET Process
  BY DeviceAssumption
<1>2. /\ IsFiniteSet(S) /\ Cardinality(S) <= Cardinality(Process)
      /\ IsFiniteSet(T) /\ Cardinality(T) <= Cardinality(Process)
  BY <1>1, FS_Subset
<1>3. Cardinality(S) \in Nat /\ Cardinality(T) \in Nat
  BY <1>2, FS_CardinalityType
<1>4. CASE T = S \cup {p}
  BY <1>2, <1>3, <1>4, FS_AddElement
<1>5. CASE T = S \ {p}
  BY <1>2, <1>3, <1>5, FS_RemoveElement
<1> QED  BY <1>2, <1>3, <1>4, <1>5

(* A process goes on to x: what this does to the two counts. *)
LEMMA CountMoves ==
    ASSUME Types, NEW p \in Process, NEW x, Goto(p, x)
    PROVE  /\ Cardinality(Linking) \in Nat /\ Cardinality(Unlinking) \in Nat
           /\ Cardinality(Linking') \in Nat /\ Cardinality(Unlinking') \in Nat
           /\ Cardinality(Linking') <= Cardinality(Process)
           /\ Cardinality(Unlinking') <= Cardinality(Process)
           /\ Cardinality(Linking') = Cardinality(Linking)
                  + (IF x = "link" THEN 1 ELSE 0) - (IF pc[p] = "link" THEN 1 ELSE 0)
           /\ Cardinality(Unlinking') = Cardinality(Unlinking)
                  + (IF x \in MayUnlink THEN 1 ELSE 0)
                  - (IF pc[p] \in MayUnlink THEN 1 ELSE 0)
<1>1. pc'[p] = x /\ \A q \in Process : q # p => pc'[q] = pc[q]
  BY DEF Types, Goto
<1>2. /\ Linking \in SUBSET Process /\ Unlinking \in SUBSET Process
      /\ p \in Linking <=> pc[p] = "link"
      /\ p \in Unlinking <=> pc[p] \in MayUnlink
      /\ p \in Linking' <=> x = "link"
      /\ p \in Unlinking' <=> x \in MayUnlink
  BY <1>1 DEF Linking, Unlinking
<1>3. Linking' = Linking \cup {p} \/ Linking' = Linking \ {p}
  BY <1>1 DEF Linking
<1>4. Unlinking' = Unlinking \cup {p} \/ Unlinking' = Unlinking \ {p}
  BY <1>1 DEF Unlinking
<1> HIDE DEF Linking, Unlinking, MayUnlink
<1>5. /\ Cardinality(Linking) \in Nat /\ Cardinality(Linking') \in Nat
      /\ Cardinality(Linking') <= Cardinality(Process)
      /\ Cardinality(Linking') = Cardinality(Linking)
             + (IF p \in Linking' THEN 1 ELSE 0) - (IF p \in Linking THEN 1 ELSE 0)
  BY <1>2, <1>3, OneMoves
<1>6. /\ Cardinality(Unlinking) \in Nat /\ Cardinality(Unlinking') \in Nat
      /\ Cardinality(Unlinking') <= Cardinality(Process)
      /\ Cardinality(Unlinking') = Cardinality(Unlinking)
             + (IF p \in Unlinking' THEN 1 ELSE 0) - (IF p \in Unlinking THEN 1 ELSE 0)
  BY <1>2, <1>4, OneMoves
<1> QED  BY <1>2, <1>5, <1>6

(* Nobody counts at the start. *)
LEMMA CountInit == Init => CountInv
<1> SUFFICES ASSUME Init PROVE CountInv
  OBVIOUS
<1>1. Linking = {} /\ Unlinking = {}
  BY DEF Init, Linking, Unlinking, MayUnlink
<1>2. Cardinality(Process) \in Nat /\ CountBound \in Nat
  BY DeviceAssumption, FS_CardinalityType
<1>3. Cardinality(Linking) = 0 /\ Cardinality(Unlinking) = 0
  BY <1>1, FS_EmptySet
<1> QED  BY <1>2, <1>3 DEF Init, CountInv

(* A step that changes neither sync_shm_cnt nor a program counter. *)
LEMMA CountStays ==
    ASSUME CountInv, UNCHANGED <<count, pc>>
    PROVE  CountInv'
BY DEF CountInv, Linking, Unlinking

(* A step that moves one process and counts up, down or not at all. *)
LEMMA CountStep ==
    ASSUME Types, CountInv, NEW p \in Process, NEW x, Goto(p, x),
           \/ pc[p] = "idle" /\ x = "link" /\ count < CountBound /\ count' = count
           \/ pc[p] = "idle" /\ x = "unlink_read" /\ count > -CountBound /\ count' = count
           \/ pc[p] = "link" /\ x = "m_sem" /\ count' = count + 1
           \/ pc[p] \in {"unlink", "unlink_read"} /\ x \notin MayUnlink \cup {"link"}
              /\ count' = count - 1
           \/ x # "link" /\ (x \in MayUnlink => pc[p] \in MayUnlink) /\ count' = count
    PROVE  CountInv'
<1> DEFINE L == Cardinality(Linking)
           U == Cardinality(Unlinking)
           N == Cardinality(Process)
<1>1. /\ L \in Nat /\ U \in Nat /\ L' \in Nat /\ U' \in Nat /\ L' <= N /\ U' <= N
      /\ L' = L + (IF x = "link" THEN 1 ELSE 0) - (IF pc[p] = "link" THEN 1 ELSE 0)
      /\ U' = U + (IF x \in MayUnlink THEN 1 ELSE 0)
                - (IF pc[p] \in MayUnlink THEN 1 ELSE 0)
  BY CountMoves
<1>2. N \in Nat /\ CountBound \in Nat /\ count \in Int
  BY DeviceAssumption, FS_CardinalityType DEF Types
<1>3. count + L <= CountBound + N /\ -(CountBound + N) <= count - U
  BY DEF CountInv
<1>4. count' + L' <= CountBound + N /\ -(CountBound + N) <= count' - U'
  <2> HIDE DEF L, U, N
  <2>1. "link" \notin MayUnlink /\ "idle" \notin MayUnlink /\ "m_sem" \in MayUnlink
        /\ "unlink" \in MayUnlink /\ "unlink_read" \in MayUnlink
    BY DEF MayUnlink
  <2> HIDE DEF MayUnlink
  <2> QED  BY <1>1, <1>2, <1>3, <2>1
<1> QED  BY <1>4 DEF CountInv

(* Every step keeps the bounds. *)
LEMMA CountNext ==
    ASSUME Types, CountInv, [Next]_vars
    PROVE  CountInv'
<1> USE DEF At, vars, listVars, dataVars, syncVars, semVars, clientVars
<1>1. ASSUME NEW p \in Process,
             \/ WriteBegin(p) \/ WriteLink(p) \/ WriteCopy(p) \/ WriteGlobal(p)
             \/ WriteSend(p) \/ WriteArm(p) \/ WriteWait(p) \/ WriteUnlink(p)
             \/ WriteAcked(p) \/ Out(p) \/ Signal(p)
      PROVE  CountInv'
  <2> USE <1>1, CountStep DEF MayUnlink
  <2>1. CASE WriteBegin(p)
    BY <2>1 DEF WriteBegin, Begins
  <2>2. CASE WriteLink(p)
    BY <2>2 DEF WriteLink, CountUp
  <2>3. CASE WriteCopy(p)
    BY <2>3 DEF WriteCopy
  <2>4. CASE WriteGlobal(p)
    BY <2>4 DEF WriteGlobal
  <2>5. CASE WriteSend(p)
    BY <2>5 DEF WriteSend
  <2>6. CASE WriteArm(p)
    BY <2>6 DEF WriteArm
  <2>7. CASE WriteWait(p)
    BY <2>7 DEF WriteWait, GivesUp
  <2>8. CASE WriteUnlink(p)
    BY <2>8 DEF WriteUnlink, CountDown
  <2>9. CASE WriteAcked(p)
    BY <2>9 DEF WriteAcked
  <2>10. CASE Out(p)
    BY <2>10 DEF Out
  <2>11. CASE Signal(p)
    BY <2>11 DEF Signal
  <2> QED  BY <2>1, <2>2, <2>3, <2>4, <2>5, <2>6, <2>7, <2>8, <2>9, <2>10, <2>11
<1>2. ASSUME NEW p \in Process,
             \/ ReadBegin(p) \/ ReadUnlink(p) \/ ReadReset(p) \/ ReadTest(p)
             \/ ReadCopy(p) \/ ReadClear(p) \/ ReadOut(p)
             \/ UnlockReset(p) \/ UnlockSet(p)
      PROVE  CountInv'
  <2> USE <1>2, CountStep DEF MayUnlink
  <2>1. CASE ReadBegin(p)
    BY <2>1 DEF ReadBegin, Begins
  <2>2. CASE ReadUnlink(p)
    BY <2>2 DEF ReadUnlink, CountDown
  <2>3. CASE ReadTest(p)
    BY <2>3 DEF ReadTest
  <2>4. CASE ReadCopy(p)
    BY <2>4 DEF ReadCopy
  <2>5. CASE ReadClear(p)
    BY <2>5 DEF ReadClear
  <2>6. CASE ReadOut(p)
    BY <2>6 DEF ReadOut
  <2>7. CASE ReadReset(p)
    BY <2>7 DEF ReadReset
  <2>8. CASE UnlockReset(p)
    BY <2>8 DEF UnlockReset
  <2>9. CASE UnlockSet(p)
    BY <2>9 DEF UnlockSet
  <2> QED  BY <2>1, <2>2, <2>3, <2>4, <2>5, <2>6, <2>7, <2>8, <2>9
<1>3. ASSUME \/ UNCHANGED vars
             \/ \E p \in Process : Poll(p)
             \/ \E d \in Device : Callback(d) \/ SetMode(d)
      PROVE  CountInv'
  BY <1>3, CountStays DEF Poll, Callback, SetMode
<1> QED  BY <1>1, <1>2, <1>3 DEF Next, Continue

(* Every step keeps the types. *)
LEMMA TypesNext ==
    ASSUME Types, [Next]_vars
    PROVE  Types'
<1>1. CASE UNCHANGED vars
  BY <1>1 DEF vars, listVars, dataVars, syncVars, semVars, clientVars, Types
<1> QED  BY <1>1, TypesWrite, TypesRead, TypesOutside DEF Next, Continue

(* The bounds follow. *)
LEMMA TypeInvTypeOK == TypeInv => TypeOK
<1> SUFFICES ASSUME TypeInv PROVE TypeOK
  OBVIOUS
<1> DEFINE bound == CountBound + Cardinality(Process)
<1>1. bound \in Nat
  BY DeviceAssumption, FS_CardinalityType
<1>2. Cardinality(Linking) \in Nat /\ Cardinality(Unlinking) \in Nat
  <2>1. Linking \in SUBSET Process /\ Unlinking \in SUBSET Process
    BY DEF Linking, Unlinking
  <2> QED  BY <2>1, DeviceAssumption, FS_Subset, FS_CardinalityType
<1>3. count \in -bound .. bound
  <2>1. count + Cardinality(Linking) <= bound /\ -bound <= count - Cardinality(Unlinking)
        /\ count \in Int
    BY DEF TypeInv, CountInv, Types
  <2> HIDE DEF bound
  <2> QED  BY <1>1, <1>2, <2>1
<1> QED  BY <1>3 DEF TypeInv, Types, TypeOK

(* All variables keep their types, and sync_shm_cnt, which counts down whether *)
(* or not a device was in the list, strays no further than the number of       *)
(* processes beyond the bound at which calls begin.                            *)
THEOREM DeviceTypes == Spec => []TypeOK
<1>1. Init => TypeInv
  BY TypesInit, CountInit DEF TypeInv
<1>2. TypeInv /\ [Next]_vars => TypeInv'
  BY TypesNext, CountNext DEF TypeInv
<1>3. Spec => []TypeInv
  BY <1>1, <1>2, PTL DEF Spec
<1> QED  BY <1>3, TypeInvTypeOK, PTL

-----------------------------------------------------------------------------
(* The semaphores.                                                           *)

\* A device's semaphore is taken by processes that have the device open.
SemOwner == \A d \in Device : sem[d] # Nobody => DeviceOf[sem[d]] = d

\* Between down and up of global_sem a process is the one that holds it.
InGlobal(p) == pc[p] \in {"send", "arm", "wait", "acked", "unlink"}
GlobalOwner == \A p \in Process : InGlobal(p) => globalSem = p

\* Outside of these places a process may hold the semaphore of its device.
NoSem == {"idle", "link", "m_sem", "unlink_read", "m_sem_read", "unlock"}

\* A condition that a writer will see was set after it sent.
ConditionFresh == \A p \in Process : pc[p] = "wait" /\ condition => rung

SemInv == SemOwner /\ SemaphoresReturned /\ GlobalOwner /\ ConditionFresh /\ FreshAck

(* All semaphores are free at the start. *)
LEMMA SemInit == Init => SemInv
BY DEF Init, SemInv, SemOwner, SemaphoresReturned, GlobalOwner, InGlobal, ConditionFresh,
       FreshAck

(* A process that neither takes nor returns a semaphore goes on to a place     *)
(* where it may hold what it holds.                                            *)
LEMMA SemMoves ==
    ASSUME Types, SemInv, NEW p \in Process, NEW x, Goto(p, x),
           UNCHANGED <<sem, globalSem>>, signalled \subseteq signalled',
           \/ p \in signalled'
           \/ /\ x \in NoSem => pc[p] \in NoSem
              /\ InGlobal(p) => x \in {"send", "arm", "wait", "acked", "unlink"},
           x \in {"send", "arm", "wait", "acked", "unlink"} => InGlobal(p)
    PROVE  (SemOwner /\ SemaphoresReturned /\ GlobalOwner)'
<1>1. pc'[p] = x /\ \A q \in Process : q # p => pc'[q] = pc[q]
  BY DEF Types, Goto
<1>2. SemOwner'
  BY DEF SemInv, SemOwner
<1>3. GlobalOwner'
  BY <1>1 DEF SemInv, GlobalOwner, InGlobal
<1>4. SemaphoresReturned'
  <2>1. ASSUME NEW d \in Device, sem[d] \notin signalled' \cup {Nobody}
        PROVE  pc'[sem[d]] \notin NoSem
    <3>1. sem[d] \in Process /\ sem[d] \notin signalled \cup {Nobody}
      BY <2>1 DEF Types
    <3>2. pc[sem[d]] \notin NoSem
      BY <3>1 DEF SemInv, SemaphoresReturned, NoSem
    <3> QED  BY <1>1, <2>1, <3>1, <3>2 DEF NoSem
  <2>2. ASSUME globalSem \notin signalled' \cup {Nobody}
        PROVE  pc'[globalSem] \in {"send", "arm", "wait", "acked", "unlink"}
    <3>1. globalSem \in Process /\ globalSem \notin signalled \cup {Nobody}
      BY <2>2 DEF Types
    <3>2. pc[globalSem] \in {"send", "arm", "wait", "acked", "unlink"}
      BY <3>1 DEF SemInv, SemaphoresReturned
    <3> QED  BY <1>1, <2>2, <3>1, <3>2 DEF InGlobal
  <2> QED  BY <2>1, <2>2 DEF SemaphoresReturned, NoSem
<1> QED  BY <1>2, <1>3, <1>4

(* The steps that take or return m_sem of the device: down, and up at the end. *)
LEMMA SemDevice ==
    ASSUME Types, SemInv, NEW p \in Process,
           WriteCopy(p) \/ ReadReset(p) \/ Out(p)
    PROVE  (SemOwner /\ SemaphoresReturned /\ GlobalOwner)'
<1> DEFINE D == DeviceOf[p]
<1>0. D \in Device
  BY DeviceAssumption
<1>1. PICK x : Goto(p, x) /\ UNCHANGED <<globalSem, signalled>>
               /\ x \notin {"send", "arm", "wait", "acked", "unlink"} /\ ~InGlobal(p)
               /\ \/ sem' = [sem EXCEPT ![D] = p] /\ x \notin NoSem
                  \/ sem' = [sem EXCEPT ![D] = Nobody]
  BY DEF WriteCopy, ReadReset, Out, At, InGlobal, NoSem, clientVars
<1>2. pc'[p] = x /\ \A q \in Process : q # p => pc'[q] = pc[q]
  BY <1>1 DEF Types, Goto
<1>3. GlobalOwner'
  BY <1>1, <1>2 DEF SemInv, GlobalOwner, InGlobal
<1>4. SemOwner'
  BY <1>0, <1>1 DEF Types, SemInv, SemOwner
<1>5. SemaphoresReturned'
  <2>1. ASSUME NEW d \in Device, sem'[d] \notin signalled' \cup {Nobody}
        PROVE  pc'[sem'[d]] \notin NoSem
    <3>1. CASE d = D
      BY <1>0, <1>1, <1>2, <2>1, <3>1 DEF Types
    <3>2. CASE d # D
      <4>1. sem'[d] = sem[d] /\ sem[d] \in Process /\ sem[d] \notin signalled \cup {Nobody}
        BY <1>1, <2>1, <3>2 DEF Types
      <4>2. DeviceOf[sem[d]] = d
        BY <4>1 DEF SemInv, SemOwner
      <4>3. sem[d] # p
        BY <3>2, <4>2
      <4> QED  BY <1>2, <4>1, <4>3 DEF SemInv, SemaphoresReturned, NoSem
    <3> QED  BY <3>1, <3>2
  <2>2. ASSUME globalSem' \notin signalled' \cup {Nobody}
        PROVE  pc'[globalSem'] \in {"send", "arm", "wait", "acked", "unlink"}
    <3>1. /\ globalSem' = globalSem /\ globalSem \in Process
          /\ pc[globalSem] \in {"send", "arm", "wait", "acked", "unlink"}
      BY <1>1, <2>2 DEF Types, SemInv, SemaphoresReturned
    <3> QED  BY <1>1, <1>2, <3>1 DEF InGlobal
  <2> QED  BY <2>1, <2>2 DEF SemaphoresReturned, NoSem
<1> QED  BY <1>3, <1>4, <1>5

(* The steps that take or return global_sem. *)
LEMMA SemGlobal ==
    ASSUME Types, SemInv, NEW p \in Process,
           WriteGlobal(p) \/ WriteUnlink(p) \/ WriteAcked(p)
    PROVE  (SemOwner /\ SemaphoresReturned /\ GlobalOwner)'
<1>1. PICK x : /\ Goto(p, x) /\ UNCHANGED <<sem, signalled>>
               /\ pc[p] \in {"global_sem", "unlink", "acked"} /\ x \in {"send", "out"}
               /\ \/ x = "send" /\ globalSem = Nobody /\ globalSem' = p
                  \/ x = "out" /\ InGlobal(p) /\ globalSem' = Nobody
  BY DEF WriteGlobal, WriteUnlink, WriteAcked, At, Knows, InGlobal, UpGlobal, semVars,
         clientVars
<1>2. pc'[p] = x /\ \A q \in Process : q # p => pc'[q] = pc[q]
  BY <1>1 DEF Types, Goto
<1>3. SemOwner'
  BY <1>1 DEF SemInv, SemOwner
<1>4. GlobalOwner'
  <2>1. \A q \in Process : q # p => ~InGlobal(q)
    BY <1>1, DeviceAssumption DEF SemInv, GlobalOwner
  <2> QED  BY <1>1, <1>2, <2>1 DEF GlobalOwner, InGlobal
<1>5. SemaphoresReturned'
  <2>1. ASSUME NEW d \in Device, sem[d] \notin signalled \cup {Nobody}
        PROVE  pc'[sem[d]] \notin NoSem
    BY <1>1, <1>2, <2>1 DEF Types, SemInv, SemaphoresReturned, NoSem
  <2>2. globalSem' # Nobody => pc'[globalSem'] = "send"
    BY <1>1, <1>2
  <2> QED  BY <1>1, <2>1, <2>2 DEF SemaphoresReturned, NoSem
<1> QED  BY <1>3, <1>4, <1>5

(* A process goes on without taking or returning a semaphore.                  *)
LEMMA SemOthers ==
    ASSUME Types, SemInv, NEW p \in Process,
           \/ WriteBegin(p) \/ WriteLink(p) \/ WriteSend(p) \/ WriteArm(p) \/ WriteWait(p)
           \/ ReadBegin(p) \/ ReadUnlink(p) \/ ReadTest(p) \/ ReadCopy(p) \/ ReadClear(p)
           \/ ReadOut(p) \/ UnlockReset(p) \/ UnlockSet(p) \/ Signal(p)
    PROVE  (SemOwner /\ SemaphoresReturned /\ GlobalOwner)'
<1> USE SemMoves DEF At, InGlobal, NoSem, semVars, clientVars
<1>1. CASE WriteBegin(p) \/ WriteLink(p) \/ ReadBegin(p) \/ ReadUnlink(p)
  BY <1>1 DEF WriteBegin, WriteLink, ReadBegin, ReadUnlink, Begins
<1>2. CASE WriteSend(p) \/ WriteArm(p) \/ WriteWait(p)
  BY <1>2 DEF WriteSend, WriteArm, WriteWait, GivesUp
<1>3. CASE ReadTest(p) \/ ReadCopy(p) \/ ReadClear(p) \/ ReadOut(p)
  BY <1>3 DEF ReadTest, ReadCopy, ReadClear, ReadOut, Knows
<1>4. CASE Signal(p)
  BY <1>4 DEF Signal
<1>5. CASE UnlockReset(p) \/ UnlockSet(p)
  BY <1>5 DEF UnlockReset, UnlockSet
<1> QED  BY <1>1, <1>2, <1>3, <1>4, <1>5

(* The answer a writer waits for: while it is between send and up, no other    *)
(* writer sends, so what sets the condition came after its own message.        *)
LEMMA SyncNext ==
    ASSUME Types, SemInv, [Next]_vars
    PROVE  ConditionFresh' /\ FreshAck'
<1> USE DEF SemInv, ConditionFresh, FreshAck
<1>1. ASSUME NEW p \in Process, WriteSend(p)
      PROVE  ConditionFresh' /\ FreshAck'
  <2>1. pc[p] = "send" /\ pc' = [pc EXCEPT ![p] = "arm"]
    BY <1>1 DEF WriteSend, At, Goto
  <2>2. \A q \in Process : q # p => pc[q] \notin {"wait", "acked"}
    BY <2>1 DEF GlobalOwner, InGlobal
  <2> QED  BY <2>1, <2>2 DEF Types
<1>2. ASSUME NEW p \in Process, WriteArm(p) \/ WriteWait(p) \/ UnlockReset(p)
      PROVE  ConditionFresh' /\ FreshAck'
  BY <1>2 DEF Types, WriteArm, WriteWait, UnlockReset, GivesUp, ResetCondition,
                   At, Goto
<1>3. ASSUME (\E p \in Process : UnlockSet(p)) \/ \E d \in Device : Callback(d)
      PROVE  ConditionFresh' /\ FreshAck'
  BY <1>3 DEF UnlockSet, Callback, SyncUnlock
<1>4. ASSUME NEW p \in Process, NEW x, Goto(p, x), x \notin {"wait", "acked"},
             UNCHANGED <<condition, rung>>
      PROVE  ConditionFresh' /\ FreshAck'
  BY <1>4 DEF Types, Goto
<1>5. ASSUME UNCHANGED <<condition, rung, pc>>
      PROVE  ConditionFresh' /\ FreshAck'
  BY <1>5
<1> HIDE DEF SemInv, ConditionFresh, FreshAck
<1> USE DEF syncVars
<1>6. ASSUME NEW p \in Process,
             \/ WriteBegin(p) \/ WriteLink(p) \/ WriteCopy(p) \/ WriteGlobal(p)
             \/ WriteUnlink(p) \/ WriteAcked(p) \/ Signal(p) \/ Out(p)
      PROVE  ConditionFresh' /\ FreshAck'
  BY <1>4, <1>6 DEF WriteBegin, WriteLink, WriteCopy, WriteGlobal, WriteUnlink, WriteAcked,
                    Signal, Out
<1>7. ASSUME NEW p \in Process,
             \/ ReadBegin(p) \/ ReadUnlink(p) \/ ReadReset(p) \/ ReadTest(p)
             \/ ReadCopy(p) \/ ReadClear(p) \/ ReadOut(p)
      PROVE  ConditionFresh' /\ FreshAck'
  BY <1>4, <1>7 DEF ReadBegin, ReadUnlink, ReadReset, ReadTest, ReadCopy, ReadClear, ReadOut
<1>8. ASSUME \/ UNCHANGED vars
             \/ \E p \in Process : Poll(p)
             \/ \E d \in Device : SetMode(d)
      PROVE  ConditionFresh' /\ FreshAck'
  BY <1>5, <1>8 DEF vars, Poll, SetMode
<1> QED  BY <1>1, <1>2, <1>3, <1>6, <1>7, <1>8 DEF Next, Continue

(* Every step keeps the invariant of the semaphores. *)
LEMMA SemNext ==
    ASSUME Types, SemInv, [Next]_vars
    PROVE  SemInv'
<1>1. ASSUME \/ UNCHANGED vars
             \/ \E p \in Process : Poll(p)
             \/ \E d \in Device : Callback(d) \/ SetMode(d)
      PROVE  (SemOwner /\ SemaphoresReturned /\ GlobalOwner)'
  <2>1. UNCHANGED <<sem, globalSem, pc, signalled>>
    BY <1>1 DEF vars, semVars, clientVars, Poll, Knows, Callback, SetMode
  <2> QED  BY <2>1 DEF SemInv, SemOwner, SemaphoresReturned, GlobalOwner, InGlobal
<1>2. (SemOwner /\ SemaphoresReturned /\ GlobalOwner)'
  BY <1>1, SemDevice, SemGlobal, SemOthers DEF Next, Continue
<1> QED  BY <1>2, SyncNext DEF SemInv

(* The inductive invariant of the semaphores and of the answers. *)
THEOREM SemInductive == Spec => [](Types /\ SemInv)
<1>1. Init => Types /\ SemInv
  BY TypesInit, SemInit
<1>2. Types /\ SemInv /\ [Next]_vars => (Types /\ SemInv)'
  BY TypesNext, SemNext
<1> QED  BY <1>1, <1>2, PTL DEF Spec

(* No way out of dev_write or dev_read but a signal keeps a semaphore.         *)
THEOREM SemsReturned == Spec => []SemaphoresReturned
<1>1. SemInv => SemaphoresReturned
  BY DEF SemInv
<1> QED  BY <1>1, SemInductive, PTL

(* A write that reports success has seen an answer, or an unlock by ioctl,     *)
(* that came after its own message, though the condition is one for all        *)
(* devices and answers come at any time.                                       *)
THEOREM AcksAreFresh == Spec => []FreshAck
<1>1. SemInv => FreshAck
  BY DEF SemInv
<1> QED  BY <1>1, SemInductive, PTL

-----------------------------------------------------------------------------
(* Calm behaviours.                                                          *)

\* Where the client is when its device is in the list.
Entered ==
    \/ pc[Client] \in {"m_sem", "global_sem", "send", "arm", "wait", "acked", "unlink",
                       "unlink_read"}
    \/ pc[Client] \in {"idle", "out"} /\ user \in {"written", "readable"}

\* What the client knows at each place.
Protocol ==
    /\ pc[Client] \in {"link", "m_sem", "global_sem", "send", "arm", "wait", "acked",
                       "unlink"} => user = "free"
    /\ pc[Client] = "out" => user \in {"free", "written"}
    /\ pc[Client] \in {"unlink_read", "m_sem_read", "test", "copy", "clear", "read_out"} =>
           user = "readable"
    /\ pc[Client] # "unlock"

\* The device bears the mark of the answer before anything relies on it.
Marked ==
    /\ user \in {"written", "readable"} => stamp[DeviceOf[Client]] = "answered"
    /\ pc[Client] \in {"arm", "wait", "acked"} /\ rung =>
           stamp[DeviceOf[Client]] = "answered"

CalmInv ==
    calm =>
        /\ \A p \in Process \ {Client} : pc[p] = "idle"
        /\ \A d \in Device \ {DeviceOf[Client]} : due[d] = 0 /\ node[d] # "linked"
        /\ Protocol /\ Marked
        /\ node[DeviceOf[Client]] = "linked" <=> Entered
        /\ count = IF Entered THEN 1 ELSE 0
        /\ ~broken

DeviceInv == Types /\ SemInv /\ CalmInv /\ PollSeesData

(* Nothing is linked, known or due at the start. *)
LEMMA CalmInit == Init => CalmInv /\ PollSeesData
BY DeviceAssumption DEF Init, CalmInv, Protocol, Marked, Entered, PollSeesData

(* In a calm behaviour a step of a process is one of the client's, and moves   *)
(* no other.                                                                   *)
LEMMA ClientMoves ==
    ASSUME Types, CalmInv, calm, NEW p \in Process, NEW x, Goto(p, x),
           p = Client \/ pc[p] # "idle"
    PROVE  /\ p = Client /\ pc'[Client] = x
           /\ \A q \in Process \ {Client} : pc'[q] = "idle"
BY DeviceAssumption DEF Types, CalmInv, Goto

(* Steps of dev_write: the client links its device once, and again only after  *)
(* it was taken out.                                                           *)
LEMMA CalmWrite ==
    ASSUME Types, SemInv, CalmInv, calm, calm' = calm, NEW p \in Process,
           \/ WriteBegin(p) \/ WriteLink(p) \/ WriteCopy(p) \/ WriteGlobal(p)
           \/ WriteSend(p) \/ WriteArm(p) \/ WriteWait(p) \/ WriteUnlink(p)
           \/ WriteAcked(p)
    PROVE  CalmInv'
<1> DEFINE D == DeviceOf[Client]
<1>0. Client \in Process /\ D \in Device
  BY DeviceAssumption
<1>1. PICK x : Goto(p, x) /\ (p = Client \/ pc[p] # "idle")
  BY DEF WriteBegin, WriteLink, WriteCopy, WriteGlobal, WriteSend, WriteArm, WriteWait,
         WriteUnlink, WriteAcked, Begins, At, GivesUp
<1>2. /\ p = Client /\ pc'[Client] = x
      /\ \A q \in Process \ {Client} : pc'[q] = "idle"
  BY <1>1, ClientMoves
<1>3. /\ \A d \in Device \ {D} : due[d] = 0 /\ node[d] # "linked"
      /\ Protocol /\ Marked /\ ~broken
      /\ node[D] = "linked" <=> Entered
      /\ count = IF Entered THEN 1 ELSE 0
  BY DEF CalmInv
<1> USE <1>0, <1>2, <1>3 DEF CalmInv, Protocol, Marked, Entered, At, Goto, listVars,
        dataVars, syncVars, semVars, clientVars
<1>4. CASE WriteBegin(p)
  BY <1>4 DEF WriteBegin, Begins
<1>5. CASE WriteLink(p)
  BY <1>5 DEF Types, WriteLink, ListAdd, CountUp
<1>6. CASE WriteCopy(p)
  <2>1. pc[Client] = "m_sem" /\ x = "global_sem"
    BY <1>1, <1>6 DEF Types, WriteCopy
  <2>2. UNCHANGED <<node, count, stamp, rung, due, user, broken>>
    BY <1>6 DEF WriteCopy
  <2> QED  BY <2>1, <2>2
<1>7. CASE WriteGlobal(p)
  BY <1>7 DEF WriteGlobal
<1>8. CASE WriteSend(p)
  BY <1>8 DEF Types, WriteSend
<1>9. CASE WriteArm(p)
  BY <1>9 DEF WriteArm
<1>10. CASE WriteWait(p)
  <2>1. pc[Client] = "wait" /\ x \in {"acked", "unlink"}
    BY <1>1, <1>10 DEF Types, WriteWait, GivesUp
  <2>2. UNCHANGED <<node, count, stamp, rung, due, user, broken>>
    BY <1>10 DEF WriteWait
  <2> QED  BY <2>1, <2>2
<1>11. CASE WriteUnlink(p)
  BY <1>11 DEF Types, WriteUnlink, ListDel, CountDown
<1>12. CASE WriteAcked(p)
  <2>1. pc[Client] = "acked" /\ pc'[Client] = "out" /\ user' = "written" /\ rung
    BY <1>12 DEF Types, WriteAcked, Knows, SemInv, FreshAck
  <2>2. UNCHANGED <<node, count, stamp, rung, due, broken>>
    BY <1>12 DEF WriteAcked
  <2> QED  BY <2>1, <2>2
<1> QED  BY <1>4, <1>5, <1>6, <1>7, <1>8, <1>9, <1>10, <1>11, <1>12

(* Steps of dev_read and dev_poll: the client reads only what poll has told it *)
(* of, and then its device is in the list and bears the mark of the answer.    *)
LEMMA CalmRead ==
    ASSUME Types, SemInv, CalmInv, calm, calm' = calm, NEW p \in Process,
           \/ ReadBegin(p) \/ ReadUnlink(p) \/ ReadReset(p) \/ ReadTest(p)
           \/ ReadCopy(p) \/ ReadClear(p) \/ ReadOut(p) \/ Out(p)
    PROVE  CalmInv'
<1> DEFINE D == DeviceOf[Client]
<1>0. Client \in Process /\ D \in Device
  BY DeviceAssumption
<1>1. PICK x : Goto(p, x) /\ (p = Client \/ pc[p] # "idle")
  BY DEF ReadBegin, ReadUnlink, ReadReset, ReadTest, ReadCopy, ReadClear, ReadOut, Out,
         Begins, At
<1>2. /\ p = Client /\ pc'[Client] = x
      /\ \A q \in Process \ {Client} : pc'[q] = "idle"
  BY <1>1, ClientMoves
<1>3. /\ \A d \in Device \ {D} : due[d] = 0 /\ node[d] # "linked"
      /\ Protocol /\ Marked /\ ~broken
      /\ node[D] = "linked" <=> Entered
      /\ count = IF Entered THEN 1 ELSE 0
  BY DEF CalmInv
<1> USE <1>0, <1>2, <1>3 DEF CalmInv, Protocol, Marked, Entered, At, Goto, listVars,
        dataVars, syncVars, semVars, clientVars
<1>4. CASE ReadBegin(p)
  BY <1>4 DEF ReadBegin, Begins
<1>5. CASE ReadUnlink(p)
  BY <1>5 DEF Types, ReadUnlink, ListDel, CountDown
<1>6. CASE ReadReset(p) \/ ReadTest(p)
  <2>1. \/ pc[Client] = "m_sem_read" /\ x = "test"
        \/ pc[Client] = "test" /\ x \in {"copy", "read_out"}
    BY <1>1, <1>6 DEF Types, ReadReset, ReadTest
  <2>2. UNCHANGED <<node, count, stamp, rung, due, user, broken>>
    BY <1>6 DEF ReadReset, ReadTest
  <2> QED  BY <2>1, <2>2
<1>7. CASE ReadCopy(p)
  <2>1. pc[Client] = "copy" /\ x = "clear"
    BY <1>1, <1>7 DEF Types, ReadCopy
  <2>2. UNCHANGED <<node, count, stamp, rung, due, user, broken>>
    BY <1>7 DEF ReadCopy
  <2> QED  BY <2>1, <2>2
<1>8. CASE ReadClear(p)
  BY <1>8 DEF ReadClear
<1>9. CASE ReadOut(p)
  <2>1. pc[Client] = "read_out" /\ pc'[Client] = "out" /\ user' = "free"
    BY <1>9 DEF Types, ReadOut, Knows
  <2>2. UNCHANGED <<node, count, stamp, rung, due, broken>>
    BY <1>9 DEF ReadOut
  <2> QED  BY <2>1, <2>2
<1>10. CASE Out(p)
  BY <1>10 DEF Out
<1> QED  BY <1>4, <1>5, <1>6, <1>7, <1>8, <1>9, <1>10

(* What poll tells and what comes from outside: an answer marks the device,    *)
(* whether it is for the last write or for one that gave up.                   *)
LEMMA CalmRest ==
    ASSUME Types, SemInv, CalmInv, PollSeesData, calm, calm' = calm,
           \/ UNCHANGED vars
           \/ \E p \in Process : Poll(p) \/ Signal(p) \/ UnlockReset(p) \/ UnlockSet(p)
           \/ \E d \in Device : Callback(d) \/ SetMode(d)
    PROVE  CalmInv' /\ PollSeesData'
<1> DEFINE D == DeviceOf[Client]
<1>0. Client \in Process /\ D \in Device
  BY DeviceAssumption
<1>1. CASE UNCHANGED vars
  BY <1>1 DEF vars, listVars, dataVars, syncVars, semVars, clientVars, CalmInv, Protocol,
              Marked, Entered, PollSeesData
<1>2. ASSUME NEW p \in Process, Poll(p)
      PROVE  CalmInv' /\ PollSeesData'
  <2>1. /\ p = Client /\ pc[p] = "idle" /\ user = "written" /\ user' = "readable"
        /\ UNCHANGED <<node, count, stamp, active, available, rung, due, pc, broken>>
    BY <1>2 DEF Poll, Begins, At, Knows, listVars, dataVars, syncVars
  <2> QED  BY <2>1 DEF CalmInv, Protocol, Marked, Entered, PollSeesData
<1>3. ASSUME NEW d \in Device, Callback(d)
      PROVE  CalmInv' /\ PollSeesData'
  <2>1. /\ due[d] > 0 /\ due' = [due EXCEPT ![d] = IF @ > 0 THEN @ - 1 ELSE @]
        /\ available' = [available EXCEPT ![d] = TRUE]
        /\ active' = [active EXCEPT ![d] = TRUE]
        /\ stamp' = [stamp EXCEPT ![d] = "answered"]
        /\ UNCHANGED <<node, count, pc, user, broken>>
    BY <1>3 DEF Callback, StampAnswer, clientVars
  <2>2. d = D
    BY <2>1 DEF CalmInv
  <2>3. stamp'[D] = "answered" /\ \A e \in Device \ {D} : due'[e] = due[e]
    BY <1>0, <2>1, <2>2 DEF Types
  <2>4. CalmInv'
    BY <1>0, <2>1, <2>3 DEF CalmInv, Protocol, Marked, Entered
  <2>5. PollSeesData'
    BY <2>1 DEF PollSeesData, Types
  <2> QED  BY <2>4, <2>5
<1>4. /\ \A p \in Process : ~Signal(p) /\ ~UnlockReset(p) /\ ~UnlockSet(p)
      /\ \A d \in Device : ~SetMode(d)
  BY DEF UnlockReset, UnlockSet, Signal, SetMode, At, CalmInv, Protocol
<1> QED  BY <1>1, <1>2, <1>3, <1>4

(* Data that waits is told of, or is being read: a read takes the state back   *)
(* before it looks whether there is data, and an answer sets both.             *)
LEMMA PollProcess ==
    ASSUME Types, PollSeesData, calm, calm' = calm, NEW p \in Process, Continue(p)
           \/ WriteBegin(p) \/ ReadBegin(p)
    PROVE  PollSeesData'
<1>0. DeviceOf[p] \in Device
  BY DeviceAssumption
<1>1. ASSUME NEW x, Goto(p, x), pc[p] \notin {"test", "copy", "clear"}, UNCHANGED dataVars
      PROVE  PollSeesData'
  BY <1>1 DEF Types, PollSeesData, Goto, dataVars
<1>2. CASE ReadReset(p)
  <2> DEFINE x == "test"
  <2>1. /\ pc[p] = "m_sem_read" /\ Goto(p, x)
        /\ active' = [active EXCEPT ![DeviceOf[p]] = FALSE]
        /\ UNCHANGED available
    BY <1>2 DEF ReadReset, At
  <2>2. pc'[p] = x /\ \A q \in Process : q # p => pc'[q] = pc[q]
    BY <2>1 DEF Types, Goto
  <2>3. ASSUME NEW d \in Device, available'[d]
        PROVE  active'[d] \/ \E q \in Process : DeviceOf[q] = d /\ pc'[q] \in {"test", "copy", "clear"}
    <3>1. CASE d = DeviceOf[p]
      BY <2>1, <2>2, <2>3, <3>1
    <3>2. CASE d # DeviceOf[p]
      <4>1. active'[d] = active[d]
        BY <2>1, <3>2 DEF Types
      <4>2. CASE active[d]
        BY <4>1, <4>2
      <4>3. CASE ~active[d]
        <5>1. PICK q \in Process : DeviceOf[q] = d /\ pc[q] \in {"test", "copy", "clear"}
          BY <2>1, <2>3, <4>3 DEF PollSeesData
        <5> QED  BY <2>1, <2>2, <5>1
      <4> QED  BY <4>2, <4>3
    <3> QED  BY <3>1, <3>2
  <2> QED  BY <2>3 DEF PollSeesData
<1>7. CASE ReadTest(p)
  <2>1. /\ pc[p] = "test" /\ UNCHANGED dataVars
        /\ Goto(p, IF available[DeviceOf[p]] THEN "copy" ELSE "read_out")
    BY <1>7 DEF ReadTest, At
  <2>2. pc'[p] = (IF available[DeviceOf[p]] THEN "copy" ELSE "read_out")
        /\ \A q \in Process : q # p => pc'[q] = pc[q]
    BY <2>1 DEF Types, Goto
  <2>3. ASSUME NEW d \in Device, available'[d]
        PROVE  active'[d] \/ \E q \in Process :
                                  DeviceOf[q] = d /\ pc'[q] \in {"test", "copy", "clear"}
    <3>1. available[d] /\ (active'[d] <=> active[d])
      BY <2>1, <2>3 DEF dataVars
    <3>2. CASE active[d]
      BY <3>1, <3>2
    <3>3. CASE ~active[d]
      <4>1. PICK q \in Process : DeviceOf[q] = d /\ pc[q] \in {"test", "copy", "clear"}
        BY <3>1, <3>3 DEF PollSeesData
      <4>2. CASE q = p
        BY <2>2, <3>1, <4>1, <4>2
      <4>3. CASE q # p
        BY <2>2, <4>1, <4>3
      <4> QED  BY <4>2, <4>3
    <3> QED  BY <3>2, <3>3
  <2> QED  BY <2>3 DEF PollSeesData
<1>3. CASE ReadCopy(p)
  <2>1. pc[p] = "copy" /\ pc' = [pc EXCEPT ![p] = "clear"] /\ UNCHANGED dataVars
    BY <1>3 DEF ReadCopy, At, Goto
  <2> QED  BY <2>1 DEF Types, PollSeesData, dataVars
<1>4. CASE ReadClear(p)
  <2>1. /\ pc[p] = "clear" /\ pc' = [pc EXCEPT ![p] = "read_out"] /\ UNCHANGED active
        /\ available' = [available EXCEPT ![DeviceOf[p]] = FALSE]
    BY <1>4 DEF ReadClear, At, Goto
  <2>2. \A q \in Process : q # p => pc'[q] = pc[q]
    BY <2>1 DEF Types
  <2>3. ASSUME NEW d \in Device, available'[d]
        PROVE  active'[d] \/ \E q \in Process : DeviceOf[q] = d /\ pc'[q] \in {"test", "copy", "clear"}
    <3>1. d # DeviceOf[p] /\ available[d]
      BY <1>0, <2>1, <2>3 DEF Types
    <3>2. CASE active[d]
      BY <2>1, <3>2
    <3>3. CASE ~active[d]
      <4>1. PICK q \in Process : DeviceOf[q] = d /\ pc[q] \in {"test", "copy", "clear"}
        BY <3>1, <3>3 DEF PollSeesData
      <4> QED  BY <2>2, <3>1, <4>1
    <3> QED  BY <3>2, <3>3
  <2> QED  BY <2>3 DEF PollSeesData
<1> USE DEF At
<1>5. CASE \/ WriteBegin(p) \/ WriteLink(p) \/ WriteCopy(p) \/ WriteGlobal(p)
           \/ WriteSend(p) \/ WriteArm(p) \/ WriteWait(p) \/ WriteUnlink(p)
           \/ WriteAcked(p)
  BY <1>1, <1>5 DEF WriteBegin, WriteLink, WriteCopy, WriteGlobal, WriteSend, WriteArm,
                    WriteWait, WriteUnlink, WriteAcked, Begins, GivesUp
<1>6. CASE ReadBegin(p) \/ ReadUnlink(p) \/ ReadOut(p) \/ Out(p) \/ UnlockSet(p)
  BY <1>1, <1>6 DEF ReadBegin, ReadUnlink, ReadOut, Out, UnlockSet, Begins
<1> QED  BY <1>2, <1>3, <1>4, <1>5, <1>6, <1>7 DEF Continue

(* Every step keeps the invariant of calm behaviours. *)
LEMMA CalmNext ==
    ASSUME Types, SemInv, CalmInv, PollSeesData, [Next]_vars
    PROVE  CalmInv' /\ PollSeesData'
<1>1. calm' = calm
  <2>1. ASSUME NEW p \in Process,
               \/ WriteBegin(p) \/ ReadBegin(p) \/ Poll(p) \/ Continue(p) \/ Signal(p)
               \/ UnlockReset(p)
        PROVE  calm' = calm
    BY <2>1 DEF WriteBegin, ReadBegin, Poll, Continue, Signal, WriteLink, WriteCopy,
                WriteGlobal, WriteSend, WriteArm, WriteWait, WriteUnlink, WriteAcked,
                ReadUnlink, ReadReset, ReadTest, ReadCopy, ReadClear, ReadOut, Out, UnlockReset,
                UnlockSet, Knows, clientVars
  <2> QED  BY <2>1 DEF Next, Callback, SetMode, vars, clientVars
<1>2. CASE ~calm
  <2>1. ~calm'
    BY <1>1, <1>2
  <2> QED  BY <2>1 DEF CalmInv, PollSeesData
<1>3. CASE calm
  BY <1>1, <1>3, CalmWrite, CalmRead, CalmRest, PollProcess DEF Next, Continue
<1> QED  BY <1>2, <1>3

(* The inductive invariant of the devices: types, semaphores, and what a calm  *)
(* client can rely on.                                                         *)
THEOREM DeviceInductive == Spec => []DeviceInv
<1>1. Init => DeviceInv
  BY TypesInit, SemInit, CalmInit DEF DeviceInv
<1>2. DeviceInv /\ [Next]_vars => DeviceInv'
  BY TypesNext, SemNext, CalmNext DEF DeviceInv
<1> QED  BY <1>1, <1>2, PTL DEF Spec

(* In calm behaviours list_add and list_del never meet a node in the wrong     *)
(* state, though three parties decide from time_stamp and the outcome of the   *)
(* wait whether the device is in the list.                                     *)
THEOREM ListStaysSound == Spec => []ListSound
<1>1. DeviceInv => ListSound
  BY DEF DeviceInv, CalmInv, ListSound
<1> QED  BY <1>1, DeviceInductive, PTL

(* Whether the client keeps to a protocol or not, sync_shm_cnt is at most the  *)
(* number of entries in the list until a list operation goes wrong.            *)
THEOREM CountWithin == Spec => []CountWithinEntries
<1>1. ASSUME Init PROVE CountWithinEntries
  <2>1. Linked = {} /\ count = 0
    BY <1>1 DEF Init, Linked
  <2> QED  BY <2>1, FS_EmptySet DEF CountWithinEntries
<1>2. ASSUME Types, CountWithinEntries, [Next]_vars
      PROVE  CountWithinEntries'
  <2>1. ASSUME UNCHANGED <<node, count, broken>>
        PROVE  CountWithinEntries'
    BY <1>2, <2>1 DEF CountWithinEntries, Linked
  <2>2. IsFiniteSet(Linked) /\ Cardinality(Linked) \in Nat
    <3>1. IsFiniteSet(Device) /\ Linked \in SUBSET Device
      BY DeviceAssumption DEF Linked
    <3> QED  BY <3>1, FS_Subset, FS_CardinalityType
  <2>3. ASSUME NEW p \in Process, WriteLink(p)
        PROVE  CountWithinEntries'
    <3> DEFINE d == DeviceOf[p]
    <3>1. /\ d \in Device /\ ~broken /\ count' = count + 1
          /\ node' = [node EXCEPT ![d] = "linked"] /\ (broken' <=> node[d] = "linked")
      BY <2>3, DeviceAssumption DEF WriteLink, At, ListAdd, CountUp
    <3>2. Linked' = Linked \cup {d}
      BY <1>2, <3>1 DEF Types, Linked
    <3>3. ~broken' => d \notin Linked
      BY <3>1 DEF Linked
    <3>4. ~broken' => Cardinality(Linked') = Cardinality(Linked) + 1
      BY <2>2, <3>2, <3>3, FS_AddElement
    <3> QED  BY <1>2, <2>2, <3>1, <3>4 DEF CountWithinEntries, Types
  <2>4. ASSUME NEW p \in Process, NEW d \in Device, ~broken, ListDel(d), CountDown
        PROVE  CountWithinEntries'
    <3>1. /\ count' = count - 1
          /\ node' = [node EXCEPT ![d] = "poison"] /\ (broken' <=> node[d] # "linked")
      BY <2>4 DEF ListDel, CountDown
    <3>2. Linked' = Linked \ {d}
      BY <1>2, <3>1 DEF Types, Linked
    <3>3. ~broken' => d \in Linked
      BY <3>1 DEF Linked
    <3>4. ~broken' => Cardinality(Linked') = Cardinality(Linked) - 1
      BY <2>2, <3>2, <3>3, FS_RemoveElement
    <3> QED  BY <1>2, <2>2, <2>4, <3>1, <3>4 DEF CountWithinEntries, Types
  <2>5. ASSUME NEW p \in Process, WriteUnlink(p) \/ ReadUnlink(p)
        PROVE  CountWithinEntries'
    <3>1. DeviceOf[p] \in Device /\ ~broken /\ CountDown
      BY <2>5, DeviceAssumption DEF WriteUnlink, ReadUnlink, At
    <3>2. CASE ListDel(DeviceOf[p])
      BY <2>4, <3>1, <3>2
    <3>3. CASE UNCHANGED <<node, broken>>
      <4>1. Linked' = Linked /\ count' = count - 1 /\ broken' = broken
        BY <3>1, <3>3 DEF Linked, CountDown
      <4> QED  BY <1>2, <2>2, <4>1 DEF CountWithinEntries, Types
    <3> QED  BY <2>5, <3>2, <3>3 DEF WriteUnlink, ReadUnlink
  <2>6. ASSUME NEW p \in Process,
               \/ WriteBegin(p) \/ WriteCopy(p) \/ WriteGlobal(p) \/ WriteSend(p)
               \/ WriteArm(p) \/ WriteWait(p) \/ WriteAcked(p) \/ ReadBegin(p)
               \/ ReadReset(p) \/ ReadTest(p) \/ ReadCopy(p) \/ ReadClear(p)
               \/ ReadOut(p) \/ Out(p) \/ Poll(p) \/ Signal(p)
               \/ UnlockReset(p) \/ UnlockSet(p)
        PROVE  UNCHANGED <<node, count, broken>>
    BY <2>6 DEF WriteBegin, WriteCopy, WriteGlobal, WriteSend, WriteArm, WriteWait,
                WriteAcked, ReadBegin, ReadReset, ReadTest, ReadCopy, ReadClear, ReadOut,
                Out, Poll, Signal, UnlockReset, UnlockSet, listVars
  <2>7. ASSUME \/ UNCHANGED vars
               \/ \E d \in Device : Callback(d) \/ SetMode(d)
        PROVE  UNCHANGED <<node, count, broken>>
    BY <2>7 DEF Callback, SetMode, vars, listVars
  <2> QED  BY <1>2, <2>1, <2>3, <2>5, <2>6, <2>7 DEF Next, Continue
<1>3. Init => Types /\ CountWithinEntries
  BY <1>1, TypesInit
<1>4. Types /\ CountWithinEntries /\ [Next]_vars => (Types /\ CountWithinEntries)'
  BY <1>2, TypesNext
<1> QED  BY <1>3, <1>4, PTL DEF Spec

(* In calm behaviours no data waits without poll telling of it, whatever       *)
(* answer comes during a read.                                                 *)
THEOREM PollTells == Spec => []PollSeesData
<1>1. DeviceInv => PollSeesData
  BY DEF DeviceInv
<1> QED  BY <1>1, DeviceInductive, PTL
=============================================================================
