-------------------------- MODULE MpiChannelProofs --------------------------
(***************************************************************************)
(* Proofs about MpiChannel, for any set of channel numbers, of infos and   *)
(* of reserved lock numbers.                                               *)
(***************************************************************************)
EXTENDS MpiChannel, WellFoundedInduction, TLAPS

-----------------------------------------------------------------------------
(* The operators of the model.                                               *)

(* The two cores are each other's peers. *)
LEMMA Peers ==
    ASSUME NEW c \in Core
    PROVE  /\ Peer(c) \in Core /\ Peer(c) # c
           /\ \A d \in Core : d = c \/ d = Peer(c)
           /\ Peer(Peer(c)) = c
<1>1. \A x \in Core : Peer(x) \in Core /\ Peer(x) # x
  BY ChannelAssumption DEF Peer
<1> QED  BY <1>1, ChannelAssumption

(* A nonempty set of positions has a first one. *)
LEMMA FirstPosition ==
    ASSUME NEW S, S \subseteq Nat, S # {}
    PROVE  \E i \in S : \A j \in S : i <= j
<1> DEFINE less == {ss \in Nat \X Nat : ss[1] < ss[2]}
<1>1. IsWellFoundedOn(less, Nat)
  BY NatLessThanWellFounded DEF OpToRel
<1> HIDE DEF less
<1>2. PICK i \in S : \A j \in S : ~(<<j, i>> \in less)
  BY <1>1, WFMin
<1>3. ASSUME NEW j \in S  PROVE  i <= j
  <2>1. i \in Nat /\ j \in Nat /\ ~(<<j, i>> \in less)
    BY <1>2
  <2>2. ~(j < i)
    BY <2>1 DEF less
  <2> QED  BY <2>1, <2>2
<1> QED  BY <1>3

(* Appending a number to the list registers that number and no other. *)
LEMMA Registers ==
    ASSUME NEW s \in Seq(Number), NEW n \in Number, n \notin Range(s),
           \A i, j \in DOMAIN s : s[i] = s[j] => i = j
    PROVE  /\ Append(s, n) \in Seq(Number)
           /\ Range(Append(s, n)) = Range(s) \cup {n}
           /\ \A i, j \in DOMAIN Append(s, n) :
                  Append(s, n)[i] = Append(s, n)[j] => i = j
<1> DEFINE t == Append(s, n)
<1>1. /\ t \in Seq(Number)
      /\ Len(s) \in Nat /\ Len(t) = Len(s) + 1
      /\ DOMAIN s = 1 .. Len(s) /\ DOMAIN t = 1 .. Len(s) + 1
      /\ \A i \in 1 .. Len(s) : t[i] = s[i]
      /\ t[Len(s) + 1] = n
  OBVIOUS
<1> HIDE DEF t
<1>2. Range(t) = Range(s) \cup {n}
  BY <1>1 DEF Range
<1>3. ASSUME NEW i \in DOMAIN t, NEW j \in DOMAIN t, t[i] = t[j]
      PROVE  i = j
  BY <1>1, <1>3 DEF Range
<1> QED  BY <1>1, <1>2, <1>3 DEF t

(* message_int_unreg leaves a list. *)
LEMMA UnlinkedType ==
    ASSUME NEW s \in Seq(Number), NEW n \in Range(s)
    PROVE  /\ Unlinked(s, n) \in Seq(Number)
           /\ DOMAIN Unlinked(s, n) = 1 .. Len(s) - 1
<1>1. /\ Len(s) \in Nat /\ DOMAIN s = 1 .. Len(s)
      /\ \A i \in 1 .. Len(s) : s[i] \in Number
  OBVIOUS
<1>2. Len(s) - 1 \in Nat
  BY <1>1 DEF Range
<1>3. \A i \in 1 .. Len(s) - 1 : Unlinked(s, n)[i] \in Number
  BY <1>1, <1>2 DEF Unlinked
<1>4. Unlinked(s, n) = [i \in 1 .. Len(s) - 1 |-> Unlinked(s, n)[i]]
  BY DEF Unlinked
<1> QED  BY <1>2, <1>3, <1>4

(* message_int_unreg takes the channel out of the list and leaves the others. *)
LEMMA Unregisters ==
    ASSUME NEW s \in Seq(Number), NEW n \in Range(s),
           \A i, j \in DOMAIN s : s[i] = s[j] => i = j
    PROVE  /\ Unlinked(s, n) \in Seq(Number)
           /\ Range(Unlinked(s, n)) = Range(s) \ {n}
           /\ \A i, j \in DOMAIN Unlinked(s, n) :
                  Unlinked(s, n)[i] = Unlinked(s, n)[j] => i = j
<1> DEFINE t == Unlinked(s, n)
<1>1. /\ Len(s) \in Nat /\ DOMAIN s = 1 .. Len(s)
      /\ \A i \in 1 .. Len(s) : s[i] \in Number
  OBVIOUS
<1>2. PICK k \in 1 .. Len(s) : s[k] = n
  BY <1>1 DEF Range
<1>3. DOMAIN t = 1 .. Len(s) - 1 /\ Len(s) - 1 \in Nat
  BY <1>1, <1>2, UnlinkedType
<1>4. \A i \in DOMAIN t : t[i] = IF k <= i THEN s[i + 1] ELSE s[i]
  <2> SUFFICES ASSUME NEW i \in DOMAIN t
               PROVE  t[i] = IF k <= i THEN s[i + 1] ELSE s[i]
    OBVIOUS
  <2>1. (\E j \in 1 .. i : s[j] = n) <=> k <= i
    BY <1>1, <1>2, <1>3
  <2> QED  BY <1>3, <2>1 DEF Unlinked
<1>5. t \in Seq(Number)
  BY UnlinkedType
<1> HIDE DEF t
<1>6. Range(t) \subseteq Range(s) \ {n}
  BY <1>1, <1>2, <1>3, <1>4 DEF Range
<1>7. ASSUME NEW m \in Range(s) \ {n}
      PROVE  m \in Range(t)
  <2>1. PICK i \in 1 .. Len(s) : s[i] = m
    BY <1>1 DEF Range
  <2>2. CASE i < k
    <3>1. i \in DOMAIN t /\ t[i] = m
      BY <1>1, <1>3, <1>4, <2>1, <2>2
    <3> QED  BY <3>1 DEF Range
  <2>3. CASE k < i
    <3>1. i - 1 \in DOMAIN t /\ t[i - 1] = m
      BY <1>1, <1>3, <1>4, <2>1, <2>3
    <3> QED  BY <3>1 DEF Range
  <2> QED  BY <1>1, <1>2, <2>1, <2>2, <2>3
<1>8. ASSUME NEW i \in DOMAIN t, NEW j \in DOMAIN t, t[i] = t[j]
      PROVE  i = j
  BY <1>1, <1>2, <1>3, <1>4, <1>8
<1> QED  BY <1>5, <1>6, <1>7, <1>8 DEF t

(* The handler calls back a registered channel that receives on the handle. *)
LEMMA Listens ==
    ASSUME NEW c \in Core, NEW h, calls[c] \in Seq(Number)
    PROVE  /\ Listener(c, h) \in Number \cup {Nil}
           /\ Listener(c, h) # Nil => Listener(c, h) \in Registered(c)
<1> DEFINE hit == {i \in DOMAIN calls[c] : chan[c][calls[c][i]].recv = h}
<1>1. CASE hit = {}
  BY <1>1 DEF Listener
<1>2. CASE hit # {}
  <2>0. hit \subseteq Nat
    OBVIOUS
  <2>1. \E i \in hit : \A j \in hit : i <= j
    <3> HIDE DEF hit
    <3> QED  BY <1>2, <2>0, FirstPosition
  <2>2. PICK i \in hit : Listener(c, h) = calls[c][i]
    BY <1>2, <2>1 DEF Listener
  <2>3. i \in DOMAIN calls[c] /\ calls[c][i] \in Number
    OBVIOUS
  <2>4. Listener(c, h) \in Number /\ Listener(c, h) \in Range(calls[c])
    BY <2>2, <2>3 DEF Range
  <2> QED  BY <2>4 DEF Registered
<1> QED  BY <1>1, <1>2

\* Where a process spins for s_mod_lock, and where it goes with it.
Spinning == {"open_send", "open_recv", "close_send", "undo_send", "close_recv", "send"}
Entering(from) ==
    CASE from = "open_send" -> "open_send_locked"
      [] from = "open_recv" -> "open_recv_locked"
      [] from = "close_send" -> "close_send_locked"
      [] from = "undo_send" -> "undo_send_locked"
      [] from = "close_recv" -> "close_recv_locked"
      [] from = "send" -> "send_locked"

-----------------------------------------------------------------------------
(* Types.                                                                    *)

\* Beside its type, a process has a number whenever it is not idle.
Numbered == \A c \in Core : pc[c].op = "idle" <=> pc[c].n = Nil

TypeInv == TypeOK /\ Numbered

PcType == [Core -> [op : Operations, n : Number \cup {Nil}]]

\* After, the process of c is at x and the other's is where it was.
PcBecomes(c, x) ==
    /\ pc' \in PcType
    /\ Numbered'
    /\ pc'[c] = x
    /\ \A d \in Core : d # c => pc'[d] = pc[d]

(* A call that goes on. *)
LEMMA Goes ==
    ASSUME TypeInv, NEW c \in Core, NEW op \in Operations \ {"idle"},
           pc[c].op # "idle", Goto(c, op)
    PROVE  PcBecomes(c, [op |-> op, n |-> pc[c].n])
<1>1. /\ pc \in PcType
      /\ \A d \in Core : pc[d].op = "idle" <=> pc[d].n = Nil
  BY DEF TypeInv, TypeOK, Numbered, PcType
<1>2. pc[c] \in [op : Operations, n : Number \cup {Nil}]
  BY <1>1 DEF PcType
<1>3. [pc[c] EXCEPT !.op = op] = [op |-> op, n |-> pc[c].n]
  BY <1>2
<1>4. pc' = [pc EXCEPT ![c] = [op |-> op, n |-> pc[c].n]]
  BY <1>3 DEF Goto
<1>5. /\ pc' \in PcType
      /\ pc'[c] = [op |-> op, n |-> pc[c].n]
      /\ \A d \in Core : d # c => pc'[d] = pc[d]
  BY <1>1, <1>2, <1>4 DEF PcType
<1>6. Numbered'
  BY <1>1, <1>5 DEF Numbered
<1> QED  BY <1>5, <1>6 DEF PcBecomes

(* A call that begins. *)
LEMMA Begins ==
    ASSUME TypeInv, NEW c \in Core, NEW op \in Operations \ {"idle"},
           NEW n \in Number, Begin(c, op, n)
    PROVE  PcBecomes(c, [op |-> op, n |-> n])
BY ChannelAssumption
   DEF TypeInv, TypeOK, Numbered, PcType, PcBecomes, Begin

(* A call that returns. *)
LEMMA Finishes ==
    ASSUME TypeInv, NEW c \in Core, Finish(c)
    PROVE  PcBecomes(c, Idle)
BY DEF TypeInv, TypeOK, Numbered, PcType, PcBecomes, Finish, Idle, Operations

ChannelType ==
    [send : Handle \cup {Nil}, recv : Handle \cup {Nil},
     data : BOOLEAN, buffer : BOOLEAN]
Channels == [Core -> [Number -> ChannelType]]

\* After, the channel n of c is r and the others are what they were.
ChanBecomes(c, n, r) ==
    /\ chan' \in Channels
    /\ chan'[c][n] = r
    /\ \A d \in Core : \A m \in Number :
           d # c \/ m # n => chan'[d][m] = chan[d][m]

(* What the assignments to a field of struct Mpi_channel do. *)
LEMMA ChanMoves ==
    ASSUME chan \in Channels, NEW c \in Core, NEW n \in Number,
           NEW h \in Handle \cup {Nil}
    PROVE  /\ chan' = [chan EXCEPT ![c][n].send = h] =>
                  ChanBecomes(c, n, [chan[c][n] EXCEPT !.send = h])
           /\ chan' = [chan EXCEPT ![c][n].recv = h] =>
                  ChanBecomes(c, n, [chan[c][n] EXCEPT !.recv = h])
           /\ chan' = [chan EXCEPT ![c][n].data = TRUE] =>
                  ChanBecomes(c, n, [chan[c][n] EXCEPT !.data = TRUE])
           /\ chan' = [chan EXCEPT ![c][n].buffer = TRUE] =>
                  ChanBecomes(c, n, [chan[c][n] EXCEPT !.buffer = TRUE])
           /\ chan' = [chan EXCEPT ![c][n] = NoChannel] =>
                  ChanBecomes(c, n, NoChannel)
<1>1. chan[c][n] \in ChannelType /\ chan \in [Core -> [Number -> ChannelType]]
  BY DEF Channels
<1>2. ASSUME NEW r \in ChannelType, chan' = [chan EXCEPT ![c][n] = r]
      PROVE  ChanBecomes(c, n, r)
  <2>1. chan' = [chan EXCEPT ![c] = [chan[c] EXCEPT ![n] = r]]
    BY <1>2
  <2>2. chan' \in [Core -> [Number -> ChannelType]]
    BY <1>1, <2>1
  <2>3. chan'[c][n] = r
    BY <1>1, <2>1
  <2>4. \A d \in Core : \A m \in Number :
           d # c \/ m # n => chan'[d][m] = chan[d][m]
    BY <1>1, <2>1
  <2> QED  BY <2>2, <2>3, <2>4 DEF ChanBecomes, Channels
<1>3. /\ [chan[c][n] EXCEPT !.send = h] \in ChannelType
      /\ [chan[c][n] EXCEPT !.recv = h] \in ChannelType
      /\ NoChannel \in ChannelType
  BY <1>1 DEF ChannelType, NoChannel
<1>4. /\ [chan[c][n] EXCEPT !.data = TRUE] \in ChannelType
      /\ [chan[c][n] EXCEPT !.buffer = TRUE] \in ChannelType
  BY <1>1 DEF ChannelType
<1> QED  BY <1>2, <1>3, <1>4

(* The fields that such an assignment leaves alone. *)
LEMMA ChanFields ==
    ASSUME chan \in Channels, NEW c \in Core, NEW n \in Number,
           NEW h \in Handle \cup {Nil}
    PROVE  /\ [chan[c][n] EXCEPT !.send = h].send = h
           /\ [chan[c][n] EXCEPT !.send = h].recv = chan[c][n].recv
           /\ [chan[c][n] EXCEPT !.recv = h].send = chan[c][n].send
           /\ [chan[c][n] EXCEPT !.recv = h].recv = h
           /\ [chan[c][n] EXCEPT !.data = TRUE].send = chan[c][n].send
           /\ [chan[c][n] EXCEPT !.data = TRUE].recv = chan[c][n].recv
           /\ [chan[c][n] EXCEPT !.buffer = TRUE].send = chan[c][n].send
           /\ [chan[c][n] EXCEPT !.buffer = TRUE].recv = chan[c][n].recv
BY DEF Channels, ChannelType

(* The initial state has the right types. *)
LEMMA TypesInit == Init => TypeInv
<1> SUFFICES ASSUME Init PROVE TypeInv
  OBVIOUS
<1>1. keeper \in [Core -> SUBSET Nat]
  BY ChannelAssumption DEF Init
<1>2. chan \in Channels
  BY DEF Init, NoChannel, Channels, ChannelType
<1>3. calls \in [Core -> Seq(Number)]
  BY DEF Init
<1>4. /\ name \in [Handle -> SegmentName \cup {Nil}]
      /\ open \in [Handle -> SUBSET Core]
      /\ pending \in [Handle -> Core \cup {Nil}]
  BY DEF Init
<1>5. /\ pc \in [Core -> [op : Operations, n : Number \cup {Nil}]]
      /\ \A c \in Core : pc[c].op = "idle" /\ pc[c].n = Nil
  BY DEF Init, Idle, Operations
<1>6. isr \in [Core -> [op : {"idle", "test", "spin", "get", "done"},
                        n : Number \cup {Nil}, h : Handle \cup {Nil}]]
  BY DEF Init, NoInterrupt
<1>7. /\ msgr \in [Core -> Handle \cup {Nil}] /\ irq \in [Core -> BOOLEAN]
      /\ missed \in SUBSET Handle /\ crashed \in SUBSET Core
      /\ lock \in (Core \X {"process", "handler"}) \cup {Nil}
  BY DEF Init
<1> QED  BY <1>1, <1>2, <1>3, <1>4, <1>5, <1>6, <1>7
         DEF TypeInv, TypeOK, Numbered, Channels, ChannelType

(* Taking s_mod_lock keeps the types. *)
LEMMA TypesLock ==
    ASSUME TypeInv, NEW c \in Core, NEW from \in Operations \ {"idle"},
           NEW to \in Operations \ {"idle"}, Lock(c, from, to)
    PROVE  TypeInv'
<1>1. pc[c].op # "idle" /\ Goto(c, to)
  BY DEF Lock, At
<1>2. PICK n \in Number : pc[c].n = n
  BY <1>1 DEF TypeInv, TypeOK, Numbered
<1>3. pc' \in PcType /\ Numbered'
  BY <1>1, <1>2, Goes DEF PcBecomes
<1>4. lock' \in (Core \X {"process", "handler"}) \cup {Nil}
  BY DEF Lock, TakeLock
<1>5. UNCHANGED <<channelVars, segmentVars, doorbellVars, isr, crashed>>
  BY DEF Lock
<1> QED  BY <1>3, <1>4, <1>5
         DEF TypeInv, TypeOK, PcType, channelVars, segmentVars, doorbellVars

(* The number in progress, while there is one. *)
LEMMA Busy ==
    ASSUME TypeInv, NEW c \in Core, pc[c].op # "idle"
    PROVE  pc[c].n \in Number
BY DEF TypeInv, TypeOK, Numbered

(* So do the other steps of mpi_create_channel ... *)
LEMMA TypesCreate ==
    ASSUME TypeInv, NEW c \in Core,
           \/ \E n \in Number : CreateBegin(c, n)
           \/ OpenSend(c) \/ OpenRecv(c) \/ Register(c) \/ SetData(c) \/ SetBuffer(c)
    PROVE  TypeInv'
<1>0. Nil \notin Number /\ \A n \in Number : LockNumber(n) \in Nat
  BY ChannelAssumption DEF LockNumber
<1>1. ASSUME NEW n \in Number, CreateBegin(c, n)
      PROVE  TypeInv'
  <2>1. pc' \in PcType /\ Numbered'
    BY <1>1, Begins DEF CreateBegin, Operations, PcBecomes
  <2>2. keeper' \in [Core -> SUBSET Nat]
    BY <1>0, <1>1 DEF CreateBegin, TypeInv, TypeOK
  <2>3. UNCHANGED <<chan, calls, segmentVars, doorbellVars, lock, isr, crashed>>
    BY <1>1 DEF CreateBegin
  <2> QED  BY <2>1, <2>2, <2>3 DEF TypeInv, TypeOK, PcType, segmentVars, doorbellVars
<1>2. ASSUME OpenSend(c) \/ OpenRecv(c)
      PROVE  TypeInv'
  <2>1. pc[c].op # "idle" /\ pc[c].n \in Number
    BY <1>2, Busy DEF OpenSend, OpenRecv, At
  <2>2. PICK op \in Operations \ {"idle"} : Goto(c, op)
    BY <1>2 DEF OpenSend, OpenRecv, Operations, OnNoRecv
  <2>3. pc' \in PcType /\ Numbered'
    BY <2>1, <2>2, Goes DEF PcBecomes
  <2>4. /\ name' \in [Handle -> SegmentName \cup {Nil}]
        /\ open' \in [Handle -> SUBSET Core]
        /\ pending' \in [Handle -> Core \cup {Nil}]
        /\ missed' \in SUBSET Handle /\ UNCHANGED <<msgr, irq>>
    <3>1. SendName(c, pc[c].n) \in SegmentName /\ RecvName(c, pc[c].n) \in SegmentName
      BY <2>1, Peers DEF SendName, RecvName, SegmentName
    <3>2. \/ UNCHANGED <<segmentVars, doorbellVars>>
          \/ \E h \in Handle, nm \in SegmentName : Opened(c, nm, h)
      BY <1>2, <3>1 DEF OpenSend, OpenRecv, NotOpened
    <3>3. /\ missed \in SUBSET Handle
          /\ name \in [Handle -> SegmentName \cup {Nil}]
          /\ open \in [Handle -> SUBSET Core]
          /\ pending \in [Handle -> Core \cup {Nil}]
      BY DEF TypeInv, TypeOK
    <3>4. ASSUME NEW h \in Handle, NEW nm \in SegmentName, Opened(c, nm, h)
          PROVE  /\ name' \in [Handle -> SegmentName \cup {Nil}]
                 /\ open' \in [Handle -> SUBSET Core]
                 /\ pending' \in [Handle -> Core \cup {Nil}]
                 /\ missed' \in SUBSET Handle /\ UNCHANGED <<msgr, irq>>
      BY <3>3, <3>4 DEF Opened
    <3> QED  BY <3>2, <3>3, <3>4 DEF segmentVars, doorbellVars
  <2>5. chan' \in Channels
    <3>1. \/ UNCHANGED chan
          \/ \E h \in Handle : chan' = [chan EXCEPT ![c][pc[c].n].send = h]
          \/ \E h \in Handle : chan' = [chan EXCEPT ![c][pc[c].n].recv = h]
      BY <1>2 DEF OpenSend, OpenRecv
    <3>2. chan \in Channels
      BY DEF TypeInv, TypeOK, Channels, ChannelType
    <3>3. PICK n \in Number : pc[c].n = n
      BY <2>1
    <3>4. ASSUME NEW h \in Handle, chan' = [chan EXCEPT ![c][n].send = h]
          PROVE  chan' \in Channels
      <4>1. h \in Handle \cup {Nil}
        OBVIOUS
      <4> QED  BY <3>2, <3>4, <4>1, ChanMoves DEF ChanBecomes
    <3>5. ASSUME NEW h \in Handle, chan' = [chan EXCEPT ![c][n].recv = h]
          PROVE  chan' \in Channels
      <4>1. h \in Handle \cup {Nil}
        OBVIOUS
      <4> QED  BY <3>2, <3>5, <4>1, ChanMoves DEF ChanBecomes
    <3> QED  BY <3>1, <3>2, <3>3, <3>4, <3>5
  <2>6. lock' = Nil /\ UNCHANGED <<keeper, calls, isr, crashed>>
    BY <1>2 DEF OpenSend, OpenRecv, DropLock
  <2> QED  BY <2>3, <2>4, <2>5, <2>6 DEF TypeInv, TypeOK, PcType, Channels, ChannelType
<1>3. ASSUME Register(c)
      PROVE  TypeInv'
  <2>1. pc[c].op # "idle" /\ pc[c].n \in Number
    BY <1>3, Busy DEF Register, At
  <2>2. pc' \in PcType /\ Numbered'
    BY <1>3, <2>1, Goes DEF Register, Operations, PcBecomes
  <2>3. calls' \in [Core -> Seq(Number)]
    BY <1>3, <2>1 DEF Register, TypeInv, TypeOK
  <2>4. UNCHANGED <<keeper, chan, segmentVars, doorbellVars, lock, isr, crashed>>
    BY <1>3 DEF Register
  <2> QED  BY <2>2, <2>3, <2>4 DEF TypeInv, TypeOK, PcType, segmentVars, doorbellVars
<1>4. ASSUME SetData(c) \/ SetBuffer(c)
      PROVE  TypeInv'
  <2>1. pc[c].op # "idle" /\ pc[c].n \in Number
    BY <1>4, Busy DEF SetData, SetBuffer, At
  <2>2. pc' \in PcType /\ Numbered'
    BY <1>4, <2>1, Goes, Finishes DEF SetData, SetBuffer, PcBecomes, Operations
  <2>3. chan' \in Channels
    <3>1. chan \in Channels /\ Nil \in Handle \cup {Nil}
      BY DEF TypeInv, TypeOK, Channels, ChannelType
    <3> QED  BY <1>4, <2>1, <3>1, ChanMoves DEF SetData, SetBuffer, ChanBecomes
  <2>4. UNCHANGED <<keeper, calls, segmentVars, doorbellVars, lock, isr, crashed>>
    BY <1>4 DEF SetData, SetBuffer
  <2> QED  BY <2>2, <2>3, <2>4
           DEF TypeInv, TypeOK, PcType, Channels, ChannelType, segmentVars, doorbellVars
<1> QED  BY <1>1, <1>2, <1>3, <1>4

(* ... of mpi_destroy_channel ... *)
LEMMA TypesDestroy ==
    ASSUME TypeInv, NEW c \in Core,
           \/ \E n \in Number : DestroyBegin(c, n)
           \/ CloseSend(c) \/ CloseRecv(c) \/ Drop(c)
    PROVE  TypeInv'
<1>1. ASSUME NEW n \in Number, DestroyBegin(c, n)
      PROVE  TypeInv'
  <2>1. pc' \in PcType /\ Numbered'
    BY <1>1, Begins DEF DestroyBegin, Operations, PcBecomes
  <2>2. calls' \in [Core -> Seq(Number)]
    <3>1. calls[c] \in Seq(Number) /\ n \in Range(calls[c])
      BY <1>1 DEF DestroyBegin, TypeInv, TypeOK
    <3>2. Unlinked(calls[c], n) \in Seq(Number)
      BY <3>1, UnlinkedType
    <3> QED  BY <1>1, <3>2 DEF DestroyBegin, TypeInv, TypeOK
  <2>3. UNCHANGED <<keeper, chan, segmentVars, doorbellVars, lock, isr, crashed>>
    BY <1>1 DEF DestroyBegin
  <2> QED  BY <2>1, <2>2, <2>3
           DEF TypeInv, TypeOK, PcType, segmentVars, doorbellVars
<1>2. ASSUME CloseSend(c) \/ CloseRecv(c)
      PROVE  TypeInv'
  <2>1. pc[c].op # "idle"
    BY <1>2 DEF CloseSend, CloseRecv, At
  <2>2. PICK op \in Operations \ {"idle"} : Goto(c, op)
    BY <1>2 DEF CloseSend, CloseRecv, Operations
  <2>3. pc' \in PcType /\ Numbered'
    BY <2>1, <2>2, Goes DEF PcBecomes
  <2>4. PICK h : Closed(c, h)
    BY <1>2 DEF CloseSend, CloseRecv
  <2>5. /\ name' \in [Handle -> SegmentName \cup {Nil}]
        /\ open' \in [Handle -> SUBSET Core]
        /\ pending' \in [Handle -> Core \cup {Nil}]
    BY <2>4 DEF Closed, TypeInv, TypeOK
  <2>6. lock' = Nil /\ UNCHANGED <<channelVars, doorbellVars, isr, crashed>>
    BY <1>2 DEF CloseSend, CloseRecv, DropLock
  <2> QED  BY <2>3, <2>5, <2>6
           DEF TypeInv, TypeOK, PcType, channelVars, doorbellVars
<1>3. ASSUME Drop(c)
      PROVE  TypeInv'
  <2>1. pc[c].op # "idle" /\ pc[c].n \in Number
    BY <1>3, Busy DEF Drop, At
  <2>2. pc' \in PcType /\ Numbered'
    BY <1>3, Finishes DEF Drop, PcBecomes
  <2>3. chan \in Channels
    BY DEF TypeInv, TypeOK, Channels, ChannelType
  <2>4. ASSUME NEW n \in Number, chan' = [chan EXCEPT ![c][n] = NoChannel]
        PROVE  chan' \in Channels
    <3>1. Nil \in Handle \cup {Nil}
      OBVIOUS
    <3> QED  BY <2>3, <2>4, <3>1, ChanMoves DEF ChanBecomes
  <2>5. chan' \in Channels
    BY <1>3, <2>1, <2>4 DEF Drop
  <2>6. keeper' \in [Core -> SUBSET Nat]
    BY <1>3 DEF Drop, TypeInv, TypeOK
  <2>7. UNCHANGED <<calls, segmentVars, doorbellVars, lock, isr, crashed>>
    BY <1>3 DEF Drop
  <2> QED  BY <2>2, <2>5, <2>6, <2>7
           DEF TypeInv, TypeOK, PcType, Channels, ChannelType, segmentVars, doorbellVars
<1> QED  BY <1>1, <1>2, <1>3

(* ... of mpi_channel_send ... *)
LEMMA TypesSend ==
    ASSUME TypeInv, NEW c \in Core,
           (\E n \in Number : SendBegin(c, n)) \/ SendBody(c) \/ Ring(c)
    PROVE  TypeInv'
<1>1. ASSUME NEW n \in Number, SendBegin(c, n)
      PROVE  TypeInv'
  <2>1. pc' \in PcType /\ Numbered'
    BY <1>1, Begins DEF SendBegin, Operations, PcBecomes
  <2>2. UNCHANGED <<channelVars, segmentVars, doorbellVars, lock, isr, crashed>>
    BY <1>1 DEF SendBegin
  <2> QED  BY <2>1, <2>2
           DEF TypeInv, TypeOK, PcType, channelVars, segmentVars, doorbellVars
<1>2. ASSUME SendBody(c)
      PROVE  TypeInv'
  <2>1. pc' \in PcType /\ Numbered'
    BY <1>2, Goes DEF SendBody, At, Operations, PcBecomes
  <2>2. pending' \in [Handle -> Core \cup {Nil}]
    BY <1>2 DEF SendBody, TypeInv, TypeOK
  <2>3. lock' = Nil
    BY <1>2 DEF SendBody, DropLock
  <2>4. missed' \in SUBSET Handle
        /\ UNCHANGED <<channelVars, name, open, msgr, irq, isr, crashed>>
    BY <1>2 DEF SendBody, TypeInv, TypeOK
  <2> QED  BY <2>1, <2>2, <2>3, <2>4
           DEF TypeInv, TypeOK, PcType, channelVars
<1>3. ASSUME Ring(c)
      PROVE  TypeInv'
  <2>1. pc[c].op # "idle" /\ pc[c].n \in Number
    BY <1>3, Busy DEF Ring, At
  <2>2. pc' \in PcType /\ Numbered'
    BY <1>3, Finishes DEF Ring, PcBecomes
  <2>3. chan[c][pc[c].n].send \in Handle \cup {Nil}
    BY <2>1 DEF TypeInv, TypeOK
  <2>4. msgr' \in [Core -> Handle \cup {Nil}] /\ irq' \in [Core -> BOOLEAN]
    BY <1>3, <2>3 DEF Ring, TypeInv, TypeOK
  <2>5. UNCHANGED <<channelVars, segmentVars, lock, isr, crashed>>
    BY <1>3 DEF Ring
  <2>6. missed' \in SUBSET Handle
    BY <1>3 DEF Ring, Overwritten, TypeInv, TypeOK
  <2> QED  BY <2>2, <2>4, <2>5, <2>6
           DEF TypeInv, TypeOK, PcType, channelVars, segmentVars
<1> QED  BY <1>1, <1>2, <1>3

(* ... and of the handler. *)
LEMMA TypesHandler ==
    ASSUME TypeInv, NEW c \in Core, Handler(c)
    PROVE  TypeInv'
<1> DEFINE IsrType == [Core -> [op : {"idle", "test", "spin", "get", "done"},
                                n : Number \cup {Nil}, h : Handle \cup {Nil}]]
<1>0. isr \in IsrType /\ pc' = pc
  BY DEF TypeInv, TypeOK, Handler, Interrupt, GetTest, GetLock, GetBody, GetFault,
         CallbackDone, CallbackFault
<1>1. \A op \in {"test", "spin", "get", "done"} : Step(c, op) => isr' \in IsrType
  <2>1. isr[c] \in [op : {"idle", "test", "spin", "get", "done"},
                    n : Number \cup {Nil}, h : Handle \cup {Nil}]
    BY <1>0
  <2> SUFFICES ASSUME NEW op \in {"test", "spin", "get", "done"}, Step(c, op)
               PROVE  isr' \in IsrType
    OBVIOUS
  <2>2. [isr[c] EXCEPT !.op = op] \in
            [op : {"idle", "test", "spin", "get", "done"},
             n : Number \cup {Nil}, h : Handle \cup {Nil}]
    BY <2>1
  <2>3. isr' = [isr EXCEPT ![c] = [isr[c] EXCEPT !.op = op]]
    BY DEF Step
  <2> QED  BY <1>0, <2>2, <2>3
<1>2. ASSUME isr' \in IsrType, irq' \in [Core -> BOOLEAN],
             lock' \in (Core \X {"process", "handler"}) \cup {Nil},
             pending' \in [Handle -> Core \cup {Nil}], crashed' \in SUBSET Core,
             missed' \in SUBSET Handle,
             UNCHANGED <<channelVars, name, open, msgr>>
      PROVE  TypeInv'
  BY <1>0, <1>2 DEF TypeInv, TypeOK, Numbered, channelVars
<1>3. /\ irq \in [Core -> BOOLEAN] /\ crashed \in SUBSET Core /\ missed \in SUBSET Handle
      /\ lock \in (Core \X {"process", "handler"}) \cup {Nil}
      /\ pending \in [Handle -> Core \cup {Nil}]
      /\ Nil \in (Core \X {"process", "handler"}) \cup {Nil}
  BY DEF TypeInv, TypeOK
<1>4. CASE Interrupt(c)
  <2>1. Listener(c, msgr[c]) \in Number \cup {Nil} /\ msgr[c] \in Handle \cup {Nil}
    BY Listens DEF TypeInv, TypeOK
  <2>2. isr' \in IsrType
    BY <1>0, <1>4, <2>1 DEF Interrupt
  <2>3. irq' \in [Core -> BOOLEAN]
    BY <1>3, <1>4 DEF Interrupt
  <2> QED  BY <1>2, <1>3, <1>4, <2>2, <2>3 DEF Interrupt, segmentVars
<1>5. CASE GetTest(c)
  <2>1. isr' \in IsrType
    BY <1>1, <1>5 DEF GetTest
  <2>2. missed' \in SUBSET Handle
    BY <1>3, <1>5 DEF GetTest
  <2> QED  BY <1>2, <1>3, <1>5, <2>1, <2>2 DEF GetTest, segmentVars
<1>6. CASE GetLock(c)
  <2>1. isr' \in IsrType
    BY <1>1, <1>6 DEF GetLock
  <2>2. lock' \in (Core \X {"process", "handler"}) \cup {Nil}
    BY <1>6 DEF GetLock, TakeLock
  <2> QED  BY <1>2, <1>3, <1>6, <2>1, <2>2 DEF GetLock, segmentVars, doorbellVars
<1>7. CASE GetBody(c)
  <2>1. isr' \in IsrType
    BY <1>1, <1>7 DEF GetBody
  <2>2. pending' \in [Handle -> Core \cup {Nil}]
    BY <1>3, <1>7 DEF GetBody
  <2>3. missed' \in SUBSET Handle
    BY <1>3, <1>7 DEF GetBody
  <2> QED  BY <1>2, <1>3, <1>7, <2>1, <2>2, <2>3 DEF GetBody, DropLock
<1>8. CASE GetFault(c) \/ CallbackFault(c)
  BY <1>0, <1>2, <1>3, <1>8
     DEF GetFault, CallbackFault, segmentVars, doorbellVars
<1>9. CASE CallbackDone(c)
  <2>1. isr' \in IsrType
    BY <1>0, <1>9 DEF CallbackDone, NoInterrupt
  <2> QED  BY <1>2, <1>3, <1>9, <2>1 DEF CallbackDone, segmentVars, doorbellVars
<1> QED  BY <1>4, <1>5, <1>6, <1>7, <1>8, <1>9 DEF Handler

(* A step is one of a process, taken one by one, or of a handler. *)
LEMMA Steps ==
    ASSUME NEW c \in Core, Process(c)
    PROVE  \/ \E n \in Number : CreateBegin(c, n)
           \/ OpenSend(c) \/ OpenRecv(c) \/ Register(c) \/ SetData(c) \/ SetBuffer(c)
           \/ \E n \in Number : DestroyBegin(c, n)
           \/ CloseSend(c) \/ CloseRecv(c) \/ Drop(c)
           \/ \E n \in Number : SendBegin(c, n)
           \/ SendBody(c) \/ Ring(c)
           \/ \E from \in Spinning : Lock(c, from, Entering(from))
BY DEF Process, Spinning, Entering

(* Every state has the right types, and a process a number while it is busy. *)
LEMMA TypesAlways == Spec => []TypeInv
<1>1. TypeInv /\ [Next]_vars => TypeInv'
  <2> SUFFICES ASSUME TypeInv, [Next]_vars PROVE TypeInv'
    OBVIOUS
  <2>1. CASE UNCHANGED vars
    BY <2>1 DEF vars, channelVars, segmentVars, doorbellVars, TypeInv, TypeOK, Numbered
  <2>2. ASSUME NEW c \in Core, Process(c)
        PROVE  TypeInv'
    <3>1. \A from \in Spinning : /\ from \in Operations \ {"idle"}
                                 /\ Entering(from) \in Operations \ {"idle"}
      BY DEF Spinning, Entering, Operations
    <3> QED  BY <2>2, <3>1, Steps, TypesCreate, TypesDestroy, TypesSend, TypesLock
  <2>3. ASSUME NEW c \in Core, Handler(c)
        PROVE  TypeInv'
    BY <2>3, TypesHandler
  <2> QED  BY <2>1, <2>2, <2>3 DEF Next
<1> QED  BY TypesInit, <1>1, PTL DEF Spec

(* TypeOK: the values every variable of the model takes. *)
THEOREM ChannelTypes == Spec => []TypeOK
<1>1. TypeInv => TypeOK
  BY DEF TypeInv
<1> QED  BY <1>1, TypesAlways, PTL

-----------------------------------------------------------------------------
(* s_mod_lock.                                                               *)

\* Where a process is in the body of a call into a segment.
Locked ==
    {"open_send_locked", "open_recv_locked", "send_locked", "close_send_locked",
     "undo_send_locked", "close_recv_locked"}

\* Only the process of c, or only its handler, moves.
OnlyProcess(c) == isr' = isr /\ \A d \in Core : d # c => pc'[d] = pc[d]
OnlyHandler(c) == pc' = pc /\ \A d \in Core : d # c => isr'[d] = isr[d]

(* Each context that takes the lock finds it free, and each that gives it back *)
(* has it. *)
LEMMA MutexMoves ==
    ASSUME MutualExclusion, NEW c \in Core,
           \/ OnlyProcess(c) /\ lock = Nil /\ lock' = <<c, "process">>
                 /\ pc'[c].op \in Locked
           \/ OnlyProcess(c) /\ pc[c].op \in Locked /\ lock' = Nil
                 /\ pc'[c].op \notin Locked
           \/ OnlyProcess(c) /\ pc[c].op \notin Locked /\ lock' = lock
                 /\ pc'[c].op \notin Locked
           \/ OnlyHandler(c) /\ lock = Nil /\ lock' = <<c, "handler">>
                 /\ isr'[c].op = "get"
           \/ OnlyHandler(c) /\ isr[c].op = "get" /\ lock' = Nil
                 /\ isr'[c].op # "get"
           \/ OnlyHandler(c) /\ lock' = lock
                 /\ (isr[c].op = "get" <=> isr'[c].op = "get")
    PROVE  MutualExclusion'
<1>1. \A d, e \in Core : /\ <<d, "process">> = <<e, "process">> <=> d = e
                         /\ <<d, "handler">> = <<e, "handler">> <=> d = e
                         /\ <<d, "process">> # <<e, "handler">>
                         /\ Nil # <<d, "process">> /\ Nil # <<d, "handler">>
  BY ChannelAssumption
<1>2. \A d \in Core : /\ lock = <<d, "process">> <=> pc[d].op \in Locked
                      /\ lock = <<d, "handler">> <=> isr[d].op = "get"
  BY DEF MutualExclusion, Locked
<1>3. \A d \in Core : /\ lock' = <<d, "process">> <=> pc'[d].op \in Locked
                      /\ lock' = <<d, "handler">> <=> isr'[d].op = "get"
  BY <1>1, <1>2 DEF OnlyProcess, OnlyHandler
<1> QED  BY <1>3 DEF MutualExclusion, Locked

(* The process of a core keeps MutualExclusion. *)
LEMMA MutexProcess ==
    ASSUME TypeInv, MutualExclusion, NEW c \in Core, Process(c)
    PROVE  MutualExclusion'
<1> USE DEF Locked
<1>1. ASSUME NEW from \in Spinning, Lock(c, from, Entering(from))
      PROVE  MutualExclusion'
  <2>1. pc[c].op # "idle" /\ Entering(from) \in Operations \ {"idle"}
        /\ Goto(c, Entering(from)) /\ Entering(from) \in Locked
    BY <1>1 DEF Lock, At, Spinning, Entering, Operations
  <2>2. PcBecomes(c, [op |-> Entering(from), n |-> pc[c].n])
    BY <2>1, Goes
  <2>3. OnlyProcess(c) /\ pc'[c].op \in Locked
    BY <1>1, <2>1, <2>2 DEF PcBecomes, OnlyProcess, Lock
  <2>4. lock = Nil /\ lock' = <<c, "process">>
    BY <1>1 DEF Lock, TakeLock
  <2> QED  BY <2>3, <2>4, MutexMoves
<1>2. ASSUME NEW op \in Operations \ ({"idle"} \cup Locked), Goto(c, op),
             pc[c].op \in Locked, lock' = Nil, isr' = isr
      PROVE  MutualExclusion'
  <2>1. PcBecomes(c, [op |-> op, n |-> pc[c].n])
    BY <1>2, Goes
  <2>2. OnlyProcess(c) /\ pc'[c].op = op
    BY <1>2, <2>1 DEF PcBecomes, OnlyProcess
  <2>3. pc'[c].op \notin Locked
    <3> HIDE DEF Locked
    <3> QED  BY <1>2, <2>2
  <2> QED  BY <1>2, <2>2, <2>3, MutexMoves
<1>3. CASE OpenSend(c) \/ OpenRecv(c) \/ CloseSend(c) \/ CloseRecv(c) \/ SendBody(c)
  <2>1. /\ pc[c].op \in Locked /\ lock' = Nil /\ isr' = isr
        /\ \E op \in Operations \ ({"idle"} \cup Locked) : Goto(c, op)
    BY <1>3 DEF OpenSend, OpenRecv, CloseSend, CloseRecv, SendBody, At, DropLock,
                OnNoRecv, Operations
  <2> QED  BY <1>2, <2>1
<1>4. ASSUME NEW x, PcBecomes(c, x), x.op \notin Locked, pc[c].op \notin Locked,
             lock' = lock, isr' = isr
      PROVE  MutualExclusion'
  <2>1. OnlyProcess(c) /\ pc'[c].op \notin Locked
    BY <1>4 DEF PcBecomes, OnlyProcess
  <2> QED  BY <1>4, <2>1, MutexMoves
<1>5. ASSUME NEW n \in Number, CreateBegin(c, n) \/ DestroyBegin(c, n) \/ SendBegin(c, n)
      PROVE  MutualExclusion'
  <2>1. PICK op \in {"open_send", "close_send", "send"} : Begin(c, op, n)
    BY <1>5 DEF CreateBegin, DestroyBegin, SendBegin
  <2>2. PcBecomes(c, [op |-> op, n |-> n])
    BY <2>1, Begins DEF Operations
  <2>3. pc[c].op \notin Locked /\ lock' = lock /\ isr' = isr
    BY <1>5 DEF CreateBegin, DestroyBegin, SendBegin, At
  <2> QED  BY <1>4, <2>2, <2>3
<1>6. CASE Register(c) \/ SetData(c)
  <2>1. PICK op \in {"set_data", "set_buffer"} :
            PcBecomes(c, [op |-> op, n |-> pc[c].n])
    BY <1>6, Goes DEF Register, SetData, At, Operations
  <2>2. pc[c].op \notin Locked /\ lock' = lock /\ isr' = isr
    BY <1>6 DEF Register, SetData, At
  <2> QED  BY <1>4, <2>1, <2>2
<1>7. CASE SetBuffer(c) \/ Drop(c) \/ Ring(c)
  <2>1. PcBecomes(c, Idle) /\ Idle.op \notin Locked
    BY <1>7, Finishes DEF SetBuffer, Drop, Ring, Idle
  <2>2. pc[c].op \notin Locked /\ lock' = lock /\ isr' = isr
    BY <1>7 DEF SetBuffer, Drop, Ring, At
  <2> QED  BY <1>4, <2>1, <2>2
<1> QED  BY Steps, <1>1, <1>3, <1>5, <1>6, <1>7

(* So does the handler. *)
LEMMA MutexHandler ==
    ASSUME TypeInv, MutualExclusion, NEW c \in Core, Handler(c)
    PROVE  MutualExclusion'
<1>1. ASSUME NEW op \in {"test", "spin", "get", "done"}, Step(c, op)
      PROVE  isr'[c].op = op /\ \A d \in Core : d # c => isr'[d] = isr[d]
  BY <1>1 DEF Step, TypeInv, TypeOK
<1>2. CASE Interrupt(c) \/ CallbackDone(c)
  <2>1. OnlyHandler(c) /\ isr[c].op # "get" /\ isr'[c].op # "get" /\ lock' = lock
    BY <1>2 DEF Interrupt, CallbackDone, NoInterrupt, In, OnlyHandler, TypeInv, TypeOK
  <2> QED  BY <2>1, MutexMoves
<1>3. CASE GetTest(c)
  <2>1. OnlyHandler(c) /\ isr[c].op # "get" /\ isr'[c].op # "get" /\ lock' = lock
    BY <1>1, <1>3 DEF GetTest, In, OnlyHandler
  <2> QED  BY <2>1, MutexMoves
<1>4. CASE GetLock(c)
  <2>1. OnlyHandler(c) /\ isr'[c].op = "get" /\ lock = Nil /\ lock' = <<c, "handler">>
    BY <1>1, <1>4 DEF GetLock, TakeLock, OnlyHandler
  <2> QED  BY <2>1, MutexMoves
<1>5. CASE GetBody(c)
  <2>1. OnlyHandler(c) /\ isr[c].op = "get" /\ isr'[c].op # "get" /\ lock' = Nil
    BY <1>1, <1>5 DEF GetBody, DropLock, In, OnlyHandler
  <2> QED  BY <2>1, MutexMoves
<1>6. CASE GetFault(c) \/ CallbackFault(c)
  <2>1. OnlyHandler(c) /\ isr' = isr /\ lock' = lock
    BY <1>6 DEF GetFault, CallbackFault, OnlyHandler
  <2> QED  BY <2>1, MutexMoves
<1> QED  BY <1>2, <1>3, <1>4, <1>5, <1>6 DEF Handler

(* MutualExclusion: whoever holds s_mod_lock, the process of a core or its   *)
(* interrupt handler, is alone in the segments, and nobody else's unlock can *)
(* free it. *)
THEOREM LockExcludes == Spec => []MutualExclusion
<1>1. Init => MutualExclusion
  <2> SUFFICES ASSUME Init PROVE MutualExclusion
    OBVIOUS
  <2>1. \A c \in Core : pc[c].op = "idle" /\ isr[c].op = "idle"
    BY DEF Init, Idle, NoInterrupt
  <2>2. \A c \in Core : lock # <<c, "process">> /\ lock # <<c, "handler">>
    BY ChannelAssumption DEF Init
  <2> QED  BY <2>1, <2>2 DEF MutualExclusion
<1>2. TypeInv /\ MutualExclusion /\ [Next]_vars => MutualExclusion'
  <2> SUFFICES ASSUME TypeInv, MutualExclusion, [Next]_vars PROVE MutualExclusion'
    OBVIOUS
  <2>1. CASE UNCHANGED vars
    BY <2>1 DEF vars, MutualExclusion
  <2>2. CASE Next
    BY <2>2, MutexProcess, MutexHandler DEF Next
  <2> QED  BY <2>1, <2>2
<1> QED  BY TypesAlways, <1>1, <1>2, PTL DEF Spec

-----------------------------------------------------------------------------
(* What a core holds.                                                        *)

\* Where a process is while the number it works on is not, or is, registered.
Between ==
    {"open_send", "open_send_locked", "open_recv", "open_recv_locked",
     "register", "close_send", "close_send_locked", "undo_send",
     "undo_send_locked", "close_recv", "close_recv_locked", "drop"}
Calling == {"set_data", "set_buffer", "send", "send_locked", "ring"}

\* Where the process has its send, or its receive, segment open.
SendKept ==
    {"open_recv", "open_recv_locked", "register", "close_send",
     "close_send_locked", "undo_send", "undo_send_locked"}
RecvKept ==
    {"register", "close_send", "close_send_locked", "close_recv",
     "close_recv_locked"}

\* The numbers whose send, or receive, segment the core has open, and those
\* whose lock it has taken: the registered ones and perhaps one in progress.
Doing(c, ops) == {n \in Number : pc[c].n = n /\ pc[c].op \in ops}
Sends(c) == Registered(c) \cup Doing(c, SendKept)
Recvs(c) == Registered(c) \cup Doing(c, RecvKept)
Locks(c) == Registered(c) \cup Doing(c, Between)

\* A number is registered at most once, and the one in progress is exactly where
\* the code that runs needs it so.
Entries(c) ==
    /\ pc[c].op \in Between => pc[c].n \notin Registered(c)
    /\ pc[c].op \in Calling => pc[c].n \in Registered(c)
    /\ \A i, j \in DOMAIN calls[c] : calls[c][i] = calls[c][j] => i = j

KeeperOf(c) ==
    /\ keeper[c] = Reserved \cup {LockNumber(n) : n \in Locks(c)}
    /\ \A n \in Locks(c) : LockNumber(n) \notin Reserved

\* What is held is open and has the channel's name.
Holding(c) ==
    /\ \A n \in Sends(c) : /\ chan[c][n].send \in Handle
                           /\ c \in open[chan[c][n].send]
                           /\ name[chan[c][n].send] = SendName(c, n)
    /\ \A n \in Recvs(c) : /\ chan[c][n].recv \in Handle
                           /\ c \in open[chan[c][n].recv]
                           /\ name[chan[c][n].recv] = RecvName(c, n)

\* Every open bit is held.
Accounted(c) ==
    \A h \in Handle : c \in open[h] =>
        \/ \E n \in Sends(c) : chan[c][n].send = h
        \/ \E n \in Recvs(c) : chan[c][n].recv = h

\* A segment has a name while some core has it open, and no two have the same.
Named ==
    /\ \A h \in Handle : name[h] = Nil <=> open[h] = {}
    /\ \A g, h \in Handle : name[g] = name[h] /\ name[g] # Nil => g = h

HoldInv ==
    /\ Named
    /\ \A c \in Core : Entries(c) /\ KeeperOf(c) /\ Holding(c) /\ Accounted(c)

(* What is registered are numbers. *)
LEMMA NumbersOnly ==
    ASSUME NEW c \in Core, calls[c] \in Seq(Number)
    PROVE  Registered(c) \subseteq Number
<1>1. \A i \in DOMAIN calls[c] : calls[c][i] \in Number
  OBVIOUS
<1> QED  BY <1>1 DEF Registered, Range

(* mpi_shm_open gives c an open bit and takes nobody's name. *)
LEMMA OpenKeeps ==
    ASSUME TypeInv, Named, NEW c \in Core, NEW h \in Handle, NEW nm \in SegmentName,
           Opened(c, nm, h)
    PROVE  /\ Named'
           /\ name'[h] = nm
           /\ \A g \in Handle : \A d \in Core :
                  /\ d \in open'[g] <=> d \in open[g] \/ (d = c /\ g = h)
                  /\ d \in open[g] => name'[g] = name[g]
<1>1. nm # Nil
  BY ChannelAssumption DEF SegmentName
<1>2. /\ name \in [Handle -> SegmentName \cup {Nil}]
      /\ open \in [Handle -> SUBSET Core]
  BY DEF TypeInv, TypeOK
<1>3. /\ \A g \in Handle : name'[g] = IF g = h THEN nm ELSE name[g]
      /\ \A g \in Handle : open'[g] = IF g = h THEN open[g] \cup {c} ELSE open[g]
  BY <1>2 DEF Opened
<1>4. \/ name[h] = nm
      \/ open[h] = {} /\ name[h] = Nil /\ \A g \in Handle : name[g] # nm
  BY DEF Opened, Found, Unused, Named
<1>5. \A g \in Handle : \A d \in Core :
          /\ d \in open'[g] <=> d \in open[g] \/ (d = c /\ g = h)
          /\ d \in open[g] => name'[g] = name[g]
  BY <1>3, <1>4
<1>6. \A g \in Handle : name'[g] = Nil <=> open'[g] = {}
  BY <1>1, <1>3 DEF Named
<1>7. \A f, g \in Handle : name'[f] = name'[g] /\ name'[f] # Nil => f = g
  BY <1>3, <1>4 DEF Named
<1> QED  BY <1>3, <1>5, <1>6, <1>7 DEF Named

(* mpi_shm_close takes c's open bit, and the name when it was the last. *)
LEMMA CloseKeeps ==
    ASSUME TypeInv, Named, NEW c \in Core, NEW h \in Handle, Closed(c, h)
    PROVE  /\ Named'
           /\ \A g \in Handle : \A d \in Core :
                  /\ d \in open'[g] <=> d \in open[g] /\ ~(d = c /\ g = h)
                  /\ d \in open'[g] => name'[g] = name[g]
<1>1. /\ name \in [Handle -> SegmentName \cup {Nil}]
      /\ open \in [Handle -> SUBSET Core]
  BY DEF TypeInv, TypeOK
<1>2. \A g \in Handle :
          /\ name'[g] = IF g = h /\ open[h] = {c} THEN Nil ELSE name[g]
          /\ open'[g] = IF g = h THEN open[g] \ {c} ELSE open[g]
  BY <1>1 DEF Closed
<1>3. \A g \in Handle : \A d \in Core :
          /\ d \in open'[g] <=> d \in open[g] /\ ~(d = c /\ g = h)
          /\ d \in open'[g] => name'[g] = name[g]
  BY <1>2
<1>4. \A g \in Handle : name'[g] = Nil <=> open'[g] = {}
  <2>1. open[h] \ {c} = {} <=> open[h] = {} \/ open[h] = {c}
    OBVIOUS
  <2>2. \A g \in Handle : name[g] = Nil <=> open[g] = {}
    BY DEF Named
  <2> QED  BY <1>2, <2>1, <2>2
<1>5. \A f, g \in Handle : name'[f] = name'[g] /\ name'[f] # Nil => f = g
  BY <1>2 DEF Named
<1> QED  BY <1>3, <1>4, <1>5 DEF Named

(* What a core holds stays held when the others' steps leave it alone. *)
LEMMA HeldStays ==
    ASSUME NEW c \in Core, Holding(c), Accounted(c),
           Sends(c)' = Sends(c), Recvs(c)' = Recvs(c),
           \A n \in Sends(c) : chan'[c][n].send = chan[c][n].send,
           \A n \in Recvs(c) : chan'[c][n].recv = chan[c][n].recv,
           \A h \in Handle : /\ c \in open'[h] <=> c \in open[h]
                             /\ c \in open[h] => name'[h] = name[h]
    PROVE  Holding(c)' /\ Accounted(c)'
<1>1. Holding(c)'
  BY DEF Holding, SendName, RecvName
<1>2. Accounted(c)'
  BY DEF Accounted
<1> QED  BY <1>1, <1>2

(* In particular, the other core's step leaves it alone. *)
LEMMA OtherStays ==
    ASSUME NEW c \in Core, NEW d \in Core, d # c, HoldInv,
           pc'[d] = pc[d], calls'[d] = calls[d], keeper'[d] = keeper[d],
           \A n \in Number : chan'[d][n] = chan[d][n],
           calls[d] \in Seq(Number),
           \A h \in Handle : /\ d \in open'[h] <=> d \in open[h]
                             /\ d \in open[h] => name'[h] = name[h]
    PROVE  Entries(d)' /\ KeeperOf(d)' /\ Holding(d)' /\ Accounted(d)'
<1>1. /\ Registered(d)' = Registered(d) /\ Sends(d)' = Sends(d)
      /\ Recvs(d)' = Recvs(d) /\ Locks(d)' = Locks(d)
  BY DEF Registered, Sends, Recvs, Locks, Doing
<1>2. Sends(d) \subseteq Number /\ Recvs(d) \subseteq Number
  BY NumbersOnly DEF Sends, Recvs, Doing
<1>3. Entries(d)'
  BY <1>1 DEF HoldInv, Entries
<1>4. KeeperOf(d)'
  BY <1>1 DEF HoldInv, KeeperOf, LockNumber
<1>5. Holding(d) /\ Accounted(d)
  BY DEF HoldInv
<1>6. Holding(d)' /\ Accounted(d)'
  BY <1>1, <1>2, <1>5, HeldStays
<1> QED  BY <1>3, <1>4, <1>6

\* The step is one of c: what the other core is at and holds stays.
Leaves(c) ==
    \A d \in Core : d # c =>
        /\ pc'[d] = pc[d] /\ calls'[d] = calls[d] /\ keeper'[d] = keeper[d]
        /\ \A n \in Number : chan'[d][n] = chan[d][n]
        /\ \A h \in Handle : /\ d \in open'[h] <=> d \in open[h]
                             /\ d \in open[h] => name'[h] = name[h]

(* A step of c keeps HoldInv when it keeps c's part of it. *)
LEMMA HoldFrom ==
    ASSUME TypeInv, HoldInv, NEW c \in Core, Leaves(c), Named', Entries(c)',
           KeeperOf(c)', Holding(c)', Accounted(c)'
    PROVE  HoldInv'
<1>1. ASSUME NEW d \in Core, d # c
      PROVE  Entries(d)' /\ KeeperOf(d)' /\ Holding(d)' /\ Accounted(d)'
  <2>1. calls[d] \in Seq(Number)
    BY DEF TypeInv, TypeOK
  <2>2. /\ pc'[d] = pc[d] /\ calls'[d] = calls[d] /\ keeper'[d] = keeper[d]
        /\ \A n \in Number : chan'[d][n] = chan[d][n]
        /\ \A h \in Handle : /\ d \in open'[h] <=> d \in open[h]
                             /\ d \in open[h] => name'[h] = name[h]
    BY <1>1 DEF Leaves
  <2> QED  BY <1>1, <2>1, <2>2, OtherStays
<1>2. \A d \in Core : Entries(d)' /\ KeeperOf(d)' /\ Holding(d)' /\ Accounted(d)'
  BY <1>1
<1> QED  BY <1>2 DEF HoldInv

(* A step that opens and closes nothing keeps HoldInv when it keeps what is  *)
(* open accounted for. *)
LEMMA HoldQuiet ==
    ASSUME TypeInv, HoldInv, NEW c \in Core,
           UNCHANGED <<name, open>>,
           \A d \in Core : d # c =>
               /\ pc'[d] = pc[d] /\ calls'[d] = calls[d] /\ keeper'[d] = keeper[d]
               /\ \A n \in Number : chan'[d][n] = chan[d][n],
           Entries(c)', KeeperOf(c)', Sends(c)' = Sends(c), Recvs(c)' = Recvs(c),
           \A n \in Sends(c) : chan'[c][n].send = chan[c][n].send,
           \A n \in Recvs(c) : chan'[c][n].recv = chan[c][n].recv
    PROVE  HoldInv'
<1>1. Named' /\ Leaves(c)
  BY DEF Named, Leaves, HoldInv
<1>2. Holding(c) /\ Accounted(c)
  BY DEF HoldInv
<1>3. Holding(c)' /\ Accounted(c)'
  BY <1>2, HeldStays
<1> QED  BY <1>1, <1>3, HoldFrom

(* The number in progress, before and after a step. *)
LEMMA DoingIs ==
    ASSUME NEW c \in Core, NEW ops
    PROVE  /\ pc[c].op \in ops /\ pc[c].n \in Number => Doing(c, ops) = {pc[c].n}
           /\ pc[c].op \notin ops => Doing(c, ops) = {}
           /\ pc'[c].op \in ops /\ pc'[c].n \in Number => Doing(c, ops)' = {pc'[c].n}
           /\ pc'[c].op \notin ops => Doing(c, ops)' = {}
BY DEF Doing

\* The lists of operations that say what a process has done so far.
Stages == {SendKept, RecvKept, Between, Calling}

(* A call that goes on, neither opening nor closing nor registering. *)
LEMMA HoldGoes ==
    ASSUME TypeInv, HoldInv, NEW c \in Core, NEW op \in Operations \ {"idle"},
           Goto(c, op), pc[c].op # "idle", UNCHANGED <<channelVars, name, open>>,
           \A ops \in Stages : op \in ops <=> pc[c].op \in ops
    PROVE  HoldInv'
<1>1. PcBecomes(c, [op |-> op, n |-> pc[c].n])
  BY Goes
<1>2. /\ pc'[c].op = op /\ pc'[c].n = pc[c].n
      /\ \A d \in Core : d # c => pc'[d] = pc[d]
  BY <1>1 DEF PcBecomes
<1>3. /\ op \in SendKept <=> pc[c].op \in SendKept
      /\ op \in RecvKept <=> pc[c].op \in RecvKept
      /\ op \in Between <=> pc[c].op \in Between
      /\ op \in Calling <=> pc[c].op \in Calling
  BY DEF Stages
<1>4. UNCHANGED <<keeper, chan, calls, name, open>>
  BY DEF channelVars
<1>5. Registered(c)' = Registered(c)
  BY <1>4 DEF Registered
<1>6. Sends(c)' = Sends(c) /\ Recvs(c)' = Recvs(c) /\ Locks(c)' = Locks(c)
  BY <1>2, <1>3, <1>5 DEF Sends, Recvs, Locks, Doing
<1>7. Entries(c) /\ KeeperOf(c)
  BY DEF HoldInv
<1>8. Entries(c)'
  BY <1>2, <1>3, <1>4, <1>5, <1>7 DEF Entries
<1>9. KeeperOf(c)'
  BY <1>4, <1>6, <1>7 DEF KeeperOf, LockNumber
<1> QED  BY <1>2, <1>4, <1>6, <1>8, <1>9, HoldQuiet

(* Waiting for s_mod_lock changes nothing that is held. *)
LEMMA HoldLock ==
    ASSUME TypeInv, HoldInv, NEW c \in Core, NEW from \in Spinning,
           Lock(c, from, Entering(from))
    PROVE  HoldInv'
<1>1. /\ pc[c].op = from /\ from # "idle" /\ Goto(c, Entering(from))
      /\ Entering(from) \in Operations \ {"idle"}
      /\ UNCHANGED <<channelVars, name, open>>
  BY DEF Lock, At, Spinning, Entering, Operations, segmentVars
<1>2. \A ops \in Stages : Entering(from) \in ops <=> from \in ops
  BY DEF Stages, SendKept, RecvKept, Between, Calling, Spinning, Entering
<1> QED  BY <1>1, <1>2, HoldGoes

(* Nor do the failure of an open, and sending. *)
LEMMA HoldSame ==
    ASSUME TypeInv, HoldInv, NEW c \in Core,
           \/ OpenSend(c) /\ UNCHANGED <<chan, segmentVars>> /\ Goto(c, "drop")
           \/ OpenRecv(c) /\ UNCHANGED <<chan, segmentVars>> /\ Goto(c, OnNoRecv)
           \/ SendBody(c)
    PROVE  HoldInv'
<1>1. PICK op \in {"drop", "undo_send", "ring"} :
          /\ Goto(c, op)
          /\ <<pc[c].op, op>> \in {<<"open_send_locked", "drop">>,
                 <<"open_recv_locked", "undo_send">>, <<"send_locked", "ring">>}
  BY DEF OpenSend, OpenRecv, SendBody, At, OnNoRecv
<1>2. UNCHANGED <<channelVars, name, open>>
  BY DEF OpenSend, OpenRecv, SendBody, channelVars, segmentVars
<1>3. \A ops \in Stages : op \in ops <=> pc[c].op \in ops
  BY <1>1 DEF Stages, SendKept, RecvKept, Between, Calling
<1>4. op \in Operations \ {"idle"} /\ pc[c].op # "idle"
  BY <1>1 DEF Operations
<1> QED  BY <1>1, <1>2, <1>3, <1>4, HoldGoes

(* Lock numbers of different channels differ. *)
LEMMA LockNumbers ==
    \A m, n \in Number : LockNumber(m) = LockNumber(n) => m = n
BY ChannelAssumption DEF LockNumber

(* mpi_create_channel takes the lock number of a channel that is not there. *)
LEMMA HoldCreate ==
    ASSUME TypeInv, HoldInv, NEW c \in Core, NEW n \in Number, CreateBegin(c, n)
    PROVE  HoldInv'
<1>1. PcBecomes(c, [op |-> "open_send", n |-> n])
  BY Begins DEF CreateBegin, Operations
<1>2. /\ pc'[c].op = "open_send" /\ pc'[c].n = n /\ pc[c].op = "idle"
      /\ \A d \in Core : d # c => pc'[d] = pc[d]
  BY <1>1 DEF PcBecomes, CreateBegin, At
<1>3. UNCHANGED <<chan, calls, name, open>>
  BY DEF CreateBegin, segmentVars
<1>4. Registered(c)' = Registered(c)
  BY <1>3 DEF Registered
<1>5. /\ Sends(c)' = Sends(c) /\ Recvs(c)' = Recvs(c)
      /\ Locks(c) = Registered(c) /\ Locks(c)' = Registered(c) \cup {n}
  BY <1>2, <1>4, DoingIs DEF Sends, Recvs, Locks, SendKept, RecvKept, Between
<1>6. /\ keeper \in [Core -> SUBSET Nat]
      /\ keeper' = [keeper EXCEPT ![c] = keeper[c] \cup {LockNumber(n)}]
      /\ LockNumber(n) \notin keeper[c]
  BY DEF CreateBegin, TypeInv, TypeOK
<1>7. Entries(c) /\ KeeperOf(c)
  BY DEF HoldInv
<1>8. n \notin Registered(c) /\ LockNumber(n) \notin Reserved
  BY <1>5, <1>6, <1>7 DEF KeeperOf
<1>9. Entries(c)'
  BY <1>2, <1>3, <1>4, <1>7, <1>8 DEF Entries, Calling
<1>10. KeeperOf(c)'
  <2>1. keeper'[c] = keeper[c] \cup {LockNumber(n)}
    BY <1>6
  <2>2. keeper'[c] = Reserved \cup {LockNumber(m) : m \in Locks(c)'}
    BY <1>5, <1>7, <2>1 DEF KeeperOf
  <2>3. \A m \in Locks(c)' : LockNumber(m) \notin Reserved
    BY <1>5, <1>7, <1>8 DEF KeeperOf
  <2> QED  BY <2>2, <2>3 DEF KeeperOf, LockNumber
<1>11. \A d \in Core : d # c => keeper'[d] = keeper[d]
  BY <1>6
<1> QED  BY <1>2, <1>3, <1>5, <1>9, <1>10, <1>11, HoldQuiet

(* Registering and unregistering hand a number over between the list and the *)
(* process. *)
LEMMA HoldHandOver ==
    ASSUME TypeInv, HoldInv, NEW c \in Core,
           Register(c) \/ \E n \in Number : DestroyBegin(c, n)
    PROVE  HoldInv'
<1>0. /\ calls \in [Core -> Seq(Number)] /\ Entries(c) /\ KeeperOf(c)
  BY DEF TypeInv, TypeOK, HoldInv
<1>1. UNCHANGED <<keeper, chan, name, open>>
  BY DEF Register, DestroyBegin, segmentVars
<1>2. CASE Register(c)
  <2>1. pc[c].op = "register" /\ pc[c].n \in Number
    BY <1>2, Busy DEF Register, At
  <2>2. PICK n \in Number : pc[c].n = n
    BY <2>1
  <2>3. PcBecomes(c, [op |-> "set_data", n |-> n])
    BY <1>2, <2>1, <2>2, Goes DEF Register, Operations
  <2>4. /\ pc'[c].op = "set_data" /\ pc'[c].n = n
        /\ \A d \in Core : d # c => pc'[d] = pc[d]
    BY <2>3 DEF PcBecomes
  <2>5. n \notin Registered(c)
    BY <1>0, <2>1, <2>2 DEF Entries, Between
  <2>6. calls' = [calls EXCEPT ![c] = Append(calls[c], n)]
    BY <1>2, <2>2 DEF Register
  <2>7. /\ calls'[c] = Append(calls[c], n)
        /\ \A d \in Core : d # c => calls'[d] = calls[d]
    BY <1>0, <2>6
  <2>8. /\ Registered(c)' = Registered(c) \cup {n}
        /\ \A i, j \in DOMAIN calls'[c] : calls'[c][i] = calls'[c][j] => i = j
    BY <1>0, <2>5, <2>7, Registers DEF Registered, Entries
  <2>9. /\ Sends(c)' = Sends(c) /\ Recvs(c)' = Recvs(c) /\ Locks(c)' = Locks(c)
    BY <2>1, <2>2, <2>4, <2>8, DoingIs
       DEF Sends, Recvs, Locks, SendKept, RecvKept, Between
  <2>10. Entries(c)'
    BY <2>4, <2>8 DEF Entries, Between
  <2>11. KeeperOf(c)'
    BY <1>0, <1>1, <2>9 DEF KeeperOf, LockNumber
  <2> QED  BY <1>1, <2>4, <2>7, <2>9, <2>10, <2>11, HoldQuiet
<1>3. ASSUME NEW n \in Number, DestroyBegin(c, n)
      PROVE  HoldInv'
  <2>1. PcBecomes(c, [op |-> "close_send", n |-> n])
    BY <1>3, Begins DEF DestroyBegin, Operations
  <2>2. /\ pc'[c].op = "close_send" /\ pc'[c].n = n /\ pc[c].op = "idle"
        /\ \A d \in Core : d # c => pc'[d] = pc[d]
    BY <1>3, <2>1 DEF PcBecomes, DestroyBegin, At
  <2>3. n \in Registered(c) /\ calls' = [calls EXCEPT ![c] = Unlinked(calls[c], n)]
    BY <1>3 DEF DestroyBegin, Registered
  <2>4. /\ calls'[c] = Unlinked(calls[c], n)
        /\ \A d \in Core : d # c => calls'[d] = calls[d]
    BY <1>0, <2>3
  <2>5. /\ Registered(c)' = Registered(c) \ {n}
        /\ \A i, j \in DOMAIN calls'[c] : calls'[c][i] = calls'[c][j] => i = j
    BY <1>0, <2>3, <2>4, Unregisters DEF Registered, Entries
  <2>6. /\ Sends(c)' = Sends(c) /\ Recvs(c)' = Recvs(c) /\ Locks(c)' = Locks(c)
    BY <2>2, <2>3, <2>5, DoingIs
       DEF Sends, Recvs, Locks, SendKept, RecvKept, Between
  <2>7. Entries(c)'
    BY <2>2, <2>5 DEF Entries, Calling
  <2>8. KeeperOf(c)'
    BY <1>0, <1>1, <2>6 DEF KeeperOf, LockNumber
  <2> QED  BY <1>1, <2>2, <2>4, <2>6, <2>7, <2>8, HoldQuiet
<1> QED  BY <1>2, <1>3

(* The calls on a registered channel, and what follows its registration. *)
LEMMA HoldCalling ==
    ASSUME TypeInv, HoldInv, NEW c \in Core,
           SetData(c) \/ SetBuffer(c) \/ Ring(c) \/ \E n \in Number : SendBegin(c, n)
    PROVE  HoldInv'
<1>0. chan \in Channels /\ Entries(c) /\ KeeperOf(c)
  BY DEF TypeInv, TypeOK, HoldInv, Channels, ChannelType
<1>1. UNCHANGED <<keeper, calls, name, open>>
  BY DEF SetData, SetBuffer, Ring, SendBegin, segmentVars, channelVars
<1>2. PICK x : /\ PcBecomes(c, x)
               /\ x.op \notin Between
               /\ x.op \in Calling => x.n \in Registered(c)
  <2>1. CASE SetBuffer(c) \/ Ring(c)
    BY <2>1, Finishes DEF SetBuffer, Ring, Idle, Between, Calling
  <2>4. ASSUME SetData(c)
        PROVE  \E x : /\ PcBecomes(c, x)
                      /\ x.op \notin Between
                      /\ x.op \in Calling => x.n \in Registered(c)
    <3> DEFINE x == [op |-> "set_buffer", n |-> pc[c].n]
    <3>1. PcBecomes(c, x)
      BY <2>4, Goes DEF SetData, At, Operations
    <3>2. pc[c].n \in Registered(c)
      BY <1>0, <2>4 DEF SetData, At, Entries, Calling
    <3>3. x.op \notin Between /\ x.n \in Registered(c)
      BY <3>2 DEF Between
    <3> QED  BY <3>1, <3>3
  <2>2. ASSUME NEW n \in Number, SendBegin(c, n)
        PROVE  /\ PcBecomes(c, [op |-> "send", n |-> n])
               /\ n \in Registered(c)
    BY <2>2, Begins DEF SendBegin, Operations, Registered
  <2>3. ASSUME NEW n \in Number, SendBegin(c, n)
        PROVE  \E x : /\ PcBecomes(c, x)
                      /\ x.op \notin Between
                      /\ x.op \in Calling => x.n \in Registered(c)
    <3>1. /\ [op |-> "send", n |-> n].op \notin Between
          /\ [op |-> "send", n |-> n].n = n
      BY DEF Between
    <3> QED  BY <2>2, <2>3, <3>1
  <2> QED  BY <2>1, <2>3, <2>4
<1>3. /\ pc'[c].op \notin Between /\ pc[c].op \notin Between
      /\ pc'[c].op \in Calling => pc'[c].n \in Registered(c)
      /\ \A d \in Core : d # c => pc'[d] = pc[d]
  BY <1>2 DEF PcBecomes, SetData, SetBuffer, Ring, SendBegin, At, Between
<1>4. SendKept \subseteq Between /\ RecvKept \subseteq Between
  BY DEF SendKept, RecvKept, Between
<1>5. Registered(c)' = Registered(c)
  BY <1>1 DEF Registered
<1>6. /\ Sends(c)' = Sends(c) /\ Recvs(c)' = Recvs(c) /\ Locks(c)' = Locks(c)
  <2>1. \A ops \in {SendKept, RecvKept, Between} :
            pc[c].op \notin ops /\ pc'[c].op \notin ops
    BY <1>3, <1>4
  <2>2. \A ops \in {SendKept, RecvKept, Between} :
            Doing(c, ops) = {} /\ Doing(c, ops)' = {}
    BY <2>1, DoingIs
  <2> QED  BY <1>5, <2>2 DEF Sends, Recvs, Locks
<1>7. \A d \in Core : \A n \in Number :
          /\ chan'[d][n].send = chan[d][n].send /\ chan'[d][n].recv = chan[d][n].recv
          /\ d # c => chan'[d][n] = chan[d][n]
  <2>1. CASE UNCHANGED chan
    BY <2>1
  <2>2. CASE SetData(c) \/ SetBuffer(c)
    <3>1. pc[c].n \in Number
      BY <2>2, Busy DEF SetData, SetBuffer, At
    <3>2. PICK m \in Number : pc[c].n = m
      BY <3>1
    <3>3. \/ chan' = [chan EXCEPT ![c][m].data = TRUE]
          \/ chan' = [chan EXCEPT ![c][m].buffer = TRUE]
      BY <2>2, <3>2 DEF SetData, SetBuffer
    <3>4. Nil \in Handle \cup {Nil}
      OBVIOUS
    <3>5. \/ ChanBecomes(c, m, [chan[c][m] EXCEPT !.data = TRUE])
          \/ ChanBecomes(c, m, [chan[c][m] EXCEPT !.buffer = TRUE])
      BY <1>0, <3>3, <3>4, ChanMoves
    <3>6. /\ [chan[c][m] EXCEPT !.data = TRUE].send = chan[c][m].send
          /\ [chan[c][m] EXCEPT !.data = TRUE].recv = chan[c][m].recv
          /\ [chan[c][m] EXCEPT !.buffer = TRUE].send = chan[c][m].send
          /\ [chan[c][m] EXCEPT !.buffer = TRUE].recv = chan[c][m].recv
      BY <1>0, <3>4, ChanFields
    <3>7. chan'[c][m].send = chan[c][m].send /\ chan'[c][m].recv = chan[c][m].recv
      BY <3>5, <3>6 DEF ChanBecomes
    <3> QED  BY <3>5, <3>7 DEF ChanBecomes
  <2> QED  BY <2>1, <2>2 DEF Ring, SendBegin, channelVars
<1>8. Entries(c)'
  BY <1>0, <1>1, <1>3, <1>5 DEF Entries
<1>9. KeeperOf(c)'
  BY <1>0, <1>1, <1>6 DEF KeeperOf, LockNumber
<1>10. Sends(c) \subseteq Number /\ Recvs(c) \subseteq Number
  BY NumbersOnly DEF Sends, Recvs, Doing, TypeInv, TypeOK
<1> QED  BY <1>1, <1>3, <1>6, <1>7, <1>8, <1>9, <1>10, HoldQuiet

(* mpi_create_channel opens its two segments one after the other. *)
LEMMA HoldOpens ==
    ASSUME TypeInv, HoldInv, NEW c \in Core, NEW h \in Handle, NEW n \in Number,
           pc[c].n = n,
           \/ /\ OpenSend(c) /\ Opened(c, SendName(c, n), h) /\ Goto(c, "open_recv")
              /\ chan' = [chan EXCEPT ![c][n].send = h]
           \/ /\ OpenRecv(c) /\ Opened(c, RecvName(c, n), h) /\ Goto(c, "register")
              /\ chan' = [chan EXCEPT ![c][n].recv = h]
    PROVE  HoldInv'
<1>0. /\ chan \in Channels /\ Named /\ Entries(c) /\ KeeperOf(c)
      /\ Holding(c) /\ Accounted(c)
      /\ Registered(c) \subseteq Number
  BY NumbersOnly DEF TypeInv, TypeOK, HoldInv, Channels, ChannelType
<1>1. UNCHANGED <<keeper, calls>> /\ Registered(c)' = Registered(c)
  BY DEF OpenSend, OpenRecv, Registered
<1>2. SendName(c, n) \in SegmentName /\ RecvName(c, n) \in SegmentName
  BY Peers DEF SendName, RecvName, SegmentName
<1>3. /\ Named'
      /\ \A g \in Handle : \A d \in Core :
             /\ d \in open'[g] <=> d \in open[g] \/ (d = c /\ g = h)
             /\ d \in open[g] => name'[g] = name[g]
  BY <1>0, <1>2, OpenKeeps
<1>4. CASE /\ OpenSend(c) /\ Opened(c, SendName(c, n), h) /\ Goto(c, "open_recv")
           /\ chan' = [chan EXCEPT ![c][n].send = h]
  <2>1. pc[c].op = "open_send_locked"
    BY <1>4 DEF OpenSend, At
  <2>2. PcBecomes(c, [op |-> "open_recv", n |-> n])
    BY <1>4, <2>1, Goes DEF Operations
  <2>3. /\ pc'[c].op = "open_recv" /\ pc'[c].n = n
        /\ \A d \in Core : d # c => pc'[d] = pc[d]
    BY <2>2 DEF PcBecomes
  <2>4. ChanBecomes(c, n, [chan[c][n] EXCEPT !.send = h])
    <3>1. h \in Handle \cup {Nil}
      OBVIOUS
    <3> QED  BY <1>0, <1>4, <3>1, ChanMoves
  <2>5. /\ chan'[c][n].send = h
        /\ \A m \in Number : chan'[c][m].recv = chan[c][m].recv
        /\ \A m \in Number : m # n => chan'[c][m].send = chan[c][m].send
        /\ \A d \in Core : d # c => \A m \in Number : chan'[d][m] = chan[d][m]
    <3>1. h \in Handle \cup {Nil}
      OBVIOUS
    <3>2. /\ [chan[c][n] EXCEPT !.send = h].send = h
          /\ [chan[c][n] EXCEPT !.send = h].recv = chan[c][n].recv
      BY <1>0, <3>1, ChanFields
    <3> QED  BY <2>4, <3>2 DEF ChanBecomes
  <2>6. /\ n \notin Registered(c)
        /\ Sends(c) = Registered(c) /\ Sends(c)' = Registered(c) \cup {n}
        /\ Recvs(c) = Registered(c) /\ Recvs(c)' = Registered(c)
        /\ Locks(c)' = Locks(c)
    BY <1>0, <1>1, <2>1, <2>3, DoingIs
       DEF Entries, Sends, Recvs, Locks, SendKept, RecvKept, Between
  <2>7. name'[h] = SendName(c, n)
    BY <1>0, <1>2, <1>4, OpenKeeps
  <2>8. Holding(c)'
    <3>1. \A m \in Sends(c)' :
              /\ chan'[c][m].send \in Handle
              /\ c \in open'[chan'[c][m].send]
              /\ name'[chan'[c][m].send] = SendName(c, m)
      BY <1>0, <1>3, <2>5, <2>6, <2>7 DEF Holding
    <3>2. \A m \in Recvs(c)' :
              /\ chan'[c][m].recv \in Handle
              /\ c \in open'[chan'[c][m].recv]
              /\ name'[chan'[c][m].recv] = RecvName(c, m)
      BY <1>0, <1>3, <2>5, <2>6 DEF Holding
    <3> QED  BY <3>1, <3>2 DEF Holding, SendName, RecvName
  <2>9. Accounted(c)'
    <3> SUFFICES ASSUME NEW g \in Handle, c \in open'[g]
                 PROVE  \/ \E m \in Sends(c)' : chan'[c][m].send = g
                        \/ \E m \in Recvs(c)' : chan'[c][m].recv = g
      BY DEF Accounted
    <3>1. CASE g = h
      BY <2>5, <2>6, <3>1
    <3>2. CASE c \in open[g]
      BY <1>0, <2>5, <2>6, <3>2 DEF Accounted
    <3> QED  BY <1>3, <3>1, <3>2
  <2>10. Entries(c)'
    BY <1>0, <1>1, <2>3, <2>6 DEF Entries, Calling
  <2>11. KeeperOf(c)'
    BY <1>0, <1>1, <2>6 DEF KeeperOf, LockNumber
  <2>12. Leaves(c)
    BY <1>1, <1>3, <2>3, <2>5 DEF Leaves
  <2> QED  BY <1>3, <2>8, <2>9, <2>10, <2>11, <2>12, HoldFrom
<1>5. CASE /\ OpenRecv(c) /\ Opened(c, RecvName(c, n), h) /\ Goto(c, "register")
           /\ chan' = [chan EXCEPT ![c][n].recv = h]
  <2>1. pc[c].op = "open_recv_locked"
    BY <1>5 DEF OpenRecv, At
  <2>2. PcBecomes(c, [op |-> "register", n |-> n])
    BY <1>5, <2>1, Goes DEF Operations
  <2>3. /\ pc'[c].op = "register" /\ pc'[c].n = n
        /\ \A d \in Core : d # c => pc'[d] = pc[d]
    BY <2>2 DEF PcBecomes
  <2>4. ChanBecomes(c, n, [chan[c][n] EXCEPT !.recv = h])
    <3>1. h \in Handle \cup {Nil}
      OBVIOUS
    <3> QED  BY <1>0, <1>5, <3>1, ChanMoves
  <2>5. /\ chan'[c][n].recv = h
        /\ \A m \in Number : chan'[c][m].send = chan[c][m].send
        /\ \A m \in Number : m # n => chan'[c][m].recv = chan[c][m].recv
        /\ \A d \in Core : d # c => \A m \in Number : chan'[d][m] = chan[d][m]
    <3>1. h \in Handle \cup {Nil}
      OBVIOUS
    <3>2. /\ [chan[c][n] EXCEPT !.recv = h].recv = h
          /\ [chan[c][n] EXCEPT !.recv = h].send = chan[c][n].send
      BY <1>0, <3>1, ChanFields
    <3> QED  BY <2>4, <3>2 DEF ChanBecomes
  <2>6. /\ n \notin Registered(c)
        /\ Sends(c) = Registered(c) \cup {n} /\ Sends(c)' = Registered(c) \cup {n}
        /\ Recvs(c) = Registered(c) /\ Recvs(c)' = Registered(c) \cup {n}
        /\ Locks(c)' = Locks(c)
    BY <1>0, <1>1, <2>1, <2>3, DoingIs
       DEF Entries, Sends, Recvs, Locks, SendKept, RecvKept, Between
  <2>7. name'[h] = RecvName(c, n)
    BY <1>0, <1>2, <1>5, OpenKeeps
  <2>8. Holding(c)'
    <3>1. \A m \in Sends(c)' :
              /\ chan'[c][m].send \in Handle
              /\ c \in open'[chan'[c][m].send]
              /\ name'[chan'[c][m].send] = SendName(c, m)
      BY <1>0, <1>3, <2>5, <2>6 DEF Holding
    <3>2. \A m \in Recvs(c)' :
              /\ chan'[c][m].recv \in Handle
              /\ c \in open'[chan'[c][m].recv]
              /\ name'[chan'[c][m].recv] = RecvName(c, m)
      BY <1>0, <1>3, <2>5, <2>6, <2>7 DEF Holding
    <3> QED  BY <3>1, <3>2 DEF Holding, SendName, RecvName
  <2>9. Accounted(c)'
    <3> SUFFICES ASSUME NEW g \in Handle, c \in open'[g]
                 PROVE  \/ \E m \in Sends(c)' : chan'[c][m].send = g
                        \/ \E m \in Recvs(c)' : chan'[c][m].recv = g
      BY DEF Accounted
    <3>1. CASE g = h
      BY <2>5, <2>6, <3>1
    <3>2. CASE c \in open[g]
      BY <1>0, <2>5, <2>6, <3>2 DEF Accounted
    <3> QED  BY <1>3, <3>1, <3>2
  <2>10. Entries(c)'
    BY <1>0, <1>1, <2>3, <2>6 DEF Entries, Calling
  <2>11. KeeperOf(c)'
    BY <1>0, <1>1, <2>6 DEF KeeperOf, LockNumber
  <2>12. Leaves(c)
    BY <1>1, <1>3, <2>3, <2>5 DEF Leaves
  <2> QED  BY <1>3, <2>8, <2>9, <2>10, <2>11, <2>12, HoldFrom
<1> QED  BY <1>4, <1>5

(* Both ways to close the send segment, and the close of the other one. *)
LEMMA HoldCloses ==
    ASSUME TypeInv, HoldInv, NEW c \in Core, CloseSend(c) \/ CloseRecv(c)
    PROVE  HoldInv'
<1>0. /\ Named /\ Entries(c) /\ KeeperOf(c) /\ Holding(c) /\ Accounted(c)
      /\ Registered(c) \subseteq Number
  BY NumbersOnly DEF TypeInv, TypeOK, HoldInv
<1>1. UNCHANGED <<keeper, chan, calls>> /\ Registered(c)' = Registered(c)
  BY DEF CloseSend, CloseRecv, channelVars, Registered
<1>2. PICK op \in {"close_recv", "drop"} :
          /\ Goto(c, op)
          /\ \/ CloseSend(c) /\ op = "close_recv" /\ pc[c].op = "close_send_locked"
             \/ CloseSend(c) /\ op = "drop" /\ pc[c].op = "undo_send_locked"
             \/ CloseRecv(c) /\ op = "drop" /\ pc[c].op = "close_recv_locked"
  BY DEF CloseSend, CloseRecv, At
<1>3. PICK n \in Number : pc[c].n = n
  BY <1>2, Busy
<1>4. PcBecomes(c, [op |-> op, n |-> n])
  BY <1>2, <1>3, Goes DEF Operations
<1>5. /\ pc'[c].op = op /\ pc'[c].n = n
      /\ \A d \in Core : d # c => pc'[d] = pc[d]
  BY <1>4 DEF PcBecomes
<1>6. n \notin Registered(c) /\ Locks(c)' = Locks(c)
  BY <1>0, <1>1, <1>2, <1>3, <1>5, DoingIs DEF Entries, Locks, Between
<1>7. \/ /\ CloseSend(c) /\ n \in Sends(c) /\ Sends(c)' = Sends(c) \ {n}
         /\ Recvs(c)' = Recvs(c)
      \/ /\ CloseRecv(c) /\ n \in Recvs(c) /\ Recvs(c)' = Recvs(c) \ {n}
         /\ Sends(c)' = Sends(c)
  BY <1>1, <1>2, <1>3, <1>5, <1>6, DoingIs DEF Sends, Recvs, SendKept, RecvKept
<1>8. PICK h \in Handle :
          /\ Closed(c, h)
          /\ \/ CloseSend(c) /\ h = chan[c][n].send /\ name[h] = SendName(c, n)
             \/ CloseRecv(c) /\ h = chan[c][n].recv /\ name[h] = RecvName(c, n)
          /\ \A m \in Sends(c)' : chan[c][m].send # h
          /\ \A m \in Recvs(c)' : chan[c][m].recv # h
          /\ \/ Sends(c)' = Sends(c) \ {n} /\ Recvs(c)' = Recvs(c) /\ h = chan[c][n].send
             \/ Recvs(c)' = Recvs(c) \ {n} /\ Sends(c)' = Sends(c) /\ h = chan[c][n].recv
  <2>1. \A m, k \in Number : /\ SendName(c, m) = SendName(c, k) <=> m = k
                             /\ RecvName(c, m) = RecvName(c, k) <=> m = k
                             /\ SendName(c, m) # RecvName(c, k)
    BY Peers DEF SendName, RecvName
  <2>2. Sends(c) \subseteq Number /\ Recvs(c) \subseteq Number
    BY <1>0 DEF Sends, Recvs, Doing
  <2>3. /\ \A m \in Sends(c) : name[chan[c][m].send] = SendName(c, m)
        /\ \A m \in Recvs(c) : name[chan[c][m].recv] = RecvName(c, m)
    BY <1>0 DEF Holding
  <2>4. CASE /\ CloseSend(c) /\ n \in Sends(c) /\ Sends(c)' = Sends(c) \ {n}
             /\ Recvs(c)' = Recvs(c)
    <3>1. /\ Closed(c, chan[c][n].send) /\ chan[c][n].send \in Handle
          /\ name[chan[c][n].send] = SendName(c, n)
      BY <1>0, <1>3, <2>4 DEF CloseSend, Holding
    <3> QED  BY <2>1, <2>2, <2>3, <2>4, <3>1
  <2>5. CASE /\ CloseRecv(c) /\ n \in Recvs(c) /\ Recvs(c)' = Recvs(c) \ {n}
             /\ Sends(c)' = Sends(c)
    <3>1. /\ Closed(c, chan[c][n].recv) /\ chan[c][n].recv \in Handle
          /\ name[chan[c][n].recv] = RecvName(c, n)
      BY <1>0, <1>3, <2>5 DEF CloseRecv, Holding
    <3> QED  BY <2>1, <2>2, <2>3, <2>5, <3>1
  <2> QED  BY <1>7, <2>4, <2>5
<1>9. /\ Named'
      /\ \A g \in Handle : \A d \in Core :
             /\ d \in open'[g] <=> d \in open[g] /\ ~(d = c /\ g = h)
             /\ d \in open'[g] => name'[g] = name[g]
  BY <1>0, <1>8, CloseKeeps
<1>10. Holding(c)'
  <2>1. Sends(c)' \subseteq Sends(c) /\ Recvs(c)' \subseteq Recvs(c)
    BY <1>8
  <2>2. \A m \in Sends(c)' :
            /\ chan'[c][m].send \in Handle
            /\ c \in open'[chan'[c][m].send]
            /\ name'[chan'[c][m].send] = SendName(c, m)
    BY <1>0, <1>1, <1>8, <1>9, <2>1 DEF Holding
  <2>3. \A m \in Recvs(c)' :
            /\ chan'[c][m].recv \in Handle
            /\ c \in open'[chan'[c][m].recv]
            /\ name'[chan'[c][m].recv] = RecvName(c, m)
    BY <1>0, <1>1, <1>8, <1>9, <2>1 DEF Holding
  <2> QED  BY <2>2, <2>3 DEF Holding, SendName, RecvName
<1>11. Accounted(c)'
  <2> SUFFICES ASSUME NEW g \in Handle, c \in open'[g]
               PROVE  \/ \E m \in Sends(c)' : chan'[c][m].send = g
                      \/ \E m \in Recvs(c)' : chan'[c][m].recv = g
    BY DEF Accounted
  <2>1. c \in open[g] /\ g # h
    BY <1>9
  <2>2. \/ \E m \in Sends(c) : chan[c][m].send = g
        \/ \E m \in Recvs(c) : chan[c][m].recv = g
    BY <1>0, <2>1 DEF Accounted
  <2> QED  BY <1>1, <1>8, <2>1, <2>2
<1>12. Entries(c)'
  BY <1>0, <1>1, <1>5, <1>6 DEF Entries, Calling
<1>13. KeeperOf(c)'
  BY <1>0, <1>1, <1>6 DEF KeeperOf, LockNumber
<1>14. Leaves(c)
  BY <1>1, <1>5, <1>9 DEF Leaves
<1> QED  BY <1>9, <1>10, <1>11, <1>12, <1>13, <1>14, HoldFrom

(* The end of a destruction, or of a creation that failed, gives back the    *)
(* lock number. *)
LEMMA HoldDrop ==
    ASSUME TypeInv, HoldInv, NEW c \in Core, Drop(c)
    PROVE  HoldInv'
<1>0. /\ chan \in Channels /\ keeper \in [Core -> SUBSET Nat]
      /\ Entries(c) /\ KeeperOf(c) /\ Registered(c) \subseteq Number
  BY NumbersOnly DEF TypeInv, TypeOK, HoldInv, Channels, ChannelType
<1>1. UNCHANGED <<calls, name, open>> /\ Registered(c)' = Registered(c)
  BY DEF Drop, segmentVars, Registered
<1>2. pc[c].op = "drop" /\ pc[c].n \in Number
  BY Busy DEF Drop, At
<1>3. PICK n \in Number : pc[c].n = n
  BY <1>2
<1>4. PcBecomes(c, Idle)
  BY Finishes DEF Drop
<1>5. pc'[c].op = "idle" /\ \A d \in Core : d # c => pc'[d] = pc[d]
  BY <1>4 DEF PcBecomes, Idle
<1>6. /\ n \notin Registered(c)
      /\ Sends(c) = Registered(c) /\ Sends(c)' = Registered(c)
      /\ Recvs(c) = Registered(c) /\ Recvs(c)' = Registered(c)
      /\ Locks(c) = Registered(c) \cup {n} /\ Locks(c)' = Registered(c)
  BY <1>0, <1>1, <1>2, <1>3, <1>5, DoingIs
     DEF Entries, Sends, Recvs, Locks, SendKept, RecvKept, Between
<1>7. ChanBecomes(c, n, NoChannel)
  <2>1. Nil \in Handle \cup {Nil} /\ chan' = [chan EXCEPT ![c][n] = NoChannel]
    BY <1>3 DEF Drop
  <2> QED  BY <1>0, <2>1, ChanMoves
<1>8. /\ \A m \in Registered(c) : chan'[c][m] = chan[c][m]
      /\ \A d \in Core : d # c => \A m \in Number : chan'[d][m] = chan[d][m]
  BY <1>0, <1>6, <1>7 DEF ChanBecomes
<1>9. keeper'[c] = keeper[c] \ {LockNumber(n)} /\ \A d \in Core : d # c => keeper'[d] = keeper[d]
  BY <1>0, <1>3 DEF Drop
<1>10. Entries(c)'
  BY <1>0, <1>1, <1>5 DEF Entries, Between, Calling
<1>11. KeeperOf(c)'
  <2>1. \A m \in Registered(c) : LockNumber(m) # LockNumber(n)
    BY <1>0, <1>6, LockNumbers
  <2>2. LockNumber(n) \notin Reserved
    BY <1>0, <1>6 DEF KeeperOf
  <2>3. keeper'[c] = Reserved \cup {LockNumber(m) : m \in Registered(c)}
    BY <1>0, <1>6, <1>9, <2>1, <2>2 DEF KeeperOf
  <2> QED  BY <1>0, <1>6, <2>3 DEF KeeperOf, LockNumber
<1> QED  BY <1>1, <1>5, <1>6, <1>8, <1>9, <1>10, <1>11, HoldQuiet

(* The handler takes and gives back nothing but the lock and the messages. *)
LEMMA HoldHandler ==
    ASSUME TypeInv, HoldInv, NEW c \in Core,
           Handler(c) \/ UNCHANGED vars
    PROVE  HoldInv'
<1>1. UNCHANGED <<keeper, chan, calls, name, open, pc>>
  BY DEF Handler, Interrupt, GetTest, GetLock, GetBody, GetFault, CallbackDone,
         CallbackFault, vars, channelVars, segmentVars
<1>2. \A d \in Core : /\ Registered(d)' = Registered(d) /\ Sends(d)' = Sends(d)
                      /\ Recvs(d)' = Recvs(d) /\ Locks(d)' = Locks(d)
  BY <1>1 DEF Registered, Sends, Recvs, Locks, Doing
<1>3. \A d \in Core : Entries(d)' /\ KeeperOf(d)' /\ Holding(d)' /\ Accounted(d)'
  <2> SUFFICES ASSUME NEW d \in Core
               PROVE  Entries(d)' /\ KeeperOf(d)' /\ Holding(d)' /\ Accounted(d)'
    OBVIOUS
  <2>1. Entries(d)'
    BY <1>1, <1>2 DEF HoldInv, Entries
  <2>2. KeeperOf(d)'
    BY <1>1, <1>2 DEF HoldInv, KeeperOf, LockNumber
  <2>3. Holding(d)' /\ Accounted(d)'
    BY <1>1, <1>2, HeldStays DEF HoldInv
  <2> QED  BY <2>1, <2>2, <2>3
<1>4. Named'
  BY <1>1 DEF HoldInv, Named
<1> QED  BY <1>3, <1>4 DEF HoldInv

(* Every step of a process. *)
LEMMA HoldProcess ==
    ASSUME TypeInv, HoldInv, NEW c \in Core, Process(c)
    PROVE  HoldInv'
<1>1. CASE OpenSend(c)
  <2>1. pc[c].n \in Number
    BY <1>1, Busy DEF OpenSend, At
  <2>2. \/ \E h \in Handle : /\ Opened(c, SendName(c, pc[c].n), h)
                             /\ Goto(c, "open_recv")
                             /\ chan' = [chan EXCEPT ![c][pc[c].n].send = h]
        \/ UNCHANGED <<chan, segmentVars>> /\ Goto(c, "drop")
    BY <1>1 DEF OpenSend, NotOpened
  <2> QED  BY <1>1, <2>1, <2>2, HoldOpens, HoldSame
<1>2. CASE OpenRecv(c)
  <2>1. pc[c].n \in Number
    BY <1>2, Busy DEF OpenRecv, At
  <2>2. \/ \E h \in Handle : /\ Opened(c, RecvName(c, pc[c].n), h)
                             /\ Goto(c, "register")
                             /\ chan' = [chan EXCEPT ![c][pc[c].n].recv = h]
        \/ UNCHANGED <<chan, segmentVars>> /\ Goto(c, OnNoRecv)
    BY <1>2 DEF OpenRecv, NotOpened
  <2> QED  BY <1>2, <2>1, <2>2, HoldOpens, HoldSame
<1> QED  BY <1>1, <1>2, Steps, HoldCreate, HoldHandOver, HoldCalling, HoldCloses,
            HoldDrop, HoldLock, HoldSame

(* The inductive invariant behind the next two theorems: the numbers that a  *)
(* core has in its list or in progress are those whose lock number it has    *)
(* taken and whose segments it has open, each under its own name. *)
THEOREM HoldInductive == Spec => [](TypeInv /\ HoldInv)
<1>1. Init => HoldInv
  <2> SUFFICES ASSUME Init PROVE HoldInv
    OBVIOUS
  <2>1. \A c \in Core : /\ pc[c].op = "idle" /\ Registered(c) = {}
                        /\ keeper[c] = Reserved
    BY DEF Init, Idle, Registered, Range
  <2>2. \A c \in Core : Sends(c) = {} /\ Recvs(c) = {} /\ Locks(c) = {}
    BY <2>1 DEF Sends, Recvs, Locks, Doing, SendKept, RecvKept, Between
  <2>3. \A c \in Core : Entries(c)
    BY <2>1 DEF Entries, Between, Calling, Init
  <2>4. \A c \in Core : KeeperOf(c)
    BY <2>1, <2>2 DEF KeeperOf
  <2>5. \A c \in Core : Holding(c) /\ Accounted(c)
    BY <2>2 DEF Holding, Accounted, Init
  <2>6. Named
    BY DEF Named, Init
  <2> QED  BY <2>3, <2>4, <2>5, <2>6 DEF HoldInv
<1>2. TypeInv /\ HoldInv /\ [Next]_vars => HoldInv'
  <2> SUFFICES ASSUME TypeInv, HoldInv, [Next]_vars PROVE HoldInv'
    OBVIOUS
  <2>1. CASE UNCHANGED vars
    <3>1. PICK c \in Core : TRUE
      BY ChannelAssumption
    <3> QED  BY <2>1, <3>1, HoldHandler
  <2>2. CASE Next
    BY <2>2, HoldProcess, HoldHandler DEF Next
  <2> QED  BY <2>1, <2>2
<1> QED  BY TypesAlways, <1>1, <1>2, PTL DEF Spec

(* NothingLeftBehind: between two calls a core holds the lock numbers and    *)
(* the open bits of its registered channels and no others, also after a      *)
(* creation that failed half way. *)
THEOREM NothingStaysBehind == Spec => []NothingLeftBehind
<1>1. TypeInv /\ HoldInv => NothingLeftBehind
  <2> SUFFICES ASSUME TypeInv, HoldInv, NEW c \in Core, pc[c] = Idle
               PROVE  /\ keeper[c] = Reserved \cup {LockNumber(n) : n \in Registered(c)}
                      /\ {h \in Handle : c \in open[h]} =
                             UNION {{chan[c][n].send, chan[c][n].recv} :
                                        n \in Registered(c)}
    BY DEF NothingLeftBehind
  <2>1. pc[c].op = "idle"
    BY DEF Idle
  <2>2. Sends(c) = Registered(c) /\ Recvs(c) = Registered(c) /\ Locks(c) = Registered(c)
    BY <2>1 DEF Sends, Recvs, Locks, Doing, SendKept, RecvKept, Between
  <2>3. keeper[c] = Reserved \cup {LockNumber(n) : n \in Registered(c)}
    BY <2>2 DEF HoldInv, KeeperOf
  <2>4. \A n \in Registered(c) :
            /\ chan[c][n].send \in Handle /\ c \in open[chan[c][n].send]
            /\ chan[c][n].recv \in Handle /\ c \in open[chan[c][n].recv]
    BY <2>2 DEF HoldInv, Holding
  <2>5. \A h \in Handle : c \in open[h] =>
            \E n \in Registered(c) : chan[c][n].send = h \/ chan[c][n].recv = h
    BY <2>2 DEF HoldInv, Accounted
  <2>6. \A h : h \in {g \in Handle : c \in open[g]} <=>
            h \in UNION {{chan[c][n].send, chan[c][n].recv} : n \in Registered(c)}
    BY <2>4, <2>5
  <2> QED  BY <2>3, <2>6
<1> QED  BY HoldInductive, <1>1, PTL

(* ListenersHold: as long as a channel is registered, both its segments are  *)
(* open on its core and carry its names, so neither the interrupt handler    *)
(* nor a send works on a segment that was taken away. *)
THEOREM ListenersKeepTheirs == Spec => []ListenersHold
<1>1. TypeInv /\ HoldInv => ListenersHold
  <2> SUFFICES ASSUME TypeInv, HoldInv, NEW c \in Core, NEW n \in Registered(c)
               PROVE  /\ chan[c][n].recv # Nil /\ c \in open[chan[c][n].recv]
                      /\ name[chan[c][n].recv] = RecvName(c, n)
                      /\ chan[c][n].send # Nil /\ c \in open[chan[c][n].send]
                      /\ name[chan[c][n].send] = SendName(c, n)
    BY DEF ListenersHold
  <2>1. n \in Sends(c) /\ n \in Recvs(c)
    BY DEF Sends, Recvs
  <2> QED  BY <2>1, ChannelAssumption DEF HoldInv, Holding
<1> QED  BY HoldInductive, <1>1, PTL

-----------------------------------------------------------------------------
(* The doorbell.                                                             *)

\* The peer of p, whether it has registered a channel or not, is about to be
\* told, or is being told, of the message of p in h.
OnTheWay(p, h) ==
    LET c == Peer(p)
    IN  \/ pc[p].op = "ring" /\ chan[p][pc[p].n].send = h
        \/ irq[c] /\ msgr[c] = h
        \/ isr[c].h = h /\ isr[c].op \in {"test", "spin", "get"}

\* This holds of every info in use, also of one that nobody listens to.
Covered ==
    crashed = {} =>
        \A h \in Handle \ missed : \A p \in Core :
            open[h] # {} /\ pending[h] = p => OnTheWay(p, h)

\* Who is about to ring has sent, and nobody else has sent on that info since.
Rings ==
    \A p \in Core : pc[p].op = "ring" =>
        pending[chan[p][pc[p].n].send] \in {p, Nil}

CoverInv == Rings /\ Covered

(* A step of the process of c that neither sends nor rings keeps both when   *)
(* the infos it puts to use have no message left over, or are missed. *)
LEMMA CoverFrame ==
    ASSUME CoverInv, NEW c \in Core,
           UNCHANGED <<pending, msgr, irq, isr, crashed>>, missed \subseteq missed',
           \A h \in Handle \ missed' :
               open'[h] # {} /\ pending[h] # Nil => open[h] # {},
           pc[c].op # "ring", pc'[c].op # "ring",
           \A d \in Core : d # c =>
               /\ pc'[d] = pc[d]
               /\ pc[d].op = "ring" => chan'[d][pc[d].n].send = chan[d][pc[d].n].send
    PROVE  CoverInv'
<1>1. Rings'
  BY DEF CoverInv, Rings
<1>2. ASSUME crashed = {}, NEW h \in Handle, h \notin missed', NEW p \in Core,
             open'[h] # {}, pending[h] = p
      PROVE  OnTheWay(p, h)'
  <2>1. open[h] # {} /\ h \notin missed
    BY <1>2, ChannelAssumption
  <2>2. OnTheWay(p, h)
    BY <1>2, <2>1 DEF CoverInv, Covered
  <2>3. pc[p].op = "ring" => p # c
    OBVIOUS
  <2> QED  BY <2>2, <2>3 DEF OnTheWay, Peer
<1>3. Covered'
  BY <1>2 DEF Covered
<1> QED  BY <1>1, <1>3 DEF CoverInv

(* Opening an info that is not in use marks what waits there as missed. *)
LEMMA CoverOpened ==
    ASSUME TypeInv, HoldInv, NEW c \in Core, NEW nm \in SegmentName,
           NEW h \in Handle, Opened(c, nm, h)
    PROVE  /\ missed \subseteq missed'
           /\ \A g \in Handle \ missed' :
                  open'[g] # {} /\ pending[g] # Nil => open[g] # {}
<1>1. open \in [Handle -> SUBSET Core] /\ nm # Nil
  BY ChannelAssumption DEF TypeInv, TypeOK, SegmentName
<1>2. missed \subseteq missed'
  BY DEF Opened
<1>3. \A g \in Handle : g # h => open'[g] = open[g]
  BY <1>1 DEF Opened
<1>4. CASE Found(nm) = {}
  BY <1>2, <1>3, <1>4 DEF Opened
<1>5. CASE Found(nm) # {}
  <2>1. name[h] = nm
    BY <1>5 DEF Opened, Found
  <2>2. open[h] # {}
    BY <1>1, <2>1 DEF HoldInv, Named
  <2> QED  BY <1>2, <1>3, <2>2
<1> QED  BY <1>4, <1>5

(* The steps of the process but a send and its ring. *)
LEMMA CoverQuiet ==
    ASSUME TypeInv, HoldInv, CoverInv, NEW c \in Core, Process(c),
           ~SendBody(c), ~Ring(c)
    PROVE  CoverInv'
<1>1. /\ UNCHANGED <<pending, msgr, irq, isr, crashed>>
      /\ pc[c].op # "ring"
  <2>1. CASE \E from \in Spinning : Lock(c, from, Entering(from))
    BY <2>1 DEF Lock, At, Spinning, segmentVars, doorbellVars
  <2>2. CASE OpenSend(c) \/ OpenRecv(c)
    BY <2>2 DEF OpenSend, OpenRecv, At, Opened, NotOpened, segmentVars, doorbellVars
  <2>3. CASE CloseSend(c) \/ CloseRecv(c)
    BY <2>3 DEF CloseSend, CloseRecv, At, Closed, doorbellVars
  <2>4. CASE \/ \E n \in Number : CreateBegin(c, n) \/ DestroyBegin(c, n) \/ SendBegin(c, n)
             \/ Register(c) \/ SetData(c) \/ SetBuffer(c) \/ Drop(c)
    BY <2>4 DEF CreateBegin, DestroyBegin, SendBegin, Register, SetData, SetBuffer,
                Drop, At, segmentVars, doorbellVars
  <2> QED  BY <2>1, <2>2, <2>3, <2>4, Steps
<1>2. pc'[c].op # "ring" /\ \A d \in Core : d # c => pc'[d] = pc[d]
  <2>1. ASSUME NEW n \in Number,
               CreateBegin(c, n) \/ DestroyBegin(c, n) \/ SendBegin(c, n)
        PROVE  pc'[c].op # "ring" /\ \A d \in Core : d # c => pc'[d] = pc[d]
    <3>1. PICK op \in {"open_send", "close_send", "send"} : Begin(c, op, n)
      BY <2>1 DEF CreateBegin, DestroyBegin, SendBegin
    <3>2. PcBecomes(c, [op |-> op, n |-> n])
      BY <3>1, Begins DEF Operations
    <3> QED  BY <3>1, <3>2 DEF PcBecomes
  <2>2. CASE SetBuffer(c) \/ Drop(c)
    <3>1. PcBecomes(c, Idle)
      BY <2>2, Finishes DEF SetBuffer, Drop
    <3> QED  BY <3>1 DEF PcBecomes, Idle
  <2>3. CASE \/ OpenSend(c) \/ OpenRecv(c) \/ CloseSend(c) \/ CloseRecv(c)
             \/ Register(c) \/ SetData(c)
             \/ \E from \in Spinning : Lock(c, from, Entering(from))
    <3>1. PICK op \in Operations \ {"idle", "ring"} : Goto(c, op)
      <4>1. CASE \E from \in Spinning : Lock(c, from, Entering(from))
        BY <4>1 DEF Lock, Spinning, Entering, Operations
      <4>2. CASE OpenSend(c) \/ OpenRecv(c)
        BY <4>2 DEF OpenSend, OpenRecv, OnNoRecv, Operations
      <4>3. CASE CloseSend(c) \/ CloseRecv(c) \/ Register(c) \/ SetData(c)
        BY <4>3 DEF CloseSend, CloseRecv, Register, SetData, Operations
      <4> QED  BY <2>3, <4>1, <4>2, <4>3
    <3>2. pc[c].op # "idle"
      <4>1. CASE \E from \in Spinning : Lock(c, from, Entering(from))
        BY <4>1 DEF Lock, At, Spinning
      <4> QED  BY <2>3, <4>1 DEF OpenSend, OpenRecv, CloseSend, CloseRecv, Register,
                                 SetData, At
    <3>3. PcBecomes(c, [op |-> op, n |-> pc[c].n])
      BY <3>1, <3>2, Goes
    <3> QED  BY <3>1, <3>3 DEF PcBecomes
  <2> QED  BY <2>1, <2>2, <2>3, Steps
<1>3. /\ missed \subseteq missed'
      /\ \A h \in Handle \ missed' :
             open'[h] # {} /\ pending[h] # Nil => open[h] # {}
  <2>1. CASE OpenSend(c) \/ OpenRecv(c)
    <3>1. pc[c].n \in Number
      BY <2>1, Busy DEF OpenSend, OpenRecv, At
    <3>2. SendName(c, pc[c].n) \in SegmentName /\ RecvName(c, pc[c].n) \in SegmentName
      BY <3>1, Peers DEF SendName, RecvName, SegmentName
    <3>3. \/ UNCHANGED <<segmentVars, doorbellVars>>
          \/ \E nm \in SegmentName, h \in Handle : Opened(c, nm, h)
      BY <2>1, <3>2 DEF OpenSend, OpenRecv, NotOpened
    <3> QED  BY <3>3, CoverOpened DEF segmentVars, doorbellVars
  <2>2. CASE CloseSend(c) \/ CloseRecv(c)
    <3>1. PICK h : Closed(c, h)
      BY <2>2 DEF CloseSend, CloseRecv
    <3>2. open \in [Handle -> SUBSET Core]
      BY DEF TypeInv, TypeOK
    <3>3. \A g \in Handle : open'[g] \subseteq open[g]
      BY <3>1, <3>2 DEF Closed
    <3> QED  BY <2>2, <3>3 DEF CloseSend, CloseRecv, doorbellVars
  <2>3. CASE \E from \in Spinning : Lock(c, from, Entering(from))
    BY <2>3 DEF Lock, segmentVars, doorbellVars
  <2>4. CASE \/ \E n \in Number : CreateBegin(c, n) \/ DestroyBegin(c, n) \/ SendBegin(c, n)
             \/ Register(c) \/ SetData(c) \/ SetBuffer(c) \/ Drop(c)
    BY <2>4 DEF CreateBegin, DestroyBegin, SendBegin, Register, SetData, SetBuffer,
                Drop, segmentVars, doorbellVars
  <2> QED  BY <2>1, <2>2, <2>3, <2>4, Steps
<1>4. \A d \in Core : d # c =>
          (pc[d].op = "ring" => chan'[d][pc[d].n].send = chan[d][pc[d].n].send)
  <2> SUFFICES ASSUME NEW d \in Core, d # c
               PROVE  chan'[d] = chan[d]
    OBVIOUS
  <2>1. chan \in [Core -> [Number -> ChannelType]]
    BY DEF TypeInv, TypeOK, ChannelType
  <2>2. UNCHANGED chan \/ \E r : chan' = [chan EXCEPT ![c] = r]
    <3>1. CASE \E from \in Spinning : Lock(c, from, Entering(from))
      BY <3>1 DEF Lock, channelVars
    <3>2. CASE OpenSend(c) \/ OpenRecv(c)
      BY <3>2 DEF OpenSend, OpenRecv
    <3>3. CASE SetData(c) \/ SetBuffer(c) \/ Drop(c)
      BY <3>3 DEF SetData, SetBuffer, Drop
    <3>4. CASE \/ \E n \in Number : CreateBegin(c, n) \/ DestroyBegin(c, n) \/ SendBegin(c, n)
               \/ Register(c) \/ CloseSend(c) \/ CloseRecv(c)
      BY <3>4 DEF CreateBegin, DestroyBegin, SendBegin, Register, CloseSend,
                  CloseRecv, channelVars
    <3> QED  BY <3>1, <3>2, <3>3, <3>4, Steps
  <2> QED  BY <2>1, <2>2
<1> QED  BY <1>1, <1>2, <1>3, <1>4, CoverFrame

(* What a process that sends or rings works on. *)
LEMMA SendsOn ==
    ASSUME TypeInv, HoldInv, NEW c \in Core, pc[c].op \in {"send_locked", "ring"}
    PROVE  /\ pc[c].n \in Number
           /\ chan[c][pc[c].n].send \in Handle
           /\ name[chan[c][pc[c].n].send] = <<pc[c].n, c>>
<1>1. pc[c].n \in Registered(c)
  BY DEF HoldInv, Entries, Calling
<1>2. pc[c].n \in Sends(c)
  BY <1>1 DEF Sends
<1> QED  BY <1>2, Busy DEF HoldInv, Holding, SendName

(* mpi_shm_send under the lock: the process is about to ring. *)
LEMMA CoverSend ==
    ASSUME TypeInv, HoldInv, CoverInv, NEW c \in Core, SendBody(c)
    PROVE  CoverInv'
<1>1. PICK n \in Number, h0 \in Handle :
          /\ pc[c].n = n /\ h0 = chan[c][n].send /\ name[h0] = <<n, c>>
  BY SendsOn DEF SendBody, At
<1>2. PcBecomes(c, [op |-> "ring", n |-> n])
  BY <1>1, Goes DEF SendBody, At, Operations
<1>3. /\ pc'[c].op = "ring" /\ pc'[c].n = n /\ pc[c].op = "send_locked"
      /\ \A d \in Core : d # c => pc'[d] = pc[d]
  BY <1>2 DEF PcBecomes, SendBody, At
<1>4. /\ pending \in [Handle -> Core \cup {Nil}]
      /\ pending' = [pending EXCEPT ![h0] = c]
      /\ missed' = missed \ {h0}
      /\ UNCHANGED <<chan, open, msgr, irq, isr, crashed>>
  BY <1>1 DEF SendBody, TypeInv, TypeOK, channelVars
<1>5. /\ pending'[h0] = c
      /\ \A h \in Handle : h # h0 => pending'[h] = pending[h]
  BY <1>4
<1>6. Rings'
  <2> SUFFICES ASSUME NEW p \in Core, pc'[p].op = "ring"
               PROVE  pending'[chan'[p][pc'[p].n].send] \in {p, Nil}
    BY DEF Rings
  <2>1. CASE p = c
    BY <1>1, <1>3, <1>4, <1>5, <2>1
  <2>2. CASE p # c
    <3>1. pc[p].op = "ring" /\ pc'[p] = pc[p]
      BY <1>3, <2>2
    <3>2. PICK g \in Handle : g = chan[p][pc[p].n].send /\ name[g] = <<pc[p].n, p>>
      BY <3>1, SendsOn
    <3>3. g # h0
      BY <1>1, <2>2, <3>2
    <3> QED  BY <1>4, <1>5, <3>1, <3>2, <3>3 DEF CoverInv, Rings
  <2> QED  BY <2>1, <2>2
<1>7. ASSUME crashed = {}, NEW h \in Handle, h \notin missed', NEW p \in Core,
             open[h] # {}, pending'[h] = p
      PROVE  OnTheWay(p, h)'
  <2>1. CASE h = h0
    BY <1>1, <1>3, <1>4, <1>5, <1>7, <2>1 DEF OnTheWay
  <2>2. CASE h # h0
    <3>1. OnTheWay(p, h)
      BY <1>4, <1>5, <1>7, <2>2 DEF CoverInv, Covered
    <3>2. pc[p].op = "ring" => pc'[p] = pc[p]
      BY <1>3
    <3> QED  BY <1>4, <3>1, <3>2 DEF OnTheWay, Peer
  <2> QED  BY <2>1, <2>2
<1>8. Covered'
  BY <1>4, <1>7 DEF Covered
<1> QED  BY <1>6, <1>8 DEF CoverInv

(* message_write: what the register held before is missed, unless it was     *)
(* read. *)
LEMMA CoverRing ==
    ASSUME TypeInv, HoldInv, CoverInv, NEW c \in Core, Ring(c)
    PROVE  CoverInv'
<1>0. /\ Peer(c) \in Core /\ Peer(c) # c /\ Peer(Peer(c)) = c
      /\ \A d \in Core : d = c \/ d = Peer(c)
      /\ Nil \notin Core
  BY Peers, ChannelAssumption
<1>1. PICK n \in Number, h0 \in Handle : pc[c].n = n /\ h0 = chan[c][n].send
  BY SendsOn DEF Ring, At
<1>2. PcBecomes(c, Idle)
  BY Finishes DEF Ring
<1>3. /\ pc'[c].op = "idle" /\ pc[c].op = "ring"
      /\ \A d \in Core : d # c => pc'[d] = pc[d]
  BY <1>2 DEF PcBecomes, Ring, At, Idle
<1>4. /\ msgr \in [Core -> Handle \cup {Nil}] /\ irq \in [Core -> BOOLEAN]
      /\ msgr' = [msgr EXCEPT ![Peer(c)] = h0]
      /\ irq' = [irq EXCEPT ![Peer(c)] = TRUE]
      /\ missed' = (missed \ {h0}) \cup Overwritten(c, h0)
      /\ UNCHANGED <<chan, open, pending, isr, crashed>>
  BY <1>1 DEF Ring, Doorbell, TypeInv, TypeOK, channelVars, segmentVars
<1>5. /\ msgr'[Peer(c)] = h0 /\ irq'[Peer(c)]
      /\ msgr'[c] = msgr[c] /\ irq'[c] = irq[c]
  BY <1>0, <1>4
<1>6. Rings'
  BY <1>3, <1>4 DEF CoverInv, Rings
<1>7. pending[h0] \in {c, Nil}
  BY <1>1, <1>3 DEF CoverInv, Rings
<1>8. ASSUME crashed = {}, NEW h \in Handle, h \notin missed', NEW p \in Core,
             open[h] # {}, pending[h] = p
      PROVE  OnTheWay(p, h)'
  <2>1. CASE p = c /\ h = h0
    BY <1>5, <2>1 DEF OnTheWay, Peer
  <2>2. CASE p = c /\ h # h0
    <3>1. h \notin missed /\ OnTheWay(c, h)
      BY <1>4, <1>8, <2>2 DEF CoverInv, Covered
    <3>2. ~(pc[c].op = "ring" /\ chan[c][pc[c].n].send = h)
      BY <1>1, <2>2
    <3>3. ~(irq[Peer(c)] /\ msgr[Peer(c)] = h)
      BY <1>4, <1>8, <2>2 DEF Overwritten
    <3>4. isr[Peer(c)].h = h /\ isr[Peer(c)].op \in {"test", "spin", "get"}
      BY <3>1, <3>2, <3>3 DEF OnTheWay
    <3> QED  BY <1>4, <2>2, <3>4 DEF OnTheWay, Peer
  <2>3. CASE p = Peer(c)
    <3>1. h # h0
      BY <1>0, <1>7, <1>8, <2>3
    <3>2. OnTheWay(p, h)
      BY <1>4, <1>8, <3>1 DEF CoverInv, Covered
    <3>3. pc'[p] = pc[p] /\ Peer(p) = c
      BY <1>0, <1>3, <2>3
    <3>4. \/ pc[p].op = "ring" /\ chan[p][pc[p].n].send = h
          \/ irq[c] /\ msgr[c] = h
          \/ isr[c].h = h /\ isr[c].op \in {"test", "spin", "get"}
      BY <3>2, <3>3 DEF OnTheWay
    <3>5. \/ pc'[p].op = "ring" /\ chan'[p][pc'[p].n].send = h
          \/ irq'[c] /\ msgr'[c] = h
          \/ isr'[c].h = h /\ isr'[c].op \in {"test", "spin", "get"}
      BY <1>4, <1>5, <3>3, <3>4
    <3> QED  BY <3>3, <3>5 DEF OnTheWay, Peer
  <2> QED  BY <1>0, <2>1, <2>2, <2>3
<1>9. Covered'
  BY <1>4, <1>8 DEF Covered
<1> QED  BY <1>6, <1>9 DEF CoverInv

(* The handler takes the announcement with it and gives it up only with the  *)
(* message, or as missed. *)
LEMMA CoverHandler ==
    ASSUME TypeInv, HoldInv, CoverInv, NEW c \in Core, Handler(c)
    PROVE  CoverInv'
<1>0. /\ Peer(c) \in Core /\ Peer(c) # c /\ Peer(Peer(c)) = c
      /\ \A d \in Core : d = c \/ d = Peer(c)
      /\ Nil \notin Core
  BY Peers, ChannelAssumption
<1>1. UNCHANGED <<chan, open, pc, msgr>>
  BY DEF Handler, Interrupt, GetTest, GetLock, GetBody, GetFault, CallbackDone,
         CallbackFault, channelVars, segmentVars, doorbellVars
<1>2. pending \in [Handle -> Core \cup {Nil}] /\ irq \in [Core -> BOOLEAN]
  BY DEF TypeInv, TypeOK
<1>3. DOMAIN isr = Core /\ isr[c] \in [op : {"idle", "test", "spin", "get", "done"},
                                       n : Number \cup {Nil}, h : Handle \cup {Nil}]
  BY DEF TypeInv, TypeOK
<1>4. \A h \in Handle : pending'[h] \in {pending[h], Nil}
  BY <1>2 DEF Handler, Interrupt, GetTest, GetLock, GetBody, GetFault, CallbackDone,
              CallbackFault, segmentVars
<1>5. Rings'
  <2> SUFFICES ASSUME NEW p \in Core, pc[p].op = "ring"
               PROVE  pending'[chan[p][pc[p].n].send] \in {p, Nil}
    BY <1>1 DEF Rings
  <2>1. pending[chan[p][pc[p].n].send] \in {p, Nil}
    BY DEF CoverInv, Rings
  <2>2. chan[p][pc[p].n].send \in Handle
    BY SendsOn
  <2> QED  BY <1>4, <2>1, <2>2
<1>6. ASSUME crashed' = {}, NEW h \in Handle, h \notin missed', NEW p \in Core,
             open[h] # {}, pending'[h] = p
      PROVE  OnTheWay(p, h)'
  <2>1. pending[h] = p /\ crashed = {}
    BY <1>0, <1>4, <1>6 DEF Handler, Interrupt, GetTest, GetLock, GetBody, GetFault,
                            CallbackDone, CallbackFault
  <2>2. CASE p = c
    <3>1. /\ irq'[Peer(c)] = irq[Peer(c)] /\ isr'[Peer(c)] = isr[Peer(c)]
      BY <1>0, <1>2, <1>3 DEF Handler, Interrupt, GetTest, GetLock, GetBody, GetFault,
             CallbackDone, CallbackFault, Step, doorbellVars, TypeInv, TypeOK
    <3>2. h \notin missed
      <4>1. h \in missed => h \in missed' \/ GetBody(c)
        BY DEF Handler, Interrupt, GetTest, GetLock, GetFault, CallbackDone,
               CallbackFault, doorbellVars
      <4>2. GetBody(c) => h # isr[c].h
        BY <1>0, <1>2, <1>6 DEF GetBody
      <4>3. GetBody(c) /\ h # isr[c].h /\ h \in missed => h \in missed'
        BY DEF GetBody
      <4> QED  BY <1>6, <4>1, <4>2, <4>3
    <3>3. OnTheWay(p, h)
      BY <1>6, <2>1, <3>2 DEF CoverInv, Covered
    <3> QED  BY <1>1, <2>2, <3>1, <3>3 DEF OnTheWay, Peer
  <2>3. CASE p = Peer(c)
    <3> SUFFICES \/ pc[p].op = "ring" /\ chan[p][pc[p].n].send = h
                 \/ irq'[c] /\ msgr[c] = h
                 \/ isr'[c].h = h /\ isr'[c].op \in {"test", "spin", "get"}
      BY <1>0, <1>1, <2>3 DEF OnTheWay, Peer
    <3>1. h \notin missed => \/ pc[p].op = "ring" /\ chan[p][pc[p].n].send = h
                             \/ irq[c] /\ msgr[c] = h
                             \/ isr[c].h = h /\ isr[c].op \in {"test", "spin", "get"}
      BY <1>0, <1>6, <2>1, <2>3 DEF CoverInv, Covered, OnTheWay
    <3>2. CASE Interrupt(c)
      <4>1. /\ h \notin missed /\ isr[c].op = "idle"
            /\ isr'[c].h = msgr[c] /\ isr'[c].op = "test"
        BY <1>3, <1>6, <3>2 DEF Interrupt, In
      <4> QED  BY <3>1, <4>1
    <3>3. CASE GetTest(c)
      <4>1. h \notin missed /\ UNCHANGED irq /\ isr[c].op = "test"
        BY <1>6, <3>3 DEF GetTest, In
      <4>2. CASE isr[c].h = h
        <5>1. Step(c, "spin")
          BY <1>6, <2>1, <2>3, <3>3, <4>2 DEF GetTest
        <5>2. isr'[c].h = h /\ isr'[c].op = "spin"
          BY <1>3, <4>2, <5>1 DEF Step
        <5> QED  BY <5>2
      <4>3. CASE isr[c].h # h
        BY <3>1, <4>1, <4>3
      <4> QED  BY <4>2, <4>3
    <3>4. CASE GetLock(c)
      <4>1. /\ h \notin missed /\ UNCHANGED irq
            /\ isr'[c].h = isr[c].h /\ isr'[c].op = "get" /\ isr[c].op = "spin"
        BY <1>3, <1>6, <3>4 DEF GetLock, In, Step, doorbellVars
      <4> QED  BY <3>1, <4>1
    <3>5. CASE GetBody(c)
      <4>1. isr[c].h # h /\ UNCHANGED irq
        BY <1>0, <1>2, <1>6, <3>5 DEF GetBody
      <4>2. h \notin missed
        BY <1>6, <3>5, <4>1 DEF GetBody
      <4> QED  BY <3>1, <4>1, <4>2
    <3>6. CASE CallbackDone(c)
      <4>1. h \notin missed /\ UNCHANGED irq /\ isr[c].op = "done"
        BY <1>6, <3>6 DEF CallbackDone, In, doorbellVars
      <4> QED  BY <3>1, <4>1
    <3>7. CASE GetFault(c) \/ CallbackFault(c)
      BY <1>6, <3>7 DEF GetFault, CallbackFault
    <3> QED  BY <3>2, <3>3, <3>4, <3>5, <3>6, <3>7 DEF Handler
  <2> QED  BY <1>0, <2>2, <2>3
<1>7. Covered'
  BY <1>1, <1>6 DEF Covered
<1> QED  BY <1>5, <1>7 DEF CoverInv

(* DoorbellCovers: on any number of channels, with creations, destructions   *)
(* and sends in any order, a message that waits on a registered channel is   *)
(* announced by a ring to come, a pending interrupt or a running handler,    *)
(* unless it was missed in one of the ways that DoorbellCovers lists. *)
THEOREM DoorbellAlwaysCovers == Spec => []DoorbellCovers
<1>1. Init => CoverInv
  BY ChannelAssumption DEF Init, Idle, CoverInv, Rings, Covered
<1>2. TypeInv /\ HoldInv /\ CoverInv /\ [Next]_vars => CoverInv'
  <2> SUFFICES ASSUME TypeInv, HoldInv, CoverInv, [Next]_vars PROVE CoverInv'
    OBVIOUS
  <2>1. CASE UNCHANGED vars
    BY <2>1 DEF vars, channelVars, segmentVars, doorbellVars, CoverInv, Rings, Covered,
                OnTheWay, Peer
  <2>2. ASSUME NEW c \in Core, Process(c)
        PROVE  CoverInv'
    BY <2>2, CoverQuiet, CoverSend, CoverRing
  <2>3. ASSUME NEW c \in Core, Handler(c)
        PROVE  CoverInv'
    BY <2>3, CoverHandler
  <2> QED  BY <2>1, <2>2, <2>3 DEF Next
<1>3. TypeInv /\ HoldInv /\ CoverInv => DoorbellCovers
  <2> SUFFICES ASSUME TypeInv, HoldInv, CoverInv, NEW c \in Core,
                      NEW n \in Registered(c),
                      pending[chan[c][n].recv] = Peer(c), crashed = {},
                      chan[c][n].recv \notin missed
               PROVE  Announced(c, n)
    BY DEF DoorbellCovers
  <2>1. Peer(c) \in Core /\ Peer(Peer(c)) = c
    BY Peers
  <2>2. n \in Recvs(c)
    BY DEF Recvs
  <2>3. PICK h \in Handle : /\ h = chan[c][n].recv /\ c \in open[h]
                            /\ name[h] = <<n, Peer(c)>>
    BY <2>2 DEF HoldInv, Holding, RecvName
  <2>4. OnTheWay(Peer(c), h)
    BY <2>1, <2>3 DEF CoverInv, Covered
  <2>5. CASE pc[Peer(c)].op = "ring" /\ chan[Peer(c)][pc[Peer(c)].n].send = h
    <3>1. name[h] = <<pc[Peer(c)].n, Peer(c)>>
      BY <2>1, <2>5, SendsOn
    <3>2. pc[Peer(c)].n = n
      BY <2>3, <3>1
    <3>3. pc[Peer(c)] \in [op : Operations, n : Number \cup {Nil}]
      BY <2>1 DEF TypeInv, TypeOK
    <3>4. pc[Peer(c)] = [op |-> "ring", n |-> n]
      BY <2>5, <3>2, <3>3
    <3> QED  BY <3>4 DEF Announced
  <2>6. CASE ~(pc[Peer(c)].op = "ring" /\ chan[Peer(c)][pc[Peer(c)].n].send = h)
    BY <2>1, <2>3, <2>4, <2>6 DEF OnTheWay, Announced
  <2> QED  BY <2>5, <2>6
<1> QED  BY HoldInductive, <1>1, <1>2, <1>3, PTL DEF Spec
=============================================================================
