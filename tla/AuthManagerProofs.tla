--------------------------- MODULE AuthManagerProofs ---------------------------
(***************************************************************************)
(* Theorems about AuthManager: for any number of users, queue positions    *)
(* and engines.                                                            *)
(***************************************************************************)
EXTENDS AuthManager, RingProofs

\* What each client writes is a message.
LEMMA MessageType ==
  /\ \A u \in Users :
       /\ 1 <= MaxSent[u]
            => [from |-> u, kind |-> "REGISTER", n |-> 1] \in Message
       /\ \A s \in Services : \A n \in 2 .. MaxSent[u] :
            [from |-> u, kind |-> s, n |-> n] \in Message
  /\ \A c \in Commands : \A n \in 1 .. MaxSent[BackOffice] :
       [from |-> BackOffice, kind |-> c, n |-> n] \in Message
<1>1. ASSUME NEW u \in Users
      PROVE  [from |-> u, kind |-> "REGISTER", n |-> 1] \in Message
  <2>1. [from |-> u, kind |-> "REGISTER", n |-> 1]
          \in [from : {u}, kind : {"REGISTER"}, n : {1}]
    OBVIOUS
  <2> QED
    BY <2>1 DEF Message, Registration
<1>2. ASSUME NEW u \in Users, NEW s \in Services, NEW n \in 2 .. MaxSent[u]
      PROVE  [from |-> u, kind |-> s, n |-> n] \in Message
  <2> DEFINE R(v) == [from : {v}, kind : Services, n : 2 .. MaxSent[v]]
  <2>1. [from |-> u, kind |-> s, n |-> n] \in R(u)
    OBVIOUS
  <2> HIDE DEF R
  <2>2. [from |-> u, kind |-> s, n |-> n] \in UNION {R(v) : v \in Users}
    BY <2>1
  <2>3. [from |-> u, kind |-> s, n |-> n] \in Request
    BY <2>2, Zenon DEF Request, R
  <2> QED
    BY <2>3 DEF Message
<1>3. ASSUME NEW c \in Commands, NEW n \in 1 .. MaxSent[BackOffice]
      PROVE  [from |-> BackOffice, kind |-> c, n |-> n] \in Message
  <2>1. [from |-> BackOffice, kind |-> c, n |-> n]
          \in Order
    BY DEF Order
  <2> QED
    BY <2>1 DEF Message
<1> QED
  BY <1>1, <1>2, <1>3

\* The number a client gives its next message is within the bound.
LEMMA NextNumber ==
  ASSUME TypeOK, NEW c \in Clients, sent[c] < MaxSent[c]
  PROVE  sent[c] + 1 \in 1 .. MaxSent[c]
<1>1. sent[c] \in Nat /\ MaxSent[c] \in Nat
  BY ConfigAssumption DEF TypeOK, readConfigFile
<1> QED
  BY <1>1

\* A message written to a pipe is a sequence of cells.
LEMMA CellsType ==
  ASSUME NEW m \in Message
  PROVE  Cells(m) \in Seq(Cell)
<1>1. Width(m) \in 3 .. 4
  BY DEF Width
<1>2. \A k \in 1 .. Width(m) : [msg |-> m, field |-> k] \in Cell
  BY <1>1 DEF Cell
<1> QED
  BY <1>1, <1>2, IsASeq DEF Cells

\* A read leaves cells in the pipe and takes a string out of it.
LEMMA ReadType ==
  ASSUME NEW c \in Seq(Cell), c # << >>
  PROVE  Unread(c) \in Seq(Cell) /\ Head(c) \in String
<1>1. Len(c) \in Nat /\ ReadMax \in Nat
  BY ReadAssumption
<1> QED
  BY <1>1 DEF Unread, String

LEMMA QueueOfType == \A s : QueueOf(s) \in Queues
  BY DEF QueueOf, Queues

LEMMA IndexType == \A i \in Index : Advance(i, QueuePos) \in Index
<1>1. QueuePos \in Nat
  BY ConfigAssumption DEF readConfigFile
<1>2. CASE QueuePos = 0
  BY <1>2 DEF Index, Advance
<1>3. CASE QueuePos > 0
  BY <1>1, <1>3, AdvanceValue DEF Index, Slots
<1> QED
  BY <1>1, <1>2, <1>3

--------------------------------------------------------------------------------
USE DEF vars, clients, rings, sems, receiver, sender, engines, locals,
        offReceiver, offSender, AfterHandOff, OtherQueue, InitShared, InitSemaphores

LEMMA InitType == Init => TypeOK
<1> SUFFICES ASSUME Init PROVE TypeOK
  OBVIOUS
<1>1. 0 \in Index
  BY ConfigAssumption DEF Index, Slots, readConfigFile
<1>2. << >> \in Seq(Cell)
      /\ << >> \in Seq(Delivery)
  BY EmptySeq
<1>3. /\ pipe \in [Pipes -> Seq(Cell)]
      /\ enginePipe \in [Engines -> Seq(Delivery)]
  BY <1>2 DEF Init
<1>4. front \in [Queues -> Index] /\ back \in [Queues -> Index]
  BY <1>1 DEF Init
<1>5. slots \in [Queues -> [Slots -> Text]] /\ authOrder \in Text
  BY DEF Init, Text
<1>6. counterSem \in [Queues -> Nat] /\ aeSem \in Nat
  BY ConfigAssumption DEF Init, readConfigFile
<1> QED
  BY <1>3, <1>4, <1>5, <1>6 DEF Init, TypeOK, Pipes, Queues

LEMMA ClientType == TypeOK /\ Client => TypeOK'
<1> SUFFICES ASSUME TypeOK, Client PROVE TypeOK'
  OBVIOUS
<1>1. ASSUME NEW c \in Clients, NEW p \in Pipes, NEW k, Write(c, p, k),
             [from |-> c, kind |-> k, n |-> sent[c] + 1] \in Message,
             requestCounter' \in [Users -> Nat], due' \in [Users -> SUBSET Services]
      PROVE  TypeOK'
  <2>1. Cells([from |-> c, kind |-> k, n |-> sent[c] + 1]) \in Seq(Cell)
    BY <1>1, CellsType
  <2>2. pipe' \in [Pipes -> Seq(Cell)]
    BY <1>1, <2>1 DEF TypeOK, Write
  <2>3. sent' \in [Clients -> Nat]
    BY <1>1 DEF TypeOK, Write
  <2> QED
    BY <1>1, <2>2, <2>3 DEF TypeOK, Write
<1>2. CASE Command
  <2>1. PICK k \in Commands : Write(BackOffice, "back", k)
    BY <1>2 DEF Command
  <2>2. BackOffice \in Clients /\ "back" \in Pipes
    BY DEF Clients, Pipes
  <2>3. sent[BackOffice] + 1 \in 1 .. MaxSent[BackOffice]
    BY <2>1, <2>2, NextNumber DEF Write
  <2>4. [from |-> BackOffice, kind |-> k, n |-> sent[BackOffice] + 1] \in Message
    BY <2>1, <2>3, MessageType
  <2> QED
    BY <1>1, <1>2, <2>1, <2>2, <2>4 DEF Command, TypeOK
<1>3. ASSUME NEW u \in Users, Register(u) PROVE TypeOK'
  <2>1. u \in Clients /\ "user" \in Pipes
    BY DEF Clients, Pipes
  <2>2. sent[u] + 1 \in 1 .. MaxSent[u] /\ sent[u] = 0
    BY <1>3, <2>1, NextNumber DEF Register, Write
  <2>3. [from |-> u, kind |-> "REGISTER", n |-> sent[u] + 1] \in Message
    BY <2>2, MessageType
  <2> QED
    BY <1>1, <1>3, <2>1, <2>3 DEF Register, TypeOK
<1>4. ASSUME NEW u \in Users, BeginIteration(u) PROVE TypeOK'
  BY <1>4 DEF BeginIteration, TypeOK
<1>5. ASSUME NEW u \in Users, SendRequest(u) PROVE TypeOK'
  <2>1. u \in Clients /\ "user" \in Pipes
    BY DEF Clients, Pipes
  <2>2. PICK s \in due[u] :
          /\ sent[u] > 0
          /\ Write(u, "user", s)
          /\ due' = [due EXCEPT ![u] = @ \ {s}]
          /\ requestCounter' =
               IF s = "VIDEO" THEN [requestCounter EXCEPT ![u] = @ + 1]
                              ELSE requestCounter
    BY <1>5 DEF SendRequest
  <2>3. s \in Services
    BY DEF TypeOK
  <2>4. sent[u] + 1 \in 1 .. MaxSent[u] /\ sent[u] + 1 # 1
    BY <2>1, <2>2, NextNumber DEF Write, TypeOK
  <2>5. [from |-> u, kind |-> s, n |-> sent[u] + 1] \in Message
    <3>1. MaxSent[u] \in Nat
      BY <2>1, ConfigAssumption DEF readConfigFile
    <3>2. sent[u] + 1 \in 2 .. MaxSent[u]
      BY <2>4, <3>1
    <3> QED
      BY <2>3, <3>2, MessageType
  <2>6. requestCounter' \in [Users -> Nat] /\ due' \in [Users -> SUBSET Services]
    BY <2>2 DEF TypeOK
  <2> QED
    BY <1>1, <2>1, <2>2, <2>5, <2>6
<1> QED
  BY <1>2, <1>3, <1>4, <1>5 DEF Client

LEMMA ReceiverType == TypeOK /\ Receiver => TypeOK'
<1> SUFFICES ASSUME TypeOK, Receiver PROVE TypeOK'
  OBVIOUS
<1>1. CASE Select
  BY <1>1 DEF Select, TypeOK
<1>2. CASE ReadRegistration
  <2>1. pipe' \in [Pipes -> Seq(Cell)]
    BY <1>2, ReadType DEF ReadRegistration, TypeOK, Pipes
  <2> QED
    BY <1>2, <2>1 DEF ReadRegistration, AfterUser, TypeOK
<1>3. ASSUME NEW p \in Pipes, ReadOrder(p) PROVE TypeOK'
  <2>1. pipe' \in [Pipes -> Seq(Cell)] /\ authOrder' \in Text
    BY <1>3, ReadType DEF ReadOrder, TypeOK, Text
  <2> QED
    BY <1>3, <2>1 DEF ReadOrder, TypeOK
<1>4. CASE FaultOnFragment \/ FaultOnZeroSlots
  BY <1>4 DEF FaultOnFragment, FaultOnZeroSlots, TypeOK
<1>5. CASE ReceiverReadSize
  BY <1>5 DEF ReceiverReadSize, TypeOK
<1>6. CASE ReceiverLock
  BY <1>6, QueueOfType DEF ReceiverLock, Ring, TypeOK
<1>7. Ring \in Queues /\ back[Ring] \in Index /\ authOrder \in Text
  BY QueueOfType DEF Ring, TypeOK
<1>8. CASE CopyRequest
  <2>1. slots' \in [Queues -> [Slots -> Text]]
    BY <1>7, <1>8 DEF CopyRequest, TypeOK
  <2> QED
    BY <1>8, <2>1 DEF CopyRequest, TypeOK
<1>9. CASE PostCounter
  BY <1>7, <1>9 DEF PostCounter, TypeOK
<1>10. CASE AdvanceBack
  <2>1. back' \in [Queues -> Index]
    BY <1>7, <1>10, IndexType DEF AdvanceBack, TypeOK
  <2> QED
    BY <1>7, <1>10, <2>1 DEF AdvanceBack, LeaveRing, AfterUser, TypeOK
<1>11. CASE DropWhenFull
  BY <1>7, <1>11 DEF DropWhenFull, LeaveRing, AfterUser, TypeOK
<1> QED
  BY <1>1, <1>2, <1>3, <1>4, <1>5, <1>6, <1>8, <1>9, <1>10, <1>11
  DEF Receiver

LEMMA SenderType == TypeOK /\ Sender => TypeOK'
<1> SUFFICES ASSUME TypeOK, Sender PROVE TypeOK'
  OBVIOUS
<1>1. CASE ReadMaxAuthServers \/ SenderReadSize
  BY <1>1 DEF ReadMaxAuthServers, SenderReadSize, TypeOK
<1>2. CASE AwaitRequest
  BY <1>2 DEF AwaitRequest, TypeOK
<1>3. CASE SenderLock
  BY <1>3 DEF SenderLock, TypeOK
<1>4. front[queue] \in Index /\ back[queue] \in Index
  BY DEF TypeOK
<1>5. QueuePos # 0 => [q |-> queue, i |-> front[queue]] \in Pointer
  BY <1>4 DEF Pointer, TypeOK, Index
<1>6. CASE Pop \/ PopEmptyNull
  <2>1. front[queue] # back[queue] => QueuePos # 0
    BY <1>4 DEF Index
  <2>2. held' \in Pointer \union {Stray}
    BY <1>5, <1>6, <2>1 DEF Pop, PopEmptyNull, ReturnPointer
  <2>3. front' \in [Queues -> Index]
    BY <1>4, <1>6, IndexType DEF Pop, PopEmptyNull, TypeOK
  <2>4. queueSem' \in [Queues -> Nat]
    <3>1. queueSem' = [queueSem EXCEPT ![queue] = @ + 1]
      BY <1>6, Zenon DEF Pop, PopEmptyNull, ReturnPointer
    <3> QED
      BY <3>1 DEF TypeOK
  <2>6. alive' \in BOOLEAN
    BY <1>6, Zenon DEF Pop, PopEmptyNull, TypeOK
  <2>5. /\ spc' = "ae"
        /\ UNCHANGED <<pipe, clients, slots, back, shmSem, counterSem, aeSem,
                       receiver, queue, engines>>
    BY <1>6 DEF Pop, PopEmptyNull, ReturnPointer
  <2> QED
    BY <2>2, <2>3, <2>4, <2>5, <2>6 DEF TypeOK
<1>7. CASE PopEmptyStray
  BY <1>7 DEF PopEmptyStray, ReturnPointer, TypeOK
<1>8. CASE AcquireAeStates
  BY <1>8 DEF AcquireAeStates, TypeOK
<1>9. CASE AcquireShm
  BY <1>9 DEF AcquireShm, TypeOK
<1>10. CASE HandOff
  <2>1. PICK e \in FreeEngines, out \in Written(held) :
          enginePipe' = [enginePipe EXCEPT ![e] = @ \o out]
    BY <1>10 DEF HandOff
  <2>2. out \in Seq(Delivery)
    <3>1. CASE held = Stray
      <4>1. [str |-> Garbage, bytes |-> 8] \in Delivery
        BY DEF Delivery
      <4>2. out = << >> \/ out = <<[str |-> Garbage, bytes |-> 8]>>
        BY <3>1 DEF Written
      <4>3. << >> \in Seq(Delivery)
        BY EmptySeq
      <4>4. <<[str |-> Garbage, bytes |-> 8]>> \in Seq(Delivery)
        BY <4>1
      <4> QED
        BY <4>2, <4>3, <4>4, Zenon
    <3>2. CASE held # Stray
      <4>1. slots[held.q][held.i] \in Text
        BY <3>2 DEF TypeOK, Pointer
      <4>2. [str |-> slots[held.q][held.i], bytes |-> 8] \in Delivery
        BY <4>1 DEF Delivery
      <4>3. out = <<[str |-> slots[held.q][held.i], bytes |-> 8]>>
        BY <3>2 DEF Written
      <4> QED
        BY <4>2, <4>3
    <3> QED
      BY <3>1, <3>2
  <2>3. e \in Engines
    BY DEF FreeEngines
  <2>4. enginePipe' \in [Engines -> Seq(Delivery)]
    BY <2>1, <2>2, <2>3 DEF TypeOK
  <2>5. shmSem' \in Nat /\ usersPtrShift' \in Nat
    BY <1>10 DEF HandOff, ReleaseShm, TypeOK
  <2> QED
    BY <1>10, <2>4, <2>5 DEF HandOff, TypeOK, Queues
<1>11. CASE NoFreeEngine
  BY <1>11 DEF NoFreeEngine, TypeOK, Queues
<1> QED
  BY <1>1, <1>2, <1>3, <1>6, <1>7, <1>8, <1>9, <1>10, <1>11 DEF Sender

LEMMA StutterType == TypeOK /\ UNCHANGED vars => TypeOK'
  BY DEF TypeOK

\* Every variable keeps its type: in particular the indices of both rings stay
\* inside the arrays whatever the two threads do, and no semaphore gets below 0.
THEOREM TypeCorrect == Spec => []TypeOK
<1>1. TypeOK /\ [Next]_vars => TypeOK'
  BY ClientType, ReceiverType, SenderType, StutterType DEF Next
<1> QED
  BY <1>1, InitType, PTL DEF Spec

--------------------------------------------------------------------------------
(***************************************************************************)
(* The shared memory semaphore.  The engines' states never change, so with *)
(* an engine configured the Sender always finds engine 0 for the video     *)
(* queue; the release of that branch misses the semaphore, and from then   *)
(* on every sem_wait(shmSemaphore) blocks.                                 *)
(***************************************************************************)

EnginesFree == aeState = [e \in Engines |-> 0]

\* What the Sender can still do after the hand-off: wait at the counter or at
\* the shared memory semaphore.
SenderStuck == usersPtrShift > 0 => spc \in {"await", "size"}

FreezeInv == TypeOK /\ EnginesFree /\ OtherNeverTaken /\ ShmAccount /\ SenderStuck

LEMMA FreezeInit == Init => FreezeInv
<1> SUFFICES ASSUME Init PROVE FreezeInv
  OBVIOUS
<1> QED
  BY InitType DEF Init, FreezeInv, EnginesFree, OtherNeverTaken, ShmAccount,
     SenderStuck, Queues

\* The steps of the clients and of the Receiver do not touch any of it.
LEMMA FreezeOthers ==
  ASSUME FreezeInv, Client \/ Receiver \/ UNCHANGED vars
  PROVE  FreezeInv'
<1>1. UNCHANGED <<aeState, usersPtrShift, spc, queue, shmSem, front>>
  <2>1. CASE Client
    BY <2>1 DEF Client, Command, Register, BeginIteration, SendRequest, Write
  <2>2. CASE Receiver
    BY <2>2 DEF Receiver, Select, ReadRegistration, ReadOrder, FaultOnFragment,
       ReceiverReadSize, ReceiverLock, CopyRequest, PostCounter, AdvanceBack,
       DropWhenFull, FaultOnZeroSlots, LeaveRing
  <2> QED
    BY <2>1, <2>2
<1>2. TypeOK'
  BY ClientType, ReceiverType, StutterType DEF FreezeInv
<1> QED
  BY <1>1, <1>2 DEF FreezeInv, EnginesFree, OtherNeverTaken, ShmAccount,
     SenderStuck

LEMMA FreezeSender == ASSUME FreezeInv, Sender PROVE FreezeInv'
<1>1. TypeOK'
  BY SenderType DEF FreezeInv
<1>2. usersPtrShift \in Nat /\ shmSem \in Nat /\ queue \in Queues
      /\ front \in [Queues -> Index]
  BY DEF FreezeInv, TypeOK
<1>3. MaxAuthServers \in Nat /\ (FreeEngines # {} <=> MaxAuthServers > 0)
  <2>1. MaxAuthServers \in Nat /\ FreeEngines = 0 .. (MaxAuthServers - 1)
    BY ConfigAssumption DEF FreezeInv, EnginesFree, FreeEngines, Engines, readConfigFile
  <2>2. MaxAuthServers > 0 => 0 \in 0 .. (MaxAuthServers - 1)
    BY <2>1
  <2>3. MaxAuthServers = 0 => 0 .. (MaxAuthServers - 1) = {}
    OBVIOUS
  <2> QED
    BY <2>1, <2>2, <2>3
<1>4. EnginesFree'
  BY DEF Sender, ReadMaxAuthServers, AwaitRequest, SenderReadSize, SenderLock,
     Pop, PopEmptyNull, PopEmptyStray, ReturnPointer, AcquireAeStates,
     AcquireShm, HandOff, NoFreeEngine, FreezeInv, EnginesFree
<1>5. OtherNeverTaken' /\ ShmAccount' /\ SenderStuck'
  <2> USE DEF FreezeInv, OtherNeverTaken, ShmAccount, SenderStuck
  <2>1. CASE ReadMaxAuthServers
    BY <1>2, <2>1 DEF ReadMaxAuthServers
  <2>2. CASE AwaitRequest
    BY <1>2, <2>2 DEF AwaitRequest
  <2>3. CASE SenderReadSize
    BY <1>2, <2>3 DEF SenderReadSize
  <2>4. CASE SenderLock
    BY <1>2, <2>4 DEF SenderLock
  <2>5. CASE Pop \/ PopEmptyNull \/ PopEmptyStray
    <3>1. /\ spc = "pop" /\ spc' = "ae"
          /\ UNCHANGED <<queue, shmSem, usersPtrShift>>
          /\ \A q \in Queues : q # queue => front'[q] = front[q]
      BY <1>2, <2>5 DEF Pop, PopEmptyNull, PopEmptyStray, ReturnPointer
    <3> QED
      BY <1>2, <3>1 DEF Queues
  <2>6. CASE AcquireAeStates
    BY <1>2, <2>6 DEF AcquireAeStates
  <2>7. CASE AcquireShm
    BY <1>2, <2>7 DEF AcquireShm
  <2>8. CASE HandOff
    <3>1. MaxAuthServers > 0
      BY <1>3, <2>8 DEF HandOff
    <3>2. queue = "video"
      BY <3>1
    <3> QED
      BY <1>2, <2>8, <3>2 DEF HandOff, ReleaseShm
  <2>9. CASE NoFreeEngine
    <3>1. ~(MaxAuthServers > 0)
      BY <1>3, <2>9 DEF NoFreeEngine
    <3> QED
      BY <1>2, <2>9, <3>1 DEF NoFreeEngine
  <2> QED
    BY <2>1, <2>2, <2>3, <2>4, <2>5, <2>6, <2>7, <2>8, <2>9 DEF Sender
<1> QED
  BY <1>1, <1>4, <1>5 DEF FreezeInv

THEOREM FreezeInvariant == Spec => []FreezeInv
<1>1. FreezeInv /\ [Next]_vars => FreezeInv'
  BY FreezeOthers, FreezeSender DEF Next
<1> QED
  BY <1>1, FreezeInit, PTL DEF Spec

\* The shared memory semaphore is released at most once too few: when the
\* release has gone to the mobileUsers pointer it is never free again.
THEOREM ShmLostAtMostOnce == Spec => []ShmAccount
<1>1. FreezeInv => ShmAccount
  BY DEF FreezeInv
<1> QED
  BY <1>1, FreezeInvariant, PTL

\* For any number of engines above 0, the other queue is never served.
THEOREM OtherStarves == Spec => []OtherNeverTaken
<1>1. FreezeInv => OtherNeverTaken
  BY DEF FreezeInv
<1> QED
  BY <1>1, FreezeInvariant, PTL

\* After the first hand-off nothing leaves a ring, nothing else is handed over
\* and no insertion gets past the queue size.
THEOREM Freeze == Spec => FrozenAfterHandOff
<1>1. FreezeInv /\ [Next]_vars
        => (usersPtrShift > 0 =>
              /\ front' = front
              /\ usersPtrShift' = usersPtrShift
              /\ ~(rpc = "size" /\ rpc' = "lock"))
  <2> SUFFICES ASSUME FreezeInv, [Next]_vars, usersPtrShift > 0
               PROVE  /\ front' = front
                      /\ usersPtrShift' = usersPtrShift
                      /\ ~(rpc = "size" /\ rpc' = "lock")
    OBVIOUS
  <2>1. spc \in {"await", "size"}
    BY DEF FreezeInv, SenderStuck
  <2>2. CASE Client
    BY <2>2 DEF Client, Command, Register, BeginIteration, SendRequest, Write
  <2>3. CASE Receiver
    <3>1. ~(shmSem > 0)
      BY DEF FreezeInv, TypeOK, ShmAccount
    <3>2. ~ReceiverReadSize
      BY <3>1 DEF ReceiverReadSize
    <3> QED
      BY <2>3, <3>2 DEF Receiver, Select, ReadRegistration, ReadOrder,
         FaultOnFragment, ReceiverLock, CopyRequest, PostCounter, AdvanceBack,
         DropWhenFull, FaultOnZeroSlots, LeaveRing
  <2>4. CASE Sender
    BY <2>1, <2>4 DEF Sender, ReadMaxAuthServers, AwaitRequest, SenderReadSize,
       SenderLock, Pop, PopEmptyNull, PopEmptyStray, ReturnPointer,
       AcquireAeStates, AcquireShm, HandOff, NoFreeEngine
  <2> QED
    BY <2>2, <2>3, <2>4 DEF Next
<1> QED
  BY <1>1, FreezeInvariant, PTL DEF Spec, FrozenAfterHandOff

--------------------------------------------------------------------------------
(***************************************************************************)
(* The pointer the Sender keeps.  While it is held, front is one past the  *)
(* slot it points to, and the full test never lets back reach front from   *)
(* behind: that is the only slot the Receiver can never write.             *)
(***************************************************************************)

HeldBehindFront ==
  Holding => /\ held \in Pointer
             /\ held.q = queue
             /\ front[held.q] = Advance(held.i, QueuePos)

HeldInv == TypeOK /\ HeldBehindFront

LEMMA HeldStep == HeldInv /\ [Next]_vars => HeldInv'
<1> SUFFICES ASSUME HeldInv, [Next]_vars PROVE HeldInv'
  OBVIOUS
<1>1. TypeOK'
  BY ClientType, ReceiverType, SenderType, StutterType DEF HeldInv, Next
<1>2. HeldBehindFront'
  <2> USE DEF HeldInv, HeldBehindFront, Holding
  <2>1. CASE Client
    BY <2>1, ZenonT(30)
    DEF Client, Command, Register, BeginIteration, SendRequest, Write
  <2>2. CASE Receiver
    BY <2>2 DEF Receiver, Select, ReadRegistration, ReadOrder, FaultOnFragment,
       ReceiverReadSize, ReceiverLock, CopyRequest, PostCounter, AdvanceBack,
       DropWhenFull, FaultOnZeroSlots, LeaveRing
  <2>3. CASE Pop \/ PopEmptyNull
    <3>1. queue \in Queues /\ front \in [Queues -> Index]
      BY DEF TypeOK
    <3>2. /\ held' = [q |-> queue, i |-> front[queue]] \/ held' = Stray
          /\ queue' = queue
          /\ front'[queue] = Advance(front[queue], QueuePos)
      BY <2>3, <3>1 DEF Pop, PopEmptyNull, ReturnPointer
    <3>3. held' \in Pointer \union {Stray}
      BY <1>1 DEF TypeOK
    <3> QED
      BY <3>2, <3>3
  <2>4. CASE ReadMaxAuthServers \/ AwaitRequest \/ SenderReadSize \/ SenderLock
             \/ HandOff \/ NoFreeEngine
    BY <2>4 DEF ReadMaxAuthServers, AwaitRequest, SenderReadSize, SenderLock,
       HandOff, NoFreeEngine
  <2>5. CASE AcquireAeStates \/ AcquireShm
    BY <2>5 DEF AcquireAeStates, AcquireShm
  <2>6. CASE PopEmptyStray
    BY <2>6 DEF PopEmptyStray, ReturnPointer
  <2>7. CASE UNCHANGED vars
    BY <2>7
  <2> QED
    BY <2>1, <2>2, <2>3, <2>4, <2>5, <2>6, <2>7 DEF Next, Sender
<1> QED
  BY <1>1, <1>2 DEF HeldInv

\* The request behind the Sender's pointer is the one it took until it is
\* written to an engine's pipe, for every size of the ring.
THEOREM HeldSlotSafe == Spec => HeldSlotStable
<1>1. Init => HeldInv
  BY InitType DEF Init, HeldInv, HeldBehindFront, Holding
<1>2. HeldInv /\ [Next]_vars
        => (Holding => slots'[held.q][held.i] = slots[held.q][held.i])
  <2> SUFFICES ASSUME HeldInv, [Next]_vars, Holding
               PROVE  slots'[held.q][held.i] = slots[held.q][held.i]
    OBVIOUS
  <2>1. CASE CopyRequest
    <3>1. Ring \in Queues /\ held.q \in Queues /\ held.i \in Slots
      BY QueueOfType DEF HeldInv, HeldBehindFront, Ring, Pointer
    <3>2. slots \in [Queues -> [Slots -> Text]]
      BY DEF HeldInv, TypeOK
    <3>3. Ring = held.q => back[Ring] # held.i
      BY <2>1 DEF CopyRequest, Full, RingFull, HeldInv, HeldBehindFront
    <3> QED
      BY <2>1, <3>1, <3>2, <3>3 DEF CopyRequest
  <2>2. CASE slots' = slots
    BY <2>2
  <2>3. slots' = slots \/ CopyRequest
    BY DEF Next, Client, Command, Register, BeginIteration, SendRequest, Write,
       Receiver, Select, ReadRegistration, ReadOrder, FaultOnFragment,
       ReceiverReadSize, ReceiverLock, PostCounter, AdvanceBack, DropWhenFull,
       FaultOnZeroSlots, LeaveRing, Sender, ReadMaxAuthServers, AwaitRequest,
       SenderReadSize, SenderLock, Pop, PopEmptyNull, PopEmptyStray,
       ReturnPointer, AcquireAeStates, AcquireShm, HandOff, NoFreeEngine
  <2> QED
    BY <2>1, <2>2, <2>3
<1> QED
  BY <1>1, <1>2, HeldStep, PTL DEF Spec, HeldSlotStable

--------------------------------------------------------------------------------
(***************************************************************************)
(* The counting semaphores.  A counter is posted before back moves, so the *)
(* Sender can be past it while its ring still looks empty.  What saves it  *)
(* is the ring's semaphore: it is held by at most one thread, so the       *)
(* Sender looks at the ring only when back is up to date.                  *)
(***************************************************************************)

Inserting(q) ==
  IF Ring = q /\ rpc \in {"insert", "post", "advance"} THEN 1 ELSE 0
Popping(q)   == IF queue = q /\ spc = "pop" THEN 1 ELSE 0

RingMutex == \A q \in Queues : queueSem[q] + Inserting(q) + Popping(q) = 1

\* There is still room for the request between the test and the move of back.
RoomLeft == rpc \in {"post", "advance"} => QueuePos > 0 /\ ~Full(Ring)

CountInv == TypeOK /\ RingMutex /\ RoomLeft /\ CountMatches

\* Moving back over a free slot adds one message, moving front over a message
\* takes one away.
LEMMA OccupancyStep ==
  ASSUME NEW n \in Nat, n > 0, NEW f \in 0 .. (n - 1), NEW b \in 0 .. (n - 1)
  PROVE  /\ Occupancy(f, b, n) \in 0 .. (n - 1)
         /\ Occupancy(f, b, n) = 0 <=> f = b
         /\ ~RingFull(f, b, n)
              => Occupancy(f, Advance(b, n), n) = Occupancy(f, b, n) + 1
         /\ f # b
              => Occupancy(Advance(f, n), b, n) = Occupancy(f, b, n) - 1
<1>1. /\ Advance(b, n) = IF b + 1 = n THEN 0 ELSE b + 1
      /\ Advance(f, n) = IF f + 1 = n THEN 0 ELSE f + 1
  BY AdvanceValue
<1>2. Occupancy(f, b, n) \in 0 .. (n - 1) /\ (Occupancy(f, b, n) = 0 <=> f = b)
  BY DEF Occupancy
<1>3. ASSUME ~RingFull(f, b, n)
      PROVE  Occupancy(f, Advance(b, n), n) = Occupancy(f, b, n) + 1
  <2>1. CASE b + 1 = n
    BY <1>1, <1>3, <2>1 DEF Occupancy, RingFull
  <2>2. CASE b + 1 # n
    BY <1>1, <1>3, <2>2 DEF Occupancy, RingFull
  <2> QED
    BY <2>1, <2>2
<1>4. ASSUME f # b
      PROVE  Occupancy(Advance(f, n), b, n) = Occupancy(f, b, n) - 1
  <2>1. CASE f + 1 = n
    BY <1>1, <1>4, <2>1 DEF Occupancy
  <2>2. CASE f + 1 # n
    BY <1>1, <1>4, <2>2 DEF Occupancy
  <2> QED
    BY <2>1, <2>2
<1> QED
  BY <1>2, <1>3, <1>4

LEMMA OccupiedZero ==
  ASSUME TypeOK, NEW q \in Queues
  PROVE  Occupied(q) \in Nat /\ (Occupied(q) = 0 <=> front[q] = back[q])
<1>1. QueuePos \in Nat /\ front[q] \in Index /\ back[q] \in Index
  BY ConfigAssumption DEF TypeOK, readConfigFile
<1>2. CASE QueuePos = 0
  BY <1>1, <1>2 DEF Index, Occupied, Occupancy
<1>3. CASE QueuePos > 0
  <2>1. front[q] \in 0 .. (QueuePos - 1) /\ back[q] \in 0 .. (QueuePos - 1)
    BY <1>1, <1>3 DEF Index, Slots
  <2> QED
    BY <1>1, <1>3, <2>1 DEF Occupied, Occupancy
<1> QED
  BY <1>1, <1>2, <1>3

\* Only the Sender that popped, and only the Receiver that advanced, change an
\* occupancy, a counter or who is in a ring; the rest of the steps leave alone
\* what the invariant speaks of.
RingView ==
  <<front, back, counterSem, queueSem, rpc, Ring, spc, queue>>

LEMMA CountUnchanged ==
  ASSUME CountInv, TypeOK', UNCHANGED RingView PROVE CountInv'
<1>1. \A q \in Queues : /\ Inserting(q)' = Inserting(q)
                        /\ Popping(q)' = Popping(q)
                        /\ Claimed(q)' = Claimed(q)
                        /\ Posted(q)' = Posted(q)
                        /\ Occupied(q)' = Occupied(q)
                        /\ Full(q)' = Full(q)
  BY DEF RingView, Inserting, Popping, Claimed, Posted, Occupied, Full
<1> QED
  BY <1>1, QueueOfType DEF CountInv, RingMutex, RoomLeft, CountMatches, RingView, Ring

LEMMA CountReceiver == ASSUME CountInv, Receiver PROVE CountInv'
<1>1. TypeOK'
  BY ReceiverType DEF CountInv
<1>2. Ring \in Queues /\ QueuePos \in Nat
      /\ counterSem \in [Queues -> Nat] /\ queueSem \in [Queues -> Nat]
      /\ back \in [Queues -> Index] /\ front \in [Queues -> Index]
  BY QueueOfType, ConfigAssumption DEF CountInv, TypeOK, Ring, readConfigFile
<1>3. CASE FaultOnFragment \/ FaultOnZeroSlots
  <2>1. UNCHANGED RingView
    BY <1>3 DEF RingView, FaultOnFragment, FaultOnZeroSlots, Ring
  <2> QED
    BY <1>1, <2>1, CountUnchanged
\* Outside the critical section the Receiver may even change the string it
\* works on.
<1>4. CASE Select \/ ReadRegistration \/ ReceiverReadSize
             \/ \E p \in Pipes : ReadOrder(p)
  <2>1. /\ UNCHANGED <<front, back, counterSem, queueSem, spc, queue>>
        /\ rpc \in {"select", "readUser", "readBack", "size"}
        /\ rpc' \in {"select", "readUser", "readBack", "size", "lock"}
    BY <1>4 DEF Select, ReadRegistration, ReceiverReadSize, ReadOrder, AfterUser
  <2>2. \A q \in Queues : /\ Inserting(q)' = 0 /\ Inserting(q) = 0
                          /\ Posted(q)' = 0 /\ Posted(q) = 0
                          /\ Popping(q)' = Popping(q)
                          /\ Claimed(q)' = Claimed(q)
                          /\ Occupied(q)' = Occupied(q)
    BY <2>1 DEF Inserting, Posted, Popping, Claimed, Occupied
  <2> QED
    BY <1>1, <2>1, <2>2 DEF CountInv, RingMutex, RoomLeft, CountMatches
<1>5. CASE ReceiverLock
  <2>1. /\ UNCHANGED <<front, back, counterSem, spc, queue, Ring>>
        /\ rpc = "lock" /\ rpc' = "insert"
        /\ queueSem' = [queueSem EXCEPT ![Ring] = @ - 1]
    BY <1>5 DEF ReceiverLock, Ring
  <2>2. \A q \in Queues :
          /\ Inserting(q) = 0 /\ Inserting(q)' = (IF Ring = q THEN 1 ELSE 0)
          /\ Posted(q)' = 0 /\ Posted(q) = 0
          /\ Popping(q)' = Popping(q)
          /\ Claimed(q)' = Claimed(q)
          /\ Occupied(q)' = Occupied(q)
    BY <2>1 DEF Inserting, Posted, Popping, Claimed, Occupied
  <2>3. RingMutex'
    BY <1>2, <2>1, <2>2 DEF CountInv, RingMutex, Popping
  <2> QED
    BY <1>1, <2>1, <2>2, <2>3 DEF CountInv, RoomLeft, CountMatches
<1>6. CASE CopyRequest
  <2>1. /\ UNCHANGED <<front, back, counterSem, queueSem, spc, queue, Ring>>
        /\ rpc = "insert" /\ rpc' = "post"
        /\ QueuePos > 0 /\ ~Full(Ring)
    BY <1>6 DEF CopyRequest, Ring
  <2>2. \A q \in Queues : /\ Inserting(q)' = Inserting(q)
                          /\ Posted(q)' = 0 /\ Posted(q) = 0
                          /\ Popping(q)' = Popping(q)
                          /\ Claimed(q)' = Claimed(q)
                          /\ Occupied(q)' = Occupied(q)
    BY <2>1 DEF Inserting, Posted, Popping, Claimed, Occupied
  <2>3. RoomLeft'
    BY <2>1 DEF RoomLeft, Full
  <2> QED
    BY <1>1, <2>1, <2>2, <2>3 DEF CountInv, RingMutex, CountMatches
<1>7. CASE PostCounter
  <2>1. /\ UNCHANGED <<front, back, queueSem, spc, queue, Ring>>
        /\ rpc = "post" /\ rpc' = "advance"
        /\ counterSem' = [counterSem EXCEPT ![Ring] = @ + 1]
    BY <1>7 DEF PostCounter, Ring
  <2>2. \A q \in Queues :
          /\ Inserting(q)' = Inserting(q)
          /\ Posted(q) = 0 /\ Posted(q)' = (IF Ring = q THEN 1 ELSE 0)
          /\ Popping(q)' = Popping(q)
          /\ Claimed(q)' = Claimed(q) /\ Claimed(q) \in Nat
          /\ Occupied(q)' = Occupied(q) /\ Occupied(q) \in Nat
    BY <2>1, OccupiedZero
    DEF Inserting, Posted, Popping, Claimed, Occupied, CountInv
  <2>3. RoomLeft'
    BY <2>1 DEF CountInv, RoomLeft, Full
  <2>4. CountMatches'
    BY <1>2, <2>1, <2>2 DEF CountInv, CountMatches
  <2> QED
    BY <1>1, <2>1, <2>2, <2>3, <2>4 DEF CountInv, RingMutex
<1>8. CASE AdvanceBack
  <2>1. /\ UNCHANGED <<front, counterSem, spc, queue, Ring>>
        /\ rpc = "advance" /\ rpc' \in {"select", "readBack"}
        /\ queueSem' = [queueSem EXCEPT ![Ring] = @ + 1]
        /\ back' = [back EXCEPT ![Ring] = Advance(@, QueuePos)]
    BY <1>8 DEF AdvanceBack, LeaveRing, AfterUser, Ring
  <2>2. QueuePos > 0 /\ ~RingFull(front[Ring], back[Ring], QueuePos)
    BY <2>1 DEF CountInv, RoomLeft, Full
  <2>3. Occupied(Ring)' = Occupied(Ring) + 1
    <3>1. front[Ring] \in 0 .. (QueuePos - 1) /\ back[Ring] \in 0 .. (QueuePos - 1)
      BY <1>2, <2>2 DEF Index, Slots
    <3> QED
      BY <1>2, <2>1, <2>2, <3>1, OccupancyStep DEF Occupied
  <2>4. \A q \in Queues :
          /\ Inserting(q) = (IF Ring = q THEN 1 ELSE 0) /\ Inserting(q)' = 0
          /\ Posted(q) = (IF Ring = q THEN 1 ELSE 0) /\ Posted(q)' = 0
          /\ Popping(q)' = Popping(q) /\ Popping(q) \in {0, 1}
          /\ Claimed(q)' = Claimed(q)
          /\ q # Ring => Occupied(q)' = Occupied(q)
    BY <1>2, <2>1 DEF Inserting, Posted, Popping, Claimed, Occupied
  <2>5. RingMutex'
    BY <1>2, <2>1, <2>4 DEF CountInv, RingMutex
  <2>6. CountMatches'
    BY <1>2, <2>1, <2>3, <2>4, OccupiedZero DEF CountInv, CountMatches
  <2> QED
    BY <1>1, <2>1, <2>5, <2>6 DEF CountInv, RoomLeft
<1>9. CASE DropWhenFull
  <2>1. /\ UNCHANGED <<front, back, counterSem, spc, queue, Ring>>
        /\ rpc = "insert" /\ rpc' \in {"select", "readBack"}
        /\ queueSem' = [queueSem EXCEPT ![Ring] = @ + 1]
    BY <1>9 DEF DropWhenFull, LeaveRing, AfterUser, Ring
  <2>2. \A q \in Queues :
          /\ Inserting(q) = (IF Ring = q THEN 1 ELSE 0) /\ Inserting(q)' = 0
          /\ Posted(q) = 0 /\ Posted(q)' = 0
          /\ Popping(q)' = Popping(q) /\ Popping(q) \in {0, 1}
          /\ Claimed(q)' = Claimed(q)
          /\ Occupied(q)' = Occupied(q)
    BY <2>1 DEF Inserting, Posted, Popping, Claimed, Occupied
  <2>3. RingMutex'
    BY <1>2, <2>1, <2>2 DEF CountInv, RingMutex
  <2> QED
    BY <1>1, <2>1, <2>2, <2>3 DEF CountInv, RoomLeft, CountMatches
<1> QED
  BY <1>3, <1>4, <1>5, <1>6, <1>7, <1>8, <1>9 DEF Receiver

LEMMA CountSender == ASSUME CountInv, Sender PROVE CountInv'
<1>1. TypeOK'
  BY SenderType DEF CountInv
<1>2. queue \in Queues /\ QueuePos \in Nat
      /\ counterSem \in [Queues -> Nat] /\ queueSem \in [Queues -> Nat]
      /\ back \in [Queues -> Index] /\ front \in [Queues -> Index]
  BY ConfigAssumption DEF CountInv, TypeOK, readConfigFile
<1>3. UNCHANGED <<back, rpc, Ring>>
  BY DEF Sender, ReadMaxAuthServers, AwaitRequest, SenderReadSize, SenderLock,
     Pop, PopEmptyNull, PopEmptyStray, ReturnPointer, AcquireAeStates,
     AcquireShm, HandOff, NoFreeEngine, Ring
<1>4. \A q \in Queues : /\ Inserting(q)' = Inserting(q) /\ Inserting(q) \in {0, 1}
                        /\ Posted(q)' = Posted(q) /\ Posted(q) \in {0, 1}
                        /\ Occupied(q) \in Nat
  BY <1>3, OccupiedZero DEF Inserting, Posted, CountInv
<1>5. CASE ReadMaxAuthServers \/ AcquireAeStates \/ AcquireShm \/ HandOff
             \/ NoFreeEngine
  <2>1. /\ UNCHANGED <<front, counterSem, queueSem>>
        /\ spc \in {"start", "ae", "shm", "scan"}
        /\ spc' \in {"await", "shm", "scan"}
    BY <1>5 DEF ReadMaxAuthServers, AcquireAeStates, AcquireShm, HandOff,
       NoFreeEngine
  <2>2. \A q \in Queues : /\ Popping(q) = 0 /\ Popping(q)' = 0
                          /\ Claimed(q) = 0 /\ Claimed(q)' = 0
                          /\ Occupied(q)' = Occupied(q)
    BY <1>3, <2>1 DEF Popping, Claimed, Occupied
  <2> QED
    BY <1>1, <1>3, <1>4, <2>1, <2>2
    DEF CountInv, RingMutex, RoomLeft, CountMatches, Full
<1>6. CASE AwaitRequest
  <2>1. /\ UNCHANGED <<front, queueSem, queue>>
        /\ spc = "await" /\ spc' = "size" /\ counterSem[queue] > 0
        /\ counterSem' = [counterSem EXCEPT ![queue] = @ - 1]
    BY <1>6 DEF AwaitRequest
  <2>2. \A q \in Queues :
          /\ Popping(q) = 0 /\ Popping(q)' = 0
          /\ Claimed(q) = 0 /\ Claimed(q)' = (IF queue = q THEN 1 ELSE 0)
          /\ Occupied(q)' = Occupied(q)
    BY <1>3, <2>1 DEF Popping, Claimed, Occupied
  <2>3. CountMatches'
    BY <1>2, <1>4, <2>1, <2>2 DEF CountInv, CountMatches
  <2> QED
    BY <1>1, <1>3, <1>4, <2>1, <2>2, <2>3
    DEF CountInv, RingMutex, RoomLeft, Full
<1>7. CASE SenderReadSize
  <2>1. /\ UNCHANGED <<front, counterSem, queueSem, queue>>
        /\ spc = "size" /\ spc' = "lock"
    BY <1>7 DEF SenderReadSize
  <2>2. \A q \in Queues : /\ Popping(q) = 0 /\ Popping(q)' = 0
                          /\ Claimed(q)' = Claimed(q)
                          /\ Occupied(q)' = Occupied(q)
    BY <1>3, <2>1 DEF Popping, Claimed, Occupied
  <2> QED
    BY <1>1, <1>3, <1>4, <2>1, <2>2
    DEF CountInv, RingMutex, RoomLeft, CountMatches, Full
<1>8. CASE SenderLock
  <2>1. /\ UNCHANGED <<front, counterSem, queue>>
        /\ spc = "lock" /\ spc' = "pop" /\ queueSem[queue] > 0
        /\ queueSem' = [queueSem EXCEPT ![queue] = @ - 1]
    BY <1>8 DEF SenderLock
  <2>2. \A q \in Queues :
          /\ Popping(q) = 0 /\ Popping(q)' = (IF queue = q THEN 1 ELSE 0)
          /\ Claimed(q)' = Claimed(q)
          /\ Occupied(q)' = Occupied(q)
    BY <1>3, <2>1 DEF Popping, Claimed, Occupied
  <2>3. RingMutex'
    BY <1>2, <1>4, <2>1, <2>2 DEF CountInv, RingMutex
  <2> QED
    BY <1>1, <1>3, <1>4, <2>1, <2>2, <2>3
    DEF CountInv, RoomLeft, CountMatches, Full
\* The Sender is in the ring, so the Receiver is not, so back is up to date and
\* the message the Sender was woken for is there.
<1>9. spc = "pop" => /\ front[queue] # back[queue]
                     /\ Inserting(queue) = 0
  <2> SUFFICES ASSUME spc = "pop"
               PROVE  front[queue] # back[queue] /\ Inserting(queue) = 0
    OBVIOUS
  <2>1. Popping(queue) = 1 /\ Claimed(queue) = 1
    BY DEF Popping, Claimed
  <2>2. Inserting(queue) = 0
    BY <1>2, <1>4, <2>1 DEF CountInv, RingMutex
  <2>3. Posted(queue) = 0
    BY <2>2 DEF Inserting, Posted
  <2>4. Occupied(queue) # 0
    BY <1>2, <1>4, <2>1, <2>3 DEF CountInv, CountMatches
  <2> QED
    BY <1>2, <2>2, <2>4, OccupiedZero DEF CountInv
<1>10. CASE Pop \/ PopEmptyNull \/ PopEmptyStray
  <2>1. Pop
    BY <1>9, <1>10 DEF PopEmptyNull, PopEmptyStray
  <2>2. /\ UNCHANGED <<counterSem, queue>>
        /\ spc = "pop" /\ spc' = "ae" /\ front[queue] # back[queue]
        /\ queueSem' = [queueSem EXCEPT ![queue] = @ + 1]
        /\ front' = [front EXCEPT ![queue] = Advance(@, QueuePos)]
    BY <2>1 DEF Pop, ReturnPointer
  <2>3. Occupied(queue)' = Occupied(queue) - 1
    <3>1. /\ QueuePos > 0
          /\ front[queue] \in 0 .. (QueuePos - 1)
          /\ back[queue] \in 0 .. (QueuePos - 1)
      BY <1>2, <2>2 DEF Index, Slots
    <3> QED
      BY <1>2, <1>3, <2>2, <3>1, OccupancyStep DEF Occupied
  <2>4. \A q \in Queues :
          /\ Popping(q) = (IF queue = q THEN 1 ELSE 0) /\ Popping(q)' = 0
          /\ Claimed(q) = (IF queue = q THEN 1 ELSE 0) /\ Claimed(q)' = 0
          /\ q # queue => Occupied(q)' = Occupied(q)
    BY <1>2, <1>3, <2>2 DEF Popping, Claimed, Occupied
  <2>5. RingMutex'
    BY <1>2, <1>4, <2>2, <2>4 DEF CountInv, RingMutex
  <2>6. CountMatches'
    BY <1>2, <1>4, <2>2, <2>3, <2>4 DEF CountInv, CountMatches
  <2>7. RoomLeft'
    <3> SUFFICES ASSUME rpc \in {"post", "advance"}
                 PROVE  QueuePos > 0 /\ ~Full(Ring)'
      BY <1>3 DEF RoomLeft
    <3>1. Ring # queue
      BY <1>2, <1>9, <2>2 DEF Inserting
    <3>2. front'[Ring] = front[Ring]
      BY <1>2, <2>2, <3>1, QueueOfType DEF Ring
    <3> QED
      BY <1>3, <3>2 DEF CountInv, RoomLeft, Full
  <2> QED
    BY <1>1, <2>5, <2>6, <2>7 DEF CountInv
<1> QED
  BY <1>5, <1>6, <1>7, <1>8, <1>10 DEF Sender

NothingLeftOver == MaxLeftover = 0

THEOREM CountInvariant == NothingLeftOver => (Spec => []CountInv)
<1> SUFFICES ASSUME NothingLeftOver PROVE Spec => []CountInv
  OBVIOUS
<1>1. ASSUME Init PROVE CountInv
  <2>1. TypeOK /\ QueuePos \in Nat
    BY <1>1, InitType, ConfigAssumption DEF readConfigFile
  <2>2. \A q \in Queues : /\ Inserting(q) = 0 /\ Popping(q) = 0
                          /\ Claimed(q) = 0 /\ Posted(q) = 0 /\ Occupied(q) = 0
    BY <1>1, <2>1 DEF Init, Inserting, Popping, Claimed, Posted, Occupied, Occupancy
  <2> QED
    BY <1>1, <2>1, <2>2
    DEF Init, NothingLeftOver, CountInv, RingMutex, RoomLeft, CountMatches
<1>2. CountInv /\ [Next]_vars => CountInv'
  <2> SUFFICES ASSUME CountInv, [Next]_vars PROVE CountInv'
    OBVIOUS
  <2>1. CASE Client \/ UNCHANGED vars
    <3>1. UNCHANGED RingView
      BY <2>1 DEF Client, Command, Register, BeginIteration, SendRequest, Write,
         RingView, Ring
    <3>2. TypeOK'
      BY <2>1, ClientType, StutterType DEF CountInv
    <3> QED
      BY <3>1, <3>2, CountUnchanged
  <2> QED
    BY <2>1, CountReceiver, CountSender DEF Next
<1> QED
  BY <1>1, <1>2, PTL DEF Spec

\* A manager that starts with fresh counters keeps them equal to the number of
\* requests in the rings, up to the request that is on its way in or out.
THEOREM CountersCount == NothingLeftOver => (Spec => []CountMatches)
<1>1. CountInv => CountMatches
  BY DEF CountInv
<1> QED
  BY <1>1, CountInvariant, PTL

LEMMA PopFinds == CountInv => PopFindsRequest
<1> SUFFICES ASSUME CountInv, spc = "pop" PROVE front[queue] # back[queue]
  BY DEF PopFindsRequest
<1>1. queue \in Queues /\ counterSem[queue] \in Nat /\ queueSem[queue] \in Nat
  BY DEF CountInv, TypeOK
<1>2. Popping(queue) = 1 /\ Claimed(queue) = 1
  BY DEF Popping, Claimed
<1>3. Inserting(queue) = 0
  BY <1>1, <1>2 DEF CountInv, RingMutex, Inserting
<1>4. Posted(queue) = 0
  BY <1>3 DEF Inserting, Posted
<1>5. Occupied(queue) # 0
  BY <1>1, <1>2, <1>4, OccupiedZero DEF CountInv, CountMatches
<1> QED
  BY <1>1, <1>5, OccupiedZero DEF CountInv

\* The Sender never takes a request from an empty ring, so getFromVideoQueue and
\* getFromOtherQueue never use their uninitialised pointer.
THEOREM NoEmptyPop == NothingLeftOver => (Spec => []PopFindsRequest)
  BY PopFinds, CountInvariant, PTL

--------------------------------------------------------------------------------
(***************************************************************************)
(* The rings implement BoundedFifo.  The request that is announced, and    *)
(* the cell that back moves over, are those the Receiver has in hand.      *)
(***************************************************************************)

InHand ==
  /\ rpc \in {"size", "lock", "insert", "post", "advance"} => authOrder \in String
  /\ rpc \in {"post", "advance"} => slots[Ring][back[Ring]] = authOrder

LEMMA InHandStep ==
  ASSUME TypeOK, InHand, [Next]_vars
  PROVE  InHand'
<1>1. CASE CopyRequest
  <2>1. Ring \in Queues /\ back[Ring] \in Slots
    BY <1>1, QueueOfType DEF CopyRequest, TypeOK, Index, Ring
  <2>2. slots'[Ring][back[Ring]] = authOrder /\ UNCHANGED <<back, Ring>>
    BY <1>1, <2>1 DEF CopyRequest, TypeOK, Ring
  <2> QED
    BY <1>1, <2>2 DEF CopyRequest, InHand
<1>2. CASE \E p \in Pipes : ReadOrder(p)
  <2>1. authOrder' \in String
    <3>1. PICK p \in Pipes : ReadOrder(p)
      BY <1>2
    <3>2. pipe[p] \in Seq(Cell) /\ pipe[p] # << >>
      BY <3>1 DEF ReadOrder, TypeOK
    <3> QED
      BY <3>1, <3>2, ReadType DEF ReadOrder
  <2> QED
    BY <1>2, <2>1 DEF ReadOrder, InHand
<1>3. CASE ~CopyRequest /\ ~(\E p \in Pipes : ReadOrder(p))
  <2>1. /\ UNCHANGED slots
        /\ rpc' \in {"post", "advance"} =>
             rpc \in {"post", "advance"} /\ UNCHANGED <<back, authOrder>>
        /\ rpc' \in {"size", "lock", "insert", "post", "advance"} =>
             /\ rpc \in {"size", "lock", "insert", "post", "advance"}
             /\ UNCHANGED authOrder
    BY <1>3 DEF Next, Client, Command, Register, BeginIteration, SendRequest, Write,
       Receiver, Select, ReadRegistration, FaultOnFragment, ReceiverReadSize,
       ReceiverLock, PostCounter, AdvanceBack, DropWhenFull, FaultOnZeroSlots,
       LeaveRing, AfterUser, Sender, ReadMaxAuthServers, AwaitRequest,
       SenderReadSize, SenderLock, Pop, PopEmptyNull, PopEmptyStray,
       ReturnPointer, AcquireAeStates, AcquireShm, HandOff, NoFreeEngine
  <2> QED
    BY <2>1 DEF InHand, Ring
<1> QED
  BY <1>1, <1>2, <1>3

LEMMA InHandInvariant == Spec => []InHand
<1>1. Init => InHand
  BY DEF Init, InHand
<1> QED
  BY <1>1, InHandStep, TypeCorrect, PTL DEF Spec

\* What a ring that has slots looks like to the lemmas about rings.
LEMMA RingArguments ==
  ASSUME TypeOK, QueuePos # 0, NEW q \in Queues
  PROVE  /\ QueuePos \in Nat \ {0}
         /\ front[q] \in 0 .. (QueuePos - 1) /\ back[q] \in 0 .. (QueuePos - 1)
         /\ slots[q] \in [0 .. (QueuePos - 1) -> Text]
  BY ConfigAssumption DEF TypeOK, Index, Slots, readConfigFile

\* What one step does to a ring: a request is appended, in room there is; the
\* oldest request leaves; or nothing.
Appended(q) == /\ Len(RingOf(q)) < QueuePos - 1
               /\ \E m \in String : RingOf(q)' = Append(RingOf(q), m)
Removed(q)  == RingOf(q) # << >> /\ RingOf(q)' = Tail(RingOf(q))

LEMMA RingCopy ==
  ASSUME TypeOK, CopyRequest, NEW q \in Queues
  PROVE  RingOf(q)' = RingOf(q)
<1>1. Ring \in Queues /\ QueuePos # 0
  BY QueueOfType DEF Ring, CopyRequest
<1>2. Contents([slots[Ring] EXCEPT ![back[Ring]] = authOrder], front[Ring], back[Ring],
               QueuePos) = RingOf(Ring)
  <2> DEFINE n == QueuePos
             f == front[Ring]
             b == back[Ring]
             cells == slots[Ring]
  <2>1. /\ n \in Nat \ {0} /\ f \in 0 .. (n - 1) /\ b \in 0 .. (n - 1)
        /\ cells \in [0 .. (n - 1) -> Text]
    BY <1>1, RingArguments
  <2> HIDE DEF n, f, b, cells
  <2>2. Contents([cells EXCEPT ![b] = authOrder], f, b, n) = Contents(cells, f, b, n)
    BY <2>1, CopyAtBack, ZenonT(30)
  <2> QED
    BY <2>2 DEF RingOf, n, f, b, cells
<1>3. slots'[q] = IF q = Ring THEN [slots[Ring] EXCEPT ![back[Ring]] = authOrder]
                              ELSE slots[q]
  BY <1>1 DEF CopyRequest, TypeOK
<1> QED
  BY <1>2, <1>3 DEF CopyRequest, RingOf

LEMMA RingAppend ==
  ASSUME CountInv, InHand, AdvanceBack, NEW q \in Queues
  PROVE  Appended(q) \/ RingOf(q)' = RingOf(q)
<1>1. /\ TypeOK /\ Ring \in Queues /\ QueuePos # 0
      /\ ~RingFull(front[Ring], back[Ring], QueuePos)
  BY QueueOfType DEF CountInv, RoomLeft, AdvanceBack, Full, Ring
<1>2. back'[q] = IF q = Ring THEN Advance(back[Ring], QueuePos) ELSE back[q]
  BY <1>1 DEF AdvanceBack, TypeOK
<1>3. slots[Ring][back[Ring]] = authOrder /\ authOrder \in String
  BY DEF InHand, AdvanceBack
<1>4. /\ Contents(slots[Ring], front[Ring], Advance(back[Ring], QueuePos), QueuePos)
           = Append(RingOf(Ring), authOrder)
      /\ Len(RingOf(Ring)) < QueuePos - 1
  <2>1. Contents(slots[Ring], front[Ring], Advance(back[Ring], QueuePos), QueuePos)
          = Append(RingOf(Ring), slots[Ring][back[Ring]])
    BY <1>1, RingArguments, AdvanceBackAppends, ZenonT(30) DEF RingOf
  <2>2. Len(RingOf(Ring)) = Occupancy(front[Ring], back[Ring], QueuePos)
    BY <1>1, RingArguments, ContentsType DEF RingOf
  <2>3. Occupancy(front[Ring], back[Ring], QueuePos) < QueuePos - 1
    BY <1>1, RingArguments, OccupancyValue
  <2> QED
    BY <1>3, <2>1, <2>2, <2>3
<1> QED
  BY <1>2, <1>3, <1>4 DEF AdvanceBack, LeaveRing, RingOf, Appended

LEMMA RingRemove ==
  ASSUME TypeOK, Pop, NEW q \in Queues
  PROVE  Removed(q) \/ RingOf(q)' = RingOf(q)
<1>1. queue \in Queues /\ front[queue] # back[queue]
  BY DEF TypeOK, Pop
<1>2. QueuePos # 0
  BY <1>1 DEF TypeOK, Index
<1>3. front'[q] = IF q = queue THEN Advance(front[queue], QueuePos) ELSE front[q]
  BY <1>1 DEF Pop, TypeOK
<1> DEFINE n == QueuePos
           f == front[queue]
           b == back[queue]
           cells == slots[queue]
<1>4. /\ n \in Nat \ {0} /\ f \in 0 .. (n - 1) /\ b \in 0 .. (n - 1)
      /\ cells \in [0 .. (n - 1) -> Text]
  BY <1>1, <1>2, RingArguments
<1> HIDE DEF n, f, b, cells
<1>5. 1 \in 1 .. Occupancy(f, b, n)
  <2>1. f # b
    BY <1>1 DEF f, b
  <2>2. Occupancy(f, b, n) # 0 /\ Occupancy(f, b, n) \in 0 .. (n - 1)
    BY <1>4, <2>1, OccupancyValue
  <2> QED
    BY <1>4, <2>2
<1>6. Advance(f, n) = Place(f, 1, n)
  <2>1. 0 \in 0 .. (n - 1) /\ 0 \in 0 .. n
    BY <1>4
  <2>2. Place(f, 0, n) = f
    BY <1>4, <2>1, PlaceValue
  <2>3. Advance(Place(f, 0, n), n) = Place(f, 0 + 1, n)
    BY <1>4, <2>1, PlaceStep
  <2> QED
    BY <2>2, <2>3
<1> DEFINE old == Contents(cells, f, b, n)
<1>7. Contents(cells, Advance(f, n), b, n) = SubSeq(old, 1 + 1, Occupancy(f, b, n))
  BY <1>4, <1>5, <1>6, AdvanceFrontDrops
<1>8. old \in Seq(Text) /\ Len(old) = Occupancy(f, b, n)
  BY <1>4, ContentsType
<1> HIDE DEF old
<1>9. old # << >> /\ Contents(cells, Advance(f, n), b, n) = Tail(old)
  BY <1>5, <1>7, <1>8, TailIsSubSeq
<1>10. old = RingOf(queue)
  BY DEF old, RingOf, n, f, b, cells
<1> QED
  BY <1>3, <1>9, <1>10 DEF Pop, ReturnPointer, RingOf, Removed, n, f, b, cells

LEMMA RingStep ==
  ASSUME CountInv, InHand, [Next]_vars, NEW q \in Queues
  PROVE  Appended(q) \/ Removed(q) \/ RingOf(q)' = RingOf(q)
<1>1. TypeOK
  BY DEF CountInv
<1>2. CASE CopyRequest
  BY <1>1, <1>2, RingCopy
<1>3. CASE AdvanceBack
  BY <1>3, RingAppend
<1>4. CASE Pop
  BY <1>1, <1>4, RingRemove
<1>5. CASE PopEmptyNull \/ PopEmptyStray
  BY <1>5, PopFinds DEF PopEmptyNull, PopEmptyStray, PopFindsRequest
<1>6. CASE /\ ~CopyRequest /\ ~AdvanceBack /\ ~Pop
           /\ ~PopEmptyNull /\ ~PopEmptyStray
  <2>1. UNCHANGED rings
    BY <1>6 DEF Next, Client, Command, Register, BeginIteration, SendRequest, Write,
       Receiver, Select, ReadRegistration, ReadOrder, FaultOnFragment,
       ReceiverReadSize, ReceiverLock, PostCounter, DropWhenFull,
       FaultOnZeroSlots, LeaveRing, Sender, ReadMaxAuthServers, AwaitRequest,
       SenderReadSize, SenderLock, AcquireAeStates, AcquireShm, HandOff,
       NoFreeEngine
  <2> QED
    BY <2>1 DEF RingOf
<1> QED
  BY <1>2, <1>3, <1>4, <1>5, <1>6

LEMMA RingStart ==
  ASSUME Init, NEW q \in Queues
  PROVE  RingOf(q) = << >>
<1>1. Occupancy(0, 0, QueuePos) = 0
  BY ConfigAssumption DEF Occupancy, readConfigFile
<1>2. Contents(slots[q], 0, 0, QueuePos) = << >>
  BY <1>1 DEF Contents
<1> QED
  BY <1>2 DEF Init, RingOf

\* With fresh counters videoQueue is a first-in first-out queue of QUEUE_POS - 1
\* requests to addToQueue and getFromVideoQueue, also with no slot at all.
THEOREM VideoImplements == NothingLeftOver => (Spec => VideoQueueIsFifo)
<1> SUFFICES ASSUME NothingLeftOver PROVE Spec => VideoQueueIsFifo
  OBVIOUS
<1>1. Init => VideoFifo!Init
  BY RingStart DEF VideoFifo!Init, Queues
<1>2. CountInv /\ InHand /\ [Next]_vars => [VideoFifo!Next]_(RingOf("video"))
  BY RingStep
  DEF Queues, Appended, Removed, VideoFifo!Next, VideoFifo!Put, VideoFifo!Take
<1> QED
  BY <1>1, <1>2, CountInvariant, InHandInvariant, PTL
  DEF Spec, VideoQueueIsFifo, VideoFifo!Spec

\* The same of otherQueue, to addToQueue and getFromOtherQueue.
THEOREM OtherImplements == NothingLeftOver => (Spec => OtherQueueIsFifo)
<1> SUFFICES ASSUME NothingLeftOver PROVE Spec => OtherQueueIsFifo
  OBVIOUS
<1>1. Init => OtherFifo!Init
  BY RingStart DEF OtherFifo!Init, Queues
<1>2. CountInv /\ InHand /\ [Next]_vars => [OtherFifo!Next]_(RingOf("other"))
  BY RingStep
  DEF Queues, Appended, Removed, OtherFifo!Next, OtherFifo!Put, OtherFifo!Take
<1> QED
  BY <1>1, <1>2, CountInvariant, InHandInvariant, PTL
  DEF Spec, OtherQueueIsFifo, OtherFifo!Spec
================================================================================
