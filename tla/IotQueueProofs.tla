----------------------------- MODULE IotQueueProofs ----------------------------
(***************************************************************************)
(* Theorems about the messages on their way through IotDispatch: the       *)
(* internal queue is a priority queue, and the messages of a client keep   *)
(* their order from its write to the worker's pipe.                        *)
(***************************************************************************)
EXTENDS IotDispatchProofs, RingProofs

USE DEF vars, clients, ring, readers, dispatcher, workers, offClients, offReaders,
        offDispatcher, offWorkers

--------------------------------------------------------------------------------
(* The internal queue implements PriorityFifo *)

\* Between its full test and the move of back a reader is alone in the queue:
\* it still has room.
RoomLeft == \A f \in Fifos : rpc[f] = "advance" => ~QueueFull

\* Between its look at the indices and the take the dispatcher is alone: there
\* is still a message.
TakeFinds == dpc = "take" => queue_front # queue_back

QueueInv == Inv /\ RoomLeft /\ TakeFinds


LEMMA RingFacts ==
  ASSUME TypeOK
  PROVE  /\ queusize \in Nat \ {0}
         /\ queue_front \in 0 .. (queusize - 1)
         /\ queue_back \in 0 .. (queusize - 1)
         /\ internal_queue \in [0 .. (queusize - 1) -> Text]
  BY ConfigAssumption DEF TypeOK, Slots, read_conf

\* The steps that leave the queue alone.
LEMMA QueueUntouched ==
  ASSUME Next, ~TakeMessage, ~(\E f \in Fifos : CopyMessage(f) \/ AdvanceBack(f))
  PROVE  UNCHANGED ring
  BY DEF Next, Client, Open, Send, Close, Reader, ReadFifo, ExitReader, ReaderLock,
         DropWhenFull, Dispatcher, DispatcherLock, LookAtWorker, WriteToWorker,
         Worker, WorkerRead, MarkBusy, Carry, Die, MarkFree, Listen

LEMMA RoomLeftStep ==
  ASSUME QueueInv, Next
  PROVE  RoomLeft'
<1>1. TypeOK /\ QueueMutex /\ RoomLeft
  BY DEF QueueInv, Inv
<1>2. CASE TakeMessage
  <2>1. ~InsideReader("console") /\ ~InsideReader("sensor") /\ UNCHANGED rpc
    BY <1>1, <1>2, MutexFacts DEF TakeMessage
  <2> QED
    BY <2>1 DEF InsideReader, RoomLeft, Fifos
<1>3. ASSUME NEW f \in Fifos, CopyMessage(f)
      PROVE  RoomLeft'
  BY <1>1, <1>3 DEF CopyMessage, RoomLeft, QueueFull, TypeOK
<1>4. ASSUME NEW f \in Fifos, AdvanceBack(f)
      PROVE  RoomLeft'
  <2>1. \A g \in Fifos : g # f => ~InsideReader(g)
    BY <1>1, <1>4, MutexFacts DEF AdvanceBack, InsideReader, Fifos
  <2> QED
    BY <1>1, <1>4, <2>1 DEF AdvanceBack, RoomLeft, InsideReader, TypeOK
<1>5. CASE ~TakeMessage /\ ~(\E f \in Fifos : CopyMessage(f) \/ AdvanceBack(f))
  <2>1. UNCHANGED ring
    BY <1>5, QueueUntouched
  <2>2. \A f \in Fifos : rpc'[f] = "advance" => rpc[f] = "advance"
    BY <1>1, <1>5 DEF TypeOK, Next, Client, Open, Send, Close, Reader, ReadFifo,
      ExitReader, ReaderLock, DropWhenFull, Dispatcher, DispatcherLock,
      LookAtWorker, WriteToWorker, Worker, WorkerRead, MarkBusy, Carry, Die,
      MarkFree, Listen
  <2> QED
    BY <1>1, <2>1, <2>2 DEF RoomLeft, QueueFull
<1> QED
  BY <1>2, <1>3, <1>4, <1>5

LEMMA TakeFindsStep ==
  ASSUME QueueInv, Next
  PROVE  TakeFinds'
<1>1. TypeOK /\ QueueMutex /\ TakeFinds
  BY DEF QueueInv, Inv
<1>2. CASE TakeMessage
  BY <1>2 DEF TakeMessage, TakeFinds
<1>3. ASSUME NEW f \in Fifos, CopyMessage(f) \/ AdvanceBack(f)
      PROVE  TakeFinds'
  <2>1. InsideReader(f)
    BY <1>3 DEF CopyMessage, AdvanceBack, InsideReader
  <2>2. dpc # "take"
    BY <1>1, <2>1, MutexFacts DEF Fifos
  <2> QED
    BY <1>3, <2>2 DEF CopyMessage, AdvanceBack, TakeFinds
<1>4. CASE ~TakeMessage /\ ~(\E f \in Fifos : CopyMessage(f) \/ AdvanceBack(f))
  <2>1. UNCHANGED ring
    BY <1>4, QueueUntouched
  <2>2. dpc' = "take" => dpc = "take" \/ queue_front # queue_back
    BY <1>4 DEF Next, Client, Open, Send, Close, Reader, ReadFifo,
      ExitReader, ReaderLock, DropWhenFull, Dispatcher, DispatcherLock,
      LookAtWorker, WriteToWorker, Worker, WorkerRead, MarkBusy, Carry, Die,
      MarkFree, Listen
  <2> QED
    BY <1>1, <2>1, <2>2 DEF TakeFinds
<1> QED
  BY <1>2, <1>3, <1>4

LEMMA QueueInvariant == Spec => []QueueInv
<1>1. Init => QueueInv
  BY InitInv DEF Init, QueueInv, RoomLeft, TakeFinds
<1>2. QueueInv /\ [Next]_vars => QueueInv'
  <2>1. CASE Next
    <3>1. QueueInv => Inv'
      BY <2>1, ClientInv, ReaderInv, DispatcherInv, WorkerInv, ListenInv
      DEF QueueInv, Next
    <3> QED
      BY <2>1, <3>1, RoomLeftStep, TakeFindsStep DEF QueueInv
  <2>2. CASE UNCHANGED vars
    BY <2>2, StutterInv DEF QueueInv, RoomLeft, TakeFinds, QueueFull
  <2> QED
    BY <2>1, <2>2
<1> QED
  BY <1>1, <1>2, PTL DEF Spec

\* The state function that stands for the abstract queue.
queue == Contents(internal_queue, queue_front, queue_back, queusize)

\* The message getqueue chooses is the k-th of the queue: the first one of a
\* console, or the first one when there is none of a console.
LEMMA ChosenPlace ==
  ASSUME TypeOK, queue_front # queue_back, NEW s \in Slots, IsChosen(s)
  PROVE  \E k \in 1 .. Len(queue) :
           /\ s = Place(queue_front, k - 1, queusize)
           /\ queue[k] = internal_queue[s]
           /\ \A j \in 1 .. (k - 1) : ~queue[j].prio
           /\ ~queue[k].prio => k = 1 /\ \A j \in 1 .. Len(queue) : ~queue[j].prio
<1> DEFINE n == queusize
           o == Occupancy(queue_front, queue_back, n)
           at(k) == Place(queue_front, k - 1, n)
<1>1. /\ n \in Nat \ {0} /\ queue_front \in 0 .. (n - 1)
      /\ queue_back \in 0 .. (n - 1) /\ internal_queue \in [0 .. (n - 1) -> Text]
  BY RingFacts
<1>2. o \in 1 .. (n - 1)
  BY <1>1, OccupancyValue, SMTT(20)
<1> HIDE DEF n
<1>3. Len(queue) = o /\ \A k \in 1 .. o : queue[k] = internal_queue[at(k)]
  BY <1>1, ContentsType, ZenonT(30) DEF queue, n
<1> HIDE DEF o
<1>4. ASSUME NEW k \in 1 .. o
      PROVE  at(k) \in Queued /\ Ahead(at(k)) = k - 1
  <2>1. k - 1 \in 0 .. (o - 1) /\ k - 1 \in 0 .. (n - 1)
    BY <1>1, <1>2
  <2>2. at(k) \in Queued
    BY <2>1 DEF Queued, o, n
  <2>3. Occupancy(queue_front, at(k), n) = k - 1
    BY <1>1, <2>1, PlaceStep
  <2> QED
    BY <2>2, <2>3 DEF Ahead, n
<1>5. ASSUME NEW r \in Queued
      PROVE  \E k \in 1 .. o : r = at(k)
  <2>1. PICK i \in 0 .. (o - 1) : r = Place(queue_front, i, n)
    BY DEF Queued, o, n
  <2>2. i + 1 \in 1 .. o /\ (i + 1) - 1 = i
    BY <1>2
  <2> QED
    BY <2>1, <2>2
<1>6. CASE UrgentSlots = {}
  <2>1. s = queue_front
    BY <1>6 DEF IsChosen
  <2>2. at(1) = queue_front
    <3>1. 0 \in 0 .. n
      BY <1>1
    <3>2. Place(queue_front, 0, n) = queue_front
      BY <1>1, <3>1, PlaceValue
    <3> QED
      BY <3>2
  <2>3. \A j \in 1 .. o : ~queue[j].prio
    BY <1>3, <1>4, <1>6 DEF UrgentSlots
  <2>4. 1 \in 1 .. Len(queue) /\ 1 .. (1 - 1) = {} /\ 1 .. Len(queue) = 1 .. o
    BY <1>1, <1>2, <1>3
  <2>5. s = at(1) /\ queue[1] = internal_queue[s]
    BY <1>3, <2>1, <2>2, <2>4
  <2> QED
    BY <2>3, <2>4, <2>5 DEF n
<1>7. CASE UrgentSlots # {}
  <2>1. s \in UrgentSlots /\ \A r \in UrgentSlots : Ahead(s) <= Ahead(r)
    BY <1>7 DEF IsChosen
  <2>2. PICK k \in 1 .. o : s = at(k)
    BY <1>5, <2>1 DEF UrgentSlots
  <2>3. Ahead(s) = k - 1
    BY <1>4, <2>2
  <2>4. ASSUME NEW j \in 1 .. (k - 1) PROVE ~queue[j].prio
    <3>1. j \in 1 .. o
      BY <1>2
    <3>2. Ahead(at(j)) = j - 1 /\ at(j) \in Queued
      BY <1>4, <3>1
    <3>3. at(j) \notin UrgentSlots
      BY <2>1, <2>3, <3>2
    <3> QED
      BY <1>3, <3>1, <3>2, <3>3 DEF UrgentSlots
  <2>5. queue[k] = internal_queue[s] /\ queue[k].prio
    BY <1>3, <2>1, <2>2 DEF UrgentSlots
  <2> QED
    BY <1>3, <2>2, <2>4, <2>5 DEF n
<1> QED
  BY <1>6, <1>7

\* Moving front behind the k-th message takes it and those before it out.
LEMMA TakeDrops ==
  ASSUME TypeOK, NEW k \in 1 .. Len(queue), UNCHANGED <<internal_queue, queue_back>>,
         queue_front' = Advance(Place(queue_front, k - 1, queusize), queusize)
  PROVE  queue' = SubSeq(queue, k + 1, Len(queue))
<1> DEFINE n == queusize
           o == Occupancy(queue_front, queue_back, n)
<1>1. /\ n \in Nat \ {0} /\ queue_front \in 0 .. (n - 1)
      /\ queue_back \in 0 .. (n - 1) /\ internal_queue \in [0 .. (n - 1) -> Text]
  BY RingFacts
<1>2. Len(queue) = o
  BY <1>1, ContentsType DEF queue
<1>3. o \in 0 .. (n - 1)
  BY <1>1, OccupancyValue
<1>4. queue_front' = Place(queue_front, k, n)
  <2>1. k - 1 \in 0 .. (n - 1) /\ (k - 1) + 1 = k
    BY <1>1, <1>2, <1>3
  <2>2. Advance(Place(queue_front, k - 1, n), n) = Place(queue_front, (k - 1) + 1, n)
    BY <1>1, <2>1, PlaceStep
  <2> QED
    BY <2>1, <2>2
<1>5. Contents(internal_queue, Place(queue_front, k, n), queue_back, n)
        = SubSeq(queue, k + 1, o)
  <2>1. k \in 1 .. Occupancy(queue_front, queue_back, n)
    BY <1>2
  <2> QED
    BY <1>1, <2>1, AdvanceFrontDrops DEF queue
<1> QED
  BY <1>2, <1>4, <1>5 DEF queue

\* What the dispatcher takes is what PriorityFifo lets go.
LEMMA TakeTakes ==
  ASSUME QueueInv, TakeMessage
  PROVE  Queue!TakeUrgent \/ Queue!TakeFirst
<1>1. TypeOK /\ queue_front # queue_back
  BY DEF QueueInv, Inv, TakeFinds, TakeMessage
<1>2. PICK s \in Slots : IsChosen(s) /\ queue_front' = Advance(s, queusize)
  BY DEF TakeMessage
<1>3. PICK k \in 1 .. Len(queue) :
        /\ s = Place(queue_front, k - 1, queusize)
        /\ \A j \in 1 .. (k - 1) : ~queue[j].prio
        /\ ~queue[k].prio => k = 1 /\ \A j \in 1 .. Len(queue) : ~queue[j].prio
  BY <1>1, <1>2, ChosenPlace
<1>4. queue' = SubSeq(queue, k + 1, Len(queue))
  BY <1>1, <1>2, <1>3, TakeDrops DEF TakeMessage
<1>5. CASE queue[k].prio
  BY <1>3, <1>4, <1>5 DEF Queue!TakeUrgent, Queue!TakeAt, IsUrgent, queue
<1>6. CASE ~queue[k].prio
  <2>1. queue # << >>
    BY <1>3
  <2> QED
    BY <1>3, <1>4, <1>6, <2>1 DEF Queue!TakeFirst, Queue!TakeAt, IsUrgent, queue
<1> QED
  BY <1>5, <1>6

\* The two steps of an insertion.
LEMMA CopyKeeps ==
  ASSUME QueueInv, NEW f \in Fifos, CopyMessage(f)
  PROVE  queue' = queue
<1>1. /\ queusize \in Nat \ {0} /\ queue_front \in 0 .. (queusize - 1)
      /\ queue_back \in 0 .. (queusize - 1)
      /\ internal_queue \in [0 .. (queusize - 1) -> Text]
  BY RingFacts DEF QueueInv, Inv
<1>2. Contents([internal_queue EXCEPT ![queue_back] = buffer[f]], queue_front,
               queue_back, queusize) = queue
  BY <1>1, CopyAtBack, ZenonT(30) DEF queue
<1> QED
  BY <1>2 DEF CopyMessage, queue

LEMMA AdvancePuts ==
  ASSUME QueueInv, NEW f \in Fifos, AdvanceBack(f)
  PROVE  /\ Len(queue) < queusize - 1
         /\ queue' = Append(queue, internal_queue[queue_back])
         /\ internal_queue[queue_back] \in Text
<1>1. /\ queusize \in Nat \ {0} /\ queue_front \in 0 .. (queusize - 1)
      /\ queue_back \in 0 .. (queusize - 1)
      /\ internal_queue \in [0 .. (queusize - 1) -> Text]
  BY RingFacts DEF QueueInv, Inv
<1>2. ~RingFull(queue_front, queue_back, queusize)
  BY DEF QueueInv, RoomLeft, QueueFull, AdvanceBack
<1>3. Contents(internal_queue, queue_front, Advance(queue_back, queusize), queusize)
        = Append(queue, internal_queue[queue_back])
  BY <1>1, <1>2, AdvanceBackAppends DEF queue
<1>4. Len(queue) < queusize - 1
  <2>1. Len(queue) = Occupancy(queue_front, queue_back, queusize)
    BY <1>1, ContentsType DEF queue
  <2> QED
    BY <1>1, <1>2, <2>1, OccupancyValue
<1> QED
  BY <1>1, <1>3, <1>4 DEF AdvanceBack, queue

\* read_thread, add_to_queue and getqueue keep the promise of PriorityFifo: a
\* queue of queusize - 1 messages which a reader appends to, and from which the
\* dispatcher takes the first console message, or the first message.
THEOREM QueueImplements == Spec => QueueIsPriorityFifo
<1>1. Init => Queue!Init
  <2> SUFFICES ASSUME Init PROVE Contents(internal_queue, 0, 0, queusize) = << >>
    BY DEF Init, Queue!Init
  <2>1. Occupancy(0, 0, queusize) = 0
    BY DEF Occupancy
  <2> QED
    BY <2>1 DEF Contents
<1>2. QueueInv /\ [Next]_vars => [Queue!Next]_queue
  <2>1. SUFFICES ASSUME QueueInv, Next PROVE Queue!Next \/ queue' = queue
    BY DEF queue
  <2>2. CASE TakeMessage
    BY <2>1, <2>2, TakeTakes DEF Queue!Next
  <2>3. ASSUME NEW f \in Fifos, CopyMessage(f) PROVE queue' = queue
    BY <2>1, <2>3, CopyKeeps
  <2>4. ASSUME NEW f \in Fifos, AdvanceBack(f) PROVE Queue!Next
    BY <2>1, <2>4, AdvancePuts DEF Queue!Next, Queue!Put, queue
  <2>5. CASE ~TakeMessage /\ ~(\E f \in Fifos : CopyMessage(f) \/ AdvanceBack(f))
    BY <2>1, <2>5, QueueUntouched DEF queue
  <2> QED
    BY <2>2, <2>3, <2>4, <2>5
<1> QED
  BY <1>1, <1>2, QueueInvariant, PTL DEF QueueIsPriorityFifo, Spec, Queue!Spec, queue

--------------------------------------------------------------------------------
(* The messages of a client keep their order *)

\* The reader has a string in its buffer that is not in the queue yet.
InTransit(f) == rpc[f] \in {"lock", "insert", "advance"}

\* The messages at each stage of the way, from the worker's end to the client's.
Held     == IF dpc \in {"scan", "write"} THEN {internal_queue[message].msg} ELSE {}
Waiting  == {queue[k].msg : k \in 1 .. Len(queue)}
Buffered == {buffer[f].msg : f \in {g \in Fifos : InTransit(g)}}
MsgAt(f, i) == fifo[f][i].text.msg
Piped    == UNION {{MsgAt(f, i) : i \in 1 .. Len(fifo[f])} : f \in Fifos}
OnTheWay == Held \union Waiting \union Buffered \union Piped

\* Of one client, the messages of A were sent before those of B.
Precede(A, B) == \A a \in A : \A b \in B : a.from = b.from => a.n < b.n

StagesInOrder ==
  /\ Precede(Held, Waiting \union Buffered \union Piped)
  /\ Precede(Waiting, Buffered \union Piped)
  /\ Precede(Buffered, Piped)

\* What is on the way was sent, and was not written to a worker yet.
SentNotWritten ==
  /\ \A m \in OnTheWay :
       m \in Message /\ lastWritten[m.from] < m.n /\ m.n <= sent[m.from]
  /\ \A c \in Clients : lastWritten[c] <= sent[c]

\* Only the two cells of one message have the same number.
PipesInOrder ==
  \A f \in Fifos : \A i, j \in 1 .. Len(fifo[f]) :
    i < j /\ MsgAt(f, i).from = MsgAt(f, j).from
      => \/ MsgAt(f, i).n < MsgAt(f, j).n
         \/ MsgAt(f, i).n = MsgAt(f, j).n /\ j = i + 1

QueueInOrder ==
  \A i, j \in 1 .. Len(queue) :
    i < j /\ queue[i].msg.from = queue[j].msg.from
      => queue[i].msg.n < queue[j].msg.n

\* A reader holds messages of the clients that write to its pipe.
OwnFifo ==
  \A f \in Fifos :
    /\ InTransit(f) => FifoOf(buffer[f].msg.from) = f
    /\ \A i \in 1 .. Len(fifo[f]) : FifoOf(MsgAt(f, i).from) = f

\* What AdvanceBack adds to the queue is what the reader has in its buffer.
CopyInPlace ==
  \A f \in Fifos : rpc[f] = "advance" => internal_queue[queue_back] = buffer[f]

Line == /\ StagesInOrder /\ SentNotWritten /\ PipesInOrder /\ QueueInOrder
        /\ OwnFifo /\ CopyInPlace

LEMMA MessageNumber ==
  ASSUME NEW m \in Message
  PROVE  m.from \in Clients /\ m.n \in Nat
<1>1. PICK c \in Clients :
        m \in [from : {c}, effect : EffectsOf(c), n : 1 .. MaxSent[c]]
  BY Zenon DEF Message
<1>2. MaxSent[c] \in Nat
  BY ConfigAssumption DEF read_conf
<1> QED
  BY <1>1, <1>2

\* Steps that leave every message at its stage.
LEMMA LineFrame ==
  ASSUME Line, CopyInPlace', queue' = queue, Held' = Held,
         UNCHANGED <<fifo, sent, buffer, lastWritten>>,
         \A f \in Fifos : InTransit(f)' = InTransit(f)
  PROVE  Line'
<1>1. Buffered' = Buffered
  BY DEF Buffered
<1>2. Waiting' = Waiting /\ Piped' = Piped
  BY DEF Waiting, Piped, MsgAt
<1>3. StagesInOrder' /\ SentNotWritten'
  BY <1>1, <1>2 DEF Line, StagesInOrder, Precede, SentNotWritten, OnTheWay
<1>4. PipesInOrder' /\ QueueInOrder' /\ OwnFifo'
  BY DEF Line, PipesInOrder, QueueInOrder, OwnFifo, MsgAt, InTransit
<1> QED
  BY <1>3, <1>4 DEF Line

\* The dispatcher's slot and the cell at back are two.
LEMMA HeldNotAtBack ==
  ASSUME QueueInv, dpc \in {"scan", "write"}, ~QueueFull
  PROVE  message # queue_back
  BY DEF QueueInv, Inv, HeldBehindFront, QueueFull, RingFull

LEMMA LineQuiet ==
  ASSUME QueueInv, Line, Next, ~TakeMessage, ~WriteToWorker,
         ~(\E c \in Clients : Send(c)),
         ~(\E f \in Fifos : \/ ReadFifo(f) \/ DropWhenFull(f)
                            \/ CopyMessage(f) \/ AdvanceBack(f))
  PROVE  Line'
<1>1. UNCHANGED <<ring, fifo, sent, buffer, lastWritten, message>>
  BY DEF Next, Client, Open, Close, Reader, ExitReader, ReaderLock, Dispatcher,
    DispatcherLock, LookAtWorker, Worker, WorkerRead, MarkBusy, Carry, Die,
    MarkFree, Listen
<1>2. dpc' \in {"scan", "write"} <=> dpc \in {"scan", "write"}
  BY DEF Next, Client, Open, Close, Reader, ExitReader, ReaderLock, Dispatcher,
    DispatcherLock, LookAtWorker, Worker, WorkerRead, MarkBusy, Carry, Die,
    MarkFree, Listen
<1>3. ASSUME NEW f \in Fifos
      PROVE  /\ InTransit(f)' = InTransit(f)
             /\ rpc'[f] = "advance" => rpc[f] = "advance"
  BY DEF QueueInv, Inv, TypeOK, InTransit, Next, Client, Open, Close, Reader,
    ExitReader, ReaderLock, Dispatcher, DispatcherLock, LookAtWorker, Worker,
    WorkerRead, MarkBusy, Carry, Die, MarkFree, Listen
<1>4. CopyInPlace'
  BY <1>1, <1>3 DEF Line, CopyInPlace
<1>5. Held' = Held /\ queue' = queue
  BY <1>1, <1>2 DEF Held, queue
<1> QED
  BY <1>1, <1>3, <1>4, <1>5, LineFrame

LEMMA LineCopy ==
  ASSUME QueueInv, Line, NEW f \in Fifos, CopyMessage(f)
  PROVE  Line'
<1>1. TypeOK /\ QueueMutex
  BY DEF QueueInv, Inv
<1>2. queue' = queue
  BY CopyKeeps
<1>3. Held' = Held
  BY <1>1, HeldNotAtBack DEF CopyMessage, Held, TypeOK
<1>4. \A g \in Fifos : InTransit(g)' = InTransit(g)
  BY <1>1 DEF CopyMessage, InTransit, TypeOK
<1>5. CopyInPlace'
  <2>1. \A g \in Fifos : g # f => ~InsideReader(g)
    BY <1>1, MutexFacts DEF CopyMessage, InsideReader, Fifos
  <2> QED
    BY <1>1, <2>1 DEF CopyMessage, CopyInPlace, InsideReader, TypeOK
<1> QED
  BY <1>2, <1>3, <1>4, <1>5, LineFrame DEF CopyMessage

LEMMA LineDrop ==
  ASSUME QueueInv, Line, NEW f \in Fifos, DropWhenFull(f)
  PROVE  Line'
<1>1. TypeOK
  BY DEF QueueInv, Inv
<1>2. ASSUME NEW g \in Fifos
      PROVE  /\ InTransit(g)' => InTransit(g)
             /\ rpc'[g] = "advance" => rpc[g] = "advance"
  BY <1>1 DEF DropWhenFull, InTransit, TypeOK
<1>3. Buffered' \subseteq Buffered
  BY <1>2 DEF Buffered, DropWhenFull
<1>4. queue' = queue /\ Waiting' = Waiting /\ Piped' = Piped /\ Held' = Held
  BY DEF DropWhenFull, queue, Waiting, Piped, Held, MsgAt
<1>5. StagesInOrder' /\ SentNotWritten'
  BY <1>3, <1>4
  DEF Line, StagesInOrder, Precede, SentNotWritten, OnTheWay, DropWhenFull
<1>6. PipesInOrder' /\ QueueInOrder' /\ OwnFifo' /\ CopyInPlace'
  BY <1>2, <1>4
  DEF Line, PipesInOrder, QueueInOrder, OwnFifo, CopyInPlace, DropWhenFull, MsgAt
<1> QED
  BY <1>5, <1>6 DEF Line

\* What is at the stages behind the pipes is as old as what is in the pipes, or
\* older: a new message is newer than all of it.
LEMMA LineSend ==
  ASSUME QueueInv, Line, NEW c \in Clients, Send(c)
  PROVE  Line'
<1>1. TypeOK
  BY DEF QueueInv, Inv
<1>2. PICK e \in EffectsOf(c) :
        fifo' = [fifo EXCEPT ![FifoOf(c)] =
          @ \o CellsOf(WholeText([from |-> c, effect |-> e, n |-> sent[c] + 1]))]
  BY DEF Send
<1> DEFINE m == [from |-> c, effect |-> e, n |-> sent[c] + 1]
           p == FifoOf(c)
           len == Len(fifo[p])
<1>3. m \in Message /\ m.from = c /\ m.n = sent[c] + 1
  <2>1. sent[c] + 1 \in 1 .. MaxSent[c]
    BY <1>1, ConfigAssumption DEF Send, TypeOK, read_conf
  <2> QED
    BY <2>1, SentType
<1>4. p \in Fifos
  BY DEF FifoOf, Fifos
<1>5. sent' = [sent EXCEPT ![c] = sent[c] + 1] /\ sent[c] \in Nat
  BY <1>1 DEF Send, TypeOK
<1> HIDE DEF m, p
<1>6. /\ len \in Nat /\ Len(fifo'[p]) = len + 2
      /\ \A i \in 1 .. len : MsgAt(p, i)' = MsgAt(p, i)
      /\ \A i \in {len + 1, len + 2} : MsgAt(p, i)' = m
  <2> DEFINE a == [text |-> WholeText(m), head |-> TRUE]
             b == [text |-> WholeText(m), head |-> FALSE]
             old == fifo[p]
  <2>1. CellsOf(WholeText(m)) = << a, b >>
    BY DEF CellsOf, WholeText
  <2>2. a \in Cell /\ b \in Cell /\ a.text.msg = m /\ b.text.msg = m
    BY <1>3, TextType DEF Cell, WholeText
  <2>3. fifo'[p] = old \o << a, b >> /\ old \in Seq(Cell)
    BY <1>1, <1>2, <1>4, <2>1 DEF TypeOK, m, p
  <2> HIDE DEF a, b, old
  <2>4. << a, b >> \in Seq(Cell) /\ Len(<< a, b >>) = 2
    BY <2>2
  <2>5. /\ Len(old) \in Nat /\ Len(fifo'[p]) = Len(old) + 2
        /\ \A i \in 1 .. Len(old) : fifo'[p][i] = old[i]
        /\ fifo'[p][Len(old) + 1] = a /\ fifo'[p][Len(old) + 2] = b
    BY <2>2, <2>3, <2>4
  <2> QED
    BY <2>2, <2>5 DEF MsgAt, old
<1>7. \A f \in Fifos : f # p =>
        fifo'[f] = fifo[f] /\ \A i : MsgAt(f, i)' = MsgAt(f, i)
  BY <1>1, <1>2 DEF TypeOK, MsgAt, m, p
<1>8. Piped' \subseteq Piped \union {m}
  <2>1. ASSUME NEW f \in Fifos, NEW i \in 1 .. Len(fifo'[f])
        PROVE  MsgAt(f, i)' \in Piped \union {m}
    <3>1. CASE f = p
      <4>1. i \in 1 .. len \/ i \in {len + 1, len + 2}
        BY <1>6, <3>1
      <4> QED
        BY <1>4, <1>6, <3>1, <4>1 DEF Piped
    <3>2. CASE f # p
      BY <1>7, <3>2 DEF Piped
    <3> QED
      BY <3>1, <3>2
  <2> QED
    BY <2>1 DEF Piped
<1>9. Held' = Held /\ queue' = queue /\ Waiting' = Waiting /\ Buffered' = Buffered
  BY DEF Send, Held, queue, Waiting, Buffered, InTransit
<1>10. ASSUME NEW d \in Clients
       PROVE  /\ sent[d] \in Nat /\ sent'[d] \in Nat /\ sent[d] <= sent'[d]
              /\ lastWritten'[d] = lastWritten[d] /\ lastWritten[d] \in Nat
              /\ lastWritten[d] <= sent[d]
  BY <1>1, <1>5 DEF Send, TypeOK, Line, SentNotWritten
<1>11. \A a \in OnTheWay : /\ a \in Message /\ a.from \in Clients /\ a.n \in Nat
                           /\ lastWritten[a.from] < a.n /\ a.n <= sent[a.from]
  BY MessageNumber DEF Line, SentNotWritten
<1>12. SentNotWritten'
  <2>1. OnTheWay' \subseteq OnTheWay \union {m}
    BY <1>8, <1>9 DEF OnTheWay
  <2>2. lastWritten'[c] < m.n /\ m.n <= sent'[c]
    <3>1. sent'[c] = sent[c] + 1
      BY <1>1, <1>5 DEF TypeOK
    <3> QED
      BY <1>3, <1>5, <1>10, <3>1
  <2>3. ASSUME NEW a \in OnTheWay
        PROVE  lastWritten'[a.from] < a.n /\ a.n <= sent'[a.from]
    BY <1>10, <1>11
  <2>4. \A d \in Clients : lastWritten'[d] <= sent'[d]
    BY <1>10
  <2>5. \A a \in OnTheWay' :
          a \in Message /\ lastWritten'[a.from] < a.n /\ a.n <= sent'[a.from]
    BY <1>3, <1>11, <2>1, <2>2, <2>3
  <2> QED
    BY <2>4, <2>5 DEF SentNotWritten
<1>13. \A a \in OnTheWay : a.from = c => a.n < m.n
  BY <1>3, <1>5, <1>11
<1>14. StagesInOrder'
  BY <1>3, <1>8, <1>9, <1>13 DEF Line, StagesInOrder, Precede, OnTheWay
<1>15. PipesInOrder'
  <2>1. ASSUME NEW f \in Fifos, NEW i \in 1 .. Len(fifo'[f]),
               NEW j \in 1 .. Len(fifo'[f]), i < j,
               MsgAt(f, i)'.from = MsgAt(f, j)'.from
        PROVE  \/ MsgAt(f, i)'.n < MsgAt(f, j)'.n
               \/ MsgAt(f, i)'.n = MsgAt(f, j)'.n /\ j = i + 1
    <3>1. CASE f # p
      BY <1>7, <2>1, <3>1 DEF Line, PipesInOrder
    <3>2. CASE f = p /\ j \in 1 .. len
      <4>1. i \in 1 .. len
        BY <2>1, <3>2
      <4> QED
        BY <1>4, <1>6, <2>1, <3>2, <4>1 DEF Line, PipesInOrder
    <3>3. CASE f = p /\ j \in {len + 1, len + 2} /\ i \in 1 .. len
      <4>1. MsgAt(p, i) \in OnTheWay
        BY <1>4, <3>3 DEF OnTheWay, Piped
      <4> QED
        BY <1>3, <1>6, <1>13, <2>1, <3>3, <4>1
    <3>4. CASE f = p /\ j \in {len + 1, len + 2} /\ i \notin 1 .. len
      <4>1. i = len + 1 /\ j = len + 2
        BY <1>6, <2>1, <3>4
      <4> QED
        BY <1>6, <3>4, <4>1
    <3> QED
      BY <1>6, <3>1, <3>2, <3>3, <3>4
  <2> QED
    BY <2>1 DEF PipesInOrder
<1>16. OwnFifo'
  <2>1. ASSUME NEW f \in Fifos, NEW i \in 1 .. Len(fifo'[f])
        PROVE  FifoOf(MsgAt(f, i)'.from) = f
    <3>1. CASE f # p
      BY <1>7, <3>1 DEF Line, OwnFifo
    <3>2. CASE f = p /\ i \in 1 .. len
      BY <1>4, <1>6, <3>2 DEF Line, OwnFifo
    <3>3. CASE f = p /\ i \in {len + 1, len + 2}
      BY <1>3, <1>6, <3>3 DEF p
    <3> QED
      BY <1>6, <3>1, <3>2, <3>3
  <2> QED
    BY <2>1 DEF OwnFifo, Line, Send, InTransit
<1>17. QueueInOrder' /\ CopyInPlace'
  BY <1>9 DEF Line, QueueInOrder, CopyInPlace, Send
<1> QED
  BY <1>12, <1>14, <1>15, <1>16, <1>17 DEF Line

LEMMA LineRead ==
  ASSUME QueueInv, Line, NEW f \in Fifos, ReadFifo(f)
  PROVE  Line'
<1>1. TypeOK
  BY DEF QueueInv, Inv
<1> DEFINE m == MsgAt(f, 1)
<1>2. fifo[f] \in Seq(Cell) /\ fifo[f] # << >>
  BY <1>1 DEF ReadFifo, TypeOK
<1>3. 1 \in 1 .. Len(fifo[f]) /\ Head(fifo[f]) = fifo[f][1]
  BY <1>2
<1>4. m \in Piped /\ FifoOf(m.from) = f
  BY <1>3 DEF Piped, Line, OwnFifo
<1>5. buffer'[f].msg = m /\ \A g \in Fifos : g # f => buffer'[g] = buffer[g]
  <2>1. PICK t \in TextsAt(fifo[f][1]) : buffer' = [buffer EXCEPT ![f] = t]
    BY <1>3 DEF ReadFifo
  <2>2. t.msg = m
    BY DEF TextsAt, TailTexts, MsgAt
  <2> QED
    BY <1>1, <2>1, <2>2 DEF TypeOK
<1>6. /\ Len(fifo'[f]) \in Nat
      /\ \A i \in 1 .. Len(fifo'[f]) :
           /\ i + ReadMax \in 1 .. Len(fifo[f])
           /\ MsgAt(f, i)' = MsgAt(f, i + ReadMax)
      /\ \A g \in Fifos : g # f =>
           fifo'[g] = fifo[g] /\ \A i : MsgAt(g, i)' = MsgAt(g, i)
  <2>1. fifo'[f] = SubSeq(fifo[f], ReadMax + 1, Len(fifo[f]))
    BY <1>1 DEF ReadFifo, TypeOK, Unread
  <2>2. \A g \in Fifos : g # f => fifo'[g] = fifo[g]
    BY <1>1 DEF ReadFifo, TypeOK
  <2>3. ReadMax \in Nat /\ Len(fifo[f]) \in Nat
    BY <1>2, ReadAssumption
  <2>4. /\ Len(fifo'[f]) \in Nat
        /\ \A i \in 1 .. Len(fifo'[f]) :
             /\ i + ReadMax \in 1 .. Len(fifo[f])
             /\ fifo'[f][i] = fifo[f][i + ReadMax]
    <3> DEFINE s == fifo[f]
    <3>1. s \in Seq(Cell) /\ fifo'[f] = SubSeq(s, ReadMax + 1, Len(s))
      BY <1>2, <2>1
    <3> HIDE DEF s
    <3> QED
      BY <2>3, <3>1 DEF s
  <2> QED
    BY <2>2, <2>4 DEF MsgAt
<1>7. \A g \in Fifos : InTransit(g)' = (InTransit(g) \/ g = f)
  BY <1>1 DEF ReadFifo, InTransit, TypeOK
<1>8. Buffered' \subseteq Buffered \union {m} /\ m \in Buffered'
  BY <1>5, <1>7 DEF Buffered
<1>9. Piped' \subseteq Piped
  <2>1. ASSUME NEW g \in Fifos, NEW i \in 1 .. Len(fifo'[g])
        PROVE  MsgAt(g, i)' \in Piped
    BY <1>6 DEF Piped
  <2> QED
    BY <2>1 DEF Piped
<1>10. Held' = Held /\ queue' = queue /\ Waiting' = Waiting
  BY DEF ReadFifo, Held, queue, Waiting
<1>11. Precede({m}, Piped')
  <2>1. ASSUME NEW g \in Fifos, NEW i \in 1 .. Len(fifo'[g]),
               MsgAt(g, i)'.from = m.from
        PROVE  m.n < MsgAt(g, i)'.n
    <3>1. g = f
      BY <1>4, <1>6, <2>1 DEF Line, OwnFifo
    <3>2. /\ i + ReadMax \in 1 .. Len(fifo[f]) /\ i + ReadMax > 1
          /\ i + ReadMax # 1 + 1
      BY <1>6, <3>1, ReadAssumption
    <3> QED
      BY <1>3, <1>6, <2>1, <3>1, <3>2 DEF Line, PipesInOrder
  <2> QED
    BY <2>1 DEF Precede, Piped
<1>12. Precede(Held \union Waiting, {m})
  BY <1>4 DEF Line, StagesInOrder, Precede
<1>13. StagesInOrder'
  BY <1>8, <1>9, <1>10, <1>11, <1>12 DEF Line, StagesInOrder, Precede
<1>14. SentNotWritten'
  <2>1. OnTheWay' \subseteq OnTheWay
    BY <1>4, <1>8, <1>9, <1>10 DEF OnTheWay
  <2> QED
    BY <2>1 DEF Line, SentNotWritten, ReadFifo
<1>15. PipesInOrder'
  <2>1. ASSUME NEW g \in Fifos, NEW i \in 1 .. Len(fifo'[g]),
               NEW j \in 1 .. Len(fifo'[g]), i < j,
               MsgAt(g, i)'.from = MsgAt(g, j)'.from
        PROVE  \/ MsgAt(g, i)'.n < MsgAt(g, j)'.n
               \/ MsgAt(g, i)'.n = MsgAt(g, j)'.n /\ j = i + 1
    <3>1. CASE g # f
      BY <1>6, <2>1, <3>1 DEF Line, PipesInOrder
    <3>2. CASE g = f
      <4>1. /\ i + ReadMax \in 1 .. Len(fifo[f]) /\ j + ReadMax \in 1 .. Len(fifo[f])
            /\ i + ReadMax < j + ReadMax
            /\ j + ReadMax = (i + ReadMax) + 1 => j = i + 1
        BY <1>6, <2>1, <3>2, ReadAssumption
      <4>2. /\ MsgAt(f, i)' = MsgAt(f, i + ReadMax)
            /\ MsgAt(f, j)' = MsgAt(f, j + ReadMax)
        BY <1>6, <2>1, <3>2
      <4> QED
        BY <2>1, <3>2, <4>1, <4>2 DEF Line, PipesInOrder
    <3> QED
      BY <3>1, <3>2
  <2> QED
    BY <2>1 DEF PipesInOrder
<1>16. OwnFifo'
  <2>1. ASSUME NEW g \in Fifos, NEW i \in 1 .. Len(fifo'[g])
        PROVE  FifoOf(MsgAt(g, i)'.from) = g
    BY <1>6 DEF Line, OwnFifo
  <2>2. ASSUME NEW g \in Fifos, InTransit(g)'
        PROVE  FifoOf(buffer'[g].msg.from) = g
    BY <1>4, <1>5, <1>7, <2>2 DEF Line, OwnFifo
  <2> QED
    BY <2>1, <2>2 DEF OwnFifo
<1>17. QueueInOrder' /\ CopyInPlace'
  <2>1. \A g \in Fifos : rpc'[g] = "advance" => rpc[g] = "advance" /\ g # f
    BY <1>1 DEF ReadFifo, TypeOK
  <2> QED
    BY <1>5, <1>10, <2>1 DEF Line, QueueInOrder, CopyInPlace, ReadFifo
<1> QED
  BY <1>13, <1>14, <1>15, <1>16, <1>17 DEF Line

LEMMA LineAdvance ==
  ASSUME QueueInv, Line, NEW f \in Fifos, AdvanceBack(f)
  PROVE  Line'
<1>1. TypeOK /\ QueueMutex
  BY DEF QueueInv, Inv
<1> DEFINE m == buffer[f].msg
<1>2. m \in Buffered /\ FifoOf(m.from) = f
  BY DEF AdvanceBack, Buffered, InTransit, Line, OwnFifo
<1>3. queue' = Append(queue, buffer[f]) /\ queue \in Seq(Text) /\ buffer[f] \in Text
  <2>1. internal_queue[queue_back] = buffer[f]
    BY DEF Line, CopyInPlace, AdvanceBack
  <2>2. queue \in Seq(Text)
    BY <1>1, RingFacts, ContentsType DEF queue
  <2> QED
    BY <1>1, <2>1, <2>2, AdvancePuts DEF TypeOK
<1> DEFINE len == Len(queue)
<1>4. /\ len \in Nat /\ Len(queue') = len + 1
      /\ \A k \in 1 .. len : queue'[k] = queue[k]
      /\ queue'[len + 1].msg = m
  <2> DEFINE q == queue
  <2>1. q \in Seq(Text) /\ queue' = Append(q, buffer[f])
    BY <1>3
  <2> HIDE DEF q
  <2> QED
    BY <1>3, <2>1 DEF q
<1>5. Waiting' \subseteq Waiting \union {m}
  <2>1. ASSUME NEW k \in 1 .. (len + 1)
        PROVE  queue'[k].msg \in Waiting \union {m}
    <3>1. k \in 1 .. len \/ k = len + 1
      BY <1>4
    <3> QED
      BY <1>4, <3>1 DEF Waiting
  <2> QED
    BY <1>4, <2>1 DEF Waiting
<1>6. /\ \A g \in Fifos : InTransit(g)' => InTransit(g) /\ g # f
      /\ \A g \in Fifos : rpc'[g] # "advance"
  <2>1. \A g \in Fifos : g # f => ~InsideReader(g)
    BY <1>1, MutexFacts DEF AdvanceBack, InsideReader, Fifos
  <2> QED
    BY <1>1, <2>1 DEF AdvanceBack, InTransit, InsideReader, TypeOK
<1>7. Buffered' \subseteq Buffered /\ Precede({m}, Buffered')
  <2>1. ASSUME NEW g \in Fifos, InTransit(g)'
        PROVE  /\ buffer'[g].msg \in Buffered
               /\ FifoOf(buffer'[g].msg.from) # f
    BY <1>6, <2>1 DEF Buffered, Line, OwnFifo, AdvanceBack
  <2> QED
    BY <1>2, <2>1 DEF Buffered, Precede
<1>8. Held' = Held /\ Piped' = Piped
  BY DEF AdvanceBack, Held, Piped, MsgAt
<1>9. StagesInOrder'
  BY <1>2, <1>5, <1>7, <1>8 DEF Line, StagesInOrder, Precede
<1>10. SentNotWritten'
  <2>1. OnTheWay' \subseteq OnTheWay
    BY <1>2, <1>5, <1>7, <1>8 DEF OnTheWay
  <2> QED
    BY <2>1 DEF Line, SentNotWritten, AdvanceBack
<1>11. QueueInOrder'
  <2>1. ASSUME NEW i \in 1 .. (len + 1), NEW j \in 1 .. (len + 1), i < j,
               queue'[i].msg.from = queue'[j].msg.from
        PROVE  queue'[i].msg.n < queue'[j].msg.n
    <3>1. i \in 1 .. len /\ queue'[i] = queue[i]
      BY <1>4, <2>1
    <3>2. CASE j \in 1 .. len
      BY <1>4, <2>1, <3>1, <3>2 DEF Line, QueueInOrder
    <3>3. CASE j = len + 1
      <4>1. queue[i].msg \in Waiting
        BY <3>1 DEF Waiting
      <4> QED
        BY <1>2, <1>4, <2>1, <3>1, <3>3, <4>1 DEF Line, StagesInOrder, Precede
    <3> QED
      BY <1>4, <3>2, <3>3
  <2> QED
    BY <1>4, <2>1 DEF QueueInOrder
<1>12. PipesInOrder' /\ OwnFifo' /\ CopyInPlace'
  BY <1>6 DEF Line, PipesInOrder, OwnFifo, CopyInPlace, AdvanceBack, MsgAt
<1> QED
  BY <1>9, <1>10, <1>11, <1>12 DEF Line

LEMMA LineTake ==
  ASSUME QueueInv, Line, TakeMessage
  PROVE  Line'
<1>1. TypeOK /\ queue_front # queue_back
  BY DEF QueueInv, Inv, TakeFinds, TakeMessage
<1>2. PICK s \in Slots : /\ IsChosen(s) /\ message' = s
                         /\ queue_front' = Advance(s, queusize)
  BY DEF TakeMessage
<1>3. PICK k \in 1 .. Len(queue) : /\ s = Place(queue_front, k - 1, queusize)
                                   /\ queue[k] = internal_queue[s]
  BY <1>1, <1>2, ChosenPlace
<1>4. queue' = SubSeq(queue, k + 1, Len(queue)) /\ queue \in Seq(Text)
  <2>1. queue \in Seq(Text)
    BY <1>1, RingFacts, ContentsType DEF queue
  <2> QED
    BY <1>1, <1>2, <1>3, <2>1, TakeDrops DEF TakeMessage
<1>5. /\ Len(queue') \in Nat /\ k \in Nat /\ Len(queue) \in Nat
      /\ \A i \in 1 .. Len(queue') : /\ i + k \in 1 .. Len(queue)
                                     /\ queue'[i] = queue[i + k]
  <2> DEFINE q == queue
  <2>1. q \in Seq(Text) /\ k \in 1 .. Len(q) /\ queue' = SubSeq(q, k + 1, Len(q))
    BY <1>3, <1>4
  <2> HIDE DEF q
  <2> QED
    BY <2>1 DEF q
<1>6. Held' = {queue[k].msg} /\ queue[k].msg \in Waiting
  BY <1>2, <1>3 DEF TakeMessage, Held, Waiting
<1>7. Waiting' \subseteq Waiting
  BY <1>5 DEF Waiting
<1>8. Precede(Held', Waiting')
  <2>1. ASSUME NEW i \in 1 .. Len(queue'),
               queue[k].msg.from = queue'[i].msg.from
        PROVE  queue[k].msg.n < queue'[i].msg.n
    <3>1. i + k \in 1 .. Len(queue) /\ k < i + k /\ queue'[i] = queue[i + k]
      BY <1>5
    <3> QED
      BY <1>3, <2>1, <3>1 DEF Line, QueueInOrder
  <2> QED
    BY <1>6, <2>1 DEF Waiting, Precede
<1>9. Buffered' = Buffered /\ Piped' = Piped
  BY DEF TakeMessage, Buffered, InTransit, Piped, MsgAt
<1>10. StagesInOrder'
  BY <1>6, <1>7, <1>8, <1>9 DEF Line, StagesInOrder, Precede
<1>11. SentNotWritten'
  <2>1. OnTheWay' \subseteq OnTheWay
    BY <1>6, <1>7, <1>9 DEF OnTheWay
  <2> QED
    BY <2>1 DEF Line, SentNotWritten, TakeMessage
<1>12. QueueInOrder'
  <2>1. ASSUME NEW i \in 1 .. Len(queue'), NEW j \in 1 .. Len(queue'), i < j,
               queue'[i].msg.from = queue'[j].msg.from
        PROVE  queue'[i].msg.n < queue'[j].msg.n
    <3>1. /\ i + k \in 1 .. Len(queue) /\ j + k \in 1 .. Len(queue)
          /\ i + k < j + k
          /\ queue'[i] = queue[i + k] /\ queue'[j] = queue[j + k]
      BY <1>5, <2>1
    <3> QED
      BY <2>1, <3>1 DEF Line, QueueInOrder
  <2> QED
    BY <2>1 DEF QueueInOrder
<1>13. PipesInOrder' /\ OwnFifo' /\ CopyInPlace'
  BY DEF Line, PipesInOrder, OwnFifo, CopyInPlace, TakeMessage, MsgAt, InTransit
<1> QED
  BY <1>10, <1>11, <1>12, <1>13 DEF Line

LEMMA LineWrite ==
  ASSUME QueueInv, Line, WriteToWorker
  PROVE  Line'
<1> DEFINE m == internal_queue[message].msg
<1>1. TypeOK
  BY DEF QueueInv, Inv
<1>2. Held = {m} /\ Held' = {}
  BY DEF WriteToWorker, Held
<1>3. /\ m \in Message /\ m.from \in Clients /\ m.n \in Nat
      /\ m.n <= sent[m.from]
  BY <1>2, MessageNumber DEF Line, SentNotWritten, OnTheWay
<1>4. /\ lastWritten'[m.from] = m.n
      /\ \A c \in Clients : c # m.from => lastWritten'[c] = lastWritten[c]
  BY <1>1, <1>3 DEF WriteToWorker, TypeOK
<1>5. queue' = queue /\ Waiting' = Waiting /\ Buffered' = Buffered /\ Piped' = Piped
  BY DEF WriteToWorker, queue, Waiting, Buffered, InTransit, Piped, MsgAt
<1>6. StagesInOrder'
  BY <1>2, <1>5 DEF Line, StagesInOrder, Precede
<1>7. SentNotWritten'
  <2>1. ASSUME NEW a \in Waiting \union Buffered \union Piped
        PROVE  a \in Message /\ lastWritten'[a.from] < a.n /\ a.n <= sent'[a.from]
    <3>1. a \in Message /\ lastWritten[a.from] < a.n /\ a.n <= sent[a.from]
      BY DEF Line, SentNotWritten, OnTheWay
    <3>2. a.from \in Clients
      BY <3>1, MessageNumber
    <3>3. a.from = m.from => m.n < a.n
      BY <1>2 DEF Line, StagesInOrder, Precede
    <3> QED
      BY <1>4, <3>1, <3>2, <3>3 DEF WriteToWorker
  <2>2. OnTheWay' = Waiting \union Buffered \union Piped
    BY <1>2, <1>5 DEF OnTheWay
  <2>3. ASSUME NEW c \in Clients
        PROVE  lastWritten'[c] <= sent'[c]
    BY <1>3, <1>4 DEF Line, SentNotWritten, WriteToWorker
  <2> QED
    BY <2>1, <2>2, <2>3 DEF SentNotWritten
<1>8. PipesInOrder' /\ QueueInOrder' /\ OwnFifo' /\ CopyInPlace'
  BY <1>5 DEF Line, PipesInOrder, QueueInOrder, OwnFifo, CopyInPlace, WriteToWorker,
              MsgAt, InTransit
<1> QED
  BY <1>6, <1>7, <1>8 DEF Line

LEMMA LineInit == Init => Line
<1> SUFFICES ASSUME Init PROVE Line
  OBVIOUS
<1>1. Occupancy(0, 0, queusize) = 0
  BY DEF Occupancy
<1>2. queue = << >>
  BY <1>1 DEF Init, queue, Contents
<1>3. Held = {} /\ Buffered = {}
  BY DEF Init, Held, Buffered, InTransit
<1>4. Waiting = {}
  BY <1>2 DEF Waiting
<1>5. \A f \in Fifos : Len(fifo[f]) = 0
  BY DEF Init
<1>6. Piped = {}
  BY <1>5 DEF Piped
<1>7. StagesInOrder /\ SentNotWritten
  BY <1>3, <1>4, <1>6 DEF StagesInOrder, Precede, SentNotWritten, OnTheWay, Init
<1>8. PipesInOrder /\ QueueInOrder /\ OwnFifo /\ CopyInPlace
  BY <1>2, <1>5
  DEF Init, PipesInOrder, QueueInOrder, OwnFifo, CopyInPlace, InTransit
<1> QED
  BY <1>7, <1>8 DEF Line

THEOREM LineInvariant == Spec => []Line
<1>1. QueueInv /\ Line /\ [Next]_vars => Line'
  <2> SUFFICES ASSUME QueueInv, Line, [Next]_vars PROVE Line'
    OBVIOUS
  <2>1. CASE \E c \in Clients : Send(c)
    BY <2>1, LineSend
  <2>2. CASE \E f \in Fifos : \/ ReadFifo(f) \/ DropWhenFull(f)
                              \/ CopyMessage(f) \/ AdvanceBack(f)
    BY <2>2, LineRead, LineDrop, LineCopy, LineAdvance
  <2>3. CASE TakeMessage \/ WriteToWorker
    BY <2>3, LineTake, LineWrite
  <2>4. CASE /\ Next /\ ~TakeMessage /\ ~WriteToWorker
             /\ ~(\E c \in Clients : Send(c))
             /\ ~(\E f \in Fifos : \/ ReadFifo(f) \/ DropWhenFull(f)
                                   \/ CopyMessage(f) \/ AdvanceBack(f))
    BY <2>4, LineQuiet
  <2>5. CASE UNCHANGED vars
    <3>1. CopyInPlace'
      BY <2>5 DEF Line, CopyInPlace
    <3> QED
      BY <2>5, <3>1, LineFrame DEF queue, Held, InTransit
  <2> QED
    BY <2>1, <2>2, <2>3, <2>4, <2>5
<1> QED
  BY <1>1, LineInit, QueueInvariant, PTL DEF Spec

\* Whatever is skipped, dropped when the queue is full or lost with a reader's
\* buffer, the message the dispatcher holds is newer than every message of the
\* same client it has written before.
THEOREM OrderKept == Spec => []InOrder
<1>1. Line => InOrder
  <2> SUFFICES ASSUME Line, dpc \in {"scan", "write"}
               PROVE  LET m == internal_queue[message].msg IN
                        m.n > lastWritten[m.from]
    BY DEF InOrder
  <2> DEFINE m == internal_queue[message].msg
  <2>1. m \in OnTheWay
    BY DEF Held, OnTheWay
  <2>2. m \in Message /\ lastWritten[m.from] < m.n
    BY <2>1 DEF Line, SentNotWritten
  <2> QED
    BY <2>2, MessageNumber
<1> QED
  BY <1>1, LineInvariant, PTL
================================================================================
