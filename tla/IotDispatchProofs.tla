--------------------------- MODULE IotDispatchProofs ---------------------------
(***************************************************************************)
(* Theorems about IotDispatch: for any number of clients and workers and   *)
(* any size of the internal queue.                                         *)
(***************************************************************************)
EXTENDS IotDispatch, SequenceTheorems, TLAPS

LEMMA SlotType ==
  /\ 0 \in Slots
  /\ \A s \in Slots : Advance(s, queusize) \in Slots
  BY ConfigAssumption DEF Slots, Advance, read_conf

LEMMA WorkerType ==
  /\ 0 \in Workers
  /\ \A w \in Workers : (w + 1) % nworkers \in Workers
  BY ConfigAssumption DEF Workers, read_conf

LEMMA MessageFields ==
  ASSUME NEW m \in Message \union {NoMessage}
  PROVE  m.effect \in Effects /\ m.n \in Nat
<1>1. CASE m = NoMessage
  BY <1>1 DEF NoMessage, Effects
<1>2. CASE m \in Message
  <2>1. PICK c \in Clients :
          m \in [from : {c}, effect : EffectsOf(c), n : 1 .. MaxSent[c]]
    BY <1>2, Zenon DEF Message
  <2>2. m.effect \in EffectsOf(c) /\ m.n \in 1 .. MaxSent[c]
    BY <2>1
  <2>3. MaxSent[c] \in Nat
    BY ConfigAssumption DEF read_conf
  <2> QED
    BY <2>2, <2>3 DEF EffectsOf, Effects
<1> QED
  BY <1>1, <1>2

\* What a client writes is a message.
LEMMA SentType ==
  ASSUME NEW c \in Clients, NEW e \in EffectsOf(c), NEW n \in 1 .. MaxSent[c]
  PROVE  [from |-> c, effect |-> e, n |-> n] \in Message
<1> DEFINE R(d) == [from : {d}, effect : EffectsOf(d), n : 1 .. MaxSent[d]]
<1>1. [from |-> c, effect |-> e, n |-> n] \in R(c)
  OBVIOUS
<1> HIDE DEF R
<1>2. [from |-> c, effect |-> e, n |-> n] \in UNION {R(d) : d \in Clients}
  BY <1>1
<1> QED
  BY <1>2, Zenon DEF Message, R

LEMMA TextType ==
  /\ NoText \in Text
  /\ \A m \in Message : WholeText(m) \in Text
  /\ \A m \in Message \union {NoMessage} : TailTexts(m) \subseteq Text
<1>1. NoText \in Text
  BY DEF NoText, Text, Effects
<1>2. ASSUME NEW m \in Message PROVE WholeText(m) \in Text
  <2>1. m.effect \in Effects
    BY MessageFields
  <2>2. (m.from \in Consoles) \in BOOLEAN
    OBVIOUS
  <2> QED
    BY <2>1, <2>2 DEF WholeText, Text
<1>3. ASSUME NEW m \in Message \union {NoMessage}
      PROVE  TailTexts(m) \subseteq Text
  <2>1. SUFFICES ASSUME NEW p \in BOOLEAN,
                        NEW e \in IF m.from \in Sensors THEN {"kill"} ELSE Effects
                 PROVE  [msg |-> m, whole |-> FALSE, prio |-> p, effect |-> e] \in Text
    BY DEF TailTexts
  <2>2. e \in Effects
    BY DEF Effects
  <2> QED
    BY <2>2 DEF Text
<1> QED
  BY <1>1, <1>2, <1>3

LEMMA CellsType ==
  ASSUME NEW t \in Text
  PROVE  CellsOf(t) \in Seq(Cell)
<1>1. \A h \in BOOLEAN : [text |-> t, head |-> h] \in Cell
  BY DEF Cell
<1> DEFINE a == [text |-> t, head |-> TRUE]
           b == [text |-> t, head |-> FALSE]
<1>2. a \in Cell /\ b \in Cell
  BY <1>1
<1>3. CellsOf(t) = IF t.whole THEN << a, b >> ELSE << b >>
  BY DEF CellsOf
<1> HIDE DEF a, b
<1> QED
  BY <1>2, <1>3

\* A read takes a string out of a pipe and leaves cells in it.
LEMMA ReadType ==
  ASSUME NEW cells \in Seq(Cell), cells # << >>
  PROVE  /\ Unread(cells) \in Seq(Cell)
         /\ TextsAt(Head(cells)) \subseteq Text
<1>1. Unread(cells) \in Seq(Cell)
  BY ReadAssumption DEF Unread
<1>2. Head(cells) \in Cell
  OBVIOUS
<1>3. Head(cells).text \in Text
  BY <1>2 DEF Cell
<1>4. Head(cells).text.msg \in Message \union {NoMessage}
  BY <1>3 DEF Text
<1> QED
  BY <1>1, <1>3, <1>4, TextType DEF TextsAt

--------------------------------------------------------------------------------
(* The inductive invariant *)

One01(b) == IF b THEN 1 ELSE 0
InsideReader(f) == rpc[f] \in {"insert", "advance"}

\* One of the two readers and the dispatcher is inside the queue, or its
\* semaphore is free.
QueueMutex ==
  queue_sem + One01(InsideReader("console")) + One01(InsideReader("sensor"))
    + One01(dpc = "take") = 1

\* The slot the dispatcher points to is the one just behind front.
HeldBehindFront ==
  dpc \in {"scan", "write"} => queue_front = Advance(message, queusize)

Inv == TypeOK /\ QueueMutex /\ BusyMeansWorking /\ HeldBehindFront

USE DEF vars, clients, ring, readers, dispatcher, workers, offClients, offReaders,
        offDispatcher, offWorkers

LEMMA InitInv == Init => Inv
<1> SUFFICES ASSUME Init PROVE Inv
  OBVIOUS
<1>1. << >> \in Seq(Cell)
  OBVIOUS
<1>2. /\ fifo \in [Fifos -> Seq(Cell)]
      /\ worker_pipes \in [Workers -> Seq(Cell)]
  BY <1>1 DEF Init
<1>3. /\ internal_queue \in [Slots -> Text]
      /\ buffer \in [Fifos -> Text]
      /\ work \in [Workers -> Text]
  BY TextType DEF Init
<1>4. answers \in 0 .. MAX_MESSAGES
  BY AnswerAssumption DEF Init
<1>5. TypeOK
  BY <1>2, <1>3, <1>4, SlotType, WorkerType DEF Init, TypeOK
<1>6. QueueMutex
  BY DEF Init, QueueMutex, One01, InsideReader, Fifos
<1>7. BusyMeansWorking /\ HeldBehindFront
  BY DEF Init, BusyMeansWorking, HeldBehindFront
<1> QED
  BY <1>5, <1>6, <1>7 DEF Inv

LEMMA ClientInv == Inv /\ Client => Inv'
<1> SUFFICES ASSUME Inv, NEW c \in Clients, Open(c) \/ Send(c) \/ Close(c)
             PROVE  Inv'
  BY DEF Client
<1>1. TypeOK
  BY DEF Inv
<1>2. QueueMutex' /\ BusyMeansWorking' /\ HeldBehindFront'
  BY DEF Inv, Open, Send, Close, QueueMutex, InsideReader, BusyMeansWorking,
         HeldBehindFront
<1>3. CASE Open(c) \/ Close(c)
  BY <1>1, <1>2, <1>3 DEF Open, Close, TypeOK, Inv
<1>4. CASE Send(c)
  <2>1. sent[c] \in Nat /\ MaxSent[c] \in Nat
    BY <1>1, ConfigAssumption DEF TypeOK, read_conf
  <2>2. sent[c] + 1 \in 1 .. MaxSent[c] /\ sent' \in [Clients -> Nat]
    BY <1>1, <1>4, <2>1 DEF Send, TypeOK
  <2>3. PICK e \in EffectsOf(c) :
          fifo' = [fifo EXCEPT ![FifoOf(c)] =
            @ \o CellsOf(WholeText([from |-> c, effect |-> e, n |-> sent[c] + 1]))]
    BY <1>4 DEF Send
  <2>4. CellsOf(WholeText([from |-> c, effect |-> e, n |-> sent[c] + 1]))
          \in Seq(Cell)
    BY <2>2, SentType, TextType, CellsType
  <2>5. FifoOf(c) \in Fifos
    BY DEF FifoOf, Fifos
  <2>6. fifo' \in [Fifos -> Seq(Cell)]
    BY <1>1, <2>3, <2>4, <2>5 DEF TypeOK
  <2> QED
    BY <1>1, <1>2, <1>4, <2>2, <2>6 DEF Send, TypeOK, Inv
<1> QED
  BY <1>3, <1>4

\* The arithmetic of the queue's semaphore.
LEMMA MutexFacts ==
  ASSUME TypeOK, QueueMutex
  PROVE  /\ queue_sem > 0 => /\ ~InsideReader("console")
                             /\ ~InsideReader("sensor")
                             /\ dpc # "take"
         /\ InsideReader("console") => /\ queue_sem = 0
                                       /\ ~InsideReader("sensor")
                                       /\ dpc # "take"
         /\ InsideReader("sensor") => /\ queue_sem = 0
                                      /\ ~InsideReader("console")
                                      /\ dpc # "take"
         /\ dpc = "take" => /\ queue_sem = 0
                            /\ ~InsideReader("console")
                            /\ ~InsideReader("sensor")
<1>1. queue_sem \in {0, 1}
  BY DEF TypeOK
<1> QED
  BY <1>1 DEF QueueMutex, One01

\* A reader's step: the queue's semaphore and the types.
LEMMA ReaderInv ==
  ASSUME Inv, NEW f \in Fifos, Reader(f)
  PROVE  Inv'
<1>1. TypeOK /\ QueueMutex
  BY DEF Inv
<1>2. f \in {"console", "sensor"}
  BY DEF Fifos
<1>3. /\ BusyMeansWorking'
      /\ HeldBehindFront'
  <2>1. UNCHANGED <<semwork, wpc, dpc, message, queue_front>>
    BY DEF Reader, ReadFifo, ExitReader, ReaderLock, DropWhenFull, CopyMessage,
           AdvanceBack
  <2> QED
    BY <2>1 DEF Inv, BusyMeansWorking, HeldBehindFront
<1>4. CASE ReadFifo(f)
  <2>1. Unread(fifo[f]) \in Seq(Cell) /\ TextsAt(Head(fifo[f])) \subseteq Text
    BY <1>1, <1>4, ReadType DEF ReadFifo, TypeOK
  <2>2. PICK t \in Text : buffer' = [buffer EXCEPT ![f] = t]
    BY <1>4, <2>1 DEF ReadFifo
  <2>3. TypeOK'
    BY <1>1, <1>4, <2>1, <2>2 DEF ReadFifo, TypeOK
  <2>4. QueueMutex'
    BY <1>1, <1>2, <1>4 DEF ReadFifo, QueueMutex, InsideReader, TypeOK
  <2> QED
    BY <1>3, <2>3, <2>4 DEF Inv
<1>5. CASE ExitReader(f)
  <2>1. TypeOK'
    BY <1>1, <1>5 DEF ExitReader, TypeOK
  <2>2. QueueMutex'
    BY <1>1, <1>2, <1>5 DEF ExitReader, QueueMutex, InsideReader, TypeOK
  <2> QED
    BY <1>3, <2>1, <2>2 DEF Inv
<1>6. CASE ReaderLock(f)
  <2>1. TypeOK'
    BY <1>1, <1>6 DEF ReaderLock, TypeOK
  <2>2. QueueMutex'
    BY <1>1, <1>2, <1>6, MutexFacts
    DEF ReaderLock, QueueMutex, InsideReader, One01, TypeOK, Fifos
  <2> QED
    BY <1>3, <2>1, <2>2 DEF Inv
<1>7. CASE DropWhenFull(f)
  <2>1. InsideReader(f)
    BY <1>7 DEF DropWhenFull, InsideReader
  <2>2. TypeOK'
    BY <1>1, <1>2, <1>7, <2>1, MutexFacts DEF DropWhenFull, TypeOK
  <2>3. QueueMutex'
    BY <1>1, <1>2, <1>7, <2>1, MutexFacts
    DEF DropWhenFull, QueueMutex, InsideReader, One01, TypeOK, Fifos
  <2> QED
    BY <1>3, <2>2, <2>3 DEF Inv
<1>8. CASE CopyMessage(f)
  <2>1. TypeOK'
    BY <1>1, <1>8 DEF CopyMessage, TypeOK
  <2>2. QueueMutex'
    BY <1>1, <1>2, <1>8 DEF CopyMessage, QueueMutex, InsideReader, TypeOK
  <2> QED
    BY <1>3, <2>1, <2>2 DEF Inv
<1>9. CASE AdvanceBack(f)
  <2>1. InsideReader(f)
    BY <1>9 DEF AdvanceBack, InsideReader
  <2>2. queue_back' \in Slots
    BY <1>1, <1>9, SlotType DEF AdvanceBack, TypeOK
  <2>3. TypeOK'
    BY <1>1, <1>2, <1>9, <2>1, <2>2, MutexFacts DEF AdvanceBack, TypeOK
  <2>4. QueueMutex'
    BY <1>1, <1>2, <1>9, <2>1, MutexFacts
    DEF AdvanceBack, QueueMutex, InsideReader, One01, TypeOK, Fifos
  <2> QED
    BY <1>3, <2>3, <2>4 DEF Inv
<1> QED
  BY <1>4, <1>5, <1>6, <1>7, <1>8, <1>9 DEF Reader

LEMMA DispatcherInv ==
  ASSUME Inv, Dispatcher
  PROVE  Inv'
<1>1. TypeOK /\ QueueMutex
  BY DEF Inv
<1>2. BusyMeansWorking' /\ UNCHANGED rpc
  BY DEF Inv, Dispatcher, DispatcherLock, TakeMessage, LookAtWorker,
         WriteToWorker, BusyMeansWorking
<1>3. CASE DispatcherLock
  <2>1. TypeOK'
    BY <1>1, <1>3 DEF DispatcherLock, TypeOK
  <2>2. QueueMutex'
    BY <1>1, <1>3, MutexFacts
    DEF DispatcherLock, QueueMutex, InsideReader, One01, TypeOK
  <2> QED
    BY <1>2, <1>3, <2>1, <2>2 DEF Inv, DispatcherLock, HeldBehindFront
<1>4. CASE TakeMessage
  <2>1. PICK s \in Slots : message' = s /\ queue_front' = Advance(s, queusize)
    BY <1>4 DEF TakeMessage
  <2>2. queue_sem = 0
    BY <1>1, <1>4, MutexFacts DEF TakeMessage
  <2>3. TypeOK'
    BY <1>1, <1>4, <2>1, <2>2, SlotType, WorkerType DEF TakeMessage, TypeOK
  <2>4. QueueMutex'
    BY <1>1, <1>4, <2>2, MutexFacts
    DEF TakeMessage, QueueMutex, InsideReader, One01
  <2>5. HeldBehindFront'
    BY <2>1 DEF HeldBehindFront
  <2> QED
    BY <1>2, <2>3, <2>4, <2>5 DEF Inv
<1>5. CASE LookAtWorker
  <2>1. candidate' \in Workers
    BY <1>1, <1>5, WorkerType DEF LookAtWorker, TypeOK
  <2>2. dpc = "scan" /\ dpc' \in {"scan", "write"}
    BY <1>5 DEF LookAtWorker
  <2>3. TypeOK'
    BY <1>1, <1>5, <2>1, <2>2 DEF LookAtWorker, TypeOK
  <2>4. QueueMutex' /\ HeldBehindFront'
    BY <1>5, <2>2 DEF LookAtWorker, Inv, QueueMutex, InsideReader, One01,
                      HeldBehindFront
  <2> QED
    BY <1>2, <2>3, <2>4 DEF Inv
<1>6. CASE WriteToWorker
  <2> DEFINE t == internal_queue[message]
  <2>1. t \in Text
    BY <1>1 DEF TypeOK
  <2>2. CellsOf(t) \in Seq(Cell)
    BY <2>1, CellsType
  <2>3. t.msg.n \in Nat
    BY <2>1, MessageFields DEF Text
  <2>4. worker_pipes' \in [Workers -> Seq(Cell)]
    BY <1>1, <1>6, <2>2 DEF WriteToWorker, TypeOK
  <2>5. lastWritten' \in [Clients -> Nat]
    BY <1>1, <1>6, <2>3 DEF WriteToWorker, TypeOK
  <2>6. TypeOK'
    BY <1>1, <1>6, <2>4, <2>5 DEF WriteToWorker, TypeOK
  <2>7. QueueMutex' /\ HeldBehindFront'
    BY <1>6 DEF WriteToWorker, Inv, QueueMutex, InsideReader, One01,
                HeldBehindFront
  <2> QED
    BY <1>2, <2>6, <2>7 DEF Inv
<1> QED
  BY <1>3, <1>4, <1>5, <1>6 DEF Dispatcher

LEMMA WorkerInv ==
  ASSUME Inv, NEW w \in Workers, Worker(w)
  PROVE  Inv'
<1>1. TypeOK /\ BusyMeansWorking
  BY DEF Inv
<1>2. QueueMutex' /\ HeldBehindFront'
  <2>1. UNCHANGED <<queue_sem, rpc, dpc, message, queue_front>>
    BY DEF Worker, WorkerRead, MarkBusy, Carry, Die, MarkFree
  <2> QED
    BY <2>1 DEF Inv, QueueMutex, InsideReader, HeldBehindFront
<1>3. CASE WorkerRead(w)
  <2>1. /\ Unread(worker_pipes[w]) \in Seq(Cell)
        /\ TextsAt(Head(worker_pipes[w])) \subseteq Text
    BY <1>1, <1>3, ReadType DEF WorkerRead, TypeOK
  <2>2. PICK t \in Text : work' = [work EXCEPT ![w] = t]
    BY <1>3, <2>1 DEF WorkerRead
  <2>3. TypeOK'
    BY <1>1, <1>3, <2>1, <2>2 DEF WorkerRead, TypeOK
  <2>4. BusyMeansWorking'
    BY <1>1, <1>3 DEF WorkerRead, TypeOK, BusyMeansWorking
  <2> QED
    BY <1>2, <2>3, <2>4 DEF Inv
<1>4. CASE MarkBusy(w)
  <2>1. semwork[w] = 0
    BY <1>1, <1>4 DEF MarkBusy, TypeOK, BusyMeansWorking
  <2>2. TypeOK'
    BY <1>1, <1>4, <2>1 DEF MarkBusy, TypeOK
  <2>3. BusyMeansWorking'
    BY <1>1, <1>4, <2>1 DEF MarkBusy, TypeOK, BusyMeansWorking
  <2> QED
    BY <1>2, <2>2, <2>3 DEF Inv
<1>5. CASE Carry(w)
  <2>1. answers' \in 0 .. MAX_MESSAGES
    BY <1>1, <1>5, AnswerAssumption DEF Carry, TypeOK
  <2>2. TypeOK'
    BY <1>1, <1>5, <2>1 DEF Carry, TypeOK
  <2>3. BusyMeansWorking'
    BY <1>1, <1>5 DEF Carry, TypeOK, BusyMeansWorking
  <2> QED
    BY <1>2, <2>2, <2>3 DEF Inv
<1>6. CASE Die(w)
  <2>1. semwork[w] = 1
    BY <1>1, <1>6 DEF Die, TypeOK, BusyMeansWorking
  <2>2. TypeOK'
    BY <1>1, <1>6, <2>1 DEF Die, TypeOK
  <2>3. BusyMeansWorking'
    BY <1>1, <1>6, <2>1 DEF Die, TypeOK, BusyMeansWorking
  <2> QED
    BY <1>2, <2>2, <2>3 DEF Inv
<1>7. CASE MarkFree(w)
  <2>1. semwork[w] = 1
    BY <1>1, <1>7 DEF MarkFree, TypeOK, BusyMeansWorking
  <2>2. TypeOK'
    BY <1>1, <1>7, <2>1 DEF MarkFree, TypeOK
  <2>3. BusyMeansWorking'
    BY <1>1, <1>7, <2>1 DEF MarkFree, TypeOK, BusyMeansWorking
  <2> QED
    BY <1>2, <2>2, <2>3 DEF Inv
<1> QED
  BY <1>3, <1>4, <1>5, <1>6, <1>7 DEF Worker

LEMMA ListenInv ==
  ASSUME Inv, Listen
  PROVE  Inv'
<1>1. TypeOK
  BY DEF Inv
<1>2. answers' \in 0 .. MAX_MESSAGES
  BY <1>1, AnswerAssumption DEF Listen, TypeOK
<1>3. TypeOK'
  BY <1>1, <1>2 DEF Listen, TypeOK
<1> QED
  BY <1>3 DEF Listen, Inv, QueueMutex, InsideReader, BusyMeansWorking,
              HeldBehindFront

LEMMA StutterInv ==
  ASSUME Inv, UNCHANGED vars
  PROVE  Inv'
BY DEF Inv, TypeOK, QueueMutex, InsideReader, BusyMeansWorking, HeldBehindFront

\* Inv is inductive.
THEOREM Invariant == Spec => []Inv
<1>1. Inv /\ [Next]_vars => Inv'
  BY ClientInv, ReaderInv, DispatcherInv, WorkerInv, ListenInv, StutterInv
  DEF Next
<1> QED
  BY <1>1, InitInv, PTL DEF Spec

--------------------------------------------------------------------------------
(* The theorems *)

\* The state of the dispatch keeps its types: read_thread, getqueue,
\* dispatcher_thread and worker leave every index inside its array and every
\* semaphore at 0 or 1.
THEOREM TypeCorrect == Spec => []TypeOK
<1>1. Inv => TypeOK
  BY DEF Inv
<1> QED
  BY <1>1, Invariant, PTL

\* A worker's semaphore reads 1 exactly while the worker carries out a message,
\* also when workers die (worker, with SEM_UNDO).
THEOREM MarksAreTrue == Spec => []BusyMeansWorking
<1>1. Inv => BusyMeansWorking
  BY DEF Inv
<1> QED
  BY <1>1, Invariant, PTL

\* getqueue's pointer stays good: no reader writes to the slot it points to,
\* because the slot just behind front is the one the full test keeps free.
THEOREM HeldSlotSafe == Spec => HeldSlotStable
<1> DEFINE Holding == dpc = "scan" \/ dpc = "write"
           Stable == internal_queue'[message] = internal_queue[message]
<1>1. Inv /\ [Next]_vars => [Holding => Stable]_vars
  <2> SUFFICES ASSUME Inv, Next, Holding PROVE Stable
    OBVIOUS
  <2>1. CASE \E f \in Fifos : CopyMessage(f)
    <3>1. PICK f \in Fifos : CopyMessage(f)
      BY <2>1
    <3>2. Advance(queue_back, queusize) # queue_front
      BY <3>1 DEF CopyMessage, QueueFull, RingFull
    <3>3. message # queue_back
      BY <3>2 DEF Inv, HeldBehindFront
    <3> QED
      BY <3>1, <3>3 DEF CopyMessage, Inv, TypeOK
  <2>2. CASE ~ \E f \in Fifos : CopyMessage(f)
    <3>1. UNCHANGED internal_queue
      BY <2>2 DEF Next, Client, Open, Send, Close, Reader, ReadFifo, ExitReader,
        ReaderLock, DropWhenFull, AdvanceBack, Dispatcher, DispatcherLock,
        TakeMessage, LookAtWorker, WriteToWorker, Worker, WorkerRead, MarkBusy,
        Carry, Die, MarkFree, Listen
    <3> QED
      BY <3>1
  <2> QED
    BY <2>1, <2>2
<1> QED
  BY <1>1, Invariant, PTL DEF Spec, HeldSlotStable

\* Once worker 0 is dead the dispatcher stays at it: its mark is 0, as MarksAreTrue
\* says, and every scan begins at it.
THEOREM DeadTakesAll == Spec => DeadWorkerTakesAll
<1>1. Inv /\ [Next]_vars
        => [wpc[0] = "dead" /\ candidate = 0 => candidate' = 0]_vars
  <2> SUFFICES ASSUME Inv, Next, wpc[0] = "dead", candidate = 0
               PROVE  candidate' = 0
    OBVIOUS
  <2>1. semwork[0] = 0
    BY WorkerType DEF Inv, TypeOK, BusyMeansWorking
  <2>2. CASE LookAtWorker
    BY <2>1, <2>2 DEF LookAtWorker
  <2>3. CASE TakeMessage
    BY <2>3 DEF TakeMessage
  <2>4. CASE ~LookAtWorker /\ ~TakeMessage
    BY <2>4 DEF Next, Client, Open, Send, Close, Reader, ReadFifo, ExitReader,
      ReaderLock, DropWhenFull, CopyMessage, AdvanceBack, Dispatcher,
      DispatcherLock, WriteToWorker, Worker, WorkerRead, MarkBusy, Carry, Die,
      MarkFree, Listen, offClients, offReaders, offDispatcher, offWorkers, dispatcher
  <2> QED
    BY <2>2, <2>3, <2>4
<1> QED
  BY <1>1, Invariant, PTL DEF Spec, DeadWorkerTakesAll
================================================================================
