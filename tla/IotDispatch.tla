------------------------------ MODULE IotDispatch ------------------------------
(***************************************************************************)
(* The system manager of the home simulator (S023VasquesFilipe) with its   *)
(* clients and workers.  User consoles and sensors write to two named      *)
(* pipes; a reader thread per pipe files the messages in one internal      *)
(* queue; the dispatcher thread takes them out, looks for a worker whose   *)
(* semaphore reads 0 and writes to that worker's pipe; the worker          *)
(* processes read their pipes.                                             *)
(***************************************************************************)
EXTENDS RingIndex, FiniteSets

CONSTANTS
  Consoles,     \* user consoles whose identifier begins with 2 .. 9
  LowConsoles,  \* user consoles whose identifier begins with 1
  Sensors,
  MaxSent,      \* bound: messages a client writes
  ReadMax,      \* cells one read() takes (buffers of 100 bytes, scaled)
  PipeSize,     \* cells a pipe holds (64 kB, scaled)
  MAX_MESSAGES, \* answers the message queue holds
  queusize, nworkers

Clients == Consoles \union LowConsoles \union Sensors
Fifos   == {"console", "sensor"}
Workers == 0 .. (nworkers - 1)
FifoOf(c) == IF c \in Sensors THEN "sensor" ELSE "console"

\* What a worker does with a string: it updates the tables, or rejects it ("none");
\* sends an answer to the message queue ("answer"); or dies ("kill"): an empty line
\* leaves strtok without a second word and strcmp faults, "reset" passes shared
\* memory to free(), and what a reading or an alert writes may leave the page of
\* the tables (IotAlerts).
Effects == {"none", "answer", "kill"}
EffectsOf(c) == IF c \in Sensors THEN {"none", "kill"} ELSE {"answer", "kill"}
Message ==
  UNION {[from : {c}, effect : EffectsOf(c), n : 1 .. MaxSent[c]] : c \in Clients}

NoMessage == [from |-> "none", effect |-> "none", n |-> 0]

\* A string in a buffer.  prio: its first character is in '2' .. '9'.
Text == [msg : Message \union {NoMessage}, whole : BOOLEAN, prio : BOOLEAN,
         effect : Effects]
NoText == [msg |-> NoMessage, whole |-> FALSE, prio |-> FALSE, effect |-> "none"]

WholeText(m) == [msg |-> m, whole |-> TRUE, prio |-> m.from \in Consoles,
                 effect |-> m.effect]

\* What the tail of a cut message looks like depends on where it was cut.  Only
\* the tail of a command can have a second word; a reading's kills the worker.
TailTexts(m) ==
  {[msg |-> m, whole |-> FALSE, prio |-> p, effect |-> e] :
     p \in BOOLEAN, e \in IF m.from \in Sensors THEN {"kill"} ELSE Effects}

\* A whole message fills two cells of a pipe, a tail one.  A pipe cell holds
\* the text it is part of.
CellsOf(t) == IF t.whole THEN << [text |-> t, head |-> TRUE],
                                 [text |-> t, head |-> FALSE] >>
                         ELSE << [text |-> t, head |-> FALSE] >>
Cell == [text : Text, head : BOOLEAN]

\* The strings a buffer may begin with when the pipe begins with this cell.
TextsAt(cell) == IF cell.head THEN {cell.text} ELSE TailTexts(cell.text.msg)

Unread(cells) == SubSeq(cells, ReadMax + 1, Len(cells))

\* The values read_conf accepts, and this specification's own bounds.
read_conf ==
  /\ queusize \in Nat \ {0} /\ nworkers \in Nat \ {0}  \* read_conf
  /\ MaxSent \in [Clients -> Nat]
ASSUME ConfigAssumption == read_conf
\* A read takes at least the longest message.
ASSUME ReadAssumption == ReadMax \in Nat /\ ReadMax >= 2 /\ PipeSize \in Nat
ASSUME AnswerAssumption == MAX_MESSAGES \in Nat \ {0}

Slots  == 0 .. (queusize - 1)

VARIABLES
  fifo,             \* the two named pipes: unread cells
  fd,               \* a client's end of its pipe: "off", "open", "closed"
  sent,             \* messages each client has written
  internal_queue, queue_front, queue_back,
  queue_sem,
  rpc, buffer,      \* each reader thread: where it is, its buffer
  dpc,              \* where the dispatcher is
  message,          \* its pointer: a slot of internal_queue
  candidate,        \* the worker it looks at
  worker_pipes,     \* unread cells of each worker's pipe
  semwork,          \* the worker semaphores: 0 free, 1 busy
  wpc, work,        \* each worker: where it is, the string it has read
  answers,          \* answers in the message queue
  lastWritten       \* history: number of the last message of each client that
                    \* was written to a worker

clients    == <<fd, sent>>
ring       == <<internal_queue, queue_front, queue_back>>
readers    == <<rpc, buffer>>
dispatcher == <<dpc, message, candidate>>
workers    == <<semwork, wpc, work, answers>>
vars == <<fifo, clients, ring, queue_sem, readers, dispatcher, worker_pipes,
          workers, lastWritten>>

Init ==
  /\ fifo = [f \in Fifos |-> << >>]
  /\ fd = [c \in Clients |-> "off"]
  /\ sent = [c \in Clients |-> 0]
  /\ internal_queue = [s \in Slots |-> NoText]
  /\ queue_front = 0 /\ queue_back = 0
  /\ queue_sem = 1
  /\ rpc = [f \in Fifos |-> "read"]
  /\ buffer = [f \in Fifos |-> NoText]
  /\ dpc = "idle" /\ message = 0 /\ candidate = 0
  /\ worker_pipes = [w \in Workers |-> << >>]
  /\ semwork = [w \in Workers |-> 0]
  /\ wpc = [w \in Workers |-> "read"]
  /\ work = [w \in Workers |-> NoText]
  /\ answers = 0
  /\ lastWritten = [c \in Clients |-> 0]

--------------------------------------------------------------------------------
(* Clients: UserConsole.c and Sensor.c *)

\* write() of a short message is atomic; it blocks while the pipe has no room.
Fits(cells, pipe) == Len(pipe) + Len(cells) <= PipeSize

offClients == <<ring, queue_sem, readers, dispatcher, worker_pipes, workers,
                lastWritten>>

\* open(O_WRONLY) returns once the pipe has a reader, and not after the reader
\* thread is gone.
Open(c) ==
  /\ fd[c] = "off"
  /\ rpc[FifoOf(c)] # "exited"
  /\ fd' = [fd EXCEPT ![c] = "open"]
  /\ UNCHANGED <<fifo, sent, offClients>>

Send(c) ==
  /\ fd[c] = "open"
  /\ sent[c] < MaxSent[c]
  /\ sent' = [sent EXCEPT ![c] = @ + 1]
  /\ \E e \in EffectsOf(c) :
       LET m == [from |-> c, effect |-> e, n |-> sent[c] + 1] IN
         /\ Fits(CellsOf(WholeText(m)), fifo[FifoOf(c)])
         /\ fifo' = [fifo EXCEPT ![FifoOf(c)] = @ \o CellsOf(WholeText(m))]
  /\ UNCHANGED <<fd, offClients>>

\* "Exit" on a console, or the end of the process.
Close(c) ==
  /\ fd[c] = "open"
  /\ fd' = [fd EXCEPT ![c] = "closed"]
  /\ UNCHANGED <<fifo, sent, offClients>>

Client == \E c \in Clients : Open(c) \/ Send(c) \/ Close(c)

--------------------------------------------------------------------------------
(* The reader threads: read_thread, add_to_queue *)

offReaders == <<clients, dispatcher, worker_pipes, workers, lastWritten>>

\* Only the first string of the buffer goes on; the others are overwritten.
ReadFifo(f) ==
  /\ rpc[f] = "read"
  /\ fifo[f] # << >>
  /\ \E t \in TextsAt(Head(fifo[f])) : buffer' = [buffer EXCEPT ![f] = t]
  /\ fifo' = [fifo EXCEPT ![f] = Unread(@)]
  /\ rpc' = [rpc EXCEPT ![f] = "lock"]
  /\ UNCHANGED <<ring, queue_sem, offReaders>>

\* read() returns 0 once every writer has closed, and the thread ends.
ExitReader(f) ==
  /\ rpc[f] = "read"
  /\ fifo[f] = << >>
  /\ \E c \in Clients : FifoOf(c) = f /\ fd[c] = "closed"
  /\ \A c \in Clients : FifoOf(c) = f => fd[c] # "open"
  /\ rpc' = [rpc EXCEPT ![f] = "exited"]
  /\ UNCHANGED <<fifo, buffer, ring, queue_sem, offReaders>>

ReaderLock(f) ==
  /\ rpc[f] = "lock"
  /\ queue_sem > 0
  /\ queue_sem' = queue_sem - 1
  /\ rpc' = [rpc EXCEPT ![f] = "insert"]
  /\ UNCHANGED <<fifo, buffer, ring, offReaders>>

NeverFull == FALSE  \* variant: no full test
QueueFull == RingFull(queue_front, queue_back, queusize)

DropWhenFull(f) ==
  /\ rpc[f] = "insert"
  /\ QueueFull
  /\ queue_sem' = queue_sem + 1
  /\ rpc' = [rpc EXCEPT ![f] = "read"]
  /\ UNCHANGED <<fifo, buffer, ring, offReaders>>

CopyMessage(f) ==
  /\ rpc[f] = "insert"
  /\ ~QueueFull
  /\ internal_queue' = [internal_queue EXCEPT ![queue_back] = buffer[f]]
  /\ rpc' = [rpc EXCEPT ![f] = "advance"]
  /\ UNCHANGED <<fifo, buffer, queue_front, queue_back, queue_sem, offReaders>>

\* Variant: back is incremented without the modulo.
AdvanceNoModulo(f) ==
  /\ rpc[f] = "advance"
  /\ queue_back' = queue_back + 1
  /\ queue_sem' = queue_sem + 1
  /\ rpc' = [rpc EXCEPT ![f] = "read"]
  /\ UNCHANGED <<fifo, buffer, internal_queue, queue_front, offReaders>>

AdvanceBack(f) ==
  /\ rpc[f] = "advance"
  /\ queue_back' = Advance(queue_back, queusize)
  /\ queue_sem' = queue_sem + 1
  /\ rpc' = [rpc EXCEPT ![f] = "read"]
  /\ UNCHANGED <<fifo, buffer, internal_queue, queue_front, offReaders>>

Reader(f) == \/ ReadFifo(f) \/ ExitReader(f) \/ ReaderLock(f)
             \/ DropWhenFull(f) \/ CopyMessage(f) \/ AdvanceBack(f)

--------------------------------------------------------------------------------
(* The dispatcher thread: getqueue, dispatcher_thread *)

offDispatcher == <<fifo, clients, internal_queue, queue_back, readers, workers>>

\* getqueue.  Polling an empty queue changes nothing and is left out.
DispatcherLock ==
  /\ dpc = "idle"
  /\ queue_front # queue_back
  /\ queue_sem > 0
  /\ queue_sem' = queue_sem - 1
  /\ dpc' = "take"
  /\ UNCHANGED <<queue_front, message, candidate, worker_pipes, lastWritten,
                 offDispatcher>>

Queued == {Place(queue_front, k, queusize) :
             k \in 0 .. (Occupancy(queue_front, queue_back, queusize) - 1)}
\* Distance from the front, to compare positions around the ring.
Ahead(s) == Occupancy(queue_front, s, queusize)

UrgentSlots == {s \in Queued : internal_queue[s].prio}

\* Variant: no priority.
ChosenFront(s) == s = queue_front

\* The first message of a console, or the message at the front.
IsChosen(s) ==
  IF UrgentSlots = {}
    THEN s = queue_front
    ELSE s \in UrgentSlots /\ \A r \in UrgentSlots : Ahead(s) <= Ahead(r)

\* Variant: front moves by one.
TakeAndStep ==
  /\ dpc = "take"
  /\ \E s \in Slots : IsChosen(s) /\ message' = s
  /\ queue_front' = Advance(queue_front, queusize)
  /\ queue_sem' = queue_sem + 1
  /\ dpc' = "scan"
  /\ candidate' = 0
  /\ UNCHANGED <<worker_pipes, lastWritten, offDispatcher>>

\* front jumps over whatever is before the chosen message.
TakeMessage ==
  /\ dpc = "take"
  /\ \E s \in Slots :
       /\ IsChosen(s)
       /\ message' = s
       /\ queue_front' = Advance(s, queusize)
  /\ queue_sem' = queue_sem + 1
  /\ dpc' = "scan"
  /\ candidate' = 0
  /\ UNCHANGED <<worker_pipes, lastWritten, offDispatcher>>

\* One look at one worker: semctl(GETVAL) under the shared memory lock.
LookAtWorker ==
  /\ dpc = "scan"
  /\ \/ /\ semwork[candidate] = 0
        /\ dpc' = "write"
        /\ UNCHANGED candidate
     \/ /\ semwork[candidate] # 0
        /\ candidate' = (candidate + 1) % nworkers
        /\ UNCHANGED dpc
  /\ UNCHANGED <<queue_front, queue_sem, message, worker_pipes, lastWritten,
                 offDispatcher>>

WriteToWorker ==
  LET t == internal_queue[message] IN
    /\ dpc = "write"
    /\ Fits(CellsOf(t), worker_pipes[candidate])
    /\ worker_pipes' = [worker_pipes EXCEPT ![candidate] = @ \o CellsOf(t)]
    /\ lastWritten' = [lastWritten EXCEPT ![t.msg.from] = t.msg.n]
    /\ dpc' = "idle"
    /\ UNCHANGED <<queue_front, queue_sem, message, candidate, offDispatcher>>

Dispatcher == DispatcherLock \/ TakeMessage \/ LookAtWorker \/ WriteToWorker

--------------------------------------------------------------------------------
(* The worker processes: worker *)

offWorkers == <<fifo, clients, ring, queue_sem, readers, dispatcher, lastWritten>>

WorkerRead(w) ==
  /\ wpc[w] = "read"
  /\ worker_pipes[w] # << >>
  /\ \E t \in TextsAt(Head(worker_pipes[w])) : work' = [work EXCEPT ![w] = t]
  /\ worker_pipes' = [worker_pipes EXCEPT ![w] = Unread(@)]
  /\ wpc' = [wpc EXCEPT ![w] = "mark"]
  /\ UNCHANGED <<semwork, answers, offWorkers>>

\* The worker calls itself busy only now, under the shared memory lock.
MarkBusy(w) ==
  /\ wpc[w] = "mark"
  /\ semwork' = [semwork EXCEPT ![w] = IF @ = 0 THEN 1 ELSE @]
  /\ wpc' = [wpc EXCEPT ![w] = "work"]
  /\ UNCHANGED <<worker_pipes, work, answers, offWorkers>>

\* mq_send blocks while the message queue is full.  (An answer is one message.)
Carry(w) ==
  /\ wpc[w] = "work"
  /\ \/ work[w].effect = "none" /\ UNCHANGED answers
     \/ /\ work[w].effect = "answer"
        /\ answers < MAX_MESSAGES
        /\ answers' = answers + 1
  /\ wpc' = [wpc EXCEPT ![w] = "unmark"]
  /\ UNCHANGED <<semwork, worker_pipes, work, offWorkers>>

\* Variant: the semaphore keeps the increment of a dead worker.
DieMarked(w) ==
  /\ wpc[w] = "work"
  /\ work[w].effect = "kill"
  /\ wpc' = [wpc EXCEPT ![w] = "dead"]
  /\ UNCHANGED <<semwork, worker_pipes, work, answers, offWorkers>>

\* The worker dies and SEM_UNDO takes back its increment: its semaphore reads 0,
\* which is what the dispatcher looks for.
Die(w) ==
  /\ wpc[w] = "work"
  /\ work[w].effect = "kill"
  /\ wpc' = [wpc EXCEPT ![w] = "dead"]
  /\ semwork' = [semwork EXCEPT ![w] = @ - 1]
  /\ UNCHANGED <<worker_pipes, work, answers, offWorkers>>

\* Variant: the worker never calls itself free again.
MarkFreeForgotten(w) ==
  /\ wpc[w] = "unmark"
  /\ wpc' = [wpc EXCEPT ![w] = "read"]
  /\ UNCHANGED <<semwork, worker_pipes, work, answers, offWorkers>>

MarkFree(w) ==
  /\ wpc[w] = "unmark"
  /\ semwork[w] > 0
  /\ semwork' = [semwork EXCEPT ![w] = @ - 1]
  /\ wpc' = [wpc EXCEPT ![w] = "read"]
  /\ UNCHANGED <<worker_pipes, work, answers, offWorkers>>

\* listen_to_queue: every console takes answers, also those of others, until its
\* process ends.
Listening(c) == c \notin Sensors /\ fd[c] # "closed"
Listen ==
  /\ \E c \in Clients : Listening(c)
  /\ answers > 0
  /\ answers' = answers - 1
  /\ UNCHANGED <<semwork, worker_pipes, wpc, work, offWorkers>>

Worker(w) == WorkerRead(w) \/ MarkBusy(w) \/ Carry(w) \/ Die(w) \/ MarkFree(w)

--------------------------------------------------------------------------------
Next == \/ Client
        \/ \E f \in Fifos : Reader(f)
        \/ Dispatcher
        \/ \E w \in Workers : Worker(w)
        \/ Listen

Spec == Init /\ [][Next]_vars

\* The kernel runs every thread and every process that can run.
FairSpec == /\ Spec
            /\ \A f \in Fifos : WF_vars(Reader(f))
            /\ WF_vars(Dispatcher)
            /\ \A w \in Workers : WF_vars(Worker(w))
            /\ WF_vars(Listen)

--------------------------------------------------------------------------------
(* Properties *)

TypeOK ==
  /\ fifo \in [Fifos -> Seq(Cell)]
  /\ fd \in [Clients -> {"off", "open", "closed"}]
  /\ sent \in [Clients -> Nat]
  /\ internal_queue \in [Slots -> Text]
  /\ queue_front \in Slots /\ queue_back \in Slots
  /\ queue_sem \in {0, 1}
  /\ rpc \in [Fifos -> {"read", "lock", "insert", "advance", "exited"}]
  /\ buffer \in [Fifos -> Text]
  /\ dpc \in {"idle", "take", "scan", "write"}
  /\ message \in Slots
  /\ candidate \in Workers
  /\ worker_pipes \in [Workers -> Seq(Cell)]
  /\ semwork \in [Workers -> {0, 1}]
  /\ wpc \in [Workers -> {"read", "mark", "work", "unmark", "dead"}]
  /\ work \in [Workers -> Text]
  /\ answers \in 0 .. MAX_MESSAGES
  /\ lastWritten \in [Clients -> Nat]

\* getqueue returns a pointer into internal_queue after it has given up
\* queue_sem, and the dispatcher may scan busy workers for a long time before
\* it copies the message.  No reader overwrites the slot in the meantime.
HeldSlotStable ==
  [][(dpc = "scan" \/ dpc = "write")
       => (internal_queue'[message] = internal_queue[message])]_vars

\* The message the dispatcher holds is newer than every message of the same
\* client it has written before: the messages of a client reach the workers in
\* the order they were sent and none reaches them twice, whatever is skipped,
\* dropped or cut on the way.
InOrder ==
  dpc \in {"scan", "write"}
    => LET m == internal_queue[message].msg IN m.n > lastWritten[m.from]

\* A worker's semaphore reads 1 exactly while the worker carries out a message;
\* it reads 0 for a dead one.
BusyMeansWorking ==
  \A w \in Workers : semwork[w] = 1 <=> wpc[w] \in {"work", "unmark"}

\* SEM_UNDO leaves a dead worker at the value the dispatcher takes for available,
\* and every scan begins at worker 0: once worker 0 is dead, a dispatcher that looks
\* at it never comes to another one, however free, and all goes to a pipe that
\* nobody reads.
DeadWorkerTakesAll ==
  [][wpc[0] = "dead" /\ candidate = 0 => candidate' = 0]_vars

\* internal_queue between front and back is a bounded queue with priority for
\* the consoles, to two readers and the dispatcher.
IsUrgent(t) == t.prio
Queue == INSTANCE PriorityFifo WITH
  Message <- Text, Capacity <- queusize - 1, Urgent <- IsUrgent,
  queue <- Contents(internal_queue, queue_front, queue_back, queusize)
QueueIsPriorityFifo == Queue!Spec

\* As long as a console stays to take the answers and no worker dies, the
\* dispatcher gets rid of every message.
Drained == queue_front = queue_back /\ dpc = "idle"
QueueDrains ==
  (/\ <>[](\E c \in Clients : Listening(c))
   /\ [](\A w \in Workers : wpc[w] # "dead"))
  => <>[]Drained

--------------------------------------------------------------------------------
(* What comments of the repository say, and the code does not do *)

\* dispatcher_thread: "find an available worker": the worker a message is
\* written to is waiting for one.
WrittenToAvailableWorker ==
  [][(dpc = "write" /\ dpc' = "idle")
       => (wpc[candidate] = "read" /\ worker_pipes[candidate] = << >>)]_vars
================================================================================
