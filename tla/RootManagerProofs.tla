--------------------------- MODULE RootManagerProofs ---------------------------
(***************************************************************************)
(* Theorems about RootManager: for any number of clients, queue positions  *)
(* and starts.                                                             *)
(***************************************************************************)
EXTENDS RootManager, SequenceTheorems, TLAPS

\* What the proofs say of the Receiver: a pipe it reads or has closed is one
\* that select() looks at.
ReadsWhatItSelects == shut \subseteq read_fds /\ rpc \in read_fds \union {"select"}

Inv == TypeOK /\ QueuesFillOnce /\ ReadsWhatItSelects

\* A queue that is not full has room for the next index.
LEMMA RoomBehindBack ==
  ASSUME NEW n \in Nat, n > 0, NEW i \in Nat, i < n, ~RingFull(0, i, n)
  PROVE  Advance(i, n) = i + 1 /\ i + 1 < n
<1>1. i + 1 = n \/ i + 1 < n
  OBVIOUS
<1>2. n % n = 0
  OBVIOUS
<1>3. i + 1 < n => (i + 1) % n = i + 1
  OBVIOUS
<1> QED
  BY <1>1, <1>2, <1>3 DEF RingFull, Advance

LEMMA CellsType ==
  ASSUME NEW k \in Services \union {"register", "command"}
  PROVE  Cells(k) \in Seq(Cell) /\ Len(Cells(k)) = 2
  BY DEF Cells, Cell

\* A write puts two cells behind what is in the pipe.
LEMMA WrittenType ==
  ASSUME NEW c \in Seq(Cell), NEW k \in Services \union {"register", "command"}
  PROVE  c \o Cells(k) \in Seq(Cell) /\ Len(c \o Cells(k)) = Len(c) + 2
<1> DEFINE new == Cells(k)
<1>1. new \in Seq(Cell) /\ Len(new) = 2
  BY CellsType
<1> DEFINE C == Cell
<1> HIDE DEF new, C
<1>2. c \in Seq(C) /\ new \in Seq(C)
  BY <1>1 DEF C
<1>3. c \o new \in Seq(C) /\ Len(c \o new) = Len(c) + Len(new)
  BY <1>2, ConcatProperties
<1> QED
  BY <1>1, <1>3 DEF new, C

\* A read leaves a shorter sequence of cells.
LEMMA UnreadType ==
  ASSUME NEW c \in Seq(Cell), c # << >>
  PROVE  Unread(c) \in Seq(Cell) /\ Len(Unread(c)) <= Len(c) /\ Head(c) \in Cell
<1>1. Len(c) \in Nat /\ ReadMax \in Nat /\ ReadMax >= 2
  BY RootAssumption
<1>2. ReadMax + 1 \in 1 .. Len(c) + 1 \/ ReadMax + 1 > Len(c)
  BY <1>1
<1>3. Unread(c) \in Seq(Cell) /\ Len(Unread(c)) <= Len(c)
  BY <1>1, <1>2, SubSeqProperties DEF Unread
<1> QED
  BY <1>3

PipeType(p) == p \in [Pipes -> Seq(Cell)] /\ \A x \in Pipes : Len(p[x]) <= PipeSize

\* The manager's end keeps a pipe or empties it.
LEMMA KeptType ==
  ASSUME NEW content, PipeType(content), NEW open
  PROVE  PipeType(Kept(content, open))
  BY EmptySeq, RootAssumption DEF PipeType, Kept

USE DEF vars, receiver, queues, clients

LEMMA InitInv == Init => Inv
<1> SUFFICES ASSUME Init PROVE Inv
  OBVIOUS
<1>1. << >> \in Seq(Cell) /\ << >> \in Seq(Services) /\ Len(<< >>) = 0
  OBVIOUS
<1> QED
  BY <1>1, RootAssumption DEF Init, Inv, TypeOK, QueuesFillOnce, ReadsWhatItSelects

LEMMA ManagerInv == Inv /\ Manager => Inv'
<1> SUFFICES ASSUME Inv, Manager PROVE Inv'
  OBVIOUS
<1> USE DEF Inv
<1>1. PipeType(pipe)
  BY DEF TypeOK, PipeType
<1>2. CASE JoinReturns
  <2>1. PipeType(pipe')
    BY <1>1, <1>2, KeptType DEF JoinReturns, Stop
  <2> QED
    BY <1>2, <2>1 DEF JoinReturns, Stop, TypeOK, PipeType, QueuesFillOnce,
                      ReadsWhatItSelects
<1>3. CASE Interrupt
  <2>1. PipeType(pipe')
    BY <1>1, <1>3, KeptType DEF Interrupt, Stop
  <2> QED
    BY <1>3, <2>1 DEF Interrupt, Stop, TypeOK, PipeType, QueuesFillOnce,
                      ReadsWhatItSelects
<1>4. CASE Start
  <2>1. starts' \in 1 .. MaxStarts
    BY <1>4, RootAssumption DEF Start, TypeOK
  <2>2. PipeType(pipe')
    <3>1. pipe' = pipe \/ pipe' = [p \in Pipes |-> << >>]
      BY <1>4 DEF Start
    <3>2. PipeType([p \in Pipes |-> << >>])
      BY EmptySeq, RootAssumption DEF PipeType
    <3> QED
      BY <1>1, <3>1, <3>2
  <2>3. fd' \in [Clients -> {"off", "open", "orphan", "closed"}]
    BY <1>4 DEF Start, TypeOK
  <2> QED
    BY <1>4, <2>1, <2>2, <2>3
       DEF Start, TypeOK, PipeType, QueuesFillOnce, ReadsWhatItSelects
<1> QED
  BY <1>2, <1>3, <1>4 DEF Manager

LEMMA PipeOfType == \A c : PipeOf(c) \in Pipes
  BY DEF PipeOf, Pipes

\* A write of a client, whatever becomes of it.
LEMMA WriteType ==
  ASSUME Inv, NEW c \in Clients,
         NEW k \in Services \union {"register", "command"}, Write(c, k)
  PROVE  /\ PipeType(pipe') /\ sent' \in [Clients -> Nat]
         /\ fd' \in [Clients -> {"off", "open", "orphan", "closed"}]
<1> DEFINE p == PipeOf(c)
<1>1. p \in Pipes /\ PipeType(pipe)
  BY PipeOfType DEF Inv, TypeOK, PipeType
<1>2. CASE /\ fd[c] = "open" /\ HasReader(p)
           /\ Len(pipe[p]) + 2 <= PipeSize
           /\ pipe' = [pipe EXCEPT ![p] = @ \o Cells(k)]
           /\ sent' = [sent EXCEPT ![c] = @ + 1]
           /\ UNCHANGED fd
  <2>1. pipe[p] \o Cells(k) \in Seq(Cell)
        /\ Len(pipe[p] \o Cells(k)) = Len(pipe[p]) + 2
    BY <1>1, WrittenType DEF PipeType
  <2> QED
    BY <1>1, <1>2, <2>1 DEF Inv, TypeOK, PipeType
<1>3. CASE HangUp(c) /\ UNCHANGED sent
  BY <1>1, <1>3, EmptySeq, RootAssumption DEF HangUp, Inv, TypeOK, PipeType
<1> QED
  BY <1>2, <1>3 DEF Write

LEMMA ClientInv == Inv /\ Client => Inv'
<1> SUFFICES ASSUME Inv, Client PROVE Inv'
  OBVIOUS
<1> USE DEF Inv
<1>1. CASE \E c \in Clients : Open(c) \/ OpenFails(c)
  BY <1>1, PipeOfType DEF Open, OpenFails, TypeOK, QueuesFillOnce, ReadsWhatItSelects
<1>2. CASE \E c \in Clients : Close(c) \/ InterruptClient(c)
  <2>1. PICK c \in Clients : Close(c) \/ InterruptClient(c)
    BY <1>2
  <2>2. HangUp(c) /\ named' \in BOOLEAN
    BY <2>1 DEF Close, InterruptClient, TypeOK
  <2>3. /\ PipeType(pipe')
        /\ fd' \in [Clients -> {"off", "open", "orphan", "closed"}]
    BY <2>2, PipeOfType, EmptySeq, RootAssumption DEF HangUp, TypeOK, PipeType
  <2> QED
    BY <2>1, <2>2, <2>3
       DEF Close, InterruptClient, TypeOK, PipeType, QueuesFillOnce, ReadsWhatItSelects
<1>3. CASE \E b \in BackOffices : Command(b)
  <2>1. PICK b \in BackOffices : Command(b)
    BY <1>3
  <2>2. b \in Clients /\ Write(b, "command")
    BY <2>1 DEF Command, Clients
  <2> QED
    BY <2>1, <2>2, WriteType
       DEF Command, TypeOK, PipeType, QueuesFillOnce, ReadsWhatItSelects
<1>4. CASE \E u \in Users : Register(u)
  <2>1. PICK u \in Users : Register(u)
    BY <1>4
  <2>2. u \in Clients /\ Write(u, "register")
    BY <2>1 DEF Register, Clients
  <2> QED
    BY <2>1, <2>2, WriteType
       DEF Register, TypeOK, PipeType, QueuesFillOnce, ReadsWhatItSelects
<1>5. CASE \E u \in Users : Iterate(u)
  <2>1. PICK u \in Users : Iterate(u)
    BY <1>5
  <2> DEFINE IfDue(e, s) == IF e % Interval[s] = 0 THEN <<s>> ELSE << >>
  <2>2. PICK e \in 0 .. MaxElapsed :
          /\ todo' = [todo EXCEPT ![u] = IfDue(e, "MUSIC") \o IfDue(e, "SOCIAL")
                                          \o IfDue(e, "VIDEO")]
          /\ requestCounter' = [requestCounter EXCEPT
                                  ![u] = IF e % Interval["VIDEO"] = 0 THEN @ + 1 ELSE @]
    BY <2>1 DEF Iterate
  <2>3. \A s \in Services : IfDue(e, s) \in Seq(Services)
    BY EmptySeq
  <2> HIDE DEF IfDue
  <2>4. IfDue(e, "MUSIC") \o IfDue(e, "SOCIAL") \o IfDue(e, "VIDEO") \in Seq(Services)
    BY <2>3, ConcatProperties DEF Services
  <2>5. todo' \in [Users -> Seq(Services)] /\ requestCounter' \in [Users -> Nat]
    BY <2>2, <2>4 DEF TypeOK
  <2> QED
    BY <2>1, <2>5 DEF Iterate, TypeOK, QueuesFillOnce, ReadsWhatItSelects
<1>6. CASE \E u \in Users : Request(u)
  <2>1. PICK u \in Users : Request(u)
    BY <1>6
  <2>2. todo[u] \in Seq(Services) /\ todo[u] # << >>
    BY <2>1 DEF Request, TypeOK
  <2>3. u \in Clients /\ Head(todo[u]) \in Services /\ Tail(todo[u]) \in Seq(Services)
    BY <2>2, HeadTailProperties DEF Clients
  <2>4. Write(u, Head(todo[u])) /\ todo' \in [Users -> Seq(Services)]
    BY <2>1, <2>3 DEF Request, TypeOK
  <2> QED
    BY <2>1, <2>3, <2>4, WriteType
       DEF Request, TypeOK, PipeType, QueuesFillOnce, ReadsWhatItSelects
<1> QED
  BY <1>1, <1>2, <1>3, <1>4, <1>5, <1>6 DEF Client

\* Filing a text leaves the queues as they were or takes the next slot.
LEMMA AddInv ==
  ASSUME Inv, NEW q \in Queues, NEW length \in 0 .. MaxWords, Add(q, length),
         QUEUE_POS # 0
  PROVE  /\ queueBack' \in [Queues -> Nat] /\ filed' \in [Queues -> Nat]
         /\ words' \in [Queues -> 0 .. MaxWords]
         /\ QueuesFillOnce'
<1>1. CASE Full(q)
  BY <1>1 DEF Add, Inv, TypeOK, QueuesFillOnce
<1>2. CASE ~Full(q)
  <2>1. QUEUE_POS \in Nat /\ QUEUE_POS > 0
    BY RootAssumption
  <2>2. queueBack[q] \in Nat /\ queueBack[q] < QUEUE_POS
    BY <2>1 DEF Inv, TypeOK, QueuesFillOnce
  <2>3. ~RingFull(0, queueBack[q], QUEUE_POS)
    BY <1>2 DEF Full, queueFront
  <2>4. Advance(queueBack[q], QUEUE_POS) = queueBack[q] + 1
        /\ queueBack[q] + 1 < QUEUE_POS
    BY <2>1, <2>2, <2>3, RoomBehindBack
  <2>5. /\ queueBack' = [queueBack EXCEPT ![q] = queueBack[q] + 1]
        /\ filed' = [filed EXCEPT ![q] = @ + 1]
        /\ words' = IF queueBack[q] = 0 THEN [words EXCEPT ![q] = length] ELSE words
    BY <1>2, <2>4 DEF Add
  <2> QED
    BY <2>1, <2>4, <2>5 DEF Inv, TypeOK, QueuesFillOnce
<1> QED
  BY <1>1, <1>2

LEMMA ReceiverInv == Inv /\ Receiver => Inv'
<1> SUFFICES ASSUME Inv, Receiver PROVE Inv'
  OBVIOUS
<1> USE DEF Inv
<1>1. PipeType(pipe)
  BY DEF TypeOK, PipeType
<1>2. CASE Select
  BY <1>2 DEF Select, TypeOK, QueuesFillOnce, ReadsWhatItSelects, Pipes
<1>3. CASE SelectClosed
  <2>1. PipeType(pipe')
    BY <1>1, <1>3, KeptType DEF SelectClosed, Stop
  <2> QED
    BY <1>3, <2>1 DEF SelectClosed, Stop, TypeOK, PipeType, QueuesFillOnce,
                      ReadsWhatItSelects
<1>4. ASSUME NEW p \in Pipes, ReadFails(p) PROVE Inv'
  <2>1. PipeType(pipe')
    BY <1>1, <1>4, KeptType DEF ReadFails, Stop
  <2> QED
    BY <1>4, <2>1 DEF ReadFails, Stop, TypeOK, PipeType, QueuesFillOnce,
                      ReadsWhatItSelects
<1>5. \A p \in Pipes : AfterPipe(p) \in {"select", "user", "back"}
                       /\ AfterPipe(p) \in read_fds \union {"select"}
  BY DEF AfterPipe
<1>6. ASSUME NEW p \in Pipes, ReadEnd(p) PROVE Inv'
  <2>1. p \in read_fds
    BY <1>6 DEF ReadEnd, ReadsWhatItSelects, Pipes
  <2> QED
    BY <1>5, <1>6, <2>1 DEF ReadEnd, TypeOK, QueuesFillOnce, ReadsWhatItSelects
<1>7. ASSUME NEW p \in Pipes, Read(p) PROVE Inv'
  <2> DEFINE cell == Head(pipe[p])
             rest == [pipe EXCEPT ![p] = Unread(@)]
  <2>1. pipe[p] \in Seq(Cell) /\ pipe[p] # << >> /\ Len(pipe[p]) <= PipeSize
    BY <1>1, <1>7 DEF Read, PipeType
  <2>2. Unread(pipe[p]) \in Seq(Cell) /\ Len(Unread(pipe[p])) <= Len(pipe[p])
    BY <2>1, UnreadType
  <2>3. Len(Unread(pipe[p])) <= PipeSize
    BY <2>1, <2>2, RootAssumption
  <2>4. PipeType(rest)
    BY <1>1, <2>2, <2>3 DEF PipeType
  <2>5. PICK kind \in Kinds(p, cell) :
          LET q == QueueOf(kind) IN
            IF q # "none" /\ QUEUE_POS = 0
              THEN Stop(rest) /\ UNCHANGED queues
              ELSE /\ pipe' = rest
                   /\ IF q = "none" THEN UNCHANGED queues ELSE
                        \E length \in (IF cell.head THEN 1 ELSE 0) .. MaxWords :
                          Add(q, length)
                   /\ UNCHANGED alive
    BY <1>7 DEF Read
  <2> HIDE DEF rest, cell
  <2>6. QueueOf(kind) = "none" \/ QueueOf(kind) \in Queues
    BY DEF QueueOf, Queues
  <2>7. /\ PipeType(pipe') /\ alive' \in BOOLEAN
        /\ queueBack' \in [Queues -> Nat] /\ filed' \in [Queues -> Nat]
        /\ words' \in [Queues -> 0 .. MaxWords]
        /\ QueuesFillOnce'
    <3>1. CASE QueueOf(kind) # "none" /\ QUEUE_POS = 0
      <4>1. PipeType(pipe') /\ alive' = FALSE /\ UNCHANGED queues
        BY <2>4, <2>5, <3>1, KeptType DEF Stop
      <4> QED
        BY <4>1 DEF TypeOK, QueuesFillOnce
    <3>2. CASE QueueOf(kind) = "none"
      <4>1. pipe' = rest /\ UNCHANGED alive /\ UNCHANGED queues
        BY <2>5, <3>2
      <4> QED
        BY <2>4, <4>1 DEF TypeOK, QueuesFillOnce
    <3>3. CASE QueueOf(kind) # "none" /\ QUEUE_POS # 0
      <4>1. pipe' = rest /\ UNCHANGED alive
        BY <2>5, <3>3
      <4>2. PICK length \in (IF cell.head THEN 1 ELSE 0) .. MaxWords :
              Add(QueueOf(kind), length)
        BY <2>5, <3>3
      <4>3. length \in 0 .. MaxWords
        BY <4>2, RootAssumption
      <4> QED
        BY <2>4, <2>6, <3>3, <4>1, <4>2, <4>3, AddInv DEF TypeOK
    <3> QED
      BY <3>1, <3>2, <3>3
  <2>8. /\ rpc' = AfterPipe(p)
        /\ UNCHANGED <<starts, named, heard, read_fds, shut, spc, clients>>
    BY <1>7 DEF Read
  <2> QED
    BY <1>5, <2>7, <2>8 DEF TypeOK, PipeType, ReadsWhatItSelects
<1> QED
  BY <1>2, <1>3, <1>4, <1>6, <1>7 DEF Receiver

LEMMA SenderInv == Inv /\ Sender => Inv'
<1> SUFFICES ASSUME Inv, Sender PROVE Inv'
  OBVIOUS
<1>1. \A q \in Queues : ~IsEmpty(q) => words[q] - 1 \in 0 .. MaxWords
  BY RootAssumption DEF IsEmpty, Inv, TypeOK
<1>2. words' \in [Queues -> 0 .. MaxWords]
  BY <1>1 DEF Sender, SendVideo, SendOther, Inv, TypeOK, Queues
<1> QED
  BY <1>2 DEF Sender, SendVideo, SendOther, Inv, TypeOK, QueuesFillOnce,
              ReadsWhatItSelects

\* The invariant is inductive.
THEOREM Invariant == Spec => []Inv
<1>1. Inv /\ UNCHANGED vars => Inv'
  BY DEF Inv, TypeOK, QueuesFillOnce, ReadsWhatItSelects
<1>2. Inv /\ [Next]_vars => Inv'
  BY <1>1, ManagerInv, ClientInv, ReceiverInv, SenderInv DEF Next
<1> QED
  BY <1>2, InitInv, PTL DEF Spec

\* Types, for every number of clients, messages and slots (receiverFunction and
\* senderFunction with their queues).
THEOREM TypeCorrect == Spec => []TypeOK
<1>1. Inv => TypeOK
  BY DEF Inv
<1> QED
  BY <1>1, Invariant, PTL

\* A queue of n positions accepts at most n - 1 messages in the life of a manager
\* (addVideoQueue, addOtherQueue: front never moves).
THEOREM QueuesAreNoRings == Spec => []QueuesFillOnce
<1>1. Inv => QueuesFillOnce
  BY DEF Inv
<1> QED
  BY <1>1, Invariant, PTL

--------------------------------------------------------------------------------
(* A pipe that select() has dropped *)

\* Of the steps between two states in which a manager runs, only reads shorten a
\* pipe, and they read what is selected.
LEMMA DeafStep ==
  ASSUME Inv, [Next]_vars, alive, alive', NEW p \in Pipes, p \notin read_fds
  PROVE  p \notin read_fds' /\ Len(pipe'[p]) >= Len(pipe[p])
<1>1. pipe[p] \in Seq(Cell) /\ Len(pipe[p]) \in Nat /\ p \notin shut
  BY DEF Inv, TypeOK, ReadsWhatItSelects
<1>2. CASE UNCHANGED vars
  BY <1>1, <1>2
<1>3. CASE Manager
  BY <1>3 DEF Manager, JoinReturns, Interrupt, Start, Stop
<1>4. CASE Sender
  BY <1>1, <1>4 DEF Sender, SendVideo, SendOther
<1>5. CASE Receiver
  <2>1. CASE Select
    BY <1>1, <2>1 DEF Select
  <2>2. CASE SelectClosed
    BY <2>2 DEF SelectClosed, Stop
  <2>3. ASSUME NEW x \in Pipes, ReadFails(x) PROVE FALSE
    BY <2>3 DEF ReadFails, Stop
  <2>4. ASSUME NEW x \in Pipes, ReadEnd(x)
        PROVE  p \notin read_fds' /\ Len(pipe'[p]) >= Len(pipe[p])
    BY <1>1, <2>4 DEF ReadEnd
  <2>5. ASSUME NEW x \in Pipes, Read(x)
        PROVE  p \notin read_fds' /\ Len(pipe'[p]) >= Len(pipe[p])
    <3>1. x # p /\ UNCHANGED read_fds
      BY <2>5 DEF Read, Inv, ReadsWhatItSelects, Pipes
    <3>2. pipe' = [pipe EXCEPT ![x] = Unread(@)]
      BY <2>5 DEF Read, Stop
    <3> QED
      BY <1>1, <3>1, <3>2 DEF Inv, TypeOK
  <2> QED
    BY <1>5, <2>1, <2>2, <2>3, <2>4, <2>5 DEF Receiver
<1>6. CASE Client
  <2>1. ASSUME NEW c, HangUp(c)
        PROVE  pipe'[p] = pipe[p]
    BY <1>1, <2>1 DEF HangUp, HasReader, Inv, TypeOK
  <2>2. ASSUME NEW c \in Clients, NEW k \in Services \union {"register", "command"},
               Write(c, k)
        PROVE  Len(pipe'[p]) >= Len(pipe[p])
    <3>1. CASE HangUp(c)
      BY <1>1, <2>1, <3>1
    <3>2. CASE pipe' = [pipe EXCEPT ![PipeOf(c)] = @ \o Cells(k)]
      <4>1. Len(pipe[p] \o Cells(k)) = Len(pipe[p]) + 2
        BY <1>1, WrittenType
      <4> QED
        BY <1>1, <3>2, <4>1 DEF Inv, TypeOK
    <3> QED
      BY <2>2, <3>1, <3>2 DEF Write
  <2>3. UNCHANGED read_fds
    BY <1>6 DEF Client, Open, OpenFails, Close, InterruptClient, Command, Register,
                Iterate, Request
  <2>4. CASE \E c \in Clients :
               Open(c) \/ OpenFails(c) \/ Close(c) \/ InterruptClient(c)
    BY <1>1, <2>1, <2>3, <2>4 DEF Open, OpenFails, Close, InterruptClient
  <2>5. CASE \E b \in BackOffices : Command(b)
    BY <2>2, <2>3, <2>5 DEF Command, Clients
  <2>6. CASE \E u \in Users : Register(u)
    BY <2>2, <2>3, <2>6 DEF Register, Clients
  <2>7. CASE \E u \in Users : Iterate(u)
    BY <1>1, <2>3, <2>7 DEF Iterate
  <2>8. CASE \E u \in Users : Request(u)
    <3>1. PICK u \in Users : Request(u)
      BY <2>8
    <3>2. todo[u] \in Seq(Services) /\ todo[u] # << >>
      BY <3>1 DEF Request, Inv, TypeOK
    <3>3. Head(todo[u]) \in Services /\ u \in Clients
      BY <3>2, HeadTailProperties DEF Clients
    <3> QED
      BY <2>2, <2>3, <3>1, <3>3 DEF Request
  <2> QED
    BY <1>6, <2>4, <2>5, <2>6, <2>7, <2>8 DEF Client
<1> QED
  BY <1>2, <1>3, <1>4, <1>5, <1>6 DEF Next

\* A pipe that was quiet while the other was ready is never read again, for any
\* clients and whatever they write (receiverFunction: read_fds is filled once).
THEOREM Deaf == Spec => DeafForEver
<1>1. Inv /\ [Next]_vars
        => [\A p \in Pipes :
              alive /\ alive' /\ p \notin read_fds
                => p \notin read_fds' /\ Len(pipe'[p]) >= Len(pipe[p])]_vars
  BY DeafStep
<1> QED
  BY <1>1, Invariant, PTL DEF Spec, DeafForEver
================================================================================
