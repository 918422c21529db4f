------------------------------ MODULE AuthManager ------------------------------
(***************************************************************************)
(* The authorization request manager of PROJ24 with its clients: mobile    *)
(* users and the back office write to two named pipes, the Receiver thread *)
(* reads them and files the requests in two rings, the Sender thread takes *)
(* requests out and hands them to an authorization engine's pipe.  The     *)
(* threads meet at six named semaphores.                                   *)
(*                                                                         *)
(* A step runs from one blocking call to the next.  sem_wait(shm); read;   *)
(* sem_post(shm) around a configuration value is one step that needs the   *)
(* semaphore free and leaves it free.                                      *)
(***************************************************************************)
EXTENDS RingIndex, FiniteSets

CONSTANTS
  Users,            \* the mobile user processes
  Interval,         \* [Users -> [Services -> seconds between two requests]]
  MaxElapsed,       \* bound: seconds a user may wait between two requests
  NumAuthRequests,  \* numAuthRequests, argument of a mobile user
  MaxSent,          \* bound: [Clients -> messages the process writes]
  ReadMax,          \* cells one read() takes (the buffer of 127 bytes, scaled)
  QueuePos,         \* QUEUE_POS of the configuration file, 0 allowed
  MaxAuthServers,   \* AUTH_SERVERS_MAX, 0 when that line was rejected
  MaxLeftover       \* bound: what a counting semaphore keeps of an earlier run

Services == {"VIDEO", "SOCIAL", "MUSIC"}
Queues   == {"video", "other"}
Pipes    == {"user", "back"}
BackOffice == "backoffice"
Clients  == Users \union {BackOffice}
Engines  == 0 .. (MaxAuthServers - 1)

\* A write to a pipe: a registration "pid#plafond", a request
\* "pid#service#data" or a command "1#data_stats" / "1#reset".  n numbers
\* the messages of a client.
Commands == {"data_stats", "reset"}
Registration == UNION {[from : {u}, kind : {"REGISTER"}, n : {1}] : u \in Users}
Request ==
  UNION {[from : {u}, kind : Services, n : 2 .. MaxSent[u]] : u \in Users}
Order   == [from : {BackOffice}, kind : Commands, n : 1 .. MaxSent[BackOffice]]
Message == Registration \union Request \union Order

\* The fields of a message and its terminating NUL are the cells a read()
\* can cut between.
Width(m) == IF m.kind \in Services THEN 4 ELSE 3
Cells(m) == [k \in 1 .. Width(m) |-> [msg |-> m, field |-> k]]
Cell     == [msg : Message, field : 1 .. 4]

\* A string in a buffer is named by its first cell: it runs to the NUL of
\* that message.  It has one token for each field before the NUL.
String      == Cell
TokensOf(s) == Width(s.msg) - s.field
\* The second token is "VIDEO" only in an uncut VIDEO request.
QueueOf(s)  == IF s.field = 1 /\ s.msg.kind = "VIDEO" THEN "video" ELSE "other"

NoMessage(w) == [from |-> BackOffice, kind |-> w, n |-> 0]
NoString == [msg |-> NoMessage("none"), field |-> 0]     \* never written
Garbage  == [msg |-> NoMessage("garbage"), field |-> 0]  \* a stray read
Text     == String \union {NoString}
Delivery == [str : Text \union {Garbage}, bytes : {8}]
Slots    == 0 .. (QueuePos - 1)

\* The values readConfigFile can leave in the shared memory (main ignores its
\* verdict, so a rejected line leaves 0), and this specification's own bounds.
readConfigFile ==
  /\ QueuePos \in Nat /\ MaxAuthServers \in Nat
  /\ NumAuthRequests \in Nat /\ MaxElapsed \in Nat /\ MaxLeftover \in Nat
  /\ MaxSent \in [Clients -> Nat]
  /\ Interval \in [Users -> [Services -> Nat \ {0}]]
  /\ BackOffice \notin Users
ASSUME ConfigAssumption == readConfigFile
\* The buffer holds more than the longest message, so the first string of a
\* read is never cut at its end.
ASSUME ReadAssumption == ReadMax \in Nat /\ ReadMax >= 4

VARIABLES
  pipe,               \* the named pipes: unread cells
  sent,               \* messages each client has written
  requestCounter,     \* VIDEO requests each user has sent
  due,                \* services a user still sends in this iteration
  slots, front, back, \* videoQueue and otherQueue
  shmSem,             \* shmSemaphore
  queueSem,           \* videoQueueSemaphore, otherQueueSemaphore
  counterSem,         \* video_counter_sem, other_counter_sem
  aeSem,              \* ae_states_semaphore
  rpc,                \* where the Receiver is
  numUserFdMessages,  \* 0 before the first read of the user pipe, then 1
  backReady,          \* FD_ISSET(backFd) of the last select
  authOrder, source,  \* the string in addToQueue and the pipe it came from
  spc,                \* where the Sender is
  queue,              \* the queue it serves
  held,               \* queueMessage, a pointer into a ring
  aeState,            \* shMemory->ae_state
  enginePipe,         \* fd_sender_pipes
  usersPtrShift,      \* sem_post()s that landed on shMemory->mobileUsers
  alive               \* the manager process runs

clients  == <<sent, requestCounter, due>>
rings    == <<slots, front, back>>
sems     == <<shmSem, queueSem, counterSem, aeSem>>
receiver == <<rpc, numUserFdMessages, backReady, authOrder, source>>
sender   == <<spc, queue, held>>
engines  == <<aeState, enginePipe, usersPtrShift>>
locals   == <<numUserFdMessages, backReady, authOrder, source>>
\* What the steps of one thread never touch.
offReceiver == <<clients, sender, engines>>
offSender   == <<pipe, clients, receiver>>
vars     == <<pipe, clients, rings, sems, receiver, sender, engines, alive>>

NeverFull(q) == FALSE  \* variant: no full test
Full(q)     == RingFull(front[q], back[q], QueuePos)
Occupied(q) == Occupancy(front[q], back[q], QueuePos)
RingOf(q)   == Contents(slots[q], front[q], back[q], QueuePos)

\* queueMessage: a slot of a ring, or a value of no use (read before it is set).
Pointer == [q : Queues, i : Slots]
Stray   == [q |-> "stray", i |-> 0]

\* What initializeSharedMemory leaves in the segment.
InitShared ==
  /\ aeState = [e \in Engines |-> 0]
  /\ usersPtrShift = 0

\* The semaphores once the configuration has been read, which posts AES_SEM for
\* every engine.  The two counters are not unlinked first.
InitSemaphores ==
  /\ shmSem = 1
  /\ queueSem = [q \in Queues |-> 1]
  /\ counterSem \in [Queues -> 0 .. MaxLeftover]
  /\ aeSem = MaxAuthServers + 1

Init ==
  /\ InitShared
  /\ InitSemaphores
  /\ pipe = [p \in Pipes |-> << >>]
  /\ sent = [c \in Clients |-> 0]
  /\ requestCounter = [u \in Users |-> 0]
  /\ due = [u \in Users |-> {}]
  /\ slots = [q \in Queues |-> [i \in Slots |-> NoString]]
  /\ front = [q \in Queues |-> 0]
  /\ back = [q \in Queues |-> 0]
  /\ rpc = "select"
  /\ numUserFdMessages = 0
  /\ backReady = FALSE
  /\ authOrder = NoString
  /\ source = "user"
  /\ spc = "start"
  /\ queue = "video"
  /\ held = Stray
  /\ enginePipe = [e \in Engines |-> << >>]
  /\ alive = TRUE

--------------------------------------------------------------------------------
(* Clients: MobileUser.c and BackOfficeUser.c *)

Write(c, p, kind) ==
  /\ sent[c] < MaxSent[c]
  /\ sent' = [sent EXCEPT ![c] = @ + 1]
  /\ pipe' = [pipe EXCEPT
       ![p] = @ \o Cells([from |-> c, kind |-> kind, n |-> sent[c] + 1])]
  /\ UNCHANGED <<rings, sems, receiver, sender, engines, alive>>

Register(u) ==
  /\ sent[u] = 0
  /\ Write(u, "user", "REGISTER")
  /\ UNCHANGED <<requestCounter, due>>

\* One pass of the loop decides, from the seconds since the last request,
\* which services are due: elapsedTime % interval == 0.
BeginIteration(u) ==
  /\ sent[u] \in 1 .. (MaxSent[u] - 1)
  /\ due[u] = {}
  /\ requestCounter[u] < NumAuthRequests
  /\ \E elapsed \in 0 .. MaxElapsed :
       due' = [due EXCEPT ![u] = {s \in Services : elapsed % Interval[u][s] = 0}]
  /\ UNCHANGED <<pipe, sent, requestCounter, rings, sems, receiver, sender,
                 engines, alive>>

\* MUSIC, then SOCIAL, then VIDEO; only VIDEO counts towards the limit.
SendRequest(u) ==
  \E s \in due[u] :
    /\ sent[u] > 0
    /\ s = "SOCIAL" => "MUSIC" \notin due[u]
    /\ s = "VIDEO" => due[u] = {"VIDEO"}
    /\ Write(u, "user", s)
    /\ due' = [due EXCEPT ![u] = @ \ {s}]
    /\ requestCounter' =
         IF s = "VIDEO" THEN [requestCounter EXCEPT ![u] = @ + 1]
                        ELSE requestCounter

Command ==
  /\ \E c \in Commands : Write(BackOffice, "back", c)
  /\ UNCHANGED <<requestCounter, due>>

Client == alive /\ (Command \/ \E u \in Users : \/ Register(u)
                                                \/ BeginIteration(u)
                                                \/ SendRequest(u))

--------------------------------------------------------------------------------
(* The Receiver thread: receiverFunction and addToQueue *)

\* Where the loop goes on after the user pipe.
AfterUser == IF backReady THEN "readBack" ELSE "select"

\* One read() takes up to ReadMax cells; the strings after the first are lost
\* with the buffer, and a message cut at the end leaves its tail in the pipe.
Unread(cells) == SubSeq(cells, ReadMax + 1, Len(cells))

Select ==
  /\ rpc = "select"
  /\ \E p \in Pipes : pipe[p] # << >>
  /\ backReady' = (pipe["back"] # << >>)
  /\ rpc' = IF pipe["user"] # << >> THEN "readUser" ELSE "readBack"
  /\ UNCHANGED <<pipe, rings, sems, numUserFdMessages, authOrder, source,
                 offReceiver, alive>>

\* Whatever the first read of the user pipe returns is printed, not queued.
ReadRegistration ==
  /\ rpc = "readUser"
  /\ pipe["user"] # << >>
  /\ numUserFdMessages = 0
  /\ pipe' = [pipe EXCEPT !["user"] = Unread(@)]
  /\ numUserFdMessages' = 1
  /\ rpc' = AfterUser
  /\ UNCHANGED <<rings, sems, backReady, authOrder, source, offReceiver, alive>>

ReadOrder(p) ==
  /\ rpc = IF p = "user" THEN "readUser" ELSE "readBack"
  /\ pipe[p] # << >>
  /\ p = "user" => numUserFdMessages > 0
  /\ authOrder' = Head(pipe[p])
  /\ source' = p
  /\ pipe' = [pipe EXCEPT ![p] = Unread(@)]
  /\ rpc' = "size"
  /\ UNCHANGED <<rings, sems, numUserFdMessages, backReady, offReceiver, alive>>

\* The ring the order goes to.
Ring == QueueOf(authOrder)

\* strtok finds no second token and strcpy(authOrderType, NULL) faults.
FaultOnFragment ==
  /\ rpc = "size"
  /\ TokensOf(authOrder) < 2
  /\ alive' = FALSE
  /\ UNCHANGED <<pipe, rings, sems, receiver, offReceiver>>

ReceiverReadSize ==
  /\ rpc = "size"
  /\ TokensOf(authOrder) >= 2
  /\ shmSem > 0
  /\ rpc' = "lock"
  /\ UNCHANGED <<pipe, rings, sems, locals, offReceiver, alive>>

\* Variant: the Receiver does not take the ring's semaphore.
ReceiverNoLock ==
  /\ rpc = "lock"
  /\ rpc' = "insert"
  /\ UNCHANGED <<pipe, rings, sems, locals, offReceiver, alive>>

ReceiverLock ==
  /\ rpc = "lock"
  /\ queueSem[Ring] > 0
  /\ queueSem' = [queueSem EXCEPT ![Ring] = @ - 1]
  /\ rpc' = "insert"
  /\ UNCHANGED <<pipe, rings, shmSem, counterSem, aeSem, locals, offReceiver,
                 alive>>

\* The insertion proper, with the ring's semaphore held: test and copy, then
\* sem_post of the counter, which may wake the Sender at once, and only then
\* back and the release.

\* Variant: the request is copied to the slot after back.
CopyBehindBack ==
  /\ rpc = "insert"
  /\ QueuePos > 0
  /\ ~Full(Ring)
  /\ slots' = [slots EXCEPT ![Ring][Advance(back[Ring], QueuePos)] = authOrder]
  /\ rpc' = "post"
  /\ UNCHANGED <<pipe, front, back, sems, locals, offReceiver, alive>>

CopyRequest ==
  /\ rpc = "insert"
  /\ QueuePos > 0
  /\ ~Full(Ring)
  /\ slots' = [slots EXCEPT ![Ring][back[Ring]] = authOrder]
  /\ rpc' = "post"
  /\ UNCHANGED <<pipe, front, back, sems, locals, offReceiver, alive>>

\* Variant: nobody is told.
PostNothing ==
  /\ rpc = "post"
  /\ rpc' = "advance"
  /\ UNCHANGED <<pipe, rings, sems, locals, offReceiver, alive>>

PostCounter ==
  /\ rpc = "post"
  /\ counterSem' = [counterSem EXCEPT ![Ring] = @ + 1]
  /\ rpc' = "advance"
  /\ UNCHANGED <<pipe, rings, shmSem, queueSem, aeSem, locals, offReceiver,
                 alive>>

\* addToQueue releases the ring and returns to the loop.
LeaveRing ==
  /\ queueSem' = [queueSem EXCEPT ![Ring] = @ + 1]
  /\ rpc' = IF source = "user" THEN AfterUser ELSE "select"
  /\ UNCHANGED <<pipe, slots, front, shmSem, counterSem, aeSem, locals,
                 offReceiver, alive>>

\* Variant: back is incremented without the modulo.
AdvanceNoModulo ==
  /\ rpc = "advance"
  /\ back[Ring] < QueuePos
  /\ back' = [back EXCEPT ![Ring] = @ + 1]
  /\ LeaveRing

AdvanceBack ==
  /\ rpc = "advance"
  /\ back' = [back EXCEPT ![Ring] = Advance(@, QueuePos)]
  /\ LeaveRing

\* Variant: the early exit keeps the ring's semaphore.
DropKeepsLock ==
  /\ rpc = "insert"
  /\ QueuePos > 0
  /\ Full(Ring)
  /\ rpc' = IF source = "user" THEN AfterUser ELSE "select"
  /\ UNCHANGED <<pipe, rings, sems, locals, offReceiver, alive>>

DropWhenFull ==
  /\ rpc = "insert"
  /\ QueuePos > 0
  /\ Full(Ring)
  /\ UNCHANGED back
  /\ LeaveRing

\* Variant: x % 0 is taken to be harmless.
NoFaultOnZeroSlots ==
  /\ rpc = "insert"
  /\ QueuePos = 0
  /\ UNCHANGED back
  /\ LeaveRing

\* (back + 1) % 0 raises SIGFPE inside the critical section.
FaultOnZeroSlots ==
  /\ rpc = "insert"
  /\ QueuePos = 0
  /\ alive' = FALSE
  /\ UNCHANGED <<pipe, rings, sems, receiver, offReceiver>>

Receiver ==
  alive /\ ( \/ Select
             \/ ReadRegistration
             \/ \E p \in Pipes : ReadOrder(p)
             \/ FaultOnFragment
             \/ ReceiverReadSize
             \/ ReceiverLock
             \/ CopyRequest
             \/ PostCounter
             \/ AdvanceBack
             \/ DropWhenFull
             \/ FaultOnZeroSlots )

--------------------------------------------------------------------------------
(* The Sender thread: senderFunction, getFromVideoQueue, getFromOtherQueue *)

ReadMaxAuthServers ==
  /\ spc = "start"
  /\ shmSem > 0
  /\ spc' = "await"
  /\ UNCHANGED <<rings, sems, queue, held, engines, offSender, alive>>

AwaitRequest ==
  /\ spc = "await"
  /\ counterSem[queue] > 0
  /\ counterSem' = [counterSem EXCEPT ![queue] = @ - 1]
  /\ spc' = "size"
  /\ UNCHANGED <<rings, shmSem, queueSem, aeSem, queue, held, engines,
                 offSender, alive>>

SenderReadSize ==
  /\ spc = "size"
  /\ shmSem > 0
  /\ spc' = "lock"
  /\ UNCHANGED <<rings, sems, queue, held, engines, offSender, alive>>

SenderLock ==
  /\ spc = "lock"
  /\ queueSem[queue] > 0
  /\ queueSem' = [queueSem EXCEPT ![queue] = @ - 1]
  /\ spc' = "pop"
  /\ UNCHANGED <<rings, shmSem, counterSem, aeSem, queue, held, engines,
                 offSender, alive>>

\* The end of getFrom...Queue: release the ring, return a pointer.
ReturnPointer(ptr) ==
  /\ held' = ptr
  /\ queueSem' = [queueSem EXCEPT ![queue] = @ + 1]
  /\ spc' = "ae"
  /\ UNCHANGED <<slots, back, shmSem, counterSem, aeSem, queue, engines,
                 offSender>>

Pop ==
  /\ spc = "pop"
  /\ front[queue] # back[queue]
  /\ front' = [front EXCEPT ![queue] = Advance(@, QueuePos)]
  /\ ReturnPointer([q |-> queue, i |-> front[queue]])
  /\ UNCHANGED alive

\* The ring is empty and the local pointer was never set.  If it happens to be
\* NULL the front slot is taken all the same and front runs past back (and with
\* no slots % 0 faults); otherwise whatever it held is returned.
PopEmptyNull ==
  /\ spc = "pop"
  /\ front[queue] = back[queue]
  /\ front' = [front EXCEPT ![queue] = Advance(@, QueuePos)]
  /\ ReturnPointer(IF QueuePos = 0 THEN Stray
                                   ELSE [q |-> queue, i |-> front[queue]])
  /\ alive' = (QueuePos # 0)

PopEmptyStray ==
  /\ spc = "pop"
  /\ front[queue] = back[queue]
  /\ ReturnPointer(Stray)
  /\ UNCHANGED <<front, alive>>

AcquireAeStates ==
  /\ spc = "ae"
  /\ aeSem > 0
  /\ aeSem' = aeSem - 1
  /\ spc' = "shm"
  /\ UNCHANGED <<rings, shmSem, queueSem, counterSem, queue, held, engines,
                 offSender, alive>>

AcquireShm ==
  /\ spc = "shm"
  /\ shmSem > 0
  /\ shmSem' = shmSem - 1
  /\ spc' = "scan"
  /\ UNCHANGED <<rings, queueSem, counterSem, aeSem, queue, held, engines,
                 offSender, alive>>

FreeEngines == {e \in Engines : aeState[e] = 0}

\* What write(fd, queueMessage, sizeof(queueMessage)) puts in the pipe: 8
\* bytes, the user's id and the head of the type.  Through a stray pointer it
\* fails with EFAULT or copies whatever is there.
Written(ptr) ==
  IF ptr = Stray
    THEN { << >>, <<[str |-> Garbage, bytes |-> 8]>> }
    ELSE { <<[str |-> slots[ptr.q][ptr.i], bytes |-> 8]>> }

\* Variant: the semaphore is released and the pointer is hit as well.
ReleaseShmTwice(q) == shmSem' = shmSem + 1 /\ usersPtrShift' = usersPtrShift + 1

\* The video branch posts shMemory instead of shmSemaphore, which adds one to
\* the first word of the segment, the mobileUsers pointer.
ReleaseShm(q) ==
  IF q = "video"
    THEN usersPtrShift' = usersPtrShift + 1 /\ UNCHANGED shmSem
    ELSE shmSem' = shmSem + 1 /\ UNCHANGED usersPtrShift

OtherQueue(q) == IF q = "video" THEN "other" ELSE "video"
\* Variant: the loop falls through after a hand-off.
AfterHandOffNoContinue(q) == OtherQueue(q)
AfterHandOff(q) == "video"  \* continue

\* The first engine that is free gets the request.  "ae_state[i] == 1" is a
\* comparison, so its state does not change.
HandOff ==
  /\ spc = "scan"
  /\ \E e \in FreeEngines :
       /\ \A f \in FreeEngines : e <= f
       /\ \E out \in Written(held) :
            enginePipe' = [enginePipe EXCEPT ![e] = @ \o out]
  /\ ReleaseShm(queue)
  /\ aeSem' = aeSem + 1
  /\ spc' = "await"
  /\ queue' = AfterHandOff(queue)
  /\ UNCHANGED <<rings, queueSem, counterSem, held, aeState, offSender, alive>>

\* No engine: the request in hand is forgotten and the other queue is next.
NoFreeEngine ==
  /\ spc = "scan"
  /\ FreeEngines = {}
  /\ aeSem' = aeSem + 1
  /\ shmSem' = shmSem + 1
  /\ spc' = "await"
  /\ queue' = OtherQueue(queue)
  /\ UNCHANGED <<rings, queueSem, counterSem, held, engines, offSender, alive>>

Sender ==
  alive /\ ( \/ ReadMaxAuthServers
             \/ AwaitRequest
             \/ SenderReadSize
             \/ SenderLock
             \/ Pop
             \/ PopEmptyNull
             \/ PopEmptyStray
             \/ AcquireAeStates
             \/ AcquireShm
             \/ HandOff
             \/ NoFreeEngine )

--------------------------------------------------------------------------------
Next == Client \/ Receiver \/ Sender

Spec == Init /\ [][Next]_vars

\* The kernel runs both threads; no client has to send anything.
FairSpec == Spec /\ WF_vars(Receiver) /\ WF_vars(Sender)

--------------------------------------------------------------------------------
(* Properties *)

\* 0 .. queuePos-1; front and back stay 0 when there is no slot.
Index == IF QueuePos = 0 THEN {0} ELSE Slots

TypeOK ==
  /\ pipe \in [Pipes -> Seq(Cell)]
  /\ sent \in [Clients -> Nat]
  /\ requestCounter \in [Users -> Nat]
  /\ due \in [Users -> SUBSET Services]
  /\ slots \in [Queues -> [Slots -> Text]]
  /\ front \in [Queues -> Index]
  /\ back \in [Queues -> Index]
  /\ shmSem \in Nat
  /\ queueSem \in [Queues -> Nat]
  /\ counterSem \in [Queues -> Nat]
  /\ aeSem \in Nat
  /\ rpc \in {"select", "readUser", "readBack", "size", "lock", "insert",
             "post", "advance"}
  /\ numUserFdMessages \in {0, 1}
  /\ backReady \in BOOLEAN
  /\ authOrder \in Text
  /\ source \in Pipes
  /\ spc \in {"start", "await", "size", "lock", "pop", "ae", "shm", "scan"}
  /\ queue \in Queues
  /\ held \in Pointer \union {Stray}
  /\ aeState \in [Engines -> {0, 1}]
  /\ enginePipe \in [Engines -> Seq(Delivery)]
  /\ usersPtrShift \in Nat
  /\ alive \in BOOLEAN

\* The Sender keeps a bare pointer into a ring after it has released the
\* ring's semaphore, and dereferences it only in write().  Until then the
\* Receiver never overwrites that slot: the cell the full test leaves unused is
\* always the one the pointer is in.
Holding == spc \in {"ae", "shm", "scan"} /\ held # Stray
HeldSlotStable ==
  [][Holding => slots'[held.q][held.i] = slots[held.q][held.i]]_vars

\* A counting semaphore is the number of requests in its ring, but for the one
\* the Sender has been woken for and has not taken yet, and the one that is
\* announced before back has moved over it.
Claimed(q) == IF queue = q /\ spc \in {"size", "lock", "pop"} THEN 1 ELSE 0
Posted(q)  == IF Ring = q /\ rpc = "advance" THEN 1 ELSE 0
CountMatches ==
  \A q \in Queues : counterSem[q] + Claimed(q) = Occupied(q) + Posted(q)

\* The counter starts at 0, counts the messages in the queue and blocks until
\* one arrives (recurso_TODO.txt): a Sender that got past it finds a request,
\* although the counter is posted before back moves.
PopFindsRequest == spc = "pop" => front[queue] # back[queue]

\* The shared memory semaphore is free, or the Sender is inside, or its release
\* went to the mobileUsers pointer and it is lost for good.
ShmAccount == shmSem + (IF spc = "scan" THEN 1 ELSE 0) + usersPtrShift = 1

\* Once a request has been handed over the manager serves nothing any more: no
\* request leaves a ring, no other is handed over, and the Receiver gets past
\* reading the queue size no more, so that only an insertion that had read it
\* before is completed.
FrozenAfterHandOff ==
  [][usersPtrShift > 0 => /\ front' = front
                          /\ usersPtrShift' = usersPtrShift
                          /\ ~(rpc = "size" /\ rpc' = "lock")]_vars

\* With at least one engine configured the Sender never takes a request out of
\* the other queue: MUSIC, SOCIAL and the back office are not served at all.
OtherNeverTaken ==
  MaxAuthServers > 0 => queue = "video" /\ front["other"] = 0

\* Each ring is a bounded queue of QUEUE_POS - 1 requests to its two threads.
VideoFifo == INSTANCE BoundedFifo WITH
  Message <- String, Capacity <- QueuePos - 1, queue <- RingOf("video")
OtherFifo == INSTANCE BoundedFifo WITH
  Message <- String, Capacity <- QueuePos - 1, queue <- RingOf("other")
VideoQueueIsFifo == VideoFifo!Spec
OtherQueueIsFifo == OtherFifo!Spec

\* With engines, and if no earlier run has left a count behind, the first VIDEO
\* request that is filed gets into an engine's pipe, whatever the Receiver does
\* meanwhile, unless a cut message kills the manager.
AtAnEngine ==
  \E e \in Engines : \E n \in DOMAIN enginePipe[e] :
    QueueOf(enginePipe[e][n].str) = "video"
FirstVideoHandedOver ==
  counterSem["video"] = 0
    => ((Occupied("video") > 0) ~> (AtAnEngine \/ ~alive))

\* Without engines the Receiver is never shut out of the rings for good: it ends
\* up having read all there is to read, unless the manager dies.
ReceiverDrains == <>[](alive => \A p \in Pipes : pipe[p] = << >>)

\* With QUEUE_POS = 0 the first string that reaches addToQueue kills the manager.
RequestKillsManager == (rpc = "size") ~> ~alive
================================================================================
