------------------------------ MODULE RootManager ------------------------------
(***************************************************************************)
(* The first version of the authorization platform (src/*.c): mobile users *)
(* and back office users write to two named pipes; the Receiver thread of  *)
(* the authorization request manager selects the pipes and files what it   *)
(* reads in two queues; the Sender thread takes messages out of them.  The *)
(* manager can be interrupted, can end by itself, and can be started again *)
(* while users still hold its pipes.  Ctrl-C in any of the processes       *)
(* removes the names of the pipes.                                         *)
(***************************************************************************)
EXTENDS RingIndex, FiniteSets

CONSTANTS
  Users, BackOffices,
  numAuthRequests,
  Interval,       \* [Services -> seconds]
  MaxElapsed,     \* bound: seconds between two requests
  MaxSent,        \* bound: [Clients -> messages it writes]
  QUEUE_POS,
  ReadMax,        \* cells one read() takes (PIPE_BUF bytes, scaled)
  PipeSize,       \* cells a pipe holds (64 kB, scaled)
  MaxWords,       \* bound: 8-byte words of a text
  MaxStarts       \* bound: starts of the manager

Services == {"MUSIC", "SOCIAL", "VIDEO"}
Clients  == Users \union BackOffices
Pipes    == {"user", "back"}
Queues   == {"video", "other"}
PipeOf(c) == IF c \in Users THEN "user" ELSE "back"

\* readConfigFile and the buffers.
ASSUME RootAssumption ==
  /\ QUEUE_POS \in Nat
  /\ ReadMax \in Nat /\ ReadMax >= 2 /\ PipeSize \in Nat
  /\ Interval \in [Services -> Nat \ {0}]
  /\ MaxSent \in [Clients -> Nat] /\ MaxStarts \in Nat \ {0} /\ MaxWords \in Nat

VARIABLES
  alive, starts,   \* the manager; how often it was started
  named,           \* the pipes have their names in /tmp
  pipe,            \* unread cells of each pipe
  heard,           \* pipes that had a writer since the manager opened them
  read_fds,        \* pipes select() looks at
  shut,            \* pipes the Receiver has closed
  rpc, spc,        \* where the Receiver and the Sender are
  queueBack,       \* of each queue; queueFront is always 0
  words,           \* nonzero 8-byte words at the start of each queue
  fd,              \* a client's end: "off", "open", "orphan", "closed"
  sent, todo,      \* messages written; services that are due
  requestCounter,
  filed            \* history: messages put into each queue since the start

receiver == <<heard, read_fds, shut, rpc>>
queues   == <<queueBack, words, filed>>
clients  == <<fd, sent, todo, requestCounter>>
vars == <<alive, starts, named, pipe, receiver, spc, queues, clients>>

queueFront == 0

\* A message fills two cells of a pipe; a cut one leaves its tail.
Cell == [kind : Services \union {"register", "command"}, head : BOOLEAN]
Cells(kind) == << [kind |-> kind, head |-> TRUE], [kind |-> kind, head |-> FALSE] >>
Unread(cells) == SubSeq(cells, ReadMax + 1, Len(cells))

Writers(p) == {c \in Clients : PipeOf(c) = p /\ fd[c] = "open"}

\* The memory of the queues is not initialised.
Init ==
  /\ alive = TRUE /\ starts = 1 /\ named = TRUE
  /\ pipe = [p \in Pipes |-> << >>]
  /\ heard = {} /\ read_fds = Pipes /\ shut = {}
  /\ rpc = "select" /\ spc = "video"
  /\ queueBack = [q \in Queues |-> 0] /\ filed = queueBack
  /\ words \in [Queues -> 0 .. MaxWords]
  /\ fd = [c \in Clients |-> "off"]
  /\ sent = [c \in Clients |-> 0]
  /\ todo = [u \in Users |-> << >>]
  /\ requestCounter = [u \in Users |-> 0]

--------------------------------------------------------------------------------
(* The end of the manager and its next start *)

\* A pipe that nobody has open loses its contents.
Kept(content, open) == [p \in Pipes |-> IF open[p] THEN content[p] ELSE << >>]

\* exit, a fault, or the end of main.
Stop(content) ==
  /\ alive' = FALSE
  /\ pipe' = Kept(content, [p \in Pipes |-> Writers(p) # {}])

\* initThreads keeps the thread identifiers in globals; pthread_join is called
\* with local ones that were never set.  It faults or fails, and main returns, or
\* it blocks and this step is not taken.
JoinReturns ==
  /\ alive
  /\ Stop(pipe)
  /\ UNCHANGED <<starts, named, receiver, spc, queues, clients>>

\* sigint in the manager: cleanResources also removes the names of the pipes.
Interrupt ==
  /\ alive
  /\ Stop(pipe)
  /\ named' = FALSE
  /\ UNCHANGED <<starts, receiver, spc, queues, clients>>

\* Pipes that have their names are opened again with their writers and contents.
\* Otherwise new ones are made, and clients keep pipes nobody will open.
Start ==
  /\ ~alive
  /\ starts < MaxStarts
  /\ alive' = TRUE /\ starts' = starts + 1 /\ named' = TRUE
  /\ IF named THEN UNCHANGED <<pipe, fd>> ELSE
       /\ pipe' = [p \in Pipes |-> << >>]
       /\ fd' = [c \in Clients |-> IF fd[c] = "open" THEN "orphan" ELSE fd[c]]
  /\ heard' = {p \in Pipes : named /\ Writers(p) # {}}
  /\ read_fds' = Pipes /\ shut' = {}
  /\ rpc' = "select" /\ spc' = "video"
  /\ queueBack' = [q \in Queues |-> 0] /\ filed' = queueBack'
  /\ words' \in [Queues -> 0 .. MaxWords]
  /\ UNCHANGED <<sent, todo, requestCounter>>

Manager == JoinReturns \/ Interrupt \/ Start

--------------------------------------------------------------------------------
(* Clients: MobileUser.c and BackOfficeUser.c *)

HasReader(p) == alive /\ p \notin shut

\* open(O_WRONLY) returns once the pipe has a reader.
Open(c) ==
  /\ fd[c] = "off" /\ named
  /\ HasReader(PipeOf(c))
  /\ fd' = [fd EXCEPT ![c] = "open"]
  /\ heard' = heard \union {PipeOf(c)}
  /\ UNCHANGED <<alive, starts, named, pipe, read_fds, shut, rpc, spc, queues, sent,
                 todo, requestCounter>>

\* Without the name the client ends.
OpenFails(c) ==
  /\ fd[c] = "off" /\ ~named
  /\ fd' = [fd EXCEPT ![c] = "closed"]
  /\ UNCHANGED <<alive, starts, named, pipe, receiver, spc, queues, sent, todo,
                 requestCounter>>

\* The client's end goes away.
HangUp(c) ==
  LET p == PipeOf(c) IN
    /\ fd' = [fd EXCEPT ![c] = "closed"]
    /\ pipe' = IF Writers(p) \subseteq {c} /\ ~HasReader(p)
                 THEN [pipe EXCEPT ![p] = << >>] ELSE pipe

\* write() blocks while the pipe has no room; SIGPIPE ends the client if the
\* pipe has no reader.
Write(c, kind) ==
  LET p == PipeOf(c) IN
    \/ /\ fd[c] = "open" /\ HasReader(p)
       /\ Len(pipe[p]) + 2 <= PipeSize
       /\ pipe' = [pipe EXCEPT ![p] = @ \o Cells(kind)]
       /\ sent' = [sent EXCEPT ![c] = @ + 1]
       /\ UNCHANGED fd
    \/ /\ fd[c] = "orphan" \/ (fd[c] = "open" /\ ~HasReader(p))
       /\ HangUp(c)
       /\ UNCHANGED sent

Command(b) ==
  /\ sent[b] < MaxSent[b]
  /\ Write(b, "command")
  /\ UNCHANGED <<alive, starts, named, receiver, spc, queues, todo, requestCounter>>

Register(u) ==
  /\ sent[u] = 0 /\ MaxSent[u] > 0
  /\ Write(u, "register")
  /\ UNCHANGED <<alive, starts, named, receiver, spc, queues, todo, requestCounter>>

\* An iteration: the services whose interval divides the seconds since the last
\* request; only VIDEO counts.  Iterations in which none is due change nothing.
Iterate(u) ==
  /\ sent[u] \in 1 .. (MaxSent[u] - 1)
  /\ todo[u] = << >>
  /\ requestCounter[u] < numAuthRequests
  /\ \E elapsed \in 0 .. MaxElapsed :
       LET due(s) == elapsed % Interval[s] = 0
           IfDue(s) == IF due(s) THEN <<s>> ELSE << >> IN
          /\ todo' = [todo EXCEPT ![u] =
                         IfDue("MUSIC") \o IfDue("SOCIAL") \o IfDue("VIDEO")]
         /\ requestCounter' = [requestCounter EXCEPT
                                 ![u] = IF due("VIDEO") THEN @ + 1 ELSE @]
  /\ UNCHANGED <<alive, starts, named, pipe, receiver, spc, queues, fd, sent>>

Request(u) ==
  /\ todo[u] # << >>
  /\ Write(u, Head(todo[u]))
  /\ todo' = [todo EXCEPT ![u] = Tail(@)]
  /\ UNCHANGED <<alive, starts, named, receiver, spc, queues, requestCounter>>

\* A user's last request, an error, or a signal that is not caught.
Close(c) ==
  /\ fd[c] \in {"open", "orphan"}
  /\ HangUp(c)
  /\ UNCHANGED <<alive, starts, named, receiver, spc, queues, sent, todo,
                 requestCounter>>

\* Ctrl-C in a client, which may still wait in open: it has the manager's sigint.
InterruptClient(c) ==
  /\ fd[c] \in {"off", "open", "orphan"}
  /\ HangUp(c)
  /\ named' = FALSE
  /\ UNCHANGED <<alive, starts, receiver, spc, queues, sent, todo, requestCounter>>

Client ==
  \/ \E c \in Clients : Open(c) \/ OpenFails(c) \/ Close(c) \/ InterruptClient(c)
  \/ \E b \in BackOffices : Command(b)
  \/ \E u \in Users : Register(u) \/ Iterate(u) \/ Request(u)

--------------------------------------------------------------------------------
(* The Receiver thread *)

\* Data to read, or the end of what writers have written.
Ready(p) == pipe[p] # << >> \/ (p \in heard /\ Writers(p) = {})

\* Variant: the set is made anew for every call.
SelectAfresh ==
  /\ alive /\ rpc = "select"
  /\ LET R == {p \in Pipes \ shut : Ready(p)} IN
       /\ R # {}
       /\ read_fds' = R
       /\ rpc' = IF "user" \in R THEN "user" ELSE "back"
  /\ UNCHANGED <<alive, starts, named, pipe, heard, shut, spc, queues, clients>>

\* select() leaves in read_fds the pipes that are ready, and nobody fills it again.
Select ==
  /\ alive /\ rpc = "select"
  /\ read_fds \intersect shut = {}
  /\ LET R == {p \in read_fds : Ready(p)} IN
       /\ R # {}
       /\ read_fds' = R
       /\ rpc' = IF "user" \in R THEN "user" ELSE "back"
  /\ UNCHANGED <<alive, starts, named, pipe, heard, shut, spc, queues, clients>>

\* A closed descriptor in the set makes select() fail.
SelectClosed ==
  /\ alive /\ rpc = "select"
  /\ read_fds \intersect shut # {}
  /\ Stop(pipe)
  /\ UNCHANGED <<starts, named, receiver, spc, queues, clients>>

AfterPipe(p) == IF p = "user" /\ "back" \in read_fds THEN "back" ELSE "select"

\* The last client may have closed before select() and another opened after it:
\* the pipe is empty and not at its end, read() fails with EAGAIN.
ReadFails(p) ==
  /\ alive /\ rpc = p
  /\ pipe[p] = << >> /\ Writers(p) # {}
  /\ Stop(pipe)
  /\ UNCHANGED <<starts, named, receiver, spc, queues, clients>>

\* Variant: the closed pipe is taken out of the set (FD_CLR).
ReadEndCleared(p) ==
  /\ alive /\ rpc = p
  /\ pipe[p] = << >> /\ Writers(p) = {}
  /\ shut' = shut \union {p} /\ read_fds' = read_fds \ {p}
  /\ rpc' = AfterPipe(p)
  /\ UNCHANGED <<alive, starts, named, pipe, heard, spc, queues, clients>>

ReadEnd(p) ==
  /\ alive /\ rpc = p
  /\ pipe[p] = << >> /\ Writers(p) = {}
  /\ shut' = shut \union {p}
  /\ rpc' = AfterPipe(p)
  /\ UNCHANGED <<alive, starts, named, pipe, heard, read_fds, spc, queues, clients>>

\* Variant: the test whether a queue is full is left out.
NeverFull(q) == FALSE
Full(q) == RingFull(queueFront, queueBack[q], QUEUE_POS)

\* Variant: the Receiver waits for room in the queue.
AddWaits(q, length) ==
  /\ ~Full(q)
  /\ queueBack' = [queueBack EXCEPT ![q] = Advance(@, QUEUE_POS)]
  /\ words' = IF queueBack[q] = 0 THEN [words EXCEPT ![q] = length] ELSE words
  /\ filed' = [filed EXCEPT ![q] = @ + 1]

\* addVideoQueue, addOtherQueue.  The Sender sees the text only as words, and only
\* those of the first slot; strncpy fills the rest of it with zeros.
Add(q, length) ==
  IF Full(q) THEN UNCHANGED queues ELSE
    /\ queueBack' = [queueBack EXCEPT ![q] = Advance(@, QUEUE_POS)]
    /\ words' = IF queueBack[q] = 0 THEN [words EXCEPT ![q] = length] ELSE words
    /\ filed' = [filed EXCEPT ![q] = @ + 1]

\* What the first string in the buffer looks like.  The tail of a request or of a
\* registration is one with a shorter user identifier, or nothing.
Kinds(p, cell) == IF cell.head \/ p = "back" THEN {cell.kind} ELSE {cell.kind, "wrong"}
QueueOf(kind) == CASE kind = "VIDEO" -> "video"
                   [] kind \in {"MUSIC", "SOCIAL", "command"} -> "other"
                   [] OTHER -> "none"

\* With no slots the modulus faults.
Read(p) ==
  LET cell == Head(pipe[p])
      rest == [pipe EXCEPT ![p] = Unread(@)] IN
    /\ alive /\ rpc = p
    /\ pipe[p] # << >>
    /\ rpc' = AfterPipe(p)
    /\ \E kind \in Kinds(p, cell) :
         LET q == QueueOf(kind) IN
           IF q # "none" /\ QUEUE_POS = 0
             THEN Stop(rest) /\ UNCHANGED queues
             ELSE /\ pipe' = rest
                  /\ IF q = "none" THEN UNCHANGED queues ELSE
                        \E length \in (IF cell.head THEN 1 ELSE 0) .. MaxWords :
                          Add(q, length)
                  /\ UNCHANGED alive
    /\ UNCHANGED <<starts, named, heard, read_fds, shut, spc, clients>>

Receiver ==
  \/ Select \/ SelectClosed
  \/ \E p \in Pipes : ReadFails(p) \/ ReadEnd(p) \/ Read(p)

--------------------------------------------------------------------------------
(* The Sender thread *)

\* Variant: the test for an empty queue is left out.
NeverEmpty(q) == FALSE

\* getFromQueue takes the queue for an array of pointers: it returns its first
\* word and moves the words behind it up, as far as the first that is zero.  No
\* engine is ever marked free, so what it takes goes nowhere.
IsEmpty(q) == words[q] = 0

SendVideo ==
  /\ alive /\ spc = "video"
  /\ IF IsEmpty("video")
       THEN spc' = "other" /\ UNCHANGED words
       ELSE words' = [words EXCEPT !["video"] = @ - 1] /\ UNCHANGED spc
  /\ UNCHANGED <<alive, starts, named, pipe, receiver, queueBack, filed, clients>>

\* Variant: the video queue is asked again.
SendOtherCopied ==
  /\ alive /\ spc = "other"
  /\ words' = IF IsEmpty("video") THEN words ELSE [words EXCEPT !["video"] = @ - 1]
  /\ spc' = "video"
  /\ UNCHANGED <<alive, starts, named, pipe, receiver, queueBack, filed, clients>>

SendOther ==
  /\ alive /\ spc = "other"
  /\ words' = IF IsEmpty("other") THEN words ELSE [words EXCEPT !["other"] = @ - 1]
  /\ spc' = "video"
  /\ UNCHANGED <<alive, starts, named, pipe, receiver, queueBack, filed, clients>>

Sender == SendVideo \/ SendOther

--------------------------------------------------------------------------------

Next == Client \/ Manager \/ Receiver \/ Sender

Spec == Init /\ [][Next]_vars

\* The two threads run; nobody has to write, and the join may block for ever.
FairSpec == Spec /\ WF_vars(Receiver) /\ WF_vars(Sender)

--------------------------------------------------------------------------------
(* Properties *)

TypeOK ==
  /\ alive \in BOOLEAN /\ starts \in 1 .. MaxStarts /\ named \in BOOLEAN
  /\ pipe \in [Pipes -> Seq(Cell)] /\ \A p \in Pipes : Len(pipe[p]) <= PipeSize
  /\ heard \subseteq Pipes /\ read_fds \subseteq Pipes /\ shut \subseteq Pipes
  /\ rpc \in {"select", "user", "back"} /\ spc \in {"video", "other"}
  /\ queueBack \in [Queues -> Nat] /\ words \in [Queues -> 0 .. MaxWords]
  /\ filed \in [Queues -> Nat]
  /\ fd \in [Clients -> {"off", "open", "orphan", "closed"}]
  /\ sent \in [Clients -> Nat] /\ todo \in [Users -> Seq(Services)]
  /\ requestCounter \in [Users -> Nat]

\* A queue is not a ring: nothing that is taken out makes room, so in the life of
\* a manager it accepts QUEUE_POS - 1 messages, each in a slot of its own.
QueuesFillOnce ==
  \A q \in Queues : filed[q] = queueBack[q] /\ (filed[q] > 0 => filed[q] < QUEUE_POS)

\* A pipe that was quiet once while the other was ready is never read again by
\* this manager, whatever is written to it.
DeafForEver ==
  [][\A p \in Pipes :
       alive /\ alive' /\ p \notin read_fds
         => p \notin read_fds' /\ Len(pipe'[p]) >= Len(pipe[p])]_vars

\* When the last client of a pipe that is looked at has gone, the Receiver reads
\* the end and its next select ends the manager, unless another client comes; none
\* can once a client that was interrupted has taken the names of the pipes away.
EndsWithItsClients ==
  \A p \in Pipes :
    (alive /\ p \in read_fds /\ p \in heard /\ Writers(p) = {})
      ~> (~alive \/ (named /\ Writers(p) # {}))

\* A pipe with messages in it is not dropped from the set before it is empty, and
\* the Receiver gets to it; so a manager reads what its predecessor has left.
ReadUntilEmpty ==
  \A p \in Pipes :
    (alive /\ p \in read_fds /\ pipe[p] # << >>) ~> (~alive \/ pipe[p] = << >>)

\* The Sender empties both queues of all it can see in them, though it prefers
\* the video queue.
BothQueuesTaken ==
  \A q \in Queues : words[q] # 0 ~> (words[q] = 0 \/ ~alive)
================================================================================
