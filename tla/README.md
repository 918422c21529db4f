# TLA+ verification of the SO24 simulators

The repository holds three versions of an operating-systems project, all
written in C with processes, threads, named pipes, shared memory and
semaphores:

- `src/PROJ24/`: the 5G authorization platform, the current version;
- `src/S023VasquesFilipe/`: a home simulator (sensors, user consoles, workers),
  from the year before;
- `src/*.c`: the first version of the authorization platform.

This directory models the parts of them in which processes and threads meet,
checks the models with TLC on small instances and proves the main results with
TLAPS for every value of the constants.

## 1. Inventory

### PROJ24, the authorization platform

| Part | State | Operations | Talks to |
|---|---|---|---|
| mobile user (`MobileUser.c`) | messages sent, VIDEO counter, time of last request | register; send MUSIC, SOCIAL, VIDEO when the seconds since the last request divide the interval | `/tmp/userpipe` |
| back office (`BackOfficeUser.c`) | none | `data_stats`, `reset` | `/tmp/backpipe` |
| Receiver thread (`receiverFunction`, `addToQueue`) | read buffer, count of user messages | select, read, file a request in a ring | both pipes, both rings, their semaphores |
| Sender thread (`senderFunction`, `getFrom...Queue`) | pointer to the request in hand | wait for a counter, pop a ring, hand over to an engine | rings, `ae_state`, engine pipes |
| rings (`videoQueue`, `otherQueue`) | slots, front, back | insert, pop | Receiver and Sender, one semaphore and one counter each |
| shared memory | configuration values, `ae_state`, users | read under `shmSemaphore` | Receiver, Sender |
| start-up (`initializeMutexSemaphore`, `readConfigFile`) | named semaphores, configuration | create, parse | the kernel, which keeps named semaphores |
| shutdown (`sigint`, `cleanup`, `cleanResources`) | table of pids | free everything | all |
| authorization engine (`authorization_engine`) | | | never called: most of its body is commented out |

Hard: the two threads share two rings guarded by one semaphore, counted by
another, and hand a bare pointer out of the critical section; the counters are
named semaphores that outlive the program; pipes are byte streams, so a read
returns several messages or a part of one; a release goes to a wrong address.

What makes it correct: each ring is a bounded queue to its two threads; a
counter tells how many requests its ring has; a request in hand stays what it
is; the shared memory semaphore comes back; what is filed is served.

### S023VasquesFilipe, the home simulator

| Part | State | Operations | Talks to |
|---|---|---|---|
| sensor, user console | end of a pipe | open, write, close; a console also reads answers | `/tmp/sensorfifo`, `/tmp/consolefifo`, message queue |
| reader threads (`read_thread`, `add_to_queue`) | buffer | read, insert | internal queue under `queue_sem` |
| dispatcher thread (`getqueue`, `dispatcher_thread`) | pointer into the queue | take (consoles first), look for a worker, write | queue, worker semaphores and pipes |
| worker processes (`worker`) | string read, own semaphore | read, mark busy, carry out, mark free; may die | worker pipe, tables, message queue |
| tables (`addSensor`, `addKeystats`, `addAlertToList`, ...) | keys, sensors, alerts | add, update, delete, list | workers and watcher under the shared memory lock |
| alerts watcher (`alert`, `checkAlerts`) | none | wait for a post, check all keys, send alerts | tables, message queue |

Hard: the order in which messages of one client are dispatched while others
overtake them; a worker that looks free until it has read its pipe, and again
when it is dead; tails of cut messages; workers that block on a full message
queue; a list whose capacity nobody checks.

What makes it correct: the queue keeps its order and priority; nothing is
dispatched twice; a message in hand is not overwritten; the worker semaphores
tell the truth; everything is dispatched in the end.

For the tables: a key has one entry and its statistics are those of its
readings; a reading raises one alert; the watcher sees what has been posted and
gives the lock back.

### The first version of the platform (`src/*.c`)

| Part | State | Operations | Talks to |
|---|---|---|---|
| mobile user, back office (`MobileUser.c`, `BackOfficeUser.c`) | end of a pipe, request counter | register, request; `data_stats`, `reset`; end | the two named pipes |
| Receiver thread (`receiverFunction`, `addVideoQueue`, `addOtherQueue`) | `read_fds`, its ends of the pipes | select, read, file | pipes, queues |
| Sender thread (`senderFunction`, `getFromQueue`) | none | poll the video queue, then the other one | queues, `auth_eng_state` |
| queues | front (never written), back, memory that is not initialised | insert; shift | Receiver and Sender, one semaphore each |
| manager process (`authorizationRequestManagerFunction`, `main`) | thread identifiers, configuration | create pipes and threads, join | |
| shutdown (`sigint`, `cleanResources`), also of the clients, which install the same handler | the names of the pipes | remove pipes and memory, exit | whoever has the pipes open or wants to |
| engine, monitor (`authorization_engine`, `monitor_engine_func`) | | | never called |

Hard: `select` overwrites its argument and it is not filled again; a closed
descriptor stays in it; the Sender takes an array of texts for an array of
pointers; the joins wait for identifiers that were never set; a manager that
ends leaves pipes that the next one inherits; Ctrl-C in any process, a client too,
removes their names, and what was open goes on without them.

What makes it correct is mostly what it does not have: a pipe that is read as
long as it has writers, a queue that has room again when something was taken,
a manager that outlives its clients. The properties state exactly what is left.

## 2. Modules

| Module | What it is |
|---|---|
| `RingIndex` | the index arithmetic of every ring in the repository, and what a ring holds |
| `RingProofs` | lemmas about it: a copy to the slot at back changes nothing that counts, moving back appends it, moving front drops the first |
| `BoundedFifo` | abstract: a first-in first-out queue of bounded length |
| `PriorityFifo` | abstract: a bounded queue from which an urgent message is taken together with the non-urgent ones before it |
| `AuthManager` | PROJ24: clients, Receiver, Sender, rings and semaphores |
| `AuthManagerProofs` | theorems about it |
| `IotDispatch` | home simulator: clients, readers, dispatcher, workers, message queue as a counter |
| `IotDispatchProofs` | its types, locks and marks: theorems |
| `IotQueueProofs` | its messages on their way: the refinement of `PriorityFifo` and the order of each client's messages; extends `IotDispatchProofs` and `RingProofs` |
| `IotTables` | home simulator: the tables as the words of their page, and the operations on them |
| `IotAlerts` | home simulator: workers on the tables, alerts watcher, message queue, consoles; extends `IotTables` |
| `IotTablesProofs` | lemmas about the operations on the tables: types, and each word afterwards |
| `IotAlertsProofs` | the types, the lock and the posts of `IotAlerts`: theorems; extends `IotTablesProofs` |
| `IotContentsProofs` | what its tables hold: theorems; extends `IotAlertsProofs` |
| `RootManager` | first version: clients, Receiver, Sender, queues, end and restart of the manager |
| `RootManagerProofs` | theorems about it |
| `MCAuthManager`, `MCIotDispatch`, `MCIotAlerts`, `MCRootManager` | constants for the runs |

Definitions whose comment says *variant* are single-point changes of the
definition after them, the way a slip in the code would look. No specification
uses them; replacing the definition by its variant makes a stated property fail.

### AuthManager and the code

A step runs from one blocking call to the next. `rpc` and `spc` say where the
two threads are:

| Receiver `rpc` | code | Sender `spc` | code |
|---|---|---|---|
| `select` | `select()` | `start` | first `sem_wait(shmSemaphore)` |
| `readUser`, `readBack` | the two `FD_ISSET` branches | `await` | `sem_wait` of a counter |
| `size` | `addToQueue` up to reading `queuePos` | `size`, `lock`, `pop` | `getFromVideoQueue` / `getFromOtherQueue` |
| `lock` | `sem_wait` of the ring | `ae` | `sem_wait(ae_states_semaphore)` |
| `insert`, `post`, `advance` | copy; `sem_post` of the counter; move `back` and release | `shm`, `scan` | `sem_wait(shmSemaphore)`; loop over the engines |

Reading a configuration value under `shmSemaphore` is one step that needs the
semaphore free and leaves it free. The insertion is cut at its `sem_post`,
because that wakes the Sender in the middle of it.

Pipes hold cells, one for each field of a message and one for its NUL. A `read`
takes up to `ReadMax` cells; only the first string in the buffer goes on and a
message that is cut leaves its tail for the next read. A tail with fewer than
two tokens makes `strcpy(authOrderType, NULL)` fault: `FaultOnFragment` ends the
manager (`alive`). With `QUEUE_POS = 0` the modulus faults (`FaultOnZeroSlots`).

An empty ring makes `getFrom...Queue` test a local pointer it never set. Both
outcomes are actions: the pointer is NULL and front moves past back
(`PopEmptyNull`), or it is not and a stray pointer is returned
(`PopEmptyStray`). `HandOff` releases the shared memory semaphore only in the
branch of the other queue; in the video branch `sem_post(shMemory)` increments
the first word of the segment, the `mobileUsers` pointer (`usersPtrShift`). The
comparison `ae_state[i] == 1` changes nothing, so `aeState` stays.

### IotDispatch and the code

`rpc[f]` is where the reader thread of pipe `f` is, `dpc` the dispatcher, `wpc[w]`
each worker. `getqueue` is `DispatcherLock` and `TakeMessage`; `message` is the
slot its pointer points to, and `WriteToWorker` dereferences it, which may be
much later. `LookAtWorker` is one turn of the scan. A worker marks itself busy
(`MarkBusy`) only after `WorkerRead`. `Die` is an empty line (`strcmp` of a NULL
word), `reset` (`free` of shared memory) or a write beyond the page of the tables,
which is why every reading may kill its worker here; `SEM_UNDO` then lowers the worker's
semaphore to 0, which is what the dispatcher takes for available.

A message is two cells of a pipe, so that a read can cut it. What the tail looks
like depends on bytes the model does not have: its first character may or may
not look urgent, and a command's tail may be carried out, answered or fatal. A
`prio` flag stands for the first character of a string. `LowConsoles` are the
consoles whose identifier begins with 1, which the test `> '1'` passes over.

A step that looks at a worker's semaphore, and the step in which a worker
changes it, are single system calls: whether the shared memory lock around them
works makes no difference (see section 6). Polling an empty queue is a stutter.

### IotTables, IotAlerts and the code

`IotDispatch` ends where a worker carries out its command, `IotAlerts` begins
there: its `Take` hands a worker any command. The two share no variable but the
message queue, which `IotDispatch` only counts.

The segment is requested with the size of its header, so the tables have what is
left of the page (`PageWords`), and none of the three capacities is enforced. The
tables are therefore one array of 32-bit words, `shm.word`, addressed from
`keystatsList`; `Key(i)`, `Alert(i)` and `Sensor(t, i)` are the addresses of the
entries, and `sensorList` is a variable because the first key overwrites it:
`addKeystats` links an entry from the one before it whenever `index != 1`, and
for index 0 that is the last pointer of the header (line 447). From then on the
sensor table lies on the key table (`Overlaid`). A write beyond the page is a
fault of the worker (`Fits` is its negation): it dies, `SEM_UNDO` gives the lock
back, and the entry is half written and not counted. So is the copying of an
alert whose pointer lies beyond the page, when one before it is removed
(`LastAlertFits`). An average is a C division, and a count of -1 that a neighbour
left makes it divide by zero (`Divides`), which kills the worker too. A name of up
to three characters fills one word; a pointer is two words. `TablesApart` says that
no table has run into another.

Every operation searches and then writes. Both are steps, so that workers without
a working lock interleave between them; with it, `Acquire` and `Release` make
them one critical section. `semaphore0` says whether semaphore set 0, which the
zeroed `semid` names, is the program's own (`"ours"`) or does not exist (`"other"`);
then `semop` fails and nobody looks.

`getlistsizes` counts a chain that has at least its first entry, so it refuses
nothing. But it can fault on its way: a sensor is only added after a walk along
the keys, a key after a walk along the alerts, from wherever these tables begin. `Ends`
says whether the walk comes to a NULL, `KeysEnd` and `AlertsEnd` are the two walks.
With `maxalerts = 0`, which `read_conf` accepts, the alerts begin where the sensors
do: after two sensors the words looked at for a pointer are the third one's name.

The watcher is `Wake` (`sem_wait`), `BeginCheck`, a `CheckKey` per turn of the loop,
`EndCheck` and `TryWait`. `CheckKey` is disabled while an alert is due and the
message queue is full: `mq_send` blocks under the lock. `Listen` takes the first
message, another console's too. A list command is one step and its answer one
message. `reset` frees memory that is not from `malloc` and aborts the worker.

`applied`, `raised` and `owed` are history variables: the readings written for
each key, the alerts sent, and the readings an alert watches that no check has
passed.

### RootManager and the code

`rpc` is where the Receiver is (`select`, then the branch of the user pipe, then
that of the back office pipe), `spc` which queue the Sender polls next. `read_fds`
is the descriptor set as the last `select` left it, `shut` the descriptors that
were closed and are still in it, `heard` the pipes that had a writer since they
were opened, which is when an empty pipe counts as ended. `Select`, `SelectClosed`
(EBADF), `Read`, `ReadEnd` (0) and `ReadFails` (EAGAIN, when a client opens the pipe
between the two calls) are the outcomes of the system calls.

`words[q]` is the number of nonzero 8-byte words at the start of a queue:
`getFromQueue` is given a `char (*)[100]` as a `char **`, returns the first word and
moves the rest up. Nothing else of the text matters, since no engine is ever
marked free and the word is not used. Initially the memory is not set.
`queueFront` is a constant 0.

`JoinReturns` is the end of `pthread_join` with an identifier that was never set,
in the way the build decides: it may fault, fail or block, so the step may be
taken and need not be. `named` says whether the pipes have their names in `/tmp`;
`Open` needs them, `OpenFails` is a client that finds none. `Interrupt` is `sigint` of
the manager, `InterruptClient` the same handler in a client: both end their process
and remove both names. While the manager lives, those who have a pipe open go on with
it. `Start` is the next run of the program, with the pipes that are left if they still
have their names; else it makes new ones and clients that hold the old ones are
`"orphan"`. What else `cleanResources` does in a client changes nothing for a running
manager: a segment it marks for removal lives until it is detached.

## 3. Runs

All runs use `FairSpec`, but for `iot_false_alert` and `iot_crowded`, which need no
fairness. Deadlock
checking is off: clients stop writing, and the managers really do block or end.

| Run | Bounds | Shows |
|---|---|---|
| `auth_engines` | 1 user with 4 messages, 1 command, ring of 2, 2 engines, counters start at 0 or 1 | types; the shared memory semaphore is free, in use or lost (`ShmAccount`); MUSIC, SOCIAL and the back office are never served (`OtherNeverTaken`); without a leftover count the first VIDEO request gets into an engine's pipe (`FirstVideoHandedOver`); after the first hand-over no request leaves a ring and no further insertion begins (`FrozenAfterHandOff`) |
| `auth_no_engine` | 1 user with 5 messages, 1 command, ring of 2, no engine | counters match rings (`CountMatches`), no pop of an empty ring (`PopFindsRequest`), both rings refine `BoundedFifo`, the held slot is stable, the Receiver is never shut out (`ReceiverDrains`) |
| `auth_zero_slots` | 2 users, no slot | any string that reaches `addToQueue` kills the manager |
| `auth_stale_counter` | a counter starts at 1 | *violation*: the Sender wakes on an empty ring |
| `iot_queue` | 2 workers, 1 console with 1 command, 1 sensor with 2 readings, 3 slots | types; order and at-most-once per client (`InOrder`); `BusyMeansWorking`; the queue refines `PriorityFifo`; a dead worker 0 draws every message (`DeadWorkerTakesAll`) |
| `iot_drain` | 1 worker, 1 low console with 2 commands, 1 sensor with 1 reading, 2 slots, 1 answer | the slot in the dispatcher's hand is stable; everything is dispatched while a console listens and no worker dies (`QueueDrains`) |
| `iot_available` | as `iot_queue`, one message each | *violation*: a message is written to a worker that has one already |
| `iot_home` | 2 workers, 1 console, 2 sensors with a key each, 2 alerts, 3 commands, 1 message in the queue, `alert_sem` starts at 0 or 1, a page of 90 words | types, and that tables never leave their page; statistics (`CountsReadings`); one alert per reading (`AlertPerReading`); at most one reading unseen (`AtMostOneOwed`); alerts are added, removed and left alone (`AlertsAreABook`); the watcher comes back while a console listens (`WatcherReturns`) |
| `iot_crowded` | 3 workers, 3 sensors with the same key, `maxkeys` 1, `maxalerts` 0, a page of 50 words | with three sensors stored before the first key, no key is ever stored (`ThreeSensorsFirst`) |
| `iot_false_alert` | 1 worker, 1 alert, 3 commands | *violation*: an alert reports half a pointer as the last value |
| `root_manager` | 1 user with 3 messages, 1 that only opens the pipe, 1 command, 2 positions, 2 starts, Ctrl-C in anyone | a queue accepts its size less one (`QueuesFillOnce`); a pipe that left the set is never read (`DeafForEver`); the manager ends with the last client of a pipe it looks at (`EndsWithItsClients`), and before that has read what was in it, its predecessor's clients' too (`ReadUntilEmpty`); the Sender gets to both queues (`BothQueuesTaken`) |

Why two configurations for PROJ24: with an engine the first VIDEO request stops
the manager, so the life of the rings beyond it is only seen without engines
(`AUTH_SERVERS_MAX` rejected by `readConfigFile`, whose result `main` ignores).

Why the bounds are enough: a ring of 2 slots is full with one request, so three
requests fill it, drop one and wrap around while the Sender holds a pointer; 6
cells per read cut a second message after its first or second field; 3 slots
and 3 messages put an urgent message behind a reading. A pipe of 4 cells and 1
answer make every blocking write and `mq_send` block. Bounds on messages
(`MaxSent`), elapsed seconds (`MaxElapsed`) and leftover counts (`MaxLeftover`)
are constants of the modules.

In `iot_home`, three commands are an alert and two readings, or a reading, an alert
and a reading: enough for a second entry of each table, for a sensor on the key
table, for two workers at one key and for a reading that arrives while the
watcher looks; 90 words hold two keys and two alerts and fault at the second
sensor when it is appended where it belongs. One message in the queue makes the
watcher and the workers block. `iot_crowded` has the least maxima that `read_conf`
accepts, and a worker for each of the three sensors that must be stored before
the first key. In `root_manager` two positions make a queue full with one message,
a pipe of four cells holds two messages, and a read of three cuts the second.

Fairness: weak fairness of each thread and worker process, because the kernel
schedules whatever can run, and of `Listen`, a console's answer thread. Clients
are not fair: nobody has to send anything. Semaphore waits are single waiters
in PROJ24 (one Receiver, one Sender), so weak fairness of the thread is enough;
`queue_sem` in the home simulator has three waiters, and a reader could be
passed over only as long as others keep coming, which finitely many messages
rule out. The shared memory lock in `IotAlerts` has as many waiters as workers,
and finitely many commands (`MaxTaken`) rule out starvation in the same way. In
`RootManager` only the two threads are fair: a client need not write or end, a
join need not return, nobody need press Ctrl-C or start the manager again.

## 4. Disagreements between code and documentation

- `auth_stale_counter`: `video_counter_sem` and `other_counter_sem` are neither
  unlinked nor created exclusively (`SystemManager.c:69`), so the initial size
  0 of `recurso_TODO.txt:14` holds only on the first run.
- `iot_available`: "find an available worker" (`S023 SystemManager.c:211`), but a
  worker is marked only after it has read the message.
- `iot_false_alert`: the test `index!=1` at `S023 SystemManager.c:447` should exclude
  index 0. The first key moves the sensor table onto the key table, the next new
  sensor writes over a key, and the watcher's "has gone out of range. Last value"
  (line 933) reports a value that nobody sent. `CountsReadings`, `AlertPerReading` and
  `AlertsAreABook` are stated for the words the sensor table has not reached, by
  `Overlaid`, `NamesIntact` and `TablesApart`, and say what still holds beside it.

## 5. Theorems

Proved for every value of the constants under the named assumptions of the
modules (`ConfigAssumption`, `ReadAssumption`, `AnswerAssumption`, `RootAssumption`,
`TablesAssumption`, `AlertsAssumption`), which are what `read_conf` and
`readConfigFile` accept (at least one key, any number of alerts, none included), that
a buffer holds a message, that names and values are integers, and that there are
finitely many workers. Two hypotheses appear in the theorems that need them:
`NothingLeftOver` (the counters of PROJ24 start at 0) and `AlertsEndInPage` (no alert
has only its pointer beyond the page).

Every invariant and every action property of a passing run is proved, and both
refinements; `ThreeSensorsFirst` alone is not, since it needs that no sensor's name looks
like a pointer.

### AuthManagerProofs

- `TypeCorrect`: `Spec => []TypeOK`.
- `ShmLostAtMostOnce`: `Spec => []ShmAccount`.
- `FreezeInvariant`, `Freeze`: `Spec => FrozenAfterHandOff`. The invariant says
  that after the loss the semaphore is 0 and the Sender is back at a counter or
  at its next read of shared memory.
- `OtherStarves`: `Spec => []OtherNeverTaken`.
- `HeldSlotSafe`: `Spec => HeldSlotStable`. While a pointer is held, front is the
  slot after it; the Receiver writes at back only if the slot after back is not
  front, so back is not the held slot.
- `CountInvariant`, `CountersCount`, `NoEmptyPop`: with `NothingLeftOver`,
  `Spec => []CountMatches` and `Spec => []PopFindsRequest`. `CountMatches` is not
  inductive: it needs that one thread at a time is inside a ring (`RingMutex`)
  and that there is room for the request that is being announced (`RoomLeft`).
  The hypothesis is necessary: `auth_stale_counter` is the counterexample.
- `VideoImplements`, `OtherImplements`: with `NothingLeftOver`, each ring implements
  `BoundedFifo`. A ring is mapped to the sequence of its slots from front to back.
  The copy to the slot at back is a stutter; the move of back is `Put`, for which
  there must still be room (`RoomLeft`) and the slot must still hold the request
  (`InHand`); a pop is `Take`, of a ring that is not empty (`PopFinds`). Without the
  hypothesis it fails: a pop of an empty ring moves front past back.

### IotDispatchProofs

`Inv` is types, mutual exclusion of the two readers and the dispatcher (`QueueMutex`,
without which the semaphore could leave 0 .. 1), `BusyMeansWorking` (without which a
worker's decrement could leave 0 .. 1) and `HeldBehindFront`, proved inductive in
`Invariant`.

- `TypeCorrect`, `MarksAreTrue`: `Spec => []TypeOK`, `Spec => []BusyMeansWorking`.
- `HeldSlotSafe`: `Spec => HeldSlotStable`, by the same argument as above.
- `DeadTakesAll`: `Spec => DeadWorkerTakesAll`. A dead worker's mark is 0 (`MarksAreTrue`).

### IotQueueProofs

- `QueueImplements`: `Spec => QueueIsPriorityFifo`. Between its test and its move of
  back a reader is alone in the queue, so there is still room (`RoomLeft`); between
  its look at the indices and the take the dispatcher is alone, so there is still
  something (`TakeFinds`). `TakeDrops` and `TakeTakes` are the two ways `getqueue`
  moves front: to the slot after the first console message or reading it finds.
- `LineInvariant`, `OrderKept`: `Spec => []InOrder`. `InOrder` only looks at what was
  dispatched, so the invariant (`Line`) follows the messages of one client through
  the whole program: pipe, reader's buffer, slots, dispatcher's pointer, dispatched.
  The numbers in each stage increase, and each stage is behind the one before it. Of
  a cut message only the tail goes on, since the buffer's first string is another
  one's. The step of the dispatcher needs that the
  slot it points to is not overwritten (`HeldNotAtBack`, from `HeldBehindFront`).

### IotAlertsProofs

- `TypeCorrect`: `Spec => []TypeOK`, which includes that what the tables count lies in
  the page. It needs that a worker's command fits where it stands (`InHand`): what
  a worker in `addAlert` has is an alert.
- `OneOwedAtRest`: `Spec => []AtMostOneOwed`. `LockHeld` says that at most one of
  workers and watcher is in a critical section when the semaphore is the
  program's. `OwedInv` counts: the readings the watcher has not looked at are at
  most the posts, made (`alert_sem`) or due (`Posting`), plus one while the watcher waits,
  plus two after it took a post. A check leaves none behind it, whence none too many
  at `trywait`, which throws one post away.

### IotContentsProofs

`Contents`, proved inductive in `ContentsInvariant`, has besides types and lock:

- `StillFound`: what a search has found or missed is still so when the worker writes.
- `SensorFirst`: `sensorList` is the key table as soon as there is a key, there is no
  key before the first sensor, and where there is a sensor the page reaches beyond
  keys and alerts, else its worker would have died. This is why the theorems need
  no assumption on the page: an alert that grows over the sensors, or a
  sensor at the end of the page, cannot reach a key's words.
- `KeyBook`: each key of the table is the key of a reading and has one entry; a key without
  entry has no readings; and each entry no sensor lies on agrees with the history.

From it:

- `ReadingsCounted`: `Spec => []CountsReadings`.
- `OneAlertPerReading`: `Spec => []AlertPerReading`.
- `AlertBook`: with `AlertsEndInPage`, `Spec => AlertsAreABook`. `AlertAppended` and
  `AlertRemoved` compute the list after `addAlertToList` and `deleteAlertFromList`; for
  each other writer a lemma shows that its words are not those of an alert, from
  `TablesApart` before and after. The hypothesis is about constants only and
  true of both configuration files of the repository and of `iot_home`. It is
  false of 15 keys on a page of 4096 bytes (1008 words behind the header): alert 35
  then has its pointer beyond the page, and removing another one faults in the
  middle, which leaves an alert twice.

### RootManagerProofs

`Inv` is types, `QueuesFillOnce` and `ReadsWhatItSelects` (the Receiver reads, and has
closed, only pipes that `select` looks at; `DeafForEver` needs it), proved inductive in
`Invariant` with lemmas on appending to a pipe, reading it and filing a message.

- `TypeCorrect`, `QueuesAreNoRings`: `Spec => []TypeOK`, `Spec => []QueuesFillOnce`.
- `Deaf`: `Spec => DeafForEver`. While the manager lives, only `Select` writes
  `read_fds`, and to a subset of it; only a `Read` of a pipe in the set shortens it.

### Only model-checked

The liveness properties (`FirstVideoHandedOver`, `ReceiverDrains`, `RequestKillsManager`,
`QueueDrains`, `WatcherReturns`, `EndsWithItsClients`, `ReadUntilEmpty`,
`BothQueuesTaken`), which need
fairness and ENABLED and are out of the prover's reach. The invariants of the proofs,
`Line`, `LockHeld`, `OwedInv`, `StillFound`, `SensorFirst` and `KeyBook`, are checked by
nothing but the proofs; the runs check what follows from them.

## 6. What is not modelled, and why

- The order in which the shared memory lock's waiters get it, and a semaphore set
  0 that belongs to a running program and blocks the workers: `semaphore0` is
  ours or it is not there. `IotDispatch` needs no lock on the tables; the watcher
  holds it while it sends, which can stop the dispatcher only while the message
  queue stays full, and `QueueDrains` assumes a console that empties it.
- Operations without a working lock interleave between search and write only,
  not within a write, and a check of the watcher between its turns.
- Memory behind the page of the tables: a write there is a fault, as it is when
  the kernel has mapped nothing. With the configuration file of the repository (20 keys, 50
  alerts) the sensor table begins beyond the page, so the first reading faults.
- Memory before the tables. Without a working lock two workers can remove the same
  last alert; the count of alerts becomes negative and the next alert is written
  below `alertList`, into the last keys and, when it is negative enough, the header.
  The model has only the words behind the header; a write before them is a fault.
- The width of the numbers: a count that reaches 2^31 and the product in the
  average, which overflows earlier with large values.
- The order of the stores of an entry that faults: all its words that lie in the page are
  written.
- Names of more than three characters, which fill several words and can reach the
  pointers of an overlaid key; messages left in `/my_queue` by an earlier run; the
  pieces of a long list.
- Start-up and shutdown of PROJ24 beyond the initial states. `cleanup` calls
  `cleanupResources`, which no file defines: this commit does not link, so it has
  no shutdown. The process table of `storePID` is used by nothing else, and the
  parsing of the configuration is one sequential loop whose outcomes are the
  initial states of `AuthManager`.
- `authorization_engine` of PROJ24 and of the first version, `monitor_engine_func` and
  `initializeMessageQueue`: never called.
- `random_unused_code.c`: not built.
- Log files and printing.

## 7. Plan

1. The safety part of the liveness properties, each an invariant or an action
   property that says what cannot undo the progress already made: with no slot nothing
   that reached `addToQueue` is forgotten (`RequestKillsManager`); a watcher that holds
   the lock comes closer to its end with every step (`WatcherReturns`).
2. The invariant that makes `EndsWithItsClients` true: a manager without clients has
   an ended pipe in its set or has left both.
3. The walk of `getlistsizes` on tables that have not run into each other: from there,
   that only crowded tables make a worker fault in it.
