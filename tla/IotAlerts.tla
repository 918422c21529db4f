------------------------------- MODULE IotAlerts -------------------------------
(***************************************************************************)
(* The workers of the home simulator on the shared tables, the alerts      *)
(* watcher and the consoles.  A worker carries out a command: it searches  *)
(* a table, writes to it, posts alert_sem after a reading and answers on   *)
(* the message queue after a console's command.  The watcher waits for a   *)
(* post, looks at every key and sends alerts on the same message queue.    *)
(* Each operation on the tables runs between lock_shared_memory and        *)
(* unlock_shared_memory; the lock works only if semaphore set 0 is the     *)
(* program's own, because semid is zeroed with the segment.                *)
(*                                                                         *)
(* IotDispatch models how a command reaches a worker.                      *)
(***************************************************************************)
EXTENDS IotTables, Sequences, FiniteSets

CONSTANTS
  Workers, Consoles,
  Readings,      \* [sensor, key, value] records sensors send
  Alerts,        \* [id, key, min, max] records consoles use
  MaxTaken,      \* bound: commands the workers take
  MaxPosts,      \* bound: what alert_sem keeps of an earlier run
  MAX_MESSAGES

ASSUME AlertsAssumption ==
  /\ Readings \subseteq [sensor : Int, key : Int, value : Int]
  /\ Alerts \subseteq [id : Int, key : Int, min : Int, max : Int]
  /\ Consoles \subseteq Int
  /\ IsFiniteSet(Workers)
  /\ MaxTaken \in Nat /\ MaxPosts \in Nat /\ MAX_MESSAGES \in Nat

Command(op, arg, user) == [op |-> op, arg |-> arg, user |-> user]
None == "none"
Commands ==
  {Command("reading", r, None) : r \in Readings}
    \union {Command(op, a, c) : op \in {"add_alert", "remove_alert"},
                                a \in Alerts, c \in Consoles}
    \union {Command(op, None, c) : op \in {"list", "reset"}, c \in Consoles}
NoCommand == Command(None, None, None)

\* A message in the queue: an answer to a console or an alert for it.
Answer(user)        == [mtype |-> user, kind |-> "answer", key |-> 0, value |-> 0]
AlertFor(user, k, v) == [mtype |-> user, kind |-> "alert", key |-> k, value |-> v]
Messages == [mtype : Int, kind : {"answer", "alert"}, key : Int, value : Int]

VARIABLES
  shm,        \* the tables
  semaphore0, \* whose semaphore set 0 is: "ours", "other"
  lock,       \* its value: 1 free, 0 taken
  pc, cmd,    \* each worker: where it is, its command
  at,         \* the entry its search has found
  taken,      \* commands taken
  alert_sem,
  apc, look,  \* the watcher: where it is, its loop index
  mq,         \* the message queue to the consoles
  open,       \* consoles that listen
  applied,    \* history: readings of each key written to the table
  raised,     \* history: alerts sent for each key
  owed        \* history: <<entry, number>> of the readings that an alert watches
              \* and the watcher has not looked at

workers  == <<pc, cmd, at, taken>>
watcher  == <<apc, look>>
history  == <<applied, raised, owed>>
vars     == <<shm, semaphore0, lock, workers, alert_sem, watcher, mq, open, history>>

KeyNames == {r.key : r \in Readings}

Init ==
  /\ shm = EmptyTables
  /\ semaphore0 \in {"ours", "other"}
  /\ lock = 1
  /\ pc = [w \in Workers |-> "idle"]
  /\ cmd = [w \in Workers |-> NoCommand]
  /\ at = [w \in Workers |-> 0]
  /\ taken = 0
  /\ alert_sem \in 0 .. MaxPosts
  /\ apc = "wait" /\ look = 0
  /\ mq = << >>
  /\ open = {}
  /\ applied = [k \in KeyNames |-> 0]
  /\ raised = [k \in KeyNames |-> 0]
  /\ owed = {}

--------------------------------------------------------------------------------
(* lock_shared_memory and unlock_shared_memory: a semop on a set that is not   *)
(* there fails, and nobody looks at its result.                                *)

Acquire == IF semaphore0 = "ours" THEN lock = 1 /\ lock' = 0 ELSE UNCHANGED lock
Release == lock' = 1
\* Taken and given back within the step.
Locked  == (semaphore0 = "ours" => lock = 1) /\ UNCHANGED lock

Goto(w, label) == pc' = [pc EXCEPT ![w] = label]

--------------------------------------------------------------------------------
(* Workers *)

offWorker == <<semaphore0, taken, alert_sem, watcher, mq, open>>

\* The worker marks itself busy under the lock after it has read its pipe.
Take(w) ==
  /\ pc[w] = "idle"
  /\ Locked
  /\ taken < MaxTaken
  /\ taken' = taken + 1
  /\ \E c \in Commands :
       /\ cmd' = [cmd EXCEPT ![w] = c]
       /\ Goto(w, CASE c.op = "reading" -> "findSensor"
                    [] c.op \in {"add_alert", "remove_alert"} -> "findAlert"
                    [] OTHER -> c.op)
  /\ UNCHANGED <<shm, semaphore0, at, alert_sem, watcher, mq, open, history>>

Finish(w) ==
  Goto(w, "idle") /\ cmd' = [cmd EXCEPT ![w] = NoCommand]
  /\ at' = [at EXCEPT ![w] = 0]

\* A write that leaves the tables as t or, when the process faults on the way, as
\* partial: an entry is linked and counted last.  A fault gives the lock back too
\* (SEM_UNDO).
Write(w, completes, t, partial, next) ==
  /\ Release
  /\ IF completes THEN shm' = t /\ Goto(w, next) ELSE shm' = partial /\ Goto(w, "dead")

\* Variant: the search and the write are two critical sections.
SearchUnlocked(w, S, found, missing) ==
  /\ Locked
  /\ IF S # {} THEN Goto(w, found) /\ at' = [at EXCEPT ![w] = First(S)]
               ELSE Goto(w, missing) /\ UNCHANGED at

\* A search for what is to be written: S are the entries that have the name.
Search(w, S, found, missing) ==
  /\ Acquire
  /\ IF S # {} THEN Goto(w, found) /\ at' = [at EXCEPT ![w] = First(S)]
               ELSE Goto(w, missing) /\ UNCHANGED at

FindSensor(w) ==
  /\ pc[w] = "findSensor"
  /\ IF SensorsNamed(shm, cmd[w].arg.sensor) # {}
       THEN Locked /\ Goto(w, "findKey")
       ELSE Acquire /\ Goto(w, "writeSensor")
  /\ UNCHANGED <<shm, cmd, at, offWorker, history>>

WriteSensor(w) ==
  /\ pc[w] = "writeSensor"
  /\ LET s == cmd[w].arg.sensor
         a == Sensor(shm, shm.contSen) IN
       Write(w, KeysEnd(shm) /\ Fits(a, 10), AppendSensor(shm, s),
             IF KeysEnd(shm) THEN [shm EXCEPT !.word = PutSensor(@, a, s)] ELSE shm,
             "findKey")
  /\ UNCHANGED <<cmd, at, offWorker, history>>

FindKey(w) ==
  /\ pc[w] = "findKey"
  /\ Search(w, KeysNamed(shm, cmd[w].arg.key), "updateKey", "appendKey")
  /\ UNCHANGED <<shm, cmd, offWorker, history>>

\* What the writing of a reading to entry e means to the history.
Counted(w, e) ==
  LET k == cmd[w].arg.key IN
    /\ applied' = [applied EXCEPT ![k] = @ + 1]
    /\ owed' = IF AlertsOn(shm, k) # {} THEN owed \union {<<e, applied'[k]>>} ELSE owed
    /\ UNCHANGED raised

UpdateKeystats(w) ==
  LET t == UpdateKey(shm, at[w], cmd[w].arg.value) IN
    /\ pc[w] = "updateKey"
    /\ Write(w, Divides(shm, at[w]), t, t, "post")
    /\ IF Divides(shm, at[w]) THEN Counted(w, at[w]) ELSE UNCHANGED history
    /\ UNCHANGED <<cmd, at, offWorker>>

AppendKeystats(w) ==
  LET r == cmd[w].arg
      a == Key(shm.contKey)
      completes == AlertsEnd(shm) /\ Fits(a, 14) IN
    /\ pc[w] = "appendKey"
    /\ Write(w, completes, AppendKey(shm, r.key, r.value),
             IF AlertsEnd(shm) THEN [shm EXCEPT !.word = PutKey(@, a, r.key, r.value)]
                               ELSE shm, "post")
    /\ IF completes THEN Counted(w, shm.contKey) ELSE UNCHANGED history
    /\ UNCHANGED <<cmd, at, offWorker>>

Post(w) ==
  /\ pc[w] = "post"
  /\ alert_sem' = alert_sem + 1
  /\ Finish(w)
  /\ UNCHANGED <<shm, semaphore0, lock, taken, watcher, mq, open, history>>

\* An identifier that is there already is not added, one that is not there is
\* not removed; the answer is the same.
FindAlert(w) ==
  LET S == AlertsNamed(shm, cmd[w].arg.id) IN
    /\ pc[w] = "findAlert"
    /\ IF S # {} <=> cmd[w].op = "add_alert"
         THEN Locked /\ Goto(w, "answer") /\ UNCHANGED at
         ELSE Search(w, S, "removeAlert", "addAlert")
    /\ UNCHANGED <<shm, cmd, offWorker, history>>

AddAlert(w) ==
  LET alert == cmd[w].arg
      user == cmd[w].user
      a == Alert(shm.contAlert) IN
    /\ pc[w] = "addAlert"
    /\ Write(w, Fits(a, 19), AppendAlert(shm, alert, user),
             [shm EXCEPT !.word = PutAlert(@, a, alert, user)], "answer")
    /\ UNCHANGED <<cmd, at, offWorker, history>>

\* The copy of an entry that crosses the end of the page faults; when none is
\* copied, the clearing of the last one does, after it is no longer counted.
DeleteAlert(w) ==
  LET t == RemoveAlert(shm, at[w]) IN
    /\ pc[w] = "removeAlert"
    /\ Write(w, LastAlertFits(shm), t,
             IF at[w] < shm.contAlert - 1 THEN MoveUp(shm, at[w]) ELSE t, "answer")
    /\ UNCHANGED <<cmd, at, offWorker, history>>

\* stats, sensors, list_alerts: the text is made under the lock.
List(w) ==
  /\ pc[w] = "list"
  /\ Locked
  /\ Goto(w, "answer")
  /\ UNCHANGED <<shm, cmd, at, offWorker, history>>

\* free() of an address in the segment aborts the process under the lock.
Reset(w) ==
  /\ pc[w] = "reset"
  /\ Locked
  /\ Goto(w, "dead")
  /\ UNCHANGED <<shm, cmd, at, offWorker, history>>

\* mq_send blocks while the queue is full.
SendAnswer(w) ==
  /\ pc[w] = "answer"
  /\ Len(mq) < MAX_MESSAGES
  /\ mq' = Append(mq, Answer(cmd[w].user))
  /\ Finish(w)
  /\ UNCHANGED <<shm, semaphore0, lock, taken, alert_sem, watcher, open, history>>

CarryOut(w) ==
  \/ FindSensor(w) \/ WriteSensor(w)
  \/ FindKey(w) \/ UpdateKeystats(w) \/ AppendKeystats(w) \/ Post(w)
  \/ FindAlert(w) \/ AddAlert(w) \/ DeleteAlert(w) \/ List(w) \/ Reset(w)
  \/ SendAnswer(w)

--------------------------------------------------------------------------------
(* The alerts watcher *)

Wake ==
  /\ apc = "wait"
  /\ alert_sem > 0
  /\ alert_sem' = alert_sem - 1
  /\ apc' = "lock"
  /\ UNCHANGED <<shm, semaphore0, lock, workers, look, mq, open, history>>

BeginCheck ==
  /\ apc = "lock"
  /\ Acquire
  /\ apc' = "check" /\ look' = 0
  /\ UNCHANGED <<shm, semaphore0, workers, alert_sem, mq, open, history>>

OutOfRange(value, a) ==
  value < shm.word[Alert(a) + 16] \/ value > shm.word[Alert(a) + 17]

\* The alert for entry e, under the lock; it waits for room in the queue.
Raise(e, a) ==
  LET k == shm.word[Key(e)]
      value == shm.word[last(Key(e))] IN
    IF OutOfRange(value, a)
      THEN /\ Len(mq) < MAX_MESSAGES
           /\ mq' = Append(mq, AlertFor(shm.word[Alert(a) + 18], k, value))
           /\ raised' = [raised EXCEPT ![k] = @ + 1]
      ELSE UNCHANGED <<mq, raised>>

\* Variant: a key whose alert was looked at stays unverified.
MarkNothing(e) == UNCHANGED shm
Mark(e) == shm' = [shm EXCEPT !.word[verified(Key(e))] = 1]

\* One turn of the loop.  A reading is verified only if an alert watches its key.
CheckKey ==
  LET A == AlertsOn(shm, shm.word[Key(look)]) IN
    /\ apc = "check"
    /\ look < shm.contKey
    /\ IF shm.word[verified(Key(look))] = 0 /\ A # {}
         THEN Raise(look, First(A)) /\ Mark(look)
         ELSE UNCHANGED <<shm, mq, raised>>
    /\ owed' = {o \in owed : o[1] # look}
    /\ look' = look + 1
    /\ UNCHANGED <<semaphore0, lock, workers, alert_sem, apc, open, applied>>

\* Variant: it returns early, with the lock, when there are no alerts.
EndCheckEarly ==
  /\ apc = "check"
  /\ look >= shm.contKey
  /\ IF shm.contAlert = 0 THEN UNCHANGED lock ELSE Release
  /\ apc' = "trywait"
  /\ UNCHANGED <<shm, semaphore0, workers, alert_sem, look, mq, open, history>>

EndCheck ==
  /\ apc = "check"
  /\ look >= shm.contKey
  /\ Release
  /\ apc' = "trywait"
  /\ UNCHANGED <<shm, semaphore0, workers, alert_sem, look, mq, open, history>>

\* Variant: "Reset the semaphore to 0".
TryWaitDrain ==
  /\ apc = "trywait"
  /\ alert_sem' = 0
  /\ apc' = "wait"
  /\ UNCHANGED <<shm, semaphore0, lock, workers, look, mq, open, history>>

\* sem_trywait throws one post away.
TryWait ==
  /\ apc = "trywait"
  /\ alert_sem' = IF alert_sem > 0 THEN alert_sem - 1 ELSE 0
  /\ apc' = "wait"
  /\ UNCHANGED <<shm, semaphore0, lock, workers, look, mq, open, history>>

Watch == Wake \/ BeginCheck \/ CheckKey \/ EndCheck \/ TryWait

--------------------------------------------------------------------------------
(* Consoles *)

offConsole == <<shm, semaphore0, lock, workers, alert_sem, watcher, history>>

OpenConsole(c) ==
  /\ c \notin open
  /\ open' = open \union {c}
  /\ UNCHANGED <<mq, offConsole>>

\* listen_to_queue: a console takes whatever is first, another's too, which it
\* throws away.
Listen(c) ==
  /\ c \in open
  /\ mq # << >>
  /\ mq' = Tail(mq)
  /\ UNCHANGED <<open, offConsole>>

CloseConsole(c) ==
  /\ c \in open
  /\ open' = open \ {c}
  /\ UNCHANGED <<mq, offConsole>>

--------------------------------------------------------------------------------

Next ==
  \/ \E w \in Workers : Take(w) \/ CarryOut(w)
  \/ Watch
  \/ \E c \in Consoles : OpenConsole(c) \/ Listen(c) \/ CloseConsole(c)

Spec == Init /\ [][Next]_vars

\* Nobody has to send a command or to listen; what runs goes on running.
Fairness ==
  /\ \A w \in Workers : WF_vars(CarryOut(w))
  /\ WF_vars(Watch)
  /\ \A c \in Consoles : WF_vars(Listen(c))
FairSpec == Spec /\ Fairness

--------------------------------------------------------------------------------
(* Properties *)

Labels == {"idle", "dead", "findSensor", "writeSensor", "findKey", "updateKey",
           "appendKey", "post", "findAlert", "addAlert", "removeAlert", "list",
           "reset", "answer"}

\* Types.  What the tables count stays in their page: a write beyond it kills its
\* worker before the entry counts.
TypeOK ==
  /\ shm \in Tables /\ InPage(shm)
  /\ semaphore0 \in {"ours", "other"}
  /\ lock \in {0, 1}
  /\ pc \in [Workers -> Labels]
  /\ cmd \in [Workers -> Commands \union {NoCommand}]
  /\ at \in [Workers -> Nat]
  /\ taken \in Nat /\ alert_sem \in Nat
  /\ apc \in {"wait", "lock", "check", "trywait"} /\ look \in Nat
  /\ mq \in Seq(Messages) /\ Len(mq) <= MAX_MESSAGES
  /\ open \subseteq Consoles
  /\ applied \in [KeyNames -> Nat] /\ raised \in [KeyNames -> Nat]
  /\ owed \subseteq Nat \X Nat

\* With the program's own semaphore, and until an identifier is written over a
\* key's name: a key has one entry, and its count is the number of its readings
\* unless a sensor lies on it.  Search and write are one critical section.
CountsReadings ==
  semaphore0 = "ours" /\ NamesIntact(shm) =>
    /\ \A k, e \in 0 .. (shm.contKey - 1) :
         shm.word[Key(k)] = shm.word[Key(e)] => k = e
    /\ \A e \in 0 .. (shm.contKey - 1) :
         ~Overlaid(shm, count(Key(e)))
           => shm.word[count(Key(e))] = applied[shm.word[Key(e)]]

\* A reading raises at most one alert, however often the watcher looks and
\* whatever happens to the alerts meanwhile; one that is not verified has raised
\* none yet.
AlertPerReading ==
  semaphore0 = "ours" /\ NamesIntact(shm) =>
    \A e \in 0 .. (shm.contKey - 1) :
      LET k == shm.word[Key(e)]
          v == verified(Key(e)) IN
        ~Overlaid(shm, v)
          => raised[k] + (IF shm.word[v] = 0 THEN 1 ELSE 0) <= applied[k]

\* sem_trywait can throw away the post of a reading that came after the check,
\* but of one only: when everything rests, at most one reading that an alert
\* watches has not been seen by the watcher.
AtMostOneOwed ==
  (/\ semaphore0 = "ours"
   /\ apc = "wait" /\ alert_sem = 0
   /\ \A w \in Workers : pc[w] # "post")
    => Cardinality(owed) <= 1

\* As long as no table has run into another, a step adds an alert with a new
\* identifier at the end, removes one and leaves the others as they were and in
\* their order, or leaves all as they are: no reading and no key touches them.
AlertsAreABook ==
  [][semaphore0 = "ours" /\ TablesApart(shm) /\ TablesApart(shm') =>
       LET old == AlertsOf(shm)
           new == AlertsOf(shm') IN
         \/ new = old
         \/ \E a \in Alerts, c \in Consoles :
              /\ \A e \in DOMAIN old : old[e].id # a.id
              /\ new = Append(old, [id |-> a.id, key |-> a.key, min |-> a.min,
                                    max |-> a.max, user |-> c])
         \/ \E e \in DOMAIN old :
              new = SubSeq(old, 1, e - 1) \o SubSeq(old, e + 1, Len(old))]_vars

\* The watcher sends under the lock, so a full message queue stops it and all
\* workers; but as long as some console listens, it comes back to its semaphore.
WatcherReturns ==
  (\E c \in Consoles : <>[](c \in open)) => (apc # "wait" ~> apc = "wait")

\* maxalerts may be 0.  The sensors then lie where the alerts are looked for, and
\* once three of them are stored before the first key, no key is stored any more:
\* getlistsizes takes the name of the third for the pointer at the end of an alert.
ThreeSensorsFirst ==
  [][maxalerts = 0 /\ shm.contKey = 0 /\ shm.contSen > 2 => shm'.contKey = 0]_vars

\* "Key: ... has gone out of range. Last value: ...": an alert reports a value
\* some sensor has sent for the key.
NoFalseAlert ==
  \A n \in 1 .. Len(mq) :
    mq[n].kind = "alert" =>
      \E r \in Readings : r.key = mq[n].key /\ r.value = mq[n].value
================================================================================
