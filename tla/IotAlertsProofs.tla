---------------------------- MODULE IotAlertsProofs ----------------------------
(***************************************************************************)
(* Theorems about IotAlerts, for every number of workers and consoles,     *)
(* every configuration and every size of the page.                         *)
(***************************************************************************)
EXTENDS IotAlerts, IotTablesProofs, SequenceTheorems, FiniteSetTheorems

--------------------------------------------------------------------------------
(* Types *)

ReadingLabels ==
  {"findSensor", "writeSensor", "findKey", "updateKey", "appendKey", "post"}
AlertLabels == {"findAlert", "addAlert", "removeAlert"}

\* A worker's command fits the place where it is, and what its search has found
\* is there.
Fitting(w) ==
  /\ pc[w] \in ReadingLabels => cmd[w].arg \in Readings
  /\ pc[w] \in AlertLabels => cmd[w].arg \in Alerts
  /\ pc[w] \in AlertLabels \union {"list", "answer"} => cmd[w].user \in Consoles
  /\ pc[w] = "updateKey" => at[w] < shm.contKey
InHand == \A w \in Workers : Fitting(w)

TypeInv == TypeOK /\ InHand

LEMMA ArgumentTypes ==
  /\ \A r \in Readings : r.sensor \in Int /\ r.key \in Int /\ r.value \in Int
  /\ \A r \in Readings : r.key \in KeyNames
  /\ \A c \in Consoles : c \in Int
  /\ \A a \in Alerts : a \in [id : Int, key : Int, min : Int, max : Int]
BY AlertsAssumption DEF KeyNames

LEMMA CommandsFit ==
  ASSUME NEW c \in Commands
  PROVE  /\ c.op = "reading" => c.arg \in Readings
         /\ c.op \in {"add_alert", "remove_alert"}
              => c.arg \in Alerts /\ c.user \in Consoles
         /\ c.op \in {"list", "reset"} => c.user \in Consoles
         /\ c.op \in {"reading", "add_alert", "remove_alert", "list", "reset"}
BY DEF Commands, Command

LEMMA TypeInit == Init => TypeInv
<1> SUFFICES ASSUME Init PROVE TypeInv
  OBVIOUS
<1>1. shm \in Tables /\ InPage(shm)
  BY EmptyTablesInPage DEF Init
<1>2. mq \in Seq(Messages) /\ Len(mq) <= MAX_MESSAGES
  BY AlertsAssumption DEF Init
<1>3. TypeOK
  BY <1>1, <1>2, AlertsAssumption DEF Init, TypeOK, Labels
<1>4. InHand
  BY DEF Init, InHand, Fitting, ReadingLabels, AlertLabels
<1> QED
  BY <1>3, <1>4 DEF TypeInv

\* A step of one worker keeps the types if its own new place, command and entry fit.
LEMMA WorkerStep ==
  ASSUME TypeInv, NEW w \in Workers, NEW label \in Labels, Goto(w, label),
         shm' \in Tables, InPage(shm)', shm'.contKey >= shm.contKey,
         lock' \in {0, 1}, semaphore0' = semaphore0, alert_sem' \in Nat, taken' \in Nat,
         cmd' \in [Workers -> Commands \union {NoCommand}],
         at' \in [Workers -> Nat],
         \A v \in Workers \ {w} : cmd'[v] = cmd[v] /\ at'[v] = at[v],
         Fitting(w)',
         UNCHANGED <<watcher, open>>,
         mq' \in Seq(Messages), Len(mq') <= MAX_MESSAGES,
         applied' \in [KeyNames -> Nat], raised' \in [KeyNames -> Nat],
         owed' \subseteq Nat \X Nat
  PROVE  TypeInv'
<1>1. pc' \in [Workers -> Labels]
  BY DEF TypeInv, TypeOK, Goto
<1>2. TypeOK'
  BY <1>1 DEF TypeInv, TypeOK, watcher
<1>3. ASSUME NEW v \in Workers \ {w} PROVE Fitting(v)'
  <2>1. Fitting(v) /\ pc'[v] = pc[v] /\ cmd'[v] = cmd[v] /\ at'[v] = at[v]
    BY DEF TypeInv, TypeOK, InHand, Goto
  <2>2. at[v] \in Nat /\ shm.contKey \in Nat /\ shm'.contKey \in Nat
    BY TableTypes DEF TypeInv, TypeOK
  <2> QED
    BY <2>1, <2>2 DEF Fitting
<1> QED
  BY <1>2, <1>3 DEF TypeInv, InHand

\* A step that leaves the tables, the alerts and the message queue alone.
LEMMA QuietStep ==
  ASSUME TypeInv, NEW w \in Workers, NEW label \in Labels, Goto(w, label),
         lock' \in {0, 1}, taken' \in Nat,
         cmd' \in [Workers -> Commands \union {NoCommand}],
         at' \in [Workers -> Nat],
         \A v \in Workers \ {w} : cmd'[v] = cmd[v] /\ at'[v] = at[v],
         Fitting(w)',
         alert_sem' \in Nat,
         UNCHANGED <<shm, semaphore0, watcher, mq, open, history>>
  PROVE  TypeInv'
<1>1. shm' \in Tables /\ InPage(shm)' /\ shm'.contKey >= shm.contKey
  BY TableTypes DEF TypeInv, TypeOK
<1>2. /\ mq' \in Seq(Messages) /\ Len(mq') <= MAX_MESSAGES
      /\ applied' \in [KeyNames -> Nat] /\ raised' \in [KeyNames -> Nat]
      /\ owed' \subseteq Nat \X Nat
  BY DEF TypeInv, TypeOK, history
<1> QED
  BY <1>1, <1>2, WorkerStep

LEMMA TypeTake == ASSUME TypeInv, NEW w \in Workers, Take(w) PROVE TypeInv'
<1>1. PICK c \in Commands :
        /\ cmd' = [cmd EXCEPT ![w] = c]
        /\ Goto(w, CASE c.op = "reading" -> "findSensor"
                     [] c.op \in {"add_alert", "remove_alert"} -> "findAlert"
                     [] OTHER -> c.op)
  BY DEF Take
<1> DEFINE label == CASE c.op = "reading" -> "findSensor"
                      [] c.op \in {"add_alert", "remove_alert"} -> "findAlert"
                      [] OTHER -> c.op
<1>2. /\ label \in {"findSensor", "findAlert", "list", "reset"}
      /\ label = "findSensor" => c.arg \in Readings
      /\ label = "findAlert" => c.arg \in Alerts /\ c.user \in Consoles
      /\ label = "list" => c.user \in Consoles
  BY CommandsFit
<1>3. Goto(w, label)
  BY <1>1
<1> HIDE DEF label
<1>4. /\ cmd' \in [Workers -> Commands \union {NoCommand}] /\ cmd'[w] = c
      /\ \A v \in Workers \ {w} : cmd'[v] = cmd[v] /\ at'[v] = at[v]
      /\ at' \in [Workers -> Nat]
      /\ pc'[w] = label
  BY <1>1, <1>3 DEF TypeInv, TypeOK, Take, Goto
<1>5. Fitting(w)'
  BY <1>2, <1>4 DEF Fitting, ReadingLabels, AlertLabels
<1>6. lock' \in {0, 1} /\ taken' \in Nat /\ alert_sem' \in Nat
  BY DEF TypeInv, TypeOK, Take, Locked
<1>7. UNCHANGED <<shm, semaphore0, watcher, mq, open, history>>
  BY DEF Take
<1>8. label \in Labels
  BY <1>2 DEF Labels
<1> QED
  BY <1>3, <1>4, <1>5, <1>6, <1>7, <1>8, QuietStep

\* A step that takes the lock, or takes it and gives it back, and goes on with the
\* same command.
LEMMA SameCommand ==
  ASSUME TypeInv, NEW w \in Workers, NEW label \in Labels, Goto(w, label),
         lock' \in {0, 1}, Fitting(w)', UNCHANGED <<shm, cmd, at, offWorker, history>>
  PROVE  TypeInv'
<1>1. /\ cmd' \in [Workers -> Commands \union {NoCommand}]
      /\ at' \in [Workers -> Nat]
      /\ \A v \in Workers \ {w} : cmd'[v] = cmd[v] /\ at'[v] = at[v]
      /\ taken' \in Nat /\ alert_sem' \in Nat
  BY DEF TypeInv, TypeOK, offWorker
<1>2. UNCHANGED <<shm, semaphore0, watcher, mq, open, history>>
  BY DEF offWorker
<1> QED
  BY <1>1, <1>2, QuietStep

LEMMA LockTypes ==
  ASSUME TypeInv, Acquire \/ Locked \/ Release PROVE lock' \in {0, 1}
BY DEF TypeInv, TypeOK, Acquire, Locked, Release

LEMMA TypeSearch ==
  ASSUME TypeInv, NEW w \in Workers, NEW S, S \subseteq Nat,
         NEW found \in Labels, NEW missing \in Labels,
         Search(w, S, found, missing), UNCHANGED <<shm, cmd, offWorker, history>>,
         Fitting(w)'
  PROVE  TypeInv'
<1>1. lock' \in {0, 1}
  BY LockTypes DEF Search
<1>2. UNCHANGED <<shm, semaphore0, watcher, mq, open, history>>
  BY DEF offWorker
<1>3. /\ cmd' \in [Workers -> Commands \union {NoCommand}]
      /\ \A v \in Workers \ {w} : cmd'[v] = cmd[v]
      /\ taken' \in Nat /\ alert_sem' \in Nat
  BY DEF TypeInv, TypeOK, offWorker
<1>4. at \in [Workers -> Nat]
  BY DEF TypeInv, TypeOK
<1>5. CASE S # {}
  <2>1. First(S) \in Nat
    BY <1>5, FirstIsLeast
  <2>2. Goto(w, found) /\ at' = [at EXCEPT ![w] = First(S)]
    BY <1>5 DEF Search
  <2>3. at' \in [Workers -> Nat] /\ \A v \in Workers \ {w} : at'[v] = at[v]
    BY <1>4, <2>1, <2>2
  <2> QED
    BY <1>1, <1>2, <1>3, <2>2, <2>3, QuietStep
<1>6. CASE S = {}
  <2>1. Goto(w, missing) /\ at' = at
    BY <1>6 DEF Search
  <2> QED
    BY <1>1, <1>2, <1>3, <1>4, <2>1, QuietStep
<1> QED
  BY <1>5, <1>6

LEMMA TypeFindSensor == ASSUME TypeInv, NEW w \in Workers, FindSensor(w) PROVE TypeInv'
<1>1. PICK label \in {"findKey", "writeSensor"} : Goto(w, label)
  BY DEF FindSensor
<1>2. lock' \in {0, 1}
  BY LockTypes DEF FindSensor
<1>3. Fitting(w) /\ cmd' = cmd /\ pc[w] = "findSensor" /\ pc'[w] = label
  BY <1>1 DEF TypeInv, TypeOK, InHand, FindSensor, Goto
<1>4. Fitting(w)'
  BY <1>1, <1>3 DEF Fitting, ReadingLabels, AlertLabels
<1>5. UNCHANGED <<shm, cmd, at, offWorker, history>>
  BY DEF FindSensor
<1>6. label \in Labels
  BY DEF Labels
<1> QED
  BY <1>1, <1>2, <1>4, <1>5, <1>6, SameCommand

LEMMA TypeFindKey == ASSUME TypeInv, NEW w \in Workers, FindKey(w) PROVE TypeInv'
<1> DEFINE S == KeysNamed(shm, cmd[w].arg.key)
<1>1. S \subseteq Nat /\ \A i \in S : i < shm.contKey
  BY TableTypes DEF TypeInv, TypeOK, KeysNamed
<1>2. Search(w, S, "updateKey", "appendKey")
  BY DEF FindKey
<1>3. Fitting(w) /\ pc[w] = "findKey" /\ UNCHANGED <<shm, cmd, offWorker, history>>
  BY DEF TypeInv, InHand, FindKey
<1> HIDE DEF S
<1>4. pc'[w] \in {"updateKey", "appendKey"}
  BY <1>2 DEF TypeInv, TypeOK, Search, Goto
<1>5. pc'[w] = "updateKey" => at'[w] < shm'.contKey
  <2>1. CASE S # {}
    <3>1. First(S) < shm.contKey
      BY <1>1, <2>1, FirstIsLeast
    <3> QED
      BY <1>2, <1>3, <2>1, <3>1 DEF TypeInv, TypeOK, Search
  <2>2. CASE S = {}
    BY <1>2, <2>2 DEF TypeInv, TypeOK, Search, Goto
  <2> QED
    BY <2>1, <2>2
<1>6. Fitting(w)'
  BY <1>3, <1>4, <1>5 DEF Fitting, ReadingLabels, AlertLabels
<1>7. "updateKey" \in Labels /\ "appendKey" \in Labels
  BY DEF Labels
<1> QED
  BY <1>1, <1>2, <1>3, <1>6, <1>7, TypeSearch

LEMMA TypeFindAlert == ASSUME TypeInv, NEW w \in Workers, FindAlert(w) PROVE TypeInv'
<1> DEFINE S == AlertsNamed(shm, cmd[w].arg.id)
<1>1. S \subseteq Nat
  BY TableTypes DEF TypeInv, TypeOK, AlertsNamed
<1>2. Fitting(w) /\ pc[w] = "findAlert" /\ UNCHANGED <<shm, cmd, offWorker, history>>
  BY DEF TypeInv, InHand, FindAlert
<1>3. \/ Locked /\ Goto(w, "answer") /\ UNCHANGED at
      \/ Search(w, S, "removeAlert", "addAlert")
  BY DEF FindAlert
<1> HIDE DEF S
<1>4. {"answer", "removeAlert", "addAlert"} \subseteq Labels
  BY DEF Labels
<1>5. CASE Locked /\ Goto(w, "answer") /\ UNCHANGED at
  <2>1. lock' \in {0, 1} /\ pc'[w] = "answer"
    BY <1>5, LockTypes DEF TypeInv, TypeOK, Goto
  <2>2. Fitting(w)'
    BY <1>2, <2>1 DEF Fitting, ReadingLabels, AlertLabels
  <2> QED
    BY <1>2, <1>4, <1>5, <2>1, <2>2, SameCommand
<1>6. CASE Search(w, S, "removeAlert", "addAlert")
  <2>1. pc'[w] \in {"removeAlert", "addAlert"}
    BY <1>6 DEF TypeInv, TypeOK, Search, Goto
  <2>2. Fitting(w)'
    BY <1>2, <2>1 DEF Fitting, ReadingLabels, AlertLabels
  <2> QED
    BY <1>1, <1>2, <1>4, <1>6, <2>2, TypeSearch
<1> QED
  BY <1>3, <1>5, <1>6

\* A write to the tables leaves them in their page whether it completes or faults.
LEMMA TypeWrite ==
  ASSUME TypeInv, NEW w \in Workers, NEW completes, NEW t, NEW partial,
         NEW next \in Labels, Write(w, completes, t, partial, next),
         completes => t \in Tables /\ InPage(t) /\ t.contKey >= shm.contKey,
         ~completes => /\ partial \in Tables /\ InPage(partial)
                       /\ partial.contKey = shm.contKey,
         pc'[w] \in {next, "dead"} => Fitting(w)',
         UNCHANGED <<cmd, at, offWorker>>,
         applied' \in [KeyNames -> Nat], raised' \in [KeyNames -> Nat],
         owed' \subseteq Nat \X Nat
  PROVE  TypeInv'
<1>1. lock' \in {0, 1}
  BY DEF Write, Release
<1>2. /\ cmd' \in [Workers -> Commands \union {NoCommand}]
      /\ at' \in [Workers -> Nat]
      /\ \A v \in Workers \ {w} : cmd'[v] = cmd[v] /\ at'[v] = at[v]
      /\ taken' \in Nat /\ alert_sem' \in Nat
      /\ semaphore0' = semaphore0
      /\ UNCHANGED <<watcher, open>>
      /\ mq' \in Seq(Messages) /\ Len(mq') <= MAX_MESSAGES
  BY DEF TypeInv, TypeOK, offWorker
<1>3. shm.contKey \in Nat
  BY TableTypes DEF TypeInv, TypeOK
<1>4. PICK label \in {next, "dead"} : Goto(w, label)
  BY DEF Write
<1>5. label \in Labels /\ pc'[w] = label
  BY <1>4 DEF TypeInv, TypeOK, Labels, Goto
<1>6. shm' \in Tables /\ InPage(shm)' /\ shm'.contKey >= shm.contKey
  BY <1>3 DEF Write
<1> QED
  BY <1>1, <1>2, <1>4, <1>5, <1>6, WorkerStep

\* What a worker in the middle of a command has in hand after a write.
LEMMA FittingAfter ==
  ASSUME TypeInv, NEW w \in Workers, UNCHANGED <<cmd, at>>,
         \/ pc[w] \in ReadingLabels /\ pc'[w] \in {"findKey", "post", "dead"}
         \/ pc[w] \in AlertLabels /\ pc'[w] \in {"answer", "dead"}
  PROVE  Fitting(w)'
BY DEF TypeInv, InHand, Fitting, ReadingLabels, AlertLabels

LEMMA TypeWriteSensor ==
  ASSUME TypeInv, NEW w \in Workers, WriteSensor(w) PROVE TypeInv'
<1> DEFINE s == cmd[w].arg.sensor
           a == Sensor(shm, shm.contSen)
           t == AppendSensor(shm, s)
           written == [shm EXCEPT !.word = PutSensor(@, a, s)]
           partial == IF KeysEnd(shm) THEN written ELSE shm
<1>1. /\ pc[w] = "writeSensor"
      /\ Write(w, KeysEnd(shm) /\ Fits(a, 10), t, partial, "findKey")
      /\ UNCHANGED <<cmd, at, offWorker, history>>
  BY DEF WriteSensor
<1>2. shm \in Tables /\ InPage(shm)
  BY DEF TypeInv, TypeOK
<1>3. cmd[w].arg \in Readings
  BY <1>1 DEF TypeInv, InHand, Fitting, ReadingLabels
<1>4. s \in Int
  BY <1>3, ArgumentTypes
<1>5. a \in Int /\ shm.word \in [Words -> Int] /\ shm.contKey \in Nat
  BY <1>2, TableTypes DEF Sensor
<1>6. Fits(a, 10) => t \in Tables /\ InPage(t) /\ t.contKey >= shm.contKey
  BY <1>2, <1>4, <1>5, AppendSensorType
<1>7. partial \in Tables /\ InPage(partial) /\ partial.contKey = shm.contKey
  <2>1. written \in Tables /\ InPage(written) /\ written.contKey = shm.contKey
    BY <1>2, <1>4, <1>5, PutSensorWords, WordsOnly
  <2> HIDE DEF written
  <2> QED
    BY <1>2, <2>1
<1> HIDE DEF a, t, partial
<1>8. pc'[w] \in {"findKey", "dead"} => Fitting(w)'
  BY <1>1, FittingAfter DEF ReadingLabels
<1>9. /\ applied' \in [KeyNames -> Nat] /\ raised' \in [KeyNames -> Nat]
      /\ owed' \subseteq Nat \X Nat
  BY <1>1 DEF TypeInv, TypeOK, history
<1>10. "findKey" \in Labels
  BY DEF Labels
<1> QED
  BY <1>1, <1>6, <1>7, <1>8, <1>9, <1>10, TypeWrite

LEMMA TypeAddAlert ==
  ASSUME TypeInv, NEW w \in Workers, AddAlert(w) PROVE TypeInv'
<1> DEFINE alert == cmd[w].arg
           user == cmd[w].user
           a == Alert(shm.contAlert)
           t == AppendAlert(shm, alert, user)
           partial == [shm EXCEPT !.word = PutAlert(@, a, alert, user)]
<1>1. /\ pc[w] = "addAlert"
      /\ Write(w, Fits(a, 19), t, partial, "answer")
      /\ UNCHANGED <<cmd, at, offWorker, history>>
  BY DEF AddAlert
<1>2. shm \in Tables /\ InPage(shm)
  BY DEF TypeInv, TypeOK
<1>3. cmd[w].arg \in Alerts /\ cmd[w].user \in Consoles
  BY <1>1 DEF TypeInv, InHand, Fitting, AlertLabels
<1>4. user \in Int /\ alert \in [id : Int, key : Int, min : Int, max : Int]
  BY <1>3, ArgumentTypes
<1>5. a \in Int /\ shm.word \in [Words -> Int] /\ shm.contKey \in Nat
  BY <1>2, TableTypes, TablesAssumption DEF Alert
<1>6. Fits(a, 19) => t \in Tables /\ InPage(t) /\ t.contKey >= shm.contKey
  BY <1>2, <1>4, <1>5, AppendAlertType
<1>7. partial \in Tables /\ InPage(partial) /\ partial.contKey = shm.contKey
  BY <1>2, <1>4, <1>5, PutAlertWords, WordsOnly
<1> HIDE DEF a, t, partial
<1>8. pc'[w] \in {"answer", "dead"} => Fitting(w)'
  BY <1>1, FittingAfter DEF AlertLabels
<1>9. /\ applied' \in [KeyNames -> Nat] /\ raised' \in [KeyNames -> Nat]
      /\ owed' \subseteq Nat \X Nat
  BY <1>1 DEF TypeInv, TypeOK, history
<1>10. "answer" \in Labels
  BY DEF Labels
<1> QED
  BY <1>1, <1>6, <1>7, <1>8, <1>9, <1>10, TypeWrite

LEMMA TypeDeleteAlert ==
  ASSUME TypeInv, NEW w \in Workers, DeleteAlert(w) PROVE TypeInv'
<1> DEFINE t == RemoveAlert(shm, at[w])
           partial == IF at[w] < shm.contAlert - 1 THEN MoveUp(shm, at[w]) ELSE t
<1>1. /\ pc[w] = "removeAlert"
      /\ Write(w, LastAlertFits(shm), t, partial, "answer")
      /\ UNCHANGED <<cmd, at, offWorker, history>>
  BY DEF DeleteAlert
<1>2. shm \in Tables /\ InPage(shm) /\ at[w] \in Nat /\ shm.contKey \in Nat
  BY TableTypes DEF TypeInv, TypeOK
<1>3. t \in Tables /\ InPage(t) /\ t.contKey = shm.contKey
  BY <1>2, RemoveAlertType
<1>4. partial \in Tables /\ InPage(partial) /\ partial.contKey = shm.contKey
  BY <1>2, <1>3, MoveUpType
<1> HIDE DEF t, partial
<1>5. pc'[w] \in {"answer", "dead"} => Fitting(w)'
  BY <1>1, FittingAfter DEF AlertLabels
<1>6. /\ applied' \in [KeyNames -> Nat] /\ raised' \in [KeyNames -> Nat]
      /\ owed' \subseteq Nat \X Nat
  BY <1>1 DEF TypeInv, TypeOK, history
<1>7. "answer" \in Labels
  BY DEF Labels
<1> QED
  BY <1>1, <1>2, <1>3, <1>4, <1>5, <1>6, <1>7, TypeWrite

LEMMA CountedTypes ==
  ASSUME TypeInv, NEW w \in Workers, pc[w] \in ReadingLabels, NEW e \in Nat,
         Counted(w, e) \/ UNCHANGED history
  PROVE  /\ applied' \in [KeyNames -> Nat] /\ raised' \in [KeyNames -> Nat]
         /\ owed' \subseteq Nat \X Nat
<1>1. CASE UNCHANGED history
  BY <1>1 DEF TypeInv, TypeOK, history
<1>2. CASE Counted(w, e)
  <2>1. cmd[w].arg.key \in KeyNames
    BY ArgumentTypes DEF TypeInv, InHand, Fitting
  <2>2. /\ applied \in [KeyNames -> Nat] /\ raised \in [KeyNames -> Nat]
        /\ owed \subseteq Nat \X Nat
    BY DEF TypeInv, TypeOK
  <2>3. applied' \in [KeyNames -> Nat] /\ raised' = raised
    BY <1>2, <2>1, <2>2 DEF Counted
  <2>4. applied'[cmd[w].arg.key] \in Nat
    BY <2>1, <2>3
  <2>5. owed' \subseteq owed \union {<<e, applied'[cmd[w].arg.key]>>}
    BY <1>2 DEF Counted
  <2> QED
    BY <2>2, <2>3, <2>4, <2>5
<1> QED
  BY <1>1, <1>2

LEMMA TypeUpdateKeystats ==
  ASSUME TypeInv, NEW w \in Workers, UpdateKeystats(w) PROVE TypeInv'
<1> DEFINE v == cmd[w].arg.value
           t == UpdateKey(shm, at[w], v)
<1>1. /\ pc[w] = "updateKey"
      /\ Write(w, Divides(shm, at[w]), t, t, "post")
      /\ UNCHANGED <<cmd, at, offWorker>>
      /\ Counted(w, at[w]) \/ UNCHANGED history
  BY DEF UpdateKeystats
<1>2. /\ shm \in Tables /\ InPage(shm) /\ shm.contKey \in Nat
      /\ at[w] \in 0 .. (shm.contKey - 1) /\ v \in Int
  <2>1. cmd[w].arg \in Readings /\ at[w] < shm.contKey
    BY <1>1 DEF TypeInv, InHand, Fitting, ReadingLabels
  <2> QED
    BY <2>1, TableTypes, ArgumentTypes DEF TypeInv, TypeOK
<1>3. t \in Tables /\ InPage(t) /\ t.contKey = shm.contKey
  BY <1>2, UpdateKeyWords
<1> HIDE DEF t
<1>4. pc'[w] \in {"post", "dead"} => Fitting(w)'
  BY <1>1, FittingAfter DEF ReadingLabels
<1>5. /\ applied' \in [KeyNames -> Nat] /\ raised' \in [KeyNames -> Nat]
      /\ owed' \subseteq Nat \X Nat
  BY <1>1, <1>2, CountedTypes DEF ReadingLabels
<1>6. "post" \in Labels
  BY DEF Labels
<1> QED
  BY <1>1, <1>2, <1>3, <1>4, <1>5, <1>6, TypeWrite

LEMMA TypeAppendKeystats ==
  ASSUME TypeInv, NEW w \in Workers, AppendKeystats(w) PROVE TypeInv'
<1> DEFINE r == cmd[w].arg
           a == Key(shm.contKey)
           t == AppendKey(shm, r.key, r.value)
           written == [shm EXCEPT !.word = PutKey(@, a, r.key, r.value)]
           partial == IF AlertsEnd(shm) THEN written ELSE shm
<1>1. /\ pc[w] = "appendKey"
      /\ Write(w, AlertsEnd(shm) /\ Fits(a, 14), t, partial, "post")
      /\ UNCHANGED <<cmd, at, offWorker>>
      /\ Counted(w, shm.contKey) \/ UNCHANGED history
  BY DEF AppendKeystats
<1>2. shm \in Tables /\ InPage(shm)
  BY DEF TypeInv, TypeOK
<1>3. r \in Readings
  BY <1>1 DEF TypeInv, InHand, Fitting, ReadingLabels
<1>4. r.key \in Int /\ r.value \in Int
  BY <1>3, ArgumentTypes
<1>5. a \in Int /\ shm.word \in [Words -> Int] /\ shm.contKey \in Nat
  BY <1>2, TableTypes DEF Key
<1>6. Fits(a, 14) => t \in Tables /\ InPage(t) /\ t.contKey >= shm.contKey
  BY <1>2, <1>4, <1>5, AppendKeyType
<1>7. partial \in Tables /\ InPage(partial) /\ partial.contKey = shm.contKey
  <2>1. PutKey(shm.word, a, r.key, r.value) \in [Words -> Int]
    <3> HIDE DEF a, r
    <3> QED
      BY <1>4, <1>5, PutKeyWords
  <2>2. written \in Tables /\ InPage(written) /\ written.contKey = shm.contKey
    BY <1>2, <2>1, WordsOnly
  <2> HIDE DEF written
  <2> QED
    BY <1>2, <2>2
<1> HIDE DEF a, t, partial
<1>8. pc'[w] \in {"post", "dead"} => Fitting(w)'
  BY <1>1, FittingAfter DEF ReadingLabels
<1>9. /\ applied' \in [KeyNames -> Nat] /\ raised' \in [KeyNames -> Nat]
      /\ owed' \subseteq Nat \X Nat
  BY <1>1, <1>5, CountedTypes DEF ReadingLabels
<1>10. "post" \in Labels
  BY DEF Labels
<1> QED
  BY <1>1, <1>6, <1>7, <1>8, <1>9, <1>10, TypeWrite

\* Back to idle.
LEMMA FinishTypes ==
  ASSUME TypeInv, NEW w \in Workers, Finish(w)
  PROVE  /\ Goto(w, "idle")
         /\ cmd' \in [Workers -> Commands \union {NoCommand}]
         /\ at' \in [Workers -> Nat]
         /\ \A v \in Workers \ {w} : cmd'[v] = cmd[v] /\ at'[v] = at[v]
         /\ Fitting(w)'
<1>1. pc'[w] = "idle"
  BY DEF TypeInv, TypeOK, Finish, Goto
<1>2. Fitting(w)'
  BY <1>1 DEF Fitting, ReadingLabels, AlertLabels
<1> QED
  BY <1>2 DEF TypeInv, TypeOK, Finish

LEMMA TypePost == ASSUME TypeInv, NEW w \in Workers, Post(w) PROVE TypeInv'
<1>1. UNCHANGED <<shm, semaphore0, lock, taken, watcher, mq, open, history>>
  BY DEF Post
<1>2. lock' \in {0, 1} /\ taken' \in Nat /\ alert_sem' \in Nat
  BY <1>1 DEF TypeInv, TypeOK, Post
<1>3. Finish(w) /\ "idle" \in Labels
  BY DEF Post, Labels
<1> QED
  BY <1>1, <1>2, <1>3, FinishTypes, QuietStep

LEMMA TypeList == ASSUME TypeInv, NEW w \in Workers, List(w) PROVE TypeInv'
<1>1. Goto(w, "answer") /\ UNCHANGED <<shm, cmd, at, offWorker, history>>
  BY DEF List
<1>2. Fitting(w) /\ pc[w] = "list" /\ pc'[w] = "answer" /\ cmd' = cmd
  BY <1>1 DEF TypeInv, TypeOK, InHand, List, Goto
<1>3. Fitting(w)'
  BY <1>2 DEF Fitting, ReadingLabels, AlertLabels
<1>4. lock' \in {0, 1} /\ "answer" \in Labels
  BY LockTypes DEF List, Labels
<1> QED
  BY <1>1, <1>3, <1>4, SameCommand

LEMMA TypeReset == ASSUME TypeInv, NEW w \in Workers, Reset(w) PROVE TypeInv'
<1>1. Goto(w, "dead") /\ UNCHANGED <<shm, cmd, at, offWorker, history>>
  BY DEF Reset
<1>2. pc'[w] = "dead"
  BY <1>1 DEF TypeInv, TypeOK, Goto
<1>3. Fitting(w)'
  BY <1>2 DEF Fitting, ReadingLabels, AlertLabels
<1>4. lock' \in {0, 1} /\ "dead" \in Labels
  BY LockTypes DEF Reset, Labels
<1> QED
  BY <1>1, <1>3, <1>4, SameCommand

LEMMA QueueTypes ==
  ASSUME mq \in Seq(Messages), Len(mq) < MAX_MESSAGES, NEW m \in Messages
  PROVE  Append(mq, m) \in Seq(Messages) /\ Len(Append(mq, m)) <= MAX_MESSAGES
BY AlertsAssumption

LEMMA TypeSendAnswer == ASSUME TypeInv, NEW w \in Workers, SendAnswer(w) PROVE TypeInv'
<1>1. cmd[w].user \in Int
  BY ArgumentTypes DEF TypeInv, InHand, Fitting, SendAnswer
<1>2. Answer(cmd[w].user) \in Messages
  BY <1>1 DEF Answer, Messages
<1>3. mq' \in Seq(Messages) /\ Len(mq') <= MAX_MESSAGES
  BY <1>2, QueueTypes DEF TypeInv, TypeOK, SendAnswer
<1>4. /\ Finish(w) /\ "idle" \in Labels
      /\ UNCHANGED <<shm, semaphore0, lock, taken, alert_sem, watcher, open, history>>
  BY DEF SendAnswer, Labels
<1>5. /\ shm' \in Tables /\ InPage(shm)' /\ shm'.contKey >= shm.contKey
      /\ lock' \in {0, 1} /\ alert_sem' \in Nat /\ taken' \in Nat
      /\ applied' \in [KeyNames -> Nat] /\ raised' \in [KeyNames -> Nat]
      /\ owed' \subseteq Nat \X Nat
  BY <1>4, TableTypes DEF TypeInv, TypeOK, history
<1> QED
  BY <1>3, <1>4, <1>5, FinishTypes, WorkerStep

\* The steps of watcher and consoles leave the workers alone and count no key.
LEMMA OtherStep ==
  ASSUME TypeInv, UNCHANGED <<workers, semaphore0, applied>>,
         shm' \in Tables, InPage(shm)', shm'.contKey = shm.contKey,
         lock' \in {0, 1}, alert_sem' \in Nat,
         apc' \in {"wait", "lock", "check", "trywait"}, look' \in Nat,
         mq' \in Seq(Messages), Len(mq') <= MAX_MESSAGES, open' \subseteq Consoles,
         raised' \in [KeyNames -> Nat], owed' \subseteq owed
  PROVE  TypeInv'
<1>1. TypeOK'
  BY DEF TypeInv, TypeOK, workers
<1>2. InHand'
  BY DEF TypeInv, InHand, Fitting, workers
<1> QED
  BY <1>1, <1>2 DEF TypeInv

LEMMA OneWord ==
  ASSUME NEW word \in [Words -> Int], NEW a, NEW v \in Int
  PROVE  [word EXCEPT ![a] = v] \in [Words -> Int]
OBVIOUS

LEMMA TypeCheckKey == ASSUME TypeInv, CheckKey PROVE TypeInv'
<1> DEFINE k == shm.word[Key(look)]
           A == AlertsOn(shm, k)
<1>1. /\ shm \in Tables /\ InPage(shm) /\ shm.word \in [Words -> Int]
      /\ shm.contKey \in Nat /\ shm.contAlert \in Int
      /\ look \in 0 .. (shm.contKey - 1)
  BY TableTypes DEF TypeInv, TypeOK, CheckKey
<1>2. \A o \in 0 .. 13 : shm.word[Key(look) + o] \in Int
  BY <1>1, KeyInPage
<1>3. shm.word[last(Key(look))] \in Int /\ k \in Int
  <2>1. shm.word[Key(look) + 8] \in Int /\ shm.word[Key(look) + 0] \in Int
    BY <1>2
  <2>2. Key(look) + 0 = Key(look)
    BY <1>1 DEF Key
  <2> QED
    BY <2>1, <2>2 DEF last
<1>4. /\ lock' = lock /\ alert_sem' = alert_sem /\ apc' = apc
      /\ look' = look + 1 /\ owed' \subseteq owed
      /\ UNCHANGED <<workers, semaphore0, applied, open>>
  BY DEF CheckKey
<1>5. CASE A # {} /\ Raise(look, First(A)) /\ Mark(look)
  <2>1. A \subseteq Nat /\ A \subseteq 0 .. (shm.contAlert - 1)
    BY <1>1 DEF AlertsOn
  <2>2. First(A) \in 0 .. (shm.contAlert - 1)
    BY <1>5, <2>1, FirstIsLeast
  <2>3. shm.word[Alert(First(A)) + 18] \in Int
    BY <1>1, <2>2, AlertInPage
  <2>4. AlertFor(shm.word[Alert(First(A)) + 18], k, shm.word[last(Key(look))])
          \in Messages
    BY <1>3, <2>3 DEF AlertFor, Messages
  <2>5. /\ mq' \in Seq(Messages) /\ Len(mq') <= MAX_MESSAGES
        /\ raised' \in [KeyNames -> Nat]
    <3> DEFINE m == AlertFor(shm.word[Alert(First(A)) + 18], k,
                             shm.word[last(Key(look))])
    <3>1. /\ \/ Len(mq) < MAX_MESSAGES /\ mq' = Append(mq, m)
             \/ mq' = mq
          /\ raised' = [raised EXCEPT ![k] = raised[k] + 1] \/ raised' = raised
      BY <1>5 DEF Raise
    <3>2. /\ mq \in Seq(Messages) /\ Len(mq) <= MAX_MESSAGES
          /\ raised \in [KeyNames -> Nat]
      BY DEF TypeInv, TypeOK
    <3> HIDE DEF m, k
    <3>3. mq' \in Seq(Messages) /\ Len(mq') <= MAX_MESSAGES
      BY <2>4, <3>1, <3>2, QueueTypes DEF m, k
    <3>4. raised' \in [KeyNames -> Nat]
      BY <3>1, <3>2
    <3> QED
      BY <3>3, <3>4
  <2>6. shm' = [shm EXCEPT !.word = [shm.word EXCEPT ![verified(Key(look))] = 1]]
    BY <1>5 DEF Mark
  <2>7. shm' \in Tables /\ InPage(shm)' /\ shm'.contKey = shm.contKey
    <3> DEFINE word == [shm.word EXCEPT ![verified(Key(look))] = 1]
    <3>1. word \in [Words -> Int]
      BY <1>1, OneWord
    <3> HIDE DEF word
    <3> QED
      BY <1>1, <2>6, <3>1, WordsOnly DEF word
  <2> QED
    BY <1>4, <2>5, <2>7, OtherStep DEF TypeInv, TypeOK
<1>6. CASE UNCHANGED <<shm, mq, raised>>
  BY <1>1, <1>4, <1>6, OtherStep DEF TypeInv, TypeOK
<1> QED
  BY <1>5, <1>6 DEF CheckKey

LEMMA TypeWatch == ASSUME TypeInv, Watch PROVE TypeInv'
<1>1. ASSUME Wake \/ BeginCheck \/ EndCheck \/ TryWait PROVE TypeInv'
  <2>1. UNCHANGED <<shm, semaphore0, workers, mq, open, history>>
    BY <1>1 DEF Wake, BeginCheck, EndCheck, TryWait
  <2>2. lock' \in {0, 1}
    BY <1>1, LockTypes
    DEF TypeInv, TypeOK, Wake, BeginCheck, EndCheck, TryWait
  <2>3. /\ alert_sem' \in Nat /\ look' \in Nat
        /\ apc' \in {"wait", "lock", "check", "trywait"}
    BY <1>1 DEF TypeInv, TypeOK, Wake, BeginCheck, EndCheck, TryWait
  <2> QED
    BY <2>1, <2>2, <2>3, OtherStep DEF TypeInv, TypeOK, history
<1> QED
  BY <1>1, TypeCheckKey DEF Watch

LEMMA TypeConsoles ==
  ASSUME TypeInv, NEW c \in Consoles, OpenConsole(c) \/ Listen(c) \/ CloseConsole(c)
  PROVE  TypeInv'
<1>1. UNCHANGED offConsole
  BY DEF OpenConsole, Listen, CloseConsole
<1>2. open' \subseteq Consoles
  BY DEF TypeInv, TypeOK, OpenConsole, Listen, CloseConsole
<1>3. mq' \in Seq(Messages) /\ Len(mq') <= MAX_MESSAGES
  <2>1. mq' = mq \/ (mq # << >> /\ mq' = Tail(mq))
    BY DEF OpenConsole, Listen, CloseConsole
  <2>2. mq \in Seq(Messages) /\ Len(mq) <= MAX_MESSAGES
    BY DEF TypeInv, TypeOK
  <2> QED
    BY <2>1, <2>2, AlertsAssumption
<1> QED
  BY <1>1, <1>2, <1>3, OtherStep DEF TypeInv, TypeOK, offConsole, watcher, history

LEMMA TypeStep == TypeInv /\ [Next]_vars => TypeInv'
<1> SUFFICES ASSUME TypeInv, [Next]_vars PROVE TypeInv'
  OBVIOUS
<1>1. ASSUME NEW w \in Workers, Take(w) \/ CarryOut(w) PROVE TypeInv'
  BY <1>1, TypeTake, TypeFindSensor, TypeWriteSensor, TypeFindKey, TypeUpdateKeystats,
     TypeAppendKeystats, TypePost, TypeFindAlert, TypeAddAlert, TypeDeleteAlert,
     TypeList, TypeReset, TypeSendAnswer
  DEF CarryOut
<1>2. CASE UNCHANGED vars
  BY <1>2
  DEF vars, workers, watcher, history, TypeInv, TypeOK, InHand, Fitting
<1> QED
  BY <1>1, <1>2, TypeWatch, TypeConsoles DEF Next

\* The tables and everything around them keep their types, and what is counted lies
\* in the page: a write beyond it never counts.
THEOREM TypeCorrect == Spec => []TypeOK
<1>1. Spec => []TypeInv
  BY TypeInit, TypeStep, PTL DEF Spec
<1>2. TypeInv => TypeOK
  BY DEF TypeInv
<1> QED
  BY <1>1, <1>2, PTL
--------------------------------------------------------------------------------
(* The lock: with the program's own semaphore, whoever is in a critical section  *)
(* holds it, and nobody else is in one.                                          *)

Critical == {"writeSensor", "updateKey", "appendKey", "addAlert", "removeAlert"}

LockHeld ==
  semaphore0 = "ours" =>
    /\ lock = 1 => apc # "check" /\ \A w \in Workers : pc[w] \notin Critical
    /\ apc = "check" => \A w \in Workers : pc[w] \notin Critical
    /\ \A v, w \in Workers : pc[v] \in Critical /\ pc[w] \in Critical => v = w

\* A worker's step stays outside the critical sections, enters one or leaves it.
LEMMA WorkerLocks ==
  ASSUME TypeInv, NEW w \in Workers, Take(w) \/ CarryOut(w)
  PROVE  /\ UNCHANGED <<semaphore0, watcher>>
         /\ \A v \in Workers \ {w} : pc'[v] = pc[v]
         /\ \/ lock' = lock /\ pc[w] \notin Critical /\ pc'[w] \notin Critical
            \/ Acquire /\ pc[w] \notin Critical /\ pc'[w] \in Critical
            \/ Release /\ pc[w] \in Critical /\ pc'[w] \notin Critical
<1>1. pc \in [Workers -> Labels]
  BY DEF TypeInv, TypeOK
<1>2. CASE Take(w)
  BY <1>1, <1>2, CommandsFit DEF Take, Goto, Locked, Critical
<1>3. CASE FindSensor(w) \/ FindKey(w) \/ FindAlert(w)
  BY <1>1, <1>3
  DEF FindSensor, FindKey, FindAlert, Search, Goto, Locked, Critical, offWorker
<1>4. CASE WriteSensor(w)
  BY <1>1, <1>4 DEF WriteSensor, Write, Goto, Critical, offWorker
<1>5. CASE UpdateKeystats(w)
  BY <1>1, <1>5 DEF UpdateKeystats, Write, Goto, Critical, offWorker
<1>6. CASE AppendKeystats(w)
  BY <1>1, <1>6 DEF AppendKeystats, Write, Goto, Critical, offWorker
<1>7. CASE AddAlert(w)
  BY <1>1, <1>7 DEF AddAlert, Write, Goto, Critical, offWorker
<1>8. CASE DeleteAlert(w)
  BY <1>1, <1>8 DEF DeleteAlert, Write, Goto, Critical, offWorker
<1>9. CASE Post(w) \/ SendAnswer(w)
  BY <1>1, <1>9 DEF Post, SendAnswer, Finish, Goto, Critical
<1>10. CASE List(w) \/ Reset(w)
  BY <1>1, <1>10 DEF List, Reset, Goto, Locked, Critical, offWorker
<1> QED
  BY <1>2, <1>3, <1>4, <1>5, <1>6, <1>7, <1>8, <1>9, <1>10 DEF CarryOut

LEMMA LockInit == Init => LockHeld
BY DEF Init, LockHeld, Critical

LEMMA LockStep == TypeInv /\ LockHeld /\ [Next]_vars => LockHeld'
<1> SUFFICES ASSUME TypeInv, LockHeld, [Next]_vars PROVE LockHeld'
  OBVIOUS
<1>1. ASSUME NEW w \in Workers, Take(w) \/ CarryOut(w) PROVE LockHeld'
  <2>1. /\ UNCHANGED <<semaphore0, watcher>>
        /\ \A v \in Workers \ {w} : pc'[v] = pc[v]
        /\ \/ lock' = lock /\ pc[w] \notin Critical /\ pc'[w] \notin Critical
           \/ Acquire /\ pc[w] \notin Critical /\ pc'[w] \in Critical
           \/ Release /\ pc[w] \in Critical /\ pc'[w] \notin Critical
    BY <1>1, WorkerLocks
  <2> QED
    BY <2>1 DEF LockHeld, Acquire, Release, watcher
<1>2. ASSUME Watch PROVE LockHeld'
  BY <1>2
  DEF LockHeld, Watch, Wake, BeginCheck, CheckKey, EndCheck, TryWait, Acquire, Release,
      workers
<1>3. ASSUME NEW c \in Consoles, OpenConsole(c) \/ Listen(c) \/ CloseConsole(c)
      PROVE  LockHeld'
  BY <1>3
  DEF LockHeld, OpenConsole, Listen, CloseConsole, offConsole, workers, watcher
<1>4. CASE UNCHANGED vars
  BY <1>4 DEF LockHeld, vars, workers, watcher
<1> QED
  BY <1>1, <1>2, <1>3, <1>4 DEF Next

--------------------------------------------------------------------------------
(* Readings the watcher owes a look *)

Posting == {w \in Workers : pc[w] = "post"}

\* Every owed reading but one has a post coming, or in alert_sem, or taken from it
\* by a watcher that is still to look; the watcher's turn over the keys passes none,
\* since nobody writes meanwhile.
OwedInv ==
  /\ IsFiniteSet(owed)
  /\ semaphore0 = "ours" =>
       /\ \A o \in owed : o[1] < shm.contKey
       /\ apc = "wait" => Cardinality(owed) <= alert_sem + Cardinality(Posting) + 1
       /\ apc = "lock" => Cardinality(owed) <= alert_sem + Cardinality(Posting) + 2
       /\ apc = "check" => \A o \in owed : look <= o[1]
       /\ apc = "trywait" => Cardinality(owed) <= alert_sem + Cardinality(Posting)

LEMMA WorkersFinite ==
  ASSUME NEW S, S \subseteq Workers PROVE IsFiniteSet(S) /\ Cardinality(S) \in Nat
BY AlertsAssumption, FS_Subset, FS_CardinalityType

\* What a worker's step does to the readings owed and to the posts: nothing, a post
\* for a worker that was about to, or a reading for a worker that now is.
LEMMA WorkerOwes ==
  ASSUME TypeInv, NEW w \in Workers, Take(w) \/ CarryOut(w)
  PROVE  /\ shm'.contKey >= shm.contKey
         /\ \A v \in Workers \ {w} : pc'[v] = pc[v]
         /\ \/ /\ owed' = owed /\ alert_sem' = alert_sem
               /\ pc[w] # "post" /\ pc'[w] # "post"
            \/ /\ owed' = owed /\ alert_sem' = alert_sem + 1
               /\ pc[w] = "post" /\ pc'[w] # "post"
            \/ /\ \E e \in 0 .. (shm'.contKey - 1), n \in Nat :
                    owed' \in {owed, owed \union {<<e, n>>}}
               /\ alert_sem' = alert_sem
               /\ pc[w] \in Critical /\ pc[w] # "post" /\ pc'[w] = "post"
<1>1. pc \in [Workers -> Labels] /\ shm \in Tables /\ shm.contKey \in Nat
  BY TableTypes DEF TypeInv, TypeOK
<1>2. \A v \in Workers \ {w} : pc'[v] = pc[v]
  BY WorkerLocks
<1>3. CASE Take(w)
  BY <1>1, <1>2, <1>3, CommandsFit DEF Take, Goto, history
<1>4. CASE FindSensor(w) \/ FindKey(w) \/ FindAlert(w)
  BY <1>1, <1>2, <1>4
  DEF FindSensor, FindKey, FindAlert, Search, Goto, history, offWorker
<1>5. CASE WriteSensor(w)
  <2>1. /\ shm'.contKey = shm.contKey
        /\ owed' = owed /\ alert_sem' = alert_sem
        /\ pc[w] # "post" /\ pc'[w] # "post"
    BY <1>1, <1>5 DEF WriteSensor, Write, Goto, AppendSensor, Tables, offWorker, history
  <2> QED
    BY <1>1, <1>2, <2>1
<1>6. CASE AddAlert(w)
  <2>1. /\ shm'.contKey = shm.contKey
        /\ owed' = owed /\ alert_sem' = alert_sem
        /\ pc[w] # "post" /\ pc'[w] # "post"
    BY <1>1, <1>6 DEF AddAlert, Write, Goto, AppendAlert, Tables, offWorker, history
  <2> QED
    BY <1>1, <1>2, <2>1
<1>7. CASE DeleteAlert(w)
  <2>1. /\ shm'.contKey = shm.contKey
        /\ owed' = owed /\ alert_sem' = alert_sem
        /\ pc[w] # "post" /\ pc'[w] # "post"
    BY <1>1, <1>7
    DEF DeleteAlert, Write, Goto, RemoveAlert, MoveUp, Tables, offWorker, history
  <2> QED
    BY <1>1, <1>2, <2>1
<1>8. ASSUME NEW e \in Nat, NEW t, shm' = t, t.contKey >= shm.contKey, e < t.contKey,
             Counted(w, e), alert_sem' = alert_sem, cmd[w].arg \in Readings,
             pc[w] \in {"updateKey", "appendKey"}, pc'[w] = "post",
             t.contKey \in Nat
      PROVE  \E f \in 0 .. (shm'.contKey - 1), n \in Nat :
               owed' \in {owed, owed \union {<<f, n>>}}
  <2>1. cmd[w].arg.key \in KeyNames /\ applied \in [KeyNames -> Nat]
    BY <1>8, ArgumentTypes DEF TypeInv, TypeOK
  <2>2. applied'[cmd[w].arg.key] \in Nat
    BY <1>8, <2>1 DEF Counted
  <2>3. owed' \in {owed, owed \union {<<e, applied'[cmd[w].arg.key]>>}}
    BY <1>8 DEF Counted
  <2>4. e \in 0 .. (shm'.contKey - 1)
    BY <1>8
  <2> QED
    BY <2>2, <2>3, <2>4
<1>9. CASE UpdateKeystats(w)
  <2> DEFINE t == UpdateKey(shm, at[w], cmd[w].arg.value)
  <2>1. /\ cmd[w].arg \in Readings /\ at[w] \in Nat /\ at[w] < shm.contKey
        /\ pc[w] = "updateKey" /\ alert_sem' = alert_sem
    BY <1>9
    DEF UpdateKeystats, TypeInv, TypeOK, InHand, Fitting, ReadingLabels, offWorker
  <2>2. shm' = t /\ t.contKey = shm.contKey
    BY <1>1, <1>9 DEF UpdateKeystats, Write, UpdateKey, Tables
  <2>3. CASE Divides(shm, at[w])
    <3>1. pc'[w] = "post" /\ Counted(w, at[w])
      BY <1>1, <1>9, <2>3 DEF UpdateKeystats, Write, Goto
    <3> QED
      BY <1>1, <1>2, <1>8, <2>1, <2>2, <3>1 DEF Critical
  <2>4. CASE ~Divides(shm, at[w])
    <3>1. pc'[w] = "dead" /\ owed' = owed
      BY <1>1, <1>9, <2>4 DEF UpdateKeystats, Write, Goto, history
    <3> QED
      BY <1>1, <1>2, <2>1, <2>2, <3>1
  <2> QED
    BY <2>3, <2>4
<1>10. CASE AppendKeystats(w)
  <2> DEFINE r == cmd[w].arg
             t == AppendKey(shm, r.key, r.value)
             a == Key(shm.contKey)
  <2>1. cmd[w].arg \in Readings /\ pc[w] = "appendKey" /\ alert_sem' = alert_sem
    BY <1>10
    DEF AppendKeystats, TypeInv, TypeOK, InHand, Fitting, ReadingLabels, offWorker
  <2>2. CASE AlertsEnd(shm) /\ Fits(a, 14)
    <3>1. pc'[w] = "post" /\ Counted(w, shm.contKey) /\ shm' = t
      BY <1>1, <1>10, <2>2 DEF AppendKeystats, Write, Goto
    <3>2. t.contKey = shm.contKey + 1
      BY <1>1 DEF AppendKey, Tables
    <3> QED
      BY <1>1, <1>2, <1>8, <2>1, <3>1, <3>2 DEF Critical
  <2>3. CASE ~(AlertsEnd(shm) /\ Fits(a, 14))
    <3>1. pc'[w] = "dead" /\ owed' = owed /\ shm'.contKey = shm.contKey
      BY <1>1, <1>10, <2>3 DEF AppendKeystats, Write, Goto, Tables, history
    <3> QED
      BY <1>1, <1>2, <2>1, <3>1
  <2> QED
    BY <2>2, <2>3
<1>11. CASE Post(w) \/ SendAnswer(w)
  BY <1>1, <1>2, <1>11 DEF Post, SendAnswer, Finish, Goto, history
<1>12. CASE List(w) \/ Reset(w)
  BY <1>1, <1>2, <1>12 DEF List, Reset, Goto, offWorker, history
<1> QED
  BY <1>3, <1>4, <1>5, <1>6, <1>7, <1>9, <1>10, <1>11, <1>12 DEF CarryOut

LEMMA OwedInit == Init => OwedInv
<1> SUFFICES ASSUME Init PROVE OwedInv
  OBVIOUS
<1>1. owed = {} /\ IsFiniteSet(owed) /\ Cardinality(owed) = 0
  BY FS_EmptySet DEF Init
<1>2. alert_sem \in Nat /\ Cardinality(Posting) \in Nat /\ apc = "wait"
  BY AlertsAssumption, WorkersFinite DEF Init, Posting
<1> QED
  BY <1>1, <1>2 DEF OwedInv

LEMMA OwedWorker ==
  ASSUME TypeInv, LockHeld, OwedInv, NEW w \in Workers, Take(w) \/ CarryOut(w)
  PROVE  OwedInv'
<1> DEFINE P == Posting
           Q == Posting'
<1>1. /\ IsFiniteSet(P) /\ IsFiniteSet(Q)
      /\ Cardinality(P) \in Nat /\ Cardinality(Q) \in Nat
  <2>1. P \subseteq Workers /\ Q \subseteq Workers
    BY DEF Posting
  <2> HIDE DEF P, Q
  <2> QED
    BY <2>1, WorkersFinite
<1>2. /\ IsFiniteSet(owed) /\ Cardinality(owed) \in Nat
      /\ shm.contKey \in Nat /\ shm'.contKey \in Nat /\ alert_sem \in Nat
      /\ owed \subseteq Nat \X Nat /\ look \in Nat
  <2>1. TypeInv'
    BY TypeStep DEF Next
  <2> QED
    BY <2>1, FS_CardinalityType, TableTypes DEF OwedInv, TypeInv, TypeOK
<1>3. UNCHANGED <<semaphore0, watcher>>
  BY WorkerLocks
<1>4. shm'.contKey >= shm.contKey /\ \A v \in Workers \ {w} : pc'[v] = pc[v]
  BY WorkerOwes
<1>5. CASE /\ owed' = owed /\ alert_sem' = alert_sem
           /\ pc[w] # "post" /\ pc'[w] # "post"
  <2>1. P = Q
    BY <1>4, <1>5 DEF Posting
  <2>2. Cardinality(P) = Cardinality(Q)
    BY <2>1
  <2> HIDE DEF P, Q
  <2> QED
    BY <1>1, <1>2, <1>3, <1>4, <1>5, <2>2 DEF OwedInv, watcher, P, Q
<1>6. CASE /\ owed' = owed /\ alert_sem' = alert_sem + 1
           /\ pc[w] = "post" /\ pc'[w] # "post"
  <2>1. Q = P \ {w} /\ w \in P
    BY <1>4, <1>6 DEF Posting
  <2> HIDE DEF P, Q
  <2>2. Cardinality(Q) = Cardinality(P) - 1
    BY <1>1, <2>1, FS_RemoveElement
  <2> QED
    BY <1>1, <1>2, <1>3, <1>4, <1>6, <2>2 DEF OwedInv, watcher, P, Q
<1>7. ASSUME NEW e \in 0 .. (shm'.contKey - 1), NEW n \in Nat,
             owed' \in {owed, owed \union {<<e, n>>}}, alert_sem' = alert_sem,
             pc[w] \in Critical, pc[w] # "post", pc'[w] = "post"
      PROVE  OwedInv'
  <2>1. Q = P \union {w} /\ w \notin P
    BY <1>4, <1>7 DEF Posting
  <2> HIDE DEF P, Q
  <2>2. Cardinality(Q) = Cardinality(P) + 1
    BY <1>1, <2>1, FS_AddElement
  <2>3. /\ IsFiniteSet(owed') /\ Cardinality(owed') \in Nat
        /\ Cardinality(owed') <= Cardinality(owed) + 1
    <3> DEFINE more == owed \union {<<e, n>>}
    <3>1. owed' \in {owed, more}
      BY <1>7
    <3>2. /\ IsFiniteSet(more)
          /\ Cardinality(more) \in {Cardinality(owed), Cardinality(owed) + 1}
      BY <1>2, FS_AddElement
    <3> HIDE DEF more
    <3> QED
      BY <1>2, <3>1, <3>2
  <2>4. semaphore0 = "ours" => apc # "check"
    BY <1>7 DEF LockHeld
  <2>5. (\A o \in owed : o[1] < shm.contKey) => \A o \in owed' : o[1] < shm'.contKey
    BY <1>2, <1>4, <1>7
  <2> QED
    BY <1>1, <1>2, <1>3, <1>7, <2>2, <2>3, <2>4, <2>5 DEF OwedInv, watcher, P, Q
<1> QED
  BY <1>5, <1>6, <1>7, WorkerOwes

LEMMA OwedWatch == ASSUME TypeInv, OwedInv, Watch PROVE OwedInv'
<1> DEFINE p == Cardinality(Posting)
           n == Cardinality(owed)
<1>1. p \in Nat /\ p' = p /\ n \in Nat /\ semaphore0' = semaphore0
  <2>1. UNCHANGED workers /\ semaphore0' = semaphore0
    BY DEF Watch, Wake, BeginCheck, CheckKey, EndCheck, TryWait
  <2>2. Posting' = Posting
    BY <2>1 DEF Posting, workers
  <2> QED
    BY <2>1, <2>2, WorkersFinite, FS_CardinalityType DEF OwedInv, Posting
<1>2. /\ alert_sem \in Nat /\ look \in Nat /\ shm.contKey \in Nat
      /\ owed \subseteq Nat \X Nat
  BY TableTypes DEF TypeInv, TypeOK
<1>3. CASE Wake
  BY <1>1, <1>2, <1>3 DEF Wake, OwedInv, history
<1>4. CASE BeginCheck
  BY <1>1, <1>2, <1>4 DEF BeginCheck, OwedInv, history
<1>5. CASE CheckKey
  <2>1. owed' = {o \in owed : o[1] # look} /\ look' = look + 1 /\ apc' = "check"
    BY <1>5 DEF CheckKey
  <2>2. IsFiniteSet(owed')
    BY <2>1, FS_Subset DEF OwedInv
  <2>3. shm'.contKey = shm.contKey
    <3>1. TypeInv'
      BY TypeStep DEF Next
    <3>2. shm \in Tables
      BY DEF TypeInv, TypeOK
    <3> QED
      BY <1>5, <3>2 DEF CheckKey, Mark, Tables
  <2>4. apc = "check"
    BY <1>5 DEF CheckKey
  <2> QED
    BY <1>1, <1>2, <2>1, <2>2, <2>3, <2>4 DEF OwedInv
<1>6. CASE EndCheck
  <2>1. /\ UNCHANGED <<shm, owed, alert_sem>>
        /\ apc = "check" /\ apc' = "trywait" /\ look >= shm.contKey
    BY <1>6 DEF EndCheck, history
  <2>2. semaphore0 = "ours" => owed = {}
    BY <1>2, <2>1 DEF OwedInv
  <2>3. semaphore0 = "ours" => n = 0
    BY <2>2, FS_EmptySet
  <2> QED
    BY <1>1, <1>2, <2>1, <2>3 DEF OwedInv
<1>7. CASE TryWait
  BY <1>1, <1>2, <1>7 DEF TryWait, OwedInv, history
<1> QED
  BY <1>3, <1>4, <1>5, <1>6, <1>7 DEF Watch

LEMMA OwedStep == TypeInv /\ LockHeld /\ OwedInv /\ [Next]_vars => OwedInv'
<1> SUFFICES ASSUME TypeInv, LockHeld, OwedInv, [Next]_vars PROVE OwedInv'
  OBVIOUS
<1>1. ASSUME NEW c \in Consoles, OpenConsole(c) \/ Listen(c) \/ CloseConsole(c)
      PROVE  OwedInv'
  BY <1>1
  DEF OpenConsole, Listen, CloseConsole, offConsole, workers, watcher, history,
      OwedInv, Posting
<1>2. CASE UNCHANGED vars
  BY <1>2 DEF vars, workers, watcher, history, OwedInv, Posting
<1> QED
  BY <1>1, <1>2, OwedWorker, OwedWatch DEF Next

\* sem_trywait may throw away the post of a reading the watcher has not looked at,
\* but never of two: with the program's own semaphore, when nobody is about to post
\* and the watcher sleeps, it owes a look to one reading at most.
THEOREM OneOwedAtRest == Spec => []AtMostOneOwed
<1>1. Init => TypeInv /\ LockHeld /\ OwedInv
  BY TypeInit, LockInit, OwedInit
<1>2. TypeInv /\ LockHeld /\ OwedInv /\ [Next]_vars => (TypeInv /\ LockHeld /\ OwedInv)'
  BY TypeStep, LockStep, OwedStep
<1>3. OwedInv => AtMostOneOwed
  <2> SUFFICES ASSUME OwedInv, semaphore0 = "ours", apc = "wait", alert_sem = 0,
                      \A w \in Workers : pc[w] # "post"
               PROVE  Cardinality(owed) <= 1
    BY DEF AtMostOneOwed
  <2>1. Posting = {}
    BY DEF Posting
  <2>2. Cardinality(Posting) = 0
    BY <2>1, FS_EmptySet
  <2> QED
    BY <2>2 DEF OwedInv
<1> QED
  BY <1>1, <1>2, <1>3, PTL DEF Spec

================================================================================
