--------------------------- MODULE IotContentsProofs ---------------------------
(***************************************************************************)
(* What the tables of IotAlerts hold: the counts of the readings, the      *)
(* marks of the keys the watcher has looked at, and the alerts.  The       *)
(* theorems are about a program with its own semaphore, as long as no      *)
(* table has run into another.                                             *)
(***************************************************************************)
EXTENDS IotAlertsProofs

--------------------------------------------------------------------------------
(* Search and write are one critical section: what the search has found is still *)
(* so when the worker writes.                                                    *)

Found(w) ==
  LET arg == cmd[w].arg IN
    /\ pc[w] = "updateKey" => at[w] \in KeysNamed(shm, arg.key)
    /\ pc[w] = "appendKey" => KeysNamed(shm, arg.key) = {}
    /\ pc[w] = "addAlert" => AlertsNamed(shm, arg.id) = {}
    /\ pc[w] = "removeAlert" => at[w] \in AlertsNamed(shm, arg.id)

StillFound ==
  semaphore0 = "ours" => shm.contAlert >= 0 /\ \A w \in Workers : Found(w)

\* Only a worker in a critical section changes the tables.
LEMMA TablesKept ==
  ASSUME NEW w \in Workers, Take(w) \/ CarryOut(w), pc[w] \notin Critical
  PROVE  shm' = shm
BY DEF Take, CarryOut, FindSensor, WriteSensor, FindKey, UpdateKeystats, AppendKeystats,
       Post, FindAlert, AddAlert, DeleteAlert, List, Reset, SendAnswer, Critical

\* The other workers' commands and searches stay as they are.
LEMMA OthersKept ==
  ASSUME TypeInv, NEW w \in Workers, Take(w) \/ CarryOut(w), NEW v \in Workers \ {w}
  PROVE  cmd'[v] = cmd[v] /\ at'[v] = at[v]
<1>1. cmd \in [Workers -> Commands \union {NoCommand}] /\ at \in [Workers -> Nat]
  BY DEF TypeInv, TypeOK
<1> QED
  BY <1>1
  DEF Take, CarryOut, FindSensor, WriteSensor, FindKey, UpdateKeystats, AppendKeystats,
      Post, FindAlert, AddAlert, DeleteAlert, List, Reset, SendAnswer, Search, Finish

LEMMA FoundNow ==
  ASSUME TypeInv, NEW w \in Workers, Take(w) \/ CarryOut(w), pc[w] \notin Critical
  PROVE  Found(w)'
<1>1. pc \in [Workers -> Labels] /\ at \in [Workers -> Nat] /\ shm' = shm
  BY TablesKept DEF TypeInv, TypeOK
<1>2. CASE FindKey(w)
  <2> DEFINE S == KeysNamed(shm, cmd[w].arg.key)
  <2>1. Search(w, S, "updateKey", "appendKey") /\ cmd' = cmd
    BY <1>2 DEF FindKey
  <2>2. S \subseteq Nat
    BY TableTypes DEF TypeInv, TypeOK, KeysNamed
  <2>3. KeysNamed(shm', cmd'[w].arg.key) = S
    BY <1>1, <2>1
  <2> HIDE DEF S
  <2>4. S # {} => First(S) \in S
    BY <2>2, FirstIsLeast
  <2>5. \/ pc'[w] = "updateKey" /\ at'[w] \in S
        \/ pc'[w] = "appendKey" /\ S = {}
    BY <1>1, <2>1, <2>4 DEF Search, Goto
  <2> QED
    BY <2>3, <2>5 DEF Found
<1>3. CASE FindAlert(w)
  <2> DEFINE S == AlertsNamed(shm, cmd[w].arg.id)
  <2>1. /\ \/ Goto(w, "answer")
           \/ Search(w, S, "removeAlert", "addAlert")
        /\ cmd' = cmd
    BY <1>3 DEF FindAlert
  <2>2. S \subseteq Nat
    BY TableTypes DEF TypeInv, TypeOK, AlertsNamed
  <2>3. AlertsNamed(shm', cmd'[w].arg.id) = S
    BY <1>1, <2>1
  <2> HIDE DEF S
  <2>4. S # {} => First(S) \in S
    BY <2>2, FirstIsLeast
  <2>5. \/ pc'[w] = "answer"
        \/ pc'[w] = "removeAlert" /\ at'[w] \in S
        \/ pc'[w] = "addAlert" /\ S = {}
    BY <1>1, <2>1, <2>4 DEF Search, Goto
  <2> QED
    BY <2>3, <2>5 DEF Found
<1>4. CASE ~FindKey(w) /\ ~FindAlert(w)
  <2>1. pc'[w] \in {"writeSensor"} \/ pc'[w] \notin Critical
    BY <1>1, <1>4, CommandsFit
    DEF Take, CarryOut, FindSensor, WriteSensor, UpdateKeystats, AppendKeystats,
        Post, AddAlert, DeleteAlert, List, Reset, SendAnswer, Finish, Goto, Critical
  <2>2. pc'[w] \notin {"updateKey", "appendKey", "addAlert", "removeAlert"}
    BY <2>1 DEF Critical
  <2> QED
    BY <2>2 DEF Found
<1> QED
  BY <1>2, <1>3, <1>4

LEMMA FoundWorker ==
  ASSUME TypeInv, LockHeld, StillFound, NEW w \in Workers, Take(w) \/ CarryOut(w)
  PROVE  StillFound'
<1> SUFFICES ASSUME semaphore0 = "ours"
             PROVE  shm'.contAlert >= 0 /\ \A v \in Workers : Found(v)'
  BY WorkerLocks DEF StillFound
<1>1. \A v \in Workers \ {w} : pc'[v] = pc[v] /\ cmd'[v] = cmd[v] /\ at'[v] = at[v]
  BY WorkerLocks, OthersKept
<1>2. CASE pc[w] \notin Critical
  <2>1. shm' = shm
    BY <1>2, TablesKept
  <2>2. ASSUME NEW v \in Workers \ {w} PROVE Found(v)'
    BY <1>1, <2>1 DEF StillFound, Found
  <2> QED
    BY <1>2, <2>1, <2>2, FoundNow DEF StillFound
<1>3. CASE pc[w] \in Critical
  <2>1. pc'[w] \notin Critical
    BY <1>3, WorkerLocks
  <2>2. \A v \in Workers : pc'[v] \notin Critical
    BY <1>1, <1>3, <2>1 DEF LockHeld
  <2>3. \A v \in Workers : Found(v)'
    BY <2>2 DEF Found, Critical
  <2>4. shm \in Tables /\ InPage(shm) /\ shm.contAlert \in Int /\ shm.contAlert >= 0
    BY TableTypes DEF TypeInv, TypeOK, StillFound
  <2>5. CASE DeleteAlert(w)
    <3>1. at[w] \in AlertsNamed(shm, cmd[w].arg.id)
      BY <2>5 DEF DeleteAlert, StillFound, Found
    <3>2. shm.contAlert > 0
      BY <2>4, <3>1 DEF AlertsNamed
    <3>3. shm'.contAlert \in {shm.contAlert, shm.contAlert - 1}
      BY <2>4, <2>5 DEF DeleteAlert, Write, RemoveAlert, MoveUp, Tables
    <3> QED
      BY <2>3, <2>4, <3>2, <3>3
  <2>6. CASE AddAlert(w)
    <3>1. shm'.contAlert \in {shm.contAlert, shm.contAlert + 1}
      BY <2>4, <2>6 DEF AddAlert, Write, AppendAlert, Tables
    <3> QED
      BY <2>3, <2>4, <3>1
  <2>7. CASE WriteSensor(w)
    <3>1. shm'.contAlert = shm.contAlert
      BY <2>4, <2>7 DEF WriteSensor, Write, AppendSensor, Tables
    <3> QED
      BY <2>3, <2>4, <3>1
  <2>8. CASE UpdateKeystats(w)
    <3>1. shm'.contAlert = shm.contAlert
      BY <2>4, <2>8 DEF UpdateKeystats, Write, UpdateKey, Tables
    <3> QED
      BY <2>3, <2>4, <3>1
  <2>9. CASE AppendKeystats(w)
    <3>1. shm'.contAlert = shm.contAlert
      BY <2>4, <2>9 DEF AppendKeystats, Write, AppendKey, Tables
    <3> QED
      BY <2>3, <2>4, <3>1
  <2> QED
    BY <1>3, <2>5, <2>6, <2>7, <2>8, <2>9
    DEF Critical, Take, CarryOut, FindSensor, FindKey, Post, FindAlert, List, Reset,
        SendAnswer
<1> QED
  BY <1>2, <1>3

LEMMA FoundStep == TypeInv /\ LockHeld /\ StillFound /\ [Next]_vars => StillFound'
<1> SUFFICES ASSUME TypeInv, LockHeld, StillFound, [Next]_vars PROVE StillFound'
  OBVIOUS
<1>1. CASE CheckKey
  <2>1. UNCHANGED <<workers, semaphore0>> /\ apc = "check"
    BY <1>1 DEF CheckKey
  <2>2. semaphore0 = "ours" => \A w \in Workers : pc'[w] \notin Critical
    BY <2>1 DEF LockHeld, workers
  <2>3. shm'.contAlert = shm.contAlert
    BY <1>1 DEF CheckKey, Mark, Tables, TypeInv, TypeOK
  <2> QED
    BY <2>1, <2>2, <2>3 DEF StillFound, Found, Critical
<1>2. ASSUME UNCHANGED <<shm, workers, semaphore0>> PROVE StillFound'
  BY <1>2 DEF StillFound, Found, workers
<1>3. CASE Wake \/ BeginCheck \/ EndCheck \/ TryWait
  BY <1>2, <1>3 DEF Wake, BeginCheck, EndCheck, TryWait
<1>4. ASSUME NEW c \in Consoles, OpenConsole(c) \/ Listen(c) \/ CloseConsole(c)
      PROVE  StillFound'
  BY <1>2, <1>4 DEF OpenConsole, Listen, CloseConsole, offConsole
<1>5. CASE UNCHANGED vars
  BY <1>2, <1>5 DEF vars
<1> QED
  BY <1>1, <1>3, <1>4, <1>5, FoundWorker DEF Next, Watch

--------------------------------------------------------------------------------
(* The sensor of a reading is in its table before the key, and the first key moves *)
(* the sensor table onto the key table.  So where there is a sensor, the page goes *)
(* further than keys and alerts: else the first sensor would have faulted.         *)

SensorFirst ==
  /\ shm.sensorList = IF shm.contKey > 0 THEN Key(0) ELSE OwnSensors
  /\ shm.contKey > 0 => shm.contSen > 0
  /\ shm.contSen > 0 => OwnSensors + 10 <= PageWords
  /\ \A w \in Workers :
       pc[w] \in {"findKey", "updateKey", "appendKey"} => shm.contSen > 0

\* What a worker's step does to the numbers of sensors and keys.
LEMMA Counters ==
  ASSUME TypeInv, NEW w \in Workers, Take(w) \/ CarryOut(w)
  PROVE  \/ /\ shm'.contSen = shm.contSen /\ shm'.contKey = shm.contKey
            /\ shm'.sensorList = shm.sensorList
            /\ \/ pc'[w] = "findKey" /\ shm.contSen > 0
               \/ pc'[w] \in {"updateKey", "appendKey"} /\ pc[w] = "findKey"
               \/ pc'[w] \notin {"findKey", "updateKey", "appendKey"}
         \/ /\ shm'.contSen = shm.contSen + 1 /\ shm'.contKey = shm.contKey
            /\ shm'.sensorList = shm.sensorList
            /\ pc[w] = "writeSensor" /\ pc'[w] = "findKey"
            /\ Fits(Sensor(shm, shm.contSen), 10)
         \/ /\ shm'.contSen = shm.contSen /\ shm'.contKey = shm.contKey + 1
            /\ shm'.sensorList = IF shm.contKey = 0 THEN Key(0) ELSE shm.sensorList
            /\ pc[w] = "appendKey" /\ pc'[w] = "post"
<1>1. /\ pc \in [Workers -> Labels] /\ shm \in Tables
      /\ shm.contSen \in Nat /\ shm.contKey \in Nat
  BY TableTypes DEF TypeInv, TypeOK
<1>2. CASE Take(w)
  BY <1>1, <1>2, CommandsFit DEF Take, Goto
<1>3. CASE FindSensor(w)
  <2>1. CASE SensorsNamed(shm, cmd[w].arg.sensor) # {}
    <3>1. shm.contSen > 0
      BY <1>1, <2>1 DEF SensorsNamed
    <3> QED
      BY <1>1, <1>3, <2>1, <3>1 DEF FindSensor, Goto
  <2>2. CASE SensorsNamed(shm, cmd[w].arg.sensor) = {}
    BY <1>1, <1>3, <2>2 DEF FindSensor, Goto
  <2> QED
    BY <2>1, <2>2
<1>4. CASE FindKey(w)
  BY <1>1, <1>4 DEF FindKey, Search, Goto
<1>5. CASE FindAlert(w)
  BY <1>1, <1>5 DEF FindAlert, Search, Goto
<1>6. CASE WriteSensor(w)
  BY <1>1, <1>6 DEF WriteSensor, Write, Goto, AppendSensor, Tables
<1>7. CASE UpdateKeystats(w)
  BY <1>1, <1>7 DEF UpdateKeystats, Write, Goto, UpdateKey, Tables
<1>8. CASE AppendKeystats(w)
  BY <1>1, <1>8 DEF AppendKeystats, Write, Goto, AppendKey, Tables
<1>9. CASE AddAlert(w)
  BY <1>1, <1>9 DEF AddAlert, Write, Goto, AppendAlert, Tables
<1>10. CASE DeleteAlert(w)
  BY <1>1, <1>10 DEF DeleteAlert, Write, Goto, RemoveAlert, MoveUp, Tables
<1>11. CASE Post(w) \/ List(w) \/ Reset(w) \/ SendAnswer(w)
  BY <1>1, <1>11 DEF Post, List, Reset, SendAnswer, Finish, Goto
<1> QED
  BY <1>2, <1>3, <1>4, <1>5, <1>6, <1>7, <1>8, <1>9, <1>10, <1>11 DEF CarryOut

LEMMA SensorFirstInit == Init => SensorFirst
BY DEF Init, EmptyTables, SensorFirst

LEMMA SensorFirstStep == TypeInv /\ SensorFirst /\ [Next]_vars => SensorFirst'
<1> SUFFICES ASSUME TypeInv, SensorFirst, [Next]_vars PROVE SensorFirst'
  OBVIOUS
<1>1. ASSUME NEW w \in Workers, Take(w) \/ CarryOut(w) PROVE SensorFirst'
  <2>1. \A v \in Workers \ {w} : pc'[v] = pc[v]
    BY <1>1, WorkerLocks
  <2>2. /\ shm.contSen \in Nat /\ shm.contKey \in Nat
        /\ OwnSensors \in Nat
        /\ shm.contKey = 0 => shm.sensorList = OwnSensors
    BY TableTypes, TablesAssumption
    DEF TypeInv, TypeOK, SensorFirst, OwnSensors
  <2>3. ASSUME Fits(Sensor(shm, shm.contSen), 10), shm.contSen = 0
        PROVE  OwnSensors + 10 <= PageWords
    <3>1. Sensor(shm, shm.contSen) = OwnSensors
      BY <2>2, <2>3 DEF Sensor, SensorFirst
    <3> QED
      BY <2>2, <2>3, <3>1, TablesAssumption DEF Fits, Words
  <2> QED
    BY <1>1, <2>1, <2>2, <2>3, Counters DEF SensorFirst
<1>2. ASSUME UNCHANGED workers,
             shm'.contSen = shm.contSen, shm'.contKey = shm.contKey,
             shm'.sensorList = shm.sensorList
      PROVE  SensorFirst'
  BY <1>2 DEF SensorFirst, workers
<1>3. CASE CheckKey
  <2>1. /\ shm'.contSen = shm.contSen /\ shm'.contKey = shm.contKey
        /\ shm'.sensorList = shm.sensorList
    BY <1>3 DEF CheckKey, Mark, Tables, TypeInv, TypeOK
  <2> QED
    BY <1>2, <1>3, <2>1 DEF CheckKey
<1>4. CASE Wake \/ BeginCheck \/ EndCheck \/ TryWait
  BY <1>2, <1>4 DEF Wake, BeginCheck, EndCheck, TryWait
<1>5. ASSUME NEW c \in Consoles, OpenConsole(c) \/ Listen(c) \/ CloseConsole(c)
      PROVE  SensorFirst'
  BY <1>2, <1>5 DEF OpenConsole, Listen, CloseConsole, offConsole
<1>6. CASE UNCHANGED vars
  BY <1>2, <1>6 DEF vars
<1> QED
  BY <1>1, <1>3, <1>4, <1>5, <1>6 DEF Next, Watch

--------------------------------------------------------------------------------
(* The keys *)

Name(e) == shm.word[Key(e)]
Entries == 0 .. (shm.contKey - 1)

\* An entry no sensor lies on has counted the readings of its key, and has raised an
\* alert for each of them at most; not yet for the last one if it is not verified.
EntryTrue(e) ==
  /\ ~Overlaid(shm, count(Key(e)))
       => shm.word[count(Key(e))] = applied[Name(e)]
  /\ ~Overlaid(shm, verified(Key(e)))
       => raised[Name(e)] + (IF shm.word[verified(Key(e))] = 0 THEN 1 ELSE 0)
            <= applied[Name(e)]

KeyBook ==
  semaphore0 = "ours" /\ NamesIntact(shm) =>
    /\ \A e \in Entries : Name(e) \in KeyNames
    /\ \A d, e \in Entries : Name(d) = Name(e) => d = e
    /\ \A k \in KeyNames :
         (\A e \in Entries : Name(e) # k) => applied[k] = 0 /\ raised[k] = 0
    /\ \A e \in Entries : EntryTrue(e)

LEMMA BookInit == Init => KeyBook
<1> SUFFICES ASSUME Init PROVE KeyBook
  OBVIOUS
<1>1. Entries = {} /\ \A k \in KeyNames : applied[k] = 0 /\ raised[k] = 0
  BY DEF Init, EmptyTables, Entries
<1> QED
  BY <1>1 DEF KeyBook

\* A step that leaves the names, the counts and the marks alone, but for those a
\* sensor now lies on.
LEMMA BookKept ==
  ASSUME KeyBook, UNCHANGED <<semaphore0, applied, raised>>,
         shm'.contKey = shm.contKey,
         NamesIntact(shm') =>
           /\ NamesIntact(shm)
           /\ \A e \in Entries :
                /\ shm'.word[Key(e)] = shm.word[Key(e)]
                /\ \A x \in {count(Key(e)), verified(Key(e))} :
                     ~Overlaid(shm', x) => /\ ~Overlaid(shm, x)
                                           /\ shm'.word[x] = shm.word[x]
  PROVE  KeyBook'
<1>1. Entries' = Entries
  BY DEF Entries
<1> SUFFICES ASSUME semaphore0 = "ours", NamesIntact(shm')
             PROVE  /\ \A e \in Entries : Name(e)' \in KeyNames
                    /\ \A d, e \in Entries : Name(d)' = Name(e)' => d = e
                    /\ \A k \in KeyNames :
                         (\A e \in Entries : Name(e)' # k)
                           => applied[k] = 0 /\ raised[k] = 0
                    /\ \A e \in Entries : EntryTrue(e)'
  BY <1>1 DEF KeyBook
<1>2. \A e \in Entries : Name(e)' = Name(e)
  BY DEF Name
<1>3. ASSUME NEW e \in Entries PROVE EntryTrue(e)'
  <2>1. EntryTrue(e) /\ Name(e)' = Name(e)
    BY <1>2 DEF KeyBook
  <2>2. \A x \in {count(Key(e)), verified(Key(e))} :
          ~Overlaid(shm', x) => ~Overlaid(shm, x) /\ shm'.word[x] = shm.word[x]
    OBVIOUS
  <2> QED
    BY <2>1, <2>2 DEF EntryTrue
<1> QED
  BY <1>2, <1>3 DEF KeyBook

LEMMA KeyWords ==
  ASSUME TypeInv, NEW e \in Entries
  PROVE  /\ Key(e) \in Words /\ count(Key(e)) \in Words /\ verified(Key(e)) \in Words
         /\ verified(Key(e)) < Key(shm.contKey) - 2
         /\ Key(e) < Key(shm.contKey) - 2 /\ count(Key(e)) < Key(shm.contKey) - 2
<1>1. /\ shm \in Tables /\ InPage(shm) /\ shm.contKey \in Nat
      /\ e \in 0 .. (shm.contKey - 1)
  BY TableTypes DEF TypeInv, TypeOK, Entries
<1>2. \A o \in 0 .. 13 : Key(e) + o \in Words
  BY <1>1, KeyInPage
<1>3. Key(e) + 0 \in Words /\ Key(e) + 12 \in Words /\ Key(e) + 13 \in Words
  BY <1>2
<1>4. Key(e) \in Int
  BY <1>1 DEF Key
<1> QED
  BY <1>1, <1>3, <1>4 DEF Key, count, verified

\* A step that writes behind the keys only.
LEMMA BookBeyond ==
  ASSUME TypeInv, KeyBook, UNCHANGED <<semaphore0, applied, raised>>,
         shm'.contKey = shm.contKey, shm'.contSen = shm.contSen,
         shm'.sensorList = shm.sensorList,
         semaphore0 = "ours" /\ shm.contKey <= maxkeys =>
           \A x \in Words : x < Key(shm.contKey) - 2 => shm'.word[x] = shm.word[x]
  PROVE  KeyBook'
<1>1. \A x : Overlaid(shm', x) <=> Overlaid(shm, x)
  BY DEF Overlaid
<1>2. NamesIntact(shm') <=> NamesIntact(shm)
  BY <1>1 DEF NamesIntact
<1>3. CASE semaphore0 = "ours"
  <2>1. ASSUME NamesIntact(shm'), NEW e \in Entries
        PROVE  /\ shm'.word[Key(e)] = shm.word[Key(e)]
               /\ \A x \in {count(Key(e)), verified(Key(e))} :
                    shm'.word[x] = shm.word[x]
    <3>1. shm.contKey <= maxkeys
      BY <2>1 DEF NamesIntact
    <3> QED
      BY <1>3, <3>1, KeyWords
  <2> QED
    BY <1>1, <1>2, <2>1, BookKept
<1>4. CASE semaphore0 # "ours"
  BY <1>4 DEF KeyBook
<1> QED
  BY <1>3, <1>4

LEMMA BookAddAlert ==
  ASSUME TypeInv, StillFound, KeyBook, NEW w \in Workers, AddAlert(w) PROVE KeyBook'
<1> DEFINE alert == cmd[w].arg
           user == cmd[w].user
           a == Alert(shm.contAlert)
<1>1. /\ pc[w] = "addAlert" /\ UNCHANGED <<semaphore0, applied, raised>>
      /\ shm' = IF Fits(a, 19) THEN AppendAlert(shm, alert, user)
                ELSE [shm EXCEPT !.word = PutAlert(@, a, alert, user)]
  BY DEF AddAlert, Write, offWorker, history
<1>2. /\ shm \in Tables /\ InPage(shm) /\ shm.word \in [Words -> Int]
      /\ shm.contKey \in Nat /\ shm.contAlert \in Int
  BY TableTypes DEF TypeInv, TypeOK
<1>3. user \in Int /\ alert \in [id : Int, key : Int, min : Int, max : Int]
  <2>1. alert \in Alerts /\ user \in Consoles
    BY <1>1 DEF TypeInv, InHand, Fitting, AlertLabels
  <2> QED
    BY <2>1, ArgumentTypes
<1>4. a \in Int
  BY <1>2, TablesAssumption DEF Alert
<1>5. /\ shm'.contKey = shm.contKey /\ shm'.contSen = shm.contSen
      /\ shm'.sensorList = shm.sensorList
  BY <1>1, <1>2 DEF AppendAlert, Tables
<1>6. ASSUME semaphore0 = "ours", shm.contKey <= maxkeys,
             NEW x \in Words, x < Key(shm.contKey) - 2
      PROVE  shm'.word[x] = shm.word[x]
  <2>1. x < a - 2
    <3>1. shm.contAlert >= 0
      BY <1>6 DEF StillFound
    <3>2. Key(shm.contKey) <= a /\ Key(shm.contKey) \in Int
      BY <1>2, <1>6, <3>1, TablesAssumption DEF Key, Alert
    <3> HIDE DEF a
    <3> QED
      BY <1>4, <1>6, <3>2 DEF Words
  <2>2. CASE Fits(a, 19)
    <3>1. shm' = AppendAlert(shm, alert, user)
      BY <1>1, <2>2
    <3> HIDE DEF alert, user
    <3>2. AppendAlert(shm, alert, user).word[x] =
            IF shm.contAlert # 1 /\ x = a - 2 THEN PointerLow + 4 * a
            ELSE IF shm.contAlert # 1 /\ x = a - 1 THEN PointerHigh
            ELSE IF x = a THEN alert.id ELSE IF x = a + 8 THEN alert.key
            ELSE IF x = a + 16 THEN alert.min ELSE IF x = a + 17 THEN alert.max
            ELSE IF x = a + 18 THEN user ELSE shm.word[x]
      BY <1>2, <1>3, AppendAlertWords
    <3> HIDE DEF a
    <3> QED
      BY <1>4, <2>1, <3>1, <3>2 DEF Words
  <2>3. CASE ~Fits(a, 19)
    <3> HIDE DEF alert, user, a
    <3>1. shm'.word = PutAlert(shm.word, a, alert, user)
      BY <1>1, <1>2, <2>3 DEF Tables
    <3>2. PutAlert(shm.word, a, alert, user)[x] =
            IF x = a THEN alert.id ELSE IF x = a + 8 THEN alert.key
            ELSE IF x = a + 16 THEN alert.min ELSE IF x = a + 17 THEN alert.max
            ELSE IF x = a + 18 THEN user ELSE shm.word[x]
      BY <1>2, <1>3, <1>4, PutAlertWords
    <3> QED
      BY <1>4, <2>1, <3>1, <3>2 DEF Words
  <2> QED
    BY <2>2, <2>3
<1> QED
  BY <1>1, <1>5, <1>6, BookBeyond

LEMMA BookDeleteAlert ==
  ASSUME TypeInv, StillFound, KeyBook, NEW w \in Workers, DeleteAlert(w) PROVE KeyBook'
<1>1. /\ pc[w] = "removeAlert" /\ UNCHANGED <<semaphore0, applied, raised>>
      /\ shm' \in {RemoveAlert(shm, at[w]), MoveUp(shm, at[w])}
  BY DEF DeleteAlert, Write, offWorker, history
<1>2. /\ shm \in Tables /\ InPage(shm) /\ shm.word \in [Words -> Int]
      /\ shm.contKey \in Nat /\ shm.contAlert \in Int /\ at[w] \in Nat
  BY TableTypes DEF TypeInv, TypeOK
<1>3. /\ shm'.contKey = shm.contKey /\ shm'.contSen = shm.contSen
      /\ shm'.sensorList = shm.sensorList
  BY <1>1, <1>2 DEF RemoveAlert, MoveUp, Tables
<1>4. ASSUME semaphore0 = "ours", shm.contKey <= maxkeys,
             NEW x \in Words, x < Key(shm.contKey) - 2
      PROVE  shm'.word[x] = shm.word[x]
  <2>1. shm.contAlert > 0
    BY <1>1, <1>2, <1>4 DEF StillFound, Found, AlertsNamed
  <2>2. x < Alert(at[w]) /\ ~InLastAlert(shm, x)
    <3>1. x \in Int /\ x < 16 * maxkeys /\ maxkeys \in Nat
      BY <1>2, <1>4, TablesAssumption DEF Key, Words
    <3>2. x < 16 * maxkeys + 22 * at[w]
      BY <1>2, <3>1
    <3>3. x < 16 * maxkeys + 22 * (shm.contAlert - 1)
      BY <1>2, <2>1, <3>1
    <3> QED
      BY <1>2, <3>1, <3>2, <3>3 DEF Alert, InLastAlert
  <2>3. Moved(shm, at[w], x) = shm.word[x]
    BY <1>2, <2>2, TablesAssumption DEF Moved, Alert, Words
  <2> QED
    BY <1>1, <1>2, <2>2, <2>3, RemoveAlertWords
<1> QED
  BY <1>1, <1>3, <1>4, BookBeyond

LEMMA BookWriteSensor ==
  ASSUME TypeInv, SensorFirst, KeyBook, NEW w \in Workers, WriteSensor(w)
  PROVE  KeyBook'
<1> DEFINE s == cmd[w].arg.sensor
           a == Sensor(shm, shm.contSen)
<1>1. /\ pc[w] = "writeSensor" /\ UNCHANGED <<semaphore0, applied, raised>>
      /\ shm' = IF KeysEnd(shm) /\ Fits(a, 10) THEN AppendSensor(shm, s)
                ELSE IF KeysEnd(shm) THEN [shm EXCEPT !.word = PutSensor(@, a, s)]
                ELSE shm
  BY DEF WriteSensor, Write, offWorker, history
<1>2. /\ shm \in Tables /\ InPage(shm) /\ shm.word \in [Words -> Int]
      /\ shm.contKey \in Nat /\ shm.contSen \in Nat /\ shm.sensorList \in Nat
  BY TableTypes DEF TypeInv, TypeOK
<1>3. s \in Int
  <2>1. cmd[w].arg \in Readings
    BY <1>1 DEF TypeInv, InHand, Fitting, ReadingLabels
  <2> QED
    BY <2>1, ArgumentTypes
<1>4. a \in Nat
  BY <1>2 DEF Sensor
<1> HIDE DEF s
<1>5. CASE KeysEnd(shm) /\ ~Fits(a, 10)
  <2>1. /\ shm'.word = PutSensor(shm.word, a, s)
        /\ shm'.contKey = shm.contKey /\ shm'.contSen = shm.contSen
        /\ shm'.sensorList = shm.sensorList
    BY <1>1, <1>2, <1>5 DEF Tables
  <2> HIDE DEF a
  <2>2. a + 9 >= PageWords
    BY <1>4, <1>5, TablesAssumption DEF Fits, Words
  <2>3. shm.contKey > 0 => 16 * maxkeys + 10 <= PageWords
    BY TablesAssumption DEF SensorFirst, OwnSensors
  <2>4. ASSUME shm.contKey <= maxkeys, NEW x \in Words, x < Key(shm.contKey) - 2
        PROVE  shm'.word[x] = shm.word[x]
    <3>1. x \in Nat /\ x < 16 * maxkeys /\ shm.contKey > 0
      BY <1>2, <2>4, TablesAssumption DEF Key, Words
    <3>2. x < a
      BY <1>4, <2>2, <2>3, <3>1, TablesAssumption
    <3>3. PutSensor(shm.word, a, s)[x] =
            IF x = a THEN s ELSE IF x = a + 8 \/ x = a + 9 THEN 0 ELSE shm.word[x]
      BY <1>2, <1>3, <1>4, PutSensorWords
    <3> QED
      BY <1>4, <2>1, <3>1, <3>2, <3>3
  <2> QED
    BY <1>1, <2>1, <2>4, BookBeyond
<1>6. CASE KeysEnd(shm) /\ Fits(a, 10)
  <2>1. shm' = AppendSensor(shm, s)
    BY <1>1, <1>6
  <2>2. /\ shm'.contKey = shm.contKey /\ shm'.contSen = shm.contSen + 1
        /\ shm'.sensorList = shm.sensorList
    BY <1>2, <1>3, <1>6, <2>1, AppendSensorType
  <2>3. CASE shm.contKey = 0
    <3>1. Entries = {} /\ NamesIntact(shm)
      BY <2>3, TablesAssumption DEF Entries, NamesIntact
    <3> QED
      BY <1>1, <2>2, <3>1, BookKept
  <2>4. CASE shm.contKey # 0
    <3>1. shm.contSen > 0 /\ shm.sensorList = Key(0) /\ a = 10 * shm.contSen
      BY <1>2, <2>4 DEF SensorFirst, Sensor, Key
    <3>2. ASSUME NEW x, Overlaid(shm, x) PROVE Overlaid(shm', x)
      <4>1. 0 .. (shm.contSen - 1) \subseteq 0 .. (shm'.contSen - 1)
        BY <1>2, <2>2
      <4> QED
        BY <2>2, <3>2, <4>1 DEF Overlaid
    <3>3. ASSUME NEW x \in Words, ~Overlaid(shm', x)
          PROVE  x \notin {a, a + 8, a + 9, a - 2, a - 1}
      <4>1. shm.contSen \in 0 .. (shm'.contSen - 1) /\ shm.contSen > 0
        BY <1>2, <2>2, <3>1
      <4>2. shm.contSen - 1 \in 0 .. (shm'.contSen - 1)
        BY <1>2, <2>2, <3>1
      <4>3. shm'.sensorList = Key(0)
        BY <2>2, <3>1
      <4>4. x \notin {10 * shm.contSen, 10 * shm.contSen + 8, 10 * shm.contSen + 9}
        BY <3>3, <4>1, <4>3 DEF Overlaid
      <4>5. x \notin {10 * (shm.contSen - 1) + 8, 10 * (shm.contSen - 1) + 9}
        BY <3>3, <4>2, <4>3 DEF Overlaid
      <4> QED
        BY <1>2, <3>1, <4>4, <4>5
    <3>4. ASSUME NEW x \in Words, ~Overlaid(shm', x) PROVE shm'.word[x] = shm.word[x]
      <4>1. AppendSensor(shm, s).word[x] =
             IF shm.contSen # 0 /\ x = a - 2 THEN PointerLow + 4 * a
             ELSE IF shm.contSen # 0 /\ x = a - 1 THEN PointerHigh
             ELSE IF x = a THEN s
             ELSE IF x = a + 8 \/ x = a + 9 THEN 0 ELSE shm.word[x]
        BY <1>2, <1>3, AppendSensorWords
      <4> HIDE DEF a
      <4> QED
        BY <2>1, <3>3, <3>4, <4>1
    <3>5. ASSUME NamesIntact(shm')
          PROVE  /\ NamesIntact(shm)
                 /\ \A e \in Entries : ~Overlaid(shm', Key(e))
      BY <2>2, <3>2, <3>5 DEF NamesIntact, Entries
    <3>6. \A e \in Entries :
            Key(e) \in Words /\ count(Key(e)) \in Words /\ verified(Key(e)) \in Words
      BY KeyWords
    <3> QED
      BY <1>1, <2>2, <3>2, <3>4, <3>5, <3>6, BookKept
  <2> QED
    BY <2>3, <2>4
<1>7. CASE ~KeysEnd(shm)
  <2>1. shm' = shm
    BY <1>1, <1>7
  <2> QED
    BY <1>1, <2>1, BookKept
<1> QED
  BY <1>5, <1>6, <1>7

\* The entries of two keys do not meet.
LEMMA KeysApart ==
  ASSUME NEW d \in Nat, NEW e \in Nat, d # e
  PROVE  \A x \in {Key(e), count(Key(e)), verified(Key(e))} :
           x < last(Key(d)) \/ x > verified(Key(d))
BY DEF Key, count, verified, last

LEMMA BookUpdateKeystats ==
  ASSUME TypeInv, StillFound, KeyBook, NEW w \in Workers, UpdateKeystats(w)
  PROVE  KeyBook'
<1>0. PICK i \in Nat : i = at[w]
  BY DEF TypeInv, TypeOK
<1> DEFINE k == cmd[w].arg.key
           v == cmd[w].arg.value
<1> SUFFICES ASSUME semaphore0' = "ours" PROVE KeyBook'
  BY DEF KeyBook
<1>1. /\ pc[w] = "updateKey" /\ UNCHANGED semaphore0 /\ shm' = UpdateKey(shm, i, v)
      /\ IF Divides(shm, i) THEN Counted(w, i) ELSE UNCHANGED history
  BY <1>0 DEF UpdateKeystats, Write, offWorker
<1>2. /\ shm \in Tables /\ InPage(shm) /\ shm.word \in [Words -> Int]
      /\ shm.contKey \in Nat
      /\ applied \in [KeyNames -> Nat] /\ raised \in [KeyNames -> Nat]
  BY TableTypes DEF TypeInv, TypeOK
<1>3. v \in Int /\ k \in KeyNames
  <2>1. cmd[w].arg \in Readings
    BY <1>1 DEF TypeInv, InHand, Fitting, ReadingLabels
  <2> QED
    BY <2>1, ArgumentTypes
<1>4. i \in Entries /\ Name(i) = k
  BY <1>0, <1>1 DEF StillFound, Found, KeysNamed, Entries, Name
<1> HIDE DEF k, v
<1>5. /\ shm'.sensorList = shm.sensorList /\ shm'.contKey = shm.contKey
      /\ shm'.contSen = shm.contSen
      /\ \A x \in Words : x < last(Key(i)) \/ x > verified(Key(i))
                         => shm'.word[x] = shm.word[x]
      /\ shm'.word[count(Key(i))] = shm.word[count(Key(i))] + 1
      /\ Divides(shm, i) => shm'.word[verified(Key(i))] = 0
      /\ ~Divides(shm, i) => shm'.word[verified(Key(i))] = shm.word[verified(Key(i))]
  BY <1>1, <1>2, <1>3, <1>4, UpdateKeyWords DEF Entries
<1>6. /\ \A x : Overlaid(shm', x) <=> Overlaid(shm, x)
      /\ NamesIntact(shm') <=> NamesIntact(shm)
  BY <1>5 DEF Overlaid, NamesIntact
<1>7. \A e \in Entries : Name(e)' = Name(e)
  <2>1. ASSUME NEW e \in Entries
        PROVE  Key(e) < last(Key(i)) \/ Key(e) > verified(Key(i))
    BY <1>4, KeysApart DEF Entries, Key, last
  <2> QED
    BY <1>5, <2>1, KeyWords DEF Name
<1>8. ASSUME NEW e \in Entries, e # i
      PROVE  \A x \in {count(Key(e)), verified(Key(e))} : shm'.word[x] = shm.word[x]
  <2>1. e \in Nat /\ i \in Nat
    BY <1>4, <1>8 DEF Entries
  <2> QED
    BY <1>5, <1>8, <2>1, KeyWords, KeysApart
<1>9. CASE ~Divides(shm, i)
  <2>1. UNCHANGED <<applied, raised>> /\ shm.word[count(Key(i))] = -1
    BY <1>1, <1>9 DEF Divides, history
  <2>2. ASSUME NamesIntact(shm), ~Overlaid(shm, count(Key(i))) PROVE FALSE
    <3>1. shm.word[count(Key(i))] = applied[k]
      BY <1>1, <1>4, <2>2 DEF KeyBook, EntryTrue
    <3> QED
      BY <1>2, <1>3, <2>1, <3>1
  <2>3. ASSUME NamesIntact(shm), NEW e \in Entries,
               NEW x \in {count(Key(e)), verified(Key(e))}, ~Overlaid(shm, x)
        PROVE  shm'.word[x] = shm.word[x]
    BY <1>5, <1>8, <1>9, <2>2, <2>3
  <2>4. ASSUME NEW e \in Entries PROVE shm'.word[Key(e)] = shm.word[Key(e)]
    BY <1>7 DEF Name
  <2> QED
    BY <1>1, <1>5, <1>6, <2>1, <2>3, <2>4, BookKept
<1>10. CASE Divides(shm, i)
  <2>1. applied' = [applied EXCEPT ![k] = @ + 1] /\ raised' = raised
    BY <1>1, <1>10 DEF Counted, k
  <2>2. /\ applied'[k] = applied[k] + 1
        /\ \A j \in KeyNames \ {k} : applied'[j] = applied[j]
    BY <1>2, <1>3, <2>1
  <2> SUFFICES ASSUME NamesIntact(shm)
               PROVE  /\ \A e \in Entries : Name(e)' \in KeyNames
                      /\ \A d, e \in Entries : Name(d)' = Name(e)' => d = e
                      /\ \A j \in KeyNames : (\A e \in Entries : Name(e)' # j)
                           => applied'[j] = 0 /\ raised'[j] = 0
                      /\ \A e \in Entries : EntryTrue(e)'
    BY <1>5, <1>6 DEF KeyBook, Entries
  <2>3. /\ \A e \in Entries : Name(e) \in KeyNames
        /\ \A d, e \in Entries : Name(d) = Name(e) => d = e
        /\ \A j \in KeyNames :
             (\A e \in Entries : Name(e) # j) => applied[j] = 0 /\ raised[j] = 0
        /\ \A e \in Entries : EntryTrue(e)
    BY <1>1 DEF KeyBook
  <2>4. ASSUME NEW e \in Entries, e # i PROVE EntryTrue(e)'
    <3>1. Name(e) \in KeyNames \ {k} /\ Name(e)' = Name(e) /\ EntryTrue(e)
      BY <1>4, <1>7, <2>3, <2>4
    <3>2. applied'[Name(e)'] = applied[Name(e)] /\ raised'[Name(e)'] = raised[Name(e)]
      BY <2>1, <2>2, <3>1
    <3>3. \A x \in {count(Key(e)), verified(Key(e))} : shm'.word[x] = shm.word[x]
      BY <1>8, <2>4
    <3> QED
      BY <1>6, <3>1, <3>2, <3>3 DEF EntryTrue
  <2>5. EntryTrue(i)'
    <3>1. EntryTrue(i) /\ Name(i)' = k /\ Name(i) = k
      BY <1>4, <1>7, <2>3
    <3>2. ~Overlaid(shm', count(Key(i)))
            => shm'.word[count(Key(i))] = applied'[Name(i)']
      BY <1>5, <1>6, <2>2, <3>1 DEF EntryTrue
    <3>3. ASSUME ~Overlaid(shm', verified(Key(i)))
          PROVE  raised'[Name(i)'] + 1 <= applied'[Name(i)']
      <4>1. raised[k] \in Nat /\ applied[k] \in Nat /\ raised'[k] = raised[k]
        BY <1>2, <1>3, <2>1
      <4>2. raised[k] + (IF shm.word[verified(Key(i))] = 0 THEN 1 ELSE 0) <= applied[k]
        BY <1>6, <3>1, <3>3 DEF EntryTrue
      <4>3. raised[k] <= applied[k]
        BY <4>1, <4>2
      <4> QED
        BY <2>2, <3>1, <4>1, <4>3
    <3>4. shm'.word[verified(Key(i))] = 0
      BY <1>5, <1>10
    <3> QED
      BY <3>2, <3>3, <3>4 DEF EntryTrue
  <2> QED
    BY <1>4, <1>7, <2>1, <2>2, <2>3, <2>4, <2>5
<1> QED
  BY <1>9, <1>10

LEMMA BookAppendKeystats ==
  ASSUME TypeInv, StillFound, SensorFirst, KeyBook, NEW w \in Workers, AppendKeystats(w)
  PROVE  KeyBook'
<1>0. PICK n \in Nat : n = shm.contKey
  BY TableTypes DEF TypeInv, TypeOK
<1> DEFINE k == cmd[w].arg.key
           v == cmd[w].arg.value
           a == Key(n)
<1> SUFFICES ASSUME semaphore0' = "ours" PROVE KeyBook'
  BY DEF KeyBook
<1>1. /\ pc[w] = "appendKey" /\ UNCHANGED semaphore0
      /\ IF AlertsEnd(shm) /\ Fits(a, 14)
           THEN shm' = AppendKey(shm, k, v) /\ Counted(w, shm.contKey)
           ELSE /\ shm' = IF AlertsEnd(shm)
                            THEN [shm EXCEPT !.word = PutKey(@, a, k, v)] ELSE shm
                /\ UNCHANGED history
  BY <1>0 DEF AppendKeystats, Write, offWorker
<1>2. /\ shm \in Tables /\ InPage(shm) /\ shm.word \in [Words -> Int]
      /\ applied \in [KeyNames -> Nat] /\ raised \in [KeyNames -> Nat]
  BY TableTypes DEF TypeInv, TypeOK
<1>3. v \in Int /\ k \in Int /\ k \in KeyNames
  <2>1. cmd[w].arg \in Readings
    BY <1>1 DEF TypeInv, InHand, Fitting, ReadingLabels
  <2> QED
    BY <2>1, ArgumentTypes
<1>4. \A e \in Entries : Name(e) # k
  BY <1>1 DEF StillFound, Found, KeysNamed, Entries, Name
<1>5. a \in Int
  BY DEF Key
<1> HIDE DEF k, v
<1>6. CASE AlertsEnd(shm) /\ ~Fits(a, 14)
  <2>1. /\ shm'.word = PutKey(shm.word, a, k, v)
        /\ shm'.contKey = shm.contKey /\ shm'.contSen = shm.contSen
        /\ shm'.sensorList = shm.sensorList
    BY <1>1, <1>2, <1>6 DEF Tables
  <2>2. ASSUME NEW x \in Words, x < Key(shm.contKey) - 2
        PROVE  shm'.word[x] = shm.word[x]
    <3>1. PutKey(shm.word, a, k, v)[x] =
              IF x = a THEN k ELSE IF x = count(a) THEN 1
              ELSE IF x = verified(a) THEN 0
              ELSE IF last(a) <= x /\ x <= avg(a) THEN v ELSE shm.word[x]
      BY <1>2, <1>3, <1>5, PutKeyWords
    <3>2. x < a - 2
      BY <1>0, <2>2
    <3> HIDE DEF a
    <3> QED
      BY <1>5, <2>1, <3>1, <3>2 DEF count, verified, last, avg, Words
  <2> QED
    BY <1>1, <1>6, <2>1, <2>2, BookBeyond DEF history
<1>7. CASE AlertsEnd(shm) /\ Fits(a, 14)
  <2>1. shm' = AppendKey(shm, k, v)
    BY <1>1, <1>7
  <2>2. /\ shm'.contKey = n + 1 /\ shm'.contSen = shm.contSen
        /\ shm'.sensorList = IF n = 0 THEN Key(0) ELSE shm.sensorList
    BY <1>0, <1>2, <1>3, <1>7, <2>1, AppendKeyType
  <2>3. \A x \in Words : shm'.word[x] =
             IF n > 1 /\ x = a - 2 THEN PointerLow + 4 * a
             ELSE IF n > 1 /\ x = a - 1 THEN PointerHigh
             ELSE IF x = a THEN k ELSE IF x = count(a) THEN 1
             ELSE IF x = verified(a) THEN 0
             ELSE IF last(a) <= x /\ x <= avg(a) THEN v ELSE shm.word[x]
    BY <1>0, <1>2, <1>3, <2>1, AppendKeyWords
  <2>4. a \in Words /\ count(a) \in Words /\ verified(a) \in Words
    <3> HIDE DEF a
    <3> QED
      BY <1>5, <1>7, TablesAssumption DEF Fits, Words, count, verified
  <2>5. /\ shm'.word[a] = k /\ shm'.word[count(a)] = 1 /\ shm'.word[verified(a)] = 0
    <3> HIDE DEF a
    <3> QED
      BY <1>5, <2>3, <2>4 DEF count, verified
  <2>6. ASSUME NEW e \in Entries, NEW x \in {Key(e), count(Key(e)), verified(Key(e))}
        PROVE  shm'.word[x] = shm.word[x]
    <3>1. x \in Words /\ x < a - 2
      BY <1>0, <2>6, KeyWords
    <3> HIDE DEF a
    <3> QED
      BY <1>5, <2>3, <3>1 DEF count, verified, last, avg, Words
  <2>7. Entries' = Entries \union {n} /\ n \notin Entries
    BY <1>0, <2>2 DEF Entries
  <2>8. ASSUME NEW e \in Entries, NEW x
        PROVE  Overlaid(shm, x) <=> Overlaid(shm', x)
    <3>1. n > 0
      BY <1>0 DEF Entries
    <3> QED
      BY <2>2, <3>1 DEF Overlaid
  <2> SUFFICES ASSUME NamesIntact(shm')
               PROVE  /\ \A e \in Entries' : Name(e)' \in KeyNames
                      /\ \A d, e \in Entries' : Name(d)' = Name(e)' => d = e
                      /\ \A j \in KeyNames : (\A e \in Entries' : Name(e)' # j)
                           => applied'[j] = 0 /\ raised'[j] = 0
                      /\ \A e \in Entries' : EntryTrue(e)'
    BY DEF KeyBook
  <2>9. NamesIntact(shm)
    <3>1. \A e \in Entries : ~Overlaid(shm', Key(e))
      BY <2>2, <2>7 DEF NamesIntact, Entries
    <3>2. \A e \in Entries : ~Overlaid(shm, Key(e))
      BY <2>8, <3>1
    <3>3. n <= maxkeys
      BY <2>2, TablesAssumption DEF NamesIntact
    <3> QED
      BY <1>0, <3>2, <3>3 DEF NamesIntact, Entries
  <2>10. /\ \A e \in Entries : Name(e) \in KeyNames
         /\ \A d, e \in Entries : Name(d) = Name(e) => d = e
         /\ \A j \in KeyNames :
              (\A e \in Entries : Name(e) # j) => applied[j] = 0 /\ raised[j] = 0
         /\ \A e \in Entries : EntryTrue(e)
    BY <1>1, <2>9 DEF KeyBook
  <2>11. /\ raised' = raised /\ applied' = [applied EXCEPT ![k] = @ + 1]
    BY <1>1, <1>7 DEF Counted, k
  <2>12. /\ applied[k] = 0 /\ raised'[k] = 0 /\ applied'[k] = 1
         /\ \A j \in KeyNames \ {k} : applied'[j] = applied[j]
    <3>1. applied[k] = 0 /\ raised[k] = 0
      BY <1>3, <1>4, <2>10
    <3> QED
      BY <1>2, <1>3, <2>11, <3>1
  <2>13. Name(n)' = k /\ \A e \in Entries : Name(e)' = Name(e)
    BY <2>5, <2>6 DEF Name
  <2>14. ASSUME NEW e \in Entries PROVE EntryTrue(e)'
    <3>1. Name(e) \in KeyNames \ {k} /\ Name(e)' = Name(e) /\ EntryTrue(e)
      BY <1>4, <2>10, <2>13
    <3>2. applied'[Name(e)'] = applied[Name(e)] /\ raised'[Name(e)'] = raised[Name(e)]
      BY <2>11, <2>12, <3>1
    <3>3. \A x \in {count(Key(e)), verified(Key(e))} :
            /\ shm'.word[x] = shm.word[x]
            /\ Overlaid(shm, x) <=> Overlaid(shm', x)
      BY <2>6, <2>8
    <3> QED
      BY <3>1, <3>2, <3>3 DEF EntryTrue
  <2>15. EntryTrue(n)'
    BY <2>5, <2>12, <2>13 DEF EntryTrue
  <2> QED
    BY <1>3, <1>4, <2>7, <2>10, <2>11, <2>12, <2>13, <2>14, <2>15
<1>8. CASE ~AlertsEnd(shm)
  <2>1. shm' = shm /\ UNCHANGED <<applied, raised>>
    BY <1>1, <1>8 DEF history
  <2> QED
    BY <1>1, <2>1, BookKept
<1> QED
  BY <1>6, <1>7, <1>8

LEMMA BookCheckKey ==
  ASSUME TypeInv, KeyBook, CheckKey PROVE KeyBook'
<1>0. PICK i \in Nat : i = look
  BY DEF TypeInv, TypeOK
<1>1. /\ shm \in Tables /\ InPage(shm) /\ shm.word \in [Words -> Int]
      /\ shm.contKey \in Nat
      /\ applied \in [KeyNames -> Nat] /\ raised \in [KeyNames -> Nat]
  BY TableTypes DEF TypeInv, TypeOK
<1>2. i \in Entries /\ UNCHANGED <<semaphore0, applied>>
  BY <1>0, <1>1 DEF CheckKey, Entries
<1>3. CASE UNCHANGED <<shm, raised>>
  BY <1>2, <1>3, BookKept
<1>4. CASE /\ shm.word[verified(Key(i))] = 0 /\ Mark(i)
           /\ \/ raised' = raised
              \/ raised' = [raised EXCEPT ![Name(i)] = @ + 1]
  <2> DEFINE m == verified(Key(i))
  <2>1. /\ shm'.word = [shm.word EXCEPT ![m] = 1]
        /\ shm'.sensorList = shm.sensorList /\ shm'.contKey = shm.contKey
        /\ shm'.contSen = shm.contSen
    BY <1>1, <1>4 DEF Mark, Tables
  <2>2. m \in Words
    BY <1>2, KeyWords
  <2>3. shm'.word[m] = 1 /\ \A x \in Words \ {m} : shm'.word[x] = shm.word[x]
    <3> HIDE DEF m
    <3> QED
      BY <1>1, <2>1, <2>2
  <2>4. /\ \A x : Overlaid(shm', x) <=> Overlaid(shm, x)
        /\ NamesIntact(shm') <=> NamesIntact(shm)
    BY <2>1 DEF Overlaid, NamesIntact
  <2>5. ASSUME NEW e \in Entries
        PROVE  /\ Key(e) # m /\ count(Key(e)) # m /\ (e # i => verified(Key(e)) # m)
    BY <1>2 DEF Entries, Key, count, verified
  <2>6. \A e \in Entries : Name(e)' = Name(e)
    BY <2>3, <2>5, KeyWords DEF Name
  <2> SUFFICES ASSUME semaphore0 = "ours", NamesIntact(shm)
               PROVE  /\ \A e \in Entries : Name(e)' \in KeyNames
                      /\ \A d, e \in Entries : Name(d)' = Name(e)' => d = e
                      /\ \A j \in KeyNames : (\A e \in Entries : Name(e)' # j)
                           => applied[j] = 0 /\ raised'[j] = 0
                      /\ \A e \in Entries : EntryTrue(e)'
    BY <1>2, <2>1, <2>4 DEF KeyBook, Entries
  <2>7. /\ \A e \in Entries : Name(e) \in KeyNames
        /\ \A d, e \in Entries : Name(d) = Name(e) => d = e
        /\ \A j \in KeyNames :
             (\A e \in Entries : Name(e) # j) => applied[j] = 0 /\ raised[j] = 0
        /\ \A e \in Entries : EntryTrue(e)
    BY DEF KeyBook
  <2>8. /\ Name(i) \in KeyNames
        /\ raised'[Name(i)] \in {raised[Name(i)], raised[Name(i)] + 1}
        /\ \A j \in KeyNames \ {Name(i)} : raised'[j] = raised[j]
    <3>1. Name(i) \in KeyNames
      BY <1>2, <2>7
    <3> QED
      BY <1>1, <1>4, <3>1
  <2>9. ASSUME NEW e \in Entries PROVE EntryTrue(e)'
    <3>1. /\ EntryTrue(e) /\ Name(e)' = Name(e) /\ Name(e) \in KeyNames
          /\ applied'[Name(e)'] = applied[Name(e)]
      BY <1>2, <2>6, <2>7
    <3>2. shm'.word[count(Key(e))] = shm.word[count(Key(e))]
      BY <2>3, <2>5, KeyWords
    <3>3. CASE e # i
      <4>1. raised'[Name(e)'] = raised[Name(e)]
        BY <1>2, <2>7, <2>8, <3>1, <3>3
      <4>2. shm'.word[verified(Key(e))] = shm.word[verified(Key(e))]
        BY <2>3, <2>5, <3>3, KeyWords
      <4> QED
        BY <2>4, <3>1, <3>2, <4>1, <4>2 DEF EntryTrue
    <3>4. CASE e = i
      <4>1. raised[Name(e)] \in Nat /\ applied[Name(e)] \in Nat
        BY <1>1, <3>1
      <4>2. ~Overlaid(shm, m) => raised[Name(e)] + 1 <= applied[Name(e)]
        BY <1>4, <3>1, <3>4 DEF EntryTrue
      <4>3. ~Overlaid(shm, m) => raised'[Name(e)'] <= applied'[Name(e)']
        BY <2>8, <3>1, <3>4, <4>1, <4>2
      <4>4. raised'[Name(e)'] \in Int /\ shm'.word[verified(Key(e))] = 1
        BY <2>3, <2>8, <3>1, <3>4, <4>1
      <4> QED
        BY <2>4, <3>1, <3>2, <3>4, <4>3, <4>4 DEF EntryTrue
    <3> QED
      BY <3>3, <3>4
  <2> QED
    BY <1>2, <2>6, <2>7, <2>8, <2>9
<1> QED
  BY <1>0, <1>3, <1>4 DEF CheckKey, Raise, Name

LEMMA BookStep ==
  TypeInv /\ StillFound /\ SensorFirst /\ KeyBook /\ [Next]_vars => KeyBook'
<1> SUFFICES ASSUME TypeInv, StillFound, SensorFirst, KeyBook, [Next]_vars
             PROVE  KeyBook'
  OBVIOUS
<1>1. ASSUME UNCHANGED <<shm, semaphore0, applied, raised>> PROVE KeyBook'
  BY <1>1, BookKept
<1>2. ASSUME NEW w \in Workers, Take(w) PROVE KeyBook'
  BY <1>1, <1>2 DEF Take, history
<1>3. ASSUME NEW w \in Workers, CarryOut(w) PROVE KeyBook'
  <2>1. CASE FindSensor(w) \/ FindKey(w) \/ Post(w) \/ FindAlert(w) \/ List(w)
             \/ Reset(w) \/ SendAnswer(w)
    BY <1>1, <2>1
    DEF FindSensor, FindKey, Post, FindAlert, List, Reset, SendAnswer, offWorker,
        history
  <2> QED
    BY <1>3, <2>1, BookWriteSensor, BookUpdateKeystats, BookAppendKeystats,
       BookAddAlert, BookDeleteAlert
    DEF CarryOut
<1>4. CASE Wake \/ BeginCheck \/ EndCheck \/ TryWait
  BY <1>1, <1>4 DEF Wake, BeginCheck, EndCheck, TryWait, history
<1>5. ASSUME NEW c \in Consoles, OpenConsole(c) \/ Listen(c) \/ CloseConsole(c)
      PROVE  KeyBook'
  BY <1>1, <1>5 DEF OpenConsole, Listen, CloseConsole, offConsole, history
<1>6. CASE UNCHANGED vars
  BY <1>1, <1>6 DEF vars, history
<1> QED
  BY <1>2, <1>3, <1>4, <1>5, <1>6, BookCheckKey DEF Next, Watch

Contents == TypeInv /\ LockHeld /\ StillFound /\ SensorFirst /\ KeyBook

LEMMA ContentsInvariant == Spec => []Contents
<1>1. Init => Contents
  BY TypeInit, LockInit, SensorFirstInit, BookInit
  DEF Contents, Init, EmptyTables, StillFound, Found
<1>2. Contents /\ [Next]_vars => Contents'
  BY TypeStep, LockStep, FoundStep, SensorFirstStep, BookStep DEF Contents
<1> QED
  BY <1>1, <1>2, PTL DEF Spec

\* A key has one entry, and its count is the number of readings of that key that were
\* written: search and write are one critical section, whatever workers and watcher do
\* in between.
THEOREM ReadingsCounted == Spec => []CountsReadings
<1>1. Contents => CountsReadings
  BY DEF Contents, KeyBook, Entries, EntryTrue, Name, CountsReadings
<1> QED
  BY <1>1, ContentsInvariant, PTL

\* A reading raises one alert at most: the watcher marks a key it has sent an alert for,
\* under the same lock under which the next reading takes the mark away.
THEOREM OneAlertPerReading == Spec => []AlertPerReading
<1>1. Contents => AlertPerReading
  BY DEF Contents, KeyBook, Entries, EntryTrue, Name, AlertPerReading
<1> QED
  BY <1>1, ContentsInvariant, PTL

--------------------------------------------------------------------------------
(* The alerts *)

\* No alert ends in the page but for its pointer.  Else the removal of one before it
\* faults in the middle.
AlertsEndInPage == \A i \in Nat : Alert(i) + 18 \in Words => Alert(i) + 21 \in Words

Shown(t, i) ==
  LET a == Alert(i) IN
    [id |-> t.word[a], key |-> t.word[a + 8], min |-> t.word[a + 16],
     max |-> t.word[a + 17], user |-> t.word[a + 18]]
ShownAlerts == [id : Int, key : Int, min : Int, max : Int, user : Int]

LEMMA AlertsAreShown ==
  ASSUME NEW t \in Tables, InPage(t), t.contAlert >= 0
  PROVE  /\ AlertsOf(t) \in Seq(ShownAlerts)
         /\ Len(AlertsOf(t)) = t.contAlert
         /\ \A j \in 1 .. t.contAlert : AlertsOf(t)[j] = Shown(t, j - 1)
<1>1. t.contAlert \in Nat /\ t.word \in [Words -> Int]
  BY TableTypes
<1>2. ASSUME NEW j \in 1 .. t.contAlert PROVE Shown(t, j - 1) \in ShownAlerts
  <2>1. j - 1 \in 0 .. (t.contAlert - 1)
    BY <1>1
  <2>2. \A o \in 0 .. 18 : Alert(j - 1) + o \in Words
    BY <2>1, AlertInPage
  <2>3. Alert(j - 1) \in Int
    BY TablesAssumption, <2>1 DEF Alert
  <2>4. /\ Alert(j - 1) + 0 \in Words /\ Alert(j - 1) + 8 \in Words
        /\ Alert(j - 1) + 16 \in Words /\ Alert(j - 1) + 17 \in Words
        /\ Alert(j - 1) + 18 \in Words /\ Alert(j - 1) + 0 = Alert(j - 1)
    BY <2>2, <2>3
  <2> QED
    BY <1>1, <2>4 DEF Shown, ShownAlerts
<1>3. AlertsOf(t) = [j \in 1 .. t.contAlert |-> Shown(t, j - 1)]
  BY DEF AlertsOf, Shown
<1> QED
  BY <1>1, <1>2, <1>3

\* Entries that keep their words are shown as before.
LEMMA ShownAs ==
  ASSUME NEW t \in Tables, NEW u \in Tables, NEW i \in Nat, NEW j \in Nat,
         \A o \in 0 .. 18 : u.word[Alert(i) + o] = t.word[Alert(j) + o]
  PROVE  Shown(u, i) = Shown(t, j)
<1>1. Alert(i) \in Int /\ Alert(j) \in Int
  BY TablesAssumption DEF Alert
<1>2. Alert(i) + 0 = Alert(i) /\ Alert(j) + 0 = Alert(j)
  BY <1>1
<1>3. /\ u.word[Alert(i) + 0] = t.word[Alert(j) + 0]
      /\ u.word[Alert(i) + 8] = t.word[Alert(j) + 8]
      /\ u.word[Alert(i) + 16] = t.word[Alert(j) + 16]
      /\ u.word[Alert(i) + 17] = t.word[Alert(j) + 17]
      /\ u.word[Alert(i) + 18] = t.word[Alert(j) + 18]
  OBVIOUS
<1> QED
  BY <1>2, <1>3 DEF Shown

LEMMA AlertAddresses ==
  ASSUME NEW t \in Tables, InPage(t), NEW i \in 0 .. (t.contAlert - 1),
         NEW o \in 0 .. 18
  PROVE  /\ Alert(i) + o \in Words
         /\ Alert(0) <= Alert(i) + o /\ Alert(i) + o < Alert(t.contAlert) - 3
<1>1. t.contAlert \in Int /\ i <= t.contAlert - 1 /\ i \in Nat
  BY TableTypes
<1>2. 22 * i + 22 <= 22 * t.contAlert
  BY <1>1
<1>3. 16 * maxkeys \in Nat
  BY TablesAssumption
<1>4. /\ Alert(0) = 16 * maxkeys /\ Alert(i) = 16 * maxkeys + 22 * i
      /\ Alert(t.contAlert) = 16 * maxkeys + 22 * t.contAlert
  BY <1>3 DEF Alert
<1>5. Alert(0) <= Alert(i) + o /\ Alert(i) + o < Alert(t.contAlert) - 3
  BY <1>1, <1>2, <1>3, <1>4
<1> QED
  BY <1>5, AlertInPage

\* A step that leaves the alerts' words alone.
LEMMA AlertsSame ==
  ASSUME NEW t \in Tables, InPage(t), NEW u \in Tables, InPage(u),
         t.contAlert >= 0, u.contAlert = t.contAlert,
         \A x \in Words : Alert(0) <= x /\ x < Alert(t.contAlert) - 3
                           => u.word[x] = t.word[x]
  PROVE  AlertsOf(u) = AlertsOf(t)
<1>1. t.contAlert \in Nat
  BY TableTypes
<1>2. ASSUME NEW j \in 1 .. t.contAlert PROVE Shown(u, j - 1) = Shown(t, j - 1)
  <2>1. j - 1 \in 0 .. (t.contAlert - 1) /\ j - 1 \in Nat
    BY <1>1
  <2>2. \A o \in 0 .. 18 : u.word[Alert(j - 1) + o] = t.word[Alert(j - 1) + o]
    BY <2>1, AlertAddresses
  <2> QED
    BY <2>1, <2>2, ShownAs
<1>3. /\ AlertsOf(t) \in Seq(ShownAlerts) /\ Len(AlertsOf(t)) = t.contAlert
      /\ \A j \in 1 .. t.contAlert : AlertsOf(t)[j] = Shown(t, j - 1)
  BY AlertsAreShown
<1>4. /\ AlertsOf(u) \in Seq(ShownAlerts) /\ Len(AlertsOf(u)) = t.contAlert
      /\ \A j \in 1 .. t.contAlert : AlertsOf(u)[j] = Shown(u, j - 1)
  BY AlertsAreShown
<1> QED
  BY <1>2, <1>3, <1>4, SeqEqual

LEMMA AlertAppended ==
  ASSUME NEW t \in Tables, InPage(t), t.contAlert >= 0, NEW user \in Int,
         NEW alert \in [id : Int, key : Int, min : Int, max : Int],
         Fits(Alert(t.contAlert), 19)
  PROVE  AlertsOf(AppendAlert(t, alert, user)) =
           Append(AlertsOf(t), [id |-> alert.id, key |-> alert.key, min |-> alert.min,
                                max |-> alert.max, user |-> user])
<1> DEFINE u == AppendAlert(t, alert, user)
           a == Alert(t.contAlert)
           new == [id |-> alert.id, key |-> alert.key, min |-> alert.min,
                   max |-> alert.max, user |-> user]
           n == t.contAlert
<1>1. n \in Nat /\ a \in Int
  BY TableTypes, TablesAssumption DEF Alert
<1>2. u \in Tables /\ InPage(u) /\ u.contAlert = n + 1
  BY AppendAlertType
<1>3. \A x \in Words : u.word[x] =
        IF n # 1 /\ x = a - 2 THEN PointerLow + 4 * a
        ELSE IF n # 1 /\ x = a - 1 THEN PointerHigh
        ELSE IF x = a THEN alert.id ELSE IF x = a + 8 THEN alert.key
        ELSE IF x = a + 16 THEN alert.min ELSE IF x = a + 17 THEN alert.max
        ELSE IF x = a + 18 THEN user ELSE t.word[x]
  BY AppendAlertWords
<1> HIDE DEF u
<1>4. ASSUME NEW j \in 1 .. n PROVE Shown(u, j - 1) = Shown(t, j - 1)
  <2>1. j - 1 \in 0 .. (t.contAlert - 1) /\ j - 1 \in Nat
    BY <1>1
  <2>2. \A o \in 0 .. 18 : /\ Alert(j - 1) + o \in Words
                          /\ Alert(j - 1) + o < a - 3
    BY <2>1, AlertAddresses
  <2> HIDE DEF a, n
  <2>3. \A o \in 0 .. 18 : u.word[Alert(j - 1) + o] = t.word[Alert(j - 1) + o]
    <3> SUFFICES ASSUME NEW o \in 0 .. 18
                 PROVE  u.word[Alert(j - 1) + o] = t.word[Alert(j - 1) + o]
      OBVIOUS
    <3> DEFINE x == Alert(j - 1) + o
    <3>1. x \in Words /\ x < a - 3
      BY <2>2
    <3> HIDE DEF x
    <3>2. u.word[x] = t.word[x]
      BY <1>1, <1>3, <3>1 DEF Words
    <3> QED
      BY <3>2 DEF x
  <2> QED
    BY <1>2, <2>1, <2>3, ShownAs
<1>5. Shown(u, n) = new
  <2>1. /\ a \in Words /\ a + 18 \in Words
    BY <1>1 DEF Fits, Words
  <2> HIDE DEF a
  <2>2. /\ a \in Words /\ a + 8 \in Words /\ a + 16 \in Words /\ a + 17 \in Words
        /\ a + 18 \in Words
    BY <1>1, <2>1, TablesAssumption DEF Words
  <2>3. /\ u.word[a] = alert.id /\ u.word[a + 8] = alert.key
        /\ u.word[a + 16] = alert.min /\ u.word[a + 17] = alert.max
        /\ u.word[a + 18] = user
    BY <1>1, <1>3, <2>2
  <2> QED
    BY <2>3 DEF Shown, a
<1>6. /\ AlertsOf(t) \in Seq(ShownAlerts) /\ Len(AlertsOf(t)) = n
      /\ \A j \in 1 .. n : AlertsOf(t)[j] = Shown(t, j - 1)
  BY AlertsAreShown
<1>7. /\ AlertsOf(u) \in Seq(ShownAlerts) /\ Len(AlertsOf(u)) = n + 1
      /\ \A j \in 1 .. (n + 1) : AlertsOf(u)[j] = Shown(u, j - 1)
  BY <1>1, <1>2, AlertsAreShown
<1>8. new \in ShownAlerts
  BY DEF ShownAlerts
<1> HIDE DEF new, n
<1>9. /\ Append(AlertsOf(t), new) \in Seq(ShownAlerts)
      /\ Len(Append(AlertsOf(t), new)) = n + 1
      /\ \A j \in 1 .. n : Append(AlertsOf(t), new)[j] = AlertsOf(t)[j]
      /\ Append(AlertsOf(t), new)[n + 1] = new
  BY <1>6, <1>8, AppendProperties
<1>10. ASSUME NEW j \in 1 .. (n + 1)
       PROVE  AlertsOf(u)[j] = Append(AlertsOf(t), new)[j]
  <2>1. CASE j = n + 1
    <3>1. j - 1 = n
      BY <1>1, <2>1
    <3> QED
      BY <1>5, <1>7, <1>9, <2>1, <3>1
  <2>2. CASE j # n + 1
    <3>1. j \in 1 .. n
      BY <1>1, <2>2
    <3> QED
      BY <1>4, <1>6, <1>7, <1>9, <3>1
  <2> QED
    BY <2>1, <2>2
<1>11. AlertsOf(u) = Append(AlertsOf(t), new)
  BY <1>7, <1>9, <1>10, SeqEqual
<1> QED
  BY <1>11 DEF u, new

LEMMA AlertRemoved ==
  ASSUME NEW t \in Tables, InPage(t), NEW i \in 0 .. (t.contAlert - 1)
  PROVE  LET old == AlertsOf(t) IN
           AlertsOf(RemoveAlert(t, i)) =
             SubSeq(old, 1, i) \o SubSeq(old, i + 2, Len(old))
<1> DEFINE u == RemoveAlert(t, i)
           n == t.contAlert
           old == AlertsOf(t)
           front == SubSeq(old, 1, i)
           back == SubSeq(old, i + 2, n)
<1>1. n \in Nat /\ i \in Nat /\ i < n /\ n > 0 /\ n - 1 \in Nat
  BY TableTypes
<1>2. u \in Tables /\ InPage(u) /\ u.contAlert = n - 1
  BY <1>1, RemoveAlertType
<1>3. \A x \in Words : u.word[x] = IF InLastAlert(t, x) THEN 0 ELSE Moved(t, i, x)
  BY RemoveAlertWords
<1>4. \A k \in Int : Alert(k) \in Int /\ Alert(k) + 22 = Alert(k + 1)
  BY TablesAssumption DEF Alert
<1>5. \A k, m \in Int : k <= m => Alert(k) <= Alert(m)
  BY TablesAssumption DEF Alert
<1> HIDE DEF u, n
<1>6. ASSUME NEW j \in 0 .. (n - 2), NEW o \in 0 .. 18
      PROVE  u.word[Alert(j) + o] =
               IF j < i THEN t.word[Alert(j) + o] ELSE t.word[Alert(j + 1) + o]
  <2> DEFINE x == Alert(j) + o
  <2>1. /\ j \in Int /\ j + 1 \in Int /\ j \in 0 .. (n - 1) /\ j + 1 \in 0 .. (n - 1)
        /\ n - 1 \in Int /\ n \in Int /\ j + 1 <= n - 1
    BY <1>1
  <2>2. x \in Words /\ Alert(j + 1) + o \in Words
    BY <2>1, AlertAddresses DEF n
  <2>3. /\ Alert(j) \in Int /\ Alert(j + 1) = Alert(j) + 22 /\ Alert(n - 1) \in Int
        /\ Alert(n) = Alert(n - 1) + 22 /\ Alert(j + 1) <= Alert(n - 1)
        /\ Alert(i) \in Int
    <3>1. Alert(j) \in Int /\ Alert(j + 1) = Alert(j) + 22
      BY <1>4, <2>1
    <3>2. Alert(n - 1) \in Int /\ Alert(i) \in Int
      BY <1>1, <1>4, <2>1
    <3>3. (n - 1) + 1 = n
      BY <1>1
    <3>4. Alert(n - 1) + 22 = Alert((n - 1) + 1)
      BY <1>4, <2>1
    <3>5. Alert(j + 1) <= Alert(n - 1)
      BY <1>5, <2>1
    <3> QED
      BY <3>1, <3>2, <3>3, <3>4, <3>5
  <2>4. ~InLastAlert(t, x)
    BY <2>3 DEF InLastAlert, n
  <2>5. CASE j < i
    <3>1. Alert(j + 1) <= Alert(i)
      BY <1>1, <1>5, <2>1, <2>5
    <3>2. x < Alert(i)
      BY <2>3, <3>1
    <3>3. Moved(t, i, x) = t.word[x]
      <4> HIDE DEF x
      <4> QED
        BY <2>2, <2>3, <3>2 DEF Moved, Words
    <3> QED
      BY <1>3, <2>2, <2>4, <2>5, <3>3
  <2>6. CASE ~(j < i)
    <3>1. Alert(i) <= Alert(j)
      BY <1>1, <1>5, <2>1, <2>6
    <3>2. x >= Alert(i) /\ x + 22 < Alert(n) /\ x + 22 = Alert(j + 1) + o
      BY <2>3, <3>1
    <3>3. Moved(t, i, x) = t.word[Alert(j + 1) + o]
      <4> HIDE DEF x
      <4> QED
        BY <2>2, <3>2 DEF Moved, n
    <3> QED
      BY <1>3, <2>2, <2>4, <2>6, <3>3
  <2> QED
    BY <2>5, <2>6
<1>7. ASSUME NEW j \in 0 .. (n - 2)
      PROVE  Shown(u, j) = IF j < i THEN Shown(t, j) ELSE Shown(t, j + 1)
  <2>1. j \in Nat /\ j + 1 \in Nat
    OBVIOUS
  <2>2. CASE j < i
    <3>1. \A o \in 0 .. 18 : u.word[Alert(j) + o] = t.word[Alert(j) + o]
      BY <1>6, <2>2
    <3> QED
      BY <1>2, <2>1, <2>2, <3>1, ShownAs
  <2>3. CASE ~(j < i)
    <3>1. \A o \in 0 .. 18 : u.word[Alert(j) + o] = t.word[Alert(j + 1) + o]
      BY <1>6, <2>3
    <3> QED
      BY <1>2, <2>1, <2>3, <3>1, ShownAs
  <2> QED
    BY <2>2, <2>3
<1>8. /\ old \in Seq(ShownAlerts) /\ Len(old) = n
      /\ \A j \in 1 .. n : old[j] = Shown(t, j - 1)
  BY <1>1, AlertsAreShown DEF n
<1>9. /\ AlertsOf(u) \in Seq(ShownAlerts) /\ Len(AlertsOf(u)) = n - 1
      /\ \A j \in 1 .. (n - 1) : AlertsOf(u)[j] = Shown(u, j - 1)
  BY <1>1, <1>2, AlertsAreShown
<1> HIDE DEF old
<1>10. \A j \in 1 .. n : old[j] \in ShownAlerts
  BY <1>8, ElementOfSeq
<1>11. /\ front \in Seq(ShownAlerts) /\ Len(front) = i
       /\ \A j \in 1 .. i : front[j] = old[j]
  <2>1. \A j \in 1 .. i : old[j] \in ShownAlerts
    BY <1>1, <1>10
  <2>2. /\ SubSeq(old, 1, i) \in Seq(ShownAlerts)
        /\ Len(SubSeq(old, 1, i)) = IF 1 <= i THEN i - 1 + 1 ELSE 0
        /\ \A j \in 1 .. i - 1 + 1 : SubSeq(old, 1, i)[j] = old[1 + j - 1]
    BY <1>1, <2>1, SubSeqProperties
  <2> QED
    BY <1>1, <2>2
<1>12. /\ back \in Seq(ShownAlerts) /\ Len(back) = n - 1 - i
       /\ \A j \in 1 .. (n - 1 - i) : back[j] = old[i + 1 + j]
  <2>1. \A j \in (i + 2) .. n : old[j] \in ShownAlerts
    BY <1>1, <1>10
  <2>2. /\ SubSeq(old, i + 2, n) \in Seq(ShownAlerts)
        /\ Len(SubSeq(old, i + 2, n)) = IF i + 2 <= n THEN n - (i + 2) + 1 ELSE 0
        /\ \A j \in 1 .. n - (i + 2) + 1 : SubSeq(old, i + 2, n)[j] = old[i + 2 + j - 1]
    BY <1>1, <2>1, SubSeqProperties
  <2>3. n - (i + 2) + 1 = n - 1 - i /\ (i + 2 <= n \/ n - 1 - i = 0)
    BY <1>1
  <2>4. \A j \in 1 .. (n - 1 - i) : i + 2 + j - 1 = i + 1 + j
    BY <1>1
  <2> QED
    BY <2>2, <2>3, <2>4
<1> HIDE DEF front, back
<1>13. /\ front \o back \in Seq(ShownAlerts) /\ Len(front \o back) = n - 1
       /\ \A j \in 1 .. (n - 1) :
            (front \o back)[j] = IF j <= i THEN front[j] ELSE back[j - i]
  <2>1. /\ front \o back \in Seq(ShownAlerts)
        /\ Len(front \o back) = Len(front) + Len(back)
        /\ \A j \in 1 .. Len(front) + Len(back) : (front \o back)[j] =
             IF j <= Len(front) THEN front[j] ELSE back[j - Len(front)]
    BY <1>11, <1>12, ConcatProperties
  <2>2. i + (n - 1 - i) = n - 1
    BY <1>1
  <2> QED
    BY <1>11, <1>12, <2>1, <2>2
<1>14. ASSUME NEW j \in 1 .. (n - 1) PROVE AlertsOf(u)[j] = (front \o back)[j]
  <2>1. j - 1 \in 0 .. (n - 2) /\ j \in 1 .. n /\ j + 1 \in 1 .. n
    BY <1>1
  <2>2. AlertsOf(u)[j] = IF j - 1 < i THEN Shown(t, j - 1) ELSE Shown(t, (j - 1) + 1)
    BY <1>7, <1>9, <2>1
  <2>3. CASE j <= i
    <3>1. j - 1 < i /\ j \in 1 .. i
      BY <1>1, <2>3
    <3> QED
      BY <1>8, <1>11, <1>13, <2>1, <2>2, <2>3, <3>1
  <2>4. CASE ~(j <= i)
    <3>1. ~(j - 1 < i) /\ j - i \in 1 .. (n - 1 - i) /\ i + 1 + (j - i) = j + 1
      BY <1>1, <2>4
    <3>2. (front \o back)[j] = old[j + 1]
      BY <1>12, <1>13, <2>4, <3>1
    <3>3. old[j + 1] = Shown(t, (j - 1) + 1)
      <4>1. (j + 1) - 1 = (j - 1) + 1
        BY <1>1
      <4> QED
        BY <1>8, <2>1, <4>1
    <3> QED
      BY <2>2, <3>1, <3>2, <3>3
  <2> QED
    BY <2>3, <2>4
<1>15. AlertsOf(u) = front \o back
  BY <1>9, <1>13, <1>14, SeqEqual
<1> QED
  BY <1>8, <1>15 DEF u, front, back, old

\* The steps of AlertsAreABook.
AlertAdded ==
  \E a \in Alerts, c \in Consoles :
    /\ \A e \in DOMAIN AlertsOf(shm) : AlertsOf(shm)[e].id # a.id
    /\ AlertsOf(shm') = Append(AlertsOf(shm),
         [id |-> a.id, key |-> a.key, min |-> a.min, max |-> a.max, user |-> c])
AlertTaken ==
  \E e \in DOMAIN AlertsOf(shm) :
    AlertsOf(shm') = SubSeq(AlertsOf(shm), 1, e - 1)
                       \o SubSeq(AlertsOf(shm), e + 1, Len(AlertsOf(shm)))

LEMMA ShownAddAlert ==
  ASSUME TypeInv, TypeInv', StillFound, semaphore0 = "ours",
         NEW w \in Workers, AddAlert(w)
  PROVE  AlertsOf(shm') = AlertsOf(shm) \/ AlertAdded
<1> DEFINE alert == cmd[w].arg
           user == cmd[w].user
           a == Alert(shm.contAlert)
<1>1. /\ pc[w] = "addAlert"
      /\ shm' = IF Fits(a, 19) THEN AppendAlert(shm, alert, user)
                ELSE [shm EXCEPT !.word = PutAlert(@, a, alert, user)]
  BY DEF AddAlert, Write
<1>2. /\ shm \in Tables /\ InPage(shm) /\ shm' \in Tables /\ InPage(shm')
      /\ shm.contAlert \in Nat /\ shm.word \in [Words -> Int]
  BY TableTypes DEF TypeInv, TypeOK, StillFound
<1>3. /\ alert \in Alerts /\ user \in Consoles /\ user \in Int
      /\ alert \in [id : Int, key : Int, min : Int, max : Int]
  <2>1. alert \in Alerts /\ user \in Consoles
    BY <1>1 DEF TypeInv, InHand, Fitting, AlertLabels
  <2> QED
    BY <2>1, ArgumentTypes
<1>4. AlertsNamed(shm, alert.id) = {}
  BY <1>1 DEF StillFound, Found
<1>5. a \in Int
  BY <1>2, TablesAssumption DEF Alert
<1> HIDE DEF alert, user
<1>6. CASE Fits(a, 19)
  <2>1. AlertsOf(shm') = Append(AlertsOf(shm),
          [id |-> alert.id, key |-> alert.key, min |-> alert.min, max |-> alert.max,
           user |-> user])
    <3>1. shm' = AppendAlert(shm, alert, user)
      BY <1>1, <1>6
    <3>2. AlertsOf(AppendAlert(shm, alert, user)) = Append(AlertsOf(shm),
            [id |-> alert.id, key |-> alert.key, min |-> alert.min,
             max |-> alert.max, user |-> user])
      <4>1. /\ shm \in Tables /\ InPage(shm) /\ shm.contAlert >= 0
            /\ Fits(Alert(shm.contAlert), 19)
        BY <1>2, <1>6
      <4> QED
        BY <1>3, <4>1, AlertAppended
    <3> QED
      BY <3>1, <3>2
  <2>2. /\ AlertsOf(shm) \in Seq(ShownAlerts) /\ Len(AlertsOf(shm)) = shm.contAlert
        /\ \A j \in 1 .. shm.contAlert : AlertsOf(shm)[j] = Shown(shm, j - 1)
    BY <1>2, AlertsAreShown
  <2>3. ASSUME NEW e \in DOMAIN AlertsOf(shm) PROVE AlertsOf(shm)[e].id # alert.id
    <3>1. e \in 1 .. shm.contAlert /\ e - 1 \in 0 .. (shm.contAlert - 1)
      BY <1>2, <2>2
    <3>2. shm.word[Alert(e - 1)] # alert.id
      BY <1>4, <3>1 DEF AlertsNamed
    <3>3. Shown(shm, e - 1).id = shm.word[Alert(e - 1)]
      BY DEF Shown
    <3> QED
      BY <2>2, <3>1, <3>2, <3>3
  <2> QED
    BY <1>3, <2>1, <2>3 DEF AlertAdded
<1>7. CASE ~Fits(a, 19)
  <2> HIDE DEF a
  <2>1. shm'.word = PutAlert(shm.word, a, alert, user) /\ shm'.contAlert = shm.contAlert
    BY <1>1, <1>2, <1>7 DEF Tables
  <2>2. ASSUME NEW x \in Words, x < a - 3 PROVE shm'.word[x] = shm.word[x]
    <3>1. PutAlert(shm.word, a, alert, user)[x] =
            IF x = a THEN alert.id ELSE IF x = a + 8 THEN alert.key
            ELSE IF x = a + 16 THEN alert.min ELSE IF x = a + 17 THEN alert.max
            ELSE IF x = a + 18 THEN user ELSE shm.word[x]
      BY <1>2, <1>3, <1>5, PutAlertWords
    <3> QED
      BY <1>5, <2>1, <2>2, <3>1 DEF Words
  <2> QED
    BY <1>2, <2>1, <2>2, AlertsSame DEF a
<1> QED
  BY <1>6, <1>7

LEMMA ShownDeleteAlert ==
  ASSUME AlertsEndInPage, TypeInv, StillFound, semaphore0 = "ours",
         NEW w \in Workers, DeleteAlert(w)
  PROVE  AlertTaken
<1>1. PICK i \in Nat : i = at[w]
  BY DEF TypeInv, TypeOK
<1>2. shm \in Tables /\ InPage(shm) /\ shm.contAlert \in Nat
  BY TableTypes DEF TypeInv, TypeOK, StillFound
<1>3. i \in 0 .. (shm.contAlert - 1)
  BY <1>1 DEF DeleteAlert, StillFound, Found, AlertsNamed
<1>4. LastAlertFits(shm)
  <2> DEFINE n == shm.contAlert - 1
  <2>1. n \in 0 .. (shm.contAlert - 1) /\ n \in Nat
    BY <1>2, <1>3
  <2>2. \A o \in 0 .. 18 : Alert(n) + o \in Words
    BY <1>2, <2>1, AlertInPage
  <2>3. Alert(n) + 0 \in Words /\ Alert(n) + 18 \in Words /\ Alert(n) \in Int
    BY <2>1, <2>2, TablesAssumption DEF Alert
  <2>4. Alert(n) + 21 \in Words
    BY <2>1, <2>3 DEF AlertsEndInPage
  <2>5. Alert(n) + 0 = Alert(n) /\ Alert(shm.contAlert) - 1 = Alert(n) + 21
    BY <1>2, TablesAssumption DEF Alert
  <2> QED
    BY <2>3, <2>4, <2>5 DEF LastAlertFits
<1>5. shm' = RemoveAlert(shm, i)
  BY <1>1, <1>4 DEF DeleteAlert, Write
<1>6. Len(AlertsOf(shm)) = shm.contAlert /\ AlertsOf(shm) \in Seq(ShownAlerts)
  BY <1>2, AlertsAreShown
<1>7. i + 1 \in DOMAIN AlertsOf(shm) /\ (i + 1) - 1 = i /\ (i + 1) + 1 = i + 2
  BY <1>2, <1>3, <1>6
<1>8. AlertsOf(shm') = SubSeq(AlertsOf(shm), 1, i)
                         \o SubSeq(AlertsOf(shm), i + 2, Len(AlertsOf(shm)))
  BY <1>2, <1>3, <1>5, AlertRemoved
<1> QED
  BY <1>7, <1>8 DEF AlertTaken

LEMMA ShownWriteSensor ==
  ASSUME TypeInv, TypeInv', StillFound, SensorFirst, semaphore0 = "ours",
         TablesApart(shm), TablesApart(shm'), NEW w \in Workers, WriteSensor(w)
  PROVE  AlertsOf(shm') = AlertsOf(shm)
<1> DEFINE s == cmd[w].arg.sensor
           a == Sensor(shm, shm.contSen)
<1>1. /\ pc[w] = "writeSensor"
      /\ shm' = IF KeysEnd(shm) /\ Fits(a, 10) THEN AppendSensor(shm, s)
                ELSE IF KeysEnd(shm) THEN [shm EXCEPT !.word = PutSensor(@, a, s)]
                ELSE shm
  BY DEF WriteSensor, Write
<1>2. /\ shm \in Tables /\ InPage(shm) /\ shm' \in Tables /\ InPage(shm')
      /\ shm.contAlert \in Nat /\ shm.contSen \in Nat /\ shm.contKey \in Nat
      /\ shm.sensorList \in Nat /\ shm.word \in [Words -> Int]
      /\ shm.contAlert <= maxalerts
  BY TableTypes DEF TypeInv, TypeOK, StillFound, TablesApart
<1>3. s \in Int
  <2>1. cmd[w].arg \in Readings
    BY <1>1 DEF TypeInv, InHand, Fitting, ReadingLabels
  <2> QED
    BY <2>1, ArgumentTypes
<1>4. a \in Nat
  BY <1>2 DEF Sensor
<1>5. /\ Alert(0) \in Nat /\ OwnSensors \in Nat /\ Alert(0) <= OwnSensors
      /\ Alert(shm.contAlert) <= OwnSensors /\ Alert(shm.contAlert) \in Nat
  <2>1. 22 * shm.contAlert <= 22 * maxalerts
    BY <1>2, TablesAssumption
  <2> QED
    BY <1>2, <2>1, TablesAssumption DEF Alert, OwnSensors
<1> HIDE DEF s
<1>6. /\ shm'.contAlert = shm.contAlert
      /\ \A x \in Words :
           \/ x < a - 2 \/ x > a + 9
           \/ shm.contSen = 0 /\ x < a
           => shm'.word[x] = shm.word[x]
  <2>1. CASE KeysEnd(shm) /\ Fits(a, 10)
    <3>1. shm' = AppendSensor(shm, s)
      BY <1>1, <2>1
    <3>2. \A x \in Words : shm'.word[x] =
             IF shm.contSen # 0 /\ x = a - 2 THEN PointerLow + 4 * a
             ELSE IF shm.contSen # 0 /\ x = a - 1 THEN PointerHigh
             ELSE IF x = a THEN s
             ELSE IF x = a + 8 \/ x = a + 9 THEN 0 ELSE shm.word[x]
      BY <1>2, <1>3, <3>1, AppendSensorWords
    <3>3. shm'.contAlert = shm.contAlert
      BY <1>2, <1>3, <2>1, <3>1, AppendSensorType
    <3> HIDE DEF a
    <3> QED
      BY <1>4, <3>2, <3>3 DEF Words
  <2>2. CASE KeysEnd(shm) /\ ~Fits(a, 10)
    <3> HIDE DEF a
    <3>1. shm'.word = PutSensor(shm.word, a, s) /\ shm'.contAlert = shm.contAlert
      BY <1>1, <1>2, <2>2 DEF Tables
    <3>2. a \in Int /\ s \in Int /\ shm.word \in [Words -> Int]
      BY <1>2, <1>3, <1>4
    <3>3. \A x \in Words : x < a \/ x > a + 9
                            => PutSensor(shm.word, a, s)[x] = shm.word[x]
      BY <3>2, PutSensorElsewhere
    <3> QED
      BY <1>4, <3>1, <3>3 DEF Words
  <2> QED
    BY <1>1, <2>1, <2>2
<1>7. CASE shm.contKey = 0
  <2>1. a >= OwnSensors /\ (shm.contSen > 0 => a - 2 >= OwnSensors)
    BY <1>2, <1>7 DEF SensorFirst, Sensor
  <2>2. ASSUME NEW x \in Words, x < Alert(shm.contAlert) - 3
        PROVE  shm'.word[x] = shm.word[x]
    <3>1. /\ x < a /\ (shm.contSen > 0 => x < a - 2)
          /\ shm.contSen > 0 \/ shm.contSen = 0
      BY <1>2, <1>4, <1>5, <2>1, <2>2 DEF Words
    <3> QED
      BY <1>6, <3>1
  <2> QED
    BY <1>2, <1>6, <2>2, AlertsSame
<1>8. CASE shm.contKey # 0 /\ KeysEnd(shm)
  <2>1. /\ shm.contSen > 0 /\ shm.sensorList = Key(0) /\ Key(0) = 0
        /\ OwnSensors + 10 <= PageWords
    BY <1>2, <1>8 DEF SensorFirst, Key
  <2>2. a = 10 * shm.contSen
    BY <1>2, <2>1 DEF Sensor
  <2>3. a <= Alert(0)
    BY <2>1 DEF TablesApart
  <2>4. Fits(a, 10)
    <3> HIDE DEF a
    <3> QED
      BY <1>4, <1>5, <2>1, <2>3, TablesAssumption DEF Fits, Words
  <2>5. a + 10 <= Alert(0)
    <3>1. /\ shm'.contSen = shm.contSen + 1 /\ shm'.sensorList = Key(0)
      BY <1>1, <1>2, <1>3, <1>8, <2>1, <2>4, AppendSensorType
    <3>2. Sensor(shm', shm'.contSen) <= Alert(0)
      BY <1>2, <3>1 DEF TablesApart
    <3> QED
      BY <1>2, <2>1, <2>2, <3>1, <3>2 DEF Sensor
  <2>6. ASSUME NEW x \in Words, Alert(0) <= x PROVE shm'.word[x] = shm.word[x]
    <3>1. x > a + 9
      BY <1>4, <1>5, <2>5, <2>6 DEF Words
    <3> QED
      BY <1>6, <3>1
  <2> QED
    BY <1>2, <1>6, <2>6, AlertsSame
<1>9. CASE ~KeysEnd(shm)
  BY <1>1, <1>9
<1> QED
  BY <1>7, <1>8, <1>9

LEMMA ShownKeystats ==
  ASSUME TypeInv, TypeInv', StillFound, semaphore0 = "ours",
         TablesApart(shm), TablesApart(shm'),
         NEW w \in Workers, UpdateKeystats(w) \/ AppendKeystats(w)
  PROVE  AlertsOf(shm') = AlertsOf(shm)
<1> DEFINE k == cmd[w].arg.key
           v == cmd[w].arg.value
           a == Key(shm.contKey)
<1>1. /\ shm \in Tables /\ InPage(shm) /\ shm' \in Tables /\ InPage(shm')
      /\ shm.contAlert \in Nat /\ shm.contKey \in Nat
      /\ shm.word \in [Words -> Int] /\ shm.contKey <= maxkeys
  BY TableTypes DEF TypeInv, TypeOK, StillFound, TablesApart
<1>2. k \in Int /\ v \in Int
  <2>1. cmd[w].arg \in Readings
    BY DEF TypeInv, InHand, Fitting, ReadingLabels, UpdateKeystats, AppendKeystats
  <2> QED
    BY <2>1, ArgumentTypes
<1>3. a \in Nat /\ a <= Alert(0) /\ Alert(0) \in Nat
  BY <1>1, TablesAssumption DEF Key, Alert
<1>4. CASE UpdateKeystats(w)
  <2> DEFINE i == at[w]
  <2>1. shm' = UpdateKey(shm, i, v) /\ i \in 0 .. (shm.contKey - 1)
    BY <1>4 DEF UpdateKeystats, Write, StillFound, Found, KeysNamed
  <2> HIDE DEF k, v, i
  <2>2. /\ shm'.contAlert = shm.contAlert
        /\ \A x \in Words : x < last(Key(i)) \/ x > verified(Key(i))
                           => shm'.word[x] = shm.word[x]
    BY <1>1, <1>2, <2>1, UpdateKeyWords
  <2>3. verified(Key(i)) < Alert(0) /\ verified(Key(i)) \in Int
    BY <1>1, <2>1, TablesAssumption DEF verified, Key, Alert
  <2>4. ASSUME NEW x \in Words, Alert(0) <= x PROVE shm'.word[x] = shm.word[x]
    <3>1. x > verified(Key(i))
      BY <1>3, <2>3, <2>4 DEF Words
    <3> QED
      BY <2>2, <3>1
  <2> QED
    BY <1>1, <2>2, <2>4, AlertsSame
<1>5. CASE AppendKeystats(w)
  <2>1. shm' = IF AlertsEnd(shm) /\ Fits(a, 14) THEN AppendKey(shm, k, v)
               ELSE IF AlertsEnd(shm) THEN [shm EXCEPT !.word = PutKey(@, a, k, v)]
               ELSE shm
    BY <1>5 DEF AppendKeystats, Write
  <2> HIDE DEF k, v
  <2>2. CASE AlertsEnd(shm) /\ Fits(a, 14)
    <3>1. shm'.contKey = shm.contKey + 1 /\ shm'.contAlert = shm.contAlert
      BY <1>1, <1>2, <2>1, <2>2, AppendKeyType
    <3>2. a + 16 <= Alert(0)
      BY <1>1, <3>1, TablesAssumption DEF TablesApart, Key, Alert
    <3>3. \A x \in Words : shm'.word[x] =
             IF shm.contKey > 1 /\ x = a - 2 THEN PointerLow + 4 * a
             ELSE IF shm.contKey > 1 /\ x = a - 1 THEN PointerHigh
             ELSE IF x = a THEN k ELSE IF x = count(a) THEN 1
             ELSE IF x = verified(a) THEN 0
             ELSE IF last(a) <= x /\ x <= avg(a) THEN v ELSE shm.word[x]
      BY <1>1, <1>2, <2>1, <2>2, AppendKeyWords
    <3>4. ASSUME NEW x \in Words, Alert(0) <= x PROVE shm'.word[x] = shm.word[x]
      <4> HIDE DEF a
      <4> QED
        BY <1>3, <3>2, <3>3, <3>4 DEF Words, count, verified, last, avg
    <3> QED
      BY <1>1, <3>1, <3>4, AlertsSame
  <2>3. CASE AlertsEnd(shm) /\ ~Fits(a, 14)
    <3>1. /\ shm'.word = PutKey(shm.word, a, k, v)
          /\ shm'.contAlert = shm.contAlert
      BY <1>1, <2>1, <2>3 DEF Tables
    <3>2. \A x \in Words : x < a \/ x > verified(a)
                            => PutKey(shm.word, a, k, v)[x] = shm.word[x]
      <4> HIDE DEF a
      <4>1. a \in Int /\ k \in Int /\ v \in Int /\ shm.word \in [Words -> Int]
        BY <1>1, <1>2, <1>3
      <4> QED
        BY <4>1, PutKeyElsewhere
    <3>3. ASSUME NEW x \in Words, Alert(0) <= x, x < Alert(shm.contAlert) - 3
          PROVE  shm'.word[x] = shm.word[x]
      <4>1. shm.contAlert > 0
        <5> HIDE DEF a, k, v
        <5>1. x \in Nat /\ (shm.contAlert = 0 => Alert(0) = Alert(shm.contAlert))
          BY <3>3 DEF Words
        <5> QED
          BY <1>1, <1>3, <3>3, <5>1
      <4>2. Alert(0) + 18 \in Words
        BY <1>1, <4>1, AlertInPage
      <4>3. CASE shm.contKey = maxkeys
        <5>1. a = Alert(0)
          BY <4>3, TablesAssumption DEF Key, Alert
        <5> HIDE DEF a
        <5> QED
          BY <1>3, <2>3, <4>2, <5>1, TablesAssumption DEF Fits, Words
      <4>4. CASE shm.contKey # maxkeys
        <5>1. a + 16 <= Alert(0)
          BY <1>1, <4>4, TablesAssumption DEF Key, Alert
        <5> HIDE DEF a
        <5> QED
          BY <1>3, <3>1, <3>2, <3>3, <5>1 DEF Words, verified
      <4> QED
        BY <4>3, <4>4
    <3> QED
      BY <1>1, <3>1, <3>3, AlertsSame
  <2> QED
    BY <2>1, <2>2, <2>3
<1> QED
  BY <1>4, <1>5

LEMMA ShownCheckKey ==
  ASSUME TypeInv, TypeInv', StillFound, semaphore0 = "ours", TablesApart(shm), CheckKey
  PROVE  AlertsOf(shm') = AlertsOf(shm)
<1>1. /\ shm \in Tables /\ InPage(shm) /\ shm' \in Tables /\ InPage(shm')
      /\ shm.contAlert \in Nat /\ shm.contKey \in Nat /\ look \in Nat
      /\ shm.word \in [Words -> Int] /\ shm.contKey <= maxkeys /\ look < shm.contKey
  BY TableTypes DEF TypeInv, TypeOK, StillFound, TablesApart, CheckKey
<1>2. CASE Mark(look)
  <2> DEFINE m == verified(Key(look))
  <2>1. shm'.word = [shm.word EXCEPT ![m] = 1] /\ shm'.contAlert = shm.contAlert
    BY <1>1, <1>2 DEF Mark, Tables
  <2>2. m < Alert(0) /\ m \in Nat /\ Alert(0) \in Nat
    BY <1>1, TablesAssumption DEF verified, Key, Alert
  <2> HIDE DEF m
  <2>3. ASSUME NEW x \in Words, Alert(0) <= x PROVE shm'.word[x] = shm.word[x]
    BY <1>1, <2>1, <2>2, <2>3 DEF Words
  <2> QED
    BY <1>1, <2>1, <2>3, AlertsSame
<1>3. CASE UNCHANGED shm
  BY <1>3
<1> QED
  BY <1>2, <1>3 DEF CheckKey

LEMMA AlertsAsInBook ==
  ASSUME AlertsEndInPage, TypeInv, TypeInv', StillFound, SensorFirst, [Next]_vars,
         semaphore0 = "ours", TablesApart(shm), TablesApart(shm')
  PROVE  AlertsOf(shm') = AlertsOf(shm) \/ AlertAdded \/ AlertTaken
<1>1. ASSUME UNCHANGED shm PROVE AlertsOf(shm') = AlertsOf(shm)
  BY <1>1
<1>2. ASSUME NEW w \in Workers, Take(w) PROVE AlertsOf(shm') = AlertsOf(shm)
  BY <1>1, <1>2 DEF Take
<1>3. ASSUME NEW w \in Workers, CarryOut(w)
      PROVE  AlertsOf(shm') = AlertsOf(shm) \/ AlertAdded \/ AlertTaken
  <2>1. CASE FindSensor(w) \/ FindKey(w) \/ Post(w) \/ FindAlert(w) \/ List(w)
             \/ Reset(w) \/ SendAnswer(w)
    BY <1>1, <2>1 DEF FindSensor, FindKey, Post, FindAlert, List, Reset, SendAnswer
  <2>2. CASE WriteSensor(w)
    BY <2>2, ShownWriteSensor
  <2>3. CASE UpdateKeystats(w) \/ AppendKeystats(w)
    BY <2>3, ShownKeystats
  <2>4. CASE AddAlert(w)
    BY <2>4, ShownAddAlert
  <2>5. CASE DeleteAlert(w)
    BY <2>5, ShownDeleteAlert
  <2> QED
    BY <1>3, <2>1, <2>2, <2>3, <2>4, <2>5 DEF CarryOut
<1>4. CASE Wake \/ BeginCheck \/ EndCheck \/ TryWait
  BY <1>1, <1>4 DEF Wake, BeginCheck, EndCheck, TryWait
<1>5. ASSUME NEW c \in Consoles, OpenConsole(c) \/ Listen(c) \/ CloseConsole(c)
      PROVE  AlertsOf(shm') = AlertsOf(shm)
  BY <1>1, <1>5 DEF OpenConsole, Listen, CloseConsole, offConsole
<1>6. CASE UNCHANGED vars
  BY <1>1, <1>6 DEF vars
<1> QED
  BY <1>2, <1>3, <1>4, <1>5, <1>6, ShownCheckKey DEF Next, Watch

\* Readings, keys and sensors leave the alerts alone: a step adds an alert with a new
\* identifier at the end, takes one out, or leaves them all and in their order.
THEOREM AlertBook == AlertsEndInPage => (Spec => AlertsAreABook)
<1> SUFFICES ASSUME AlertsEndInPage PROVE Spec => AlertsAreABook
  OBVIOUS
<1>1. Contents /\ Contents' /\ [Next]_vars =>
        [semaphore0 = "ours" /\ TablesApart(shm) /\ TablesApart(shm') =>
           LET old == AlertsOf(shm)
               new == AlertsOf(shm') IN
             \/ new = old
             \/ \E a \in Alerts, c \in Consoles :
                  /\ \A e \in DOMAIN old : old[e].id # a.id
                  /\ new = Append(old, [id |-> a.id, key |-> a.key, min |-> a.min,
                                        max |-> a.max, user |-> c])
             \/ \E e \in DOMAIN old :
                  new = SubSeq(old, 1, e - 1) \o SubSeq(old, e + 1, Len(old))]_vars
  <2> SUFFICES ASSUME Contents, Contents', [Next]_vars, semaphore0 = "ours",
                      TablesApart(shm), TablesApart(shm')
               PROVE  AlertsOf(shm') = AlertsOf(shm) \/ AlertAdded \/ AlertTaken
    BY Zenon DEF AlertAdded, AlertTaken
  <2> QED
    BY AlertsAsInBook DEF Contents
<1> QED
  BY <1>1, ContentsInvariant, PTL DEF Spec, AlertsAreABook
================================================================================
