------------------------------- MODULE IotTables -------------------------------
(***************************************************************************)
(* The tables of the home simulator in their shared memory segment.  The   *)
(* segment is requested with the size of its header alone, so the tables   *)
(* live in the rest of its page: keystatsList behind the header, alertList *)
(* behind maxkeys keys, sensorList behind maxalerts alerts.  Nothing       *)
(* enforces these maxima, and one of the three list pointers is itself     *)
(* overwritten, so the tables are modelled as what they are: the 32-bit    *)
(* words of the page, addressed from keystatsList.                         *)
(*                                                                         *)
(* A name of three characters and its NUL fill one word; it is the integer *)
(* those bytes make.                                                       *)
(***************************************************************************)
EXTENDS Integers

CONSTANTS
  maxkeys, maxalerts,      \* configuration
  PageWords,               \* words of the page behind the header
  PointerLow, PointerHigh  \* the address of keystatsList, as two integers

\* What read_conf accepts, and any segment.
ASSUME TablesAssumption ==
  /\ maxkeys \in Nat \ {0} /\ maxalerts \in Nat /\ PageWords \in Nat
  /\ PointerLow \in Int /\ PointerHigh \in Int

Words == 0 .. (PageWords - 1)

\* keyStats, alertStruct and sensor: 16, 22 and 10 words.
Key(i)     == 16 * i
Alert(i)   == 16 * maxkeys + 22 * i
OwnSensors == 16 * maxkeys + 22 * maxalerts
Sensor(t, i) == t.sensorList + 10 * i

last(a)     == a + 8
minValue(a) == a + 9
maxValue(a) == a + 10
avg(a)      == a + 11
count(a)    == a + 12
verified(a) == a + 13

\* The words with what is written to an entry at address a, as far as the page
\* goes.  A pointer is NULL or an address in the segment.
PutSensor(word, a, s) == [word EXCEPT ![a] = s, ![a + 8] = 0, ![a + 9] = 0]
PutKey(word, a, k, v) ==
  [word EXCEPT ![a] = k, ![last(a)] = v, ![minValue(a)] = v, ![maxValue(a)] = v,
               ![count(a)] = 1, ![avg(a)] = v, ![verified(a)] = 0]
\* alert: [id, key, min, max].
PutAlert(word, a, alert, user) ==
  [word EXCEPT ![a] = alert.id, ![a + 8] = alert.key, ![a + 16] = alert.min,
               ![a + 17] = alert.max, ![a + 18] = user]
\* The pointer at the end of the entry before address a is set to a.
LinkTo(word, a) ==
  [word EXCEPT ![a - 2] = PointerLow + 4 * a, ![a - 1] = PointerHigh]

\* Variant: the page has no end.
FitsAlways(a, size) == TRUE
\* Otherwise the process faults at the end of the page.
Fits(a, size) == a \in Words /\ a + size - 1 \in Words

\* Variant: the end of the chain is known.
EndsAlways(word, a, offset) == TRUE
\* getlistsizes follows the next pointers, at offset in each entry, from the one at
\* address a.  It comes to NULL, or the process faults: beyond the page, or where
\* something else than a pointer lies.  Pointers lead to entries further on.
Ends(word, a, offset) ==
  LET ends[e \in Words] ==
        LET low == e + offset
            high == low + 1 IN
          /\ low \in Words /\ high \in Words
          /\ \/ word[low] = 0 /\ word[high] = 0
             \/ \E f \in Words : /\ f > e
                                 /\ word[low] = PointerLow + 4 * f
                                 /\ word[high] = PointerHigh
                                 /\ ends[f]
  IN a \in Words /\ ends[a]

\* The keys are walked before a sensor is added, the alerts before a key.
KeysEnd(t)   == Ends(t.word, Key(0), 14)
AlertsEnd(t) == Ends(t.word, Alert(0), 20)

Tables ==
  [word : [Words -> Int], sensorList : {OwnSensors, Key(0)},
   contKey : Nat, contSen : Nat, contAlert : Int]

\* create_shared_memory.
EmptyTables ==
  [word |-> [a \in Words |-> 0], sensorList |-> OwnSensors,
   contKey |-> 0, contSen |-> 0, contAlert |-> 0]

--------------------------------------------------------------------------------
(* The searches: the first entry with that name *)

SensorsNamed(t, s) == {i \in 0 .. (t.contSen - 1) : t.word[Sensor(t, i)] = s}
KeysNamed(t, k)    == {i \in 0 .. (t.contKey - 1) : t.word[Key(i)] = k}
AlertsNamed(t, id) == {i \in 0 .. (t.contAlert - 1) : t.word[Alert(i)] = id}
\* findAlertByKey.
AlertsOn(t, k) == {i \in 0 .. (t.contAlert - 1) : t.word[Alert(i) + 8] = k}

First(S) == CHOOSE i \in S : \A j \in S : i <= j

--------------------------------------------------------------------------------
(* addSensor, addKeystats, addAlertToList, deleteAlertFromList *)

AppendSensor(t, s) ==
  LET a == Sensor(t, t.contSen)
      word == PutSensor(t.word, a, s) IN
    [t EXCEPT !.word = IF t.contSen # 0 THEN LinkTo(word, a) ELSE word,
              !.contSen = @ + 1]

\* Every entry but the second is linked from the one before it.  For the first,
\* that is the last pointer of the header: sensorList becomes keystatsList.
AppendKey(t, k, v) ==
  LET a == Key(t.contKey)
      word == PutKey(t.word, a, k, v) IN
    [t EXCEPT !.word = IF t.contKey > 1 THEN LinkTo(word, a) ELSE word,
              !.sensorList = IF t.contKey = 0 THEN Key(0) ELSE @,
              !.contKey = @ + 1]

\* Division of integers as in C.
Quotient(x, y) ==
  LET Size(z) == IF z < 0 THEN -z ELSE z
      q == Size(x) \div Size(y) IN
    IF x < 0 <=> y < 0 THEN q ELSE -q

\* A count of -1, which another table must have left there, makes the average
\* divide by zero: minimum, maximum and count are written by then.
Divides(t, i) == t.word[count(Key(i))] # -1
CountReading(word, a, v) ==
  [word EXCEPT ![minValue(a)] = IF @ > v THEN v ELSE @,
               ![maxValue(a)] = IF @ < v THEN v ELSE @, ![count(a)] = @ + 1]
UpdateKey(t, i, v) ==
  LET a == Key(i)
      n == t.word[count(a)] + 1
      word == CountReading(t.word, a, v) IN
    [t EXCEPT !.word =
      IF Divides(t, i)
        THEN [word EXCEPT ![avg(a)] = Quotient(@ * (n - 1) + v, n),
                          ![last(a)] = v, ![verified(a)] = 0]
        ELSE word]

\* Again every entry but the second is linked; the first one's predecessor is the
\* end of the key table.
AppendAlert(t, alert, user) ==
  LET a == Alert(t.contAlert)
      word == PutAlert(t.word, a, alert, user) IN
    [t EXCEPT !.word = IF t.contAlert # 1 THEN LinkTo(word, a) ELSE word,
              !.contAlert = @ + 1]

\* The last entry lies in the page, its pointer included.
LastAlertFits(t) == {Alert(t.contAlert - 1), Alert(t.contAlert) - 1} \subseteq Words

\* What address x holds when the entries behind entry i have moved up, as far as
\* they can be read.
Moved(t, i, x) ==
  IF x >= Alert(i) /\ x + 22 < Alert(t.contAlert) /\ x + 22 \in Words
    THEN t.word[x + 22] ELSE t.word[x]
InLastAlert(t, x) == Alert(t.contAlert - 1) <= x /\ x < Alert(t.contAlert)

MoveUp(t, i) == [t EXCEPT !.word = [x \in Words |-> Moved(t, i, x)]]
\* Variant: the last entry is cleared before the entries move.
RemoveAlertShort(t, i) ==
  [t EXCEPT !.word = [x \in Words |->
     IF InLastAlert(t, x) \/ (x >= Alert(i) /\ InLastAlert(t, x + 22)) THEN 0
                                                            ELSE Moved(t, i, x)],
            !.contAlert = @ - 1]
\* The entry that is last after the move is cleared.
RemoveAlert(t, i) ==
  [t EXCEPT !.word = [x \in Words |-> IF InLastAlert(t, x) THEN 0 ELSE Moved(t, i, x)],
            !.contAlert = @ - 1]

--------------------------------------------------------------------------------
(* Where the tables run into each other *)

\* The words the sensor table writes once it lies on the key table.
Overlaid(t, a) ==
  /\ t.sensorList = Key(0)
  /\ \E i \in 0 .. (t.contSen - 1) : \/ a \in {10 * i + 8, 10 * i + 9}
                                     \/ i > 0 /\ a = 10 * i

\* What is counted lies in the page, but for the pointer at its end.
InPage(t) ==
  /\ t.contKey > 0 => verified(Key(t.contKey - 1)) \in Words
  /\ t.contSen > 0 => Sensor(t, t.contSen - 1) + 9 \in Words
  /\ t.contAlert > 0 => Alert(t.contAlert - 1) + 18 \in Words

TablesApart(t) ==
  /\ t.contKey <= maxkeys
  /\ t.contAlert <= maxalerts
  /\ t.contSen > 0 =>
       Sensor(t, t.contSen) <= IF t.sensorList = Key(0) THEN Alert(0) ELSE PageWords
NamesIntact(t) ==
  t.contKey <= maxkeys /\ \A i \in 0 .. (t.contKey - 1) : ~Overlaid(t, Key(i))

\* The alerts, as list_alerts shows them.
AlertsOf(t) ==
  [i \in 1 .. t.contAlert |->
     LET a == Alert(i - 1) IN
       [id |-> t.word[a], key |-> t.word[a + 8], min |-> t.word[a + 16],
        max |-> t.word[a + 17], user |-> t.word[a + 18]]]
================================================================================
