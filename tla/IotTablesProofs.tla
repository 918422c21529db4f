---------------------------- MODULE IotTablesProofs ----------------------------
(***************************************************************************)
(* Lemmas about the tables of the home simulator: what each operation      *)
(* leaves in the page, whatever the tables were before.                    *)
(***************************************************************************)
EXTENDS IotTables, WellFoundedInduction, TLAPS

\* The searches return the first entry that matches.
LEMMA FirstIsLeast ==
  ASSUME NEW S, S \subseteq Nat, S # {}
  PROVE  First(S) \in S /\ \A j \in S : First(S) <= j
<1> DEFINE R == OpToRel(<, Nat)
<1>1. IsWellFoundedOn(R, Nat)
  BY NatLessThanWellFounded
<1>2. \A x, y \in Nat : <<y, x>> \in R <=> y < x
  BY DEF OpToRel
<1> HIDE DEF R
<1>3. PICK x \in S : \A y \in S : ~(<<y, x>> \in R)
  BY <1>1, WFMin
<1>4. ASSUME NEW y \in S PROVE x <= y
  <2>1. x \in Nat /\ y \in Nat /\ ~(<<y, x>> \in R)
    BY <1>3
  <2>2. ~(y < x)
    BY <1>2, <2>1
  <2> QED
    BY <2>1, <2>2
<1> QED
  BY <1>4 DEF First

LEMMA TableTypes ==
  ASSUME NEW t \in Tables
  PROVE  /\ t.word \in [Words -> Int]
         /\ t.sensorList \in Nat /\ t.sensorList \in {OwnSensors, Key(0)}
         /\ t.contKey \in Nat /\ t.contSen \in Nat /\ t.contAlert \in Int
BY TablesAssumption DEF Tables, OwnSensors, Key

LEMMA KeyInPage ==
  ASSUME NEW t \in Tables, InPage(t), NEW i \in 0 .. (t.contKey - 1)
  PROVE  \A o \in 0 .. 13 : Key(i) + o \in Words
<1>1. t.contKey > 0 /\ t.contKey \in Nat /\ i <= t.contKey - 1 /\ i \in Nat
  BY TableTypes
<1>2. verified(Key(t.contKey - 1)) \in Words
  BY <1>1 DEF InPage
<1>3. 16 * i + 13 < PageWords
  BY <1>1, <1>2, TablesAssumption DEF Key, verified, Words
<1> QED
  BY <1>1, <1>3, TablesAssumption DEF Key, Words

LEMMA AlertInPage ==
  ASSUME NEW t \in Tables, InPage(t), NEW i \in 0 .. (t.contAlert - 1)
  PROVE  \A o \in 0 .. 18 : Alert(i) + o \in Words
<1>1. t.contAlert > 0 /\ i <= t.contAlert - 1 /\ i \in Nat
  BY TableTypes
<1>2. Alert(t.contAlert - 1) + 18 < PageWords
  BY <1>1, TableTypes, TablesAssumption DEF InPage, Words
<1>3. 16 * maxkeys + 22 * i + 18 < PageWords /\ 16 * maxkeys \in Nat
  BY <1>1, <1>2, TableTypes, TablesAssumption DEF Alert
<1> QED
  BY <1>1, <1>3, TablesAssumption DEF Alert, Words

LEMMA EmptyTablesInPage == EmptyTables \in Tables /\ InPage(EmptyTables)
BY TablesAssumption DEF EmptyTables, Tables, InPage

\* Changing words changes neither what is counted nor where it lies.
LEMMA WordsOnly ==
  ASSUME NEW t \in Tables, InPage(t), NEW word \in [Words -> Int]
  PROVE  LET u == [t EXCEPT !.word = word] IN
           /\ u \in Tables /\ InPage(u)
           /\ u.word = word /\ u.sensorList = t.sensorList
           /\ u.contKey = t.contKey /\ u.contSen = t.contSen
           /\ u.contAlert = t.contAlert
BY DEF Tables, InPage, Sensor

\* What each write leaves at every address.
LEMMA PutSensorWords ==
  ASSUME NEW word \in [Words -> Int], NEW a \in Int, NEW s \in Int
  PROVE  /\ PutSensor(word, a, s) \in [Words -> Int]
         /\ \A x \in Words : PutSensor(word, a, s)[x] =
              IF x = a THEN s ELSE IF x = a + 8 \/ x = a + 9 THEN 0 ELSE word[x]
<1> DEFINE Stored(x) ==
      IF x = a + 9 THEN 0 ELSE IF x = a + 8 THEN 0 ELSE IF x = a THEN s ELSE word[x]
<1>1. PutSensor(word, a, s) = [x \in Words |-> Stored(x)]
  BY DEF PutSensor
<1>2. \A x \in Words : Stored(x) \in Int
  OBVIOUS
<1> HIDE DEF Stored
<1>3. /\ PutSensor(word, a, s) \in [Words -> Int]
      /\ \A x \in Words : PutSensor(word, a, s)[x] = Stored(x)
  BY <1>1, <1>2
<1> QED
  BY <1>3 DEF Stored, Words

LEMMA PutKeyWords ==
  ASSUME NEW word \in [Words -> Int], NEW a \in Int, NEW k \in Int, NEW v \in Int
  PROVE  /\ PutKey(word, a, k, v) \in [Words -> Int]
         /\ \A x \in Words : PutKey(word, a, k, v)[x] =
              IF x = a THEN k ELSE IF x = count(a) THEN 1
              ELSE IF x = verified(a) THEN 0
              ELSE IF last(a) <= x /\ x <= avg(a) THEN v ELSE word[x]
<1> DEFINE Stored(x) ==
      IF x = verified(a) THEN 0 ELSE IF x = avg(a) THEN v ELSE IF x = count(a) THEN 1
      ELSE IF x = maxValue(a) THEN v ELSE IF x = minValue(a) THEN v
      ELSE IF x = last(a) THEN v ELSE IF x = a THEN k ELSE word[x]
<1>1. PutKey(word, a, k, v) = [x \in Words |-> Stored(x)]
  BY DEF PutKey, last, minValue, maxValue, avg, count, verified
<1>2. \A x \in Words : Stored(x) \in Int
  OBVIOUS
<1> HIDE DEF Stored
<1>3. /\ PutKey(word, a, k, v) \in [Words -> Int]
      /\ \A x \in Words : PutKey(word, a, k, v)[x] = Stored(x)
  BY <1>1, <1>2
<1> QED
  BY <1>3 DEF Stored, last, minValue, maxValue, avg, count, verified, Words

\* Words outside an entry stay as they are.
LEMMA PutSensorElsewhere ==
  ASSUME NEW word \in [Words -> Int], NEW a \in Int, NEW s \in Int
  PROVE  \A x \in Words : x < a \/ x > a + 9 => PutSensor(word, a, s)[x] = word[x]
<1>1. \A x \in Words : PutSensor(word, a, s)[x] =
        IF x = a THEN s ELSE IF x = a + 8 \/ x = a + 9 THEN 0 ELSE word[x]
  BY PutSensorWords
<1> QED
  BY <1>1 DEF Words

LEMMA PutKeyElsewhere ==
  ASSUME NEW word \in [Words -> Int], NEW a \in Int, NEW k \in Int, NEW v \in Int
  PROVE  \A x \in Words :
           x < a \/ x > verified(a) => PutKey(word, a, k, v)[x] = word[x]
<1>1. \A x \in Words : PutKey(word, a, k, v)[x] =
        IF x = a THEN k ELSE IF x = count(a) THEN 1
        ELSE IF x = verified(a) THEN 0
        ELSE IF last(a) <= x /\ x <= avg(a) THEN v ELSE word[x]
  BY PutKeyWords
<1> QED
  BY <1>1 DEF Words, last, avg, count, verified

LEMMA PutAlertWords ==
  ASSUME NEW word \in [Words -> Int], NEW a \in Int, NEW user \in Int,
         NEW alert \in [id : Int, key : Int, min : Int, max : Int]
  PROVE  /\ PutAlert(word, a, alert, user) \in [Words -> Int]
         /\ \A x \in Words : PutAlert(word, a, alert, user)[x] =
              IF x = a THEN alert.id ELSE IF x = a + 8 THEN alert.key
              ELSE IF x = a + 16 THEN alert.min ELSE IF x = a + 17 THEN alert.max
              ELSE IF x = a + 18 THEN user ELSE word[x]
<1> DEFINE Stored(x) ==
      IF x = a + 18 THEN user ELSE IF x = a + 17 THEN alert.max
      ELSE IF x = a + 16 THEN alert.min ELSE IF x = a + 8 THEN alert.key
      ELSE IF x = a THEN alert.id ELSE word[x]
<1>1. PutAlert(word, a, alert, user) = [x \in Words |-> Stored(x)]
  BY DEF PutAlert
<1>2. \A x \in Words : Stored(x) \in Int
  OBVIOUS
<1> HIDE DEF Stored
<1>3. /\ PutAlert(word, a, alert, user) \in [Words -> Int]
      /\ \A x \in Words : PutAlert(word, a, alert, user)[x] = Stored(x)
  BY <1>1, <1>2
<1> QED
  BY <1>3 DEF Stored, Words

LEMMA LinkToWords ==
  ASSUME NEW word \in [Words -> Int], NEW a \in Int
  PROVE  /\ LinkTo(word, a) \in [Words -> Int]
         /\ \A x \in Words : LinkTo(word, a)[x] =
              IF x = a - 2 THEN PointerLow + 4 * a
              ELSE IF x = a - 1 THEN PointerHigh ELSE word[x]
<1> DEFINE Stored(x) ==
      IF x = a - 1 THEN PointerHigh
      ELSE IF x = a - 2 THEN PointerLow + 4 * a ELSE word[x]
<1>1. LinkTo(word, a) = [x \in Words |-> Stored(x)]
  BY DEF LinkTo
<1>2. \A x \in Words : Stored(x) \in Int
  BY TablesAssumption
<1> HIDE DEF Stored
<1>3. /\ LinkTo(word, a) \in [Words -> Int]
      /\ \A x \in Words : LinkTo(word, a)[x] = Stored(x)
  BY <1>1, <1>2
<1> QED
  BY <1>3 DEF Stored, Words

LEMMA AppendSensorType ==
  ASSUME NEW t \in Tables, InPage(t), NEW s \in Int, Fits(Sensor(t, t.contSen), 10)
  PROVE  LET u == AppendSensor(t, s) IN
           /\ u \in Tables /\ InPage(u)
           /\ u.sensorList = t.sensorList /\ u.contSen = t.contSen + 1
           /\ u.contKey = t.contKey /\ u.contAlert = t.contAlert
<1> DEFINE a == Sensor(t, t.contSen)
           put == PutSensor(t.word, a, s)
           word == IF t.contSen # 0 THEN LinkTo(put, a) ELSE put
           n == t.contSen + 1
<1>1. a \in Int
  BY TableTypes DEF Sensor
<1>2. word \in [Words -> Int]
  BY <1>1, PutSensorWords, LinkToWords, TableTypes
<1>3. AppendSensor(t, s) = [t EXCEPT !.word = word, !.contSen = n] /\ n \in Nat
  BY TableTypes DEF AppendSensor
<1>4. a + 9 \in Words
  BY <1>1 DEF Fits, Words
<1> HIDE DEF word, n
<1>5. LET u == AppendSensor(t, s) IN
        /\ u \in Tables
        /\ u.sensorList = t.sensorList /\ u.contSen = n
        /\ u.contKey = t.contKey /\ u.contAlert = t.contAlert
  BY <1>2, <1>3 DEF Tables
<1> QED
  BY <1>4, <1>5, TableTypes DEF InPage, Sensor, n

LEMMA AppendKeyType ==
  ASSUME NEW t \in Tables, InPage(t), NEW k \in Int, NEW v \in Int,
         Fits(Key(t.contKey), 14)
  PROVE  LET u == AppendKey(t, k, v) IN
           /\ u \in Tables /\ InPage(u)
           /\ u.sensorList = IF t.contKey = 0 THEN Key(0) ELSE t.sensorList
           /\ u.contKey = t.contKey + 1
           /\ u.contSen = t.contSen /\ u.contAlert = t.contAlert
<1> DEFINE a == Key(t.contKey)
           put == PutKey(t.word, a, k, v)
           word == IF t.contKey > 1 THEN LinkTo(put, a) ELSE put
           list == IF t.contKey = 0 THEN Key(0) ELSE t.sensorList
           n == t.contKey + 1
<1>1. a \in Int
  BY TableTypes DEF Key
<1>2. word \in [Words -> Int]
  <2>1. t.word \in [Words -> Int]
    BY TableTypes
  <2>2. put \in [Words -> Int]
    BY <1>1, <2>1, PutKeyWords
  <2> HIDE DEF a, put
  <2>3. LinkTo(put, a) \in [Words -> Int]
    BY <1>1, <2>2, LinkToWords
  <2> QED
    BY <2>2, <2>3
<1>3. /\ n \in Nat
      /\ AppendKey(t, k, v)
           = [t EXCEPT !.word = word, !.sensorList = list, !.contKey = n]
  BY TableTypes DEF AppendKey
<1>4. verified(a) \in Words
  BY <1>1 DEF Fits, Words, verified
<1>5. list \in {OwnSensors, Key(0)} /\ list <= t.sensorList
  BY TableTypes DEF Key
<1> HIDE DEF word, list, n
<1>6. LET u == AppendKey(t, k, v) IN
        /\ u \in Tables
        /\ u.sensorList = list /\ u.contKey = n
        /\ u.contSen = t.contSen /\ u.contAlert = t.contAlert
  BY <1>2, <1>3, <1>5 DEF Tables
<1>7. ASSUME t.contSen > 0
      PROVE  list + 10 * (t.contSen - 1) + 9 \in Words
  <2>1. list \in Nat
    BY <1>5, TablesAssumption DEF OwnSensors, Key
  <2>2. t.sensorList + 10 * (t.contSen - 1) + 9 < PageWords
    BY <1>7, TableTypes, TablesAssumption DEF InPage, Sensor, Words
  <2>3. t.contSen \in Nat /\ t.sensorList \in Nat
    BY TableTypes
  <2>4. list <= t.sensorList
    BY <1>5
  <2> HIDE DEF list
  <2> QED
    BY <1>7, <2>1, <2>2, <2>3, <2>4, TablesAssumption DEF Words
<1>8. InPage(AppendKey(t, k, v))
  <2>1. n - 1 = t.contKey
    BY TableTypes DEF n
  <2> QED
    BY <1>4, <1>6, <1>7, <2>1 DEF InPage, Sensor
<1> QED
  BY <1>6, <1>8 DEF list, n

LEMMA AppendAlertType ==
  ASSUME NEW t \in Tables, InPage(t), NEW user \in Int,
         NEW alert \in [id : Int, key : Int, min : Int, max : Int],
         Fits(Alert(t.contAlert), 19)
  PROVE  LET u == AppendAlert(t, alert, user) IN
           /\ u \in Tables /\ InPage(u)
           /\ u.sensorList = t.sensorList /\ u.contAlert = t.contAlert + 1
           /\ u.contKey = t.contKey /\ u.contSen = t.contSen
<1> DEFINE a == Alert(t.contAlert)
           put == PutAlert(t.word, a, alert, user)
           word == IF t.contAlert # 1 THEN LinkTo(put, a) ELSE put
           n == t.contAlert + 1
<1>1. a \in Int
  BY TableTypes, TablesAssumption DEF Alert
<1>2. word \in [Words -> Int]
  BY <1>1, PutAlertWords, LinkToWords, TableTypes
<1>3. /\ n \in Int
      /\ AppendAlert(t, alert, user) = [t EXCEPT !.word = word, !.contAlert = n]
  BY TableTypes DEF AppendAlert
<1>4. a + 18 \in Words
  BY <1>1 DEF Fits, Words
<1> HIDE DEF word, n
<1>5. LET u == AppendAlert(t, alert, user) IN
        /\ u \in Tables
        /\ u.sensorList = t.sensorList /\ u.contAlert = n
        /\ u.contKey = t.contKey /\ u.contSen = t.contSen
  BY <1>2, <1>3 DEF Tables
<1> QED
  BY <1>4, <1>5, TableTypes DEF InPage, Sensor, Alert, n

LEMMA QuotientType ==
  ASSUME NEW x \in Int, NEW y \in Int, y # 0 PROVE Quotient(x, y) \in Int
<1> DEFINE Size(z) == IF z < 0 THEN -z ELSE z
<1>1. Size(x) \in Nat /\ Size(y) \in Nat /\ Size(y) > 0
  OBVIOUS
<1> HIDE DEF Size
<1>2. Size(x) \div Size(y) \in Int
  BY <1>1
<1> QED
  BY <1>2 DEF Quotient, Size

LEMMA CountReadingWords ==
  ASSUME NEW word \in [Words -> Int], NEW a \in Int, NEW v \in Int,
         minValue(a) \in Words, maxValue(a) \in Words, count(a) \in Words
  PROVE  /\ CountReading(word, a, v) \in [Words -> Int]
         /\ \A x \in Words :
              /\ x = count(a) => CountReading(word, a, v)[x] = word[x] + 1
              /\ x \notin {minValue(a), maxValue(a), count(a)}
                   => CountReading(word, a, v)[x] = word[x]
<1> DEFINE Stored(x) ==
      IF x = count(a) THEN word[count(a)] + 1
      ELSE IF x = maxValue(a)
        THEN IF word[maxValue(a)] < v THEN v ELSE word[maxValue(a)]
      ELSE IF x = minValue(a)
        THEN IF word[minValue(a)] > v THEN v ELSE word[minValue(a)]
      ELSE word[x]
<1>1. minValue(a) # maxValue(a) /\ minValue(a) # count(a) /\ maxValue(a) # count(a)
  BY DEF minValue, maxValue, count
<1>2. CountReading(word, a, v) = [x \in Words |-> Stored(x)]
  BY <1>1 DEF CountReading
<1>3. \A x \in Words : Stored(x) \in Int
  OBVIOUS
<1> QED
  BY <1>2, <1>3

LEMMA UpdateKeyWords ==
  ASSUME NEW t \in Tables, InPage(t), NEW i \in 0 .. (t.contKey - 1), NEW v \in Int
  PROVE  LET u == UpdateKey(t, i, v)
             a == Key(i) IN
           /\ u \in Tables /\ InPage(u)
           /\ u.sensorList = t.sensorList /\ u.contKey = t.contKey
           /\ u.contSen = t.contSen /\ u.contAlert = t.contAlert
           /\ \A x \in Words : x < last(a) \/ x > verified(a) => u.word[x] = t.word[x]
           /\ u.word[count(a)] = t.word[count(a)] + 1
           /\ Divides(t, i) => u.word[verified(a)] = 0
           /\ ~Divides(t, i) => u.word[verified(a)] = t.word[verified(a)]
<1> DEFINE a == Key(i)
           n == t.word[count(a)] + 1
           part == CountReading(t.word, a, v)
           mean == Quotient(part[avg(a)] * (n - 1) + v, n)
           word == IF Divides(t, i)
                     THEN [part EXCEPT ![avg(a)] = Quotient(@ * (n - 1) + v, n),
                                       ![last(a)] = v, ![verified(a)] = 0]
                     ELSE part
           Stored(x) == IF x = verified(a) THEN 0 ELSE IF x = last(a) THEN v
                        ELSE IF x = avg(a) THEN mean ELSE part[x]
<1>1. /\ t.word \in [Words -> Int] /\ a \in Int
      /\ \A o \in 0 .. 13 : a + o \in Words
  BY KeyInPage, TableTypes DEF Key
<1> HIDE DEF a
<1>2. /\ last(a) \in Words /\ verified(a) \in Words
      /\ avg(a) \in Words /\ count(a) \in Words
      /\ minValue(a) \in Words /\ maxValue(a) \in Words
  <2>1. /\ a + 8 \in Words /\ a + 9 \in Words /\ a + 10 \in Words
        /\ a + 11 \in Words /\ a + 12 \in Words /\ a + 13 \in Words
    BY <1>1
  <2> QED
    BY <2>1 DEF last, verified, avg, count, minValue, maxValue
<1>3. n \in Int /\ (Divides(t, i) => n # 0)
  BY <1>1, <1>2 DEF Divides, a
<1>4. /\ part \in [Words -> Int]
      /\ part[count(a)] = n
      /\ \A x \in Words : x \notin {minValue(a), maxValue(a), count(a)}
                            => part[x] = t.word[x]
  BY <1>1, <1>2, CountReadingWords
<1> HIDE DEF n, part
<1>5. part[avg(a)] * (n - 1) + v \in Int
  BY <1>2, <1>3, <1>4
<1>6. ASSUME Divides(t, i) PROVE mean \in Int
  BY <1>3, <1>5, <1>6, QuotientType
<1>7. ASSUME Divides(t, i)
      PROVE  word \in [Words -> Int] /\ \A x \in Words : word[x] = Stored(x)
  <2>1. word = [part EXCEPT ![avg(a)] = mean, ![last(a)] = v, ![verified(a)] = 0]
    BY <1>2, <1>4, <1>7
  <2>2. mean \in Int
    BY <1>6, <1>7
  <2> HIDE DEF mean, word
  <2>3. word = [x \in Words |-> Stored(x)]
    BY <1>4, <2>1
  <2>4. \A x \in Words : Stored(x) \in Int
    BY <1>4, <2>2
  <2> QED
    BY <2>3, <2>4
<1>8. ~Divides(t, i) => word = part
  OBVIOUS
<1>9. UpdateKey(t, i, v) = [t EXCEPT !.word = word]
  BY DEF UpdateKey, a, n, part
<1> HIDE DEF word, Stored
<1>10. word \in [Words -> Int]
  BY <1>4, <1>7, <1>8
<1>11. ASSUME NEW x \in Words, x < last(a) \/ x > verified(a)
       PROVE  word[x] = t.word[x]
  <2>1. x \notin {last(a), minValue(a), maxValue(a), avg(a), count(a), verified(a)}
    BY <1>1, <1>11 DEF last, verified, avg, count, minValue, maxValue, Words
  <2>2. part[x] = t.word[x]
    BY <1>4, <2>1
  <2> QED
    BY <1>7, <1>8, <2>1, <2>2 DEF Stored
<1>12. word[count(a)] = n
  BY <1>1, <1>2, <1>4, <1>7, <1>8 DEF Stored, last, verified, avg, count
<1>13. word[verified(a)] = IF Divides(t, i) THEN 0 ELSE t.word[verified(a)]
  BY <1>1, <1>2, <1>4, <1>7, <1>8
  DEF Stored, verified, count, minValue, maxValue
<1>14. LET u == [t EXCEPT !.word = word] IN
         /\ u \in Tables /\ InPage(u)
         /\ u.word = word /\ u.sensorList = t.sensorList
         /\ u.contKey = t.contKey /\ u.contSen = t.contSen
         /\ u.contAlert = t.contAlert
  BY <1>10, WordsOnly
<1> QED
  BY <1>9, <1>11, <1>12, <1>13, <1>14 DEF a, n

LEMMA MoveUpType ==
  ASSUME NEW t \in Tables, InPage(t), NEW i \in Nat
  PROVE  LET u == MoveUp(t, i) IN
           /\ u \in Tables /\ InPage(u)
           /\ u.sensorList = t.sensorList /\ u.contKey = t.contKey
           /\ u.contSen = t.contSen /\ u.contAlert = t.contAlert
<1>1. \A x \in Words : Moved(t, i, x) \in Int
  BY TableTypes DEF Moved
<1>2. [x \in Words |-> Moved(t, i, x)] \in [Words -> Int]
  BY <1>1
<1> QED
  BY <1>2, WordsOnly DEF MoveUp

LEMMA RemoveAlertType ==
  ASSUME NEW t \in Tables, InPage(t), NEW i \in Nat
  PROVE  LET u == RemoveAlert(t, i) IN
           /\ u \in Tables /\ InPage(u)
           /\ u.sensorList = t.sensorList /\ u.contKey = t.contKey
           /\ u.contSen = t.contSen /\ u.contAlert = t.contAlert - 1
<1> DEFINE word == [x \in Words |-> IF InLastAlert(t, x) THEN 0 ELSE Moved(t, i, x)]
           n == t.contAlert - 1
<1>1. \A x \in Words : Moved(t, i, x) \in Int
  BY TableTypes DEF Moved
<1>2. word \in [Words -> Int]
  BY <1>1
<1>3. n \in Int /\ RemoveAlert(t, i) = [t EXCEPT !.word = word, !.contAlert = n]
  BY TableTypes DEF RemoveAlert
<1> HIDE DEF word, n
<1>4. LET u == RemoveAlert(t, i) IN
        /\ u \in Tables
        /\ u.sensorList = t.sensorList /\ u.contKey = t.contKey
        /\ u.contSen = t.contSen /\ u.contAlert = n
  BY <1>2, <1>3 DEF Tables
<1>5. ASSUME n > 0 PROVE Alert(n - 1) + 18 \in Words
  <2>1. t.contAlert > 0 /\ n = t.contAlert - 1
    BY <1>5, TableTypes DEF n
  <2>2. n - 1 \in 0 .. (t.contAlert - 1)
    BY <1>5, <2>1, TableTypes
  <2> QED
    BY <2>2, AlertInPage
<1> QED
  BY <1>4, <1>5 DEF InPage, Sensor, n

--------------------------------------------------------------------------------
(* What an operation leaves at each address *)

LEMMA AppendSensorWords ==
  ASSUME NEW t \in Tables, NEW s \in Int
  PROVE  LET a == Sensor(t, t.contSen) IN
           \A x \in Words : AppendSensor(t, s).word[x] =
             IF t.contSen # 0 /\ x = a - 2 THEN PointerLow + 4 * a
             ELSE IF t.contSen # 0 /\ x = a - 1 THEN PointerHigh
             ELSE IF x = a THEN s
             ELSE IF x = a + 8 \/ x = a + 9 THEN 0 ELSE t.word[x]
<1> DEFINE a == Sensor(t, t.contSen)
           put == PutSensor(t.word, a, s)
           word == IF t.contSen # 0 THEN LinkTo(put, a) ELSE put
<1>1. a \in Int /\ t.word \in [Words -> Int]
  BY TableTypes DEF Sensor
<1>2. AppendSensor(t, s).word = word
  BY DEF AppendSensor, Tables
<1> HIDE DEF a
<1>3. /\ put \in [Words -> Int]
      /\ \A x \in Words : put[x] =
           IF x = a THEN s ELSE IF x = a + 8 \/ x = a + 9 THEN 0 ELSE t.word[x]
  BY <1>1, PutSensorWords
<1> HIDE DEF put
<1>4. \A x \in Words : LinkTo(put, a)[x] =
        IF x = a - 2 THEN PointerLow + 4 * a
        ELSE IF x = a - 1 THEN PointerHigh ELSE put[x]
  BY <1>1, <1>3, LinkToWords
<1> QED
  BY <1>2, <1>3, <1>4 DEF a

LEMMA AppendKeyWords ==
  ASSUME NEW t \in Tables, NEW k \in Int, NEW v \in Int
  PROVE  LET a == Key(t.contKey) IN
           \A x \in Words : AppendKey(t, k, v).word[x] =
             IF t.contKey > 1 /\ x = a - 2 THEN PointerLow + 4 * a
             ELSE IF t.contKey > 1 /\ x = a - 1 THEN PointerHigh
             ELSE IF x = a THEN k ELSE IF x = count(a) THEN 1
             ELSE IF x = verified(a) THEN 0
             ELSE IF last(a) <= x /\ x <= avg(a) THEN v ELSE t.word[x]
<1> DEFINE a == Key(t.contKey)
           put == PutKey(t.word, a, k, v)
           word == IF t.contKey > 1 THEN LinkTo(put, a) ELSE put
<1>1. a \in Int /\ t.word \in [Words -> Int]
  BY TableTypes DEF Key
<1>2. AppendKey(t, k, v).word = word
  BY DEF AppendKey, Tables
<1> HIDE DEF a
<1>3. /\ put \in [Words -> Int]
      /\ \A x \in Words : put[x] =
              IF x = a THEN k ELSE IF x = count(a) THEN 1
              ELSE IF x = verified(a) THEN 0
              ELSE IF last(a) <= x /\ x <= avg(a) THEN v ELSE t.word[x]
  BY <1>1, PutKeyWords
<1> HIDE DEF put
<1>4. \A x \in Words : LinkTo(put, a)[x] =
        IF x = a - 2 THEN PointerLow + 4 * a
        ELSE IF x = a - 1 THEN PointerHigh ELSE put[x]
  BY <1>1, <1>3, LinkToWords
<1> QED
  BY <1>2, <1>3, <1>4 DEF a

LEMMA AppendAlertWords ==
  ASSUME NEW t \in Tables, NEW user \in Int,
         NEW alert \in [id : Int, key : Int, min : Int, max : Int]
  PROVE  LET a == Alert(t.contAlert) IN
           \A x \in Words : AppendAlert(t, alert, user).word[x] =
             IF t.contAlert # 1 /\ x = a - 2 THEN PointerLow + 4 * a
             ELSE IF t.contAlert # 1 /\ x = a - 1 THEN PointerHigh
             ELSE IF x = a THEN alert.id ELSE IF x = a + 8 THEN alert.key
             ELSE IF x = a + 16 THEN alert.min ELSE IF x = a + 17 THEN alert.max
             ELSE IF x = a + 18 THEN user ELSE t.word[x]
<1> DEFINE a == Alert(t.contAlert)
           put == PutAlert(t.word, a, alert, user)
           word == IF t.contAlert # 1 THEN LinkTo(put, a) ELSE put
<1>1. a \in Int /\ t.word \in [Words -> Int]
  BY TableTypes, TablesAssumption DEF Alert
<1>2. AppendAlert(t, alert, user).word = word
  BY DEF AppendAlert, Tables
<1> HIDE DEF a
<1>3. /\ put \in [Words -> Int]
      /\ \A x \in Words : put[x] =
             IF x = a THEN alert.id ELSE IF x = a + 8 THEN alert.key
             ELSE IF x = a + 16 THEN alert.min ELSE IF x = a + 17 THEN alert.max
             ELSE IF x = a + 18 THEN user ELSE t.word[x]
  BY <1>1, PutAlertWords
<1> HIDE DEF put
<1>4. \A x \in Words : LinkTo(put, a)[x] =
        IF x = a - 2 THEN PointerLow + 4 * a
        ELSE IF x = a - 1 THEN PointerHigh ELSE put[x]
  BY <1>1, <1>3, LinkToWords
<1> QED
  BY <1>2, <1>3, <1>4 DEF a

LEMMA RemoveAlertWords ==
  ASSUME NEW t \in Tables, NEW i
  PROVE  \A x \in Words : /\ MoveUp(t, i).word[x] = Moved(t, i, x)
                          /\ RemoveAlert(t, i).word[x] =
                               IF InLastAlert(t, x) THEN 0 ELSE Moved(t, i, x)
BY DEF MoveUp, RemoveAlert, Tables
================================================================================
