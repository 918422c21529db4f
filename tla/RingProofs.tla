------------------------------- MODULE RingProofs ------------------------------
(***************************************************************************)
(* Lemmas about the circular queues of RingIndex: what the two steps of an *)
(* insertion and a removal do to the messages between front and back.      *)
(***************************************************************************)
EXTENDS RingIndex, SequenceTheorems, TLAPS

\* The cell that an index past the end of the array stands for.
LEMMA PlaceValue ==
  ASSUME NEW n \in Nat \ {0}, NEW f \in 0 .. (n - 1), NEW k \in 0 .. n
  PROVE  /\ Place(f, k, n) = IF f + k < n THEN f + k ELSE f + k - n
         /\ Place(f, k, n) \in 0 .. (n - 1)
<1>1. CASE f + k < n
  <2> DEFINE i == f + k
  <2>1. i \in 0 .. (n - 1)
    BY <1>1
  <2> HIDE DEF i
  <2>2. i % n = i
    BY <2>1
  <2> QED
    BY <1>1, <2>1, <2>2 DEF Place, i
<1>2. CASE f + k >= n
  <2> DEFINE j == f + k - n
  <2>1. j \in 0 .. (n - 1) /\ f + k = n + j
    BY <1>2
  <2> HIDE DEF j
  <2>2. (n + j) % n = j
    BY <2>1
  <2>3. (f + k) % n = j
    BY <2>1, <2>2
  <2> QED
    BY <1>2, <2>1, <2>3 DEF Place, j
<1> QED
  BY <1>1, <1>2

LEMMA AdvanceValue ==
  ASSUME NEW n \in Nat \ {0}, NEW i \in 0 .. (n - 1)
  PROVE  /\ Advance(i, n) = IF i + 1 = n THEN 0 ELSE i + 1
         /\ Advance(i, n) \in 0 .. (n - 1)
  BY DEF Advance

\* A ring of n cells holds at most n - 1 messages, one less than n when it is
\* full, and is empty when front meets back.  Back is behind the last of them.
LEMMA OccupancyValue ==
  ASSUME NEW n \in Nat \ {0}, NEW f \in 0 .. (n - 1), NEW b \in 0 .. (n - 1)
  PROVE  /\ Occupancy(f, b, n) \in 0 .. (n - 1)
         /\ Occupancy(f, b, n) = 0 <=> f = b
         /\ Occupancy(f, b, n) < n - 1 <=> ~RingFull(f, b, n)
         /\ Place(f, Occupancy(f, b, n), n) = b
<1>1. Occupancy(f, b, n) \in 0 .. (n - 1)
  BY DEF Occupancy
<1>2. Place(f, Occupancy(f, b, n), n) = b
  <2> DEFINE o == Occupancy(f, b, n)
  <2>1. b = IF f + o < n THEN f + o ELSE f + o - n
    BY DEF Occupancy
  <2>2. o \in 0 .. n
    BY <1>1
  <2> HIDE DEF o
  <2>3. Place(f, o, n) = b
    BY <2>1, <2>2, PlaceValue
  <2> QED
    BY <2>3 DEF o
<1> QED
  BY <1>1, <1>2, AdvanceValue DEF Occupancy, RingFull

\* The places behind front, up to the whole ring, are cells of their own, and
\* the place determines how far behind front it is.
LEMMA PlaceStep ==
  ASSUME NEW n \in Nat \ {0}, NEW f \in 0 .. (n - 1), NEW k \in 0 .. (n - 1)
  PROVE  /\ Occupancy(f, Place(f, k, n), n) = k
         /\ Advance(Place(f, k, n), n) = Place(f, k + 1, n)
<1>1. /\ k \in 0 .. n
      /\ Place(f, k, n) = IF f + k < n THEN f + k ELSE f + k - n
      /\ Place(f, k, n) \in 0 .. (n - 1)
  BY PlaceValue
<1>2. k + 1 \in 0 .. n
  OBVIOUS
<1>3. Place(f, k + 1, n) = IF f + (k + 1) < n THEN f + (k + 1) ELSE f + (k + 1) - n
  BY <1>2, PlaceValue
<1> QED
  BY <1>1, <1>3, AdvanceValue DEF Occupancy

\* The messages between front and back are a sequence.
LEMMA ContentsType ==
  ASSUME NEW n \in Nat \ {0}, NEW f \in 0 .. (n - 1), NEW b \in 0 .. (n - 1),
         NEW S, NEW cells \in [0 .. (n - 1) -> S]
  PROVE  /\ Contents(cells, f, b, n) \in Seq(S)
         /\ Len(Contents(cells, f, b, n)) = Occupancy(f, b, n)
         /\ \A k \in 1 .. Occupancy(f, b, n) :
              Contents(cells, f, b, n)[k] = cells[Place(f, k - 1, n)]
<1>1. Occupancy(f, b, n) \in 0 .. (n - 1)
  BY OccupancyValue
<1>2. \A k \in 1 .. Occupancy(f, b, n) : cells[Place(f, k - 1, n)] \in S
  <2> TAKE k \in 1 .. Occupancy(f, b, n)
  <2>1. k - 1 \in 0 .. n
    BY <1>1
  <2>2. Place(f, k - 1, n) \in 0 .. (n - 1)
    BY <2>1, PlaceValue
  <2> QED
    BY <2>2
<1>3. Contents(cells, f, b, n) \in [1 .. Occupancy(f, b, n) -> S]
  BY <1>2 DEF Contents
<1>4. Contents(cells, f, b, n) \in Seq(S)
  BY <1>1, <1>3, SeqDef
<1>5. DOMAIN Contents(cells, f, b, n) = 1 .. Occupancy(f, b, n)
  BY DEF Contents
<1>6. Len(Contents(cells, f, b, n)) = Occupancy(f, b, n)
  BY <1>1, <1>4, <1>5
<1> QED
  BY <1>4, <1>6 DEF Contents

\* An insertion first copies its message to the cell at back, which changes
\* nothing that is between front and back.
LEMMA CopyAtBack ==
  ASSUME NEW n \in Nat \ {0}, NEW f \in 0 .. (n - 1), NEW b \in 0 .. (n - 1),
         NEW S, NEW cells \in [0 .. (n - 1) -> S], NEW m
  PROVE  Contents([cells EXCEPT ![b] = m], f, b, n) = Contents(cells, f, b, n)
<1>1. ASSUME NEW k \in 1 .. Occupancy(f, b, n)
      PROVE  [cells EXCEPT ![b] = m][Place(f, k - 1, n)] = cells[Place(f, k - 1, n)]
  <2>1. Occupancy(f, b, n) \in 0 .. (n - 1) /\ Place(f, Occupancy(f, b, n), n) = b
    BY OccupancyValue
  <2>2. k - 1 \in 0 .. (n - 1) /\ k - 1 # Occupancy(f, b, n)
    BY <2>1
  <2>3. Occupancy(f, Place(f, k - 1, n), n) = k - 1
    BY <2>2, PlaceStep
  <2>4. Place(f, k - 1, n) # b
    BY <2>2, <2>3
  <2> QED
    BY <2>4
<1> QED
  BY <1>1 DEF Contents

\* Then back moves over it, and the message is the last of the ring.
LEMMA AdvanceBackAppends ==
  ASSUME NEW n \in Nat \ {0}, NEW f \in 0 .. (n - 1), NEW b \in 0 .. (n - 1),
         NEW S, NEW cells \in [0 .. (n - 1) -> S], ~RingFull(f, b, n)
  PROVE  /\ Occupancy(f, Advance(b, n), n) = Occupancy(f, b, n) + 1
         /\ Contents(cells, f, Advance(b, n), n)
              = Append(Contents(cells, f, b, n), cells[b])
<1>1. PICK c \in 0 .. (n - 1) : c = Advance(b, n)
  BY AdvanceValue
<1> DEFINE o == Occupancy(f, b, n)
           old == Contents(cells, f, b, n)
           new == Contents(cells, f, c, n)
<1>2. o \in 0 .. (n - 1) /\ o < n - 1 /\ b = Place(f, o, n)
  BY OccupancyValue
<1>3. Occupancy(f, c, n) = o + 1
  <2>1. c = IF b + 1 = n THEN 0 ELSE b + 1
    BY <1>1, AdvanceValue
  <2>2. c # f
    BY <1>1 DEF RingFull
  <2> QED
    BY <2>1, <2>2 DEF Occupancy
<1>4. /\ old \in Seq(S) /\ Len(old) = o
      /\ \A k \in 1 .. o : old[k] = cells[Place(f, k - 1, n)]
  BY ContentsType
<1> HIDE DEF o
<1>5. /\ new \in Seq(S) /\ Len(new) = o + 1
      /\ \A k \in 1 .. (o + 1) : new[k] = cells[Place(f, k - 1, n)]
  <2>1. new \in Seq(S) /\ Len(new) = Occupancy(f, c, n)
    BY ContentsType
  <2>2. \A k \in 1 .. Occupancy(f, c, n) : new[k] = cells[Place(f, k - 1, n)]
    BY DEF Contents
  <2> HIDE DEF new
  <2> QED
    BY <1>3, <2>1, <2>2
<1> HIDE DEF old, new
<1>6. /\ Append(old, cells[b]) \in Seq(S) /\ Len(Append(old, cells[b])) = o + 1
      /\ \A k \in 1 .. o : Append(old, cells[b])[k] = old[k]
      /\ Append(old, cells[b])[o + 1] = cells[b]
  BY <1>2, <1>4
<1>7. new[o + 1] = cells[b]
  <2>1. o + 1 \in 1 .. (o + 1) /\ (o + 1) - 1 = o
    BY <1>2
  <2> QED
    BY <1>2, <1>5, <2>1
<1>8. ASSUME NEW k \in 1 .. (o + 1) PROVE new[k] = Append(old, cells[b])[k]
  <2>1. k = o + 1 \/ k \in 1 .. o
    BY <1>2
  <2> QED
    BY <1>4, <1>5, <1>6, <1>7, <2>1
<1>9. new = Append(old, cells[b])
  BY <1>5, <1>6, <1>8, SeqEqual
<1> QED
  BY <1>1, <1>3, <1>9 DEF o, old, new

\* A removal moves front behind the k-th message: that message and those before
\* it are gone.
LEMMA AdvanceFrontDrops ==
  ASSUME NEW n \in Nat \ {0}, NEW f \in 0 .. (n - 1), NEW b \in 0 .. (n - 1),
         NEW S, NEW cells \in [0 .. (n - 1) -> S],
         NEW k \in 1 .. Occupancy(f, b, n)
  PROVE  /\ Place(f, k, n) \in 0 .. (n - 1)
         /\ Occupancy(Place(f, k, n), b, n) = Occupancy(f, b, n) - k
         /\ Contents(cells, Place(f, k, n), b, n)
              = SubSeq(Contents(cells, f, b, n), k + 1, Occupancy(f, b, n))
<1> DEFINE o == Occupancy(f, b, n)
           g == Place(f, k, n)
           old == Contents(cells, f, b, n)
           new == Contents(cells, g, b, n)
<1>1. o \in 0 .. (n - 1) /\ k \in 0 .. n /\ k \in 1 .. o
  BY OccupancyValue, SMTT(20)
<1>2. /\ g = IF f + k < n THEN f + k ELSE f + k - n
      /\ g \in 0 .. (n - 1)
  BY <1>1, PlaceValue
<1>3. Occupancy(g, b, n) = o - k
  BY <1>1, <1>2 DEF Occupancy
<1>4. /\ old \in Seq(S) /\ Len(old) = o
      /\ \A j \in 1 .. o : old[j] = cells[Place(f, j - 1, n)]
  BY ContentsType, ZenonT(30)
<1> HIDE DEF g, o
<1>5. /\ new \in Seq(S) /\ Len(new) = o - k
      /\ \A j \in 1 .. (o - k) : new[j] = cells[Place(g, j - 1, n)]
  BY <1>2, <1>3, ContentsType
<1> HIDE DEF old, new
<1>6. ASSUME NEW j \in 1 .. (o - k)
      PROVE  Place(g, j - 1, n) = Place(f, (j + k) - 1, n)
  <2>1. j - 1 \in 0 .. n /\ (j + k) - 1 \in 0 .. n
    BY <1>1
  <2>2. /\ Place(f, (j + k) - 1, n)
             = IF f + ((j + k) - 1) < n THEN f + ((j + k) - 1)
                                        ELSE f + ((j + k) - 1) - n
        /\ Place(g, j - 1, n) = IF g + (j - 1) < n THEN g + (j - 1)
                                                   ELSE g + (j - 1) - n
    BY <1>2, <2>1, PlaceValue
  <2> QED
    BY <1>1, <1>2, <2>2
<1>7. /\ SubSeq(old, k + 1, o) \in Seq(S)
      /\ Len(SubSeq(old, k + 1, o)) = o - k
      /\ \A j \in 1 .. (o - k) : SubSeq(old, k + 1, o)[j] = old[j + k]
  <2>1. k \in 1 .. o /\ o \in Nat
    BY <1>1 DEF o
  <2> QED
    BY <1>4, <2>1, SubSeqProperties
<1>8. ASSUME NEW j \in 1 .. (o - k) PROVE new[j] = SubSeq(old, k + 1, o)[j]
  <2>1. j + k \in 1 .. o
    BY <1>1
  <2> QED
    BY <1>4, <1>5, <1>6, <1>7, <2>1, ZenonT(30)
<1>9. new = SubSeq(old, k + 1, o)
  BY <1>5, <1>7, <1>8, SeqEqual
<1> QED
  BY <1>2, <1>3, <1>9 DEF o, g, old, new
================================================================================
