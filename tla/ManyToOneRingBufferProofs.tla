---------------------- MODULE ManyToOneRingBufferProofs ---------------------
(*****************************************************************************)
(* The command ring buffer is correct for every number of producers, every   *)
(* capacity and every set of command lengths.  The first part concerns       *)
(* types, positions and what claimCapacity has checked.  The second shows    *)
(* that the claimed records do not overlap, so that a producer that fills in *)
(* its own record keeps the others as they are.  The third is about the      *)
(* driver, which takes the records in the order of their claims.             *)
(*****************************************************************************)
EXTENDS ManyToOneRingBuffer, TLAPS

-----------------------------------------------------------------------------
(* Arithmetic of positions and indexes.                                    *)

LEMMA DivMod ==
    ASSUME NEW x \in Nat
    PROVE  /\ x = Capacity * (x \div Capacity) + Index(x)
           /\ Index(x) \in 0..(Capacity - 1)
           /\ x \div Capacity \in Nat
  BY CapacityAssumption DEF Index

LEMMA IndexRange ==
    ASSUME NEW x \in Nat
    PROVE  Index(x) \in Nat /\ ToBufferEnd(x) \in Nat
  BY CapacityAssumption DEF Index, ToBufferEnd

\* Two positions less than a lap apart have different indexes.
LEMMA IndexInjective ==
    ASSUME NEW x \in Nat, NEW y \in Nat, x < y, y < x + Capacity
    PROVE  Index(x) # Index(y)
<1> DEFINE qx == x \div Capacity
           qy == y \div Capacity
<1>1. /\ x = Capacity * qx + Index(x) /\ y = Capacity * qy + Index(y)
      /\ qx \in Nat /\ qy \in Nat /\ Index(x) \in Int /\ Index(y) \in Int
  BY DivMod
<1>2. SUFFICES ASSUME Index(x) = Index(y) PROVE FALSE
  BY Zenon
<1>3. y - x = Capacity * (qy - qx)
  BY <1>1, <1>2, CapacityAssumption
<1>4. qy - qx > 0 /\ qy - qx < 1
  BY <1>3, <1>1, CapacityAssumption
<1> QED BY <1>4, <1>1

\* A position before the end of x's lap has the index one expects.
LEMMA IndexPlus ==
    ASSUME NEW x \in Nat, NEW d \in Nat, Index(x) + d < Capacity
    PROVE  Index(x + d) = Index(x) + d
<1> DEFINE q == x \div Capacity
           r == (x + d) \div Capacity
<1>1. /\ x = Capacity * q + Index(x) /\ q \in Nat /\ Index(x) \in 0..(Capacity - 1)
      /\ x + d = Capacity * r + Index(x + d) /\ r \in Nat /\ Index(x + d) \in 0..(Capacity - 1)
  BY DivMod
<1> HIDE DEF q, r
<1>2. Capacity * (r - q) = Index(x) + d - Index(x + d)
  BY <1>1, CapacityAssumption
<1>3. r - q < 1 /\ r - q > -1
  BY <1>1, <1>2, CapacityAssumption
<1>4. r - q = 0
  BY <1>1, <1>3
<1>5. Capacity * (r - q) = 0
  BY <1>4, CapacityAssumption
<1> QED BY <1>1, <1>2, <1>5

\* The position at the end of x's lap is the start of the buffer.
LEMMA IndexOfLapEnd ==
    ASSUME NEW x \in Nat
    PROVE  Index(x + ToBufferEnd(x)) = 0
<1> DEFINE q == x \div Capacity
           y == x + ToBufferEnd(x)
           r == y \div Capacity
<1>1. x = Capacity * q + Index(x) /\ q \in Nat /\ Index(x) \in 0..(Capacity - 1)
  BY Zenon, DivMod
<1>2. y \in Nat /\ y = Capacity * (q + 1)
  BY <1>1, CapacityAssumption DEF ToBufferEnd
<1>3. y = Capacity * r + Index(y) /\ r \in Nat /\ Index(y) \in 0..(Capacity - 1)
  BY Zenon, <1>2, DivMod
<1> HIDE DEF y, q, r
<1>4. Capacity * (q + 1 - r) = Index(y)
  BY <1>1, <1>2, <1>3, CapacityAssumption
<1>5. q + 1 - r < 1 /\ q + 1 - r > -1
  BY <1>1, <1>3, <1>4, CapacityAssumption
<1>6. q + 1 - r = 0
  BY <1>1, <1>3, <1>5
<1>7. Index(y) = 0
  BY <1>4, <1>6, CapacityAssumption
<1> QED BY Zenon, <1>7 DEF y

\* A position a lap later has the same index.
LEMMA IndexOfNextLap ==
    ASSUME NEW x \in Nat
    PROVE  Index(x + Capacity) = Index(x)
<1> DEFINE q == x \div Capacity
           y == x + Capacity
           r == y \div Capacity
<1>1. x = Capacity * q + Index(x) /\ q \in Nat /\ Index(x) \in 0..(Capacity - 1)
  BY Zenon, DivMod
<1>2. y \in Nat /\ y = x + Capacity
  BY CapacityAssumption
<1>3. y = Capacity * r + Index(y) /\ r \in Nat /\ Index(y) \in 0..(Capacity - 1)
  BY Zenon, <1>2, DivMod
<1> HIDE DEF y, q, r
<1>4. Capacity * (r - q - 1) = Index(x) - Index(y)
  BY <1>1, <1>2, <1>3, CapacityAssumption
<1>5. r - q - 1 < 1 /\ r - q - 1 > -1
  BY <1>1, <1>3, <1>4, CapacityAssumption
<1>6. r - q - 1 = 0
  BY <1>1, <1>3, <1>5
<1>7. Index(y) = Index(x)
  BY <1>1, <1>3, <1>4, <1>6, CapacityAssumption
<1> QED BY Zenon, <1>7 DEF y

\* Aligned positions have aligned indexes.
LEMMA IndexIsWord ==
    ASSUME NEW x \in Positions
    PROVE  Index(x) \in Words
<1>1. PICK k \in Nat : Capacity = 8 * k
  BY CapacityAssumption DEF Alignment
<1>2. PICK j \in Nat : x = 8 * j
  BY DEF Positions, Alignment
<1>3. PICK q \in Nat : x = Capacity * q + Index(x)
  BY Zenon, DivMod DEF Positions
<1>4. Index(x) \in 0..(Capacity - 1)
  BY Zenon, DivMod DEF Positions
<1>5. Index(x) = 8 * (j - k * q)
  <2>1. \A i \in Nat : 8 * j = (8 * k) * q + i => i = 8 * (j - k * q)
    OBVIOUS
  <2> QED BY <1>1, <1>2, <1>3, <1>4, <2>1
<1>6. \A m \in Int : (8 * m) % 8 = 0
  OBVIOUS
<1>7. j - k * q \in Int
  OBVIOUS
<1> QED BY Zenon, <1>4, <1>5, <1>6, <1>7 DEF Words, Alignment

\* A record takes whole words, and at least its header.
LEMMA RequiredFacts ==
    ASSUME NEW n \in MsgLengths
    PROVE  /\ RequiredCapacity(n) \in Positions
           /\ RequiredCapacity(n) >= HeaderLength
           /\ RequiredCapacity(n) <= Capacity
           /\ n + HeaderLength \in Nat /\ n + HeaderLength > 0
           /\ AlignInt32(n + HeaderLength, Alignment) = RequiredCapacity(n)
  BY LengthAssumption DEF RequiredCapacity, AlignInt32, Alignment, HeaderLength, Positions

\* Sums and differences of aligned positions are aligned.
LEMMA PositionsClosed ==
    ASSUME NEW x \in Positions, NEW y \in Positions
    PROVE  x + y \in Positions
  BY DEF Positions, Alignment

\* The padding before the end of the buffer takes whole words.
LEMMA ToBufferEndFacts ==
    ASSUME NEW x \in Positions
    PROVE  /\ ToBufferEnd(x) \in Positions
           /\ ToBufferEnd(x) > 0 /\ ToBufferEnd(x) <= Capacity
           /\ Index(x) + ToBufferEnd(x) = Capacity
  BY IndexIsWord, CapacityAssumption DEF ToBufferEnd, Words, Positions, Alignment

LEMMA AlignedLength ==
    ASSUME NEW n \in Nat
    PROVE  AlignInt32(n, Alignment) \in Positions
  BY DEF AlignInt32, Positions, Alignment

LEMMA RecordPositionType ==
    ASSUME TypeOK, NEW p \in Producers
    PROVE  /\ Required(p) \in Positions
           /\ PaddingFor(myTail[p], Required(p)) \in Positions
           /\ RecordPosition(p) \in Positions
           /\ RecordIndex(p) \in Words
<1>1. myTail[p] \in Positions /\ myLength[p] \in Nat
  BY Zenon DEF TypeOK
<1>2. Required(p) \in Positions
  BY <1>1, AlignedLength DEF Required, RequiredCapacity, HeaderLength
<1>3. PaddingFor(myTail[p], Required(p)) \in Positions
  <2>1. 0 \in Positions
    BY DEF Positions, Alignment
  <2> QED BY Zenon, <1>1, <2>1, ToBufferEndFacts DEF PaddingFor
<1>4. RecordPosition(p) \in Positions
  BY Zenon, <1>1, <1>3, PositionsClosed DEF RecordPosition
<1> QED BY Zenon, <1>2, <1>3, <1>4, IndexIsWord DEF RecordIndex

\* A word of an interval of positions that does not wrap is the index of a
\* position of the interval,
LEMMA WordPosition ==
    ASSUME NEW a \in Positions, NEW m \in Nat, Index(a) + m <= Capacity,
           NEW w \in WordsFrom(Index(a), m)
    PROVE  \E x \in Positions : a <= x /\ x < a + m /\ Index(x) = w
<1> DEFINE d == w - Index(a)
<1>1. Index(a) \in Words
  BY Zenon, IndexIsWord
<1>2. w \in Words /\ Index(a) <= w /\ w < Index(a) + m
  BY Zenon DEF WordsFrom
<1>3. d \in Nat /\ d % 8 = 0 /\ d < m /\ Index(a) + d = w
  BY <1>1, <1>2 DEF Words, Alignment
<1>4. a + d \in Positions
  BY <1>3 DEF Positions, Alignment
<1>5. Index(a + d) = w
  BY <1>2, <1>3, IndexPlus, CapacityAssumption DEF Positions, Words
<1>6. a <= a + d /\ a + d < a + m
  BY <1>3 DEF Positions
<1> QED BY Zenon, <1>4, <1>5, <1>6

\* and conversely.
LEMMA PositionWord ==
    ASSUME NEW a \in Positions, NEW m \in Nat, Index(a) + m <= Capacity,
           NEW x \in Positions, a <= x, x < a + m
    PROVE  Index(x) \in WordsFrom(Index(a), m)
<1> DEFINE d == x - a
<1>1. d \in Nat /\ x = a + d /\ d < m
  BY DEF Positions
<1>2. Index(a) \in Words /\ Index(x) \in Words
  BY Zenon, IndexIsWord
<1>3. Index(a) + d < Capacity
  BY <1>1, <1>2, CapacityAssumption DEF Words
<1>4. Index(a + d) = Index(a) + d
  BY Zenon, <1>1, <1>3, IndexPlus DEF Positions
<1> QED BY <1>1, <1>2, <1>4 DEF WordsFrom, Words

\* Disjoint intervals within one lap share no word.
LEMMA WordsDisjoint ==
    ASSUME NEW a \in Positions, NEW m \in Nat, Index(a) + m <= Capacity,
           NEW b \in Positions, NEW n \in Nat, Index(b) + n <= Capacity,
           NEW h \in Nat, h <= a, h <= b, a + m <= h + Capacity, b + n <= h + Capacity,
           a + m <= b \/ b + n <= a
    PROVE  WordsFrom(Index(a), m) \cap WordsFrom(Index(b), n) = {}
<1> SUFFICES ASSUME NEW w, w \in WordsFrom(Index(a), m), w \in WordsFrom(Index(b), n)
             PROVE  FALSE
  BY Zenon
<1>1. PICK x \in Positions : a <= x /\ x < a + m /\ Index(x) = w
  BY Zenon, WordPosition
<1>2. PICK y \in Positions : b <= y /\ y < b + n /\ Index(y) = w
  BY Zenon, WordPosition
<1>3. x \in Nat /\ y \in Nat /\ a \in Nat /\ b \in Nat
  BY Zenon DEF Positions
<1>4. CASE x < y
  <2>1. y < x + Capacity
    BY <1>1, <1>2, <1>3, CapacityAssumption
  <2> QED BY Zenon, <1>1, <1>2, <1>3, <1>4, <2>1, IndexInjective
<1>5. CASE y < x
  <2>1. x < y + Capacity
    BY <1>1, <1>2, <1>3, CapacityAssumption
  <2> QED BY Zenon, <1>1, <1>2, <1>3, <1>5, <2>1, IndexInjective
<1>6. x # y
  BY <1>1, <1>2, <1>3
<1> QED BY <1>3, <1>4, <1>5, <1>6

-----------------------------------------------------------------------------
(* Type correctness.                                                       *)

LEMMA TypeInit == Init => TypeOK
<1> SUFFICES ASSUME Init PROVE TypeOK
  BY Zenon
<1>1. PICK s \in StartPositions : InitAt(s)
  BY Zenon DEF Init
<1>2. s \in Positions
  BY Zenon, StartAssumption DEF Positions
<1> QED BY <1>1, <1>2, BoundAssumption DEF InitAt, TypeOK, Zeroed, Pcs

LEMMA TypeNext == TypeOK /\ [Next]_vars => TypeOK'
<1> SUFFICES ASSUME TypeOK, [Next]_vars PROVE TypeOK'
  BY Zenon
<1> USE DEF trailer, buffer, locals, driverState
<1>1. CASE UNCHANGED vars
  BY Zenon, <1>1 DEF vars, TypeOK
<1>2. ASSUME NEW p \in Producers, NEW n \in MsgLengths, NextCorrelationID(p, n) PROVE TypeOK'
  <2>1. n \in Nat
    BY Zenon, LengthAssumption
  <2> QED BY <1>2, <2>1, BoundAssumption DEF NextCorrelationID, TypeOK, Pcs
<1>3. ASSUME NEW p \in Producers, LoadHeadCache(p) PROVE TypeOK'
  BY Zenon, <1>3 DEF LoadHeadCache, TypeOK, Pcs
<1>4. ASSUME NEW p \in Producers, LoadTail(p) PROVE TypeOK'
  BY Zenon, <1>4 DEF LoadTail, AfterCapacityCheck, TypeOK, Pcs
<1>5. ASSUME NEW p \in Producers, ReloadHead(p) PROVE TypeOK'
  BY Zenon, <1>5 DEF ReloadHead, TypeOK, Pcs
<1>6. ASSUME NEW p \in Producers, StoreHeadCache(p) PROVE TypeOK'
  BY Zenon, <1>6 DEF StoreHeadCache, AfterCapacityCheck, TypeOK, Pcs
<1>7. ASSUME NEW p \in Producers, ReloadHeadToWrap(p) PROVE TypeOK'
  BY Zenon, <1>7 DEF ReloadHeadToWrap, TypeOK, Pcs
<1>8. ASSUME NEW p \in Producers, StoreHeadCacheToWrap(p) PROVE TypeOK'
  BY Zenon, <1>8 DEF StoreHeadCacheToWrap, TypeOK, Pcs
<1>9. ASSUME NEW p \in Producers, ClaimSucceeds(p) PROVE TypeOK'
  <2>1. NewClaims(p) \in Seq([start : Positions, size : Positions, id : Int])
    <3> DEFINE Record  == [start : Positions, size : Positions, id : Int]
               padding == [start |-> myTail[p], size |-> PaddingFor(myTail[p], Required(p)), id |-> Padding]
               record  == [start |-> RecordPosition(p), size |-> Required(p), id |-> myID[p]]
    <3>1. padding \in Record /\ record \in Record
      BY RecordPositionType DEF Padding, TypeOK
    <3>2. NewClaims(p) = <<record>> \/ NewClaims(p) = <<padding, record>>
      BY Zenon DEF NewClaims
    <3> HIDE DEF Record, padding, record
    <3>3. <<record>> \in Seq(Record) /\ <<padding, record>> \in Seq(Record)
      BY <3>1
    <3> QED BY Zenon, <3>2, <3>3 DEF Record
  <2>2. claims' \in Seq([start : Positions, size : Positions, id : Int])
    BY <1>9, <2>1 DEF ClaimSucceeds, TypeOK
  <2>3. tail' \in Positions
    BY Zenon, <1>9, RecordPositionType, PositionsClosed DEF ClaimSucceeds
  <2> QED BY Zenon, <1>9, <2>2, <2>3 DEF ClaimSucceeds, TypeOK, Pcs
<1>10. ASSUME NEW p \in Producers, ClaimContended(p) PROVE TypeOK'
  BY Zenon, <1>10 DEF ClaimContended, TypeOK, Pcs
<1>11. ASSUME NEW p \in Producers, InsufficientCapacity(p) PROVE TypeOK'
  BY Zenon, <1>11 DEF InsufficientCapacity, TypeOK, Pcs
<1>12. ASSUME NEW p \in Producers, WritePadding(p) PROVE TypeOK'
  <2>1. ToBufferEnd(myTail[p]) \in Int
    <3>1. ToBufferEnd(myTail[p]) \in Positions
      BY Zenon, ToBufferEndFacts DEF TypeOK
    <3> QED BY <3>1 DEF Positions
  <2>2. lengthField' \in [Words -> Int] /\ content' \in [Words -> Int]
    <3>1. lengthField' \in [Words -> Int]
      BY Zenon, <1>12, <2>1 DEF WritePadding, TypeOK
    <3>2. content' \in [Words -> Int]
      <4>1. Padding \in Int
        BY DEF Padding
      <4> QED BY Zenon, <1>12, <4>1 DEF WritePadding, TypeOK
    <3> QED BY Zenon, <3>1, <3>2
  <2> QED BY Zenon, <1>12, <2>2 DEF WritePadding, TypeOK, Pcs
<1>13. ASSUME NEW p \in Producers, WriteHeader(p) PROVE TypeOK'
  <2>1. myLength[p] + HeaderLength \in Int /\ -(myLength[p] + HeaderLength) \in Int
    BY DEF TypeOK, HeaderLength
  <2>2. lengthField' \in [Words -> Int] /\ content' \in [Words -> Int]
    <3>1. lengthField' \in [Words -> Int]
      BY Zenon, <1>13, <2>1 DEF WriteHeader, TypeOK
    <3>2. myID[p] \in Int
      BY DEF TypeOK
    <3>3. content' \in [Words -> Int]
      BY Zenon, <1>13, <3>2 DEF WriteHeader, TypeOK
    <3> QED BY Zenon, <3>1, <3>3
  <2> QED BY Zenon, <1>13, <2>2 DEF WriteHeader, TypeOK, Pcs
<1>14. ASSUME NEW p \in Producers, WritePayload(p) PROVE TypeOK'
  BY <1>14 DEF WritePayload, TypeOK, Pcs, PayloadInt32
<1>15. ASSUME NEW p \in Producers, Commit(p) PROVE TypeOK'
  <2>1. myLength[p] + HeaderLength \in Int
    BY DEF TypeOK, HeaderLength
  <2>2. lengthField' \in [Words -> Int]
    BY Zenon, <1>15, <2>1 DEF Commit, TypeOK
  <2> QED BY Zenon, <1>15, <2>2 DEF Commit, TypeOK, Pcs
<1>16. CASE DriverRead
  <2> DEFINE index  == Index(readPosition)
             length == lengthField[index]
             size   == AlignInt32(length, Alignment)
             found  == IF content[index] = Padding THEN {Padding}
                       ELSE {content[w] : w \in WordsFrom(index, size)}
  <2>1. index \in Words
    BY Zenon, IndexIsWord DEF TypeOK
  <2>2. length \in Nat
    BY <1>16, <2>1 DEF DriverRead, TypeOK
  <2>3. size \in Positions
    BY Zenon, <2>2, AlignedLength
  <2>4. readPosition' \in Positions
    BY Zenon, <1>16, <2>3, PositionsClosed DEF DriverRead, TypeOK
  <2>5. found \in SUBSET Int
    BY DEF Padding, WordsFrom, TypeOK
  <2>6. consumed' = Append(consumed, found)
    BY Zenon, <1>16 DEF DriverRead
  <2> HIDE DEF found
  <2>7. consumed' \in Seq(SUBSET Int)
    BY <2>5, <2>6 DEF TypeOK
  <2> QED BY Zenon, <1>16, <2>4, <2>7 DEF DriverRead, TypeOK
<1>17. CASE DriverZero
  BY <1>17 DEF DriverZero, TypeOK, Zeroed
<1>18. CASE DriverAdvance
  BY Zenon, <1>18 DEF DriverAdvance, TypeOK
<1> QED
  BY Zenon, <1>1, <1>2, <1>3, <1>4, <1>5, <1>6, <1>7, <1>8, <1>9, <1>10, <1>11, <1>12, <1>13,
     <1>14, <1>15, <1>16, <1>17, <1>18 DEF Next, ClaimStep, RecordStep, Driver

-----------------------------------------------------------------------------
(* The inductive invariant.                                                *)

\* Write has been called with one of the command lengths.
LengthsInv == \A p \in Producers : pc[p] # "idle" => myLength[p] \in MsgLengths

\* A head or a tail that a producer keeps, or that is cached, may be stale but
\* is never ahead.
OrderInv ==
    /\ headCache <= head /\ head <= readPosition /\ readPosition <= tail
    /\ \A p \in Producers : myHead[p] <= head /\ myTail[p] <= tail

\* What a producer knows about its local head and tail after the checks of
\* claimCapacity.
Checked(p) ==
    /\ pc[p] \in {"storeHeadCache", "reloadHeadToWrap", "storeHeadCacheToWrap", "cas"} =>
          Required(p) <= Capacity - (myTail[p] - myHead[p])
    /\ pc[p] = "storeHeadCacheToWrap" => Required(p) <= Index(myHead[p])
    /\ pc[p] = "cas" /\ Required(p) > ToBufferEnd(myTail[p]) => Required(p) <= Index(myHead[p])

CheckedInv == \A p \in Producers : Checked(p)

RoomInv == tail <= head + Capacity

\* The claimed records lie end to end up to the tail, none of them wraps, and
\* the driver stands at the first one it has not read.
Chain(records, read, position, end) ==
    /\ read <= Len(records)
    /\ position = IF read = Len(records) THEN end ELSE records[read + 1].start
    /\ \A i \in DOMAIN records :
          /\ records[i].size > 0
          /\ Index(records[i].start) + records[i].size <= Capacity
          /\ records[i].start + records[i].size =
                IF i = Len(records) THEN end ELSE records[i + 1].start
          /\ records[i].start + records[i].size <= end
          /\ \A j \in DOMAIN records : i < j => records[i].start + records[i].size <= records[j].start

ChainInv == Chain(claims, Len(consumed), readPosition, tail)

\* The driver reads up to the end of the buffer before it moves the head.
DriverInv == readPosition - head <= ToBufferEnd(head)

Unread(i) == i \in DOMAIN claims /\ i > Len(consumed)

RecordOf(p)  == [start |-> RecordPosition(p), size |-> Required(p), id |-> myID[p]]
PaddingOf(p) == [start |-> myTail[p], size |-> ToBufferEnd(myTail[p]), id |-> Padding]

\* A producer's claim is one of the unread records, and no other producer's.
HeldInv ==
    \A p \in Producers : HoldsClaim(p) =>
        /\ \E i \in DOMAIN claims : Unread(i) /\ claims[i] = RecordOf(p)
        /\ pc[p] = "padding" => \E i \in DOMAIN claims : Unread(i) /\ claims[i] = PaddingOf(p)
        /\ \A q \in Producers \ {p} : HoldsClaim(q) =>
              /\ RecordPosition(p) # RecordPosition(q)
              /\ pc[p] = "padding" /\ pc[q] = "padding" => myTail[p] # myTail[q]

\* How much of its record a producer has stored.
Filled(p) ==
    /\ lengthField[RecordIndex(p)] <= 0
    /\ pc[p] = "padding" => lengthField[Index(myTail[p])] <= 0
    /\ pc[p] \in {"payload", "commit"} => content[RecordIndex(p)] = myID[p]
    /\ pc[p] = "commit" => \A w \in WordsFrom(RecordIndex(p), Required(p)) : content[w] = myID[p]

FilledInv == \A p \in Producers : HoldsClaim(p) => Filled(p)

\* A record with a positive length is complete.
Complete(claim) ==
    /\ AlignInt32(lengthField[Index(claim.start)], Alignment) = claim.size
    /\ IF claim.id = Padding
       THEN content[Index(claim.start)] = Padding
       ELSE \A w \in WordsFrom(Index(claim.start), claim.size) : content[w] = claim.id

StoredInv ==
    \A i \in DOMAIN claims :
        Unread(i) /\ lengthField[Index(claims[i].start)] > 0 => Complete(claims[i])

\* The words that can be claimed next hold no length.
FreeInv ==
    /\ \A x \in Positions : tail <= x /\ x < head + Capacity => lengthField[Index(x)] = 0
    /\ driverPc = "advance" =>
          \A x \in Positions : head <= x /\ x < readPosition => lengthField[Index(x)] = 0

\* The part about positions, records and memory.
RecordsInv ==
    /\ RoomInv /\ ChainInv /\ DriverInv /\ HeldInv /\ FilledInv /\ StoredInv /\ FreeInv
    /\ ConsumedInClaimOrder

IInv == TypeOK /\ LengthsInv /\ OrderInv /\ CheckedInv /\ RecordsInv

LEMMA LengthsNext ==
    ASSUME IInv, [Next]_vars
    PROVE  LengthsInv'
<1> USE DEF IInv, LengthsInv
<1>1. ASSUME NEW p \in Producers, NEW n \in MsgLengths, NextCorrelationID(p, n) PROVE LengthsInv'
  BY Zenon, <1>1 DEF NextCorrelationID, TypeOK
<1>2. ASSUME UNCHANGED myLength, \A q \in Producers : pc'[q] # "idle" => pc[q] # "idle" PROVE LengthsInv'
  BY Zenon, <1>2
<1>3. ASSUME NEW p \in Producers, ClaimStep(p) \/ RecordStep(p)
      PROVE  UNCHANGED myLength /\ \A q \in Producers : pc'[q] # "idle" => pc[q] # "idle"
  BY Zenon, <1>3 DEF ClaimStep, RecordStep, locals, TypeOK, LoadHeadCache, LoadTail, ReloadHead, StoreHeadCache,
              ReloadHeadToWrap, StoreHeadCacheToWrap, ClaimSucceeds, ClaimContended,
              InsufficientCapacity, WritePadding, WriteHeader, WritePayload, Commit
<1>4. ASSUME Driver \/ UNCHANGED vars PROVE UNCHANGED <<myLength, pc>>
  BY Zenon, <1>4 DEF Driver, DriverRead, DriverZero, DriverAdvance, vars, locals
<1> QED BY Zenon, <1>1, <1>2, <1>3, <1>4 DEF Next

LEMMA RequiredOf ==
    ASSUME TypeOK, LengthsInv, NEW p \in Producers, pc[p] # "idle"
    PROVE  /\ Required(p) \in Positions /\ Required(p) >= HeaderLength /\ Required(p) <= Capacity
           /\ myLength[p] + HeaderLength \in Nat /\ myLength[p] + HeaderLength > 0
           /\ AlignInt32(myLength[p] + HeaderLength, Alignment) = Required(p)
  BY Zenon, RequiredFacts DEF LengthsInv, Required

\* A record that wraps leaves the head's part of the buffer alone: if the head
\* and the tail were on different laps, the first check would have failed.
LEMMA WrapFits ==
    ASSUME NEW h \in Nat, NEW t \in Nat, NEW r \in Nat, h <= t,
           r <= Capacity - (t - h), r > ToBufferEnd(t), r <= Index(h)
    PROVE  t + ToBufferEnd(t) + r <= h + Capacity
<1> DEFINE qt == t \div Capacity
           qh == h \div Capacity
<1>1. /\ t = Capacity * qt + Index(t) /\ qt \in Nat /\ Index(t) \in 0..(Capacity - 1)
      /\ h = Capacity * qh + Index(h) /\ qh \in Nat /\ Index(h) \in 0..(Capacity - 1)
  BY Zenon, DivMod
<1> HIDE DEF qt, qh
<1>2. t - h = Capacity * (qt - qh) + Index(t) - Index(h)
  BY <1>1, CapacityAssumption
<1>3. t - h < Index(t)
  BY <1>1, CapacityAssumption DEF ToBufferEnd
<1>4. qt - qh < 1 /\ qt - qh > -1
  BY <1>1, <1>2, <1>3, CapacityAssumption
<1>5. qt - qh = 0
  BY <1>1, <1>4
<1>6. t - h = Index(t) - Index(h)
  <2>1. Capacity * (qt - qh) = 0
    BY <1>5, CapacityAssumption
  <2> QED BY <1>1, <1>2, <2>1
<1> QED BY <1>1, <1>6, CapacityAssumption DEF ToBufferEnd

\* What a successful compare-and-set claims fits between the tail and the head.
LEMMA ClaimFits ==
    ASSUME IInv, NEW p \in Producers, ClaimSucceeds(p)
    PROVE  /\ tail' = RecordPosition(p) + Required(p)
           /\ tail' <= head + Capacity
           /\ tail' > tail /\ tail' \in Nat
           /\ RecordIndex(p) + Required(p) <= Capacity
<1>1. /\ tail \in Positions /\ myHead[p] \in Positions /\ head \in Positions
      /\ myHead[p] <= head /\ head <= tail /\ tail = myTail[p] /\ pc[p] = "cas"
      /\ tail' = RecordPosition(p) + Required(p)
  BY DEF IInv, TypeOK, OrderInv, ClaimSucceeds, Positions
<1>2. /\ Required(p) \in Positions /\ Required(p) >= 8 /\ Required(p) <= Capacity
  BY Zenon, <1>1, RequiredOf DEF IInv, HeaderLength
<1>3. Required(p) <= Capacity - (tail - myHead[p])
  BY Zenon, <1>1 DEF IInv, CheckedInv, Checked
<1>4. CASE Required(p) > ToBufferEnd(tail)
  <2>1. Required(p) <= Index(myHead[p])
    BY Zenon, <1>1, <1>4 DEF IInv, CheckedInv, Checked
  <2>2. tail + ToBufferEnd(tail) + Required(p) <= myHead[p] + Capacity
    BY <1>1, <1>2, <1>3, <1>4, <2>1, WrapFits DEF Positions
  <2>3. RecordPosition(p) = tail + ToBufferEnd(tail) /\ RecordIndex(p) = 0
    BY Zenon, <1>1, <1>4, IndexOfLapEnd DEF RecordPosition, RecordIndex, PaddingFor, Positions
  <2>4. ToBufferEnd(tail) \in Nat /\ ToBufferEnd(tail) > 0
    BY Zenon, <1>1, ToBufferEndFacts DEF Positions
  <2> QED BY <1>1, <1>2, <2>2, <2>3, <2>4, CapacityAssumption DEF Positions
<1>5. CASE ~(Required(p) > ToBufferEnd(tail))
  <2>1. RecordPosition(p) = tail /\ RecordIndex(p) = Index(tail)
    BY <1>1, <1>5 DEF RecordPosition, RecordIndex, PaddingFor, Positions
  <2>2. Index(tail) + Required(p) <= Capacity
    BY <1>1, <1>2, <1>5, ToBufferEndFacts, IndexIsWord, CapacityAssumption DEF Positions, Words
  <2> QED BY <1>1, <1>2, <1>3, <2>1, <2>2, CapacityAssumption DEF Positions
<1> QED BY Zenon, <1>4, <1>5

\* What the chain says of one record.
LEMMA ClaimFacts ==
    ASSUME TypeOK, ChainInv, NEW i \in DOMAIN claims
    PROVE  /\ claims[i].start \in Positions /\ claims[i].start \in Nat
           /\ claims[i].size \in Positions /\ claims[i].size \in Nat /\ claims[i].size > 0
           /\ claims[i].id \in Int
           /\ Index(claims[i].start) + claims[i].size <= Capacity
           /\ claims[i].start + claims[i].size <= tail
<1> DEFINE Record == [start : Positions, size : Positions, id : Int]
<1>1. claims[i] \in Record
  <2>1. claims \in Seq(Record)
    BY Zenon DEF TypeOK
  <2> HIDE DEF Record
  <2> QED BY <2>1
<1> QED BY Zenon, <1>1 DEF ChainInv, Chain, Positions

\* What the driver finds at its position is the next claimed record, whole.
LEMMA DriverReads ==
    ASSUME IInv, DriverRead
    PROVE  /\ Len(consumed) < Len(claims)
           /\ Len(consumed) + 1 \in DOMAIN claims
           /\ readPosition = claims[Len(consumed) + 1].start
           /\ readPosition' = readPosition + claims[Len(consumed) + 1].size
           /\ consumed' = Append(consumed, {claims[Len(consumed) + 1].id})
<1> DEFINE k     == Len(consumed)
           c     == claims[k + 1]
           index == Index(readPosition)
<1>1. /\ lengthField[index] > 0 /\ readPosition - head < ToBufferEnd(head)
      /\ readPosition' = readPosition + AlignInt32(lengthField[index], Alignment)
      /\ consumed' = Append(consumed, IF content[index] = Padding THEN {Padding}
                       ELSE {content[w] : w \in WordsFrom(index, AlignInt32(lengthField[index], Alignment))})
  BY Zenon DEF DriverRead
<1>2. /\ readPosition \in Positions /\ head \in Positions /\ tail \in Positions
      /\ k \in Nat /\ Len(claims) \in Nat /\ DOMAIN claims = 1..Len(claims)
      /\ claims \in Seq([start : Positions, size : Positions, id : Int])
  BY DEF IInv, TypeOK
<1>3. index \in Words
  BY Zenon, <1>2, IndexIsWord
<1>4. k # Len(claims)
  <2> SUFFICES ASSUME k = Len(claims) PROVE FALSE
    BY Zenon
  <2>1. readPosition = tail
    BY Zenon DEF IInv, RecordsInv, ChainInv, Chain
  <2>2. tail < head + Capacity
    BY <1>1, <1>2, <2>1, ToBufferEndFacts, CapacityAssumption DEF Positions
  <2>3. lengthField[index] = 0
    BY <1>2, <2>1, <2>2 DEF IInv, RecordsInv, FreeInv, Positions
  <2> QED BY <1>1, <2>3
<1>5. k < Len(claims) /\ k + 1 \in DOMAIN claims
  BY <1>2, <1>4 DEF IInv, RecordsInv, ChainInv, Chain
<1>6. readPosition = c.start
  BY Zenon, <1>4 DEF IInv, RecordsInv, ChainInv, Chain
<1>7. Complete(c)
  BY <1>1, <1>2, <1>5, <1>6 DEF IInv, RecordsInv, StoredInv, Unread
<1>8. readPosition' = readPosition + c.size
  BY Zenon, <1>1, <1>6, <1>7 DEF Complete
<1>9. consumed' = Append(consumed, {c.id})
  <2>1. CASE c.id = Padding
    BY Zenon, <1>1, <1>6, <1>7, <2>1 DEF Complete
  <2>2. CASE c.id # Padding
    <3>1. c.size \in Nat /\ c.size > 0
      BY Zenon, <1>5, ClaimFacts DEF IInv, RecordsInv
    <3>2. index \in WordsFrom(index, c.size)
      BY <1>3, <3>1 DEF WordsFrom, Words
    <3>3. \A w \in WordsFrom(index, c.size) : content[w] = c.id
      BY Zenon, <1>6, <1>7, <2>2 DEF Complete
    <3>4. {content[w] : w \in WordsFrom(index, c.size)} = {c.id}
      BY Zenon, <3>2, <3>3
    <3>5. content[index] # Padding
      BY Zenon, <2>2, <3>2, <3>3
    <3>6. AlignInt32(lengthField[index], Alignment) = c.size
      BY Zenon, <1>6, <1>7 DEF Complete
    <3> QED BY Zenon, <1>1, <3>4, <3>5, <3>6
  <2> QED BY Zenon, <2>1, <2>2
<1> QED BY Zenon, <1>5, <1>6, <1>8, <1>9

LEMMA OrderNext ==
    ASSUME IInv, [Next]_vars
    PROVE  OrderInv'
<1> USE DEF trailer, locals, driverState, OrderInv
<1>1. /\ headCache \in Nat /\ head \in Nat /\ tail \in Nat /\ readPosition \in Nat
      /\ myHead \in [Producers -> Nat] /\ myTail \in [Producers -> Nat] /\ OrderInv
  BY Zenon DEF IInv, TypeOK, Positions
<1>2. ASSUME NEW p \in Producers, ClaimStep(p), ~ClaimSucceeds(p) PROVE OrderInv'
  BY <1>1, <1>2 DEF ClaimStep, LoadHeadCache, LoadTail, ReloadHead, StoreHeadCache,
              ReloadHeadToWrap, StoreHeadCacheToWrap, ClaimContended, InsufficientCapacity
<1>3. ASSUME NEW p \in Producers, ClaimSucceeds(p) PROVE OrderInv'
  <2>1. tail' > tail /\ tail' \in Nat
    BY Zenon, <1>3, ClaimFits
  <2>2. UNCHANGED <<headCache, head, readPosition, myHead, myTail>>
    BY Zenon, <1>3 DEF ClaimSucceeds
  <2> QED BY <1>1, <2>1, <2>2
<1>4. ASSUME NEW p \in Producers, RecordStep(p) PROVE OrderInv'
  BY Zenon, <1>1, <1>4 DEF RecordStep, WritePadding, WriteHeader, WritePayload, Commit
<1>5. ASSUME NEW p \in Producers, NEW n \in MsgLengths, NextCorrelationID(p, n) PROVE OrderInv'
  BY Zenon, <1>1, <1>5 DEF NextCorrelationID
<1>6. CASE DriverRead
  <2> DEFINE c == claims[Len(consumed) + 1]
  <2>1. /\ readPosition = c.start /\ readPosition' = readPosition + c.size
        /\ Len(consumed) + 1 \in DOMAIN claims
    BY Zenon, <1>6, DriverReads
  <2>2. c.size > 0 /\ c.start + c.size <= tail /\ c.size \in Nat
    BY Zenon, <2>1, ClaimFacts DEF IInv, RecordsInv
  <2> QED BY <1>1, <1>6, <2>1, <2>2 DEF DriverRead
<1>7. CASE DriverZero
  BY Zenon, <1>1, <1>7 DEF DriverZero
<1>8. CASE DriverAdvance
  BY <1>1, <1>8 DEF DriverAdvance
<1>9. CASE UNCHANGED vars
  BY Zenon, <1>1, <1>9 DEF vars
<1> QED BY Zenon, <1>2, <1>3, <1>4, <1>5, <1>6, <1>7, <1>8, <1>9 DEF Next, Driver

LEMMA CheckedNext ==
    ASSUME IInv, [Next]_vars
    PROVE  CheckedInv'
<1> SUFFICES ASSUME NEW q \in Producers PROVE Checked(q)'
  BY Zenon DEF CheckedInv
<1> USE DEF trailer, locals
<1>1. /\ head \in Nat /\ tail \in Nat /\ pc \in [Producers -> Pcs] /\ myLength \in [Producers -> Nat]
      /\ myHead \in [Producers -> Nat] /\ myTail \in [Producers -> Nat]
      /\ myHead[q] <= head /\ Required(q) \in Nat /\ Capacity \in Nat
  BY Zenon, RecordPositionType, CapacityAssumption DEF IInv, OrderInv, TypeOK, Positions
<1>2. Checked(q)
  BY Zenon DEF IInv, CheckedInv
<1>3. ASSUME UNCHANGED <<pc[q], myHead[q], myTail[q], myLength[q]>> PROVE Checked(q)'
  BY Zenon, <1>2, <1>3 DEF Checked, Required
<1>4. ASSUME UNCHANGED <<myHead[q], myTail[q], myLength[q]>>,
             pc'[q] \notin {"storeHeadCache", "reloadHeadToWrap", "storeHeadCacheToWrap", "cas"}
      PROVE  Checked(q)'
  BY Zenon, <1>4 DEF Checked
<1>5. ASSUME NEW p \in Producers, p # q, ClaimStep(p) \/ RecordStep(p)
      PROVE  UNCHANGED <<pc[q], myHead[q], myTail[q], myLength[q]>>
  BY Zenon, <1>1, <1>5 DEF ClaimStep, RecordStep, LoadHeadCache, LoadTail, ReloadHead, StoreHeadCache,
              ReloadHeadToWrap, StoreHeadCacheToWrap, ClaimSucceeds, ClaimContended,
              InsufficientCapacity, WritePadding, WriteHeader, WritePayload, Commit
<1>6. ASSUME LoadHeadCache(q) PROVE Checked(q)'
  BY Zenon, <1>1, <1>6 DEF LoadHeadCache, Checked
<1>7. ASSUME ClaimContended(q) \/ InsufficientCapacity(q) \/ ClaimSucceeds(q) \/ RecordStep(q)
      PROVE  Checked(q)'
  BY Zenon, <1>1, <1>4, <1>7 DEF ClaimContended, InsufficientCapacity, ClaimSucceeds,
              RecordStep, WritePadding, WriteHeader, WritePayload, Commit
<1>8. ASSUME LoadTail(q) PROVE Checked(q)'
  <2>1. myTail'[q] = tail /\ Required(q)' = Required(q) /\ myHead'[q] = myHead[q]
    BY Zenon, <1>1, <1>8 DEF LoadTail, Required
  <2>2. pc'[q] = IF Required(q) > Capacity - (tail - myHead[q]) THEN "reloadHead"
                 ELSE AfterCapacityCheck(Required(q), tail, myHead[q])
    BY Zenon, <1>1, <1>8 DEF LoadTail
  <2>3. Index(myHead[q]) \in Nat /\ ToBufferEnd(tail) \in Nat
    BY Zenon, <1>1, IndexRange
  <2> QED BY <1>1, <2>1, <2>2, <2>3 DEF AfterCapacityCheck, Checked
<1>9. ASSUME ReloadHead(q) PROVE Checked(q)'
  <2>1. myTail'[q] = myTail[q] /\ Required(q)' = Required(q) /\ myHead'[q] = head
    BY Zenon, <1>1, <1>9 DEF ReloadHead, Required
  <2>2. pc'[q] = IF Required(q) > Capacity - (myTail[q] - head) THEN "failed" ELSE "storeHeadCache"
    BY Zenon, <1>1, <1>9 DEF ReloadHead
  <2> QED BY <1>1, <2>1, <2>2 DEF Checked
<1>10. ASSUME StoreHeadCache(q) PROVE Checked(q)'
  <2>1. myTail'[q] = myTail[q] /\ Required(q)' = Required(q) /\ myHead'[q] = myHead[q]
    BY Zenon, <1>10 DEF StoreHeadCache, Required
  <2>2. pc[q] = "storeHeadCache" /\ pc'[q] = AfterCapacityCheck(Required(q), myTail[q], myHead[q])
    BY Zenon, <1>1, <1>10 DEF StoreHeadCache
  <2>3. Index(myHead[q]) \in Nat /\ ToBufferEnd(myTail[q]) \in Nat
    BY Zenon, <1>1, IndexRange
  <2> QED BY <1>1, <1>2, <2>1, <2>2, <2>3 DEF AfterCapacityCheck, Checked
<1>11. ASSUME ReloadHeadToWrap(q) PROVE Checked(q)'
  <2>1. myTail'[q] = myTail[q] /\ Required(q)' = Required(q) /\ myHead'[q] = head
    BY Zenon, <1>1, <1>11 DEF ReloadHeadToWrap, Required
  <2>2. /\ pc[q] = "reloadHeadToWrap"
        /\ pc'[q] = IF Required(q) > Index(head) THEN "failed" ELSE "storeHeadCacheToWrap"
    BY Zenon, <1>1, <1>11 DEF ReloadHeadToWrap
  <2>3. Required(q) <= Capacity - (myTail[q] - head)
    BY <1>1, <1>2, <2>2 DEF Checked
  <2>4. Index(head) \in Nat
    BY <1>1, DivMod
  <2> QED BY <1>1, <2>1, <2>2, <2>3, <2>4 DEF Checked
<1>12. ASSUME StoreHeadCacheToWrap(q) PROVE Checked(q)'
  <2>1. myTail'[q] = myTail[q] /\ Required(q)' = Required(q) /\ myHead'[q] = myHead[q]
    BY Zenon, <1>12 DEF StoreHeadCacheToWrap, Required
  <2>2. pc[q] = "storeHeadCacheToWrap" /\ pc'[q] = "cas"
    BY Zenon, <1>1, <1>12 DEF StoreHeadCacheToWrap
  <2> QED BY Zenon, <1>1, <1>2, <2>1, <2>2 DEF Checked
<1>13. ASSUME NEW p \in Producers, NEW n \in MsgLengths, NextCorrelationID(p, n) PROVE Checked(q)'
  <2>1. CASE p = q
    BY Zenon, <1>1, <1>13, <2>1 DEF NextCorrelationID, Checked
  <2>2. CASE p # q
    BY Zenon, <1>1, <1>3, <1>13, <2>2 DEF NextCorrelationID
  <2> QED BY Zenon, <2>1, <2>2
<1>14. CASE Driver \/ UNCHANGED vars
  BY Zenon, <1>3, <1>14 DEF Driver, DriverRead, DriverZero, DriverAdvance, vars
<1> QED BY Zenon, <1>3, <1>5, <1>6, <1>7, <1>8, <1>9, <1>10, <1>11, <1>12, <1>13, <1>14
        DEF Next, ClaimStep

-----------------------------------------------------------------------------
(* Records do not overlap.                                                 *)

WordsOf(claim) == WordsFrom(Index(claim.start), claim.size)

LEMMA Fields ==
    ASSUME NEW p
    PROVE  /\ RecordOf(p).start = RecordPosition(p) /\ RecordOf(p).size = Required(p) /\ RecordOf(p).id = myID[p]
           /\ PaddingOf(p).start = myTail[p] /\ PaddingOf(p).size = ToBufferEnd(myTail[p])
           /\ PaddingOf(p).id = Padding
  BY Zenon DEF RecordOf, PaddingOf

\* A producer holds what it held while the records stay and none of them is read.
LEMMA HeldKept ==
    ASSUME HeldInv, UNCHANGED claims, \A i : Unread(i) => Unread(i)',
           \A q \in Producers : HoldsClaim(q)' =>
               /\ HoldsClaim(q) /\ UNCHANGED <<RecordOf(q), PaddingOf(q), RecordPosition(q), myTail[q]>>
               /\ pc'[q] = "padding" => pc[q] = "padding"
    PROVE  HeldInv'
<1>1. ASSUME NEW q \in Producers, HoldsClaim(q)'
      PROVE  /\ \E i \in DOMAIN claims' : Unread(i)' /\ claims'[i] = RecordOf(q)'
             /\ pc'[q] = "padding" => \E i \in DOMAIN claims' : Unread(i)' /\ claims'[i] = PaddingOf(q)'
  <2>1. /\ HoldsClaim(q) /\ RecordOf(q)' = RecordOf(q) /\ PaddingOf(q)' = PaddingOf(q)
        /\ pc'[q] = "padding" => pc[q] = "padding"
    BY Zenon, <1>1
  <2>2. \E i \in DOMAIN claims : Unread(i) /\ claims[i] = RecordOf(q)
    BY Zenon, <2>1 DEF HeldInv
  <2>3. pc[q] = "padding" => \E i \in DOMAIN claims : Unread(i) /\ claims[i] = PaddingOf(q)
    BY Zenon, <2>1 DEF HeldInv
  <2> QED BY Zenon, <2>1, <2>2, <2>3
<1>2. ASSUME NEW q \in Producers, NEW r \in Producers \ {q}, HoldsClaim(q)', HoldsClaim(r)'
      PROVE  /\ RecordPosition(q)' # RecordPosition(r)'
             /\ pc'[q] = "padding" /\ pc'[r] = "padding" => myTail'[q] # myTail'[r]
  <2>1. ASSUME NEW x \in {q, r}
        PROVE  /\ HoldsClaim(x) /\ RecordPosition(x)' = RecordPosition(x) /\ myTail'[x] = myTail[x]
               /\ pc'[x] = "padding" => pc[x] = "padding"
    BY Zenon, <1>2, <2>1
  <2>2. /\ RecordPosition(q) # RecordPosition(r)
        /\ pc[q] = "padding" /\ pc[r] = "padding" => myTail[q] # myTail[r]
    BY Zenon, <1>2, <2>1 DEF HeldInv
  <2> QED BY Zenon, <2>1, <2>2
<1> QED BY Zenon, <1>1, <1>2 DEF HeldInv

LEMMA UnreadStart ==
    ASSUME IInv, NEW i, Unread(i)
    PROVE  /\ i \in DOMAIN claims
           /\ claims[i].start >= readPosition /\ claims[i].start >= head
<1>1. /\ Len(consumed) \in Nat /\ DOMAIN claims = 1..Len(claims) /\ Len(claims) \in Nat
      /\ i \in DOMAIN claims /\ i > Len(consumed) /\ head \in Nat /\ readPosition \in Nat
      /\ head <= readPosition
  BY SMTT(30) DEF IInv, TypeOK, OrderInv, Unread, Positions
<1>2. readPosition = claims[Len(consumed) + 1].start /\ Len(consumed) + 1 \in DOMAIN claims
  BY <1>1 DEF IInv, RecordsInv, ChainInv, Chain
<1>3. claims[i].start \in Nat
  BY Zenon, <1>1, ClaimFacts DEF IInv, RecordsInv
<1>4. CASE i = Len(consumed) + 1
  BY <1>1, <1>2, <1>3, <1>4
<1>5. CASE i # Len(consumed) + 1
  <2> DEFINE c == claims[Len(consumed) + 1]
  <2>1. c.start + c.size <= claims[i].start
    <3>1. Len(consumed) + 1 < i
      BY <1>1, <1>5
    <3> QED BY Zenon, <1>1, <1>2, <3>1 DEF IInv, RecordsInv, ChainInv, Chain
  <2>2. c.size \in Nat /\ c.start \in Nat
    BY Zenon, <1>2, ClaimFacts DEF IInv, RecordsInv
  <2> HIDE DEF c
  <2>3. readPosition = c.start
    BY Zenon, <1>2 DEF c
  <2> QED BY <1>1, <1>3, <2>1, <2>2, <2>3
<1> QED BY Zenon, <1>4, <1>5

LEMMA FirstWord ==
    ASSUME IInv, NEW i \in DOMAIN claims
    PROVE  Index(claims[i].start) \in WordsOf(claims[i])
<1>1. claims[i].start \in Positions /\ claims[i].size \in Nat /\ claims[i].size > 0
  BY Zenon, ClaimFacts DEF IInv, RecordsInv
<1> QED BY <1>1, IndexIsWord DEF WordsOf, WordsFrom, Words

LEMMA ClaimsApart ==
    ASSUME IInv, NEW i \in DOMAIN claims, NEW j \in DOMAIN claims, i # j,
           claims[i].start >= head, claims[j].start >= head
    PROVE  WordsOf(claims[i]) \cap WordsOf(claims[j]) = {}
<1> DEFINE a == claims[i].start
           m == claims[i].size
           b == claims[j].start
           n == claims[j].size
<1>1. /\ a \in Positions /\ m \in Nat /\ Index(a) + m <= Capacity /\ a + m <= tail /\ a \in Nat
      /\ b \in Positions /\ n \in Nat /\ Index(b) + n <= Capacity /\ b + n <= tail /\ b \in Nat
  BY Zenon, ClaimFacts DEF IInv, RecordsInv
<1>2. head \in Nat /\ tail \in Nat /\ tail <= head + Capacity /\ Capacity \in Nat
  BY Zenon, CapacityAssumption DEF IInv, RecordsInv, TypeOK, RoomInv, Positions
<1>3. a + m <= b \/ b + n <= a
  <2>1. i < j \/ j < i
    BY DEF IInv, TypeOK
  <2> QED BY Zenon, <2>1 DEF IInv, RecordsInv, ChainInv, Chain
<1>4. head <= a /\ head <= b
  BY Zenon, <1>1, <1>2
<1> HIDE DEF a, m, b, n
<1>5. a + m <= head + Capacity /\ b + n <= head + Capacity
  BY <1>1, <1>2
<1>6. WordsFrom(Index(a), m) \cap WordsFrom(Index(b), n) = {}
  BY Zenon, <1>1, <1>2, <1>3, <1>4, <1>5, WordsDisjoint
<1> QED BY Zenon, <1>6 DEF WordsOf, a, m, b, n

\* A position outside a claimed record, within a lap of the head, is not in
\* its words.
LEMMA OutsideClaim ==
    ASSUME IInv, NEW i \in DOMAIN claims, claims[i].start >= head,
           NEW x \in Positions, head <= x, x < head + Capacity,
           x < claims[i].start \/ x >= claims[i].start + claims[i].size
    PROVE  Index(x) \notin WordsOf(claims[i])
<1> DEFINE a == claims[i].start
           m == claims[i].size
<1>1. a \in Positions /\ m \in Nat /\ Index(a) + m <= Capacity /\ a + m <= tail /\ a \in Nat
  BY Zenon, ClaimFacts DEF IInv, RecordsInv
<1>2. head \in Nat /\ tail \in Nat /\ tail <= head + Capacity /\ Capacity \in Nat /\ x \in Nat
  BY Zenon, CapacityAssumption DEF IInv, RecordsInv, TypeOK, RoomInv, Positions
<1> SUFFICES ASSUME Index(x) \in WordsFrom(Index(a), m) PROVE FALSE
  BY Zenon DEF WordsOf
<1>3. PICK y \in Positions : a <= y /\ y < a + m /\ Index(y) = Index(x)
  BY Zenon, <1>1, WordPosition
<1>4. y \in Nat /\ y # x /\ (x < y => y < x + Capacity) /\ (y < x => x < y + Capacity)
  BY <1>1, <1>2, <1>3 DEF Positions
<1> QED BY <1>2, <1>3, <1>4, IndexInjective

\* The records of two producers, and a record and a padding, are different.
LEMMA HeldApart ==
    ASSUME IInv, NEW p \in Producers, NEW q \in Producers, p # q, HoldsClaim(p), HoldsClaim(q),
           NEW i \in DOMAIN claims, NEW j \in DOMAIN claims,
           claims[i] = RecordOf(p) \/ (pc[p] = "padding" /\ claims[i] = PaddingOf(p)),
           claims[j] = RecordOf(q) \/ (pc[q] = "padding" /\ claims[j] = PaddingOf(q))
    PROVE  i # j
<1>1. myID[p] # Padding /\ myID[q] # Padding
  <2>1. myID[p] \in Nat /\ myID[q] \in Nat
    BY Zenon DEF IInv, TypeOK
  <2> QED BY <2>1 DEF Padding
<1>2. /\ RecordPosition(p) # RecordPosition(q)
      /\ pc[p] = "padding" /\ pc[q] = "padding" => myTail[p] # myTail[q]
  BY Zenon DEF IInv, RecordsInv, HeldInv
<1> QED BY <1>1, <1>2 DEF RecordOf, PaddingOf

-----------------------------------------------------------------------------
(* Steps that touch neither the buffer nor a claim.                        *)

Quiet ==
    /\ UNCHANGED <<tail, head, lengthField, content, readPosition, driverPc, consumed, claims>>
    /\ \A q \in Producers :
          /\ HoldsClaim(q)' <=> HoldsClaim(q)
          /\ HoldsClaim(q) => UNCHANGED <<pc[q], myID[q], myLength[q], myTail[q]>>

LEMMA QuietSteps ==
    ASSUME TypeOK
    PROVE  /\ \A p \in Producers, n \in MsgLengths : NextCorrelationID(p, n) => Quiet
           /\ \A p \in Producers : ClaimStep(p) /\ ~ClaimSucceeds(p) => Quiet
           /\ UNCHANGED vars => Quiet
<1> USE DEF trailer, buffer, locals, driverState, HoldsClaim
<1>1. ASSUME NEW p \in Producers, NEW n \in MsgLengths, NextCorrelationID(p, n) PROVE Quiet
  BY Zenon, <1>1 DEF NextCorrelationID, Quiet, TypeOK
<1>2. ASSUME NEW p \in Producers, LoadHeadCache(p) PROVE Quiet
  BY Zenon, <1>2 DEF LoadHeadCache, Quiet, TypeOK
<1>3. ASSUME NEW p \in Producers, LoadTail(p) PROVE Quiet
  BY Zenon, <1>3 DEF LoadTail, AfterCapacityCheck, Quiet, TypeOK
<1>4. ASSUME NEW p \in Producers, ReloadHead(p) PROVE Quiet
  BY Zenon, <1>4 DEF ReloadHead, Quiet, TypeOK
<1>5. ASSUME NEW p \in Producers, StoreHeadCache(p) PROVE Quiet
  BY Zenon, <1>5 DEF StoreHeadCache, AfterCapacityCheck, Quiet, TypeOK
<1>6. ASSUME NEW p \in Producers, ReloadHeadToWrap(p) PROVE Quiet
  BY Zenon, <1>6 DEF ReloadHeadToWrap, Quiet, TypeOK
<1>7. ASSUME NEW p \in Producers, StoreHeadCacheToWrap(p) PROVE Quiet
  BY Zenon, <1>7 DEF StoreHeadCacheToWrap, Quiet, TypeOK
<1>8. ASSUME NEW p \in Producers, ClaimContended(p) \/ InsufficientCapacity(p) PROVE Quiet
  BY Zenon, <1>8 DEF ClaimContended, InsufficientCapacity, Quiet, TypeOK
<1>9. CASE UNCHANGED vars
  BY Zenon, <1>9 DEF vars, Quiet
<1> QED BY Zenon, <1>1, <1>2, <1>3, <1>4, <1>5, <1>6, <1>7, <1>8, <1>9 DEF ClaimStep, vars, Quiet

LEMMA QuietRecords ==
    ASSUME IInv, Quiet
    PROVE  RecordsInv'
<1>1. RoomInv' /\ ChainInv' /\ DriverInv' /\ StoredInv' /\ FreeInv' /\ ConsumedInClaimOrder'
  BY Zenon DEF IInv, RecordsInv, Quiet, RoomInv, ChainInv, Chain, DriverInv, StoredInv, Unread, Complete,
         FreeInv, ConsumedInClaimOrder
<1>2. ASSUME NEW q \in Producers, HoldsClaim(q)
      PROVE  /\ UNCHANGED <<pc[q], RecordOf(q), PaddingOf(q), RecordPosition(q), RecordIndex(q)>>
             /\ UNCHANGED <<myTail[q], myID[q], Required(q)>>
  BY Zenon, <1>2 DEF Quiet, RecordOf, PaddingOf, RecordPosition, RecordIndex, Required
<1>3. HeldInv'
  BY Zenon, <1>2, HeldKept DEF IInv, RecordsInv, Quiet, Unread
<1>4. FilledInv'
  BY Zenon, <1>2 DEF IInv, RecordsInv, Quiet, FilledInv, Filled
<1> QED BY Zenon, <1>1, <1>3, <1>4 DEF RecordsInv

-----------------------------------------------------------------------------
(* Steps that store to a claimed record.                                   *)

LEMMA StoreRecords ==
    ASSUME IInv, NEW p \in Producers, HoldsClaim(p), NEW i, Unread(i),
           claims[i] = RecordOf(p) \/ (pc[p] = "padding" /\ claims[i] = PaddingOf(p)),
           UNCHANGED <<tail, head, locals, driverState, claims>>,
           \A q \in Producers \ {p} : pc'[q] = pc[q],
           pc'[p] # "padding",
           \A w \in Words \ WordsOf(claims[i]) : UNCHANGED <<lengthField[w], content[w]>>,
           HoldsClaim(p)' => Filled(p)',
           lengthField'[Index(claims[i].start)] > 0 => Complete(claims[i])'
    PROVE  RecordsInv'
<1> USE DEF locals, driverState
<1>1. RoomInv' /\ ChainInv' /\ DriverInv' /\ ConsumedInClaimOrder'
  BY Zenon DEF IInv, RecordsInv, RoomInv, ChainInv, Chain, DriverInv, ConsumedInClaimOrder
<1>2. /\ \A q \in Producers : UNCHANGED <<RecordOf(q), PaddingOf(q), RecordPosition(q), RecordIndex(q), Required(q)>>
      /\ \A q \in Producers : HoldsClaim(q)' /\ q # p => HoldsClaim(q) /\ pc'[q] = pc[q]
      /\ \A j : Unread(j)' <=> Unread(j)
  BY Zenon DEF RecordOf, PaddingOf, RecordPosition, RecordIndex, Required, HoldsClaim, Unread
<1>3. HeldInv'
  BY Zenon, <1>2, HeldKept DEF IInv, RecordsInv
<1>4. i \in DOMAIN claims /\ claims[i].start >= readPosition /\ claims[i].start >= head
  BY Zenon, UnreadStart
<1>5. ASSUME NEW j \in DOMAIN claims, Unread(j), j # i
      PROVE  /\ \A w \in WordsOf(claims[j]) : UNCHANGED <<lengthField[w], content[w]>>
             /\ UNCHANGED <<lengthField[Index(claims[j].start)], content[Index(claims[j].start)]>>
  <2>1. WordsOf(claims[i]) \cap WordsOf(claims[j]) = {}
    BY Zenon, <1>4, <1>5, UnreadStart, ClaimsApart
  <2>2. WordsOf(claims[j]) \subseteq Words
    BY Zenon DEF WordsOf, WordsFrom
  <2>3. Index(claims[j].start) \in WordsOf(claims[j])
    BY Zenon, FirstWord
  <2> QED BY Zenon, <2>1, <2>2, <2>3
<1>6. StoredInv'
  <2> SUFFICES ASSUME NEW j \in DOMAIN claims, Unread(j), lengthField'[Index(claims[j].start)] > 0
               PROVE  Complete(claims[j])'
    BY Zenon, <1>2 DEF StoredInv
  <2>1. CASE j = i
    BY Zenon, <2>1
  <2>2. CASE j # i
    <3>1. Complete(claims[j])
      BY Zenon, <1>5, <2>2 DEF IInv, RecordsInv, StoredInv
    <3> QED BY ZenonT(30), <1>5, <2>2, <3>1 DEF Complete, WordsOf
  <2> QED BY Zenon, <2>1, <2>2
<1>7. FilledInv'
  <2> SUFFICES ASSUME NEW q \in Producers, q # p, HoldsClaim(q), pc'[q] = pc[q] PROVE Filled(q)'
    BY Zenon, <1>2 DEF FilledInv
  <2>1. Filled(q)
    BY Zenon DEF IInv, RecordsInv, FilledInv
  <2>2. PICK j \in DOMAIN claims : Unread(j) /\ claims[j] = RecordOf(q)
    BY Zenon DEF IInv, RecordsInv, HeldInv
  <2>3. j # i
    BY Zenon, <1>4, <2>2, HeldApart
  <2>4. WordsOf(claims[j]) = WordsFrom(RecordIndex(q), Required(q)) /\ Index(claims[j].start) = RecordIndex(q)
    BY Zenon, <2>2, Fields DEF WordsOf, RecordIndex
  <2>5. /\ \A w \in WordsFrom(RecordIndex(q), Required(q)) : UNCHANGED content[w]
        /\ UNCHANGED <<lengthField[RecordIndex(q)], content[RecordIndex(q)]>>
    <3>1. ASSUME NEW w \in WordsOf(claims[j]) PROVE content'[w] = content[w]
      BY Zenon, <1>5, <2>2, <2>3, <3>1
    <3>2. /\ lengthField'[Index(claims[j].start)] = lengthField[Index(claims[j].start)]
          /\ content'[Index(claims[j].start)] = content[Index(claims[j].start)] /\ RecordIndex(q)' = RecordIndex(q)
      BY Zenon, <1>2, <1>5, <2>2, <2>3
    <3> QED BY Zenon, <2>4, <3>1, <3>2
  <2>6. pc[q] = "padding" => UNCHANGED lengthField[Index(myTail[q])]
    <3> SUFFICES ASSUME pc[q] = "padding" PROVE UNCHANGED lengthField[Index(myTail[q])]
      BY Zenon
    <3>1. PICK l \in DOMAIN claims : Unread(l) /\ claims[l] = PaddingOf(q)
      BY Zenon DEF IInv, RecordsInv, HeldInv
    <3>2. l # i
      BY Zenon, <1>4, <3>1, HeldApart
    <3>3. Index(claims[l].start) = Index(myTail[q])
      BY Zenon, <3>1, Fields
    <3> QED BY Zenon, <1>5, <3>1, <3>2, <3>3
  <2> QED BY Zenon, <1>2, <2>1, <2>5, <2>6 DEF Filled
<1>8. FreeInv'
  <2>1. /\ head \in Nat /\ tail \in Nat /\ readPosition \in Nat /\ Capacity \in Nat
        /\ head <= readPosition /\ readPosition <= tail /\ tail <= head + Capacity
    BY Zenon, CapacityAssumption DEF IInv, TypeOK, OrderInv, RecordsInv, RoomInv, Positions
  <2>2. claims[i].start \in Nat /\ claims[i].size \in Nat /\ claims[i].start + claims[i].size <= tail
    BY Zenon, <1>4, ClaimFacts DEF IInv, RecordsInv
  <2>3. ASSUME NEW x \in Positions, head <= x, x < head + Capacity, tail <= x \/ x < readPosition
        PROVE  UNCHANGED lengthField[Index(x)]
    <3>1. x < claims[i].start \/ x >= claims[i].start + claims[i].size
      BY <1>4, <2>1, <2>2, <2>3 DEF Positions
    <3>2. Index(x) \notin WordsOf(claims[i])
      BY Zenon, <1>4, <2>3, <3>1, OutsideClaim
    <3> QED BY Zenon, <3>2, IndexIsWord
  <2>4. ASSUME NEW x \in Positions, tail <= x, x < head + Capacity PROVE lengthField'[Index(x)] = 0
    <3>1. head <= x
      BY <2>1, <2>4 DEF Positions
    <3> QED BY Zenon, <2>3, <2>4, <3>1 DEF IInv, RecordsInv, FreeInv
  <2>5. ASSUME driverPc = "advance", NEW x \in Positions, head <= x, x < readPosition
        PROVE  lengthField'[Index(x)] = 0
    <3>1. x < head + Capacity
      BY <2>1, <2>5 DEF Positions
    <3> QED BY Zenon, <2>3, <2>5, <3>1 DEF IInv, RecordsInv, FreeInv
  <2> QED BY Zenon, <2>4, <2>5 DEF FreeInv
<1> QED BY Zenon, <1>1, <1>3, <1>6, <1>7, <1>8 DEF RecordsInv

\* A producer's record, seen as an element of claims.
LEMMA HeldRecord ==
    ASSUME IInv, NEW p \in Producers, HoldsClaim(p), NEW i \in DOMAIN claims, claims[i] = RecordOf(p)
    PROVE  /\ WordsOf(claims[i]) = WordsFrom(RecordIndex(p), Required(p))
           /\ Index(claims[i].start) = RecordIndex(p)
           /\ RecordIndex(p) \in WordsOf(claims[i]) /\ RecordIndex(p) \in Words
           /\ claims[i].id = myID[p] /\ claims[i].size = Required(p) /\ myID[p] # Padding
<1>1. Index(claims[i].start) = RecordIndex(p)
  BY DEF RecordOf, RecordIndex
<1>2. RecordIndex(p) \in Words
  BY Zenon, RecordPositionType DEF IInv
<1>3. myID[p] # Padding
  <2>1. myID[p] \in Nat
    BY Zenon DEF IInv, TypeOK
  <2> QED BY <2>1 DEF Padding
<1> QED BY <1>1, <1>2, <1>3, FirstWord DEF WordsOf, RecordOf

LEMMA WritePaddingRecords ==
    ASSUME IInv, NEW p \in Producers, WritePadding(p)
    PROVE  RecordsInv'
<1> USE DEF locals, driverState
<1>1. /\ pc[p] = "padding" /\ HoldsClaim(p) /\ pc' = [pc EXCEPT ![p] = "header"]
      /\ UNCHANGED <<tail, head, locals, driverState, claims>>
      /\ lengthField' = [lengthField EXCEPT ![Index(myTail[p])] = ToBufferEnd(myTail[p])]
      /\ content' = [content EXCEPT ![Index(myTail[p])] = Padding]
  BY Zenon DEF WritePadding, HoldsClaim, trailer
<1>2. PICK i \in DOMAIN claims : Unread(i) /\ claims[i] = PaddingOf(p)
  BY Zenon, <1>1 DEF IInv, RecordsInv, HeldInv
<1>3. PICK j \in DOMAIN claims : Unread(j) /\ claims[j] = RecordOf(p)
  BY Zenon, <1>1 DEF IInv, RecordsInv, HeldInv
<1>4. Index(myTail[p]) \in WordsOf(claims[i]) /\ Index(claims[i].start) = Index(myTail[p])
  BY <1>2, FirstWord DEF PaddingOf
<1>5. \A w \in Words \ WordsOf(claims[i]) : UNCHANGED <<lengthField[w], content[w]>>
  BY Zenon, <1>1, <1>4 DEF IInv, TypeOK
<1>6. HoldsClaim(p)' => Filled(p)'
  <2>1. i # j
    BY SMTT(30), <1>2, <1>3, HeldRecord, <1>1 DEF PaddingOf
  <2>2. RecordIndex(p) \notin WordsOf(claims[i]) /\ RecordIndex(p) \in Words
    BY Zenon, <1>1, <1>2, <1>3, <2>1, UnreadStart, ClaimsApart, HeldRecord
  <2>3. lengthField'[RecordIndex(p)] = lengthField[RecordIndex(p)] /\ UNCHANGED RecordIndex(p)
    BY Zenon, <1>1, <1>5, <2>2 DEF RecordIndex, RecordPosition, Required
  <2>4. pc'[p] = "header"
    BY Zenon, <1>1 DEF IInv, TypeOK
  <2>5. lengthField[RecordIndex(p)] <= 0
    BY Zenon, <1>1 DEF IInv, RecordsInv, FilledInv, Filled
  <2> QED BY Zenon, <2>3, <2>4, <2>5 DEF Filled
<1>7. Complete(claims[i])'
  <2>1. /\ myTail[p] \in Positions /\ Index(myTail[p]) \in Words
    BY Zenon, IndexIsWord DEF IInv, TypeOK
  <2>2. ToBufferEnd(myTail[p]) \in Positions
    BY Zenon, <2>1, ToBufferEndFacts
  <2>3. AlignInt32(ToBufferEnd(myTail[p]), Alignment) = ToBufferEnd(myTail[p])
    BY <2>2 DEF AlignInt32, Alignment, Positions
  <2>4. lengthField'[Index(myTail[p])] = ToBufferEnd(myTail[p]) /\ content'[Index(myTail[p])] = Padding
    BY Zenon, <1>1, <2>1 DEF IInv, TypeOK
  <2>5. claims'[i].size = ToBufferEnd(myTail[p]) /\ claims'[i].id = Padding /\ claims'[i].start = myTail[p]
    BY <1>1, <1>2 DEF PaddingOf
  <2> QED BY Zenon, <2>3, <2>4, <2>5 DEF Complete
<1>8. pc'[p] # "padding" /\ \A q \in Producers \ {p} : pc'[q] = pc[q]
  BY Zenon, <1>1 DEF IInv, TypeOK
<1> QED BY Zenon, <1>1, <1>2, <1>5, <1>6, <1>7, <1>8, StoreRecords

LEMMA WriteHeaderRecords ==
    ASSUME IInv, NEW p \in Producers, WriteHeader(p)
    PROVE  RecordsInv'
<1> USE DEF locals, driverState
<1>1. /\ pc[p] = "header" /\ HoldsClaim(p) /\ pc' = [pc EXCEPT ![p] = "payload"]
      /\ UNCHANGED <<tail, head, locals, driverState, claims>>
      /\ lengthField' = [lengthField EXCEPT ![RecordIndex(p)] = -(myLength[p] + HeaderLength)]
      /\ content' = [content EXCEPT ![RecordIndex(p)] = myID[p]]
  BY Zenon DEF WriteHeader, HoldsClaim, trailer
<1>2. PICK i \in DOMAIN claims : Unread(i) /\ claims[i] = RecordOf(p)
  BY Zenon, <1>1 DEF IInv, RecordsInv, HeldInv
<1>3. /\ RecordIndex(p) \in WordsOf(claims[i]) /\ RecordIndex(p) \in Words
      /\ Index(claims[i].start) = RecordIndex(p)
  BY Zenon, <1>1, <1>2, HeldRecord
<1>4. \A w \in Words \ WordsOf(claims[i]) : UNCHANGED <<lengthField[w], content[w]>>
  BY Zenon, <1>1, <1>3 DEF IInv, TypeOK
<1>5. lengthField'[RecordIndex(p)] <= 0 /\ content'[RecordIndex(p)] = myID[p]
  <2>1. myLength[p] + HeaderLength \in Nat
    BY DEF IInv, TypeOK, HeaderLength
  <2>2. lengthField'[RecordIndex(p)] = -(myLength[p] + HeaderLength) /\ content'[RecordIndex(p)] = myID[p]
    BY Zenon, <1>1, <1>3 DEF IInv, TypeOK
  <2> QED BY <2>1, <2>2
<1>6. pc'[p] = "payload" /\ \A q \in Producers \ {p} : pc'[q] = pc[q]
  BY Zenon, <1>1 DEF IInv, TypeOK
<1>7. HoldsClaim(p)' => Filled(p)'
  <2>1. UNCHANGED <<RecordIndex(p), myID[p]>>
    BY Zenon, <1>1 DEF RecordIndex, RecordPosition, Required
  <2> QED BY Zenon, <1>5, <1>6, <2>1 DEF Filled
<1>8. ~(lengthField'[Index(claims[i].start)] > 0)
  <2>1. lengthField'[RecordIndex(p)] \in Int
    BY SMTT(30), <1>1, <1>3, TypeNext DEF IInv, TypeOK, HeaderLength
  <2> QED BY <1>3, <1>5, <2>1
<1> QED BY ZenonT(30), <1>1, <1>2, <1>4, <1>6, <1>7, <1>8, StoreRecords

LEMMA WritePayloadRecords ==
    ASSUME IInv, NEW p \in Producers, WritePayload(p)
    PROVE  RecordsInv'
<1> USE DEF locals, driverState
<1>1. /\ pc[p] = "payload" /\ HoldsClaim(p) /\ pc' = [pc EXCEPT ![p] = "commit"]
      /\ UNCHANGED <<tail, head, locals, driverState, claims>>
      /\ lengthField' = [w \in Words |-> IF w \in PayloadWords(p) THEN PayloadInt32 ELSE lengthField[w]]
      /\ content' = [w \in Words |-> IF w \in PayloadWords(p) THEN myID[p] ELSE content[w]]
  BY ZenonT(30) DEF WritePayload, HoldsClaim, trailer
<1>2. PICK i \in DOMAIN claims : Unread(i) /\ claims[i] = RecordOf(p)
  BY Zenon, <1>1 DEF IInv, RecordsInv, HeldInv
<1>3. /\ RecordIndex(p) \in WordsOf(claims[i]) /\ RecordIndex(p) \in Words
      /\ Index(claims[i].start) = RecordIndex(p)
      /\ WordsOf(claims[i]) = WordsFrom(RecordIndex(p), Required(p))
  BY Zenon, <1>1, <1>2, HeldRecord
<1>4. Required(p) \in Nat /\ RecordIndex(p) \in Nat
  BY SMTT(30), <1>3, RecordPositionType DEF IInv, Positions, Words
\* The payload is the record without its header word.
<1>5. /\ PayloadWords(p) \subseteq WordsOf(claims[i]) /\ RecordIndex(p) \notin PayloadWords(p)
      /\ \A w \in WordsOf(claims[i]) : w # RecordIndex(p) => w \in PayloadWords(p)
  BY SMTT(30), <1>3, <1>4 DEF PayloadWords, WordsFrom, Words, HeaderLength, Alignment
<1>6. \A w \in Words \ WordsOf(claims[i]) : UNCHANGED <<lengthField[w], content[w]>>
  BY Zenon, <1>1, <1>5
<1>7. pc'[p] = "commit" /\ \A q \in Producers \ {p} : pc'[q] = pc[q]
  BY Zenon, <1>1 DEF IInv, TypeOK
<1>8. lengthField'[RecordIndex(p)] = lengthField[RecordIndex(p)] /\ lengthField[RecordIndex(p)] <= 0
  BY Zenon, <1>1, <1>3, <1>5 DEF IInv, RecordsInv, FilledInv, Filled
<1>9. HoldsClaim(p)' => Filled(p)'
  <2>1. UNCHANGED <<RecordIndex(p), myID[p], Required(p)>>
    BY Zenon, <1>1 DEF RecordIndex, RecordPosition, Required
  <2>2. content[RecordIndex(p)] = myID[p]
    BY ZenonT(30), <1>1 DEF IInv, RecordsInv, FilledInv, Filled
  <2>3. WordsOf(claims[i]) \subseteq Words
    BY Zenon DEF WordsOf, WordsFrom
  <2>4. \A w \in WordsFrom(RecordIndex(p), Required(p)) : content'[w] = myID[p]
    BY ZenonT(30), <1>1, <1>3, <1>5, <2>2, <2>3
  <2>5. content'[RecordIndex(p)] = myID[p]
    BY Zenon, <1>3, <2>4
  <2> QED BY ZenonT(30), <1>7, <1>8, <2>1, <2>4, <2>5 DEF Filled
<1>10. ~(lengthField'[Index(claims[i].start)] > 0)
  <2>1. lengthField[RecordIndex(p)] \in Int
    BY Zenon, <1>3 DEF IInv, TypeOK
  <2> QED BY <1>3, <1>8, <2>1
<1> QED BY Zenon, <1>1, <1>2, <1>6, <1>7, <1>9, <1>10, StoreRecords

LEMMA CommitRecords ==
    ASSUME IInv, NEW p \in Producers, Commit(p)
    PROVE  RecordsInv'
<1> USE DEF locals, driverState
<1>1. /\ pc[p] = "commit" /\ HoldsClaim(p) /\ pc' = [pc EXCEPT ![p] = "idle"]
      /\ UNCHANGED <<tail, head, locals, driverState, claims, content>>
      /\ lengthField' = [lengthField EXCEPT ![RecordIndex(p)] = myLength[p] + HeaderLength]
  BY Zenon DEF Commit, HoldsClaim, trailer
<1>2. PICK i \in DOMAIN claims : Unread(i) /\ claims[i] = RecordOf(p)
  BY ZenonT(30), <1>1 DEF IInv, RecordsInv, HeldInv
<1>3. /\ RecordIndex(p) \in WordsOf(claims[i]) /\ RecordIndex(p) \in Words
      /\ Index(claims[i].start) = RecordIndex(p)
      /\ WordsOf(claims[i]) = WordsFrom(RecordIndex(p), Required(p))
      /\ claims[i].id = myID[p] /\ claims[i].size = Required(p) /\ myID[p] # Padding
  BY Zenon, <1>1, <1>2, HeldRecord
<1>4. \A w \in Words \ WordsOf(claims[i]) : UNCHANGED <<lengthField[w], content[w]>>
  BY Zenon, <1>1, <1>3 DEF IInv, TypeOK
<1>5. pc'[p] = "idle" /\ ~HoldsClaim(p)' /\ \A q \in Producers \ {p} : pc'[q] = pc[q]
  BY Zenon, <1>1 DEF IInv, TypeOK, HoldsClaim
<1>6. Complete(claims[i])'
  <2>1. lengthField'[RecordIndex(p)] = myLength[p] + HeaderLength
    BY Zenon, <1>1, <1>3 DEF IInv, TypeOK
  <2>2. AlignInt32(myLength[p] + HeaderLength, Alignment) = Required(p)
    BY Zenon, <1>1, RequiredOf DEF IInv
  <2>3. \A w \in WordsFrom(RecordIndex(p), Required(p)) : content'[w] = myID[p]
    BY Zenon, <1>1 DEF IInv, RecordsInv, FilledInv, Filled
  <2> QED BY Zenon, <1>1, <1>3, <2>1, <2>2, <2>3 DEF Complete, WordsOf
<1> QED BY Zenon, <1>1, <1>2, <1>4, <1>5, <1>6, StoreRecords

-----------------------------------------------------------------------------
(* The compare-and-set.                                                    *)

\* The records that are claimed, as elements of the new sequence.
LEMMA ClaimAppends ==
    ASSUME IInv, NEW p \in Producers, ClaimSucceeds(p)
    PROVE  \/ /\ ~(Required(p) > ToBufferEnd(tail))
              /\ claims' = Append(claims, RecordOf(p))
              /\ pc'[p] = "header" /\ RecordPosition(p) = tail
           \/ /\ Required(p) > ToBufferEnd(tail)
              /\ claims' = Append(Append(claims, PaddingOf(p)), RecordOf(p))
              /\ pc'[p] = "padding" /\ RecordPosition(p) = tail + ToBufferEnd(tail)
<1>1. /\ tail \in Positions /\ tail = myTail[p] /\ pc[p] = "cas"
      /\ claims' = claims \o NewClaims(p)
      /\ pc'[p] = IF PaddingFor(tail, Required(p)) = 0 THEN "header" ELSE "padding"
  BY Zenon DEF IInv, TypeOK, ClaimSucceeds
<1>2. ToBufferEnd(tail) \in Nat /\ ToBufferEnd(tail) > 0
  BY Zenon, <1>1, ToBufferEndFacts DEF Positions
<1>3. claims \in Seq([start : Positions, size : Positions, id : Int])
  BY Zenon DEF IInv, TypeOK
<1>4. CASE Required(p) > ToBufferEnd(tail)
  <2>1. PaddingFor(tail, Required(p)) = ToBufferEnd(tail)
    BY Zenon, <1>4 DEF PaddingFor
  <2>2. NewClaims(p) = <<PaddingOf(p), RecordOf(p)>>
    BY <1>1, <1>2, <2>1 DEF NewClaims, PaddingOf, RecordOf
  <2>3. RecordPosition(p) = tail + ToBufferEnd(tail)
    BY Zenon, <1>1, <2>1 DEF RecordPosition
  <2>4. claims' = Append(Append(claims, PaddingOf(p)), RecordOf(p))
    BY <1>1, <1>3, <2>2
  <2> QED BY <1>1, <1>2, <1>4, <2>1, <2>3, <2>4
<1>5. CASE ~(Required(p) > ToBufferEnd(tail))
  <2>1. PaddingFor(tail, Required(p)) = 0
    BY Zenon, <1>5 DEF PaddingFor
  <2>2. NewClaims(p) = <<RecordOf(p)>>
    BY Zenon, <1>1, <2>1 DEF NewClaims, RecordOf
  <2>3. RecordPosition(p) = tail
    BY <1>1, <2>1 DEF RecordPosition, Positions
  <2>4. claims' = Append(claims, RecordOf(p))
    BY <1>1, <1>3, <2>2
  <2> QED BY Zenon, <1>1, <1>5, <2>1, <2>3, <2>4
<1> QED BY Zenon, <1>4, <1>5

LEMMA AppendToChain ==
    ASSUME NEW records \in Seq([start : Positions, size : Positions, id : Int]),
           NEW read \in Nat, NEW position \in Nat, NEW end \in Nat,
           Chain(records, read, position, end),
           NEW c \in [start : Positions, size : Positions, id : Int],
           c.start = end, c.size > 0, Index(end) + c.size <= Capacity
    PROVE  Chain(Append(records, c), read, position, end + c.size)
<1> DEFINE Record == [start : Positions, size : Positions, id : Int]
           n == Len(records)
           new == Append(records, c)
<1>1. c.size \in Nat /\ c.start \in Nat
  BY Zenon DEF Positions
<1>2. ASSUME NEW i \in DOMAIN records PROVE records[i].size \in Nat /\ records[i].start \in Nat
  <2>1. records[i] \in Record
    <3> HIDE DEF Record
    <3>1. records \in Seq(Record)
      BY Zenon DEF Record
    <3> QED BY <3>1
  <2> QED BY Zenon, <2>1 DEF Positions
<1>3. /\ n \in Nat /\ Len(new) = n + 1 /\ DOMAIN records = 1..n /\ DOMAIN new = 1..(n + 1)
      /\ new[n + 1] = c /\ \A i \in 1..n : new[i] = records[i]
  OBVIOUS
<1>a. read <= n /\ position = IF read = n THEN end ELSE records[read + 1].start
  BY Zenon DEF Chain
<1> HIDE DEF new, n
<1>4. read <= Len(new)
  BY <1>3, <1>a
<1>5. position = IF read = Len(new) THEN end + c.size ELSE new[read + 1].start
  <2>1. read # n + 1 /\ read + 1 \in 1..(n + 1)
    BY <1>3, <1>a
  <2>2. CASE read = n
    BY Zenon, <1>3, <1>a, <2>1, <2>2
  <2>3. CASE read # n
    <3>1. read + 1 \in 1..n
      BY <1>3, <1>a, <2>3
    <3> QED BY Zenon, <1>3, <1>a, <2>1, <2>3, <3>1
  <2> QED BY Zenon, <2>2, <2>3
<1>6. ASSUME NEW i \in DOMAIN new
      PROVE  /\ new[i].size > 0
             /\ Index(new[i].start) + new[i].size <= Capacity
             /\ new[i].start + new[i].size = IF i = Len(new) THEN end + c.size ELSE new[i + 1].start
             /\ new[i].start + new[i].size <= end + c.size
             /\ \A j \in DOMAIN new : i < j => new[i].start + new[i].size <= new[j].start
  <2>1. CASE i = n + 1
    BY <1>1, <1>3, <2>1
  <2>2. CASE i # n + 1
    <3>1. i \in 1..n /\ i \in DOMAIN records /\ new[i] = records[i]
      BY <1>3, <2>2
    <3>2. /\ records[i].size > 0 /\ Index(records[i].start) + records[i].size <= Capacity
          /\ records[i].start + records[i].size = IF i = n THEN end ELSE records[i + 1].start
          /\ records[i].start + records[i].size <= end
          /\ \A j \in DOMAIN records : i < j => records[i].start + records[i].size <= records[j].start
      BY Zenon, <3>1 DEF Chain, n
    <3>3. records[i].start \in Nat /\ records[i].size \in Nat
      BY Zenon, <1>2, <3>1
    <3>4. new[i].start + new[i].size = IF i = Len(new) THEN end + c.size ELSE new[i + 1].start
      <4>1. CASE i = n
        BY Zenon, <1>3, <3>1, <3>2, <4>1
      <4>2. CASE i # n
        <5>1. i + 1 \in 1..n /\ new[i + 1] = records[i + 1] /\ i # n + 1
          BY SMTT(30), <1>3, <3>1, <4>2
        <5> QED BY Zenon, <1>3, <3>1, <3>2, <4>2, <5>1
      <4> QED BY Zenon, <4>1, <4>2
    <3>5. ASSUME NEW j \in DOMAIN new, i < j PROVE new[i].start + new[i].size <= new[j].start
      <4>1. CASE j = n + 1
        BY Zenon, <1>3, <3>1, <3>2, <4>1
      <4>2. CASE j # n + 1
        <5>1. j \in 1..n /\ j \in DOMAIN records /\ new[j] = records[j]
          BY <1>3, <4>2
        <5> QED BY Zenon, <3>1, <3>2, <3>5, <5>1
      <4> QED BY Zenon, <4>1, <4>2
    <3> QED BY SMTT(30), <1>1, <3>1, <3>2, <3>3, <3>4, <3>5
  <2> QED BY Zenon, <2>1, <2>2
<1>7. Chain(new, read, position, end + c.size)
  BY Zenon, <1>4, <1>5, <1>6 DEF Chain
<1> QED BY Zenon, <1>7 DEF new

LEMMA ClaimRecords ==
    ASSUME IInv, NEW p \in Producers, ClaimSucceeds(p)
    PROVE  RecordsInv'
<1> DEFINE Record == [start : Positions, size : Positions, id : Int]
           n == Len(claims)
<1>1. /\ pc[p] = "cas" /\ tail = myTail[p]
      /\ UNCHANGED <<head, lengthField, content, locals, driverState>>
      /\ UNCHANGED <<myID, myLength, myTail, readPosition, driverPc, consumed>>
      /\ \A q \in Producers \ {p} : pc'[q] = pc[q]
  BY Zenon DEF ClaimSucceeds, IInv, TypeOK, locals, driverState, buffer
<1>2. /\ tail \in Positions /\ tail \in Nat /\ head \in Nat /\ readPosition \in Nat /\ head <= tail
      /\ Capacity \in Nat /\ claims \in Seq(Record) /\ consumed \in Seq(SUBSET Int)
      /\ Len(consumed) \in Nat /\ Len(consumed) <= n /\ n \in Nat /\ DOMAIN claims = 1..n
  <2>1. tail \in Positions /\ head \in Positions /\ readPosition \in Positions
    BY Zenon DEF IInv, TypeOK
  <2>2. head <= tail /\ tail \in Nat /\ head \in Nat /\ readPosition \in Nat
    BY <2>1 DEF IInv, OrderInv, Positions
  <2>3. claims \in Seq(Record) /\ consumed \in Seq(SUBSET Int)
    BY Zenon DEF IInv, TypeOK
  <2>4. Len(consumed) <= n
    BY Zenon DEF IInv, RecordsInv, ChainInv, Chain
  <2>5. Len(consumed) \in Nat /\ n \in Nat /\ DOMAIN claims = 1..n
    BY <2>3
  <2> QED BY Zenon, <2>1, <2>2, <2>3, <2>4, <2>5, CapacityAssumption
<1>3. /\ tail' = RecordPosition(p) + Required(p) /\ tail' <= head + Capacity
      /\ tail' > tail /\ tail' \in Nat /\ RecordIndex(p) + Required(p) <= Capacity
  BY Zenon, ClaimFits
<1>4. /\ Required(p) \in Nat /\ Required(p) >= 8 /\ RecordPosition(p) \in Positions
      /\ RecordPosition(p) \in Nat /\ RecordPosition(p) >= tail
      /\ RecordOf(p) \in Record /\ PaddingOf(p) \in Record
  <2>1. Required(p) \in Positions /\ Required(p) >= 8
    BY Zenon, <1>1, RequiredOf DEF IInv, HeaderLength
  <2>2. RecordPosition(p) \in Positions
    BY Zenon, RecordPositionType DEF IInv
  <2>3. ToBufferEnd(tail) \in Positions
    BY Zenon, <1>2, ToBufferEndFacts
  <2>4. RecordPosition(p) >= tail
    <3>1. RecordPosition(p) = tail \/ RecordPosition(p) = tail + ToBufferEnd(tail)
      BY Zenon, ClaimAppends
    <3>2. tail \in Nat /\ ToBufferEnd(tail) \in Nat
      BY Zenon, <1>2, <2>3 DEF Positions
    <3> QED BY <3>1, <3>2
  <2>5. myID[p] \in Int /\ Padding \in Int
    BY DEF IInv, TypeOK, Padding
  <2> QED BY Zenon, <1>1, <1>2, <2>1, <2>2, <2>3, <2>4, <2>5 DEF RecordOf, PaddingOf, Positions
<1>5. ChainInv'
  <2>1. Chain(claims, Len(consumed), readPosition, tail)
    BY Zenon DEF IInv, RecordsInv, ChainInv
  <2>2. CASE claims' = Append(claims, RecordOf(p)) /\ RecordPosition(p) = tail
    <3>1. /\ RecordOf(p).start = tail /\ RecordOf(p).size = Required(p) /\ Required(p) > 0
          /\ Index(tail) + Required(p) <= Capacity
      BY <1>3, <1>4, <2>2 DEF RecordOf, RecordIndex
    <3>2. Chain(Append(claims, RecordOf(p)), Len(consumed), readPosition, tail + Required(p))
      BY Zenon, <1>2, <1>4, <2>1, <3>1, AppendToChain
    <3> QED BY Zenon, <1>1, <1>3, <2>2, <3>2 DEF ChainInv
  <2>3. CASE /\ claims' = Append(Append(claims, PaddingOf(p)), RecordOf(p))
             /\ RecordPosition(p) = tail + ToBufferEnd(tail)
    <3>1. ToBufferEnd(tail) \in Nat /\ ToBufferEnd(tail) > 0 /\ Index(tail) + ToBufferEnd(tail) <= Capacity
      BY <1>2, ToBufferEndFacts DEF Positions
    <3>2. PaddingOf(p).start = tail /\ PaddingOf(p).size = ToBufferEnd(tail)
      BY Zenon, <1>1 DEF PaddingOf
    <3>3. Chain(Append(claims, PaddingOf(p)), Len(consumed), readPosition, tail + ToBufferEnd(tail))
      BY Zenon, <1>2, <1>4, <2>1, <3>1, <3>2, AppendToChain
    <3>4. /\ RecordOf(p).start = tail + ToBufferEnd(tail) /\ RecordOf(p).size = Required(p) /\ Required(p) > 0
          /\ Index(tail + ToBufferEnd(tail)) + Required(p) <= Capacity
      BY <1>3, <1>4, <2>3 DEF RecordOf, RecordIndex
    <3>5. Append(claims, PaddingOf(p)) \in Seq(Record)
      BY <1>2, <1>4
    <3>6. tail + ToBufferEnd(tail) \in Nat
      BY <1>2, <3>1
    <3>7. Chain(Append(Append(claims, PaddingOf(p)), RecordOf(p)), Len(consumed), readPosition,
                (tail + ToBufferEnd(tail)) + Required(p))
      BY Zenon, <1>2, <1>4, <3>3, <3>4, <3>5, <3>6, AppendToChain
    <3> QED BY Zenon, <1>1, <1>3, <2>3, <3>7 DEF ChainInv
  <2> QED BY Zenon, <2>2, <2>3, ClaimAppends
\* The old records keep their places, the new ones follow them.
<1>6. /\ \A i \in 1..n : i \in DOMAIN claims' /\ claims'[i] = claims[i]
      /\ \A i \in DOMAIN claims' : i \in 1..n \/ claims'[i] = RecordOf(p)
                                   \/ (pc'[p] = "padding" /\ claims'[i] = PaddingOf(p))
      /\ \E i \in DOMAIN claims' : i > n /\ claims'[i] = RecordOf(p)
      /\ pc'[p] = "padding" => \E i \in DOMAIN claims' : i > n /\ claims'[i] = PaddingOf(p)
  <2> HIDE DEF Record
  <2>1. CASE claims' = Append(claims, RecordOf(p)) /\ pc'[p] = "header"
    <3>1. DOMAIN claims' = 1..(n + 1) /\ claims'[n + 1] = RecordOf(p) /\ \A i \in 1..n : claims'[i] = claims[i]
      BY <1>2, <1>4, <2>1
    <3> HIDE DEF n
    <3>2. /\ n + 1 \in 1..(n + 1) /\ n + 1 > n /\ \A i \in 1..n : i \in 1..(n + 1)
          /\ \A i \in 1..(n + 1) : i \in 1..n \/ i = n + 1
      BY <1>2
    <3> QED BY Zenon, <2>1, <3>1, <3>2
  <2>2. CASE claims' = Append(Append(claims, PaddingOf(p)), RecordOf(p)) /\ pc'[p] = "padding"
    <3>1. /\ DOMAIN claims' = 1..(n + 2) /\ claims'[n + 2] = RecordOf(p) /\ claims'[n + 1] = PaddingOf(p)
          /\ \A i \in 1..n : claims'[i] = claims[i]
      <4> DEFINE C == Append(claims, PaddingOf(p))
      <4>1. C \in Seq(Record) /\ Len(C) = n + 1 /\ C[n + 1] = PaddingOf(p) /\ \A i \in 1..n : C[i] = claims[i]
        BY <1>2, <1>4
      <4> HIDE DEF C
      <4>2. /\ DOMAIN Append(C, RecordOf(p)) = 1..(n + 2) /\ Append(C, RecordOf(p))[n + 2] = RecordOf(p)
            /\ \A i \in 1..(n + 1) : Append(C, RecordOf(p))[i] = C[i]
        BY <1>2, <1>4, <4>1
      <4>3. n + 1 \in 1..(n + 1) /\ \A i \in 1..n : i \in 1..(n + 1)
        BY <1>2
      <4> QED BY Zenon, <2>2, <4>1, <4>2, <4>3 DEF C
    <3> HIDE DEF n
    <3>2. /\ n + 1 \in 1..(n + 2) /\ n + 2 \in 1..(n + 2) /\ n + 1 > n /\ n + 2 > n
          /\ \A i \in 1..n : i \in 1..(n + 2)
          /\ \A i \in 1..(n + 2) : i \in 1..n \/ i = n + 1 \/ i = n + 2
      BY <1>2
    <3> QED BY Zenon, <2>2, <3>1, <3>2
  <2> QED BY Zenon, <2>1, <2>2, ClaimAppends
<1>7. /\ \A q \in Producers : UNCHANGED <<RecordOf(q), PaddingOf(q), RecordPosition(q), RecordIndex(q), Required(q)>>
      /\ \A q \in Producers : HoldsClaim(q)' /\ q # p => HoldsClaim(q) /\ pc'[q] = pc[q]
  BY Zenon, <1>1 DEF RecordOf, PaddingOf, RecordPosition, RecordIndex, Required, HoldsClaim
<1>8. ASSUME NEW i \in 1..n, Unread(i) PROVE Unread(i)'
  BY Zenon, <1>1, <1>6, <1>8 DEF Unread
<1>9. ASSUME NEW i \in DOMAIN claims', i > n PROVE Unread(i)'
  <2>1. claims' \in Seq(Record)
    BY Zenon, TypeNext DEF IInv, TypeOK, Next, ClaimStep
  <2>2. i \in Int
    BY <2>1
  <2> HIDE DEF n
  <2> QED BY <1>1, <1>2, <1>9, <2>2 DEF Unread
\* The new records lie in free words.
<1>10. lengthField[RecordIndex(p)] = 0 /\ lengthField[Index(tail)] = 0
  <2>1. RecordPosition(p) < head + Capacity /\ tail < head + Capacity
    BY SMTT(30), <1>2, <1>3, <1>4
  <2> QED BY <1>2, <1>4, <2>1 DEF IInv, RecordsInv, FreeInv, RecordIndex
<1>11. HeldInv'
  <2>1. ASSUME NEW q \in Producers, q # p, HoldsClaim(q)
        PROVE  /\ \E i \in DOMAIN claims' : Unread(i)' /\ claims'[i] = RecordOf(q)
               /\ pc[q] = "padding" => \E i \in DOMAIN claims' : Unread(i)' /\ claims'[i] = PaddingOf(q)
               /\ RecordPosition(q) # RecordPosition(p)
               /\ pc[q] = "padding" => myTail[q] # tail
    <3>1. PICK i \in DOMAIN claims : Unread(i) /\ claims[i] = RecordOf(q)
      BY Zenon, <2>1 DEF IInv, RecordsInv, HeldInv
    <3>2. /\ RecordPosition(q) \in Nat /\ Required(q) \in Nat /\ Required(q) > 0
          /\ RecordPosition(q) + Required(q) <= tail
      BY Zenon, <3>1, ClaimFacts, Fields DEF IInv, RecordsInv
    <3>3. RecordPosition(q) # RecordPosition(p)
      BY SMTT(30), <1>2, <1>4, <3>2
    <3>4. ASSUME pc[q] = "padding"
          PROVE  /\ \E l \in DOMAIN claims' : Unread(l)' /\ claims'[l] = PaddingOf(q)
                 /\ myTail[q] # tail
      <4>1. PICK l \in DOMAIN claims : Unread(l) /\ claims[l] = PaddingOf(q)
        BY Zenon, <2>1, <3>4 DEF IInv, RecordsInv, HeldInv
      <4>2. /\ claims[l].start \in Nat /\ claims[l].size \in Nat /\ claims[l].size > 0
            /\ claims[l].start + claims[l].size <= tail /\ claims[l].start = myTail[q]
        BY Zenon, <4>1, ClaimFacts, Fields DEF IInv, RecordsInv
      <4>3. myTail[q] # tail
        BY SMTT(30), <1>2, <4>2
      <4> QED BY Zenon, <1>2, <1>6, <1>8, <4>1, <4>3
    <3> QED BY Zenon, <1>2, <1>6, <1>8, <3>1, <3>3, <3>4
  <2>2. /\ \E i \in DOMAIN claims' : Unread(i)' /\ claims'[i] = RecordOf(p)
        /\ pc'[p] = "padding" => \E i \in DOMAIN claims' : Unread(i)' /\ claims'[i] = PaddingOf(p)
    BY Zenon, <1>6, <1>9
  <2>3. ASSUME NEW q \in Producers, NEW r \in Producers, q # p, r # p, q # r, HoldsClaim(q), HoldsClaim(r)
        PROVE  /\ RecordPosition(q) # RecordPosition(r)
               /\ pc[q] = "padding" /\ pc[r] = "padding" => myTail[q] # myTail[r]
    BY Zenon, <2>3 DEF IInv, RecordsInv, HeldInv
  <2>4. ASSUME NEW q \in Producers, HoldsClaim(q)'
        PROVE  /\ \E i \in DOMAIN claims' : Unread(i)' /\ claims'[i] = RecordOf(q)'
               /\ pc'[q] = "padding" => \E i \in DOMAIN claims' : Unread(i)' /\ claims'[i] = PaddingOf(q)'
    BY Zenon, <1>7, <2>1, <2>2, <2>4
  <2>5. ASSUME NEW q \in Producers, NEW r \in Producers \ {q}, HoldsClaim(q)', HoldsClaim(r)'
        PROVE  /\ RecordPosition(q)' # RecordPosition(r)'
               /\ pc'[q] = "padding" /\ pc'[r] = "padding" => myTail'[q] # myTail'[r]
    <3>1. ASSUME NEW x \in {q, r}, x # p
          PROVE  HoldsClaim(x) /\ pc'[x] = pc[x]
      BY Zenon, <1>7, <2>5, <3>1
    <3>2. ASSUME NEW x \in {q, r} PROVE RecordPosition(x)' = RecordPosition(x) /\ myTail'[x] = myTail[x]
      BY Zenon, <1>1, <1>7, <3>2
    <3>3. CASE q = p
      <4>1. r # p /\ RecordPosition(r) # RecordPosition(p) /\ (pc[r] = "padding" => myTail[r] # myTail[p])
        BY Zenon, <1>1, <2>1, <2>5, <3>1, <3>3
      <4> QED BY Zenon, <3>1, <3>2, <3>3, <4>1
    <3>4. CASE r = p
      <4>1. q # p /\ RecordPosition(q) # RecordPosition(p) /\ (pc[q] = "padding" => myTail[q] # myTail[p])
        BY Zenon, <1>1, <2>1, <2>5, <3>1, <3>4
      <4> QED BY Zenon, <3>1, <3>2, <3>4, <4>1
    <3>5. CASE q # p /\ r # p
      <4>1. RecordPosition(q) # RecordPosition(r) /\ (pc[q] = "padding" /\ pc[r] = "padding" => myTail[q] # myTail[r])
        BY Zenon, <2>3, <3>1, <3>5
      <4> QED BY Zenon, <3>1, <3>2, <3>5, <4>1
    <3> QED BY Zenon, <3>3, <3>4, <3>5
  <2> QED BY Zenon, <2>4, <2>5 DEF HeldInv
<1>12. FilledInv'
  <2>1. ASSUME NEW q \in Producers, q # p, HoldsClaim(q) PROVE Filled(q)'
    <3>1. Filled(q)
      BY Zenon, <2>1 DEF IInv, RecordsInv, FilledInv
    <3> QED BY Zenon, <1>1, <1>7, <2>1, <3>1 DEF Filled
  <2>2. Filled(p)'
    <3>1. pc'[p] \in {"header", "padding"}
      BY Zenon, ClaimAppends
    <3>2. RecordIndex(p)' = RecordIndex(p) /\ lengthField' = lengthField /\ myTail'[p] = tail
      BY Zenon, <1>1, <1>7
    <3>3. 0 <= 0
      OBVIOUS
    <3> QED BY Zenon, <1>10, <3>1, <3>2, <3>3 DEF Filled
  <2> QED BY Zenon, <1>7, <2>1, <2>2 DEF FilledInv
<1>13. StoredInv'
  <2> SUFFICES ASSUME NEW i \in DOMAIN claims', Unread(i)', lengthField'[Index(claims'[i].start)] > 0
               PROVE  Complete(claims[i])'
    BY Zenon DEF StoredInv
  <2>1. i \in 1..n
    <3>1. claims'[i] = RecordOf(p) => Index(claims'[i].start) = RecordIndex(p)
      BY Zenon, Fields DEF RecordIndex
    <3>2. claims'[i] = PaddingOf(p) => Index(claims'[i].start) = Index(tail)
      BY Zenon, <1>1, Fields
    <3>3. ~(0 > 0)
      OBVIOUS
    <3> QED BY Zenon, <1>1, <1>6, <1>10, <3>1, <3>2, <3>3
  <2>2. Unread(i) /\ claims'[i] = claims[i]
    BY Zenon, <1>1, <1>2, <1>6, <2>1 DEF Unread
  <2>3. Complete(claims[i])
    BY ZenonT(30), <1>1, <1>2, <2>1, <2>2 DEF IInv, RecordsInv, StoredInv
  <2> QED BY Zenon, <1>1, <2>2, <2>3 DEF Complete
<1>14. FreeInv'
  <2>1. ASSUME NEW x \in Positions, tail' <= x, x < head' + Capacity PROVE lengthField'[Index(x)] = 0
    <3>1. tail <= x /\ x < head + Capacity
      BY <1>1, <1>2, <1>3, <2>1 DEF Positions
    <3> QED BY Zenon, <1>1, <3>1 DEF IInv, RecordsInv, FreeInv
  <2> QED BY Zenon, <1>1, <2>1 DEF IInv, RecordsInv, FreeInv
<1>15. RoomInv' /\ DriverInv'
  BY Zenon, <1>1, <1>3 DEF IInv, RecordsInv, RoomInv, DriverInv
<1>16. ConsumedInClaimOrder'
  <2>1. Len(consumed) <= Len(claims')
    BY Zenon, <1>1, <1>5 DEF ChainInv, Chain
  <2>2. \A i \in DOMAIN consumed : i \in 1..n /\ consumed[i] = {claims[i].id}
    BY <1>2 DEF IInv, RecordsInv, ConsumedInClaimOrder
  <2> QED BY Zenon, <1>1, <1>6, <2>1, <2>2 DEF ConsumedInClaimOrder
<1> QED BY Zenon, <1>5, <1>11, <1>12, <1>13, <1>14, <1>15, <1>16 DEF RecordsInv

-----------------------------------------------------------------------------
(* The driver's steps.                                                     *)

LEMMA DriverReadRecords ==
    ASSUME IInv, DriverRead
    PROVE  RecordsInv'
<1> DEFINE k == Len(consumed)
           c == claims[k + 1]
<1> USE DEF trailer, buffer, locals
<1>1. UNCHANGED <<tail, head, lengthField, content, pc, myID, myLength, myTail, driverPc, claims>>
  BY Zenon DEF DriverRead
<1>2. /\ k < Len(claims) /\ k + 1 \in DOMAIN claims /\ readPosition = c.start
      /\ readPosition' = readPosition + c.size /\ consumed' = Append(consumed, {c.id})
  BY Zenon, DriverReads
<1>3. /\ k \in Nat /\ Len(claims) \in Nat /\ DOMAIN claims = 1..Len(claims)
      /\ consumed \in Seq(SUBSET Int) /\ {c.id} \in SUBSET Int /\ DOMAIN consumed = 1..k
      /\ c.start \in Positions /\ c.size \in Nat /\ c.start + c.size <= tail
      /\ Index(c.start) + c.size <= Capacity /\ c.size > 0
  <2>1. consumed \in Seq(SUBSET Int) /\ claims \in Seq([start : Positions, size : Positions, id : Int])
    BY Zenon DEF IInv, TypeOK
  <2> QED BY <1>2, <2>1, ClaimFacts DEF IInv, RecordsInv
<1>4. /\ Len(consumed') = k + 1 /\ DOMAIN consumed' = 1..(k + 1) /\ consumed'[k + 1] = {c.id}
      /\ \A i \in 1..k : consumed'[i] = consumed[i]
  BY <1>2, <1>3
<1>5. ConsumedInClaimOrder'
  <2>1. \A i \in 1..k : consumed[i] = {claims[i].id}
    BY Zenon, <1>3 DEF IInv, RecordsInv, ConsumedInClaimOrder
  <2>2. \A i \in 1..(k + 1) : consumed'[i] = {claims[i].id}
    BY <1>3, <1>4, <2>1
  <2>3. k + 1 <= Len(claims)
    BY <1>2, <1>3
  <2> QED BY Zenon, <1>1, <1>4, <2>2, <2>3 DEF ConsumedInClaimOrder
<1>6. ChainInv'
  <2> HIDE DEF k
  <2>1. c.start + c.size = IF k + 1 = Len(claims) THEN tail ELSE claims[(k + 1) + 1].start
    BY Zenon, <1>2 DEF IInv, RecordsInv, ChainInv, Chain
  <2>2. readPosition' = IF k + 1 = Len(claims) THEN tail ELSE claims[(k + 1) + 1].start
    BY Zenon, <1>2, <2>1
  <2>3. k + 1 <= Len(claims)
    BY <1>2, <1>3
  <2> QED BY Zenon, <1>1, <1>4, <2>2, <2>3 DEF IInv, RecordsInv, ChainInv, Chain
<1>7. DriverInv'
  <2> DEFINE d == readPosition - head
  <2>1. head \in Positions /\ readPosition \in Positions /\ head <= readPosition
    BY Zenon DEF IInv, TypeOK, OrderInv
  <2>2. d \in Nat /\ readPosition = head + d
    BY <2>1 DEF Positions
  <2>3. d < ToBufferEnd(head)
    BY Zenon DEF DriverRead
  <2>4. Index(head) \in Nat /\ Index(head) + d < Capacity
    BY <2>1, <2>2, <2>3, IndexRange, CapacityAssumption DEF ToBufferEnd, Positions
  <2>5. Index(head + d) = Index(head) + d
    BY Zenon, <2>1, <2>2, <2>4, IndexPlus DEF Positions
  <2> HIDE DEF d
  <2>6. Index(head) + d + c.size <= Capacity
    BY Zenon, <1>2, <1>3, <2>2, <2>4, <2>5, CapacityAssumption
  <2>7. readPosition' - head <= ToBufferEnd(head)
    <3>1. head \in Nat /\ c.size \in Nat /\ readPosition' = (head + d) + c.size
      BY Zenon, <1>2, <1>3, <2>1, <2>2 DEF Positions
    <3> HIDE DEF c
    <3>2. readPosition' - head = d + c.size
      BY <2>2, <3>1
    <3> QED BY <2>2, <2>4, <2>6, <3>1, <3>2, CapacityAssumption DEF ToBufferEnd
  <2> QED BY Zenon, <1>1, <2>7 DEF DriverInv
\* A record that is held has no positive length, so it is not the one read.
<1>8. lengthField[Index(c.start)] > 0 /\ driverPc = "read"
  BY Zenon, <1>2 DEF DriverRead
<1>9. ASSUME NEW i, Unread(i), i # k + 1 PROVE Unread(i)'
  <2>1. i \in Int
    BY <1>3, <1>9 DEF Unread
  <2> QED BY <1>1, <1>3, <1>4, <1>9, <2>1 DEF Unread
<1>10. ASSUME NEW q \in Producers
       PROVE  /\ HoldsClaim(q)' <=> HoldsClaim(q)
              /\ UNCHANGED <<pc[q], RecordOf(q), PaddingOf(q), RecordPosition(q), RecordIndex(q), Required(q)>>
  BY Zenon, <1>1 DEF HoldsClaim, RecordOf, PaddingOf, RecordPosition, RecordIndex, Required
<1>11. HeldInv'
  <2>1. ASSUME NEW q \in Producers, HoldsClaim(q)
        PROVE  /\ \E i \in DOMAIN claims : Unread(i)' /\ claims[i] = RecordOf(q)
               /\ pc[q] = "padding" => \E i \in DOMAIN claims : Unread(i)' /\ claims[i] = PaddingOf(q)
    <3>1. Filled(q)
      BY Zenon, <2>1 DEF IInv, RecordsInv, FilledInv
    <3>2. PICK i \in DOMAIN claims : Unread(i) /\ claims[i] = RecordOf(q)
      BY Zenon, <2>1 DEF IInv, RecordsInv, HeldInv
    <3>3. i # k + 1
      <4>1. Index(claims[i].start) = RecordIndex(q) /\ RecordIndex(q) \in Words
        BY Zenon, <2>1, <3>2, HeldRecord
      <4>2. lengthField[RecordIndex(q)] <= 0 /\ lengthField[RecordIndex(q)] \in Int
        BY Zenon, <3>1, <4>1 DEF Filled, IInv, TypeOK
      <4> QED BY <1>8, <4>1, <4>2
    <3>4. ASSUME pc[q] = "padding" PROVE \E l \in DOMAIN claims : Unread(l)' /\ claims[l] = PaddingOf(q)
      <4>1. PICK l \in DOMAIN claims : Unread(l) /\ claims[l] = PaddingOf(q)
        BY Zenon, <2>1, <3>4 DEF IInv, RecordsInv, HeldInv
      <4>2. Index(claims[l].start) = Index(myTail[q]) /\ Index(myTail[q]) \in Words
        BY Zenon, <4>1, Fields, IndexIsWord DEF IInv, TypeOK
      <4>3. lengthField[Index(myTail[q])] <= 0 /\ lengthField[Index(myTail[q])] \in Int
        BY Zenon, <3>1, <3>4, <4>2 DEF Filled, IInv, TypeOK
      <4>4. l # k + 1
        BY <1>8, <4>2, <4>3
      <4> QED BY Zenon, <1>9, <4>1, <4>4
    <3> QED BY Zenon, <1>9, <3>2, <3>3, <3>4
  <2>2. ASSUME NEW q \in Producers, NEW r \in Producers \ {q}, HoldsClaim(q), HoldsClaim(r)
        PROVE  /\ RecordPosition(q) # RecordPosition(r)
               /\ pc[q] = "padding" /\ pc[r] = "padding" => myTail[q] # myTail[r]
    BY Zenon, <2>2 DEF IInv, RecordsInv, HeldInv
  <2>3. ASSUME NEW q \in Producers
        PROVE  /\ HoldsClaim(q)' <=> HoldsClaim(q)
               /\ RecordOf(q)' = RecordOf(q) /\ PaddingOf(q)' = PaddingOf(q)
               /\ RecordPosition(q)' = RecordPosition(q) /\ pc'[q] = pc[q] /\ myTail'[q] = myTail[q]
    BY Zenon, <1>1, <1>10
  <2>4. ASSUME NEW q \in Producers, HoldsClaim(q)'
        PROVE  /\ \E i \in DOMAIN claims' : Unread(i)' /\ claims'[i] = RecordOf(q)'
               /\ pc'[q] = "padding" => \E i \in DOMAIN claims' : Unread(i)' /\ claims'[i] = PaddingOf(q)'
    BY Zenon, <1>1, <2>1, <2>3, <2>4
  <2>5. ASSUME NEW q \in Producers, NEW r \in Producers \ {q}, HoldsClaim(q)', HoldsClaim(r)'
        PROVE  /\ RecordPosition(q)' # RecordPosition(r)'
               /\ pc'[q] = "padding" /\ pc'[r] = "padding" => myTail'[q] # myTail'[r]
    BY Zenon, <2>2, <2>3, <2>5
  <2> QED BY Zenon, <2>4, <2>5 DEF HeldInv
<1>12. FilledInv'
  BY Zenon, <1>1, <1>10 DEF IInv, RecordsInv, FilledInv, Filled
<1>13. StoredInv'
  <2>1. ASSUME NEW i, Unread(i)' PROVE Unread(i)
    <3>1. i \in Int
      BY <1>1, <1>3, <2>1 DEF Unread
    <3> QED BY <1>1, <1>3, <1>4, <2>1, <3>1 DEF Unread
  <2> QED BY Zenon, <1>1, <2>1 DEF IInv, RecordsInv, StoredInv, Complete
<1>14. FreeInv' /\ RoomInv'
  BY Zenon, <1>1, <1>8 DEF IInv, RecordsInv, FreeInv, RoomInv
<1> QED BY Zenon, <1>5, <1>6, <1>7, <1>11, <1>12, <1>13, <1>14 DEF RecordsInv

LEMMA DriverZeroRecords ==
    ASSUME IInv, DriverZero
    PROVE  RecordsInv'
<1> DEFINE size == readPosition - head
           read == WordsFrom(Index(head), size)
<1> USE DEF trailer, locals
<1>1. /\ UNCHANGED <<tail, head, pc, myID, myLength, myTail, readPosition, consumed, claims>>
      /\ driverPc' = "advance"
      /\ lengthField' = [w \in Words |-> IF w \in read THEN 0 ELSE lengthField[w]]
      /\ content' = [w \in Words |-> IF w \in read THEN Zeroed ELSE content[w]]
  BY Zenon DEF DriverZero
<1>2. /\ head \in Positions /\ head \in Nat /\ readPosition \in Nat /\ tail \in Nat /\ Capacity \in Nat
      /\ head <= readPosition /\ readPosition <= tail /\ tail <= head + Capacity
  BY Zenon, CapacityAssumption DEF IInv, TypeOK, OrderInv, RecordsInv, RoomInv, Positions
<1>3. size \in Nat /\ Index(head) + size <= Capacity /\ head + size = readPosition
  <2>1. Index(head) \in Nat
    BY Zenon, <1>2, IndexRange
  <2> QED BY <1>2, <2>1 DEF IInv, RecordsInv, DriverInv, ToBufferEnd
<1> HIDE DEF size
\* What is zeroed lies before every unread record.
<1>4. ASSUME NEW i \in DOMAIN claims, Unread(i)
      PROVE  /\ \A w \in WordsOf(claims[i]) : UNCHANGED <<lengthField[w], content[w]>>
             /\ UNCHANGED <<lengthField[Index(claims[i].start)], content[Index(claims[i].start)]>>
  <2> DEFINE a == claims[i].start
             m == claims[i].size
  <2>1. a \in Positions /\ a \in Nat /\ m \in Nat /\ Index(a) + m <= Capacity /\ a + m <= tail
    BY Zenon, ClaimFacts DEF IInv, RecordsInv
  <2>2. a >= readPosition
    BY Zenon, <1>4, UnreadStart
  <2>3. read \cap WordsOf(claims[i]) = {}
    <3> HIDE DEF a, m
    <3>1. head <= a /\ head + size <= a /\ a + m <= head + Capacity /\ head + size <= head + Capacity
      BY <1>2, <1>3, <2>1, <2>2
    <3>2. WordsFrom(Index(head), size) \cap WordsFrom(Index(a), m) = {}
      BY <1>2, <1>3, <2>1, <3>1, WordsDisjoint
    <3> QED BY Zenon, <3>2 DEF WordsOf, a, m
  <2>4. WordsOf(claims[i]) \subseteq Words
    BY Zenon DEF WordsOf, WordsFrom
  <2>5. Index(claims[i].start) \in WordsOf(claims[i])
    BY Zenon, FirstWord
  <2> QED BY Zenon, <1>1, <2>3, <2>4, <2>5
<1>5. RoomInv' /\ ChainInv' /\ DriverInv' /\ ConsumedInClaimOrder' /\ HeldInv'
  <2>1. RoomInv' /\ ChainInv' /\ DriverInv' /\ ConsumedInClaimOrder'
    BY Zenon, <1>1 DEF IInv, RecordsInv, RoomInv, ChainInv, Chain, DriverInv, ConsumedInClaimOrder
  <2>2. /\ \A i : Unread(i) => Unread(i)'
        /\ \A q \in Producers : HoldsClaim(q)' => /\ HoldsClaim(q)
               /\ UNCHANGED <<RecordOf(q), PaddingOf(q), RecordPosition(q), myTail[q], pc[q]>>
    BY Zenon, <1>1 DEF HoldsClaim, Unread, RecordOf, PaddingOf, RecordPosition, Required
  <2>3. HeldInv'
    BY Zenon, <1>1, <2>2, HeldKept DEF IInv, RecordsInv
  <2> QED BY Zenon, <2>1, <2>3
<1>6. FilledInv'
  <2> SUFFICES ASSUME NEW q \in Producers, HoldsClaim(q) PROVE Filled(q)'
    BY Zenon, <1>1 DEF FilledInv, HoldsClaim
  <2>1. Filled(q) /\ claims' = claims /\ pc'[q] = pc[q] /\ RecordIndex(q)' = RecordIndex(q) /\ Required(q)' = Required(q)
    BY Zenon, <1>1 DEF IInv, RecordsInv, FilledInv, RecordIndex, RecordPosition, Required
  <2>2. PICK j \in DOMAIN claims : Unread(j) /\ claims[j] = RecordOf(q)
    BY Zenon DEF IInv, RecordsInv, HeldInv
  <2>3. WordsOf(claims[j]) = WordsFrom(RecordIndex(q), Required(q)) /\ Index(claims[j].start) = RecordIndex(q)
    BY Zenon, <2>2, HeldRecord
  <2>4. /\ \A w \in WordsFrom(RecordIndex(q), Required(q)) : UNCHANGED content[w]
        /\ UNCHANGED <<lengthField[RecordIndex(q)], content[RecordIndex(q)]>>
    <3>1. ASSUME NEW w \in WordsOf(claims[j]) PROVE content'[w] = content[w]
      BY Zenon, <1>4, <2>2, <3>1
    <3>2. /\ lengthField'[Index(claims[j].start)] = lengthField[Index(claims[j].start)]
          /\ content'[Index(claims[j].start)] = content[Index(claims[j].start)]
      BY Zenon, <1>4, <2>1, <2>2
    <3> QED BY Zenon, <2>1, <2>3, <3>1, <3>2
  <2>5. pc[q] = "padding" => UNCHANGED lengthField[Index(myTail[q])]
    <3> SUFFICES ASSUME pc[q] = "padding" PROVE UNCHANGED lengthField[Index(myTail[q])]
      BY Zenon
    <3>1. PICK l \in DOMAIN claims : Unread(l) /\ claims[l] = PaddingOf(q)
      BY Zenon DEF IInv, RecordsInv, HeldInv
    <3>2. Index(claims[l].start) = Index(myTail[q])
      BY Zenon, <3>1, Fields
    <3> QED BY Zenon, <1>1, <1>4, <3>1, <3>2
  <2> QED BY Zenon, <1>1, <2>1, <2>4, <2>5 DEF Filled
<1>7. StoredInv'
  <2> SUFFICES ASSUME NEW i \in DOMAIN claims, Unread(i), lengthField'[Index(claims[i].start)] > 0
               PROVE  Complete(claims[i])'
    BY Zenon, <1>1 DEF StoredInv, Unread
  <2>1. Complete(claims[i])
    BY Zenon, <1>1, <1>4 DEF IInv, RecordsInv, StoredInv
  <2> QED BY <1>1, <1>4, <2>1 DEF Complete, WordsOf
<1>8. FreeInv'
  <2>1. ASSUME NEW x \in Positions, tail <= x, x < head + Capacity PROVE lengthField'[Index(x)] = 0
    <3>1. lengthField[Index(x)] = 0 /\ Index(x) \in Words
      BY Zenon, <2>1, IndexIsWord DEF IInv, RecordsInv, FreeInv
    <3> QED BY Zenon, <1>1, <3>1
  <2>2. ASSUME NEW x \in Positions, head <= x, x < readPosition PROVE lengthField'[Index(x)] = 0
    <3>1. Index(x) \in read /\ Index(x) \in Words
      BY Zenon, <1>2, <1>3, <2>2, PositionWord, IndexIsWord
    <3> QED BY Zenon, <1>1, <3>1
  <2> QED BY Zenon, <1>1, <2>1, <2>2 DEF FreeInv
<1> QED BY Zenon, <1>5, <1>6, <1>7, <1>8 DEF RecordsInv

LEMMA DriverAdvanceRecords ==
    ASSUME IInv, DriverAdvance
    PROVE  RecordsInv'
<1> USE DEF buffer, locals
<1>1. /\ UNCHANGED <<tail, lengthField, content, pc, myID, myLength, myTail, readPosition, consumed, claims>>
      /\ driverPc = "advance" /\ driverPc' = "read" /\ head' = readPosition
  BY Zenon DEF DriverAdvance
<1>2. /\ head \in Nat /\ readPosition \in Nat /\ tail \in Nat /\ Capacity \in Nat \ {0}
      /\ head <= readPosition /\ readPosition <= tail /\ tail <= head + Capacity
  BY Zenon, CapacityAssumption DEF IInv, TypeOK, OrderInv, RecordsInv, RoomInv, Positions
<1>3. RoomInv' /\ DriverInv'
  <2>1. ToBufferEnd(readPosition) \in Nat
    BY Zenon, <1>2, IndexRange
  <2> QED BY <1>1, <1>2, <2>1 DEF RoomInv, DriverInv, ToBufferEnd
<1>4. ChainInv' /\ ConsumedInClaimOrder' /\ HeldInv' /\ FilledInv' /\ StoredInv'
  <2>1. ChainInv' /\ ConsumedInClaimOrder'
    BY Zenon, <1>1 DEF IInv, RecordsInv, ChainInv, Chain, ConsumedInClaimOrder
  <2>2. \A q \in Producers : UNCHANGED <<RecordOf(q), PaddingOf(q), RecordPosition(q), RecordIndex(q), Required(q)>>
    BY Zenon, <1>1 DEF RecordOf, PaddingOf, RecordPosition, RecordIndex, Required
  <2>3. HeldInv'
    BY Zenon, <1>1, <2>2, HeldKept DEF IInv, RecordsInv, HoldsClaim, Unread
  <2>4. FilledInv'
    BY Zenon, <1>1, <2>2 DEF IInv, RecordsInv, FilledInv, Filled, HoldsClaim
  <2>5. StoredInv'
    BY Zenon, <1>1 DEF IInv, RecordsInv, StoredInv, Complete, Unread
  <2> QED BY Zenon, <2>1, <2>3, <2>4, <2>5
\* The words before the new head are free for the next lap.
<1>5. FreeInv'
  <2> SUFFICES ASSUME NEW x \in Positions, tail <= x, x < readPosition + Capacity
               PROVE  lengthField[Index(x)] = 0
    BY Zenon, <1>1 DEF FreeInv
  <2>1. CASE x < head + Capacity
    BY Zenon, <2>1 DEF IInv, RecordsInv, FreeInv
  <2>2. CASE ~(x < head + Capacity)
    <3> DEFINE y == x - Capacity
    <3>1. y \in Positions /\ head <= y /\ y < readPosition /\ y + Capacity = x
      BY <1>2, <2>2, CapacityAssumption DEF Positions, Alignment
    <3>2. lengthField[Index(y)] = 0
      BY Zenon, <1>1, <3>1 DEF IInv, RecordsInv, FreeInv
    <3>3. Index(y + Capacity) = Index(y)
      BY Zenon, <3>1, IndexOfNextLap DEF Positions
    <3> QED BY Zenon, <3>1, <3>2, <3>3
  <2> QED BY Zenon, <2>1, <2>2
<1> QED BY Zenon, <1>3, <1>4, <1>5 DEF RecordsInv

-----------------------------------------------------------------------------
(* The theorems.                                                           *)

LEMMA InvariantInit == Init => IInv
<1> SUFFICES ASSUME Init PROVE IInv
  BY Zenon
<1>1. PICK s \in StartPositions : InitAt(s)
  BY Zenon DEF Init
<1>2. TypeOK
  BY Zenon, TypeInit
<1>3. s \in Nat /\ s \in Positions /\ Capacity \in Nat
  BY Zenon, StartAssumption, CapacityAssumption DEF Positions
<1>4. LengthsInv /\ OrderInv /\ CheckedInv
  BY <1>1, <1>3 DEF InitAt, LengthsInv, OrderInv, CheckedInv, Checked
<1>5. RoomInv /\ ChainInv /\ HeldInv /\ FilledInv /\ StoredInv /\ ConsumedInClaimOrder
  BY <1>1, <1>3 DEF InitAt, RoomInv, ChainInv, Chain, HeldInv, FilledInv, StoredInv,
                    ConsumedInClaimOrder, HoldsClaim
<1>6. DriverInv
  <2>1. ToBufferEnd(s) \in Nat
    BY Zenon, <1>3, IndexRange
  <2> QED BY <1>1, <1>3, <2>1 DEF InitAt, DriverInv
<1>7. FreeInv
  BY Zenon, <1>1, IndexIsWord DEF InitAt, FreeInv
<1> QED BY Zenon, <1>2, <1>4, <1>5, <1>6, <1>7 DEF IInv, RecordsInv

LEMMA InvariantNext == IInv /\ [Next]_vars => IInv'
<1> SUFFICES ASSUME IInv, [Next]_vars PROVE IInv'
  BY Zenon
<1>1. TypeOK' /\ LengthsInv' /\ OrderInv' /\ CheckedInv'
  BY Zenon, TypeNext, LengthsNext, OrderNext, CheckedNext DEF IInv
<1>2. RecordsInv'
  <2>1. ASSUME NEW p \in Producers, NEW n \in MsgLengths, NextCorrelationID(p, n) PROVE RecordsInv'
    BY Zenon, <2>1, QuietSteps, QuietRecords DEF IInv
  <2>2. ASSUME NEW p \in Producers, ClaimStep(p) PROVE RecordsInv'
    <3>1. CASE ClaimSucceeds(p)
      BY Zenon, <3>1, ClaimRecords
    <3>2. CASE ~ClaimSucceeds(p)
      BY Zenon, <2>2, <3>2, QuietSteps, QuietRecords DEF IInv
    <3> QED BY Zenon, <3>1, <3>2
  <2>3. ASSUME NEW p \in Producers, RecordStep(p) PROVE RecordsInv'
    BY Zenon, <2>3, WritePaddingRecords, WriteHeaderRecords, WritePayloadRecords, CommitRecords DEF RecordStep
  <2>4. CASE Driver
    BY Zenon, <2>4, DriverReadRecords, DriverZeroRecords, DriverAdvanceRecords DEF Driver
  <2>5. CASE UNCHANGED vars
    BY Zenon, <2>5, QuietSteps, QuietRecords DEF IInv
  <2> QED BY Zenon, <2>1, <2>2, <2>3, <2>4, <2>5 DEF Next
<1> QED BY Zenon, <1>1, <1>2 DEF IInv

\* The inductive invariant holds in every behaviour of Write and the driver.
THEOREM Invariance == Spec => []IInv
<1> QED BY InvariantInit, InvariantNext, PTL DEF Spec

\* Type correctness: in particular, tail and head stay aligned.
THEOREM TypeCorrectness == Spec => []TypeOK
<1>1. IInv => TypeOK
  BY Zenon DEF IInv
<1> QED BY <1>1, Invariance, PTL

\* claimCapacity never claims more than the ring holds, however stale the head
\* it worked with, and the driver never reads beyond the tail.
THEOREM RingNeverOverrun == Spec => []NoOverrun
<1>1. IInv => NoOverrun
  BY CapacityAssumption DEF IInv, TypeOK, OrderInv, RecordsInv, RoomInv, NoOverrun, Positions
<1> QED BY <1>1, Invariance, PTL

\* Every record reaches the driver whole, once and in claim order.
THEOREM CommandsInClaimOrder == Spec => []ConsumedInClaimOrder
<1>1. IInv => ConsumedInClaimOrder
  BY Zenon DEF IInv, RecordsInv
<1> QED BY <1>1, Invariance, PTL

\* No store of Write goes to a word of another producer's claim, or to a record
\* that the driver can read.
THEOREM ClaimsAreExclusive == Spec => []ExclusiveClaims
<1>1. ASSUME IInv PROVE ExclusiveClaims
  <2>1. ASSUME NEW p \in Producers, HoldsClaim(p)
        PROVE  \E i \in DOMAIN claims : Unread(i) /\ claims[i] = RecordOf(p) /\ ~(lengthField[Index(claims[i].start)] > 0)
    <3>1. PICK i \in DOMAIN claims : Unread(i) /\ claims[i] = RecordOf(p)
      BY Zenon, <1>1, <2>1 DEF IInv, RecordsInv, HeldInv
    <3>2. Index(claims[i].start) = RecordIndex(p) /\ RecordIndex(p) \in Words
      BY Zenon, <1>1, <2>1, <3>1, HeldRecord
    <3>3. lengthField[RecordIndex(p)] <= 0 /\ lengthField[RecordIndex(p)] \in Int
      BY Zenon, <1>1, <2>1, <3>2 DEF IInv, RecordsInv, FilledInv, Filled, TypeOK
    <3> QED BY <3>1, <3>2, <3>3
  <2>2. ASSUME NEW p \in Producers, HoldsClaim(p), pc[p] = "padding"
        PROVE  \E i \in DOMAIN claims : Unread(i) /\ claims[i] = PaddingOf(p) /\ ~(lengthField[Index(claims[i].start)] > 0)
    <3>1. PICK i \in DOMAIN claims : Unread(i) /\ claims[i] = PaddingOf(p)
      BY Zenon, <1>1, <2>2 DEF IInv, RecordsInv, HeldInv
    <3>2. Index(claims[i].start) = Index(myTail[p]) /\ Index(myTail[p]) \in Words
      BY Zenon, <1>1, <3>1, Fields, IndexIsWord DEF IInv, TypeOK
    <3>3. lengthField[Index(myTail[p])] <= 0 /\ lengthField[Index(myTail[p])] \in Int
      BY Zenon, <1>1, <2>2, <3>2 DEF IInv, RecordsInv, FilledInv, Filled, TypeOK
    <3> QED BY <3>1, <3>2, <3>3
  \* Every claimed word belongs to an unread record of its producer.
  <2>3. ASSUME NEW p \in Producers, HoldsClaim(p), NEW w \in ClaimedWords(p)
        PROVE  \E i \in DOMAIN claims :
                  /\ Unread(i) /\ ~(lengthField[Index(claims[i].start)] > 0) /\ w \in WordsOf(claims[i])
                  /\ claims[i] = RecordOf(p) \/ (pc[p] = "padding" /\ claims[i] = PaddingOf(p))
    <3>1. CASE w \in WordsFrom(RecordIndex(p), Required(p))
      <4>1. PICK i \in DOMAIN claims : Unread(i) /\ claims[i] = RecordOf(p) /\ ~(lengthField[Index(claims[i].start)] > 0)
        BY Zenon, <2>1, <2>3
      <4>2. WordsOf(claims[i]) = WordsFrom(RecordIndex(p), Required(p))
        BY Zenon, <1>1, <2>3, <4>1, HeldRecord
      <4> QED BY Zenon, <3>1, <4>1, <4>2
    <3>2. CASE pc[p] = "padding" /\ w \in WordsFrom(Index(myTail[p]), ToBufferEnd(myTail[p]))
      <4>1. PICK i \in DOMAIN claims : Unread(i) /\ claims[i] = PaddingOf(p) /\ ~(lengthField[Index(claims[i].start)] > 0)
        BY Zenon, <2>2, <2>3, <3>2
      <4>2. WordsOf(claims[i]) = WordsFrom(Index(myTail[p]), ToBufferEnd(myTail[p]))
        BY Zenon, <4>1, Fields DEF WordsOf
      <4> QED BY Zenon, <3>2, <4>1, <4>2
    <3> QED BY Zenon, <2>3, <3>1, <3>2 DEF ClaimedWords
  <2>4. ASSUME NEW p \in Producers, HoldsClaim(p) PROVE ClaimedWords(p) \cap CommittedWords = {}
    <3> SUFFICES ASSUME NEW w \in ClaimedWords(p), w \in CommittedWords PROVE FALSE
      BY Zenon
    <3>1. PICK i \in DOMAIN claims :
             Unread(i) /\ ~(lengthField[Index(claims[i].start)] > 0) /\ w \in WordsOf(claims[i])
      BY Zenon, <2>3, <2>4
    <3>2. PICK j \in DOMAIN claims : /\ claims[j].start >= head /\ lengthField[Index(claims[j].start)] > 0
                                     /\ w \in WordsOf(claims[j])
      BY Zenon DEF CommittedWords, WordsOf
    <3>3. i # j /\ claims[i].start >= head
      BY Zenon, <1>1, <3>1, <3>2, UnreadStart
    <3> QED BY Zenon, <1>1, <3>1, <3>2, <3>3, ClaimsApart
  <2>5. ASSUME NEW p \in Producers, NEW q \in Producers \ {p}, HoldsClaim(p), HoldsClaim(q)
        PROVE  ClaimedWords(p) \cap ClaimedWords(q) = {}
    <3> SUFFICES ASSUME NEW w \in ClaimedWords(p), w \in ClaimedWords(q) PROVE FALSE
      BY Zenon
    <3>1. PICK i \in DOMAIN claims :
             /\ Unread(i) /\ w \in WordsOf(claims[i])
             /\ claims[i] = RecordOf(p) \/ (pc[p] = "padding" /\ claims[i] = PaddingOf(p))
      BY Zenon, <2>3, <2>5
    <3>2. PICK j \in DOMAIN claims :
             /\ Unread(j) /\ w \in WordsOf(claims[j])
             /\ claims[j] = RecordOf(q) \/ (pc[q] = "padding" /\ claims[j] = PaddingOf(q))
      BY Zenon, <2>3, <2>5
    <3>3. i # j
      BY Zenon, <1>1, <2>5, <3>1, <3>2, HeldApart
    <3> QED BY Zenon, <1>1, <3>1, <3>2, <3>3, UnreadStart, ClaimsApart
  <2>6. ASSUME NEW p \in Producers, HoldsClaim(p) PROVE RecordIndex(p) + Required(p) <= Capacity
    <3>1. PICK i \in DOMAIN claims : claims[i] = RecordOf(p)
      BY Zenon, <2>1, <2>6
    <3> QED BY <1>1, <3>1, ClaimFacts DEF IInv, RecordsInv, RecordOf, RecordIndex
  <2> QED BY Zenon, <2>4, <2>5, <2>6 DEF ExclusiveClaims
<1> QED BY <1>1, Invariance, PTL

=============================================================================
