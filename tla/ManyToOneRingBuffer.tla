------------------------- MODULE ManyToOneRingBuffer -------------------------
(***************************************************************************)
(* The many-to-one ring buffer through which every goroutine of a client   *)
(* sends its commands to the media driver (aeron/ringbuffer/manytoone.go). *)
(*                                                                         *)
(* Producers run Write without a lock.  Each volatile load, ordered store  *)
(* and compare-and-set of the code is one step here, because another       *)
(* producer, or the driver, may run between any two of them.  The consumer *)
(* is the media driver: it is not part of the repository and follows the   *)
(* protocol that the code in Write relies on.                              *)
(*                                                                         *)
(* Positions are byte positions that only grow; Index maps a position to   *)
(* its offset in the buffer.  The buffer is kept per aligned word of       *)
(* Alignment bytes: lengthField is the int32 at the start of the word (the *)
(* record length when the word holds a record header) and content is the   *)
(* command the word belongs to.                                            *)
(***************************************************************************)
EXTENDS Integers, Sequences

CONSTANTS Producers,      \* goroutines that send commands
          Capacity,       \* bytes in the ring, the trailer not counted
          MsgLengths,     \* encoded lengths of the commands that are sent
          StartPositions, \* positions the ring may stand at when we attach
          MaxCommands     \* bound: commands sent in a behaviour

Alignment    == 8
HeaderLength == 8
MaxMsgLength == Capacity \div 8

\* util.AlignInt32
AlignInt32(value, alignment) == ((value + alignment - 1) \div alignment) * alignment

\* Mutated form: the record length is not aligned.
UnalignedCapacity(length) == length + HeaderLength

RequiredCapacity(length) == AlignInt32(length + HeaderLength, Alignment)

ASSUME CapacityAssumption ==
    /\ Capacity \in Nat \ {0}
    /\ Capacity % Alignment = 0

ASSUME LengthAssumption ==
    /\ MsgLengths \subseteq Nat
    /\ \A n \in MsgLengths : n <= MaxMsgLength /\ RequiredCapacity(n) <= Capacity

ASSUME StartAssumption ==
    /\ StartPositions \subseteq Nat
    /\ \A s \in StartPositions : s % Alignment = 0

ASSUME BoundAssumption == MaxCommands \in Nat \ {0}

\* The code masks with capacity - 1; capacity is a power of two.
Index(position) == position % Capacity

Words == {w \in 0..(Capacity - 1) : w % Alignment = 0}

\* Values of content: Zeroed for a word the driver has released, Padding for
\* the message type of a padding record, and the correlation id otherwise.
Zeroed  == 0
Padding == -1

\* The int32 at the start of a payload word.  Any value is possible; a
\* positive one is the worst case, it looks like a committed header.
PayloadInt32 == 1

VARIABLES
    tail,           \* the tail position in the trailer
    headCache,      \* the cached head position in the trailer
    head,           \* the head position in the trailer
    correlationID,  \* the correlation id counter in the trailer
    lengthField,    \* the int32 at the start of every word
    content,        \* the command every word belongs to
    pc,             \* where every producer is in Write
    myID,           \* the correlation id of the producer's command
    myLength,       \* its encoded length
    myHead,         \* claimCapacity's local head
    myTail,         \* claimCapacity's local tail
    readPosition,   \* how far the driver has read beyond head
    driverPc,       \* the driver's step: "read" or "advance"
    consumed,       \* history: what the driver has found in every record it read
    claims          \* history: the records claimed, in claim order

trailer      == <<tail, headCache, head, correlationID>>
buffer       == <<lengthField, content>>
locals       == <<myID, myLength, myHead, myTail>>
driverState  == <<readPosition, driverPc, consumed>>
vars == <<trailer, buffer, pc, locals, driverState, claims>>

Required(p) == RequiredCapacity(myLength[p])

ToBufferEnd(position) == Capacity - Index(position)

\* The padding claimCapacity puts before a record that does not fit before
\* the end of the buffer.
PaddingFor(position, required) ==
    IF required > ToBufferEnd(position) THEN ToBufferEnd(position) ELSE 0

RecordPosition(p) == myTail[p] + PaddingFor(myTail[p], Required(p))
RecordIndex(p)    == Index(RecordPosition(p))

\* The words of size bytes that start at offset index.
WordsFrom(index, size) == {w \in Words : index <= w /\ w < index + size}

\* The ring as the driver left it when the client maps the file.
InitAt(s) ==
    /\ tail = s /\ headCache = s /\ head = s
    /\ correlationID = 1
    /\ lengthField = [w \in Words |-> 0]
    /\ content = [w \in Words |-> Zeroed]
    /\ pc = [p \in Producers |-> "idle"]
    /\ myID = [p \in Producers |-> Zeroed]
    /\ myLength = [p \in Producers |-> 0]
    /\ myHead = [p \in Producers |-> s]
    /\ myTail = [p \in Producers |-> s]
    /\ readPosition = s
    /\ driverPc = "read"
    /\ consumed = <<>>
    /\ claims = <<>>

Init == \E s \in StartPositions : InitAt(s)

-----------------------------------------------------------------------------
(* Write: the call, and claimCapacity's loop.                              *)

\* A command takes its correlation id and calls Write.  checkMsgTypeID and
\* checkMsgLength panic on commands that MsgLengths does not hold.
NextCorrelationID(p, length) ==
    /\ pc[p] = "idle"
    /\ correlationID <= MaxCommands
    /\ correlationID' = correlationID + 1
    /\ myID' = [myID EXCEPT ![p] = correlationID]
    /\ myLength' = [myLength EXCEPT ![p] = length]
    /\ pc' = [pc EXCEPT ![p] = "loadHeadCache"]
    /\ UNCHANGED <<tail, headCache, head, buffer, myHead, myTail, driverState, claims>>

LoadHeadCache(p) ==
    /\ pc[p] = "loadHeadCache"
    /\ myHead' = [myHead EXCEPT ![p] = headCache]
    /\ pc' = [pc EXCEPT ![p] = "loadTail"]
    /\ UNCHANGED <<trailer, buffer, myID, myLength, myTail, driverState, claims>>

\* Mutated form: a record that wraps is not held back until the head has left
\* the start of the buffer.
WrapUnchecked(required, t, h) == "cas"

\* Where the loop goes once the capacity check has passed.
AfterCapacityCheck(required, t, h) ==
    IF required > ToBufferEnd(t) /\ required > Index(h) THEN "reloadHeadToWrap" ELSE "cas"

LoadTail(p) ==
    /\ pc[p] = "loadTail"
    /\ myTail' = [myTail EXCEPT ![p] = tail]
    /\ pc' = [pc EXCEPT ![p] =
                IF Required(p) > Capacity - (tail - myHead[p])
                THEN "reloadHead"
                ELSE AfterCapacityCheck(Required(p), tail, myHead[p])]
    /\ UNCHANGED <<trailer, buffer, myID, myLength, myHead, driverState, claims>>

ReloadHead(p) ==
    /\ pc[p] = "reloadHead"
    /\ myHead' = [myHead EXCEPT ![p] = head]
    /\ pc' = [pc EXCEPT ![p] =
                IF Required(p) > Capacity - (myTail[p] - head) THEN "failed" ELSE "storeHeadCache"]
    /\ UNCHANGED <<trailer, buffer, myID, myLength, myTail, driverState, claims>>

StoreHeadCache(p) ==
    /\ pc[p] = "storeHeadCache"
    /\ headCache' = myHead[p]
    /\ pc' = [pc EXCEPT ![p] = AfterCapacityCheck(Required(p), myTail[p], myHead[p])]
    /\ UNCHANGED <<tail, head, correlationID, buffer, locals, driverState, claims>>

ReloadHeadToWrap(p) ==
    /\ pc[p] = "reloadHeadToWrap"
    /\ myHead' = [myHead EXCEPT ![p] = head]
    /\ pc' = [pc EXCEPT ![p] =
                IF Required(p) > Index(head) THEN "failed" ELSE "storeHeadCacheToWrap"]
    /\ UNCHANGED <<trailer, buffer, myID, myLength, myTail, driverState, claims>>

StoreHeadCacheToWrap(p) ==
    /\ pc[p] = "storeHeadCacheToWrap"
    /\ headCache' = myHead[p]
    /\ pc' = [pc EXCEPT ![p] = "cas"]
    /\ UNCHANGED <<tail, head, correlationID, buffer, locals, driverState, claims>>

\* The records that a successful compare-and-set claims.
NewClaims(p) ==
    LET padding == PaddingFor(myTail[p], Required(p))
        record  == [start |-> RecordPosition(p), size |-> Required(p), id |-> myID[p]]
    IN IF padding = 0
       THEN <<record>>
       ELSE <<[start |-> myTail[p], size |-> padding, id |-> Padding], record>>

\* Mutated form: the new tail is stored without comparing.
ClaimByStore(p) ==
    /\ pc[p] = "cas"
    /\ tail' = RecordPosition(p) + Required(p)
    /\ claims' = claims \o NewClaims(p)
    /\ pc' = [pc EXCEPT ![p] = IF PaddingFor(myTail[p], Required(p)) = 0 THEN "header" ELSE "padding"]
    /\ UNCHANGED <<headCache, head, correlationID, buffer, locals, driverState>>

ClaimSucceeds(p) ==
    /\ pc[p] = "cas"
    /\ tail = myTail[p]
    /\ tail' = RecordPosition(p) + Required(p)
    /\ claims' = claims \o NewClaims(p)
    /\ pc' = [pc EXCEPT ![p] = IF PaddingFor(myTail[p], Required(p)) = 0 THEN "header" ELSE "padding"]
    /\ UNCHANGED <<headCache, head, correlationID, buffer, locals, driverState>>

\* Mutated form: the tail is loaded once, before the loop.
RetryWithOldTail(p) ==
    /\ pc[p] = "cas"
    /\ tail # myTail[p]
    /\ UNCHANGED vars

ClaimContended(p) ==
    /\ pc[p] = "cas"
    /\ tail # myTail[p]
    /\ pc' = [pc EXCEPT ![p] = "loadTail"]
    /\ UNCHANGED <<trailer, buffer, locals, driverState, claims>>

\* Write returns false: insufficientCapacity.
InsufficientCapacity(p) ==
    /\ pc[p] = "failed"
    /\ pc' = [pc EXCEPT ![p] = "idle"]
    /\ UNCHANGED <<trailer, buffer, locals, driverState, claims>>

-----------------------------------------------------------------------------
(* Write: filling the claimed record.                                      *)

\* Mutated form: no padding record is stored.
SkipPadding(p) ==
    /\ pc[p] = "padding"
    /\ pc' = [pc EXCEPT ![p] = "header"]
    /\ UNCHANGED <<trailer, buffer, locals, driverState, claims>>

WritePadding(p) ==
    /\ pc[p] = "padding"
    /\ lengthField' = [lengthField EXCEPT ![Index(myTail[p])] = ToBufferEnd(myTail[p])]
    /\ content' = [content EXCEPT ![Index(myTail[p])] = Padding]
    /\ pc' = [pc EXCEPT ![p] = "header"]
    /\ UNCHANGED <<trailer, locals, driverState, claims>>

\* Mutated form: the header is stored with its final, positive length.
WritePositiveHeader(p) ==
    /\ pc[p] = "header"
    /\ lengthField' = [lengthField EXCEPT ![RecordIndex(p)] = myLength[p] + HeaderLength]
    /\ content' = [content EXCEPT ![RecordIndex(p)] = myID[p]]
    /\ pc' = [pc EXCEPT ![p] = "payload"]
    /\ UNCHANGED <<trailer, locals, driverState, claims>>

WriteHeader(p) ==
    /\ pc[p] = "header"
    /\ lengthField' = [lengthField EXCEPT ![RecordIndex(p)] = -(myLength[p] + HeaderLength)]
    /\ content' = [content EXCEPT ![RecordIndex(p)] = myID[p]]
    /\ pc' = [pc EXCEPT ![p] = "payload"]
    /\ UNCHANGED <<trailer, locals, driverState, claims>>

PayloadWords(p) == WordsFrom(RecordIndex(p) + HeaderLength, Required(p) - HeaderLength)

WritePayload(p) ==
    /\ pc[p] = "payload"
    /\ lengthField' = [w \in Words |-> IF w \in PayloadWords(p) THEN PayloadInt32 ELSE lengthField[w]]
    /\ content' = [w \in Words |-> IF w \in PayloadWords(p) THEN myID[p] ELSE content[w]]
    /\ pc' = [pc EXCEPT ![p] = "commit"]
    /\ UNCHANGED <<trailer, locals, driverState, claims>>

\* Mutated form: the index is not reset to the start of the buffer after padding.
CommitBeforePadding(p) ==
    /\ pc[p] = "commit"
    /\ lengthField' = [lengthField EXCEPT ![Index(myTail[p])] = myLength[p] + HeaderLength]
    /\ pc' = [pc EXCEPT ![p] = "idle"]
    /\ UNCHANGED <<trailer, content, locals, driverState, claims>>

\* The positive length is what shows the record to the driver; Write then
\* returns true.
Commit(p) ==
    /\ pc[p] = "commit"
    /\ lengthField' = [lengthField EXCEPT ![RecordIndex(p)] = myLength[p] + HeaderLength]
    /\ pc' = [pc EXCEPT ![p] = "idle"]
    /\ UNCHANGED <<trailer, content, locals, driverState, claims>>

-----------------------------------------------------------------------------
(* The driver's reader (external).                                         *)

\* It reads committed records one after another, up to the end of the buffer.
\* The history keeps the set of commands found in the words of the record; a
\* padding record is skipped, whatever follows its header.
DriverRead ==
    LET index  == Index(readPosition)
        length == lengthField[index]
        size   == AlignInt32(length, Alignment)
    IN /\ driverPc = "read"
       /\ readPosition - head < ToBufferEnd(head)
       /\ length > 0
       /\ readPosition' = readPosition + size
       /\ consumed' = Append(consumed, IF content[index] = Padding
                                       THEN {Padding}
                                       ELSE {content[w] : w \in WordsFrom(index, size)})
       /\ UNCHANGED <<trailer, buffer, pc, locals, driverPc, claims>>

\* It zeroes what it has read, and only then
DriverZero ==
    LET read == WordsFrom(Index(head), readPosition - head)
    IN /\ driverPc = "read"
       /\ readPosition > head
       /\ lengthField' = [w \in Words |-> IF w \in read THEN 0 ELSE lengthField[w]]
       /\ content' = [w \in Words |-> IF w \in read THEN Zeroed ELSE content[w]]
       /\ driverPc' = "advance"
       /\ UNCHANGED <<trailer, pc, locals, readPosition, consumed, claims>>

\* moves the head position, which gives the space back to the producers.
DriverAdvance ==
    /\ driverPc = "advance"
    /\ head' = readPosition
    /\ driverPc' = "read"
    /\ UNCHANGED <<tail, headCache, correlationID, buffer, pc, locals, readPosition, consumed, claims>>

-----------------------------------------------------------------------------

ClaimStep(p) ==
    \/ LoadHeadCache(p) \/ LoadTail(p)
    \/ ReloadHead(p) \/ StoreHeadCache(p)
    \/ ReloadHeadToWrap(p) \/ StoreHeadCacheToWrap(p)
    \/ ClaimSucceeds(p) \/ ClaimContended(p) \/ InsufficientCapacity(p)

RecordStep(p) == WritePadding(p) \/ WriteHeader(p) \/ WritePayload(p) \/ Commit(p)

Driver == DriverRead \/ DriverZero \/ DriverAdvance

Next ==
    \/ \E p \in Producers :
          \/ \E n \in MsgLengths : NextCorrelationID(p, n)
          \/ ClaimStep(p)
          \/ RecordStep(p)
    \/ Driver

Spec == Init /\ [][Next]_vars

\* A goroutine that has called Write keeps running, and the driver keeps
\* polling.  Nothing makes a client send a command.
FairSpec ==
    /\ Spec
    /\ \A p \in Producers : WF_vars(ClaimStep(p) \/ RecordStep(p))
    /\ WF_vars(Driver)

-----------------------------------------------------------------------------
(* Properties.                                                             *)

Pcs == {"idle", "loadHeadCache", "loadTail", "reloadHead", "storeHeadCache",
        "reloadHeadToWrap", "storeHeadCacheToWrap", "cas", "failed",
        "padding", "header", "payload", "commit"}

\* Positions are aligned, so every record starts on a word.
Positions == {n \in Nat : n % Alignment = 0}

\* The trailer holds aligned positions, the record fields are int32 values, and
\* every producer is at a step of Write.
TypeOK ==
    /\ tail \in Positions /\ headCache \in Positions /\ head \in Positions
    /\ correlationID \in 1..(MaxCommands + 1)
    /\ lengthField \in [Words -> Int]
    /\ content \in [Words -> Int]
    /\ pc \in [Producers -> Pcs]
    /\ myID \in [Producers -> Nat]
    /\ myLength \in [Producers -> Nat]
    /\ myHead \in [Producers -> Positions]
    /\ myTail \in [Producers -> Positions]
    /\ readPosition \in Positions
    /\ driverPc \in {"read", "advance"}
    /\ consumed \in Seq(SUBSET Int)
    /\ claims \in Seq([start : Positions, size : Positions, id : Int])

\* A producer that holds a claim: its compare-and-set has succeeded and the
\* record is not committed yet.
HoldsClaim(p) == pc[p] \in {"padding", "header", "payload", "commit"}

\* The words the producer is still going to store to.
ClaimedWords(p) ==
    WordsFrom(RecordIndex(p), Required(p))
    \cup (IF pc[p] = "padding" THEN WordsFrom(Index(myTail[p]), ToBufferEnd(myTail[p])) ELSE {})

\* The words of the committed records the driver has read or may read next.
CommittedWords ==
    UNION {WordsFrom(Index(claims[i].start), claims[i].size) :
             i \in {j \in DOMAIN claims : /\ claims[j].start >= head
                                          /\ lengthField[Index(claims[j].start)] > 0}}

\* Whatever head a producer used (a stale cache, or a head that moved after it
\* was loaded), the compare-and-set of claimCapacity never claims more than
\* the ring holds, and the driver never reads beyond what was claimed.
NoOverrun ==
    /\ tail - head <= Capacity
    /\ head <= readPosition /\ readPosition <= tail

\* While producers fill the records they claimed, no two of them store to the
\* same word, none stores to a record the driver can read, and a record
\* never runs over the end of the buffer.
ExclusiveClaims ==
    \A p \in Producers : HoldsClaim(p) =>
        /\ RecordIndex(p) + Required(p) <= Capacity
        /\ ClaimedWords(p) \cap CommittedWords = {}
        /\ \A q \in Producers \ {p} :
              HoldsClaim(q) => ClaimedWords(p) \cap ClaimedWords(q) = {}

\* The driver gets every record whole, exactly once and in the order in which
\* the compare-and-sets succeeded: no record is read before its payload is
\* stored, none is skipped at the wrap, none is torn by a later claim.
ConsumedInClaimOrder ==
    /\ Len(consumed) <= Len(claims)
    /\ \A i \in DOMAIN consumed : consumed[i] = {claims[i].id}

\* A claimed command reaches the driver, although producers are descheduled
\* between the claim and the commit and records behind them are committed first.
ClaimedIsConsumed ==
    \A id \in 1..MaxCommands :
        (\E i \in DOMAIN claims : claims[i].id = id) ~> (\E i \in DOMAIN consumed : consumed[i] = {id})

\* Write returns: claimCapacity retries only after another producer has
\* claimed, so its loop ends.
WriteReturns == \A p \in Producers : pc[p] # "idle" ~> pc[p] = "idle"

\* The promise the ring buffer keeps: a queue of commands.  The ticket of a
\* command is its place among the claims; padding has none.
UnreadCommands == {i \in DOMAIN claims : i > Len(consumed) /\ claims[i].id # Padding}

TakenCommands == {i \in DOMAIN consumed : consumed[i] # {Padding}}

Slots == [i \in UnreadCommands |->
            [id |-> claims[i].id, committed |-> lengthField[Index(claims[i].start)] > 0]]

Taken == [i \in TakenCommands |-> CHOOSE id \in consumed[i] : TRUE]

Queue == INSTANCE CommandQueue WITH slots <- Slots, taken <- Taken

\* Every step of Write and of the driver is a step of the command queue, or
\* leaves the queue as it is.
ImplementsCommandQueue == Queue!Spec
=============================================================================
